----------------------------- MODULE Liquidity -----------------------------
(***************************************************************************)
(* Liquidity of a constant-product pool: getDepositQuote, deposit,          *)
(* getWithdrawQuote and withdraw of ts-client/src/amm/index.ts, on top of   *)
(* the pool and vaults of PoolSwap, which go on swapping, earning and       *)
(* lending in between.                                                     *)
(*                                                                         *)
(* A liquidity snapshot is a snapshot of SwapQuote with lp, the supply of  *)
(* the pool's LP tokens.  Slippage is zero: quote and transaction see the   *)
(* same state here.                                                        *)
(***************************************************************************)
EXTENDS PoolSwap

CONSTANTS
    DepositAmounts, \* the amounts deposited
    LpAmounts,      \* the LP tokens withdrawn
    InitLpSupplies  \* the LP supplies the pool may start with

\* The vaults have other depositors: what a vault does whose last LP token is burned is not
\* part of this repository.
ASSUME LiquidityAssumption ==
    /\ DepositAmounts \subseteq Nat \ {0} /\ LpAmounts \subseteq Nat \ {0}
    /\ InitLpSupplies \subseteq Nat \ {0}
    /\ PoolShare < LpSupply

VARIABLE lpSupply   \* the supply of the pool's LP tokens

liquidityVars == <<vars, lpSupply>>

Liquid == [time |-> time, enabled |-> enabled, vault |-> vault,
           poolLp |-> poolLp, reserve |-> reserve, lp |-> lpSupply]

-----------------------------------------------------------------------------
(* Arithmetic *)

\* getMinAmountWithSlippage by UNLOCK_AMOUNT_BUFFER, 0.998 percent: the factor of 9900.2
\* basis points is truncated by new BN.
BasisPoints == 10000
BufferFactor == 9900
Buffered(amount) == (amount * BufferFactor) \div BasisPoints

\* BN divRound: to the nearest, halves up.
DivRound(n, d) == (2 * n + d) \div (2 * d)
DivUp(n, d) == (n + d - 1) \div d

\* getShareByAmount and getAmountByShare, with and without roundUp; zero if there is
\* nothing to divide by.
Proportion(amount, num, den) == IF den = 0 THEN 0 ELSE (amount * num) \div den
ProportionRounded(amount, num, den) == IF den = 0 THEN 0 ELSE DivRound(amount * num, den)
ProportionUp(amount, num, den) == IF den = 0 THEN 0 ELSE DivUp(amount * num, den)

Unlocked(st, x) == UnlockedAmount(st.vault[x], st.time)

\* computeD of the constant-product curve: the integer square root.
ComputeD(a, b) == CHOOSE d \in 0 .. (a + b) : d * d <= a * b /\ a * b < (d + 1) * (d + 1)

-----------------------------------------------------------------------------
(* Quotes *)

\* Mutant: the vault LP tokens to be minted are taken for tokens.
ActualInShares(st, lp) ==
    [x \in Sides |-> ProportionRounded(lp, st.poolLp[x], st.lp)]
\* computeActualInAmount: what lp pool tokens cost, in tokens of each side.
ActualIn(st, lp) ==
    [x \in Sides |-> ProportionRounded(ProportionRounded(lp, st.poolLp[x], st.lp),
                                       Unlocked(st, x), st.vault[x].supply)]

\* The same rounded up in both divisions, as the parameter's name says.
ActualInUp(st, lp) ==
    [x \in Sides |-> ProportionUp(ProportionUp(lp, st.poolLp[x], st.lp),
                                  Unlocked(st, x), st.vault[x].supply)]

\* getDepositQuote of a balanced deposit given by amount tokens of side x.
BalancedDeposit(st, x, amount) ==
    LET share == Proportion(amount, st.lp, TokenAmount(st, x))
    IN  [lp |-> Buffered(share), in |-> ActualIn(st, share)]

\* getDepositQuote of a pool without liquidity.
FirstDeposit(a, b) == [lp |-> ComputeD(a, b), in |-> [x \in Sides |-> IF x = "A" THEN a ELSE b]]

\* The vault LP tokens of the pool that a withdrawal of lp burns.
\* Mutant: both sides are computed from the pool's LP tokens of vault A.
BurnOfVaultA(st, lp) == [x \in Sides |-> Proportion(lp, st.poolLp["A"], st.lp)]
\* Mutant: roundUp is passed.
BurnRounded(st, lp) == [x \in Sides |-> ProportionRounded(lp, st.poolLp[x], st.lp)]
Burn(st, lp) == [x \in Sides |-> Proportion(lp, st.poolLp[x], st.lp)]

\* What the burned vault LP tokens return.
\* Mutant: roundUp is passed.
ReturnedRounded(st, burn) ==
    [x \in Sides |-> ProportionRounded(burn[x], Unlocked(st, x), st.vault[x].supply)]
Returned(st, burn) ==
    [x \in Sides |-> Proportion(burn[x], Unlocked(st, x), st.vault[x].supply)]

\* getWithdrawQuote of a balanced withdrawal.
BalancedWithdrawal(st, lp) == [burn |-> Burn(st, lp), out |-> Returned(st, Burn(st, lp))]

\* calculatePoolInfo's virtualPriceRaw: what an LP token stands for on the curve, in units
\* of 1 / PricePrecision (2^64 in the code).
PricePrecision == 1024
VirtualPrice(st) ==
    IF st.lp = 0 THEN 0
    ELSE (PricePrecision * ComputeD(TokenAmount(st, "A"), TokenAmount(st, "B"))) \div st.lp

\* Mutant: what the price has grown by is not divided by the price.
UnclaimedFeeRaw(locked, perToken, pending, price) == locked * (price - perToken) + pending
\* calculateUnclaimedLockEscrowFee: the LP tokens by which the locked ones have earned.
UnclaimedFee(locked, perToken, pending, price) ==
    IF price = 0 THEN 0 ELSE BNDiv(locked * (price - perToken), price) + pending

\* getUserLockEscrow: the LP tokens that can be claimed, never more than the escrow's vault
\* holds.
Claimable(escrow, price) ==
    LET fee == UnclaimedFee(escrow.locked, escrow.perToken, escrow.pending, price)
    IN  IF fee > escrow.vault THEN escrow.vault ELSE fee

-----------------------------------------------------------------------------
(* What a landed transaction makes of a snapshot (external): vault deposits mint LP       *)
(* tokens for the pool, vault withdrawals burn them.                                      *)

\* The vaults after the pool deposited tokens for minted LP tokens (negative: withdrew).
Moved(v, tokens, minted) ==
    [x \in Sides |->
        [total |-> v[x].total + tokens[x], supply |-> v[x].supply + minted[x],
         locked |-> v[x].locked, report |-> v[x].report]]

\* st with what the pool holds changed by tokens and vault LP tokens on both sides and lp.
Changed(st, tokens, minted, lp) ==
    [time |-> st.time, enabled |-> st.enabled,
     vault |-> Moved(st.vault, tokens, minted),
     poolLp |-> [x \in Sides |-> st.poolLp[x] + minted[x]],
     reserve |-> [x \in Sides |-> st.reserve[x] + tokens[x]],
     lp |-> st.lp + lp]

AfterDeposit(st, in, lp) ==
    Changed(st, in,
            [x \in Sides |-> UnmintAmount(in[x], Unlocked(st, x), st.vault[x].supply)], lp)

AfterWithdrawal(st, lp, q) ==
    Changed(st, [x \in Sides |-> -q.out[x]], [x \in Sides |-> -q.burn[x]], -lp)

Becomes(st) ==
    /\ vault' = st.vault /\ poolLp' = st.poolLp
    /\ reserve' = st.reserve /\ lpSupply' = st.lp
    /\ UNCHANGED <<time, enabled, collected>>

-----------------------------------------------------------------------------

LiquidityInit == Init /\ lpSupply \in InitLpSupplies

\* A balanced deposit of a fresh quote lands: the program takes what the LP tokens cost,
\* rounded as the client does or up, unless that exceeds the amounts of the quote.
Deposit(x, amount) ==
    LET q == BalancedDeposit(Liquid, x, amount) IN
    /\ Step
    /\ enabled /\ lpSupply > 0 /\ q.lp > 0
    /\ \E cost \in {ActualIn(Liquid, q.lp), ActualInUp(Liquid, q.lp)} :
          /\ \A y \in Sides : cost[y] <= q.in[y]
          /\ Becomes(AfterDeposit(Liquid, cost, q.lp))

\* The LP supply is zero: deposit sends bootstrapLiquidity.
BootstrapLiquidity(a, b) ==
    LET q == FirstDeposit(a, b) IN
    /\ Step
    /\ enabled /\ lpSupply = 0
    /\ Becomes(AfterDeposit(Liquid, q.in, q.lp))

\* A balanced withdrawal lands, also when the pool is disabled, if the vaults' token
\* accounts hold enough.
Withdraw(lp) ==
    LET q == BalancedWithdrawal(Liquid, lp) IN
    /\ Step
    /\ lp <= lpSupply
    /\ \A x \in Sides : q.out[x] <= reserve[x]
    /\ Becomes(AfterWithdrawal(Liquid, lp, q))

LiquidityNext ==
    \/ Next /\ UNCHANGED lpSupply
    \/ \E x \in Sides, amount \in DepositAmounts : Deposit(x, amount)
    \/ \E a, b \in DepositAmounts : BootstrapLiquidity(a, b)
    \/ \E lp \in LpAmounts \cup {lpSupply} : lp > 0 /\ Withdraw(lp)

LiquiditySpec == LiquidityInit /\ [][LiquidityNext]_liquidityVars

-----------------------------------------------------------------------------
(* Properties *)

\* The books of pool and vaults stay in range, and when the last LP token is withdrawn
\* nothing of the pool stays stranded in its vaults.
BooksOK ==
    /\ TypeOK
    /\ lpSupply \in Nat
    /\ lpSupply = 0 => \A x \in Sides : poolLp[x] = 0

\* A withdrawal never takes from those who stay: of neither vault does an LP token of the
\* pool stand for less than before.
LeavesOthersWhole ==
    lpSupply' \in 1 .. (lpSupply - 1) =>
        \A x \in Sides : poolLp'[x] * lpSupply >= poolLp[x] * lpSupply'
WithdrawalLeavesOthersWhole == [][LeavesOthersWhole]_liquidityVars

\* Depositing the amounts of a quote and withdrawing the LP tokens it promised never
\* returns more than was deposited, of either token whose vault LP tokens stand for at most
\* DearShare tokens.  (A dearer one, of which the vault mints whole ones only, may gain.)
DearShare == 2
DepositThenWithdrawNeverGains ==
    \A x \in Sides, amount \in DepositAmounts :
        LET q == BalancedDeposit(Liquid, x, amount)
            back == BalancedWithdrawal(AfterDeposit(Liquid, q.in, q.lp), q.lp)
        IN  lpSupply > 0 /\ q.lp > 0 =>
                \A y \in Sides : Unlocked(Liquid, y) <= DearShare * vault[y].supply =>
                                   back.out[y] <= q.in[y]

\* Withdrawing in two steps never returns more than withdrawing at once, although what the
\* first step leaves behind by rounding raises what the second is worth.
SplitWithdrawalNeverGains ==
    \A l, k \in LpAmounts :
        l + k <= lpSupply =>
            LET first == BalancedWithdrawal(Liquid, l)
                second == BalancedWithdrawal(AfterWithdrawal(Liquid, l, first), k)
                atOnce == BalancedWithdrawal(Liquid, l + k)
            IN  \A x \in Sides : first.out[x] + second.out[x] <= atOnce.out[x]

\* The LP tokens a locked position can claim never fall below what they were by more than
\* one, whatever lands in the pool, unless the position counts more LP tokens than the pool
\* has in a vault: only the rounding of the virtual price, which takes the pool's invariant,
\* makes the unclaimed fee negative.  (A finer LP token than the vault's also loses what a
\* deposit or a withdrawal rounds to whole vault LP tokens.)
ClaimableFallsByRoundingOnly ==
    [][\A l \in {lpSupply, lpSupply'} :
          /\ l > 0 /\ l <= lpSupply /\ l <= lpSupply'
          /\ \A x \in Sides : l <= poolLp[x] /\ l <= poolLp'[x]
          => Claimable([locked |-> l, perToken |-> VirtualPrice(Liquid), pending |-> 0,
                        vault |-> l], VirtualPrice(Liquid')) >= -1]_liquidityVars
=============================================================================
