----------------------------- MODULE StableSwap -----------------------------
(***************************************************************************)
(* A stable pool that trades as StableSwap                                  *)
(* (ts-client/src/amm/curve/stable-swap.ts) quotes: swaps, one-sided        *)
(* deposits and withdrawals in any order, and a base virtual price that     *)
(* moves between them.  The pool's amounts are tokens: what the vaults make *)
(* of them is VaultMath's, and the protocol's cut of a fee is zero.         *)
(***************************************************************************)
EXTENDS StableMath

CONSTANTS
    Kinds,          \* the pools: [multiplier, depegged]
    StartReserves,  \* reserves after the first deposit
    Prices,         \* base virtual prices
    Precision,      \* PRECISION of a base virtual price
    SwapAmounts, DepositAmounts, LpAmounts,
    MinReserve,     \* bounds on each scaled reserve: no operation on a pool that holds less
    MaxReserve,     \* than MinReserve of a token, none leads to one above MaxReserve
    MaxSteps        \* bound on the operations of a behaviour

ASSUME StablePoolAssumption ==
    /\ \A kind \in Kinds : kind.multiplier \in [Tokens -> Nat \ {0}] /\ kind.depegged \in BOOLEAN
    /\ StartReserves \subseteq [Tokens -> Nat \ {0}]
    /\ Prices \subseteq Nat \ {0} /\ Precision \in Nat \ {0}
    /\ SwapAmounts \subseteq Nat /\ LpAmounts \subseteq Nat
    /\ DepositAmounts \subseteq [Tokens -> Nat]
    /\ MinReserve \in Nat \ {0} /\ MaxReserve \in Nat /\ MaxSteps \in Nat

VARIABLES
    kind,           \* tokenMultiplier and depegType of the pool
    price,          \* depeg.baseVirtualPrice
    reserves,       \* what the pool holds of each token
    supply,         \* LP tokens
    steps           \* operations so far

vars == <<kind, price, reserves, supply, steps>>

\* What upscaleTokenA and upscaleTokenB multiply by.
Scale(k, p) ==
    [t \in Tokens |-> k.multiplier[t] * (IF ~k.depegged THEN 1
                                         ELSE IF t = "A" THEN Precision ELSE p)]

scale == Scale(kind, price)
Balances == UpscaledReserves(reserves, scale)

\* StableSwap.computeD
InvariantD(r, k, p) ==
    D(UpscaledReserves(r, Scale(k, p))) \div (IF k.depegged THEN Precision ELSE 1)

Fits(r) == \A t \in Tokens : Upscale(r[t], t, scale) <= MaxReserve

\* calculateTradingFee
TradingFee(n) == (n * FeeNumerator) \div FeeDenominator

SwapOut(token, n) == OutAmount(token, n - TradingFee(n), reserves, scale)

Init ==
    /\ kind \in Kinds
    /\ price \in (IF kind.depegged THEN Prices ELSE {Precision})
    /\ reserves \in StartReserves /\ Fits(reserves)
    /\ supply = InvariantD(reserves, kind, price)
    /\ steps = 0

Large == \A t \in Tokens : Balances[t] >= MinReserve

\* A quote that divides by zero throws, so that nothing is sent: the amounts below are numbers.
Step == Large /\ steps < MaxSteps /\ steps' = steps + 1

Swap(token, n) ==
    LET out == SwapOut(token, n)
        after == [reserves EXCEPT ![token] = @ + n, ![OtherToken(token)] = @ - out]
    IN  /\ Step
        /\ out > 0 /\ Fits(after)
        /\ reserves' = after
        /\ UNCHANGED <<kind, price, supply>>

Deposit(amounts) ==
    LET mint == ImbalanceDeposit(amounts, reserves, supply, scale)
        after == [t \in Tokens |-> reserves[t] + amounts[t]]
    IN  /\ Step
        /\ mint \in Nat \ {0} /\ Fits(after)
        /\ reserves' = after /\ supply' = supply + mint
        /\ UNCHANGED <<kind, price>>

Withdraw(token, lp) ==
    LET out == WithdrawOne(token, lp, reserves, supply, scale)
    IN  /\ Step
        /\ lp < supply /\ out \in Nat \ {0}
        /\ reserves' = [reserves EXCEPT ![token] = @ - out] /\ supply' = supply - lp
        /\ UNCHANGED <<kind, price>>

\* The stake pool earns, or is slashed, and the record of its price expires.
PriceMoves ==
    /\ Step /\ kind.depegged
    /\ price' \in Prices \ {price}
    /\ UNCHANGED <<kind, reserves, supply>>

Next ==
    \/ \E token \in Tokens, n \in SwapAmounts : Swap(token, n)
    \/ \E amounts \in DepositAmounts : Deposit(amounts)
    \/ \E token \in Tokens, lp \in LpAmounts : Withdraw(token, lp)
    \/ PriceMoves

Spec == Init /\ [][Next]_vars

-----------------------------------------------------------------------------
(* Reference: the equation of the curve with two tokens, without divisions *)

\* d is at most the invariant of the balances x and y.
AtMostInvariant(d, x, y) ==
    d * d * d + 4 * x * y * (Ann - 1) * d <= 4 * x * y * Ann * (x + y)

\* y is at most the solution of y * (y + b) = c.
AtMostSolution(y, b, c) == y * (y + b) <= c

-----------------------------------------------------------------------------
(* Properties *)

\* The pool never pays out its last token, whichever way it is asked, and LP tokens are left.
TypeOK ==
    /\ kind \in Kinds /\ price \in Prices \cup {Precision}
    /\ reserves \in [Tokens -> 1..MaxReserve]
    /\ supply \in Nat \ {0}
    /\ steps \in 0..MaxSteps

\* computeD and computeY return what they have after MAX_ITERS iterations without saying
\* whether that is a solution: for every pool that operations lead to, and every swap asked
\* of it, they have converged, to the whole number below the solution or the one after it.
NewtonIsExact ==
    Large =>
    LET d == D(Balances)
    IN  /\ AtMostInvariant(d - 1, Balances["A"], Balances["B"])
        /\ ~AtMostInvariant(d + 1, Balances["A"], Balances["B"])
        /\ \A token \in Tokens, n \in SwapAmounts :
              LET x == Balances[token] + Upscale(n, token, scale)
                  y == ComputeY(x, d)
              IN  /\ AtMostSolution(y - 1, LinearTerm(x, d), ConstantTerm(x, d))
                  /\ ~AtMostSolution(y + 1, LinearTerm(x, d), ConstantTerm(x, d))

\* A swap never lowers the exact invariant of the pool, although D, y and both scalings are
\* rounded: no sequence of swaps drains what backs the LP tokens.
SwapsKeepInvariant ==
    [][supply' = supply /\ price' = price
       => \A d \in D(Balances) - 1 .. D(Balances) + 1 :
             AtMostInvariant(d, Balances["A"], Balances["B"])
             => AtMostInvariant(d, Balances'["A"], Balances'["B"])]_vars

\* Swapping there and back, nobody between and no fee charged, returns at most one unit more
\* than was paid: the unit that D may be too high by.
RoundTripGainsAtMostOne ==
    Large => \A token \in Tokens, n \in SwapAmounts :
        LET out == OutAmount(token, n, reserves, scale)
            other == OtherToken(token)
            after == [reserves EXCEPT ![token] = @ + n, ![other] = @ - out]
        IN  out > 0 => OutAmount(other, out, after, scale) <= n + 1

\* Depositing one token and withdrawing the other gives what a swap gives, but for the
\* rounding of the three quotes (two units of the finer token): the fees on the two parts
\* add up to the fee of the swap.
DetourSavesNoFee ==
    Large => \A token \in Tokens, n \in SwapAmounts :
        LET other == OtherToken(token)
            deposit == [t \in Tokens |-> IF t = token THEN n ELSE 0]
            mint == ImbalanceDeposit(deposit, reserves, supply, scale)
            after == [t \in Tokens |-> reserves[t] + deposit[t]]
        IN  mint > 0 => WithdrawOne(other, mint, after, supply + mint, scale)
                           <= SwapOut(token, n) + 2

\* What computeInAmount asks for dest is at most two units, for the rounding of D and y,
\* above any payment that buys it.
AsksNoMore(token, dest) ==
    \A n \in SwapAmounts : OutAmount(token, n, reserves, scale) >= dest =>
        InAmount(token, dest, reserves, scale) <= n + 2

\* computeInAmount, in a pool whose tokens need no scaling: paying what it says, and two units
\* for the rounding of D and y, buys what was asked, and no smaller payment would have.
InAmountBuysAsked ==
    Large /\ scale = [t \in Tokens |-> 1] =>
        \A token \in Tokens, dest \in SwapAmounts :
            dest < reserves[OtherToken(token)] =>
                /\ OutAmount(token, InAmount(token, dest, reserves, scale) + 2, reserves, scale)
                       >= dest
                /\ AsksNoMore(token, dest)

\* computeOutAmountWithoutSlippage is the amount out at the price before the swap, so that
\* the price impact (getPriceImpact) of a swap is not negative, beyond one unit of rounding.
ImpactNotNegative ==
    Large => \A token \in Tokens, n \in SwapAmounts :
        OutAmount(token, n, reserves, scale)
            <= OutAmountWithoutSlippage(token, n, reserves, scale) + 1
=============================================================================
