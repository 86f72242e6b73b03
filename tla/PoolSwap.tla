------------------------------ MODULE PoolSwap ------------------------------
(***************************************************************************)
(* A constant-product pool over two dynamic vaults, traded through the     *)
(* client's swap quote, while the vaults earn and unlock profit and their  *)
(* operator moves tokens between the reserve and the strategies.           *)
(*                                                                         *)
(* The on-chain handlers are stubs in this repository: what a landed swap  *)
(* moves is modelled from the amounts the quote computes for it (external).*)
(***************************************************************************)
EXTENDS LaunchQuote

CONSTANTS
    MaxTime,    \* bound on the clock
    MaxSteps,   \* bound on the number of trades and vault events
    Amounts,    \* the amounts swapped in
    Profits,    \* the profits a vault may report
    Totals,     \* the vaults' initial total amounts (their LP supply is LpSupply)
    LpSupply,   \* the initial LP supply of each vault
    PoolShare,  \* the pool's initial share of each vault's LP
    InitReserve,    \* the part of each vault's total not lent out at first
    LaunchDeposits  \* the amounts another pool may be launched with

ASSUME BoundsAssumption ==
    /\ MaxTime \in Nat /\ MaxSteps \in Nat
    /\ Amounts \subseteq Nat \ {0} /\ Profits \subseteq Nat /\ Totals \subseteq Nat \ {0}
    /\ LpSupply \in Nat \ {0} /\ PoolShare \in 1 .. LpSupply
    /\ InitReserve \in Nat /\ \A n \in Totals : InitReserve <= n
    /\ LaunchDeposits \subseteq Nat \ {0}

VARIABLES
    time,       \* the cluster clock (external)
    enabled,    \* pool.enabled
    vault,      \* vault[x] = [total, supply, locked, report]
    poolLp,     \* the pool's LP token balance in each vault
    reserve,    \* the balance of each vault's token account
    collected,  \* the pool's protocol fee token accounts
    steps       \* trades and vault events so far

vars == <<time, enabled, vault, poolLp, reserve, collected, steps>>

Snapshot == [time |-> time, enabled |-> enabled, vault |-> vault,
             poolLp |-> poolLp, reserve |-> reserve]

\* A pool launched now with these deposits (external: the handlers are stubs), where only
\* side x has a vault already: the new vault starts with one LP token per token.
Launched(x, deposits) ==
    LET y == Other(x)
        s == Deposited([vault |-> vault[x], lp |-> 0], deposits[x], time)
        new == [total |-> deposits[y], supply |-> deposits[y], locked |-> 0, report |-> 0]
    IN  [time |-> time, enabled |-> TRUE,
         vault |-> [z \in Sides |-> IF z = x THEN s.vault ELSE new],
         poolLp |-> [z \in Sides |-> IF z = x THEN s.lp ELSE deposits[y]],
         reserve |-> [z \in Sides |-> IF z = x THEN reserve[x] + deposits[x] ELSE deposits[y]]]

Init ==
    /\ time = 0
    /\ enabled = TRUE
    /\ \E a, b \in Totals :
          vault = [x \in Sides |-> [total |-> IF x = "A" THEN a ELSE b,
                                    supply |-> LpSupply, locked |-> 0, report |-> 0]]
    /\ poolLp = [x \in Sides |-> PoolShare]
    /\ reserve = [x \in Sides |-> InitReserve]
    /\ collected = [x \in Sides |-> 0]
    /\ steps = 0

Step == steps < MaxSteps /\ steps' = steps + 1

\* What a landed swap makes of a snapshot: the amount less the protocol fee is deposited to
\* the source vault for LP tokens of the pool, and LP tokens of the pool are burned for the
\* amount out.
AfterSwap(st, src, amount, q) ==
    LET dst == Other(src)
        net == amount - q.protocol
    IN  [st EXCEPT
          !.vault = [st.vault EXCEPT
              ![src].total = @ + net,   ![src].supply = @ + q.lpIn,
              ![dst].total = @ - q.out, ![dst].supply = @ - q.lpOut],
          !.poolLp = [st.poolLp EXCEPT ![src] = @ + q.lpIn, ![dst] = @ - q.lpOut],
          !.reserve = [st.reserve EXCEPT ![src] = @ + net, ![dst] = @ - q.out]]

Traded(src, amount, q) ==
    LET after == AfterSwap(Snapshot, src, amount, q) IN
    /\ vault' = after.vault /\ poolLp' = after.poolLp /\ reserve' = after.reserve
    /\ collected' = [collected EXCEPT ![src] = @ + q.protocol]

\* A client sends the swap it got a quote for; the program's amounts are unsigned.
Swap(src, amount, whitelisted) ==
    LET q == TsQuote(Snapshot, src, amount, whitelisted) IN
    /\ Step
    /\ q.ok /\ q.curveIn >= 0
    /\ Traded(src, amount, q)
    /\ UNCHANGED <<time, enabled>>

\* enable_or_disable_pool: the admin changes the flag, and only changes it.
EnableOrDisablePool(enable) ==
    /\ Step
    /\ enabled # enable
    /\ enabled' = enable
    /\ UNCHANGED <<time, vault, poolLp, reserve, collected>>

\* The vault program accounts a strategy's profit: it is locked, with what still was (external).
Report(x, profit) ==
    /\ Step
    /\ vault' = [vault EXCEPT ![x] =
          [vault[x] EXCEPT !.total = @ + profit,
                           !.locked = LockedProfit(vault[x], time) + profit,
                           !.report = time]]
    /\ UNCHANGED <<time, enabled, poolLp, reserve, collected>>

\* The vault operator moves liquidity to or from a strategy (external).
Rebalance(x) ==
    /\ Step
    /\ \E r \in {0, InitReserve, vault[x].total} :
          r <= vault[x].total /\ reserve' = [reserve EXCEPT ![x] = r]
    /\ UNCHANGED <<time, enabled, vault, poolLp, collected>>

Tick ==
    /\ time < MaxTime
    /\ time' = time + 1
    /\ UNCHANGED <<enabled, vault, poolLp, reserve, collected, steps>>

Next ==
    \/ \E src \in Sides, amount \in Amounts, w \in BOOLEAN : Swap(src, amount, w)
    \/ \E enable \in BOOLEAN : EnableOrDisablePool(enable)
    \/ \E x \in Sides : \E profit \in Profits : Report(x, profit)
    \/ \E x \in Sides : Rebalance(x)
    \/ Tick

Spec == Init /\ [][Next]_vars

-----------------------------------------------------------------------------
(* Properties *)

\* The pool's and the vaults' books are in range: no vault pays out more than it holds or
\* has unlocked, the divisors of the share arithmetic never become zero, the pool never
\* burns LP it does not own, and profit is never locked twice over.
TypeOK ==
    /\ time \in 0 .. MaxTime /\ enabled \in BOOLEAN /\ steps \in 0 .. MaxSteps
    /\ vault \in [Sides -> [total : Nat, supply : Nat, locked : Nat, report : Nat]]
    /\ poolLp \in [Sides -> Nat] /\ reserve \in [Sides -> Nat] /\ collected \in [Sides -> Nat]
    /\ \A x \in Sides :
          /\ vault[x].supply > 0 /\ vault[x].report <= time
          /\ UnlockedAmount(vault[x], time) \in 1 .. vault[x].total
          /\ poolLp[x] <= vault[x].supply
          /\ reserve[x] <= vault[x].total

PoolProduct == TokenAmount(Snapshot, "A") * TokenAmount(Snapshot, "B")

\* The product of the pool's two token amounts never falls: all the roundings between a
\* swap and the two vaults go the pool's way, and profit unlocking never takes any back.
KeepsPoolProduct == PoolProduct' >= PoolProduct
PoolProductNeverFalls == [][KeepsPoolProduct]_vars

\* An LP token of a vault is never worth less than before: the pool's deposits and
\* withdrawals are not paid by the vault's other depositors.
KeepsVaultShares ==
    \A x \in Sides :
        UnlockedAmount(vault'[x], time') * vault[x].supply
           >= UnlockedAmount(vault[x], time) * vault'[x].supply
VaultSharesNeverDiluted == [][KeepsVaultShares]_vars

\* The on-chain quote library never promises more than the client's quote for the same
\* snapshot (it rounds fees up and charges at least as much).
RustNeverAboveTs ==
    \A src \in Sides, amount \in Amounts :
        LET r == RustQuote(Snapshot, src, amount)
            q == TsQuote(Snapshot, src, amount, FALSE)
        IN  r.ok /\ q.ok => r.out <= q.out

\* Swapping and swapping the proceeds straight back never yields more than was put in.
RoundTripNeverGains ==
    \A src \in Sides, amount \in Amounts :
        LET q == TsQuote(Snapshot, src, amount, FALSE)
            back == TsQuote(AfterSwap(Snapshot, src, amount, q), Other(src), q.out, FALSE)
        IN  q.ok /\ q.curveIn >= 0 /\ q.out > 0 /\ back.ok => back.out <= amount

\* The quote a launcher gets for a swap that buys the new token before the pool exists is
\* what calculateSwapQuote answers once it does: imitating the deposits in the caller's
\* vault state rounds as the vault itself does, whatever profit it has locked or lent out.
LaunchQuoteIsExact ==
    \A x \in Sides, amount \in Amounts : \A deposits \in [Sides -> LaunchDeposits] :
        LET quoted == QuoteBeforeLaunch(vault[x], x, x, deposits, amount, time)
            then == TsQuote(Launched(x, deposits), x, amount, TRUE)
        IN  then.ok => quoted.ok /\ quoted.out = then.out
=============================================================================
