----------------------------- MODULE DepegCache -----------------------------
(***************************************************************************)
(* The base virtual price of a depeg pool.  The pool records on chain the   *)
(* price of its stake pool and when it was read; the program and every      *)
(* StableSwap object of the client (ts-client/src/amm/curve/stable-swap.ts) *)
(* read the stake pool again once the record has expired.  The client does  *)
(* so in place, in the depeg object it decoded with the pool state, with    *)
(* the clock and the stake account that updateState                         *)
(* (ts-client/src/amm/index.ts) fetched at different moments.               *)
(*                                                                         *)
(* A price is represented by the time at which the stake pool had it.  One  *)
(* updateState runs at a time; overlapping calls are AmmClient's.           *)
(***************************************************************************)
EXTENDS Integers

CONSTANTS
    Expire,         \* BASE_CACHE_EXPIRE
    MaxTime,        \* bound on the clock of the chain
    Create          \* when the object was created

ASSUME DepegAssumption == Expire \in Nat /\ MaxTime \in Nat /\ Create \in 0..MaxTime

VARIABLES
    now,            \* the clock of the chain
    onChain,        \* the depeg record of the pool account
    pc,             \* where updateState stands
    answer,         \* the answer of its request on the way: the account as it was read
    poolDepeg,      \* this.poolState.curveType.stable.depeg
    currentTime,    \* this.accountsInfo.currentTime
    stake,          \* this.depegAccounts: when the stake account was read
    curveDepeg,     \* this.swapCurve.depeg, the same object as poolDepeg if shared
    shared,
    curveTime,      \* this.swapCurve.onChainTime
    curveStake,     \* this.swapCurve.extraAccounts
    torn,           \* history: which depeg objects ("pool", "curve") a swap quote has used
                    \* with an accountsInfo newer than the depegAccounts
    lastQuote       \* history: the price of the last quote, the time it was made for, and
                    \* whether it was made at rest or from a torn object

client == <<poolDepeg, currentTime, stake, curveDepeg, shared, curveTime, curveStake>>
vars == <<now, onChain, pc, answer, client, torn, lastQuote>>

Times == 0..MaxTime
Depeg == [price : Times, updated : Times]   \* baseVirtualPrice, baseCacheUpdated

Asking == {"poolState", "balances", "depegAccounts"}

\* Mutant: the record is stamped but the price is not read again.
RefreshedStampOnly(depeg, time, stakePrice) ==
    IF time > depeg.updated + Expire THEN [price |-> depeg.price, updated |-> time] ELSE depeg

\* Mutant: the record is stamped with the moment it expires.
RefreshedStampsExpiry(depeg, time, stakePrice) ==
    IF time > depeg.updated THEN [price |-> stakePrice, updated |-> time + Expire] ELSE depeg

\* StableSwap.updateDepegInfoIfExpired, and update_base_virtual_price of the program.
Refreshed(depeg, time, stakePrice) ==
    IF time > depeg.updated + Expire THEN [price |-> stakePrice, updated |-> time] ELSE depeg

Init ==
    /\ now = Create
    /\ onChain \in {d \in Depeg : d.price = d.updated /\ d.updated <= Create}
    /\ pc = "idle"
    /\ answer = {}
    /\ poolDepeg = Refreshed(onChain, Create, Create)
    /\ curveDepeg = poolDepeg /\ shared = TRUE
    /\ currentTime = Create /\ curveTime = Create
    /\ stake = Create /\ curveStake = Create
    /\ torn = {}
    /\ lastQuote = [price |-> Create, time |-> Create, rest |-> TRUE, torn |-> FALSE]

-----------------------------------------------------------------------------
(* The chain *)

Tick ==
    /\ now < MaxTime
    /\ now' = now + 1
    /\ UNCHANGED <<onChain, pc, answer, client, torn, lastQuote>>

\* Any instruction of the pool refreshes its record first.
ProgramRefresh ==
    /\ onChain' = Refreshed(onChain, now, now)
    /\ UNCHANGED <<now, pc, answer, client, torn, lastQuote>>

-----------------------------------------------------------------------------
(* updateState *)

UpdateState ==
    /\ pc = "idle"
    /\ pc' = "poolState" /\ answer' = {}
    /\ UNCHANGED <<now, onChain, client, torn, lastQuote>>

\* The node reads the account that is asked for; the answer arrives later.
Respond ==
    /\ pc \in Asking /\ answer = {}
    /\ answer' = {IF pc = "poolState" THEN onChain ELSE [price |-> now, updated |-> now]}
    /\ UNCHANGED <<now, onChain, pc, client, torn, lastQuote>>

PoolStateArrives ==
    /\ pc = "poolState" /\ answer # {}
    /\ \E depeg \in answer : poolDepeg' = depeg
    /\ shared' = FALSE /\ torn' = torn \ {"pool"}
    /\ pc' = "balances" /\ answer' = {}
    /\ UNCHANGED <<now, onChain, currentTime, stake, curveDepeg, curveTime, curveStake, lastQuote>>

BalancesArrive ==
    /\ pc = "balances" /\ answer # {}
    /\ \E read \in answer : currentTime' = read.updated
    /\ pc' = "depegAccounts" /\ answer' = {}
    /\ UNCHANGED <<now, onChain, poolDepeg, stake, curveDepeg, shared, curveTime, curveStake,
                   torn, lastQuote>>

\* Mutant: the new curve keeps the stake account of the one before.
CurveAccountsOfBefore(read) == curveStake

\* The accounts the new curve is given.
CurveAccounts(read) == read.price

\* The new curve is built around the depeg object of poolState, and poolInfo computes D
\* with it at once.
DepegAccountsArrive ==
    /\ pc = "depegAccounts" /\ answer # {}
    /\ \E read \in answer :
          /\ stake' = read.price /\ curveStake' = CurveAccounts(read)
          /\ poolDepeg' = Refreshed(poolDepeg, currentTime, CurveAccounts(read))
    /\ curveDepeg' = poolDepeg' /\ shared' = TRUE
    /\ curveTime' = currentTime
    /\ torn' = IF "pool" \in torn THEN {"pool", "curve"} ELSE {}
    /\ pc' = "idle" /\ answer' = {}
    /\ UNCHANGED <<now, onChain, currentTime, lastQuote>>

\* A request fails and the call rejects: what was assigned stays.
UpdateFails ==
    /\ pc \in Asking
    /\ pc' = "idle" /\ answer' = {}
    /\ UNCHANGED <<now, onChain, client, torn, lastQuote>>

-----------------------------------------------------------------------------
(* Quotes, synchronous and possible at any moment *)

\* accountsInfo has been assigned, depegAccounts not yet or never.
Halfway == stake < currentTime

\* No update is running, and the last one ended well.
AtRest == pc = "idle" /\ shared

\* getSwapQuote builds a curve of its own from the fields of the object.
SwapQuote ==
    /\ poolDepeg' = Refreshed(poolDepeg, currentTime, stake)
    /\ curveDepeg' = IF shared THEN poolDepeg' ELSE curveDepeg
    /\ torn' = torn \cup (IF Halfway THEN {"pool"} ELSE {})
    /\ lastQuote' = [price |-> poolDepeg'.price, time |-> currentTime,
                     rest |-> AtRest, torn |-> "pool" \in torn']
    /\ UNCHANGED <<now, onChain, pc, answer, currentTime, stake, shared, curveTime, curveStake>>

\* getDepositQuote, getWithdrawQuote and getMaxSwapInAmount ask the curve of the object.
CurveQuote ==
    /\ curveDepeg' = Refreshed(curveDepeg, curveTime, curveStake)
    /\ poolDepeg' = IF shared THEN curveDepeg' ELSE poolDepeg
    /\ lastQuote' = [price |-> curveDepeg'.price, time |-> curveTime,
                     rest |-> AtRest, torn |-> "curve" \in torn]
    /\ UNCHANGED <<now, onChain, pc, answer, currentTime, stake, shared, curveTime, curveStake,
                   torn>>

ClientNext ==
    \/ UpdateState \/ Respond \/ PoolStateArrives \/ BalancesArrive \/ DepegAccountsArrive
    \/ UpdateFails \/ SwapQuote \/ CurveQuote

Next == Tick \/ ProgramRefresh \/ ClientNext

Spec == Init /\ [][Next]_vars

-----------------------------------------------------------------------------
(* Properties *)

TypeOK ==
    /\ now \in Times /\ onChain \in Depeg /\ pc \in Asking \cup {"idle"}
    /\ answer \subseteq Depeg
    /\ poolDepeg \in Depeg /\ curveDepeg \in Depeg /\ shared \in BOOLEAN
    /\ {currentTime, stake, curveTime, curveStake} \subseteq Times
    /\ torn \subseteq {"pool", "curve"}
    /\ lastQuote \in [price : Times, time : Times, rest : BOOLEAN, torn : BOOLEAN]

Recent(quote) == quote.price + Expire >= quote.time

\* "BASE_CACHE_EXPIRE = 60 * 10": a quote made at rest, no update running and the last one
\* completed, does not price the staked token as it was longer than that before the moment
\* it is made for.  It may: a getSwapQuote between two awaits of updateState stamps the old
\* price with the new time, in the depeg object that the new curve is then built around.
RestedQuoteIsRecent == lastQuote.rest => Recent(lastQuote)

\* No quote prices the staked token as it was longer than the expiry time before the moment
\* it is made for, unless its depeg object was used by a getSwapQuote halfway through an
\* update (or after one that failed there): failures alone, late answers and quotes in other
\* moments of updateState do no harm.
RecentUnlessTorn == ~lastQuote.torn => Recent(lastQuote)

\* What a record says to be the price of a moment is not older than that moment, so that the
\* next refresh happens in time; only a torn quote breaks it.
StampsAreHonest ==
    /\ "pool" \notin torn => poolDepeg.price >= poolDepeg.updated
    /\ "curve" \notin torn => curveDepeg.price >= curveDepeg.updated
=============================================================================
