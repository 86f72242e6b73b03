----------------------------- MODULE AmmClient -----------------------------
(***************************************************************************)
(* The in-memory copy of a pool that an AmmImpl object keeps, and the       *)
(* asynchronous updateState() that refreshes it (ts-client/src/amm/index.ts)*)
(*                                                                         *)
(* updateState() awaits three times: a Promise.all over the pool account   *)
(* (two chained RPCs) and the two vaults, one getMultipleAccounts batch,   *)
(* and the depeg accounts.  Between two awaits the event loop is free to   *)
(* run other code on the same object, another updateState() included, and  *)
(* every RPC can be answered late or fail.  The fields are assigned at     *)
(* four different points.                                                  *)
(*                                                                         *)
(* What the accounts hold is abstracted to the slot at which they were     *)
(* read: a cached part is [slot, call], the slot its value is a snapshot   *)
(* of and the updateState() call that assigned it (Create for the object's *)
(* factory).  An RPC answers with the state of some slot between the       *)
(* moment it was sent and the moment its answer is processed.              *)
(***************************************************************************)
EXTENDS Integers, FiniteSets

CONSTANTS
    Calls,      \* the updateState() calls made on the object over its life
    Create,     \* stands for AmmImpl.create, which filled the object
    InitSlot,   \* the slot at which AmmImpl.create returned
    MaxSlot     \* bound on the chain's slot

ASSUME CreateAssumption == Create \notin Calls
ASSUME SlotAssumption == InitSlot \in Nat /\ MaxSlot \in Nat /\ InitSlot <= MaxSlot

VARIABLES
    slot,           \* the chain's current slot (external)
    pc,             \* where each updateState() call stands
    start,          \* the slot at which a call was made
    sent,           \* sent[c][r]: slot at which c's outstanding request r was sent
    local,          \* the local variables poolState and accountsInfoMap of a call
    poolState,      \* this.poolState; supply is the slot its lpSupply was read at
    vaultState,     \* this.vaultA.vaultState, this.vaultB.vaultState
    accountsInfo,   \* this.accountsInfo: reserves, LP supplies, clock
    depegAccounts,  \* this.depegAccounts
    swapCurve,      \* this.swapCurve, built from a pool state, the clock and depegAccounts
    poolInfo,       \* this.poolInfo, computed from accountsInfo and the vault states
    peers           \* history: the calls that were running while a call was running

cacheVars == <<poolState, vaultState, accountsInfo, depegAccounts, swapCurve, poolInfo>>
vars == <<slot, pc, start, sent, local, cacheVars, peers>>

None == -1
Vaults == {"vaultA", "vaultB"}
Requests == Vaults \cup {"pool", "supply", "batch", "depeg"}
RunningStates == {"gather", "batch", "depeg"}

Running(c) == pc[c] \in RunningStates
Rejected(c) == c \in Calls /\ pc[c] = "rejected"

\* The slots an answer processed now may be a snapshot of.
AnswerSlots(c, r) == IF sent[c][r] = None THEN {} ELSE sent[c][r] .. slot

\* AmmImpl.create reads the pool, its LP supply, the vaults, the batch and the
\* depeg accounts one after the other before the object exists.
CreatedFrom(p, l, v, a, d) ==
    /\ p <= l /\ l <= v /\ v <= a /\ a <= d
    /\ poolState = [slot |-> p, supply |-> l, call |-> Create]
    /\ vaultState = [w \in Vaults |-> [slot |-> v, call |-> Create]]
    /\ accountsInfo = [slot |-> a, call |-> Create]
    /\ depegAccounts = [slot |-> d, call |-> Create]
    /\ swapCurve = [pool |-> p, clock |-> a, call |-> Create]
    /\ poolInfo = [slot |-> a, vaults |-> [w \in Vaults |-> v], call |-> Create]

Init ==
    /\ slot = InitSlot
    /\ pc = [c \in Calls |-> "idle"]
    /\ start = [c \in Calls |-> 0]
    /\ sent = [c \in Calls |-> [r \in Requests |-> None]]
    /\ local = [c \in Calls |-> [pool |-> 0, supply |-> 0, accounts |-> 0]]
    /\ \E p, l, v, a, d \in 0 .. InitSlot : CreatedFrom(p, l, v, a, d)
    /\ peers = [c \in Calls |-> {}]

\* The chain moves on (external).
Tick ==
    /\ slot < MaxSlot
    /\ slot' = slot + 1
    /\ UNCHANGED <<pc, start, sent, local, cacheVars, peers>>

\* updateState() is called: up to its first await it sends three requests.
UpdateState(c) ==
    /\ pc[c] = "idle"
    /\ pc' = [pc EXCEPT ![c] = "gather"]
    /\ start' = [start EXCEPT ![c] = slot]
    /\ sent' = [sent EXCEPT ![c] = [r \in Requests |->
                   IF r \in Vaults \cup {"pool"} THEN slot ELSE None]]
    /\ peers' = [d \in Calls |->
                   IF d = c THEN {e \in Calls : Running(e)}
                   ELSE IF Running(d) THEN peers[d] \cup {c} ELSE peers[d]]
    /\ UNCHANGED <<slot, local, cacheVars>>

\* Mutant: the supply is not awaited before the pool state is returned.
PoolFetchedWithoutSupply(c) ==
    /\ pc[c] = "gather"
    /\ \E s \in AnswerSlots(c, "pool") :
          local' = [local EXCEPT ![c].pool = s, ![c].supply = None]
    /\ sent' = [sent EXCEPT ![c] = [@ EXCEPT !["pool"] = None]]
    /\ UNCHANGED <<slot, pc, start, cacheVars, peers>>

\* Mutant: the pool account is answered from a memo of an earlier fetch.
PoolFetchedFromMemo(c) ==
    /\ pc[c] = "gather"
    /\ sent[c]["pool"] # None
    /\ local' = [local EXCEPT ![c].pool = InitSlot - 1]
    /\ sent' = [sent EXCEPT ![c] = [@ EXCEPT !["pool"] = None, !["supply"] = slot]]
    /\ UNCHANGED <<slot, pc, start, cacheVars, peers>>

\* getPoolState: the pool account has arrived, its LP mint's supply is asked for.
PoolFetched(c) ==
    /\ pc[c] = "gather"
    /\ \E s \in AnswerSlots(c, "pool") : local' = [local EXCEPT ![c].pool = s]
    /\ sent' = [sent EXCEPT ![c] = [@ EXCEPT !["pool"] = None, !["supply"] = slot]]
    /\ UNCHANGED <<slot, pc, start, cacheVars, peers>>

\* getPoolState returns { ...poolState, lpSupply } to the Promise.all.
SupplyFetched(c) ==
    /\ pc[c] = "gather"
    /\ \E s \in AnswerSlots(c, "supply") : local' = [local EXCEPT ![c].supply = s]
    /\ sent' = [sent EXCEPT ![c] = [@ EXCEPT !["supply"] = None]]
    /\ UNCHANGED <<slot, pc, start, cacheVars, peers>>

\* refreshVaultState assigns vaultState as soon as its own answer arrives: also
\* when the Promise.all it belongs to has already been rejected.
VaultRefreshed(c, v) ==
    /\ \E s \in AnswerSlots(c, v) :
          vaultState' = [vaultState EXCEPT ![v] = [slot |-> s, call |-> c]]
    /\ sent' = [sent EXCEPT ![c] = [@ EXCEPT ![v] = None]]
    /\ UNCHANGED <<slot, pc, start, local, poolState, accountsInfo, depegAccounts,
                   swapCurve, poolInfo, peers>>

\* Mutant: the vault refreshes are started but not awaited.
GatheredWithoutVaults(c) ==
    /\ pc[c] = "gather"
    /\ \A r \in Requests \ Vaults : sent[c][r] = None
    /\ poolState' = [slot |-> local[c].pool, supply |-> local[c].supply, call |-> c]
    /\ pc' = [pc EXCEPT ![c] = "batch"]
    /\ sent' = [sent EXCEPT ![c] = [@ EXCEPT !["batch"] = slot]]
    /\ UNCHANGED <<slot, start, local, vaultState, accountsInfo, depegAccounts,
                   swapCurve, poolInfo, peers>>

\* The Promise.all is fulfilled: poolState is assigned and the batch is sent.
Gathered(c) ==
    /\ pc[c] = "gather"
    /\ \A r \in Requests : sent[c][r] = None
    /\ poolState' = [slot |-> local[c].pool, supply |-> local[c].supply, call |-> c]
    /\ pc' = [pc EXCEPT ![c] = "batch"]
    /\ sent' = [sent EXCEPT ![c] = [@ EXCEPT !["batch"] = slot]]
    /\ UNCHANGED <<slot, start, local, vaultState, accountsInfo, depegAccounts,
                   swapCurve, poolInfo, peers>>

\* The batch has arrived whole, from one slot: accountsInfo is assigned and the
\* depeg accounts are asked for.
AccountsFetched(c) ==
    /\ pc[c] = "batch"
    /\ \E s \in AnswerSlots(c, "batch") :
          /\ accountsInfo' = [slot |-> s, call |-> c]
          /\ local' = [local EXCEPT ![c].accounts = s]
    /\ pc' = [pc EXCEPT ![c] = "depeg"]
    /\ sent' = [sent EXCEPT ![c] = [@ EXCEPT !["batch"] = None, !["depeg"] = slot]]
    /\ UNCHANGED <<slot, start, poolState, vaultState, depegAccounts, swapCurve,
                   poolInfo, peers>>

\* The last segment up to calculatePoolInfo: depegAccounts and swapCurve are assigned.
DepegAnswered(c) ==
    /\ pc[c] = "depeg"
    /\ \E s \in AnswerSlots(c, "depeg") : depegAccounts' = [slot |-> s, call |-> c]
    /\ swapCurve' = [pool |-> local[c].pool, clock |-> local[c].accounts, call |-> c]
    /\ sent' = [sent EXCEPT ![c] = [@ EXCEPT !["depeg"] = None]]
    /\ UNCHANGED <<slot, start, local, poolState, vaultState, accountsInfo, peers>>

\* poolInfo is computed from the call's own local variables, but from the vault states
\* the object has now.
DepegFetched(c) ==
    /\ DepegAnswered(c)
    /\ poolInfo' = [slot |-> local[c].accounts,
                    vaults |-> [v \in Vaults |-> vaultState[v].slot], call |-> c]
    /\ pc' = [pc EXCEPT ![c] = "resolved"]

\* calculatePoolInfo throws: a stake account of a depegged pool is missing from
\* depegAccounts, or computeD divides by the empty side of a one-sided pool.
PoolInfoFailed(c) ==
    /\ DepegAnswered(c)
    /\ pc' = [pc EXCEPT ![c] = "rejected"]
    /\ UNCHANGED poolInfo

\* Mutant: the failure is caught and the call resolves with what it has.
RequestFailedSwallowed(c, r) ==
    /\ sent[c][r] # None
    /\ pc' = [pc EXCEPT ![c] = "resolved"]
    /\ sent' = [sent EXCEPT ![c] = [q \in Requests |->
                   IF q \in Vaults \ {r} THEN sent[c][q] ELSE None]]
    /\ UNCHANGED <<slot, start, local, cacheVars, peers>>

\* Mutant: the failure is lost and the promise stays pending.
RequestFailedUnhandled(c, r) ==
    /\ sent[c][r] # None
    /\ sent' = [sent EXCEPT ![c][r] = None]
    /\ UNCHANGED <<slot, pc, start, local, cacheVars, peers>>

\* A request fails, or an invariant() on its answer throws: the call is rejected at
\* its current await.  The vault refreshes of a rejected Promise.all stay in flight;
\* what getPoolState still does then has no effect, and is dropped.
RequestFailed(c, r) ==
    /\ sent[c][r] # None
    /\ pc' = [pc EXCEPT ![c] = "rejected"]
    /\ sent' = [sent EXCEPT ![c] = [q \in Requests |->
                   IF q \in Vaults \ {r} THEN sent[c][q] ELSE None]]
    /\ UNCHANGED <<slot, start, local, cacheVars, peers>>

Answered(c) ==
    \/ PoolFetched(c)
    \/ SupplyFetched(c)
    \/ \E v \in Vaults : VaultRefreshed(c, v)
    \/ AccountsFetched(c)
    \/ DepegFetched(c)
    \/ PoolInfoFailed(c)

Next ==
    \/ Tick
    \/ \E c \in Calls :
          \/ UpdateState(c)
          \/ Answered(c)
          \/ Gathered(c)
          \/ \E r \in Requests : RequestFailed(c, r)

Safety == Init /\ [][Next]_vars

\* Every request is eventually answered or fails (the transport gives up on a dead
\* connection), and the event loop runs the continuation of a settled await.
Settle(c) == Answered(c) \/ \E r \in Requests : RequestFailed(c, r)
Fairness == \A c \in Calls : WF_vars(Gathered(c)) /\ WF_vars(Settle(c))

Spec == Safety /\ Fairness

-----------------------------------------------------------------------------
(* Properties *)

Slots == 0 .. MaxSlot
Part == [slot : Slots, call : Calls \cup {Create}]

\* Every variable holds a value of its kind, and requests and snapshots carry slots.
TypeOK ==
    /\ slot \in Slots
    /\ pc \in [Calls -> RunningStates \cup {"idle", "resolved", "rejected"}]
    /\ start \in [Calls -> Slots]
    /\ sent \in [Calls -> [Requests -> Slots \cup {None}]]
    /\ local \in [Calls -> [pool : Slots, supply : Slots, accounts : Slots]]
    /\ poolState \in [slot : Slots, supply : Slots, call : Calls \cup {Create}]
    /\ vaultState \in [Vaults -> Part]
    /\ accountsInfo \in Part
    /\ depegAccounts \in Part
    /\ swapCurve \in [pool : Slots, clock : Slots, call : Calls \cup {Create}]
    /\ poolInfo \in [slot : Slots, vaults : [Vaults -> Slots], call : Calls \cup {Create}]
    /\ peers \in [Calls -> SUBSET Calls]

\* What was assigned from a snapshot of slot s by call writer is no older than call c,
\* or was assigned by a call that was running at the same time as c.
FreshOrPeer(s, writer, c) == s >= start[c] \/ writer \in peers[c]

FreshPool(c) ==
    /\ FreshOrPeer(poolState.slot, poolState.call, c)
    /\ FreshOrPeer(poolState.supply, poolState.call, c)
FreshAccounts(c) == FreshOrPeer(accountsInfo.slot, accountsInfo.call, c)
FreshDepeg(c) == FreshOrPeer(depegAccounts.slot, depegAccounts.call, c)
FreshDerived(c) ==
    /\ FreshOrPeer(swapCurve.pool, swapCurve.call, c)
    /\ FreshOrPeer(swapCurve.clock, swapCurve.call, c)
    /\ FreshOrPeer(poolInfo.slot, poolInfo.call, c)
\* A rejected call may still have a vault refresh in flight, and its answer is assigned.
FreshVault(c, v) ==
    \/ FreshOrPeer(vaultState[v].slot, vaultState[v].call, c)
    \/ Rejected(vaultState[v].call)

\* After updateState() resolves, nothing the object holds is older than the call, ever
\* again: only a call that overlapped it can have put something older there, or, for a
\* vault, the leftover refresh of a rejected call.
FreshUnlessOverlapped ==
    \A c \in Calls : pc[c] = "resolved" =>
        /\ FreshPool(c) /\ FreshAccounts(c) /\ FreshDepeg(c) /\ FreshDerived(c)
        /\ \A v \in Vaults : FreshVault(c, v)

\* No call is running, and the last one to assign poolState, if any did, ran alone and was
\* not rejected.
QuietAfterLoneUpdate ==
    /\ \A d \in Calls : ~Running(d)
    /\ poolState.call \in Calls => peers[poolState.call] = {} /\ ~Rejected(poolState.call)

\* The refresh that assigned the vault state belonged to a call that was rejected.
OfRejected(v) == Rejected(vaultState[v].call)

\* When no call is running and the last one to assign poolState ran alone and was not
\* rejected, the pool state, the batch, the depeg accounts, the curve and poolInfo are of
\* that call, and the pool was read no later than the clock it is used with.  So is each
\* vault (its lastReport is not in the clock's future), and poolInfo was computed from it,
\* EXCEPT a vault that the refresh of a rejected call assigned last: of that one it is only
\* known that it is no older than the rejected call.  It may be newer than the clock
\* (its lastReport then in the clock's future), older than the last call
\* (RetriedUpdateIsFresh), or another state than poolInfo was computed from.
CoherentWhenQuiet ==
    LET c == poolState.call IN
    QuietAfterLoneUpdate =>
        /\ accountsInfo.call = c /\ depegAccounts.call = c
        /\ swapCurve = [pool |-> poolState.slot, clock |-> accountsInfo.slot, call |-> c]
        /\ poolInfo.call = c /\ poolInfo.slot = accountsInfo.slot
        /\ poolState.slot <= accountsInfo.slot /\ accountsInfo.slot <= depegAccounts.slot
        /\ \A v \in Vaults :
              /\ ~OfRejected(v) => /\ vaultState[v].call = c
                                   /\ vaultState[v].slot <= accountsInfo.slot
                                   /\ vaultState[v].slot = poolInfo.vaults[v]
              /\ OfRejected(v) => vaultState[v].slot >= start[vaultState[v].call]

\* A step that makes a cached part older is one of a call that overlapped the call
\* whose value it replaces (or, for a vault, one of the two had been rejected).
Replaces(s, old, snew, new) == s <= snew \/ (old \in Calls /\ new \in peers[old])
AgesByOverlap ==
    /\ Replaces(poolState.slot, poolState.call, poolState'.slot, poolState'.call)
    /\ Replaces(accountsInfo.slot, accountsInfo.call, accountsInfo'.slot, accountsInfo'.call)
    /\ Replaces(depegAccounts.slot, depegAccounts.call, depegAccounts'.slot, depegAccounts'.call)
    /\ \A v \in Vaults :
          \/ Replaces(vaultState[v].slot, vaultState[v].call,
                      vaultState'[v].slot, vaultState'[v].call)
          \/ Rejected(vaultState[v].call) \/ Rejected(vaultState'[v].call)
OlderOnlyByOverlap == [][AgesByOverlap]_vars

\* Every call that was made settles, and nothing it sent stays unanswered.
EveryCallSettles ==
    \A c \in Calls :
        Running(c) ~> (~Running(c) /\ \A r \in Requests : sent[c][r] = None)

\* What "It updates the state of the pool" (index.ts, doc of updateState) promises of the
\* vault states to the code after the await, if it never overlaps two calls but calls again
\* after a rejected one: they are at least as recent as the call.
RetriedUpdateIsFresh ==
    \A c \in Calls : \A v \in Vaults :
        pc[c] = "resolved" /\ peers[c] = {} => vaultState[v].slot >= start[c]
=============================================================================
