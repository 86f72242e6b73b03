-------------------------- MODULE AmmClient_proofs --------------------------
(***************************************************************************)
(* Proofs about AmmClient, for any set of calls and any bound on the slot: *)
(* type correctness; that what an awaited updateState() leaves in the      *)
(* object is at least as recent as the call, up to the calls that          *)
(* overlapped it; that the parts of the object belong together once every  *)
(* call has ended with none overlapping, up to a vault state that a        *)
(* rejected call's refresh has assigned; and that only an overlapping call *)
(* can put an older generation in place of a newer one.                    *)
(***************************************************************************)
EXTENDS AmmClient, TLAPS

(***************************************************************************)
(* The inductive invariant.                                                *)
(***************************************************************************)

\* No slot that anything was sent, read or called at is in the future, and what a
\* call sends or reads is not older than the call.
SentInCall ==
    \A c \in Calls :
        /\ start[c] <= slot
        /\ \A r \in Requests : sent[c][r] # None => start[c] <= sent[c][r] /\ sent[c][r] <= slot

\* A call that was not made has sent nothing.
SentAfterCall ==
    \A c \in Calls : \A r \in Requests : sent[c][r] # None => pc[c] # "idle"

\* A vault refresh is outstanding only while the Promise.all waits for it, or after
\* its call was rejected.
VaultRequests ==
    \A c \in Calls : \A v \in Vaults :
        sent[c][v] # None => pc[c] \in {"gather", "rejected"}

\* The local variables a call has assigned are not older than the call.
LocalsFresh ==
    \A c \in Calls :
        /\ pc[c] = "gather" /\ sent[c]["pool"] = None => local[c].pool >= start[c]
        /\ pc[c] = "gather" /\ sent[c]["pool"] = None /\ sent[c]["supply"] = None
              => local[c].supply >= start[c]
        /\ pc[c] \in {"batch", "depeg"} => local[c].pool >= start[c]
        /\ pc[c] = "depeg" => local[c].accounts >= start[c]

\* A running call is a peer of every call made at a later slot.
PeersComplete ==
    \A c, d \in Calls :
        Running(d) /\ pc[c] # "idle" /\ start[d] < start[c] => d \in peers[c]

\* FreshUnlessOverlapped, for each part from the moment the call has assigned it.
FreshByStage ==
    \A c \in Calls :
        /\ pc[c] \in RunningStates \cup {"resolved"} =>
              \A v \in Vaults : sent[c][v] = None => FreshVault(c, v)
        /\ pc[c] \in {"batch", "depeg", "resolved"} => FreshPool(c)
        /\ pc[c] \in {"depeg", "resolved"} => FreshAccounts(c)
        /\ pc[c] = "resolved" => FreshDepeg(c) /\ FreshDerived(c)

IInv ==
    /\ TypeOK
    /\ SentInCall /\ SentAfterCall /\ VaultRequests /\ LocalsFresh
    /\ PeersComplete /\ FreshByStage

(***************************************************************************)
(* Type correctness.                                                       *)
(***************************************************************************)

\* The initial state, whatever slots AmmImpl.create read at, is type correct.
LEMMA InitType == Init => TypeOK
<1> SUFFICES ASSUME Init PROVE TypeOK
  OBVIOUS
<1>1. InitSlot \in Slots /\ 0 \in Slots /\ (0 .. InitSlot) \subseteq Slots
  BY SlotAssumption DEF Slots
<1>2. PICK p, l, v, a, d \in 0 .. InitSlot : CreatedFrom(p, l, v, a, d)
  BY DEF Init
<1> QED
  BY <1>1, <1>2 DEF Init, CreatedFrom, TypeOK, Part, Requests, RunningStates

\* What an answer can be a snapshot of.
LEMMA AnswerType ==
    ASSUME TypeOK, NEW c \in Calls, NEW r \in Requests, NEW s \in AnswerSlots(c, r)
    PROVE  /\ s \in Slots /\ sent[c][r] # None
           /\ sent[c][r] \in Slots /\ sent[c][r] <= s /\ s <= slot
<1>1. sent[c][r] # None /\ s \in sent[c][r] .. slot
  BY DEF AnswerSlots
<1>2. sent[c][r] \in Slots /\ slot \in Slots
  BY <1>1 DEF TypeOK
<1> QED
  BY <1>1, <1>2, SlotAssumption DEF Slots

\* Every step keeps the state well formed.
LEMMA NextType == TypeOK /\ [Next]_vars => TypeOK'
<1> SUFFICES ASSUME TypeOK, [Next]_vars PROVE TypeOK'
  OBVIOUS
<1> USE DEF TypeOK, Part, RunningStates, cacheVars
<1>1. CASE Tick
  BY <1>1, SlotAssumption DEF Tick, Slots
<1>2. ASSUME NEW c \in Calls, UpdateState(c) PROVE TypeOK'
  BY <1>2 DEF UpdateState, Running
<1>3. ASSUME NEW c \in Calls, PoolFetched(c) PROVE TypeOK'
  <2>1. PICK s \in AnswerSlots(c, "pool") : local' = [local EXCEPT ![c].pool = s]
    BY <1>3 DEF PoolFetched
  <2>2. s \in Slots
    BY <2>1, AnswerType DEF Requests
  <2>3. local' \in [Calls -> [pool : Slots, supply : Slots, accounts : Slots]]
    BY <2>1, <2>2
  <2>4. sent' \in [Calls -> [Requests -> Slots \cup {None}]]
    BY <1>3 DEF PoolFetched, Requests
  <2> QED
    BY <1>3, <2>1, <2>2, <2>3, <2>4 DEF PoolFetched
<1>4. ASSUME NEW c \in Calls, SupplyFetched(c) PROVE TypeOK'
  <2>1. PICK s \in AnswerSlots(c, "supply") : local' = [local EXCEPT ![c].supply = s]
    BY <1>4 DEF SupplyFetched
  <2>2. s \in Slots
    BY <2>1, AnswerType DEF Requests
  <2>3. local' \in [Calls -> [pool : Slots, supply : Slots, accounts : Slots]]
    BY <2>1, <2>2
  <2>4. sent' \in [Calls -> [Requests -> Slots \cup {None}]]
    BY <1>4 DEF SupplyFetched, Requests
  <2> QED
    BY <1>4, <2>1, <2>2, <2>3, <2>4 DEF SupplyFetched
<1>5. ASSUME NEW c \in Calls, NEW v \in Vaults, VaultRefreshed(c, v) PROVE TypeOK'
  <2>1. PICK s \in AnswerSlots(c, v) :
            vaultState' = [vaultState EXCEPT ![v] = [slot |-> s, call |-> c]]
    BY <1>5 DEF VaultRefreshed
  <2>2. s \in Slots
    BY <2>1, AnswerType DEF Requests
  <2> QED
    BY <1>5, <2>1, <2>2 DEF VaultRefreshed
<1>6. ASSUME NEW c \in Calls, Gathered(c) PROVE TypeOK'
  BY <1>6 DEF Gathered
<1>7. ASSUME NEW c \in Calls, AccountsFetched(c) PROVE TypeOK'
  <2>1. PICK s \in AnswerSlots(c, "batch") :
            /\ accountsInfo' = [slot |-> s, call |-> c]
            /\ local' = [local EXCEPT ![c].accounts = s]
    BY <1>7 DEF AccountsFetched
  <2>2. s \in Slots
    BY <2>1, AnswerType DEF Requests
  <2>3. local' \in [Calls -> [pool : Slots, supply : Slots, accounts : Slots]]
    BY <2>1, <2>2
  <2>4. sent' \in [Calls -> [Requests -> Slots \cup {None}]]
    BY <1>7 DEF AccountsFetched, Requests
  <2> QED
    BY <1>7, <2>1, <2>2, <2>3, <2>4 DEF AccountsFetched
<1>8. ASSUME NEW c \in Calls, DepegFetched(c) PROVE TypeOK'
  <2>1. PICK s \in AnswerSlots(c, "depeg") : depegAccounts' = [slot |-> s, call |-> c]
    BY <1>8 DEF DepegFetched, DepegAnswered
  <2>2. s \in Slots
    BY <2>1, AnswerType DEF Requests
  <2> QED
    BY <1>8, <2>1, <2>2 DEF DepegFetched, DepegAnswered
<1>9. ASSUME NEW c \in Calls, PoolInfoFailed(c) PROVE TypeOK'
  <2>1. PICK s \in AnswerSlots(c, "depeg") : depegAccounts' = [slot |-> s, call |-> c]
    BY <1>9 DEF PoolInfoFailed, DepegAnswered
  <2>2. s \in Slots
    BY <2>1, AnswerType DEF Requests
  <2> QED
    BY <1>9, <2>1, <2>2 DEF PoolInfoFailed, DepegAnswered
<1>10. ASSUME NEW c \in Calls, NEW r \in Requests, RequestFailed(c, r) PROVE TypeOK'
  BY <1>10 DEF RequestFailed
<1>11. CASE UNCHANGED vars
  BY <1>11 DEF vars
<1> QED
  BY <1>1, <1>2, <1>3, <1>4, <1>5, <1>6, <1>7, <1>8, <1>9, <1>10, <1>11 DEF Next, Answered

\* Every reachable state of the object and of its updateState() calls is well formed.
THEOREM TypeCorrect == Safety => []TypeOK
BY InitType, NextType, PTL DEF Safety

(***************************************************************************)
(* The parts of the inductive invariant.                                   *)
(***************************************************************************)

\* The inductive invariant holds when AmmImpl.create has returned: no call has been made.
LEMMA InitInv == Init => IInv
<1> SUFFICES ASSUME Init PROVE IInv
  OBVIOUS
<1>1. TypeOK
  BY InitType
<1>2. \A c \in Calls : pc[c] = "idle" /\ start[c] = 0 /\ \A r \in Requests : sent[c][r] = None
  BY DEF Init
<1>3. slot \in Nat
  BY SlotAssumption DEF Init
<1> QED
  BY <1>1, <1>2, <1>3 DEF IInv, SentInCall, SentAfterCall, VaultRequests, LocalsFresh, PeersComplete,
     FreshByStage, Running, RunningStates, Requests, Vaults

\* Requests are sent within their call, and slots only grow.
LEMMA SentInCallStep == IInv /\ [Next]_vars => SentInCall'
<1> SUFFICES ASSUME IInv, [Next]_vars PROVE SentInCall'
  OBVIOUS
<1> USE SlotAssumption DEF IInv, SentInCall, TypeOK, Slots, None
<1>1. CASE Tick
  BY <1>1 DEF Tick
<1>2. ASSUME NEW c \in Calls, UpdateState(c) PROVE SentInCall'
  BY <1>2 DEF UpdateState
<1>3. ASSUME NEW c \in Calls, PoolFetched(c) PROVE SentInCall'
  BY <1>3 DEF PoolFetched
<1>4. ASSUME NEW c \in Calls, SupplyFetched(c) PROVE SentInCall'
  BY <1>4 DEF SupplyFetched
<1>5. ASSUME NEW c \in Calls, NEW v \in Vaults, VaultRefreshed(c, v) PROVE SentInCall'
  BY <1>5 DEF VaultRefreshed
<1>6. ASSUME NEW c \in Calls, Gathered(c) PROVE SentInCall'
  BY <1>6 DEF Gathered
<1>7. ASSUME NEW c \in Calls, AccountsFetched(c) PROVE SentInCall'
  BY <1>7 DEF AccountsFetched
<1>8. ASSUME NEW c \in Calls, DepegFetched(c) PROVE SentInCall'
  BY <1>8 DEF DepegFetched, DepegAnswered
<1>9. ASSUME NEW c \in Calls, PoolInfoFailed(c) PROVE SentInCall'
  BY <1>9 DEF PoolInfoFailed, DepegAnswered
<1>10. ASSUME NEW c \in Calls, NEW r \in Requests, RequestFailed(c, r) PROVE SentInCall'
  BY <1>10 DEF RequestFailed
<1>11. CASE UNCHANGED vars
  BY <1>11 DEF vars
<1> QED
  BY <1>1, <1>2, <1>3, <1>4, <1>5, <1>6, <1>7, <1>8, <1>9, <1>10, <1>11 DEF Next, Answered

\* Gathered waits for both vault refreshes, so only a rejection leaves one behind.
LEMMA VaultRequestsStep == IInv /\ [Next]_vars => VaultRequests'
<1> SUFFICES ASSUME IInv, [Next]_vars PROVE VaultRequests'
  OBVIOUS
<1> USE DEF IInv, VaultRequests, TypeOK, Requests, Vaults, RunningStates
<1>1. CASE Tick
  BY <1>1 DEF Tick
<1>2. ASSUME NEW c \in Calls, UpdateState(c) PROVE VaultRequests'
  BY <1>2 DEF UpdateState
<1>3. ASSUME NEW c \in Calls, PoolFetched(c) PROVE VaultRequests'
  BY <1>3 DEF PoolFetched
<1>4. ASSUME NEW c \in Calls, SupplyFetched(c) PROVE VaultRequests'
  BY <1>4 DEF SupplyFetched
<1>5. ASSUME NEW c \in Calls, NEW v \in Vaults, VaultRefreshed(c, v) PROVE VaultRequests'
  BY <1>5 DEF VaultRefreshed
<1>6. ASSUME NEW c \in Calls, Gathered(c) PROVE VaultRequests'
  BY <1>6 DEF Gathered
<1>7. ASSUME NEW c \in Calls, AccountsFetched(c) PROVE VaultRequests'
  BY <1>7 DEF AccountsFetched
<1>8. ASSUME NEW c \in Calls, DepegFetched(c) PROVE VaultRequests'
  BY <1>8 DEF DepegFetched, DepegAnswered
<1>9. ASSUME NEW c \in Calls, PoolInfoFailed(c) PROVE VaultRequests'
  BY <1>9 DEF PoolInfoFailed, DepegAnswered
<1>10. ASSUME NEW c \in Calls, NEW r \in Requests, RequestFailed(c, r) PROVE VaultRequests'
  BY <1>10 DEF RequestFailed
<1>11. CASE UNCHANGED vars
  BY <1>11 DEF vars
<1> QED
  BY <1>1, <1>2, <1>3, <1>4, <1>5, <1>6, <1>7, <1>8, <1>9, <1>10, <1>11 DEF Next, Answered

\* A call that is made joins the calls running then, and they join it.
LEMMA PeersCompleteStep == IInv /\ [Next]_vars => PeersComplete'
<1> SUFFICES ASSUME IInv, [Next]_vars PROVE PeersComplete'
  OBVIOUS
<1> USE DEF IInv, PeersComplete, TypeOK, Running, RunningStates
<1>1. CASE Tick
  BY <1>1 DEF Tick
<1>2. ASSUME NEW c \in Calls, UpdateState(c) PROVE PeersComplete'
  <2> SUFFICES ASSUME NEW e \in Calls, NEW d \in Calls,
                      Running(d)', pc'[e] # "idle", start'[d] < start'[e]
               PROVE  d \in peers'[e]
    OBVIOUS
  <2>1. CASE d = c
    <3>1. start'[d] = slot /\ e # c /\ start'[e] = start[e]
      BY <1>2, <2>1, SlotAssumption DEF UpdateState, Slots
    <3> QED
      BY <3>1, SlotAssumption DEF SentInCall, Slots
  <2>2. CASE d # c /\ e = c
    BY <1>2, <2>2 DEF UpdateState
  <2>3. CASE d # c /\ e # c
    BY <1>2, <2>3 DEF UpdateState
  <2> QED
    BY <2>1, <2>2, <2>3
<1>3. ASSUME NEW c \in Calls, PoolFetched(c) PROVE PeersComplete'
  BY <1>3 DEF PoolFetched
<1>4. ASSUME NEW c \in Calls, SupplyFetched(c) PROVE PeersComplete'
  BY <1>4 DEF SupplyFetched
<1>5. ASSUME NEW c \in Calls, NEW v \in Vaults, VaultRefreshed(c, v) PROVE PeersComplete'
  BY <1>5 DEF VaultRefreshed
<1>6. ASSUME NEW c \in Calls, Gathered(c) PROVE PeersComplete'
  BY <1>6 DEF Gathered
<1>7. ASSUME NEW c \in Calls, AccountsFetched(c) PROVE PeersComplete'
  BY <1>7 DEF AccountsFetched
<1>8. ASSUME NEW c \in Calls, DepegFetched(c) PROVE PeersComplete'
  BY <1>8 DEF DepegFetched, DepegAnswered
<1>9. ASSUME NEW c \in Calls, PoolInfoFailed(c) PROVE PeersComplete'
  BY <1>9 DEF PoolInfoFailed, DepegAnswered
<1>10. ASSUME NEW c \in Calls, NEW r \in Requests, RequestFailed(c, r) PROVE PeersComplete'
  <2>1. pc[c] # "idle"
    BY <1>10 DEF RequestFailed, SentAfterCall
  <2> QED
    BY <1>10, <2>1 DEF RequestFailed
<1>11. CASE UNCHANGED vars
  BY <1>11 DEF vars
<1> QED
  BY <1>1, <1>2, <1>3, <1>4, <1>5, <1>6, <1>7, <1>8, <1>9, <1>10, <1>11 DEF Next, Answered

\* Only a call that was made sends requests.
LEMMA SentAfterCallStep == IInv /\ [Next]_vars => SentAfterCall'
<1> SUFFICES ASSUME IInv, [Next]_vars PROVE SentAfterCall'
  OBVIOUS
<1> USE DEF IInv, SentAfterCall, TypeOK, Requests, Vaults, RunningStates
<1>1. CASE Tick
  BY <1>1 DEF Tick
<1>2. ASSUME NEW c \in Calls, UpdateState(c) PROVE SentAfterCall'
  BY <1>2 DEF UpdateState
<1>3. ASSUME NEW c \in Calls, PoolFetched(c) PROVE SentAfterCall'
  BY <1>3 DEF PoolFetched
<1>4. ASSUME NEW c \in Calls, SupplyFetched(c) PROVE SentAfterCall'
  BY <1>4 DEF SupplyFetched
<1>5. ASSUME NEW c \in Calls, NEW v \in Vaults, VaultRefreshed(c, v) PROVE SentAfterCall'
  BY <1>5 DEF VaultRefreshed
<1>6. ASSUME NEW c \in Calls, Gathered(c) PROVE SentAfterCall'
  BY <1>6 DEF Gathered
<1>7. ASSUME NEW c \in Calls, AccountsFetched(c) PROVE SentAfterCall'
  BY <1>7 DEF AccountsFetched
<1>8. ASSUME NEW c \in Calls, DepegFetched(c) PROVE SentAfterCall'
  BY <1>8 DEF DepegFetched, DepegAnswered
<1>9. ASSUME NEW c \in Calls, PoolInfoFailed(c) PROVE SentAfterCall'
  BY <1>9 DEF PoolInfoFailed, DepegAnswered
<1>10. ASSUME NEW c \in Calls, NEW r \in Requests, RequestFailed(c, r) PROVE SentAfterCall'
  BY <1>10 DEF RequestFailed
<1>11. CASE UNCHANGED vars
  BY <1>11 DEF vars
<1> QED
  BY <1>1, <1>2, <1>3, <1>4, <1>5, <1>6, <1>7, <1>8, <1>9, <1>10, <1>11 DEF Next, Answered

\* An answer is not older than its request, so what a call keeps of it is not either.
LEMMA LocalsFreshStep == IInv /\ [Next]_vars => LocalsFresh'
<1> SUFFICES ASSUME IInv, [Next]_vars PROVE LocalsFresh'
  OBVIOUS
<1> USE SlotAssumption DEF IInv, LocalsFresh, SentInCall, TypeOK, Requests, RunningStates,
        AnswerSlots, Slots, None
<1>1. CASE Tick
  BY <1>1 DEF Tick
<1>2. ASSUME NEW c \in Calls, UpdateState(c) PROVE LocalsFresh'
  BY <1>2 DEF UpdateState
<1>3. ASSUME NEW c \in Calls, PoolFetched(c) PROVE LocalsFresh'
  BY <1>3 DEF PoolFetched
<1>4. ASSUME NEW c \in Calls, SupplyFetched(c) PROVE LocalsFresh'
  BY <1>4 DEF SupplyFetched
<1>5. ASSUME NEW c \in Calls, NEW v \in Vaults, VaultRefreshed(c, v) PROVE LocalsFresh'
  <2>1. v # "pool" /\ v # "supply"
    BY DEF Vaults
  <2>2. /\ pc' = pc /\ start' = start /\ local' = local
        /\ \A d \in Calls : /\ sent'[d]["pool"] = sent[d]["pool"]
                            /\ sent'[d]["supply"] = sent[d]["supply"]
    BY <1>5, <2>1 DEF VaultRefreshed
  <2> QED
    BY <2>2
<1>6. ASSUME NEW c \in Calls, Gathered(c) PROVE LocalsFresh'
  BY <1>6 DEF Gathered
<1>7. ASSUME NEW c \in Calls, AccountsFetched(c) PROVE LocalsFresh'
  BY <1>7 DEF AccountsFetched
<1>8. ASSUME NEW c \in Calls, DepegFetched(c) PROVE LocalsFresh'
  BY <1>8 DEF DepegFetched, DepegAnswered
<1>9. ASSUME NEW c \in Calls, PoolInfoFailed(c) PROVE LocalsFresh'
  BY <1>9 DEF PoolInfoFailed, DepegAnswered
<1>10. ASSUME NEW c \in Calls, NEW r \in Requests, RequestFailed(c, r) PROVE LocalsFresh'
  BY <1>10 DEF RequestFailed
<1>11. CASE UNCHANGED vars
  BY <1>11 DEF vars
<1> QED
  BY <1>1, <1>2, <1>3, <1>4, <1>5, <1>6, <1>7, <1>8, <1>9, <1>10, <1>11 DEF Next, Answered

(***************************************************************************)
(* Freshness of each cached part.                                          *)
(***************************************************************************)

\* What a running call assigns is, for every call already made, fresh or a peer's.
LEMMA FreshWrite ==
    ASSUME IInv, NEW c \in Calls, pc[c] # "idle", NEW d \in Calls, Running(d),
           NEW s \in Slots, start[d] <= s
    PROVE  FreshOrPeer(s, d, c)
<1>1. start[c] \in Slots /\ start[d] \in Slots
  BY DEF IInv, TypeOK
<1>2. s < start[c] => start[d] < start[c]
  BY <1>1, SlotAssumption DEF Slots
<1> QED
  BY <1>1, <1>2, SlotAssumption DEF FreshOrPeer, IInv, PeersComplete, Slots

\* No step makes a part that stays in the cache less fresh for a call already made.
LEMMA FreshKept ==
    ASSUME IInv, [Next]_vars, NEW c \in Calls, pc[c] # "idle", NEW s, NEW d, FreshOrPeer(s, d, c)
    PROVE  FreshOrPeer(s, d, c)'
<1>1. start'[c] = start[c]
  BY DEF IInv, TypeOK, Next, Answered, vars, Tick, UpdateState, PoolFetched, SupplyFetched,
         VaultRefreshed, Gathered, AccountsFetched,
         DepegFetched, PoolInfoFailed, DepegAnswered, RequestFailed
<1>2. peers[c] \subseteq peers'[c]
  <2>1. ASSUME NEW e \in Calls, UpdateState(e) PROVE peers[c] \subseteq peers'[c]
    <3>1. e # c
      BY <2>1 DEF UpdateState
    <3> QED
      BY <2>1, <3>1 DEF UpdateState
  <2>2. CASE ~ \E e \in Calls : UpdateState(e)
    <3>1. peers' = peers
      BY <2>2 DEF Next, Answered, vars, Tick, PoolFetched, SupplyFetched,
         VaultRefreshed, Gathered, AccountsFetched,
         DepegFetched, PoolInfoFailed, DepegAnswered, RequestFailed
    <3> QED
      BY <3>1
  <2> QED
    BY <2>1, <2>2
<1> QED
  BY <1>1, <1>2 DEF FreshOrPeer

\* A call that was rejected stays so.
LEMMA RejectedKept ==
    ASSUME IInv, [Next]_vars, NEW d, Rejected(d)
    PROVE  Rejected(d)'
BY DEF IInv, TypeOK, Rejected, Next, Answered, vars, Tick, UpdateState, PoolFetched, SupplyFetched,
       VaultRefreshed, Gathered, AccountsFetched,
         DepegFetched, PoolInfoFailed, DepegAnswered, RequestFailed

\* A vault state is written only by VaultRefreshed, of a call that is running or was rejected.
LEMMA FreshVaultStep ==
    ASSUME IInv, [Next]_vars, NEW c \in Calls, NEW v \in Vaults,
           pc'[c] \in RunningStates \cup {"resolved"}, sent'[c][v] = None
    PROVE  FreshVault(c, v)'
<1>1. ASSUME NEW d \in Calls, NEW w \in Vaults, VaultRefreshed(d, w), w = v PROVE FreshVault(c, v)'
  <2>1. PICK s \in AnswerSlots(d, v) : vaultState' = [vaultState EXCEPT ![v] = [slot |-> s, call |-> d]]
    BY <1>1 DEF VaultRefreshed
  <2>2. s \in Slots /\ start[d] <= s /\ sent[d][v] # None
    <3>1. s \in Slots /\ sent[d][v] # None /\ sent[d][v] \in Slots /\ sent[d][v] <= s
      BY <2>1, AnswerType DEF Requests, IInv
    <3>2. start[d] <= sent[d][v] /\ start[d] \in Slots
      BY <3>1 DEF IInv, SentInCall, TypeOK, Requests
    <3> QED
      BY <3>1, <3>2, SlotAssumption DEF Slots
  <2>3. pc' = pc /\ pc[c] # "idle" /\ start' = start /\ peers' = peers
    BY <1>1 DEF VaultRefreshed, RunningStates
  <2>4. vaultState'[v] = [slot |-> s, call |-> d]
    BY <2>1 DEF IInv, TypeOK
  <2>5. CASE pc[d] = "rejected"
    BY <2>3, <2>4, <2>5 DEF FreshVault, Rejected
  <2>6. CASE pc[d] = "gather"
    <3>1. FreshOrPeer(s, d, c)
      BY <2>2, <2>3, <2>6, FreshWrite DEF Running, RunningStates
    <3> QED
      BY <2>3, <2>4, <3>1 DEF FreshVault, FreshOrPeer
  <2> QED
    BY <2>2, <2>5, <2>6 DEF IInv, VaultRequests
<1>2. ASSUME ~ \E d \in Calls : VaultRefreshed(d, v) PROVE FreshVault(c, v)'
  <2>1. vaultState'[v] = vaultState[v]
    <3>1. ASSUME NEW d \in Calls, NEW w \in Vaults, VaultRefreshed(d, w)
          PROVE  vaultState'[v] = vaultState[v]
      BY <1>2, <3>1 DEF VaultRefreshed, IInv, TypeOK
    <3>2. CASE ~ \E d \in Calls, w \in Vaults : VaultRefreshed(d, w)
      BY <3>2 DEF Next, Answered, vars, cacheVars, Tick, UpdateState, PoolFetched, SupplyFetched,
         Gathered, AccountsFetched,
         DepegFetched, PoolInfoFailed, DepegAnswered, RequestFailed
    <3> QED
      BY <3>1, <3>2
  <2>2. pc[c] \in RunningStates \cup {"resolved"} /\ sent[c][v] = None
    <3> DEFINE Waited == pc[c] \in RunningStates \cup {"resolved"} /\ sent[c][v] = None
    <3> USE DEF IInv, TypeOK, RunningStates, Requests, Vaults
    <3>1. CASE UNCHANGED <<pc, sent>>
      BY <3>1
    <3>2. ASSUME NEW d \in Calls, UpdateState(d) PROVE Waited
      <4>1. d # c
        <5>1. slot # None
          BY SlotAssumption DEF Slots, None
        <5> QED
          BY <3>2, <5>1 DEF UpdateState
      <4> QED
        BY <3>2, <4>1 DEF UpdateState
    <3>3. ASSUME NEW d \in Calls, PoolFetched(d) PROVE Waited
      BY <3>3 DEF PoolFetched
    <3>4. ASSUME NEW d \in Calls, SupplyFetched(d) PROVE Waited
      BY <3>4 DEF SupplyFetched
    <3>5. ASSUME NEW d \in Calls, Gathered(d) PROVE Waited
      BY <3>5 DEF Gathered
    <3>6. ASSUME NEW d \in Calls, AccountsFetched(d) PROVE Waited
      BY <3>6 DEF AccountsFetched
    <3>7. ASSUME NEW d \in Calls, DepegFetched(d) \/ PoolInfoFailed(d) PROVE Waited
      BY <3>7 DEF DepegFetched, PoolInfoFailed, DepegAnswered
    <3>8. ASSUME NEW d \in Calls, NEW w \in Vaults, VaultRefreshed(d, w) PROVE Waited
      <4>1. w # v
        BY <1>2, <3>8
      <4> QED
        BY <3>8, <4>1 DEF VaultRefreshed
    <3>9. ASSUME NEW d \in Calls, NEW r \in Requests, RequestFailed(d, r) PROVE Waited
      <4>1. d # c
        BY <3>9 DEF RequestFailed
      <4> QED
        BY <3>9, <4>1 DEF RequestFailed
    <3> QED
      BY <3>1, <3>2, <3>3, <3>4, <3>5, <3>6, <3>7, <3>8, <3>9 DEF Next, Answered, Tick, vars
  <2>3. FreshVault(c, v)
    BY <2>2 DEF IInv, FreshByStage
  <2>4. pc[c] # "idle"
    BY <2>2 DEF RunningStates
  <2> QED
    BY <2>1, <2>3, <2>4, FreshKept, RejectedKept DEF FreshVault
<1> QED
  BY <1>1, <1>2

\* poolState is written only by Gathered, from the call's own local variable.
LEMMA FreshPoolStep ==
    ASSUME IInv, [Next]_vars, NEW c \in Calls, pc'[c] \in {"batch", "depeg", "resolved"}
    PROVE  FreshPool(c)'
<1>1. ASSUME NEW d \in Calls, Gathered(d) PROVE FreshPool(c)'
  <2>1. pc[c] # "idle" /\ Running(d) /\ start' = start /\ peers' = peers
    BY <1>1 DEF Gathered, Running, RunningStates, IInv, TypeOK
  <2>2. /\ local[d].pool \in Slots /\ local[d].supply \in Slots
        /\ start[d] <= local[d].pool /\ start[d] <= local[d].supply
    BY <1>1, SlotAssumption DEF Gathered, IInv, TypeOK, LocalsFresh, Requests, Slots
  <2>3. FreshOrPeer(local[d].pool, d, c) /\ FreshOrPeer(local[d].supply, d, c)
    BY <2>1, <2>2, FreshWrite
  <2> QED
    BY <1>1, <2>1, <2>3 DEF Gathered, FreshPool, FreshOrPeer
<1>2. ASSUME ~ \E d \in Calls : Gathered(d) PROVE FreshPool(c)'
  <2>1. poolState' = poolState
    BY <1>2 DEF Next, Answered, vars, cacheVars, Tick, UpdateState, PoolFetched, SupplyFetched,
         VaultRefreshed, AccountsFetched,
         DepegFetched, PoolInfoFailed, DepegAnswered, RequestFailed
  <2>2. pc[c] \in {"batch", "depeg", "resolved"}
    BY <1>2 DEF IInv, TypeOK, RunningStates,
         Next, Answered, vars, cacheVars, Tick, UpdateState, PoolFetched, SupplyFetched,
         VaultRefreshed, AccountsFetched,
         DepegFetched, PoolInfoFailed, DepegAnswered, RequestFailed
  <2>3. FreshPool(c)
    BY <2>2 DEF IInv, FreshByStage
  <2> QED
    BY <2>1, <2>2, <2>3, FreshKept DEF FreshPool
<1> QED
  BY <1>1, <1>2

\* accountsInfo is written only by AccountsFetched.
LEMMA FreshAccountsStep ==
    ASSUME IInv, [Next]_vars, NEW c \in Calls, pc'[c] \in {"depeg", "resolved"}
    PROVE  FreshAccounts(c)'
<1>1. ASSUME NEW d \in Calls, AccountsFetched(d) PROVE FreshAccounts(c)'
  <2>1. PICK s \in AnswerSlots(d, "batch") : accountsInfo' = [slot |-> s, call |-> d]
    BY <1>1 DEF AccountsFetched
  <2>2. s \in Slots /\ start[d] <= s
    <3>1. /\ s \in Slots /\ sent[d]["batch"] # None
          /\ sent[d]["batch"] \in Slots /\ sent[d]["batch"] <= s
      BY <2>1, AnswerType DEF Requests, IInv
    <3>2. start[d] <= sent[d]["batch"] /\ start[d] \in Slots
      BY <3>1 DEF IInv, SentInCall, TypeOK, Requests
    <3> QED
      BY <3>1, <3>2, SlotAssumption DEF Slots
  <2>3. pc[c] # "idle" /\ Running(d) /\ start' = start /\ peers' = peers
    BY <1>1 DEF AccountsFetched, Running, RunningStates, IInv, TypeOK
  <2>4. FreshOrPeer(s, d, c)
    BY <2>2, <2>3, FreshWrite
  <2> QED
    BY <2>1, <2>3, <2>4 DEF FreshAccounts, FreshOrPeer
<1>2. ASSUME ~ \E d \in Calls : AccountsFetched(d) PROVE FreshAccounts(c)'
  <2>1. accountsInfo' = accountsInfo
    BY <1>2 DEF Next, Answered, vars, cacheVars, Tick, UpdateState, PoolFetched, SupplyFetched,
         VaultRefreshed, Gathered,
         DepegFetched, PoolInfoFailed, DepegAnswered, RequestFailed
  <2>2. pc[c] \in {"depeg", "resolved"}
    BY <1>2 DEF IInv, TypeOK, RunningStates,
         Next, Answered, vars, cacheVars, Tick, UpdateState, PoolFetched, SupplyFetched,
         VaultRefreshed, Gathered,
         DepegFetched, PoolInfoFailed, DepegAnswered, RequestFailed
  <2>3. FreshAccounts(c)
    BY <2>2 DEF IInv, FreshByStage
  <2> QED
    BY <2>1, <2>2, <2>3, FreshKept DEF FreshAccounts
<1> QED
  BY <1>1, <1>2

\* The other parts are written only in the last segment of a call, which may throw
\* before poolInfo is.
LEMMA FreshDerivedStep ==
    ASSUME IInv, [Next]_vars, NEW c \in Calls, pc'[c] = "resolved"
    PROVE  FreshDepeg(c)' /\ FreshDerived(c)'
<1>1. ASSUME NEW d \in Calls, DepegFetched(d) \/ PoolInfoFailed(d)
      PROVE  FreshDepeg(c)' /\ FreshDerived(c)'
  <2>0. DepegAnswered(d)
    BY <1>1 DEF DepegFetched, PoolInfoFailed
  <2>1. PICK s \in AnswerSlots(d, "depeg") : depegAccounts' = [slot |-> s, call |-> d]
    BY <2>0 DEF DepegAnswered
  <2>2. s \in Slots /\ start[d] <= s
    <3>1. /\ s \in Slots /\ sent[d]["depeg"] # None
          /\ sent[d]["depeg"] \in Slots /\ sent[d]["depeg"] <= s
      BY <2>1, AnswerType DEF Requests, IInv
    <3>2. start[d] <= sent[d]["depeg"] /\ start[d] \in Slots
      BY <3>1 DEF IInv, SentInCall, TypeOK, Requests
    <3> QED
      BY <3>1, <3>2, SlotAssumption DEF Slots
  <2>3. pc[d] = "depeg" /\ Running(d) /\ start' = start /\ peers' = peers
    BY <2>0 DEF DepegAnswered, Running, RunningStates
  <2>4. pc[c] # "idle"
    BY <1>1, <2>3 DEF DepegFetched, PoolInfoFailed, IInv, TypeOK
  <2>5. /\ local[d].pool \in Slots /\ local[d].accounts \in Slots
        /\ start[d] <= local[d].pool /\ start[d] <= local[d].accounts
    BY <2>3, SlotAssumption DEF IInv, TypeOK, LocalsFresh, Slots
  <2>6. /\ FreshOrPeer(s, d, c)
        /\ FreshOrPeer(local[d].pool, d, c) /\ FreshOrPeer(local[d].accounts, d, c)
    BY <2>2, <2>3, <2>4, <2>5, FreshWrite
  <2>7. FreshDepeg(c)'
    BY <2>1, <2>3, <2>6 DEF FreshDepeg, FreshOrPeer
  <2>8. CASE DepegFetched(d)
    BY <2>0, <2>3, <2>6, <2>7, <2>8 DEF DepegFetched, DepegAnswered, FreshDerived, FreshOrPeer
  <2>9. CASE PoolInfoFailed(d)
    <3>1. pc[c] = "resolved"
      BY <2>9, <2>3 DEF PoolInfoFailed, IInv, TypeOK
    <3>2. FreshDerived(c)
      BY <3>1 DEF IInv, FreshByStage
    <3> QED
      BY <2>0, <2>3, <2>6, <2>7, <2>9, <3>2
         DEF PoolInfoFailed, DepegAnswered, FreshDerived, FreshOrPeer
  <2> QED
    BY <1>1, <2>8, <2>9
<1>2. ASSUME ~ \E d \in Calls : DepegFetched(d) \/ PoolInfoFailed(d)
      PROVE  FreshDepeg(c)' /\ FreshDerived(c)'
  <2>1. depegAccounts' = depegAccounts /\ swapCurve' = swapCurve /\ poolInfo' = poolInfo
    BY <1>2 DEF Next, Answered, vars, cacheVars, Tick, UpdateState, PoolFetched, SupplyFetched,
         VaultRefreshed, Gathered, AccountsFetched, RequestFailed
  <2>2. pc[c] = "resolved"
    BY <1>2 DEF IInv, TypeOK, RunningStates,
         Next, Answered, vars, cacheVars, Tick, UpdateState, PoolFetched, SupplyFetched,
         VaultRefreshed, Gathered, AccountsFetched, RequestFailed
  <2>3. FreshDepeg(c) /\ FreshDerived(c)
    BY <2>2 DEF IInv, FreshByStage
  <2> QED
    BY <2>1, <2>2, <2>3, FreshKept DEF FreshDepeg, FreshDerived
<1> QED
  BY <1>1, <1>2

\* The four kinds of cached parts together.
LEMMA FreshByStageStep == IInv /\ [Next]_vars => FreshByStage'
BY FreshVaultStep, FreshPoolStep, FreshAccountsStep, FreshDerivedStep DEF FreshByStage

\* Every step keeps the inductive invariant.
LEMMA NextInv == IInv /\ [Next]_vars => IInv'
BY NextType, SentInCallStep, SentAfterCallStep, VaultRequestsStep, LocalsFreshStep,
   PeersCompleteStep, FreshByStageStep DEF IInv

\* What an awaited updateState() leaves in the object is at least as recent as the call,
\* and stays so, up to what a call that overlapped it, or the leftover vault refresh of
\* a rejected call, assigns.
THEOREM FreshUnlessOverlappedHolds == Safety => []FreshUnlessOverlapped
<1>1. IInv => FreshUnlessOverlapped
  <2> SUFFICES ASSUME IInv, NEW c \in Calls, pc[c] = "resolved"
               PROVE  /\ FreshPool(c) /\ FreshAccounts(c) /\ FreshDepeg(c) /\ FreshDerived(c)
                      /\ \A v \in Vaults : FreshVault(c, v)
    BY DEF FreshUnlessOverlapped
  <2>1. \A v \in Vaults : sent[c][v] = None
    BY DEF IInv, VaultRequests
  <2> QED
    BY <2>1 DEF IInv, FreshByStage
<1> QED
  BY <1>1, InitInv, NextInv, PTL DEF Safety

(***************************************************************************)
(* What overlaps what: the invariant behind OlderOnlyByOverlap and          *)
(* CoherentWhenQuiet.                                                       *)
(***************************************************************************)

\* Nothing the object or a call holds was read in the future.
ReadInPast ==
    /\ \A c \in Calls : local[c].pool <= slot /\ local[c].accounts <= slot
    /\ poolState.slot <= slot /\ accountsInfo.slot <= slot /\ depegAccounts.slot <= slot
    /\ \A v \in Vaults : vaultState[v].slot <= slot

\* Two calls that run at the same time know of each other.
RunningArePeers ==
    \A c, d \in Calls : Running(c) /\ Running(d) /\ c # d => d \in peers[c]

\* A call has assigned a part only if it is past the point that assigns it.
WritersArePast ==
    /\ \A c \in Calls :
          /\ poolState.call = c => pc[c] \notin {"idle", "gather"}
          /\ accountsInfo.call = c => pc[c] \notin {"idle", "gather", "batch"}
          /\ depegAccounts.call = c => pc[c] \in {"resolved", "rejected"}
          /\ \A v \in Vaults : vaultState[v].call = c => pc[c] # "idle" /\ sent[c][v] = None

\* A part is not newer than the start of any call that runs, unless the call overlapped
\* its writer.
StartedSince(s, writer) ==
    \A c \in Calls : Running(c) /\ c # writer =>
        s <= start[c] \/ (writer \in Calls /\ c \in peers[writer])
PartsBeforeRunning ==
    /\ StartedSince(poolState.slot, poolState.call)
    /\ StartedSince(accountsInfo.slot, accountsInfo.call)
    /\ StartedSince(depegAccounts.slot, depegAccounts.call)
    /\ \A v \in Vaults : \/ StartedSince(vaultState[v].slot, vaultState[v].call)
                        \/ Rejected(vaultState[v].call)

\* A call that has assigned poolState and runs on finds its own there, or that of a call
\* that overlapped it.
GatheredSince ==
    \A c \in Calls : pc[c] \in {"batch", "depeg"} =>
        \/ poolState.call = c
        \/ poolState.call \in Calls /\ c \in peers[poolState.call]

\* A vault state is of call c and not newer than slot s, or a rejected call's leftover.
OwnVault(v, c, s) ==
    \/ vaultState[v].call = c /\ vaultState[v].slot <= s
    \/ Rejected(vaultState[v].call)

\* What a call that nothing overlapped has put together so far.
AloneStage(c) ==
    /\ pc[c] = "gather" =>
          \A v \in Vaults : sent[c][v] = None => OwnVault(v, c, slot)
    /\ pc[c] = "batch" =>
          /\ poolState.call = c /\ poolState.slot = local[c].pool
          /\ poolState.slot <= sent[c]["batch"]
          /\ \A v \in Vaults : OwnVault(v, c, sent[c]["batch"])
    /\ pc[c] = "depeg" =>
          /\ poolState.call = c /\ poolState.slot = local[c].pool
          /\ accountsInfo = [slot |-> local[c].accounts, call |-> c]
          /\ poolState.slot <= accountsInfo.slot
          /\ accountsInfo.slot <= sent[c]["depeg"]
          /\ \A v \in Vaults : OwnVault(v, c, accountsInfo.slot)
AloneByStage == \A c \in Calls : peers[c] = {} => AloneStage(c)

\* All parts are of call c, in the order in which they were read; a vault state may
\* already be that of a call that runs now.
Generation(c) ==
    /\ accountsInfo.call = c /\ depegAccounts.call = c
    /\ swapCurve = [pool |-> poolState.slot, clock |-> accountsInfo.slot, call |-> c]
    /\ poolInfo.call = c /\ poolInfo.slot = accountsInfo.slot
    /\ poolState.slot <= accountsInfo.slot /\ accountsInfo.slot <= depegAccounts.slot
    /\ \A v \in Vaults :
          \/ /\ vaultState[v].call = c
             /\ vaultState[v].slot <= accountsInfo.slot
             /\ vaultState[v].slot = poolInfo.vaults[v]
          \/ Rejected(vaultState[v].call)
          \/ vaultState[v].call \in Calls /\ Running(vaultState[v].call)

\* A call that ran alone and resolved leaves one generation, until the next poolState.
AloneLeavesGeneration ==
    LET c == poolState.call IN
    (c \in Calls => pc[c] = "resolved" /\ peers[c] = {}) => Generation(c)

\* A vault state is no older than the call that assigned it, be it a rejected one.
VaultSinceWriter ==
    \A v \in Vaults : vaultState[v].call \in Calls =>
        vaultState[v].slot >= start[vaultState[v].call]

OInv ==
    /\ IInv
    /\ ReadInPast /\ RunningArePeers /\ WritersArePast /\ PartsBeforeRunning
    /\ GatheredSince /\ AloneByStage /\ AloneLeavesGeneration /\ VaultSinceWriter

\* An answer is a snapshot of a slot that has passed when it is processed.
LEMMA ReadInPastStep == OInv /\ [Next]_vars => ReadInPast'
<1> SUFFICES ASSUME OInv, [Next]_vars PROVE ReadInPast'
  OBVIOUS
<1> USE SlotAssumption DEF OInv, IInv, ReadInPast, TypeOK, Part, Slots, cacheVars, AnswerSlots, None, Requests, Vaults
<1>1. CASE Tick
  BY <1>1 DEF Tick
<1>2. ASSUME NEW c \in Calls, UpdateState(c) PROVE ReadInPast'
  BY <1>2 DEF UpdateState
<1>3. ASSUME NEW c \in Calls, PoolFetched(c) PROVE ReadInPast'
  BY <1>3 DEF PoolFetched
<1>4. ASSUME NEW c \in Calls, SupplyFetched(c) PROVE ReadInPast'
  BY <1>4 DEF SupplyFetched
<1>5. ASSUME NEW c \in Calls, NEW v \in Vaults, VaultRefreshed(c, v) PROVE ReadInPast'
  BY <1>5 DEF VaultRefreshed
<1>6. ASSUME NEW c \in Calls, Gathered(c) PROVE ReadInPast'
  BY <1>6 DEF Gathered
<1>7. ASSUME NEW c \in Calls, AccountsFetched(c) PROVE ReadInPast'
  BY <1>7 DEF AccountsFetched
<1>8. ASSUME NEW c \in Calls, DepegFetched(c) PROVE ReadInPast'
  BY <1>8 DEF DepegFetched, DepegAnswered
<1>9. ASSUME NEW c \in Calls, PoolInfoFailed(c) PROVE ReadInPast'
  BY <1>9 DEF PoolInfoFailed, DepegAnswered
<1>10. ASSUME NEW c \in Calls, NEW r \in Requests, RequestFailed(c, r) PROVE ReadInPast'
  BY <1>10 DEF RequestFailed
<1>11. CASE UNCHANGED vars
  BY <1>11 DEF vars, cacheVars
<1> QED
  BY <1>1, <1>2, <1>3, <1>4, <1>5, <1>6, <1>7, <1>8, <1>9, <1>10, <1>11 DEF Next, Answered

\* Calls become peers when the second of them is made.
LEMMA RunningArePeersStep == OInv /\ [Next]_vars => RunningArePeers'
<1> SUFFICES ASSUME OInv, [Next]_vars PROVE RunningArePeers'
  OBVIOUS
<1> USE DEF OInv, IInv, RunningArePeers, TypeOK, Running, RunningStates, SentAfterCall
<1>1. CASE Tick
  BY <1>1 DEF Tick
<1>2. ASSUME NEW c \in Calls, UpdateState(c) PROVE RunningArePeers'
  BY <1>2 DEF UpdateState
<1>3. ASSUME NEW c \in Calls, PoolFetched(c) PROVE RunningArePeers'
  BY <1>3 DEF PoolFetched
<1>4. ASSUME NEW c \in Calls, SupplyFetched(c) PROVE RunningArePeers'
  BY <1>4 DEF SupplyFetched
<1>5. ASSUME NEW c \in Calls, NEW v \in Vaults, VaultRefreshed(c, v) PROVE RunningArePeers'
  BY <1>5 DEF VaultRefreshed
<1>6. ASSUME NEW c \in Calls, Gathered(c) PROVE RunningArePeers'
  BY <1>6 DEF Gathered
<1>7. ASSUME NEW c \in Calls, AccountsFetched(c) PROVE RunningArePeers'
  BY <1>7 DEF AccountsFetched
<1>8. ASSUME NEW c \in Calls, DepegFetched(c) PROVE RunningArePeers'
  BY <1>8 DEF DepegFetched, DepegAnswered
<1>9. ASSUME NEW c \in Calls, PoolInfoFailed(c) PROVE RunningArePeers'
  BY <1>9 DEF PoolInfoFailed, DepegAnswered
<1>10. ASSUME NEW c \in Calls, NEW r \in Requests, RequestFailed(c, r) PROVE RunningArePeers'
  BY <1>10 DEF RequestFailed
<1>11. CASE UNCHANGED vars
  BY <1>11 DEF vars, cacheVars
<1> QED
  BY <1>1, <1>2, <1>3, <1>4, <1>5, <1>6, <1>7, <1>8, <1>9, <1>10, <1>11 DEF Next, Answered

\* Every part is assigned by a step that takes its call past it.
LEMMA WritersArePastStep == OInv /\ [Next]_vars => WritersArePast'
<1> SUFFICES ASSUME OInv, [Next]_vars PROVE WritersArePast'
  OBVIOUS
<1> USE DEF OInv, IInv, WritersArePast, TypeOK, Running, RunningStates, SentAfterCall, VaultRequests, None, Part, Requests, Vaults, cacheVars
<1>1. CASE Tick
  BY <1>1 DEF Tick
<1>2. ASSUME NEW c \in Calls, UpdateState(c) PROVE WritersArePast'
  BY <1>2 DEF UpdateState
<1>3. ASSUME NEW c \in Calls, PoolFetched(c) PROVE WritersArePast'
  BY <1>3 DEF PoolFetched
<1>4. ASSUME NEW c \in Calls, SupplyFetched(c) PROVE WritersArePast'
  BY <1>4 DEF SupplyFetched
<1>5. ASSUME NEW c \in Calls, NEW v \in Vaults, VaultRefreshed(c, v) PROVE WritersArePast'
  <2>1. PICK s \in AnswerSlots(c, v) : vaultState' = [vaultState EXCEPT ![v] = [slot |-> s, call |-> c]]
    BY <1>5 DEF VaultRefreshed
  <2>2. sent[c][v] # None /\ pc[c] # "idle"
    BY <2>1 DEF AnswerSlots
  <2>3. sent' = [sent EXCEPT ![c] = [@ EXCEPT ![v] = None]]
    BY <1>5 DEF VaultRefreshed
  <2>4. \A d \in Calls, w \in Vaults :
            vaultState'[w].call = d => pc[d] # "idle" /\ sent'[d][w] = None
    BY <2>1, <2>2, <2>3
  <2> QED
    BY <1>5, <2>4 DEF VaultRefreshed
<1>6. ASSUME NEW c \in Calls, Gathered(c) PROVE WritersArePast'
  BY <1>6 DEF Gathered
<1>7. ASSUME NEW c \in Calls, AccountsFetched(c) PROVE WritersArePast'
  BY <1>7 DEF AccountsFetched
<1>8. ASSUME NEW c \in Calls, DepegFetched(c) PROVE WritersArePast'
  BY <1>8 DEF DepegFetched, DepegAnswered
<1>9. ASSUME NEW c \in Calls, PoolInfoFailed(c) PROVE WritersArePast'
  BY <1>9 DEF PoolInfoFailed, DepegAnswered
<1>10. ASSUME NEW c \in Calls, NEW r \in Requests, RequestFailed(c, r) PROVE WritersArePast'
  BY <1>10 DEF RequestFailed
<1>11. CASE UNCHANGED vars
  BY <1>11 DEF vars, cacheVars
<1> QED
  BY <1>1, <1>2, <1>3, <1>4, <1>5, <1>6, <1>7, <1>8, <1>9, <1>10, <1>11 DEF Next, Answered

\* Only a call that ran on in the meantime can have assigned poolState.
LEMMA GatheredSinceStep == OInv /\ [Next]_vars => GatheredSince'
<1> SUFFICES ASSUME OInv, [Next]_vars PROVE GatheredSince'
  OBVIOUS
<1> USE DEF OInv, IInv, GatheredSince, RunningArePeers, TypeOK, Running, RunningStates, cacheVars
<1>1. CASE Tick
  BY <1>1 DEF Tick
<1>2. ASSUME NEW c \in Calls, UpdateState(c) PROVE GatheredSince'
  BY <1>2 DEF UpdateState
<1>3. ASSUME NEW c \in Calls, PoolFetched(c) PROVE GatheredSince'
  BY <1>3 DEF PoolFetched
<1>4. ASSUME NEW c \in Calls, SupplyFetched(c) PROVE GatheredSince'
  BY <1>4 DEF SupplyFetched
<1>5. ASSUME NEW c \in Calls, NEW v \in Vaults, VaultRefreshed(c, v) PROVE GatheredSince'
  BY <1>5 DEF VaultRefreshed
<1>6. ASSUME NEW c \in Calls, Gathered(c) PROVE GatheredSince'
  BY <1>6 DEF Gathered
<1>7. ASSUME NEW c \in Calls, AccountsFetched(c) PROVE GatheredSince'
  BY <1>7 DEF AccountsFetched
<1>8. ASSUME NEW c \in Calls, DepegFetched(c) PROVE GatheredSince'
  BY <1>8 DEF DepegFetched, DepegAnswered
<1>9. ASSUME NEW c \in Calls, PoolInfoFailed(c) PROVE GatheredSince'
  BY <1>9 DEF PoolInfoFailed, DepegAnswered
<1>10. ASSUME NEW c \in Calls, NEW r \in Requests, RequestFailed(c, r) PROVE GatheredSince'
  BY <1>10 DEF RequestFailed
<1>11. CASE UNCHANGED vars
  BY <1>11 DEF vars, cacheVars
<1> QED
  BY <1>1, <1>2, <1>3, <1>4, <1>5, <1>6, <1>7, <1>8, <1>9, <1>10, <1>11 DEF Next, Answered
\* A part that no running call predates stays one: a call that is made starts now.
LEMMA StartedKept ==
    ASSUME OInv, [Next]_vars, NEW s \in Slots, s <= slot, NEW d, StartedSince(s, d)
    PROVE  StartedSince(s, d)'
<1> SUFFICES ASSUME NEW c \in Calls, Running(c)', c # d
             PROVE  s <= start'[c] \/ (d \in Calls /\ c \in peers'[d])
  BY DEF StartedSince
<1>1. ASSUME NEW e \in Calls, UpdateState(e)
      PROVE  s <= start'[c] \/ (d \in Calls /\ c \in peers'[d])
  <2>1. CASE e = c
    BY <1>1, <2>1 DEF UpdateState, OInv, IInv, TypeOK
  <2>2. CASE e # c
    <3>1. Running(c) /\ start'[c] = start[c]
      BY <1>1, <2>2 DEF UpdateState, Running, OInv, IInv, TypeOK
    <3>2. d \in Calls /\ c \in peers[d] => c \in peers'[d]
      BY <1>1, <3>1 DEF UpdateState
    <3> QED
      BY <3>1, <3>2 DEF StartedSince
  <2> QED
    BY <2>1, <2>2
<1>2. CASE ~ \E e \in Calls : UpdateState(e)
  <2>1. start' = start /\ peers' = peers /\ Running(c)
    BY <1>2 DEF OInv, IInv, TypeOK, Running, RunningStates, SentAfterCall, Requests, Next, Answered, vars, Tick,
       PoolFetched, SupplyFetched, VaultRefreshed, Gathered, AccountsFetched,
       DepegFetched, PoolInfoFailed, DepegAnswered, RequestFailed
  <2> QED
    BY <2>1 DEF StartedSince
<1> QED
  BY <1>1, <1>2

\* Whatever a running call assigns, the other running calls overlapped it.
LEMMA StartedWrite ==
    ASSUME OInv, NEW d \in Calls, Running(d), NEW s
    PROVE  StartedSince(s, d)
BY DEF OInv, RunningArePeers, StartedSince

\* The same after a step that assigned it and made no call.
LEMMA StartedWritten ==
    ASSUME OInv, NEW d \in Calls, Running(d), NEW s, peers' = peers,
           \A c \in Calls : Running(c)' => Running(c)
    PROVE  StartedSince(s, d)'
BY DEF OInv, RunningArePeers, StartedSince

\* No part is newer than a running call that did not overlap its writer.
LEMMA PartsBeforeRunningStep == OInv /\ [Next]_vars => PartsBeforeRunning'
<1> SUFFICES ASSUME OInv, [Next]_vars PROVE PartsBeforeRunning'
  OBVIOUS
<1>1. StartedSince(poolState.slot, poolState.call)'
  <2>1. ASSUME NEW c \in Calls, Gathered(c)
        PROVE  StartedSince(poolState.slot, poolState.call)'
    <3>1. Running(c) /\ peers' = peers /\ \A d \in Calls : Running(d)' => Running(d)
      BY <2>1 DEF Gathered, Running, RunningStates, OInv, IInv, TypeOK
    <3>2. poolState'.call = c
      BY <2>1 DEF Gathered
    <3>3. \A s : StartedSince(s, c)'
      BY <3>1, StartedWritten
    <3> QED
      BY <3>2, <3>3 DEF StartedSince
  <2>2. CASE ~ \E c \in Calls : Gathered(c)
    <3>1. poolState' = poolState
      BY <2>2 DEF Next, Answered, vars, cacheVars, Tick, UpdateState, PoolFetched, SupplyFetched,
         VaultRefreshed, AccountsFetched,
         DepegFetched, PoolInfoFailed, DepegAnswered, RequestFailed
    <3>2. StartedSince(poolState.slot, poolState.call)
      BY DEF OInv, PartsBeforeRunning
    <3>3. poolState.slot \in Slots /\ poolState.slot <= slot
      BY DEF OInv, IInv, TypeOK, ReadInPast
    <3> QED
      BY <3>1, <3>2, <3>3, StartedKept
  <2> QED
    BY <2>1, <2>2
<1>2. StartedSince(accountsInfo.slot, accountsInfo.call)'
  <2>1. ASSUME NEW c \in Calls, AccountsFetched(c)
        PROVE  StartedSince(accountsInfo.slot, accountsInfo.call)'
    <3>1. Running(c) /\ peers' = peers /\ \A d \in Calls : Running(d)' => Running(d)
      BY <2>1 DEF AccountsFetched, Running, RunningStates, OInv, IInv, TypeOK
    <3>2. accountsInfo'.call = c
      BY <2>1 DEF AccountsFetched
    <3>3. \A s : StartedSince(s, c)'
      BY <3>1, StartedWritten
    <3> QED
      BY <3>2, <3>3 DEF StartedSince
  <2>2. CASE ~ \E c \in Calls : AccountsFetched(c)
    <3>1. accountsInfo' = accountsInfo
      BY <2>2 DEF Next, Answered, vars, cacheVars, Tick, UpdateState, PoolFetched, SupplyFetched,
         VaultRefreshed, Gathered,
         DepegFetched, PoolInfoFailed, DepegAnswered, RequestFailed
    <3>2. StartedSince(accountsInfo.slot, accountsInfo.call)
      BY DEF OInv, PartsBeforeRunning
    <3>3. accountsInfo.slot \in Slots /\ accountsInfo.slot <= slot
      BY DEF OInv, IInv, TypeOK, Part, ReadInPast
    <3> QED
      BY <3>1, <3>2, <3>3, StartedKept
  <2> QED
    BY <2>1, <2>2
<1>3. StartedSince(depegAccounts.slot, depegAccounts.call)'
  <2>1. ASSUME NEW c \in Calls, DepegFetched(c) \/ PoolInfoFailed(c)
        PROVE  StartedSince(depegAccounts.slot, depegAccounts.call)'
    <3>1. Running(c) /\ peers' = peers /\ \A d \in Calls : Running(d)' => Running(d)
      BY <2>1 DEF DepegFetched, PoolInfoFailed, DepegAnswered, Running, RunningStates, OInv, IInv, TypeOK
    <3>2. depegAccounts'.call = c
      BY <2>1 DEF DepegFetched, PoolInfoFailed, DepegAnswered
    <3>3. \A s : StartedSince(s, c)'
      BY <3>1, StartedWritten
    <3> QED
      BY <3>2, <3>3 DEF StartedSince
  <2>2. CASE ~ \E c \in Calls : DepegFetched(c) \/ PoolInfoFailed(c)
    <3>1. depegAccounts' = depegAccounts
      BY <2>2 DEF Next, Answered, vars, cacheVars, Tick, UpdateState, PoolFetched, SupplyFetched,
         VaultRefreshed, Gathered, AccountsFetched, RequestFailed
    <3>2. StartedSince(depegAccounts.slot, depegAccounts.call)
      BY DEF OInv, PartsBeforeRunning
    <3>3. depegAccounts.slot \in Slots /\ depegAccounts.slot <= slot
      BY DEF OInv, IInv, TypeOK, Part, ReadInPast
    <3> QED
      BY <3>1, <3>2, <3>3, StartedKept
  <2> QED
    BY <2>1, <2>2
<1>4. ASSUME NEW v \in Vaults
      PROVE  (StartedSince(vaultState[v].slot, vaultState[v].call) \/ Rejected(vaultState[v].call))'
  <2>1. ASSUME NEW c \in Calls, VaultRefreshed(c, v)
        PROVE  (StartedSince(vaultState[v].slot, vaultState[v].call) \/ Rejected(vaultState[v].call))'
    <3>1. PICK s \in AnswerSlots(c, v) :
              vaultState' = [vaultState EXCEPT ![v] = [slot |-> s, call |-> c]]
      BY <2>1 DEF VaultRefreshed
    <3>2. vaultState'[v] = [slot |-> s, call |-> c]
      BY <3>1 DEF OInv, IInv, TypeOK
    <3>3. pc' = pc /\ peers' = peers /\ pc[c] \in {"gather", "rejected"}
      BY <2>1, <3>1 DEF VaultRefreshed, AnswerSlots, OInv, IInv, VaultRequests
    <3>4. CASE pc[c] = "rejected"
      BY <3>2, <3>3, <3>4 DEF Rejected
    <3>5. CASE pc[c] = "gather"
      <4>1. Running(c) /\ \A d \in Calls : Running(d)' => Running(d)
        BY <3>3, <3>5 DEF Running, RunningStates
      <4>2. StartedSince(s, c)'
        BY <3>3, <4>1, StartedWritten
      <4> QED
        BY <3>2, <4>2 DEF StartedSince
    <3> QED
      BY <3>3, <3>4, <3>5
  <2>2. CASE ~ \E c \in Calls : VaultRefreshed(c, v)
    <3>1. vaultState'[v] = vaultState[v]
      <4>1. ASSUME NEW d \in Calls, NEW w \in Vaults, VaultRefreshed(d, w)
            PROVE  vaultState'[v] = vaultState[v]
        BY <2>2, <4>1 DEF VaultRefreshed, OInv, IInv, TypeOK
      <4>2. CASE ~ \E d \in Calls, w \in Vaults : VaultRefreshed(d, w)
        BY <4>2 DEF Next, Answered, vars, cacheVars, Tick, UpdateState, PoolFetched, SupplyFetched,
           Gathered, AccountsFetched,
           DepegFetched, PoolInfoFailed, DepegAnswered, RequestFailed
      <4> QED
        BY <4>1, <4>2
    <3>2. vaultState[v].slot \in Slots /\ vaultState[v].slot <= slot
      BY DEF OInv, IInv, TypeOK, Part, ReadInPast
    <3>3. CASE StartedSince(vaultState[v].slot, vaultState[v].call)
      BY <3>1, <3>2, <3>3, StartedKept
    <3>4. CASE Rejected(vaultState[v].call)
      BY <3>1, <3>4, RejectedKept DEF OInv
    <3> QED
      BY <3>3, <3>4 DEF OInv, PartsBeforeRunning
  <2> QED
    BY <2>1, <2>2
<1> QED
  BY <1>1, <1>2, <1>3, <1>4 DEF PartsBeforeRunning
\* While a call runs that nothing has overlapped, no other call runs.
LEMMA AloneRuns ==
    ASSUME OInv, NEW c \in Calls, Running(c), peers[c] = {}, NEW d \in Calls, Running(d)
    PROVE  d = c
BY DEF OInv, RunningArePeers

\* What a call that runs alone puts together is its own, read in order.
LEMMA AloneByStageStep == OInv /\ [Next]_vars => AloneByStage'
<1> SUFFICES ASSUME OInv, [Next]_vars, NEW c \in Calls, peers'[c] = {} PROVE AloneStage(c)'
  BY DEF AloneByStage
<1> USE DEF OInv, IInv, TypeOK, Part, Running, RunningStates, Requests, Vaults, None
<1>0. /\ peers[c] = {} => AloneStage(c)
      /\ slot \in Slots /\ \A r \in Requests : sent[c][r] \in Slots \cup {None}
      /\ \A v \in Vaults : vaultState[v].slot \in Slots /\ vaultState[v].slot <= slot
  BY DEF AloneByStage, ReadInPast
<1>1. CASE Tick
  BY <1>0, <1>1, SlotAssumption DEF Tick, cacheVars, AloneStage, OwnVault, Rejected, Slots
<1>2. ASSUME NEW d \in Calls, UpdateState(d) PROVE AloneStage(c)'
  <2>1. CASE d = c
    <3>1. pc'[c] = "gather" /\ \A v \in Vaults : sent'[c][v] = slot /\ slot # None
      BY <1>2, <2>1, SlotAssumption DEF UpdateState, Slots
    <3> QED
      BY <3>1 DEF AloneStage
  <2>2. CASE d # c
    <3>1. ~Running(c) /\ pc'[c] = pc[c]
      BY <1>2, <2>2 DEF UpdateState
    <3> QED
      BY <3>1 DEF AloneStage
  <2> QED
    BY <2>1, <2>2
<1>3. ASSUME NEW d \in Calls, PoolFetched(d) PROVE AloneStage(c)'
  <2>1. peers[c] = {} /\ pc' = pc /\ vaultState' = vaultState /\ slot' = slot
    BY <1>3 DEF PoolFetched, cacheVars
  <2>2. CASE pc[c] = "gather"
    <3>1. \A v \in Vaults : sent'[c][v] = sent[c][v]
      BY <1>3 DEF PoolFetched
    <3> QED
      BY <1>0, <2>1, <2>2, <3>1 DEF AloneStage, OwnVault, Rejected
  <2>3. CASE pc[c] # "gather"
    <3>1. ~Running(c)
      BY <1>3, <2>1, <2>3, AloneRuns DEF PoolFetched
    <3> QED
      BY <2>1, <3>1 DEF AloneStage
  <2> QED
    BY <2>2, <2>3
<1>4. ASSUME NEW d \in Calls, SupplyFetched(d) PROVE AloneStage(c)'
  <2>1. peers[c] = {} /\ pc' = pc /\ vaultState' = vaultState /\ slot' = slot
    BY <1>4 DEF SupplyFetched, cacheVars
  <2>2. CASE pc[c] = "gather"
    <3>1. \A v \in Vaults : sent'[c][v] = sent[c][v]
      BY <1>4 DEF SupplyFetched
    <3> QED
      BY <1>0, <2>1, <2>2, <3>1 DEF AloneStage, OwnVault, Rejected
  <2>3. CASE pc[c] # "gather"
    <3>1. ~Running(c)
      BY <1>4, <2>1, <2>3, AloneRuns DEF SupplyFetched
    <3> QED
      BY <2>1, <3>1 DEF AloneStage
  <2> QED
    BY <2>2, <2>3
<1>5. ASSUME NEW d \in Calls, NEW v \in Vaults, VaultRefreshed(d, v) PROVE AloneStage(c)'
  <2>1. PICK s \in AnswerSlots(d, v) :
            vaultState' = [vaultState EXCEPT ![v] = [slot |-> s, call |-> d]]
    BY <1>5 DEF VaultRefreshed
  <2>2. /\ peers[c] = {} /\ pc' = pc /\ slot' = slot /\ local' = local
        /\ poolState' = poolState /\ accountsInfo' = accountsInfo
    BY <1>5 DEF VaultRefreshed
  <2>3. s <= slot /\ pc[d] \in {"gather", "rejected"}
    BY <2>1, AnswerType DEF AnswerSlots, VaultRequests
  <2>4. ASSUME NEW w \in Vaults
        PROVE  vaultState'[w] = IF w = v THEN [slot |-> s, call |-> d] ELSE vaultState[w]
    BY <2>1
  <2>5. ASSUME Running(c), NEW w \in Vaults, NEW b, OwnVault(w, c, b), w # v
        PROVE  OwnVault(w, c, b)'
    BY <2>2, <2>4, <2>5 DEF OwnVault, Rejected
  <2>6. ASSUME NEW w \in Vaults, w # v PROVE sent'[c][w] = sent[c][w]
    BY <1>5, <2>6 DEF VaultRefreshed
  <2>7. sent'[c]["batch"] = sent[c]["batch"] /\ sent'[c]["depeg"] = sent[c]["depeg"]
    BY <1>5 DEF VaultRefreshed
  <2>8. CASE pc[c] = "gather"
    <3>1. ASSUME NEW w \in Vaults, sent'[c][w] = None PROVE OwnVault(w, c, slot)'
      <4>1. CASE w = v
        <5>1. pc[d] = "gather" => d = c
          BY <2>2, <2>8, AloneRuns
        <5> QED
          BY <2>2, <2>3, <2>4, <4>1, <5>1 DEF OwnVault, Rejected
      <4>2. CASE w # v
        BY <1>0, <2>2, <2>4, <2>6, <2>8, <3>1, <4>2 DEF OwnVault, Rejected, AloneStage
      <4> QED
        BY <4>1, <4>2
    <3> QED
      BY <2>2, <2>8, <3>1 DEF AloneStage
  <2>9. CASE pc[c] \in {"batch", "depeg"}
    <3>1. pc[d] = "rejected"
      BY <2>2, <2>3, <2>9, AloneRuns
    <3>2. ASSUME NEW w \in Vaults, NEW b, OwnVault(w, c, b) PROVE OwnVault(w, c, b)'
      BY <2>2, <2>4, <3>1, <3>2 DEF OwnVault, Rejected
    <3> QED
      BY <1>0, <2>2, <2>7, <2>9, <3>2 DEF AloneStage
  <2> QED
    BY <2>2, <2>8, <2>9 DEF AloneStage
<1>6. ASSUME NEW d \in Calls, Gathered(d) PROVE AloneStage(c)'
  <2>1. peers[c] = {} /\ vaultState' = vaultState /\ local' = local /\ pc[d] = "gather"
    BY <1>6 DEF Gathered
  <2>2. CASE d = c
    <3>1. AloneStage(c) /\ pc[c] = "gather" /\ \A v \in Vaults : sent[c][v] = None
      BY <1>0, <1>6, <2>1, <2>2 DEF Gathered
    <3>2. pc'[c] = "batch" /\ sent'[c]["batch"] = slot /\ pc' = [pc EXCEPT ![c] = "batch"]
      BY <1>6, <2>2 DEF Gathered
    <3>3. poolState'.call = c /\ poolState'.slot = local[c].pool /\ local[c].pool <= slot
      BY <1>6, <2>2 DEF Gathered, ReadInPast
    <3>4. ASSUME NEW v \in Vaults PROVE OwnVault(v, c, sent[c]["batch"])'
      BY <2>1, <3>1, <3>2 DEF AloneStage, OwnVault, Rejected
    <3> QED
      BY <2>1, <3>2, <3>3, <3>4 DEF AloneStage
  <2>3. CASE d # c
    <3>1. ~Running(c) /\ pc'[c] = pc[c]
      BY <1>6, <2>1, <2>3, AloneRuns DEF Gathered
    <3> QED
      BY <3>1 DEF AloneStage
  <2> QED
    BY <2>2, <2>3
<1>7. ASSUME NEW d \in Calls, AccountsFetched(d) PROVE AloneStage(c)'
  <2>1. /\ peers[c] = {} /\ vaultState' = vaultState /\ poolState' = poolState
        /\ pc[d] = "batch" /\ slot' = slot
    BY <1>7 DEF AccountsFetched
  <2>2. CASE d = c
    <3>1. PICK s \in AnswerSlots(c, "batch") :
              /\ accountsInfo' = [slot |-> s, call |-> c]
              /\ local' = [local EXCEPT ![c].accounts = s]
      BY <1>7, <2>2 DEF AccountsFetched
    <3>2. /\ s \in Slots /\ s <= slot /\ sent[c]["batch"] \in Slots /\ sent[c]["batch"] <= s
      BY <3>1, AnswerType
    <3>3. local'[c].accounts = s /\ local'[c].pool = local[c].pool
      BY <3>1
    <3>4. pc'[c] = "depeg" /\ sent'[c]["depeg"] = slot /\ pc' = [pc EXCEPT ![c] = "depeg"]
      BY <1>7, <2>2 DEF AccountsFetched
    <3>5. AloneStage(c) /\ pc[c] = "batch"
      BY <1>0, <2>1, <2>2
    <3>6. poolState.slot \in Slots /\ poolState.slot <= s
      BY <3>2, <3>5, SlotAssumption DEF AloneStage, Slots
    <3>7. ASSUME NEW v \in Vaults PROVE OwnVault(v, c, accountsInfo.slot)'
      <4>1. OwnVault(v, c, sent[c]["batch"])
        BY <3>5 DEF AloneStage
      <4>2. vaultState[v].slot <= sent[c]["batch"] => vaultState[v].slot <= s
        BY <1>0, <3>2, SlotAssumption DEF Slots
      <4> QED
        BY <2>1, <3>1, <3>4, <3>5, <4>1, <4>2 DEF OwnVault, Rejected
    <3> QED
      BY <2>1, <3>1, <3>2, <3>3, <3>4, <3>5, <3>6, <3>7 DEF AloneStage
  <2>3. CASE d # c
    <3>1. ~Running(c) /\ pc'[c] = pc[c]
      BY <1>7, <2>1, <2>3, AloneRuns DEF AccountsFetched
    <3> QED
      BY <3>1 DEF AloneStage
  <2> QED
    BY <2>2, <2>3
<1>8. ASSUME NEW d \in Calls, DepegFetched(d) \/ PoolInfoFailed(d) PROVE AloneStage(c)'
  <2>1. peers[c] = {} /\ pc[d] = "depeg" /\ (d = c => pc'[c] \in {"resolved", "rejected"})
        /\ (d # c => pc'[c] = pc[c])
    BY <1>8 DEF DepegFetched, PoolInfoFailed, DepegAnswered
  <2>2. d # c => ~Running(c)
    BY <2>1, AloneRuns
  <2> QED
    BY <2>1, <2>2 DEF AloneStage
<1>9. ASSUME NEW d \in Calls, NEW r \in Requests, RequestFailed(d, r) PROVE AloneStage(c)'
  <2>1. CASE d = c
    BY <1>9, <2>1 DEF RequestFailed, AloneStage
  <2>2. CASE d # c
    <3>1. /\ peers[c] = {} /\ pc'[c] = pc[c] /\ sent'[c] = sent[c] /\ UNCHANGED <<slot, local, cacheVars>>
      BY <1>9, <2>2 DEF RequestFailed
    <3>2. ASSUME NEW v \in Vaults, NEW b, OwnVault(v, c, b) PROVE OwnVault(v, c, b)'
      BY <3>1, <3>2, RejectedKept DEF OwnVault, cacheVars
    <3> QED
      BY <1>0, <3>1, <3>2 DEF AloneStage, cacheVars
  <2> QED
    BY <2>1, <2>2
<1>10. CASE UNCHANGED vars
  BY <1>0, <1>10 DEF vars, cacheVars, AloneStage, OwnVault, Rejected
<1> QED
  BY <1>1, <1>2, <1>3, <1>4, <1>5, <1>6, <1>7, <1>8, <1>9, <1>10 DEF Next, Answered
\* The generation that a lone call left stays until another call assigns poolState.
LEMMA AloneLeavesGenerationStep == OInv /\ [Next]_vars => AloneLeavesGeneration'
<1> DEFINE Lone(c) == c \in Calls => pc[c] = "resolved" /\ peers[c] = {}
<1> SUFFICES ASSUME OInv, [Next]_vars, Lone(poolState.call)' PROVE Generation(poolState.call)'
  BY DEF AloneLeavesGeneration
<1> USE DEF OInv, IInv, TypeOK, Part, Running, RunningStates, Requests, Vaults, None
<1>0. Lone(poolState.call) => Generation(poolState.call)
  BY DEF AloneLeavesGeneration
<1>1. CASE Tick
  BY <1>0, <1>1 DEF Tick, cacheVars, Generation, Rejected
<1>2. ASSUME NEW d \in Calls, UpdateState(d) PROVE Generation(poolState.call)'
  <2>1. UNCHANGED cacheVars /\ pc' = [pc EXCEPT ![d] = "gather"] /\ pc[d] = "idle"
    BY <1>2 DEF UpdateState
  <2>2. ASSUME NEW c \in Calls, pc'[c] = "resolved" PROVE peers'[c] = peers[c] /\ pc[c] = "resolved"
    BY <1>2, <2>2 DEF UpdateState
  <2>3. Lone(poolState.call)
    BY <2>1, <2>2 DEF cacheVars
  <2> QED
    BY <1>0, <2>1, <2>3 DEF cacheVars, Generation, Rejected
<1>3. ASSUME NEW d \in Calls, PoolFetched(d) \/ SupplyFetched(d) PROVE Generation(poolState.call)'
  BY <1>0, <1>3 DEF PoolFetched, SupplyFetched, cacheVars, Generation, Rejected
<1>4. ASSUME NEW d \in Calls, NEW v \in Vaults, VaultRefreshed(d, v)
      PROVE  Generation(poolState.call)'
  <2>1. PICK s \in AnswerSlots(d, v) :
            vaultState' = [vaultState EXCEPT ![v] = [slot |-> s, call |-> d]]
    BY <1>4 DEF VaultRefreshed
  <2>2. UNCHANGED <<pc, poolState, accountsInfo, depegAccounts, swapCurve, poolInfo, peers>>
    BY <1>4 DEF VaultRefreshed
  <2>3. pc[d] \in {"gather", "rejected"}
    BY <2>1 DEF AnswerSlots, VaultRequests
  <2>4. ASSUME NEW w \in Vaults
        PROVE  vaultState'[w] = IF w = v THEN [slot |-> s, call |-> d] ELSE vaultState[w]
    BY <2>1
  <2>5. Generation(poolState.call)
    BY <1>0, <2>2
  <2> QED
    BY <2>2, <2>3, <2>4, <2>5 DEF Generation, Rejected
<1>5. ASSUME NEW d \in Calls, Gathered(d) PROVE Generation(poolState.call)'
  <2>1. poolState'.call = d /\ pc'[d] = "batch"
    BY <1>5 DEF Gathered
  <2> QED
    BY <2>1
<1>6. ASSUME NEW d \in Calls, AccountsFetched(d) PROVE Generation(poolState.call)'
  <2>1. poolState' = poolState /\ peers' = peers /\ pc'[d] = "depeg" /\ pc[d] = "batch"
    BY <1>6 DEF AccountsFetched
  <2> QED
    BY <2>1 DEF GatheredSince
<1>7. ASSUME NEW d \in Calls, DepegFetched(d) PROVE Generation(poolState.call)'
  <2>1. PICK s \in AnswerSlots(d, "depeg") : depegAccounts' = [slot |-> s, call |-> d]
    BY <1>7 DEF DepegFetched, DepegAnswered
  <2>2. s \in Slots /\ sent[d]["depeg"] \in Slots /\ sent[d]["depeg"] <= s
    BY <2>1, AnswerType
  <2>3. /\ UNCHANGED <<local, poolState, vaultState, accountsInfo, peers>>
        /\ pc[d] = "depeg" /\ pc' = [pc EXCEPT ![d] = "resolved"]
        /\ swapCurve' = [pool |-> local[d].pool, clock |-> local[d].accounts, call |-> d]
        /\ poolInfo' = [slot |-> local[d].accounts,
                        vaults |-> [v \in Vaults |-> vaultState[v].slot], call |-> d]
    BY <1>7 DEF DepegFetched, DepegAnswered
  <2>4. poolState.call = d /\ peers[d] = {}
    BY <2>3 DEF GatheredSince
  <2>5. AloneStage(d)
    BY <2>4 DEF AloneByStage
  <2>6. /\ poolState.slot = local[d].pool
        /\ accountsInfo = [slot |-> local[d].accounts, call |-> d]
        /\ poolState.slot <= accountsInfo.slot
        /\ accountsInfo.slot <= sent[d]["depeg"]
        /\ \A v \in Vaults : OwnVault(v, d, accountsInfo.slot)
    BY <2>3, <2>5 DEF AloneStage
  <2>7. accountsInfo.slot <= s
    BY <2>2, <2>6, SlotAssumption DEF Slots
  <2>8. ASSUME NEW v \in Vaults
        PROVE  \/ /\ vaultState'[v].call = d
                  /\ vaultState'[v].slot <= accountsInfo'.slot
                  /\ vaultState'[v].slot = poolInfo'.vaults[v]
               \/ Rejected(vaultState[v].call)'
    BY <2>3, <2>6 DEF OwnVault, Rejected
  <2> QED
    BY <2>1, <2>3, <2>4, <2>6, <2>7, <2>8 DEF Generation
<1>8. ASSUME NEW d \in Calls, PoolInfoFailed(d) PROVE Generation(poolState.call)'
  <2>1. poolState' = poolState /\ peers' = peers /\ pc'[d] = "rejected" /\ pc[d] = "depeg"
    BY <1>8 DEF PoolInfoFailed, DepegAnswered
  <2> QED
    BY <2>1 DEF GatheredSince
<1>9. ASSUME NEW d \in Calls, NEW r \in Requests, RequestFailed(d, r)
      PROVE  Generation(poolState.call)'
  <2>1. UNCHANGED <<cacheVars, peers>> /\ pc' = [pc EXCEPT ![d] = "rejected"]
    BY <1>9 DEF RequestFailed
  <2>2. Generation(poolState.call)
    BY <1>0, <2>1 DEF cacheVars
  <2> QED
    BY <2>1, <2>2 DEF cacheVars, Generation, Rejected
<1>10. CASE UNCHANGED vars
  BY <1>0, <1>10 DEF vars, cacheVars, Generation, Rejected
<1> QED
  BY <1>1, <1>2, <1>3, <1>4, <1>5, <1>6, <1>7, <1>8, <1>9, <1>10 DEF Next, Answered

\* A refresh is answered after it was sent, and a call that has assigned something is not
\* made again.
LEMMA VaultSinceWriterStep == OInv /\ [Next]_vars => VaultSinceWriter'
<1> SUFFICES ASSUME OInv, [Next]_vars, NEW v \in Vaults, vaultState'[v].call \in Calls
             PROVE  vaultState'[v].slot >= start'[vaultState'[v].call]
  BY DEF VaultSinceWriter
<1> USE DEF OInv, IInv, TypeOK, Part
<1>1. ASSUME NEW c \in Calls, VaultRefreshed(c, v)
      PROVE  vaultState'[v].slot >= start'[vaultState'[v].call]
  <2>1. PICK s \in AnswerSlots(c, v) :
            vaultState' = [vaultState EXCEPT ![v] = [slot |-> s, call |-> c]]
    BY <1>1 DEF VaultRefreshed
  <2>2. s \in Slots /\ sent[c][v] # None /\ sent[c][v] \in Slots /\ sent[c][v] <= s
    BY <2>1, AnswerType DEF Requests
  <2>3. start[c] \in Slots /\ start[c] <= sent[c][v]
    BY <2>2 DEF SentInCall, Requests
  <2>4. vaultState'[v] = [slot |-> s, call |-> c] /\ start' = start
    BY <1>1, <2>1 DEF VaultRefreshed
  <2> QED
    BY <2>2, <2>3, <2>4, SlotAssumption DEF Slots
<1>2. CASE ~ \E c \in Calls : VaultRefreshed(c, v)
  <2>1. vaultState'[v] = vaultState[v]
    <3>1. ASSUME NEW d \in Calls, NEW w \in Vaults, VaultRefreshed(d, w)
          PROVE  vaultState'[v] = vaultState[v]
      BY <1>2, <3>1 DEF VaultRefreshed
    <3>2. CASE ~ \E d \in Calls, w \in Vaults : VaultRefreshed(d, w)
      BY <3>2 DEF Next, Answered, vars, cacheVars, Tick, UpdateState, PoolFetched, SupplyFetched,
         Gathered, AccountsFetched,
         DepegFetched, PoolInfoFailed, DepegAnswered, RequestFailed
    <3> QED
      BY <3>1, <3>2
  <2>2. pc[vaultState[v].call] # "idle" /\ vaultState[v].slot >= start[vaultState[v].call]
    BY <2>1 DEF WritersArePast, VaultSinceWriter
  <2>3. start'[vaultState[v].call] = start[vaultState[v].call]
    <3>1. ASSUME NEW d \in Calls, UpdateState(d)
          PROVE  start'[vaultState[v].call] = start[vaultState[v].call]
      BY <2>1, <2>2, <3>1 DEF UpdateState
    <3>2. CASE ~ \E d \in Calls : UpdateState(d)
      BY <3>2 DEF Next, Answered, vars, Tick, PoolFetched, SupplyFetched, VaultRefreshed,
         Gathered, AccountsFetched, DepegFetched, PoolInfoFailed, DepegAnswered, RequestFailed
    <3> QED
      BY <3>1, <3>2
  <2> QED
    BY <2>1, <2>2, <2>3
<1> QED
  BY <1>1, <1>2

\* AmmImpl.create reads one generation.
LEMMA InitOverlap == Init => OInv
<1> SUFFICES ASSUME Init PROVE OInv
  OBVIOUS
<1>1. PICK p, l, v, a, d \in 0 .. InitSlot : CreatedFrom(p, l, v, a, d)
  BY DEF Init
<1>2. p \in Nat /\ v \in Nat /\ a \in Nat /\ d \in Nat /\ l \in Nat
      /\ p <= InitSlot /\ v <= InitSlot /\ a <= InitSlot /\ d <= InitSlot
      /\ p <= a /\ v <= a /\ a <= d
  BY <1>1, SlotAssumption DEF CreatedFrom
<1>3. /\ \A c \in Calls : pc[c] = "idle" /\ c # Create
      /\ \A c \in Calls : local[c].pool = 0 /\ local[c].accounts = 0
  BY CreateAssumption DEF Init
<1>4. ReadInPast
  BY <1>1, <1>2, <1>3, SlotAssumption DEF Init, CreatedFrom, ReadInPast
<1>5. RunningArePeers /\ GatheredSince /\ AloneByStage /\ PartsBeforeRunning
  BY <1>3 DEF RunningArePeers, GatheredSince, AloneByStage, AloneStage, PartsBeforeRunning,
     StartedSince, Running, RunningStates
<1>6. WritersArePast
  BY <1>1, <1>3, CreateAssumption DEF CreatedFrom, WritersArePast
<1>7. AloneLeavesGeneration
  BY <1>1, <1>2 DEF CreatedFrom, AloneLeavesGeneration, Generation
<1>8. VaultSinceWriter
  BY <1>1, CreateAssumption DEF CreatedFrom, VaultSinceWriter
<1> QED
  BY <1>4, <1>5, <1>6, <1>7, <1>8, InitInv DEF OInv

\* Every step keeps the invariant.
LEMMA NextOverlap == OInv /\ [Next]_vars => OInv'
BY NextInv, ReadInPastStep, RunningArePeersStep, WritersArePastStep, PartsBeforeRunningStep,
   GatheredSinceStep, AloneByStageStep, AloneLeavesGenerationStep, VaultSinceWriterStep DEF OInv

\* When nothing runs and the last call to assign poolState ran alone and was not rejected,
\* the object holds one generation, for any number of calls before it, overlapping or
\* rejected ones included; a vault state is of it and not ahead of its clock, or it was
\* assigned by the refresh of a rejected call, and then is no older than that call.
THEOREM CoherentWhenQuietHolds == Safety => []CoherentWhenQuiet
<1>1. OInv => CoherentWhenQuiet
  <2> SUFFICES ASSUME OInv, QuietAfterLoneUpdate PROVE CoherentWhenQuiet
    BY DEF CoherentWhenQuiet
  <2>1. poolState.call \in Calls => pc[poolState.call] = "resolved"
    BY DEF QuietAfterLoneUpdate, OInv, IInv, TypeOK, WritersArePast, Rejected, Running
  <2>2. Generation(poolState.call)
    BY <2>1 DEF QuietAfterLoneUpdate, OInv, AloneLeavesGeneration
  <2>3. \A d \in Calls : ~Running(d)
    BY DEF QuietAfterLoneUpdate
  <2>4. ASSUME NEW v \in Vaults, OfRejected(v)
        PROVE  vaultState[v].slot >= start[vaultState[v].call]
    BY <2>4 DEF OInv, VaultSinceWriter, OfRejected, Rejected
  <2>5. ASSUME NEW v \in Vaults, ~OfRejected(v)
        PROVE  /\ vaultState[v].call = poolState.call
               /\ vaultState[v].slot <= accountsInfo.slot
               /\ vaultState[v].slot = poolInfo.vaults[v]
    BY <2>2, <2>3, <2>5 DEF Generation, OfRejected
  <2> QED
    BY <2>2, <2>4, <2>5 DEF CoherentWhenQuiet, Generation
<1> QED
  BY <1>1, InitOverlap, NextOverlap, PTL DEF Safety

\* A step makes a cached part older only if the call it is of overlapped the call whose
\* value it replaces, or, for a vault, if one of the two had been rejected.
THEOREM OlderOnlyByOverlapHolds == Safety => OlderOnlyByOverlap
<1>1. OInv /\ [Next]_vars => [AgesByOverlap]_vars
  <2> SUFFICES ASSUME OInv, [Next]_vars PROVE AgesByOverlap
    OBVIOUS
  <2> USE DEF OInv, IInv, TypeOK, Part
  <2>1. Replaces(poolState.slot, poolState.call, poolState'.slot, poolState'.call)
    <3>1. ASSUME NEW c \in Calls, Gathered(c)
          PROVE  Replaces(poolState.slot, poolState.call, poolState'.slot, poolState'.call)
      <4>1. pc[c] = "gather" /\ poolState'.call = c /\ poolState'.slot = local[c].pool
            /\ start[c] <= local[c].pool
        BY <3>1 DEF Gathered, LocalsFresh, Requests
      <4>2. poolState.slot <= start[c] \/ (poolState.call \in Calls /\ c \in peers[poolState.call])
        BY <4>1 DEF PartsBeforeRunning, StartedSince, WritersArePast, Running, RunningStates
      <4> QED
        BY <4>1, <4>2, SlotAssumption DEF Replaces, Slots
    <3>2. CASE ~ \E c \in Calls : Gathered(c)
      <4>1. poolState' = poolState
        BY <3>2 DEF Next, Answered, vars, cacheVars, Tick, UpdateState, PoolFetched, SupplyFetched,
           VaultRefreshed, AccountsFetched,
           DepegFetched, PoolInfoFailed, DepegAnswered, RequestFailed
      <4> QED
        BY <4>1, SlotAssumption DEF Replaces, Slots
    <3> QED
      BY <3>1, <3>2
  <2>2. Replaces(accountsInfo.slot, accountsInfo.call, accountsInfo'.slot, accountsInfo'.call)
    <3>1. ASSUME NEW c \in Calls, AccountsFetched(c)
          PROVE  Replaces(accountsInfo.slot, accountsInfo.call, accountsInfo'.slot, accountsInfo'.call)
      <4>1. PICK s \in AnswerSlots(c, "batch") : accountsInfo' = [slot |-> s, call |-> c]
        BY <3>1 DEF AccountsFetched
      <4>2. s \in Slots /\ start[c] <= s
        <5>1. s \in Slots /\ sent[c]["batch"] # None /\ sent[c]["batch"] \in Slots /\ sent[c]["batch"] <= s
          BY <4>1, AnswerType DEF Requests
        <5>2. start[c] <= sent[c]["batch"]
          BY <5>1 DEF SentInCall, Requests
        <5> QED
          BY <5>1, <5>2, SlotAssumption DEF Slots
      <4>3. pc[c] = "batch"
        BY <3>1 DEF AccountsFetched
      <4>4. accountsInfo.slot <= start[c]
            \/ (accountsInfo.call \in Calls /\ c \in peers[accountsInfo.call])
        BY <4>3 DEF PartsBeforeRunning, StartedSince, WritersArePast, Running, RunningStates
      <4> QED
        BY <4>1, <4>2, <4>4, SlotAssumption DEF Replaces, Slots
    <3>2. CASE ~ \E c \in Calls : AccountsFetched(c)
      <4>1. accountsInfo' = accountsInfo
        BY <3>2 DEF Next, Answered, vars, cacheVars, Tick, UpdateState, PoolFetched, SupplyFetched,
           VaultRefreshed, Gathered,
           DepegFetched, PoolInfoFailed, DepegAnswered, RequestFailed
      <4> QED
        BY <4>1, SlotAssumption DEF Replaces, Slots
    <3> QED
      BY <3>1, <3>2
  <2>3. Replaces(depegAccounts.slot, depegAccounts.call, depegAccounts'.slot, depegAccounts'.call)
    <3>1. ASSUME NEW c \in Calls, DepegFetched(c) \/ PoolInfoFailed(c)
          PROVE  Replaces(depegAccounts.slot, depegAccounts.call, depegAccounts'.slot, depegAccounts'.call)
      <4>1. PICK s \in AnswerSlots(c, "depeg") : depegAccounts' = [slot |-> s, call |-> c]
        BY <3>1 DEF DepegFetched, PoolInfoFailed, DepegAnswered
      <4>2. s \in Slots /\ start[c] <= s
        <5>1. s \in Slots /\ sent[c]["depeg"] # None /\ sent[c]["depeg"] \in Slots /\ sent[c]["depeg"] <= s
          BY <4>1, AnswerType DEF Requests
        <5>2. start[c] <= sent[c]["depeg"]
          BY <5>1 DEF SentInCall, Requests
        <5> QED
          BY <5>1, <5>2, SlotAssumption DEF Slots
      <4>3. pc[c] = "depeg"
        BY <3>1 DEF DepegFetched, PoolInfoFailed, DepegAnswered
      <4>4. depegAccounts.slot <= start[c]
            \/ (depegAccounts.call \in Calls /\ c \in peers[depegAccounts.call])
        BY <4>3 DEF PartsBeforeRunning, StartedSince, WritersArePast, Running, RunningStates
      <4> QED
        BY <4>1, <4>2, <4>4, SlotAssumption DEF Replaces, Slots
    <3>2. CASE ~ \E c \in Calls : DepegFetched(c) \/ PoolInfoFailed(c)
      <4>1. depegAccounts' = depegAccounts
        BY <3>2 DEF Next, Answered, vars, cacheVars, Tick, UpdateState, PoolFetched, SupplyFetched,
           VaultRefreshed, Gathered, AccountsFetched, RequestFailed
      <4> QED
        BY <4>1, SlotAssumption DEF Replaces, Slots
    <3> QED
      BY <3>1, <3>2
  <2>4. ASSUME NEW v \in Vaults
        PROVE  \/ Replaces(vaultState[v].slot, vaultState[v].call,
                           vaultState'[v].slot, vaultState'[v].call)
               \/ Rejected(vaultState[v].call) \/ Rejected(vaultState'[v].call)
    <3>1. ASSUME NEW c \in Calls, VaultRefreshed(c, v), pc[c] # "rejected",
                 ~Rejected(vaultState[v].call)
          PROVE  Replaces(vaultState[v].slot, vaultState[v].call,
                          vaultState'[v].slot, vaultState'[v].call)
      <4>1. PICK s \in AnswerSlots(c, v) :
                vaultState' = [vaultState EXCEPT ![v] = [slot |-> s, call |-> c]]
        BY <3>1 DEF VaultRefreshed
      <4>2. s \in Slots /\ start[c] <= s /\ sent[c][v] # None
        <5>1. s \in Slots /\ sent[c][v] # None /\ sent[c][v] \in Slots /\ sent[c][v] <= s
          BY <4>1, AnswerType DEF Requests
        <5>2. start[c] <= sent[c][v]
          BY <5>1 DEF SentInCall, Requests
        <5> QED
          BY <5>1, <5>2, SlotAssumption DEF Slots
      <4>3. pc[c] = "gather"
        BY <3>1, <4>2 DEF VaultRequests
      <4>4. vaultState[v].slot <= start[c]
            \/ (vaultState[v].call \in Calls /\ c \in peers[vaultState[v].call])
        BY <3>1, <4>2, <4>3 DEF PartsBeforeRunning, StartedSince, WritersArePast, Running, RunningStates
      <4>5. vaultState'[v] = [slot |-> s, call |-> c]
        BY <4>1
      <4> QED
        BY <4>2, <4>4, <4>5, SlotAssumption DEF Replaces, Slots
    <3>2. ASSUME NEW c \in Calls, VaultRefreshed(c, v), pc[c] = "rejected"
          PROVE  Rejected(vaultState'[v].call)
      BY <3>2 DEF VaultRefreshed, Rejected
    <3>3. ASSUME ~ \E c \in Calls : VaultRefreshed(c, v)
          PROVE  vaultState'[v] = vaultState[v]
      <4>1. ASSUME NEW d \in Calls, NEW w \in Vaults, VaultRefreshed(d, w)
            PROVE  vaultState'[v] = vaultState[v]
        BY <3>3, <4>1 DEF VaultRefreshed
      <4>2. CASE ~ \E d \in Calls, w \in Vaults : VaultRefreshed(d, w)
        BY <4>2 DEF Next, Answered, vars, cacheVars, Tick, UpdateState, PoolFetched, SupplyFetched,
           Gathered, AccountsFetched,
           DepegFetched, PoolInfoFailed, DepegAnswered, RequestFailed
      <4> QED
        BY <4>1, <4>2
    <3>4. vaultState[v].slot \in Slots
      OBVIOUS
    <3> QED
      BY <3>1, <3>2, <3>3, <3>4, SlotAssumption DEF Replaces, Slots
  <2> QED
    BY <2>1, <2>2, <2>3, <2>4 DEF AgesByOverlap
<1> QED
  BY <1>1, InitOverlap, NextOverlap, PTL DEF Safety, OlderOnlyByOverlap
=============================================================================
