-------------------------- MODULE DepegCache_proofs --------------------------
(***************************************************************************)
(* Proofs about DepegCache, for any expiry time and any length of the run: *)
(* type correctness, that only a quote halfway through an update can stamp *)
(* an old price with a new time, and that every other quote is recent.     *)
(***************************************************************************)
EXTENDS DepegCache, TLAPS

\* What the chain answers is a record of the moment at which it was made.
Fresh(d) == d.price = d.updated

\* Nothing was read in the future, and the stake account is read after the clock.
ReadInOrder ==
    /\ Fresh(onChain) /\ \A read \in answer : Fresh(read)
    /\ currentTime <= now /\ \A read \in answer : read.updated <= now
    /\ onChain.updated <= now
    /\ pc = "depegAccounts" => \A read \in answer : read.price >= currentTime
    /\ curveTime <= curveStake

\* While the curve is built around the depeg object of poolState, nothing is halfway: the
\* curve and the object hold the same clock and the same stake account.
SharedIsWhole ==
    shared =>
        /\ pc \in {"idle", "poolState"}
        /\ curveDepeg = poolDepeg /\ curveTime = currentTime /\ curveStake = stake
        /\ "pool" \in torn <=> "curve" \in torn

IInv == TypeOK /\ ReadInOrder /\ SharedIsWhole /\ StampsAreHonest /\ RecentUnlessTorn

\* The set of times holds the natural numbers up to the bound.
LEMMA TimesNat == Times \subseteq Nat /\ Expire \in Nat /\ Create \in Times
BY DepegAssumption DEF Times

\* The record stays a record, whichever way the refresh goes.
LEMMA RefreshedType ==
    ASSUME NEW depeg \in Depeg, NEW time \in Times, NEW stakePrice \in Times
    PROVE  Refreshed(depeg, time, stakePrice) \in Depeg
BY DEF Refreshed, Depeg

\* A refresh with a stake account at least as recent as the clock keeps a record honest,
\* and the price it leaves is recent at that clock.
LEMMA RefreshedHonest ==
    ASSUME NEW depeg \in Depeg, NEW time \in Times, NEW stakePrice \in Times,
           depeg.price >= depeg.updated, stakePrice >= time
    PROVE  /\ Refreshed(depeg, time, stakePrice).price >= Refreshed(depeg, time, stakePrice).updated
           /\ Refreshed(depeg, time, stakePrice).price + Expire >= time
<1>1. depeg.price \in Nat /\ depeg.updated \in Nat /\ time \in Nat /\ stakePrice \in Nat
  BY TimesNat DEF Depeg
<1> QED
  BY <1>1, TimesNat DEF Refreshed

\* AmmImpl.create leaves a whole, honest object.
LEMMA InitInv == Init => IInv
<1> SUFFICES ASSUME Init PROVE IInv
  OBVIOUS
<1>1. onChain \in Depeg /\ onChain.price = onChain.updated
  BY DEF Init
<1>2. Create \in Times /\ onChain.price >= onChain.updated
  <2>1. onChain.price \in Nat /\ onChain.updated \in Nat
    BY <1>1, TimesNat DEF Depeg
  <2> QED
    BY <1>1, <2>1, TimesNat
<1>3. poolDepeg \in Depeg /\ poolDepeg.price >= poolDepeg.updated
  <2>1. Create >= Create
    BY TimesNat
  <2> QED
    BY <1>1, <1>2, <2>1, RefreshedType, RefreshedHonest DEF Init
<1>4. Create <= Create /\ Create + Expire >= Create
  BY TimesNat
<1> QED
  BY <1>1, <1>2, <1>3, <1>4
     DEF Init, IInv, TypeOK, ReadInOrder, SharedIsWhole, StampsAreHonest, RecentUnlessTorn,
         Recent, Fresh

\* Every step of the chain, of updateState and of a quote keeps the invariant.
LEMMA NextInv == IInv /\ [Next]_vars => IInv'
<1> SUFFICES ASSUME IInv, [Next]_vars PROVE IInv'
  OBVIOUS
<1> USE DEF IInv, TypeOK, Asking
<1>0. Times \subseteq Nat /\ Expire \in Nat
  BY TimesNat
<1>1. CASE Tick
  <2>1. now' \in Times /\ now' = now + 1
    BY <1>1, DepegAssumption DEF Tick, Times
  <2>2. \A t \in Times : t <= now => t <= now'
    BY <1>0, <2>1
  <2>3. UNCHANGED <<onChain, pc, answer, client, torn, lastQuote>>
    BY <1>1 DEF Tick
  <2>4. currentTime <= now' /\ onChain.updated <= now'
        /\ \A read \in answer : read.updated <= now'
    BY <2>2 DEF ReadInOrder, Depeg
  <2> QED
    BY <2>1, <2>3, <2>4
       DEF client, ReadInOrder, SharedIsWhole, StampsAreHonest, RecentUnlessTorn, Recent
<1>2. CASE ProgramRefresh
  <2>0. now <= now
    BY <1>0
  <2>1. onChain' \in Depeg /\ Fresh(onChain') /\ onChain'.updated <= now
    BY <1>2, <2>0, RefreshedType DEF ProgramRefresh, ReadInOrder, Fresh, Refreshed
  <2> QED
    BY <1>2, <2>1
       DEF ProgramRefresh, client, ReadInOrder, SharedIsWhole, StampsAreHonest, RecentUnlessTorn,
           Recent
<1>3. CASE UpdateState
  BY <1>3 DEF UpdateState, client, ReadInOrder, SharedIsWhole, StampsAreHonest, RecentUnlessTorn,
              Recent
<1>4. CASE Respond
  <2>0. now <= now /\ now >= currentTime
    <3>1. now \in Nat /\ currentTime \in Nat
      BY <1>0
    <3> QED
      BY <3>1 DEF ReadInOrder
  <2>1. PICK read \in Depeg : answer' = {read} /\ Fresh(read) /\ read.updated <= now
                              /\ (pc # "poolState" => read.price >= currentTime)
    BY <1>4, <2>0 DEF Respond, ReadInOrder, Fresh, Depeg
  <2> QED
    BY <1>4, <2>1
       DEF Respond, client, ReadInOrder, SharedIsWhole, StampsAreHonest, RecentUnlessTorn, Recent
<1>5. CASE PoolStateArrives
  <2>1. poolDepeg' \in Depeg /\ Fresh(poolDepeg')
    BY <1>5 DEF PoolStateArrives, ReadInOrder
  <2>2. poolDepeg'.price >= poolDepeg'.updated
    <3>1. poolDepeg'.price \in Nat /\ poolDepeg'.price = poolDepeg'.updated
      BY <1>0, <2>1 DEF Depeg, Fresh
    <3> QED
      BY <3>1
  <2> QED
    BY <1>5, <2>1, <2>2
       DEF PoolStateArrives, ReadInOrder, SharedIsWhole, StampsAreHonest, RecentUnlessTorn, Recent
<1>6. CASE BalancesArrive
  <2>1. PICK read \in answer : currentTime' = read.updated
    BY <1>6 DEF BalancesArrive
  <2>2. currentTime' \in Times
    BY <2>1 DEF Depeg
  <2>3. read.updated <= now
    BY <2>1 DEF ReadInOrder
  <2> QED
    BY <1>6, <2>1, <2>2, <2>3
       DEF BalancesArrive, ReadInOrder, SharedIsWhole, StampsAreHonest, RecentUnlessTorn, Recent
<1>7. CASE DepegAccountsArrive
  <2>1. PICK read \in answer :
            /\ stake' = read.price /\ curveStake' = read.price
            /\ poolDepeg' = Refreshed(poolDepeg, currentTime, read.price)
    BY <1>7 DEF DepegAccountsArrive, CurveAccounts
  <2>2. read.price \in Times /\ read.price >= currentTime /\ currentTime <= read.price
    <3>1. read.price \in Times /\ read.price \in Nat /\ currentTime \in Nat
      BY <1>0 DEF Depeg
    <3>2. read.price >= currentTime
      BY <1>7, <2>1 DEF DepegAccountsArrive, ReadInOrder
    <3> QED
      BY <3>1, <3>2
  <2>3. poolDepeg' \in Depeg
    BY <2>1, <2>2, RefreshedType
  <2>4. "pool" \notin torn => poolDepeg'.price >= poolDepeg'.updated
    BY <2>1, <2>2, RefreshedHonest DEF StampsAreHonest
  <2>5. /\ curveDepeg' = poolDepeg' /\ shared' = TRUE /\ curveTime' = currentTime
        /\ torn' = IF "pool" \in torn THEN {"pool", "curve"} ELSE {}
        /\ pc' = "idle" /\ answer' = {}
        /\ UNCHANGED <<now, onChain, currentTime, lastQuote>>
    BY <1>7 DEF DepegAccountsArrive
  <2> QED
    BY <2>1, <2>2, <2>3, <2>4, <2>5
       DEF ReadInOrder, SharedIsWhole, StampsAreHonest, RecentUnlessTorn, Recent
<1>8. CASE UpdateFails
  BY <1>8 DEF UpdateFails, client, ReadInOrder, SharedIsWhole, StampsAreHonest,
              RecentUnlessTorn, Recent
<1>9. CASE SwapQuote
  <2>1. poolDepeg' = Refreshed(poolDepeg, currentTime, stake) /\ poolDepeg' \in Depeg
    BY <1>9, RefreshedType DEF SwapQuote
  <2>2. CASE Halfway
    <3>1. ~shared
      <4>1. curveTime \in Nat /\ curveStake \in Nat /\ currentTime \in Nat /\ stake \in Nat
        BY <1>0
      <4> QED
        BY <2>2, <4>1 DEF ReadInOrder, SharedIsWhole, Halfway
    <3>2. torn' = torn \cup {"pool"} /\ curveDepeg' = curveDepeg /\ shared' = FALSE
          /\ lastQuote' = [price |-> poolDepeg'.price, time |-> currentTime,
                           rest |-> AtRest, torn |-> TRUE]
          /\ UNCHANGED <<now, onChain, pc, answer, currentTime, stake, curveTime, curveStake>>
      BY <1>9, <2>2, <3>1 DEF SwapQuote
    <3>3. AtRest \in BOOLEAN /\ poolDepeg'.price \in Times
      BY <2>1 DEF AtRest, Depeg
    <3> QED
      BY <2>1, <3>2, <3>3
         DEF ReadInOrder, SharedIsWhole, StampsAreHonest, RecentUnlessTorn, Recent
  <2>3. CASE ~Halfway
    <3>1. stake >= currentTime
      <4>1. currentTime \in Nat /\ stake \in Nat
        BY <1>0
      <4> QED
        BY <2>3, <4>1 DEF Halfway
    <3>2. torn' = torn /\ shared' = shared
          /\ curveDepeg' = (IF shared THEN poolDepeg' ELSE curveDepeg)
          /\ lastQuote' = [price |-> poolDepeg'.price, time |-> currentTime,
                           rest |-> AtRest, torn |-> "pool" \in torn]
          /\ UNCHANGED <<now, onChain, pc, answer, currentTime, stake, curveTime, curveStake>>
      BY <1>9, <2>3 DEF SwapQuote
    <3>3. AtRest \in BOOLEAN /\ poolDepeg'.price \in Times
      BY <2>1 DEF AtRest, Depeg
    <3>4. "pool" \notin torn => /\ poolDepeg'.price >= poolDepeg'.updated
                               /\ poolDepeg'.price + Expire >= currentTime
      BY <2>1, <3>1, RefreshedHonest DEF StampsAreHonest
    <3>5. TypeOK'
      BY <2>1, <3>2, <3>3
    <3>6. ReadInOrder' /\ SharedIsWhole'
      BY <3>2 DEF ReadInOrder, SharedIsWhole
    <3>7. StampsAreHonest'
      BY <3>2, <3>4 DEF SharedIsWhole, StampsAreHonest
    <3>8. RecentUnlessTorn'
      BY <3>2, <3>4 DEF RecentUnlessTorn, Recent
    <3> QED
      BY <3>5, <3>6, <3>7, <3>8
  <2> QED
    BY <2>2, <2>3
<1>10. CASE CurveQuote
  <2>1. curveDepeg' = Refreshed(curveDepeg, curveTime, curveStake) /\ curveDepeg' \in Depeg
    BY <1>10, RefreshedType DEF CurveQuote
  <2>2. curveStake >= curveTime
    <3>1. curveTime \in Nat /\ curveStake \in Nat /\ curveTime <= curveStake
      BY <1>0 DEF ReadInOrder
    <3> QED
      BY <3>1
  <2>3. torn' = torn /\ shared' = shared
        /\ poolDepeg' = (IF shared THEN curveDepeg' ELSE poolDepeg)
        /\ lastQuote' = [price |-> curveDepeg'.price, time |-> curveTime,
                         rest |-> AtRest, torn |-> "curve" \in torn]
        /\ UNCHANGED <<now, onChain, pc, answer, currentTime, stake, curveTime, curveStake>>
    BY <1>10 DEF CurveQuote
  <2>4. AtRest \in BOOLEAN /\ curveDepeg'.price \in Times
    BY <2>1 DEF AtRest, Depeg
  <2>5. "curve" \notin torn => /\ curveDepeg'.price >= curveDepeg'.updated
                               /\ curveDepeg'.price + Expire >= curveTime
    BY <2>1, <2>2, RefreshedHonest DEF StampsAreHonest
  <2>6. TypeOK'
    BY <2>1, <2>3, <2>4
  <2>7. ReadInOrder' /\ SharedIsWhole'
    BY <2>3 DEF ReadInOrder, SharedIsWhole
  <2>8. StampsAreHonest'
    BY <2>3, <2>5 DEF SharedIsWhole, StampsAreHonest
  <2>9. RecentUnlessTorn'
    BY <2>3, <2>5 DEF RecentUnlessTorn, Recent
  <2> QED
    BY <2>6, <2>7, <2>8, <2>9
<1>11. CASE UNCHANGED vars
  BY <1>11 DEF vars, client, ReadInOrder, SharedIsWhole, StampsAreHonest, RecentUnlessTorn, Recent
<1> QED
  BY <1>1, <1>2, <1>3, <1>4, <1>5, <1>6, <1>7, <1>8, <1>9, <1>10, <1>11 DEF Next, ClientNext

\* Every reachable state of the client and of its record on chain is well formed.
THEOREM TypeCorrect == Spec => []TypeOK
<1>1. IInv => TypeOK
  BY DEF IInv
<1> QED
  BY <1>1, InitInv, NextInv, PTL DEF Spec

\* A depeg object that no getSwapQuote used halfway through an update says of no price that
\* it is more recent than it is, whichever answers were late or failed.
THEOREM StampsAreHonestHolds == Spec => []StampsAreHonest
<1>1. IInv => StampsAreHonest
  BY DEF IInv
<1> QED
  BY <1>1, InitInv, NextInv, PTL DEF Spec

\* A quote from such an object is made with a price at most BASE_CACHE_EXPIRE older than
\* the moment it is made for, however the chain refreshes its record meanwhile.
THEOREM RecentUnlessTornHolds == Spec => []RecentUnlessTorn
<1>1. IInv => RecentUnlessTorn
  BY DEF IInv
<1> QED
  BY <1>1, InitInv, NextInv, PTL DEF Spec
=============================================================================
