--------------------------- MODULE TxSubmit_proofs ---------------------------
(***************************************************************************)
(* Proofs about TxSubmit, for any set of runs, any number of attempts and   *)
(* whatever accounts others touch: type correctness, what a report of       *)
(* failure is worth, that undisturbed runs succeed, and that the client     *)
(* implements AtMostOnce.                                                  *)
(***************************************************************************)
EXTENDS TxSubmit, SequenceTheorems, TLAPS

\* What each command looks for is a sequence of accounts.
LEMMA LooksForType == ASSUME NEW k PROVE LooksFor(k) \in Seq(Accounts)
  <1>1. /\ <<"vaultA", "vaultB">> \in Seq(Accounts)
        /\ <<"poolLp">> \in Seq(Accounts) /\ <<"destination">> \in Seq(Accounts)
        /\ << >> \in Seq(Accounts)
    BY DEF Accounts
  <1> QED BY <1>1 DEF LooksFor

\* The head and the tail of what is left to read.
LEMMA ToRead ==
  ASSUME NEW s \in Seq(Accounts), s # <<>>
  PROVE  /\ Head(s) \in Accounts /\ Tail(s) \in Seq(Accounts)
         /\ \A i \in 1..Len(s) : s[i] = Head(s) \/ \E j \in 1..Len(Tail(s)) : Tail(s)[j] = s[i]
         /\ \A j \in 1..Len(Tail(s)) : \E i \in 1..Len(s) : Tail(s)[j] = s[i]
  <1>1. Head(s) \in Accounts /\ Tail(s) \in Seq(Accounts)
    BY HeadTailProperties
  <1>2. /\ Len(Tail(s)) = Len(s) - 1 /\ Len(s) \in Nat
        /\ \A i \in 1..Len(Tail(s)) : Tail(s)[i] = s[i + 1]
    BY HeadTailProperties, LenProperties
  <1>3. ASSUME NEW i \in 1..Len(s)
        PROVE  s[i] = Head(s) \/ \E j \in 1..Len(Tail(s)) : Tail(s)[j] = s[i]
    <2>1. CASE i = 1
      BY <2>1, HeadTailProperties
    <2>2. CASE i # 1
      <3>1. i - 1 \in 1..Len(Tail(s)) /\ Tail(s)[i - 1] = s[i]
        BY <1>2, <2>2
      <3> QED BY <3>1
    <2> QED BY <2>1, <2>2
  <1>4. ASSUME NEW j \in 1..Len(Tail(s))
        PROVE  \E i \in 1..Len(s) : Tail(s)[j] = s[i]
    <2>1. j + 1 \in 1..Len(s) /\ Tail(s)[j] = s[j + 1]
      BY <1>2
    <2> QED BY <2>1
  <1> QED BY <1>1, <1>3, <1>4

-----------------------------------------------------------------------------
(* Type correctness *)

\* Sending stops only when the attempts are used up.
AttemptsLeft == \A r \in Runs : pc[r] \notin Settled => attempts[r] < MaxRetries

\* What is on its way was signed and was to be sent.
SentWasAsked ==
    \A r \in Runs :
        /\ r \in network \/ processed[r] # "no" \/ pc[r] = "confirming" => txAction[r] = "send"
        /\ r \in network \/ processed[r] # "no" => pc[r] \notin {"idle", "reading"}

\* A transaction that may land, or has landed, is waited for, unless an answer was lost.
WaitedFor ==
    \A r \in Runs \ lost :
        /\ Lands(r) => pc[r] = "confirming"
        /\ processed[r] = "done" => pc[r] \in {"confirming", "ok"}

\* What is left to look for.
Left(r) == {toRead[r][i] : i \in 1..Len(toRead[r])}

\* What an undisturbed run has read is still so, and is what its transaction needs.
Right(r) ==
    /\ pc[r] \notin {"failed", "panicked"} /\ processed[r] # "error" /\ r \notin lost
    /\ pc[r] = "reading" =>
          /\ Created(r) \cap accounts = {}
          /\ Needs(kind[r]) \subseteq accounts \cup creates[r] \cup Left(r)
    /\ pc[r] = "acting" => processed[r] = "no"
    /\ pc[r] \in {"acting", "confirming"} /\ processed[r] = "no" => r \in valid /\ CanRun(r)
    /\ pc[r] = "idle" => creates[r] = {}

UndisturbedIsRight == \A r \in Runs \ disturbed : Right(r)

IInv == TypeOK /\ AttemptsLeft /\ SentWasAsked /\ WaitedFor /\ UndisturbedIsRight

LEMMA InitInv == Init => IInv
  <1> SUFFICES ASSUME Init PROVE IInv
    OBVIOUS
  <1>1. TypeOK
    BY TxSubmitAssumption DEF Init, TypeOK, Running, Settled, Actions, Accounts
  <1>2. AttemptsLeft /\ SentWasAsked /\ WaitedFor /\ UndisturbedIsRight
    BY TxSubmitAssumption
    DEF Init, AttemptsLeft, SentWasAsked, WaitedFor, Lands, UndisturbedIsRight, Right
  <1> QED BY <1>1, <1>2 DEF IInv

\* One action of a run at a time.
LEMMA ClientTypeOK ==
  ASSUME TypeOK, AttemptsLeft, SentWasAsked, NEW r \in Runs, ClientStep(r)
  PROVE  TypeOK'
  <1> USE DEF TypeOK, run, cluster, history, Goto, Disturb, Settled, Running
  <1>1. CASE Start(r)
    BY <1>1, LooksForType DEF Start
  <1>2. CASE LookFor(r)
    <2>1. Head(toRead[r]) \in Accounts /\ Tail(toRead[r]) \in Seq(Accounts)
      BY <1>2, ToRead DEF LookFor
    <2> QED BY <1>2, <2>1 DEF LookFor
  <1>3. CASE Panic(r) \/ Sign(r) \/ DryRun(r) \/ Submit(r) \/ Confirmed(r)
    BY <1>3 DEF Panic, Sign, DryRun, Submit, Confirmed
  <1>4. CASE AnswerLost(r) \/ Refused(r) \/ Unreachable(r) \/ ConfirmFails(r) \/ StatusLost(r)
    <2>1. NextAttempt(r) /\ pc[r] \notin Settled
      BY <1>4 DEF AnswerLost, Refused, Unreachable, ConfirmFails, StatusLost, Sending
    <2>2. attempts' \in [Runs -> 0..MaxRetries] /\ pc' \in [Runs -> {"idle"} \cup Running \cup Settled]
      BY <2>1, TxSubmitAssumption DEF AttemptsLeft, NextAttempt
    <2>3. CASE AnswerLost(r) \/ Refused(r) \/ Unreachable(r)
      BY <2>2, <2>3 DEF AnswerLost, Refused, Unreachable
    <2>4. CASE ConfirmFails(r) \/ StatusLost(r)
      BY <2>2, <2>4 DEF ConfirmFails, StatusLost
    <2> QED BY <1>4, <2>3, <2>4
  <1> QED BY <1>1, <1>2, <1>3, <1>4 DEF ClientStep

LEMMA ClusterTypeOK == ASSUME TypeOK, ClusterStep PROVE TypeOK'
  <1> USE DEF TypeOK, run, cluster, history, Disturb
  <1>1. Relying \subseteq Runs
    BY DEF Relying
  <1>2. ASSUME NEW r \in Runs, Land(r) PROVE TypeOK'
    <2>1. Created(r) \subseteq Accounts
      BY DEF Created, Accounts
    <2> QED BY <1>1, <1>2, <2>1 DEF Land
  <1>3. ASSUME NEW r \in Runs, LandWithError(r) \/ Forget(r) \/ Expire(r) PROVE TypeOK'
    BY <1>3 DEF LandWithError, Forget, Expire
  <1>4. ASSUME NEW account \in Touched, OthersCreate(account) \/ Close(account) PROVE TypeOK'
    BY <1>1, <1>4, TxSubmitAssumption DEF OthersCreate, Close
  <1> QED BY <1>2, <1>3, <1>4 DEF ClusterStep

-----------------------------------------------------------------------------
(* The network and the reports *)

LEMMA ClientKeepsPromises ==
  ASSUME TypeOK, AttemptsLeft, SentWasAsked, WaitedFor, NEW r \in Runs, ClientStep(r)
  PROVE  AttemptsLeft' /\ SentWasAsked' /\ WaitedFor'
  <1> USE DEF TypeOK, run, cluster, history, Goto, Disturb, Settled, Running,
              AttemptsLeft, SentWasAsked, WaitedFor, Lands
  <1>1. CASE Start(r)
    BY <1>1 DEF Start
  <1>2. CASE LookFor(r)
    BY <1>2 DEF LookFor
  <1>3. CASE Panic(r)
    BY <1>3 DEF Panic
  <1>4. CASE Sign(r)
    BY <1>4 DEF Sign
  <1>5. CASE DryRun(r)
    <2>1. r \notin network /\ processed[r] = "no"
      BY <1>5 DEF DryRun
    <2>2. /\ UNCHANGED <<kind, txAction, toRead, creates, attempts, cluster, lost>>
          /\ \/ pc' = [pc EXCEPT ![r] = "ok"]
             \/ pc' = [pc EXCEPT ![r] = "panicked"]
      BY <1>5 DEF DryRun
    <2> QED BY <1>5, <2>1, <2>2 DEF DryRun
  <1>6. CASE Submit(r)
    BY <1>6 DEF Submit, Sending
  <1>7. CASE Confirmed(r)
    BY <1>7 DEF Confirmed
  <1>8. CASE AnswerLost(r)
    BY <1>8, TxSubmitAssumption DEF AnswerLost, Sending, NextAttempt
  <1>9. CASE Refused(r)
    BY <1>9, TxSubmitAssumption DEF Refused, Sending, NextAttempt
  <1>10. CASE Unreachable(r)
    BY <1>10, TxSubmitAssumption DEF Unreachable, Sending, NextAttempt
  <1>11. CASE ConfirmFails(r)
    BY <1>11, TxSubmitAssumption DEF ConfirmFails, Unconfirmed, NextAttempt
  <1>12. CASE StatusLost(r)
    BY <1>12, TxSubmitAssumption DEF StatusLost, NextAttempt
  <1> QED BY <1>1, <1>2, <1>3, <1>4, <1>5, <1>6, <1>7, <1>8, <1>9, <1>10, <1>11, <1>12
      DEF ClientStep

LEMMA ClusterKeepsPromises ==
  ASSUME TypeOK, AttemptsLeft, SentWasAsked, WaitedFor, ClusterStep
  PROVE  AttemptsLeft' /\ SentWasAsked' /\ WaitedFor'
  <1> USE DEF TypeOK, run, cluster, history, Disturb, Settled,
              AttemptsLeft, SentWasAsked, WaitedFor, Lands
  <1>1. ASSUME NEW r \in Runs, Land(r) \/ LandWithError(r) \/ Forget(r) \/ Expire(r)
        PROVE  AttemptsLeft' /\ SentWasAsked' /\ WaitedFor'
    BY <1>1 DEF Land, LandWithError, Forget, Expire
  <1>2. ASSUME NEW account \in Touched, OthersCreate(account) \/ Close(account)
        PROVE  AttemptsLeft' /\ SentWasAsked' /\ WaitedFor'
    BY <1>2 DEF OthersCreate, Close
  <1> QED BY <1>1, <1>2 DEF ClusterStep

-----------------------------------------------------------------------------
(* Undisturbed runs *)

\* What is left to look for is carried over to what is created, or is there.
LEMMA LookForKeepsNeeds ==
  ASSUME TypeOK, NEW r \in Runs, LookFor(r), r \notin disturbed',
         Needs(kind[r]) \subseteq accounts \cup creates[r] \cup Left(r),
         Created(r) \cap accounts = {}
  PROVE  /\ Needs(kind'[r]) \subseteq accounts' \cup creates'[r] \cup Left(r)'
         /\ Created(r)' \cap accounts' = {}
  <1> DEFINE account == Head(toRead[r])
  <1> USE DEF TypeOK
  <1>1. toRead[r] \in Seq(Accounts) /\ toRead[r] # <<>> /\ toRead' = [toRead EXCEPT ![r] = Tail(@)]
    BY DEF LookFor
  <1>2. Left(r) \subseteq {account} \cup Left(r)'
    <2>1. toRead'[r] = Tail(toRead[r])
      BY <1>1
    <2> QED BY <1>1, <2>1, ToRead DEF Left
  <1>3. /\ creates'[r] = creates[r] \cup (IF account \in accounts THEN {} ELSE {account})
        /\ accounts' = accounts /\ kind' = kind
    BY DEF LookFor, TakenAsMissing, Disturb, cluster
  <1>4. Created(r)' \cap accounts' = {}
    BY <1>3 DEF Created
  <1> QED BY <1>2, <1>3, <1>4

\* Another run's step leaves everything an undisturbed run relies on as it is.
LEMMA ClientKeepsUndisturbed ==
  ASSUME TypeOK, AttemptsLeft, SentWasAsked, WaitedFor, UndisturbedIsRight,
         NEW r \in Runs, ClientStep(r)
  PROVE  UndisturbedIsRight'
  <1> USE DEF TypeOK, run, cluster, history, Goto, Disturb
  <1>1. SUFFICES ASSUME NEW q \in Runs, q \notin disturbed' PROVE Right(q)'
    BY DEF UndisturbedIsRight
  <1>2. q \notin disturbed /\ Right(q)
    <2>1. disturbed \subseteq disturbed'
      BY DEF ClientStep, Start, LookFor, Panic, Sign, DryRun, Submit, AnswerLost, Refused,
             Unreachable, Confirmed, ConfirmFails, StatusLost
    <2> QED BY <1>1, <2>1 DEF UndisturbedIsRight
  <1>3. CASE q # r
    <2>1. /\ pc'[q] = pc[q] /\ kind'[q] = kind[q] /\ creates'[q] = creates[q]
          /\ toRead'[q] = toRead[q] /\ processed'[q] = processed[q] /\ accounts' = accounts
          /\ q \in valid <=> q \in valid'
          /\ q \in lost <=> q \in lost'
      BY <1>3 DEF ClientStep, Start, LookFor, Panic, Sign, DryRun, Submit, AnswerLost, Refused,
             Unreachable, Confirmed, ConfirmFails, StatusLost, NextAttempt
    <2>2. Left(q)' = Left(q)
      BY <2>1 DEF Left
    <2> QED BY <1>2, <2>1, <2>2 DEF Right, Created, CanRun
  <1>4. CASE q = r
    <2> USE <1>4
    <2>1. CASE Start(r)
      <3>1. Needs(kind[r]) \subseteq accounts \cup Left(r)'
        <4>1. toRead'[r] = LooksFor(kind[r])
          BY <2>1 DEF Start
        <4>2. Left(r)' = {LooksFor(kind[r])[i] : i \in 1..Len(LooksFor(kind[r]))}
          BY <4>1 DEF Left
        <4>3. CASE kind[r] = "create_pool"
          <5>1. LooksFor(kind[r]) = <<"vaultA", "vaultB">>
            BY <4>3 DEF LooksFor
          <5>2. {"vaultA", "vaultB"} \subseteq Left(r)'
            BY <4>2, <5>1
          <5> QED BY <4>3, <5>2 DEF Needs
        <4>4. CASE kind[r] = "deposit"
          <5>1. LooksFor(kind[r]) = <<"poolLp">>
            BY <4>4 DEF LooksFor
          <5>2. "poolLp" \in Left(r)'
            BY <4>2, <5>1
          <5> QED BY <2>1, <4>4, <5>2 DEF Needs, Start, Sensible
        <4>5. CASE kind[r] = "swap"
          <5>1. LooksFor(kind[r]) = <<"destination">>
            BY <4>5 DEF LooksFor
          <5>2. "destination" \in Left(r)'
            BY <4>2, <5>1
          <5> QED BY <2>1, <4>5, <5>2 DEF Needs, Start, Sensible
        <4>6. CASE kind[r] = "withdraw"
          BY <2>1, <4>6 DEF Needs, Start, Sensible
        <4> QED BY <4>3, <4>4, <4>5, <4>6 DEF AllKinds
      <3>2. Created(r)' \cap accounts = {}
        BY <1>2, <2>1 DEF Right, Start, Sensible, Created
      <3> QED BY <1>2, <2>1, <3>1, <3>2 DEF Right, Start
    <2>2. CASE LookFor(r)
      <3>1. /\ Needs(kind'[r]) \subseteq accounts' \cup creates'[r] \cup Left(r)'
            /\ Created(r)' \cap accounts' = {}
        BY <1>1, <1>2, <2>2, LookForKeepsNeeds DEF Right, LookFor
      <3> QED BY <1>2, <2>2, <3>1 DEF Right, LookFor
    <2>3. CASE Panic(r)
      BY <1>1, <2>3 DEF Panic
    <2>4. CASE Sign(r)
      <3>1. Left(r) = {}
        BY <2>4 DEF Sign, Left
      <3>2. processed[r] = "no"
        BY <2>4 DEF Sign, SentWasAsked
      <3>3. CanRun(r)
        BY <1>2, <2>4, <3>1 DEF Right, Sign, CanRun
      <3>4. /\ pc'[r] = "acting" /\ processed' = processed /\ lost' = lost /\ r \in valid'
            /\ kind' = kind /\ creates' = creates /\ accounts' = accounts
        BY <2>4 DEF Sign
      <3> QED BY <1>2, <3>2, <3>3, <3>4 DEF Right, CanRun, Created
    <2>5. CASE DryRun(r)
      <3>1. pc'[r] = "ok" /\ processed' = processed /\ lost' = lost
        BY <1>1, <2>5 DEF DryRun
      <3> QED BY <1>2, <3>1 DEF Right
    <2>6. CASE Submit(r)
      BY <1>2, <2>6 DEF Right, Submit, Sending, CanRun, Created
    <2>7. CASE AnswerLost(r) \/ Unreachable(r) \/ StatusLost(r)
      BY <1>1, <2>7 DEF AnswerLost, Unreachable, StatusLost
    <2>8. CASE Refused(r)
      BY <1>2, <2>8 DEF Right, Refused, Sending
    <2>9. CASE Confirmed(r)
      BY <1>2, <2>9 DEF Right, Confirmed
    <2>10. CASE ConfirmFails(r)
      BY <1>2, <2>10 DEF Right, ConfirmFails, Unconfirmed
    <2> QED BY <2>1, <2>2, <2>3, <2>4, <2>5, <2>6, <2>7, <2>8, <2>9, <2>10 DEF ClientStep
  <1> QED BY <1>3, <1>4

LEMMA ClusterKeepsUndisturbed ==
  ASSUME TypeOK, SentWasAsked, WaitedFor, UndisturbedIsRight, ClusterStep
  PROVE  UndisturbedIsRight'
  <1> USE DEF TypeOK, run, cluster, history, Disturb
  <1>1. SUFFICES ASSUME NEW q \in Runs, q \notin disturbed' PROVE Right(q)'
    BY DEF UndisturbedIsRight
  <1>2. q \notin disturbed /\ Right(q) /\ Left(q)' = Left(q)
    <2>1. disturbed \subseteq disturbed' /\ toRead' = toRead
      BY <1>1 DEF ClusterStep, Land, LandWithError, Forget, Expire, OthersCreate, Close
    <2> QED BY <1>1, <2>1 DEF UndisturbedIsRight, Left
  <1>3. pc[q] = "reading" \/ pc[q] = "acting" => q \in Relying
    BY <1>2 DEF Right, SentWasAsked, Relying, Running
  <1>4. pc[q] = "confirming" /\ processed[q] = "no" => q \in Relying
    BY DEF Relying, Running
  <1>5. ASSUME NEW r \in Runs, Land(r) PROVE Right(q)'
    <2>1. pc' = pc /\ kind' = kind /\ creates' = creates /\ valid' = valid /\ lost' = lost
      BY <1>5 DEF Land
    <2>2. CASE q = r
      <3>1. pc[q] = "confirming" /\ processed'[q] = "done"
        BY <1>2, <1>5, <2>2 DEF Right, WaitedFor, Land
      <3> QED BY <1>2, <2>1, <3>1 DEF Right
    <2>3. CASE q # r /\ q \notin Relying
      BY <1>2, <1>3, <1>4, <1>5, <2>1, <2>3 DEF Right, Land
    <2>4. CASE q # r /\ q \in Relying
      <3>1. accounts' = accounts /\ processed'[q] = processed[q]
        BY <1>1, <1>5, <2>4 DEF Land
      <3> QED BY <1>2, <2>1, <3>1 DEF Right, CanRun, Created
    <2> QED BY <2>2, <2>3, <2>4
  <1>6. ASSUME NEW r \in Runs, LandWithError(r) PROVE Right(q)'
    <2>1. q # r
      BY <1>1, <1>6 DEF LandWithError
    <2>2. processed'[q] = processed[q]
      BY <1>6, <2>1 DEF LandWithError
    <2> QED BY <1>2, <1>6, <2>2 DEF Right, CanRun, Created, LandWithError
  <1>7. ASSUME NEW r \in Runs, Forget(r) PROVE Right(q)'
    BY <1>2, <1>7 DEF Right, CanRun, Created, Forget
  <1>8. ASSUME NEW r \in Runs, Expire(r) PROVE Right(q)'
    <2>1. q = r => processed[q] # "no"
      BY <1>1, <1>8 DEF Expire
    <2> QED BY <1>2, <1>8, <2>1 DEF Right, CanRun, Created, Expire
  <1>9. ASSUME NEW account \in Touched, OthersCreate(account) \/ Close(account) PROVE Right(q)'
    <2>1. q \notin Relying /\ pc' = pc /\ kind' = kind /\ creates' = creates
          /\ valid' = valid /\ lost' = lost /\ processed' = processed
      BY <1>1, <1>9 DEF OthersCreate, Close
    <2> QED BY <1>2, <1>3, <1>4, <2>1 DEF Right
  <1> QED BY <1>5, <1>6, <1>7, <1>8, <1>9 DEF ClusterStep

\* A step that changes nothing preserves everything.
LEMMA StutterInv == ASSUME IInv, UNCHANGED vars PROVE IInv'
  <1> USE DEF IInv, vars, run, cluster, history
  <1>1. TypeOK'
    BY DEF TypeOK
  <1>2. AttemptsLeft' /\ SentWasAsked' /\ WaitedFor'
    BY DEF AttemptsLeft, SentWasAsked, WaitedFor, Lands
  <1>3. UndisturbedIsRight'
    BY DEF UndisturbedIsRight, Right, CanRun, Created, Left
  <1> QED BY <1>1, <1>2, <1>3

LEMMA Invariance == Safety => []IInv
  <1>1. IInv /\ [Next]_vars => IInv'
    <2> SUFFICES ASSUME IInv, [Next]_vars PROVE IInv'
      OBVIOUS
    <2>1. ASSUME NEW r \in Runs, ClientStep(r) PROVE IInv'
      BY <2>1, ClientTypeOK, ClientKeepsPromises, ClientKeepsUndisturbed DEF IInv
    <2>2. CASE ClusterStep
      BY <2>2, ClusterTypeOK, ClusterKeepsPromises, ClusterKeepsUndisturbed DEF IInv
    <2> QED BY <2>1, <2>2, StutterInv DEF Next
  <1> QED BY <1>1, InitInv, PTL DEF Safety

-----------------------------------------------------------------------------
(* Theorems *)

\* Type correctness, for any set of runs: attempts are counted up to MAX_RETRIES and no
\* further.
THEOREM TypeCorrect == Safety => []TypeOK
  <1>1. IInv => TypeOK
    BY DEF IInv
  <1> QED BY <1>1, Invariance, PTL

\* "Cannot send transaction" (rpc.rs) is true, then and later, unless an answer was lost.
THEOREM FailureIsFinal == Safety => []FailureIsFinalUnlessLost
  <1>1. IInv => FailureIsFinalUnlessLost
    BY DEF IInv, WaitedFor, FailureIsFinalUnlessLost
  <1> QED BY <1>1, Invariance, PTL

\* A run that nothing disturbs does not fail: what it looked for, created and needs fit.
THEOREM UndisturbedSucceeds == Safety => []UndisturbedRunSucceeds
  <1>1. IInv => UndisturbedRunSucceeds
    BY DEF IInv, UndisturbedIsRight, Right, UndisturbedRunSucceeds
  <1> QED BY <1>1, Invariance, PTL

-----------------------------------------------------------------------------
(* The client implements AtMostOnce *)

\* A step after which the same is asked for, carried out and told.
SameToAll ==
    /\ AsksFor' = AsksFor /\ Carried' = Carried
    /\ \A r \in Runs : Told(r)' = Told(r)

LEMMA SameIsStutter == ASSUME SameToAll PROVE UNCHANGED Promise!vars
  BY DEF SameToAll, Promise!vars

\* What a run that stops after an attempt, or panics, tells.
LEMMA GivesUp ==
  ASSUME TypeOK, NEW r \in Runs, NEW where \in {"acting", "failed", "panicked"},
         pc[r] \in {"reading", "acting", "confirming"}, pc' = [pc EXCEPT ![r] = where],
         UNCHANGED <<txAction, processed>>
  PROVE  SameToAll \/ Promise!Fail(r)
  <1> USE DEF TypeOK
  <1>1. AsksFor' = AsksFor /\ Carried' = Carried
    BY DEF AsksFor, Carried
  <1>2. Told(r) = "none" /\ \A q \in Runs \ {r} : Told(q)' = Told(q)
    BY DEF Told, Settled
  <1>3. CASE txAction[r] # "send" \/ where = "acting"
    <2>1. Told(r)' = "none"
      BY <1>3 DEF Told, Settled
    <2> QED BY <1>1, <1>2, <2>1 DEF SameToAll
  <1>4. CASE txAction[r] = "send" /\ where # "acting"
    <2>1. Told(r)' = "failed" /\ r \in AsksFor
      BY <1>4 DEF Told, Settled, AsksFor
    <2> QED BY <1>1, <1>2, <2>1 DEF Promise!Fail
  <1> QED BY <1>3, <1>4

LEMMA ClientImplements ==
  ASSUME TypeOK, SentWasAsked, NEW r \in Runs, ClientStep(r)
  PROVE  SameToAll \/ Promise!Next
  <1> USE DEF TypeOK, run, cluster, history, Goto, Disturb
  <1>1. CASE Start(r)
    <2>1. Carried' = Carried /\ \A q \in Runs : Told(q)' = Told(q)
      BY <1>1 DEF Start, Carried, Told, Settled
    <2>2. r \notin AsksFor /\ (AsksFor' = AsksFor \/ AsksFor' = AsksFor \cup {r})
      BY <1>1 DEF Start, AsksFor
    <2> QED BY <2>1, <2>2 DEF SameToAll, Promise!Next, Promise!Ask
  <1>2. CASE LookFor(r)
    BY <1>2 DEF LookFor, SameToAll, AsksFor, Carried, Told
  <1>3. CASE Panic(r)
    BY <1>3, GivesUp DEF Panic, Promise!Next
  <1>4. CASE Sign(r) \/ Submit(r)
    BY <1>4 DEF Sign, Submit, Sending, SameToAll, AsksFor, Carried, Told, Settled
  <1>5. CASE DryRun(r)
    BY <1>5 DEF DryRun, SameToAll, AsksFor, Carried, Told
  <1>6. CASE AnswerLost(r) \/ Refused(r) \/ Unreachable(r) \/ ConfirmFails(r) \/ StatusLost(r)
    <2>1. NextAttempt(r) /\ pc[r] \in {"acting", "confirming"} /\ UNCHANGED <<txAction, processed>>
      BY <1>6 DEF AnswerLost, Refused, Unreachable, ConfirmFails, StatusLost, Sending
    <2>2. \E where \in {"acting", "failed"} : pc' = [pc EXCEPT ![r] = where]
      BY <2>1 DEF NextAttempt
    <2> QED BY <2>1, <2>2, GivesUp DEF Promise!Next
  <1>7. CASE Confirmed(r)
    <2>1. AsksFor' = AsksFor /\ Carried' = Carried /\ r \in Carried
      BY <1>7 DEF Confirmed, AsksFor, Carried
    <2>2. txAction[r] = "send"
      BY <1>7 DEF Confirmed, SentWasAsked
    <2>3. /\ Told(r) = "none" /\ Told(r)' = "ok"
          /\ \A q \in Runs \ {r} : Told(q)' = Told(q)
      BY <1>7, <2>2 DEF Confirmed, Told, Settled
    <2> QED BY <2>1, <2>3 DEF Promise!Next, Promise!Succeed
  <1> QED BY <1>1, <1>2, <1>3, <1>4, <1>5, <1>6, <1>7 DEF ClientStep

LEMMA ClusterImplements ==
  ASSUME TypeOK, SentWasAsked, ClusterStep
  PROVE  SameToAll \/ Promise!Next
  <1> USE DEF TypeOK, run, cluster, history
  <1>1. AsksFor' = AsksFor /\ \A r \in Runs : Told(r)' = Told(r)
    BY DEF ClusterStep, Land, LandWithError, Forget, Expire, OthersCreate, Close, AsksFor, Told
  <1>2. ASSUME NEW r \in Runs, Land(r) PROVE Promise!Next
    <2>1. r \in AsksFor \ Carried /\ Carried' = Carried \cup {r}
      BY <1>2 DEF Land, Lands, AsksFor, Carried, SentWasAsked
    <2> QED BY <1>1, <2>1 DEF Promise!Next, Promise!Do
  <1>3. ASSUME NEW r \in Runs, LandWithError(r) \/ Forget(r) \/ Expire(r) PROVE SameToAll
    BY <1>1, <1>3 DEF LandWithError, Lands, Forget, Expire, Carried, SameToAll
  <1>4. ASSUME NEW account \in Touched, OthersCreate(account) \/ Close(account) PROVE SameToAll
    BY <1>1, <1>4 DEF OthersCreate, Close, Carried, SameToAll
  <1> QED BY <1>2, <1>3, <1>4 DEF ClusterStep

\* However often send_transaction retries, and whatever the node loses, forgets or repeats,
\* the client implements a command that is carried out at most once, only if it was to be
\* sent, and whose reported success is one.
THEOREM Refinement == Safety => KeepsPromise
  <1>1. Init => Promise!Init
    <2> SUFFICES ASSUME Init PROVE Promise!Init
      OBVIOUS
    <2>1. AsksFor = {} /\ Carried = {} /\ \A r \in Runs : Told(r) = "none"
      BY DEF Init, AsksFor, Carried, Told, Settled
    <2> QED BY <2>1 DEF Promise!Init
  <1>2. IInv /\ [Next]_vars => [Promise!Next]_Promise!vars
    <2> SUFFICES ASSUME IInv, [Next]_vars PROVE Promise!Next \/ UNCHANGED Promise!vars
      OBVIOUS
    <2>1. CASE Next
      BY <2>1, ClientImplements, ClusterImplements, SameIsStutter DEF Next, IInv
    <2>2. CASE UNCHANGED vars
      <3>1. SameToAll
        BY <2>2 DEF vars, run, cluster, SameToAll, AsksFor, Carried, Told
      <3> QED BY <3>1, SameIsStutter
    <2> QED BY <2>1, <2>2
  <1> QED BY <1>1, <1>2, Invariance, PTL DEF Safety, KeepsPromise, Promise!Spec

=============================================================================
