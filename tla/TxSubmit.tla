------------------------------ MODULE TxSubmit ------------------------------
(***************************************************************************)
(* The command line client rust-client: a run reads accounts, builds one    *)
(* transaction around what it read, signs it, and RpcArgs (src/rpc.rs)      *)
(* simulates it, estimates its fee, or sends it until an attempt is         *)
(* confirmed or the attempts are used up.  Runs race with each other, with  *)
(* other users of the cluster and with a node that fails, forgets           *)
(* transactions and loses answers.                                         *)
(***************************************************************************)
EXTENDS Integers, Sequences

CONSTANTS
    Runs,           \* runs of the program
    MaxRetries,     \* MAX_RETRIES
    Kinds,          \* the commands that are run
    Touched         \* the accounts that others create or close meanwhile

AllKinds == {"create_pool", "deposit", "withdraw", "swap"}

Accounts == {"vaultA", "vaultB", "pool", "poolLp", "destination"}
TokenAccounts == {"poolLp", "destination"}

ASSUME TxSubmitAssumption ==
    /\ MaxRetries \in Nat \ {0}
    /\ Kinds \subseteq AllKinds /\ Touched \subseteq Accounts \ {"pool"}

VARIABLES
    pc,             \* where each run stands
    kind,           \* its command
    txAction,       \* tx_action
    toRead,         \* accounts it has yet to look for
    creates,        \* accounts its transaction creates
    attempts,       \* attempts to send it so far
    valid,          \* runs whose blockhash is recent enough
    network,        \* runs whose transaction is on its way to a leader
    processed,      \* what became of each transaction: "no", "done" or "error"
    accounts,       \* accounts that exist
    disturbed,      \* history: runs that met a failure or a change from outside
    lost            \* history: runs for which an answer about the transaction was lost

run == <<pc, kind, txAction, toRead, creates, attempts>>
cluster == <<valid, network, processed, accounts>>
history == <<disturbed, lost>>
vars == <<run, cluster, history>>

Settled == {"ok", "failed", "panicked"}
Running == {"reading", "acting", "confirming"}

\* TX_ACTION_SENT_TX sends; TX_ACTION_SIMULATION and TX_ACTION_ESTIMATE_FEE only inspect.
Actions == {"send", "inspect"}

\* The accounts that a command looks for, in this order, to create those it does not find.
LooksFor(k) ==
    IF k = "create_pool" THEN <<"vaultA", "vaultB">>
    ELSE IF k = "deposit" THEN <<"poolLp">>
    ELSE IF k = "swap" THEN <<"destination">>
    ELSE <<>>

\* The accounts that its last instruction needs.
Needs(k) ==
    IF k = "create_pool" THEN {"vaultA", "vaultB"}
    ELSE {"pool", IF k = "swap" THEN "destination" ELSE "poolLp"}

\* A command that makes sense: create_pool for a new pool, the others for one that exists.
Sensible(k) ==
    IF k = "create_pool" THEN "pool" \notin accounts
    ELSE "pool" \in accounts /\ (k = "withdraw" => "poolLp" \in accounts)

\* The accounts that exist once the transaction of r has run.
Created(r) == creates[r] \cup (IF kind[r] = "create_pool" THEN {"pool"} ELSE {})

\* Every account it creates is new, and everything it needs is there.
CanRun(r) == Created(r) \cap accounts = {} /\ Needs(kind[r]) \subseteq accounts \cup creates[r]

Init ==
    /\ pc = [r \in Runs |-> "idle"]
    /\ kind \in [Runs -> Kinds]
    /\ txAction = [r \in Runs |-> "inspect"]
    /\ toRead = [r \in Runs |-> <<>>]
    /\ creates = [r \in Runs |-> {}]
    /\ attempts = [r \in Runs |-> 0]
    /\ valid = {} /\ network = {}
    /\ processed = [r \in Runs |-> "no"]
    /\ accounts \in {{"vaultA"}, {"vaultA", "vaultB", "pool", "poolLp"}}
    /\ disturbed = {} /\ lost = {}

-----------------------------------------------------------------------------
(* A run *)

Goto(r, where) == pc' = [pc EXCEPT ![r] = where]

Disturb(who) == disturbed' = disturbed \cup who

Start(r) ==
    /\ pc[r] = "idle" /\ Sensible(kind[r])
    /\ \E action \in Actions : txAction' = [txAction EXCEPT ![r] = action]
    /\ toRead' = [toRead EXCEPT ![r] = LooksFor(kind[r])]
    /\ Goto(r, "reading")
    /\ UNCHANGED <<kind, creates, attempts, cluster, history>>

\* Mutant: an account that is there is created as well.
TakenAsMissingAlways(account, answered) == TRUE

\* get_account(..).is_err(): an account is missing, or the node did not answer.
TakenAsMissing(account, answered) == ~answered \/ account \notin accounts

LookFor(r) ==
    /\ pc[r] = "reading" /\ toRead[r] # <<>>
    /\ \E answered \in BOOLEAN :
          /\ creates' = [creates EXCEPT ![r] =
                @ \cup (IF TakenAsMissing(Head(toRead[r]), answered)
                        THEN {Head(toRead[r])} ELSE {})]
          /\ Disturb(IF answered THEN {} ELSE {r})
    /\ toRead' = [toRead EXCEPT ![r] = Tail(@)]
    /\ UNCHANGED <<pc, kind, txAction, attempts, cluster, lost>>

\* Every other read is unwrapped, the one of the latest blockhash included.
Panic(r) ==
    /\ pc[r] = "reading"
    /\ Goto(r, "panicked")
    /\ Disturb({r})
    /\ UNCHANGED <<kind, txAction, toRead, creates, attempts, cluster, lost>>

Sign(r) ==
    /\ pc[r] = "reading" /\ toRead[r] = <<>>
    /\ valid' = valid \cup {r}
    /\ Goto(r, "acting")
    /\ UNCHANGED <<kind, txAction, toRead, creates, attempts, network, processed, accounts, history>>

\* Nothing is sent; the request may fail.
DryRun(r) ==
    /\ pc[r] = "acting" /\ txAction[r] # "send"
    /\ \/ Goto(r, "ok") /\ UNCHANGED disturbed
       \/ Goto(r, "panicked") /\ Disturb({r})
    /\ UNCHANGED <<kind, txAction, toRead, creates, attempts, cluster, lost>>

\* Mutant: attempts are not counted.
NextAttemptForEver(r) == Goto(r, "acting") /\ UNCHANGED attempts

\* Mutant: one attempt too many.
NextAttemptOnceMore(r) ==
    /\ attempts' = [attempts EXCEPT ![r] = @ + 1]
    /\ Goto(r, IF attempts[r] < MaxRetries THEN "acting" ELSE "failed")

\* An attempt ended in an error: the loop of send_transaction goes on, or it gives up.
NextAttempt(r) ==
    /\ attempts' = [attempts EXCEPT ![r] = @ + 1]
    /\ Goto(r, IF attempts[r] + 1 < MaxRetries THEN "acting" ELSE "failed")

Sending(r) == pc[r] = "acting" /\ txAction[r] = "send"

\* Mutant: a transaction that was sent is taken for one that landed.
SubmitUnconfirmed(r) ==
    /\ Sending(r)
    /\ r \in valid /\ processed[r] = "no" /\ CanRun(r)
    /\ network' = network \cup {r}
    /\ Goto(r, "ok")
    /\ UNCHANGED <<kind, txAction, toRead, creates, attempts, valid, processed, accounts, history>>

\* send_and_confirm_transaction_with_spinner: the node takes the transaction ...
Submit(r) ==
    /\ Sending(r)
    /\ r \in valid /\ processed[r] = "no" /\ CanRun(r)
    /\ network' = network \cup {r}
    /\ Goto(r, "confirming")
    /\ UNCHANGED <<kind, txAction, toRead, creates, attempts, valid, processed, accounts, history>>

\* ... takes it, but its answer is lost ...
AnswerLost(r) ==
    /\ Sending(r)
    /\ r \in valid /\ processed[r] = "no" /\ CanRun(r)
    /\ network' = network \cup {r}
    /\ NextAttempt(r)
    /\ Disturb({r}) /\ lost' = lost \cup {r}
    /\ UNCHANGED <<kind, txAction, toRead, creates, valid, processed, accounts>>

\* ... refuses it after simulating it ...
Refused(r) ==
    /\ Sending(r)
    /\ r \notin valid \/ processed[r] # "no" \/ ~CanRun(r)
    /\ NextAttempt(r)
    /\ UNCHANGED <<kind, txAction, toRead, creates, cluster, history>>

\* ... or is out of reach.
Unreachable(r) ==
    /\ Sending(r)
    /\ NextAttempt(r)
    /\ Disturb({r})
    /\ UNCHANGED <<kind, txAction, toRead, creates, cluster, lost>>

Confirmed(r) ==
    /\ pc[r] = "confirming" /\ processed[r] = "done"
    /\ Goto(r, "ok")
    /\ UNCHANGED <<kind, txAction, toRead, creates, attempts, cluster, history>>

\* Mutant: waiting ends although the transaction may still land.
UnconfirmedAnyway(r) == processed[r] # "done"

\* The transaction failed on chain, or its blockhash expired before it landed.
Unconfirmed(r) == processed[r] = "error" \/ (processed[r] = "no" /\ r \notin valid)

ConfirmFails(r) ==
    /\ pc[r] = "confirming" /\ Unconfirmed(r)
    /\ NextAttempt(r)
    /\ UNCHANGED <<kind, txAction, toRead, creates, cluster, history>>

\* A request for the status of the transaction fails.
StatusLost(r) ==
    /\ pc[r] = "confirming"
    /\ NextAttempt(r)
    /\ Disturb({r}) /\ lost' = lost \cup {r}
    /\ UNCHANGED <<kind, txAction, toRead, creates, cluster>>

ClientStep(r) ==
    \/ Start(r) \/ LookFor(r) \/ Panic(r) \/ Sign(r) \/ DryRun(r)
    \/ Submit(r) \/ AnswerLost(r) \/ Refused(r) \/ Unreachable(r)
    \/ Confirmed(r) \/ ConfirmFails(r) \/ StatusLost(r)

-----------------------------------------------------------------------------
(* The cluster *)

\* Runs that may rely on accounts they have read, and have not been carried out.
Relying == {r \in Runs : pc[r] \in Running /\ processed[r] = "no"}

\* A signature is processed once, while its blockhash is valid.
Lands(r) == r \in network \cap valid /\ processed[r] = "no"

Land(r) ==
    /\ Lands(r) /\ CanRun(r)
    /\ processed' = [processed EXCEPT ![r] = "done"]
    /\ accounts' = accounts \cup Created(r)
    /\ Disturb(IF Created(r) = {} THEN {} ELSE Relying \ {r})
    /\ UNCHANGED <<run, valid, network, lost>>

\* Its accounts have changed, or the pool moved past its limits.
LandWithError(r) ==
    /\ Lands(r)
    /\ processed' = [processed EXCEPT ![r] = "error"]
    /\ Disturb({r})
    /\ UNCHANGED <<run, valid, network, accounts, lost>>

Forget(r) ==
    /\ r \in network /\ network' = network \ {r}
    /\ Disturb({r})
    /\ UNCHANGED <<run, valid, processed, accounts, lost>>

\* Time passes; a transaction that is not processed by then never is.
Expire(r) ==
    /\ r \in valid /\ valid' = valid \ {r}
    /\ Disturb(IF processed[r] = "no" THEN {r} ELSE {})
    /\ UNCHANGED <<run, network, processed, accounts, lost>>

\* Others create a vault or a token account, or the owner closes a token account.
OthersCreate(account) ==
    /\ account \notin accounts
    /\ accounts' = accounts \cup {account}
    /\ Disturb(Relying)
    /\ UNCHANGED <<run, valid, network, processed, lost>>

Close(account) ==
    /\ account \in accounts
    /\ accounts' = accounts \ {account}
    /\ Disturb(Relying)
    /\ UNCHANGED <<run, valid, network, processed, lost>>

ClusterStep ==
    \/ \E r \in Runs : Land(r) \/ LandWithError(r) \/ Forget(r) \/ Expire(r)
    \/ \E account \in Touched : OthersCreate(account)
    \/ \E account \in Touched \cap TokenAccounts : Close(account)

Next == (\E r \in Runs : ClientStep(r)) \/ ClusterStep

Safety == Init /\ [][Next]_vars

\* A started run is scheduled, the node answers each of its requests in some way, and
\* blockhashes expire.
Fairness == \A r \in Runs : WF_vars(ClientStep(r) /\ pc[r] # "idle") /\ WF_vars(Expire(r))

Spec == Safety /\ Fairness

-----------------------------------------------------------------------------
(* Properties *)

TypeOK ==
    /\ pc \in [Runs -> {"idle"} \cup Running \cup Settled]
    /\ kind \in [Runs -> AllKinds] /\ txAction \in [Runs -> Actions]
    /\ toRead \in [Runs -> Seq(Accounts)] /\ creates \in [Runs -> SUBSET Accounts]
    /\ attempts \in [Runs -> 0..MaxRetries]
    /\ valid \subseteq Runs /\ network \subseteq Runs
    /\ processed \in [Runs -> {"no", "done", "error"}]
    /\ accounts \subseteq Accounts
    /\ disturbed \subseteq Runs /\ lost \subseteq Runs

\* What the one who runs a command is told, and what was asked for.
Told(r) ==
    IF txAction[r] # "send" \/ pc[r] \notin Settled THEN "none"
    ELSE IF pc[r] = "ok" THEN "ok" ELSE "failed"

AsksFor == {r \in Runs : pc[r] # "idle" /\ txAction[r] = "send"}
Carried == {r \in Runs : processed[r] = "done"}

\* The promise: whatever is retried, a command is carried out at most once and only if it was
\* to be sent, and a reported success is one.
Promise == INSTANCE AtMostOnce WITH asked <- AsksFor, done <- Carried,
                                    report <- [r \in Runs |-> Told(r)]
KeepsPromise == Promise!Spec

\* "Cannot send transaction" is true, then and later, unless the answer to an attempt or the
\* status of the transaction was lost: waiting until the blockhash has expired rules out that
\* a transaction that was reported as failed lands afterwards.
FailureIsFinalUnlessLost ==
    \A r \in Runs : pc[r] = "failed" /\ r \notin lost =>
        processed[r] # "done" /\ ~Lands(r)

\* A run ends well if every request was answered, its transaction was not forgotten or too
\* late, and no account it relies on was created or closed meanwhile.
UndisturbedRunSucceeds ==
    \A r \in Runs : pc[r] \in {"failed", "panicked"} => r \in disturbed

\* Every run that was started ends with a report: the loop over attempts and the wait for
\* confirmation do not go on for ever.
EveryRunSettles == \A r \in Runs : pc[r] # "idle" ~> pc[r] \in Settled
=============================================================================
