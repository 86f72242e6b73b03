----------------------------- MODULE AtMostOnce -----------------------------
(***************************************************************************)
(* What a command of rust-client that sends a transaction promises to the   *)
(* one who runs it: it is carried out at most once, whatever is retried on  *)
(* the way, only if it was asked for, and a report of success is true.  A   *)
(* report of failure promises nothing: the command may still be carried out *)
(* afterwards.                                                             *)
(***************************************************************************)
CONSTANT Runs       \* runs of the program

VARIABLES
    asked,          \* runs that are to send a transaction
    done,           \* runs whose transaction has had its effect
    report          \* what each run told: "none", "ok" or "failed"

vars == <<asked, done, report>>

Init ==
    /\ asked = {} /\ done = {}
    /\ report = [r \in Runs |-> "none"]

Ask(r) ==
    /\ r \notin asked
    /\ asked' = asked \cup {r}
    /\ UNCHANGED <<done, report>>

Do(r) ==
    /\ r \in asked \ done
    /\ done' = done \cup {r}
    /\ UNCHANGED <<asked, report>>

Succeed(r) ==
    /\ r \in done /\ report[r] = "none"
    /\ report' = [report EXCEPT ![r] = "ok"]
    /\ UNCHANGED <<asked, done>>

Fail(r) ==
    /\ r \in asked /\ report[r] = "none"
    /\ report' = [report EXCEPT ![r] = "failed"]
    /\ UNCHANGED <<asked, done>>

Next == \E r \in Runs : Ask(r) \/ Do(r) \/ Succeed(r) \/ Fail(r)

Spec == Init /\ [][Next]_vars
=============================================================================
