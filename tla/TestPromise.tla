----------------------------- MODULE TestPromise -----------------------------
(***************************************************************************)
(* What the model test runner promises: one test at a time, oldest first;  *)
(* its runs one at a time, in order, each finished once; a test is closed  *)
(* only when none of its runs is open, and as failed only if nothing       *)
(* worked; after a restart a test carries on from the run that was cut     *)
(* off.  The promise is void from the first stale write on (broken).       *)
(***************************************************************************)
EXTENDS Naturals

CONSTANT Tests

VARIABLES test,   \* id -> the status of the test and of each of its runs
          broken

Gone    == [status |-> "none", runs |-> <<>>]
Closed  == {"completed", "failed", "cancelled"}
Of(id)  == DOMAIN test[id].runs

With(id, status) == {k \in Of(id) : test[id].runs[k] = status}
OpenRuns(id)     == With(id, "pending") \cup With(id, "running")

NothingRuns == \A id \in Tests : test[id].status # "running"

Init == test = [id \in Tests |-> Gone] /\ broken \in BOOLEAN

Submit(id) ==
    /\ \A i \in Tests : i >= id => test[i] = Gone
    /\ \E n \in {DOMAIN test'[id].runs} :
          test' = [test EXCEPT ![id] = [status |-> "queued", runs |-> [k \in n |-> "pending"]]]

Start(id) ==
    /\ test[id].status = "queued"
    /\ NothingRuns
    /\ \A i \in Tests : test[i].status = "queued" => id <= i
    /\ test' = [test EXCEPT ![id].status = "running"]

\* A run of the running test starts: the first that is still to do.
Begin(id, k) ==
    /\ test[id].status = "running"
    /\ \A i \in Tests : With(i, "running") = {}
    /\ k \in With(id, "pending") /\ \A j \in With(id, "pending") : k <= j
    /\ test' = [test EXCEPT ![id].runs[k] = "running"]

End(id, k) ==
    /\ k \in With(id, "running")
    /\ \E s \in Closed : test' = [test EXCEPT ![id].runs[k] = s]

\* After a restart the run that was cut off is to be done again, and then the
\* test it is of.
PutBackRun(id, k) ==
    k \in With(id, "running") /\ test' = [test EXCEPT ![id].runs[k] = "pending"]

PutBack(id) ==
    /\ test[id].status = "running" /\ With(id, "running") = {}
    /\ test' = [test EXCEPT ![id].status = "queued"]

\* The runs that are left are dropped, ...
Drop(id) ==
    /\ test[id].status \notin Closed
    /\ test' = [test EXCEPT ![id].runs =
                   [k \in DOMAIN @ |-> IF k \in OpenRuns(id) THEN "cancelled" ELSE @[k]]]

\* ... and the test is closed.
Close(id, verdict) ==
    /\ test[id].status \in {"queued", "running"} /\ OpenRuns(id) = {}
    /\ test[id].status = "queued" => verdict = "cancelled"
    /\ (verdict = "completed") => (With(id, "completed") # {})
    /\ (verdict = "failed")    => (With(id, "completed") = {})
    /\ (test[id].status = "running" /\ verdict = "cancelled") => (With(id, "cancelled") # {})
    /\ test' = [test EXCEPT ![id].status = verdict]

Forget(id) == test[id].status \in Closed /\ test' = [test EXCEPT ![id] = Gone]

Next ==
    \/ /\ broken' = broken
       /\ \E id \in Tests :
             \/ Submit(id) \/ Start(id) \/ PutBack(id) \/ Drop(id) \/ Forget(id)
             \/ \E k \in Of(id) : Begin(id, k) \/ End(id, k) \/ PutBackRun(id, k)
             \/ \E verdict \in Closed : Close(id, verdict)
    \/ broken'   \* nothing is promised any more

Spec == Init /\ [][Next]_<<test, broken>>
=============================================================================
