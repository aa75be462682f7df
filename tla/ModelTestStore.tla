--------------------------- MODULE ModelTestStore ---------------------------
(***************************************************************************)
(* The model_tests and model_test_runs tables                              *)
(* (internal/store/modeltests.go).  A test is one row with the rows of its *)
(* runs: tests[id].runs[k] is the status of the k-th run by position and   *)
(* iteration, and tests[id].plan[k] the model it is for.  A deleted test   *)
(* takes its runs with it (ON DELETE CASCADE).                             *)
(*                                                                         *)
(* A run's own id is <<id, k>> here: when the last test is deleted and its *)
(* id given out again, so are the ids of its runs, in the same order,      *)
(* which is exact as long as all tests have as many runs.                  *)
(* Left out: prompts, replies, timings, who created a test, templates.     *)
(***************************************************************************)
EXTENDS Naturals, Sequences

CONSTANTS MaxTest,  \* bound: test ids are 1..MaxTest
          Models,   \* model names
          NoModel,  \* the name of no model
          Plans     \* bound: the models of the runs a test is created with

ASSUME TestStoreAssumption ==
    /\ MaxTest \in Nat
    /\ NoModel \notin Models
    /\ \A p \in Plans : p \in Seq(Models) /\ p # <<>>
    /\ \A p, q \in Plans : DOMAIN p = DOMAIN q

Tests == 1..MaxTest

Active  == {"queued", "running"}
Verdict == {"completed", "failed", "cancelled"}

Open      == {"pending", "running"}
RunStatus == Open \cup Verdict

Test   == [status : Active \cup Verdict, plan : Plans,
           runs : UNION {[DOMAIN p -> RunStatus] : p \in Plans}]
NoTest == [status |-> "none", plan |-> <<>>, runs |-> <<>>]

Runs(tests, id) == DOMAIN tests[id].runs

HasStatus(tests, id, k, status) == k \in Runs(tests, id) /\ tests[id].runs[k] = status

\* One more than the largest id in the table (no AUTOINCREMENT).
IsNewTest(tests, id) == /\ \A i \in Tests : i >= id => tests[i] = NoTest
                        /\ id > 1 => tests[id - 1] # NoTest

\* CreateModelTest: the test and its runs, in one transaction.
CreateModelTest(tests, id, plan) ==
    [tests EXCEPT ![id] = [status |-> "queued", plan |-> plan,
                           runs |-> [k \in DOMAIN plan |-> "pending"]]]

\* The oldest queued test.
IsNextQueued(tests, id) ==
    /\ tests[id].status = "queued"
    /\ \A i \in Tests : tests[i].status = "queued" => id <= i

\* ORDER BY position, iteration LIMIT 1
IsNextPending(tests, id, k) ==
    /\ HasStatus(tests, id, k, "pending")
    /\ \A j \in Runs(tests, id) : tests[id].runs[j] = "pending" => k <= j

\* (Bug: an upsert, which brings a deleted test back.)
SetStatusBug(tests, id, status) == [tests EXCEPT ![id].status = status]

\* UPDATE model_tests SET status = ... WHERE id = ?
SetStatus(tests, id, status) ==
    IF tests[id] = NoTest THEN tests ELSE [tests EXCEPT ![id].status = status]

StartModelTest(tests, id) == SetStatus(tests, id, "running")

\* UPDATE model_test_runs SET status = ... WHERE id = ? (StartRun, FinishRun)
SetRun(tests, id, k, status) ==
    IF k \in Runs(tests, id) THEN [tests EXCEPT ![id].runs[k] = status] ELSE tests

\* FinishModelTest's first statement: the runs it didn't get to.  (Its second
\* is SetStatus.)
CancelOpenRuns(tests, id) ==
    [tests EXCEPT ![id].runs =
        [k \in DOMAIN @ |-> IF @[k] \in Open THEN "cancelled" ELSE @[k]]]

\* (Bug: only the runs are put back.)
RequeueTestsBug(tests) == tests

\* The two statements of RequeueInterruptedModelTests.
RequeueRuns(tests) ==
    [id \in Tests |-> [tests[id] EXCEPT !.runs =
        [k \in DOMAIN @ |-> IF @[k] = "running" THEN "pending" ELSE @[k]]]]

RequeueTests(tests) ==
    [id \in Tests |-> IF tests[id].status = "running"
                      THEN [tests[id] EXCEPT !.status = "queued"]
                      ELSE tests[id]]

DeleteModelTest(tests, id) ==
    IF tests[id].status \in Verdict THEN [tests EXCEPT ![id] = NoTest] ELSE tests
=============================================================================
