-------------------------- MODULE ModelTestRunner --------------------------
(***************************************************************************)
(* The model test runner (internal/modeltest/runner.go): one background    *)
(* worker takes the queued tests of module ModelTestStore one at a time,   *)
(* sends the prompt of each of a test's runs to its model through Ollama,  *)
(* and unloads a model once its runs are done.  HTTP handlers create,      *)
(* cancel and delete tests meanwhile, users load and unload models, and    *)
(* the process may shut down or crash and start again.                     *)
(*                                                                         *)
(* A step is one statement on the tables, one critical section of          *)
(* Runner.mu, or one call to Ollama.                                       *)
(***************************************************************************)
EXTENDS ModelTestStore

CONSTANTS Clients,     \* HTTP handlers that may be running at the same time
          Shared,      \* bound: models that come and go in memory without a test
          MaxRestarts, \* bound: crashes and shutdowns
          MaxRefusals  \* bound: unloads that Ollama fails to do

ASSUME RunnerAssumption == /\ {MaxRestarts, MaxRefusals} \subseteq Nat
                           /\ Shared \subseteq Models

VARIABLES
  tests,     \* the tables, which survive a restart
  loaded,    \* models in Ollama's memory
  ours,      \* those that a run loaded and its test is to unload, and no user
             \* has asked for since
  pc,        \* where the worker goroutine is in Run and process
  job,       \* the id of the test process was called with
  run,       \* the run NextPendingRun returned
  current,   \* the model process has in hand, to unload when it is done with
  leave,     \* leaveLoaded
  reply,     \* how the chat of the run ended
  verdict,   \* the status process is about to finish the test with
  cancelID,  \* Runner.cancelID: the test Cancel can abort
  cause,     \* context.Cause of the test's context, short of shutdown
  late,      \* history: replies recorded since the running test was cancelled
  wake,      \* something is in the one-slot channel Runner.wake
  stopping,  \* the process's context is cancelled
  client,    \* the handlers: what each is about to do, and for which test
  restarts, refusals,  \* spent bounds
  stale      \* history: a write acted on a test that is past what was read

memory  == <<loaded, ours>>
inhand  == <<run, current, leave, reply, verdict>>
worker  == <<pc, job, run, current, leave, reply, verdict, cancelID, cause, late>>
world   == <<stopping, client, restarts, refusals>>
vars    == <<tests, loaded, ours, pc, job, run, current, leave, reply, verdict, cancelID,
             cause, late, wake, stopping, client, restarts, refusals, stale>>

NoRun  == [k |-> 0, model |-> NoModel]
AtRest == [at |-> "rest", id |-> 0]

WorkerSteps == {"boot", "requeue", "next", "idle", "register", "start", "find", "swap", "look",
                "begin", "chat", "settle", "record", "drop", "count", "free", "sweep", "mark",
                "release", "clear", "off"}
ClientSteps == {"rest", "wake", "miss", "sweep", "mark"}

TypeOK ==
    /\ tests \in [Tests -> Test \cup {NoTest}]
    /\ loaded \in SUBSET Models
    /\ ours \in SUBSET loaded
    /\ pc \in WorkerSteps
    /\ job \in Tests \cup {0}
    /\ run = NoRun \/ (run.k \in Nat \ {0} /\ run.model \in Models)
    /\ current \in Models \cup {NoModel}
    /\ leave \in BOOLEAN
    /\ reply \in {"none", "completed", "failed"}
    /\ verdict \in Verdict \cup {"none"}
    /\ cancelID \in Tests \cup {0}
    /\ cause \in {"none", "user"}
    /\ late \in Nat
    /\ wake \in BOOLEAN
    /\ stopping \in BOOLEAN
    /\ client \in [Clients -> [at : ClientSteps, id : Tests \cup {0}]]
    /\ restarts \in Nat
    /\ refusals \in Nat
    /\ stale \in BOOLEAN

Init ==
    /\ tests = [id \in Tests |-> NoTest]
    /\ loaded = {}
    /\ ours = {}
    /\ pc = "boot"
    /\ job = 0
    /\ run = NoRun
    /\ current = NoModel
    /\ leave = FALSE
    /\ reply = "none"
    /\ verdict = "none"
    /\ cancelID = 0
    /\ cause = "none"
    /\ late = 0
    /\ wake = FALSE
    /\ stopping = FALSE
    /\ client = [c \in Clients |-> AtRest]
    /\ restarts = 0
    /\ refusals = 0
    /\ stale = FALSE

-----------------------------------------------------------------------------
(* The worker: Run.                                                        *)

\* Tests a previous run left part-way through: first their runs, ...
Boot ==
    /\ pc = "boot" /\ ~stopping
    /\ tests' = RequeueRuns(tests)
    /\ pc' = "requeue"
    /\ UNCHANGED <<memory, job, inhand, cancelID, cause, late, wake, world, stale>>

\* ... then themselves.
Requeue ==
    /\ pc = "requeue" /\ ~stopping
    /\ tests' = RequeueTests(tests)
    /\ pc' = "next"
    /\ UNCHANGED <<memory, job, inhand, cancelID, cause, late, wake, world, stale>>

ReadQueue ==
    /\ pc = "next" /\ ~stopping
    /\ \/ /\ \A id \in Tests : tests[id].status # "queued"
          /\ pc' = "idle"
          /\ UNCHANGED job
       \/ /\ job' \in {id \in Tests : IsNextQueued(tests, id)}
          /\ pc' = "register"
    /\ UNCHANGED <<tests, memory, inhand, cancelID, cause, late, wake, world, stale>>

Awaken ==
    /\ pc = "idle" /\ ~stopping
    /\ wake
    /\ wake' = FALSE
    /\ pc' = "next"
    /\ UNCHANGED <<tests, memory, job, inhand, cancelID, cause, late, world, stale>>

\* The one-minute timer beside the channel ("belt and braces").
IdleTimeout ==
    /\ pc = "idle" /\ ~stopping
    /\ pc' = "next"
    /\ UNCHANGED <<tests, memory, job, inhand, cancelID, cause, late, wake, world, stale>>

\* Run returns once the context is done, from wherever it isn't in process.
Stop ==
    /\ stopping
    /\ pc \in {"boot", "requeue", "next", "idle"}
    /\ pc' = "off"
    /\ UNCHANGED <<tests, memory, job, inhand, cancelID, cause, late, wake, world, stale>>

-----------------------------------------------------------------------------
(* The worker: process.                                                    *)

\* From here Cancel can reach the test.
Register ==
    /\ pc = "register"
    /\ cancelID' = job
    /\ cause' = "none"
    /\ late' = 0
    /\ pc' = "start"
    /\ UNCHANGED <<tests, memory, job, inhand, wake, world, stale>>

\* The row is marked running, whatever became of it since it was read.
Start ==
    /\ pc = "start" /\ ~stopping
    /\ tests' = StartModelTest(tests, job)
    /\ stale' = (stale \/ tests[job].status # "queued")
    /\ pc' = "find"
    /\ UNCHANGED <<memory, job, inhand, cancelID, cause, late, wake, world>>

\* (Bug: the last model is not let go before the next one is looked at.)
FindBug ==
    /\ pc = "find" /\ ~stopping
    /\ \/ /\ \A k \in Runs(tests, job) : tests[job].runs[k] # "pending"
          /\ pc' = "count"
          /\ UNCHANGED run
       \/ \E k \in Runs(tests, job) :
            /\ IsNextPending(tests, job, k)
            /\ run' = [k |-> k, model |-> tests[job].plan[k]]
            /\ pc' = IF tests[job].plan[k] = current THEN "begin" ELSE "look"
    /\ UNCHANGED <<tests, memory, job, current, leave, reply, verdict, cancelID, cause, late,
                   wake, world, stale>>

\* NextPendingRun: the first run that is still to do; none is left, or it may be
\* another model's.
Find ==
    /\ pc = "find" /\ ~stopping
    /\ \/ /\ \A k \in Runs(tests, job) : tests[job].runs[k] # "pending"
          /\ pc' = "count"
          /\ UNCHANGED run
       \/ \E k \in Runs(tests, job) :
            /\ IsNextPending(tests, job, k)
            /\ run' = [k |-> k, model |-> tests[job].plan[k]]
            /\ pc' = IF tests[job].plan[k] = current THEN "begin" ELSE "swap"
    /\ UNCHANGED <<tests, memory, job, current, leave, reply, verdict, cancelID, cause, late,
                   wake, world, stale>>

\* release: unload the model in hand, unless someone else had it loaded or the
\* app is shutting down.  Ollama may fail to.
Release ==
    /\ \/ /\ current # NoModel /\ ~leave /\ ~stopping
          /\ \/ /\ loaded' = loaded \ {current}
                /\ ours' = ours \ {current}
                /\ UNCHANGED refusals
             \/ /\ refusals < MaxRefusals
                /\ refusals' = refusals + 1
                /\ UNCHANGED memory
       \/ /\ current = NoModel \/ leave \/ stopping
          /\ UNCHANGED <<memory, refusals>>
    /\ current' = NoModel
    /\ UNCHANGED <<tests, job, run, leave, reply, verdict, cancelID, cause, late, wake, stopping,
                   client, restarts, stale>>

\* The next run is another model's.
Swap == pc = "swap" /\ pc' = "look" /\ Release

\* Is it loaded already?  If Ollama can't say, it's taken as not loaded.
Look ==
    /\ pc = "look"
    /\ leave' \in {run.model \in loaded, FALSE}
    /\ current' = run.model
    /\ pc' = "begin"
    /\ UNCHANGED <<tests, memory, job, run, reply, verdict, cancelID, cause, late,
                   wake, world, stale>>

Begin ==
    /\ pc = "begin" /\ ~stopping
    /\ tests' = SetRun(tests, job, run.k, "running")
    /\ pc' = "chat"
    /\ UNCHANGED <<memory, job, inhand, cancelID, cause, late, wake, world, stale>>

\* The chat ends.  Ollama loads the model for it, if it gets that far.
Chat ==
    /\ pc = "chat"
    /\ \/ /\ reply' = "completed"
          /\ loaded' = loaded \cup {run.model}
       \/ /\ reply' = "failed"
          /\ loaded' \in {loaded, loaded \cup {run.model}}
    /\ ours' = ours \cup (IF leave THEN {} ELSE loaded' \ loaded)
    /\ pc' = "settle"
    /\ UNCHANGED <<tests, job, run, current, leave, verdict, cancelID, cause, late,
                   wake, world, stale>>

\* (Bug: doesn't ask whether the test was cancelled.)
JudgeBug ==
    /\ pc = "settle" /\ ~stopping
    /\ pc' = "record"
    /\ UNCHANGED <<tests, memory, job, inhand, cancelID, cause, late, wake, world, stale>>

\* Was the test cancelled by now?  What follows from it is written afterwards.
Judge ==
    /\ pc = "settle" /\ ~stopping
    /\ pc' = IF cause = "user" THEN "drop" ELSE "record"
    /\ UNCHANGED <<tests, memory, job, inhand, cancelID, cause, late, wake, world, stale>>

\* The outcome of a run is written, also if a cancel came since it was asked for,
\* and the next one looked for.
Record ==
    /\ pc = "record" /\ ~stopping
    /\ tests' = SetRun(tests, job, run.k, reply)
    /\ late' = IF cause = "user" THEN late + 1 ELSE late
    /\ pc' = "find"
    /\ UNCHANGED <<memory, job, inhand, cancelID, cause, wake, world, stale>>

\* Cancelled: so is the run that was going, and the test is finished.
RecordCancelled ==
    /\ pc = "drop" /\ ~stopping
    /\ tests' = SetRun(tests, job, run.k, "cancelled")
    /\ verdict' = "cancelled"
    /\ pc' = "sweep"
    /\ UNCHANGED <<memory, job, run, current, leave, reply, cancelID, cause, late,
                   wake, world, stale>>

\* (Bug: judges the test by its last run.)
CountBug ==
    /\ pc = "count" /\ ~stopping
    /\ verdict' = IF HasStatus(tests, job, run.k, "completed") THEN "completed" ELSE "failed"
    /\ pc' = "free"
    /\ UNCHANGED <<tests, memory, job, run, current, leave, reply, cancelID, cause, late,
                   wake, world, stale>>

\* No run is left: the test failed only if nothing worked.
Count ==
    /\ pc = "count" /\ ~stopping
    /\ verdict' = IF \E k \in Runs(tests, job) : tests[job].runs[k] = "completed"
                  THEN "completed" ELSE "failed"
    /\ pc' = "free"
    /\ UNCHANGED <<tests, memory, job, run, current, leave, reply, cancelID, cause, late,
                   wake, world, stale>>

\* Its last model is out of memory before the test is marked done.
Free == pc = "free" /\ pc' = "sweep" /\ Release

\* FinishModelTest, in two statements.
Sweep ==
    /\ pc = "sweep" /\ ~stopping
    /\ tests' = CancelOpenRuns(tests, job)
    /\ pc' = "mark"
    /\ UNCHANGED <<memory, job, inhand, cancelID, cause, late, wake, world, stale>>

Mark ==
    /\ pc = "mark" /\ ~stopping
    /\ tests' = SetStatus(tests, job, verdict)
    /\ pc' = "release"
    /\ UNCHANGED <<memory, job, inhand, cancelID, cause, late, wake, world, stale>>

\* Every statement fails once the app is shutting down, and process returns;
\* the run that was going stays "running".
Abandon ==
    /\ stopping
    /\ pc \in {"start", "find", "begin", "settle", "record", "drop", "count", "sweep", "mark"}
    /\ pc' = "release"
    /\ UNCHANGED <<tests, memory, job, inhand, cancelID, cause, late, wake, world, stale>>

\* process's deferred calls: release, then out of Cancel's reach.
LetGo == pc = "release" /\ pc' = "clear" /\ Release

Clear ==
    /\ pc = "clear"
    /\ cancelID' = 0
    /\ cause' = "none"
    /\ late' = 0
    /\ job' = 0
    /\ run' = NoRun
    /\ leave' = FALSE
    /\ reply' = "none"
    /\ verdict' = "none"
    /\ pc' = IF stopping THEN "off" ELSE "next"
    /\ UNCHANGED <<tests, memory, current, wake, world, stale>>

-----------------------------------------------------------------------------
(* The handlers.                                                           *)

GoOn(c, at, id) == client' = [client EXCEPT ![c] = [at |-> at, id |-> id]]

\* (Bug: doesn't wake the worker.)
CreateBug(c, plan) ==
    /\ client[c].at = "rest"
    /\ \E id \in Tests : IsNewTest(tests, id) /\ tests' = CreateModelTest(tests, id, plan)
    /\ UNCHANGED <<memory, worker, wake, world, stale>>

\* A new test, or a copy of an old one.
Create(c, plan) ==
    /\ client[c].at = "rest"
    /\ \E id \in Tests : IsNewTest(tests, id) /\ tests' = CreateModelTest(tests, id, plan)
    /\ GoOn(c, "wake", 0)
    /\ UNCHANGED <<memory, worker, wake, stopping, restarts, refusals, stale>>

Wake(c) ==
    /\ client[c].at = "wake"
    /\ wake' = TRUE
    /\ GoOn(c, "rest", 0)
    /\ UNCHANGED <<tests, memory, worker, stopping, restarts, refusals, stale>>

\* Cancel of the test that is registered: abort the reply in progress.
CancelRunning(c, id) ==
    /\ client[c].at = "rest"
    /\ cancelID = id
    /\ cause' = "user"
    /\ UNCHANGED <<tests, memory, pc, job, inhand, cancelID, late, wake, world, stale>>

\* Cancel of any other: it releases the mutex, then CancelQueuedModelTest reads
\* the test, and finishes it in two statements if that was queued.
CancelOther(c, id) ==
    /\ client[c].at = "rest"
    /\ cancelID # id
    /\ GoOn(c, "miss", id)
    /\ UNCHANGED <<tests, memory, worker, wake, stopping, restarts, refusals, stale>>

CancelRead(c) ==
    /\ client[c].at = "miss"
    /\ IF tests[client[c].id].status = "queued"
       THEN GoOn(c, "sweep", client[c].id)
       ELSE GoOn(c, "rest", 0)
    /\ UNCHANGED <<tests, memory, worker, wake, stopping, restarts, refusals, stale>>

\* A write of a handler to a test that has been started since it was read.
TooLate(id) == tests[id].status \notin {"queued", "cancelled", "none"}

CancelSweep(c) ==
    /\ client[c].at = "sweep"
    /\ tests' = CancelOpenRuns(tests, client[c].id)
    /\ stale' = (stale \/ TooLate(client[c].id))
    /\ GoOn(c, "mark", client[c].id)
    /\ UNCHANGED <<memory, worker, wake, stopping, restarts, refusals>>

CancelMark(c) ==
    /\ client[c].at = "mark"
    /\ tests' = SetStatus(tests, client[c].id, "cancelled")
    /\ stale' = (stale \/ TooLate(client[c].id))
    /\ GoOn(c, "rest", 0)
    /\ UNCHANGED <<memory, worker, wake, stopping, restarts, refusals>>

\* The browser hangs up: the next statement fails and the handler returns.
Disconnect(c) ==
    /\ client[c].at \in {"miss", "sweep", "mark"}
    /\ GoOn(c, "rest", 0)
    /\ UNCHANGED <<tests, memory, worker, wake, stopping, restarts, refusals, stale>>

\* The worker is about to start the test, or a handler to cancel it: deleting it
\* leaves them with an id that may be given to another.
Claimed(id) ==
    \/ id = job /\ pc \in {"register", "start"}
    \/ \E c \in Clients : client[c].id = id /\ client[c].at \in {"sweep", "mark"}

Delete(id) ==
    /\ tests[id].status \in Verdict
    /\ tests' = DeleteModelTest(tests, id)
    /\ stale' = (stale \/ Claimed(id))
    /\ UNCHANGED <<memory, worker, wake, world>>

Handler(c) ==
    \/ \E plan \in Plans : Create(c, plan)
    \/ \E id \in Tests : CancelRunning(c, id) \/ CancelOther(c, id)

HandlerGoesOn(c) ==
    Wake(c) \/ CancelRead(c) \/ CancelSweep(c) \/ CancelMark(c) \/ Disconnect(c)

-----------------------------------------------------------------------------
(* Ollama's memory and the process.                                        *)

\* Someone chats with a model or loads it.
UserLoads(m) ==
    /\ loaded' = loaded \cup {m}
    /\ ours' = ours \ {m}
    /\ UNCHANGED <<tests, worker, wake, world, stale>>

\* A user, or Ollama once it has been idle, unloads it.
Unloaded(m) ==
    /\ loaded' = loaded \ {m}
    /\ ours' = ours \ {m}
    /\ UNCHANGED <<tests, worker, wake, world, stale>>

Shutdown ==
    /\ ~stopping
    /\ restarts < MaxRestarts
    /\ stopping' = TRUE
    /\ UNCHANGED <<tests, memory, worker, wake, client, restarts, refusals, stale>>

\* A new process; Ollama keeps what it has loaded.
Restart ==
    /\ restarts' = restarts + 1
    /\ pc' = "boot"
    /\ job' = 0
    /\ run' = NoRun
    /\ current' = NoModel
    /\ leave' = FALSE
    /\ reply' = "none"
    /\ verdict' = "none"
    /\ cancelID' = 0
    /\ cause' = "none"
    /\ late' = 0
    /\ wake' = FALSE
    /\ stopping' = FALSE
    /\ client' = [c \in Clients |-> AtRest]
    /\ UNCHANGED <<tests, memory, refusals, stale>>

Exit == pc = "off" /\ Restart

Crash == restarts < MaxRestarts /\ Restart

-----------------------------------------------------------------------------
Run == Boot \/ Requeue \/ ReadQueue \/ Awaken \/ Stop

Process == \/ Register \/ Start \/ Find \/ Swap \/ Look \/ Begin \/ Chat
           \/ Judge \/ Record \/ RecordCancelled \/ Count \/ Free \/ Sweep \/ Mark
           \/ Abandon \/ LetGo \/ Clear

Next ==
    \/ Run \/ Process \/ IdleTimeout
    \/ \E c \in Clients : Handler(c) \/ HandlerGoesOn(c)
    \/ \E id \in Tests : Delete(id)
    \/ \E m \in Shared : UserLoads(m) \/ Unloaded(m)
    \/ Shutdown \/ Exit \/ Crash

Spec == Init /\ [][Next]_vars

\* The worker's steps are never put off for ever, a chat with Ollama ends, a
\* handler that has begun goes on, and a process that stopped is started again.
\* The one-minute timer need not fire.
Fairness ==
    /\ WF_vars(Run)
    /\ WF_vars(Process)
    /\ \A c \in Clients : WF_vars(HandlerGoesOn(c))
    /\ WF_vars(Exit)

FairSpec == Spec /\ Fairness

-----------------------------------------------------------------------------
(* Properties.                                                             *)

\* One test at a time, and one run of it: a row says "running" only while the
\* worker has it in hand, or until a new process has put back what the last
\* one left (runner.go: process; RequeueInterruptedModelTests).
OneTestRuns ==
    \A id \in Tests :
        /\ tests[id].status = "running" =>
              \/ id = job /\ (stopping \/ pc \notin {"release", "clear"})
              \/ pc \in {"boot", "requeue", "off"}
        /\ \A k \in Runs(tests, id) : tests[id].runs[k] = "running" =>
              \/ id = job /\ k = run.k /\ (stopping \/ pc \in {"chat", "settle", "record", "drop"})
              \/ pc \in {"boot", "off"}

\* runner.go: "Each model is unloaded once its runs are done, so the next one has
\* the GPU to itself": no other model that a test loaded is still in memory.
ModelsTakeTurns == pc = "chat" => ours \subseteq {run.model}

\* They do as long as the app isn't restarted and Ollama unloads what it is
\* asked to: also across tests, failures and cancels.
TakesTurns == restarts = 0 /\ refusals = 0 => ModelsTakeTurns

\* Cancel of the running test abandons "the reply in progress" (runner.go: Cancel)
\* and all that would follow: from then on one reply more is recorded at most, that
\* of a run process had already asked about the cancel for when it came.
CancelStopsRuns == late <= 1

\* Until a stale write the tables go through what TestPromise allows.
Listed == [id \in Tests |-> [status |-> tests[id].status, runs |-> tests[id].runs]]
Promise == INSTANCE TestPromise WITH test <- Listed, broken <- stale
KeepsPromise == Promise!Spec

\* Every test is settled in the end, whatever becomes of its runs.
EveryTestSettles ==
    \A id \in Tests : tests[id].status \in Active ~> tests[id].status \notin Active
=============================================================================
