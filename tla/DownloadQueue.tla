--------------------------- MODULE DownloadQueue ---------------------------
(***************************************************************************)
(* The download queue (internal/downloads/manager.go): one background      *)
(* worker pulls models through Ollama, one at a time, from the table of    *)
(* module DownloadStore, while HTTP handlers queue, cancel, retry and      *)
(* delete rows of the same table.  The process may shut down or crash at   *)
(* any step and start again; Ollama may stop answering.                    *)
(*                                                                         *)
(* A step is one statement on the table, one critical section of           *)
(* Manager.mu, or one call to Ollama.  What the code holds in a local      *)
(* variable across two of them (the row the worker read, what a handler    *)
(* found) is part of the state here and may be stale when it is used.      *)
(***************************************************************************)
EXTENDS DownloadStore

CONSTANTS Clients,     \* HTTP handlers that may be running at the same time
          Requests,    \* bound: which requests users make
          MaxResumes,  \* maxAutoResumes
          MaxBytes,    \* bound: the size of a download, in steps of progress
          MaxStamp,    \* bound: times a row is queued (by a request or a retry)
          MaxRestarts, \* bound: crashes and shutdowns
          MaxOutages   \* bound: times Ollama stops answering

ASSUME QueueAssumption ==
    /\ {MaxResumes, MaxBytes, MaxStamp, MaxRestarts, MaxOutages} \subseteq Nat
    /\ Requests \subseteq {"enqueue", "cancel", "retry", "delete"}

VARIABLES
  rows,       \* the downloads table, which survives a restart
  clock,      \* the next queued_at
  pulled,     \* models Ollama has reported "success" for
  up,         \* Ollama answers
  pc,         \* where the worker goroutine is in Run and process
  job,        \* the row process was called with, as it was when it was read
  cancelID,   \* Manager.cancelID: the download Cancel can abort
  cause,      \* context.Cause of the pull's context, short of shutdown
  reached,    \* bytes the pull in progress has got to
  result,     \* how Pull returned
  resumes,    \* Manager.resumes; a missing entry reads as Zero
  wake,       \* something is in the one-slot channel Manager.wake
  stopping,   \* the process's context is cancelled
  client,     \* the handlers: what each is about to do, and what it read
  restarts, outages,  \* spent bounds
  stale,      \* history: a write acted on something read earlier and since changed
  owed,       \* history: a cancel reached the pull before its outcome was decided
  vain        \* history: how often a row was put back since its pulls got further

disk     == <<rows, clock>>
task     == <<cancelID, cause, reached, result, owed>>
worker   == <<pc, job, cancelID, cause, reached, result, resumes, owed>>
spent    == <<restarts, outages>>
vars     == <<rows, clock, pulled, up, pc, job, cancelID, cause, reached, result,
              resumes, wake, stopping, client, restarts, outages, stale, owed, vain>>

Zero   == [n |-> 0, reached |-> 0]
NoJob  == [id |-> 0, model |-> NoModel, at |-> 0]
AtRest == [at |-> "rest", id |-> 0, model |-> NoModel, rename |-> FALSE]

\* What process may decide to record once a pull has returned.
Outcomes == {"complete", "suspend", "abort", "resume", "fail"}

WorkerSteps == {"boot", "next", "idle", "check", "held", "register", "pull",
                "settle", "clear", "off"} \cup Outcomes
ClientSteps == {"rest", "wake", "miss", "drop", "scan", "rename", "requeue"}

TypeOK ==
    /\ rows \in [Ids -> Row \cup {NoRow}]
    /\ clock \in Nat
    /\ pulled \in SUBSET Models
    /\ up \in BOOLEAN
    /\ pc \in WorkerSteps
    /\ job \in [id : Ids, model : Models, at : Nat] \cup {NoJob}
    /\ cancelID \in Ids \cup {0}
    /\ cause \in {"none", "user", "stall"}
    /\ reached \in Nat
    /\ result \in {"none", "ok", "lost", "error", "aborted"}
    /\ resumes \in [Ids -> [n : Nat, reached : Nat]]
    /\ wake \in BOOLEAN
    /\ stopping \in BOOLEAN
    /\ client \in [Clients -> [at : ClientSteps, id : Ids \cup {0},
                               model : Models \cup {NoModel}, rename : BOOLEAN]]
    /\ restarts \in Nat
    /\ outages \in Nat
    /\ stale \in BOOLEAN
    /\ owed \in BOOLEAN
    /\ vain \in [Ids -> [n : Nat, reached : Nat]]

Init ==
    /\ rows = [id \in Ids |-> NoRow]
    /\ clock = 1
    /\ pulled = {}
    /\ up = TRUE
    /\ pc = "boot"
    /\ job = NoJob
    /\ cancelID = 0
    /\ cause = "none"
    /\ reached = 0
    /\ result = "none"
    /\ resumes = [id \in Ids |-> Zero]
    /\ wake = FALSE
    /\ stopping = FALSE
    /\ client = [c \in Clients |-> AtRest]
    /\ restarts = 0
    /\ outages = 0
    /\ stale = FALSE
    /\ owed = FALSE
    /\ vain = [id \in Ids |-> Zero]

-----------------------------------------------------------------------------
(* The worker: Run.                                                        *)

\* Downloads a previous run left mid-flight go back in the queue first.
Boot ==
    /\ pc = "boot" /\ ~stopping
    /\ rows' = RequeueInterrupted(rows)
    /\ pc' = "next"
    /\ UNCHANGED <<clock, pulled, up, job, task, resumes, wake, stopping, client, spent,
                   stale, vain>>

ReadQueue ==
    /\ pc = "next" /\ ~stopping
    /\ \/ /\ \A id \in Ids : ~IsQueued(rows, id)
          /\ pc' = "idle"
          /\ UNCHANGED job
       \/ \E id \in Ids :
            /\ IsNextQueued(rows, id)
            /\ job' = [id |-> id, model |-> rows[id].model, at |-> rows[id].at]
            /\ pc' = "check"
    /\ UNCHANGED <<disk, pulled, up, task, resumes, wake, stopping, client, spent, stale, vain>>

Awaken ==
    /\ pc = "idle" /\ ~stopping
    /\ wake
    /\ wake' = FALSE
    /\ pc' = "next"
    /\ UNCHANGED <<disk, pulled, up, job, task, resumes, stopping, client, spent, stale, vain>>

\* The one-minute timer beside the channel ("belt and braces").
IdleTimeout ==
    /\ pc = "idle" /\ ~stopping
    /\ pc' = "next"
    /\ UNCHANGED <<disk, pulled, up, job, task, resumes, wake, stopping, client, spent,
                   stale, vain>>

\* Ollama doesn't answer: hold the queue, and forget the row that was read.
Hold ==
    /\ pc = "check" /\ ~stopping
    /\ ~up
    /\ pc' = "held"
    /\ job' = NoJob
    /\ UNCHANGED <<disk, pulled, up, task, resumes, wake, stopping, client, spent, stale, vain>>

Release ==
    /\ pc = "held" /\ ~stopping
    /\ up
    /\ pc' = "next"
    /\ UNCHANGED <<disk, pulled, up, job, task, resumes, wake, stopping, client, spent,
                   stale, vain>>

\* Run returns once the context is done, from wherever it isn't in process.
Stop ==
    /\ stopping
    /\ pc \in {"boot", "next", "idle", "check", "held"}
    /\ pc' = "off"
    /\ job' = NoJob
    /\ UNCHANGED <<disk, pulled, up, task, resumes, wake, stopping, client, spent, stale, vain>>

-----------------------------------------------------------------------------
(* The worker: process.                                                    *)

\* The row process is about to start is still the one the worker read.
JobUnchanged == /\ IsQueued(rows, job.id)
                /\ rows[job.id].model = job.model
                /\ rows[job.id].at = job.at

\* Ollama answered and the row is marked started, whatever became of it since.
Begin ==
    /\ pc = "check" /\ ~stopping
    /\ up
    /\ rows' = StartDownload(rows, job.id)
    /\ stale' = (stale \/ ~JobUnchanged)
    /\ pc' = "register"
    /\ UNCHANGED <<clock, pulled, up, job, task, resumes, wake, stopping, client, spent, vain>>

\* From here Cancel can reach the download.
Register ==
    /\ pc = "register"
    /\ cancelID' = job.id
    /\ cause' = "none"
    /\ reached' = 0
    /\ owed' = FALSE
    /\ pc' = "pull"
    /\ UNCHANGED <<disk, pulled, up, job, result, resumes, wake, stopping, client, spent,
                   stale, vain>>

Progress ==
    /\ pc = "pull"
    /\ up
    /\ reached' \in (reached + 1)..MaxBytes
    /\ UNCHANGED <<disk, pulled, up, pc, job, cancelID, cause, result, resumes, wake,
                   stopping, client, spent, stale, owed, vain>>

\* The stall timer: no progress from Ollama for ten minutes.  It runs until
\* process returns, so it may still go off beside a pull that has just ended;
\* once the outcome is decided nobody looks any more.
Stall ==
    /\ pc \in {"pull", "settle"}
    /\ cause = "none"
    /\ cause' = "stall"
    /\ UNCHANGED <<disk, pulled, up, pc, job, cancelID, reached, result, resumes, wake,
                   stopping, client, spent, stale, owed, vain>>

\* Pull returns: "success", an error from Ollama, a lost connection, or the
\* cancelled context.  A cancelled pull may still return in any other way.
Pull ==
    /\ pc = "pull"
    /\ \/ /\ up
          /\ result' = "ok"
          /\ pulled' = pulled \cup {job.model}
       \/ /\ up
          /\ result' = "error"
          /\ UNCHANGED pulled
       \/ /\ result' = "lost"
          /\ UNCHANGED pulled
       \/ /\ cause # "none" \/ stopping
          /\ result' = "aborted"
          /\ UNCHANGED pulled
    /\ pc' = "settle"
    /\ UNCHANGED <<disk, up, job, cancelID, cause, reached, resumes, wake, stopping,
                   client, spent, stale, owed, vain>>

\* One more lost connection: counted afresh if this pull got further.
OneMore(count) == IF reached > count.reached
                  THEN [n |-> 1, reached |-> reached]
                  ELSE [count EXCEPT !.n = @ + 1]

\* (Bug: forgets to count.)
ResumedBug(id) ==
    IF reached > resumes[id].reached THEN [n |-> 1, reached |-> reached] ELSE resumes[id]

\* The count of Manager.resume.
Resumed(id) == OneMore(resumes[id])

\* (Bug: a lost connection counts for more than the user's cancel.)
OutcomeBug ==
    IF result = "ok" THEN "complete"
    ELSE IF stopping THEN "suspend"
    ELSE IF result = "lost" /\ cause # "stall" /\ Resumed(job.id).n <= MaxResumes THEN "resume"
    ELSE IF cause = "user" THEN "abort"
    ELSE "fail"

\* What becomes of a download whose pull has returned.  One that the app's
\* shutdown ended isn't a failure; one that lost Ollama goes on when it is back, a
\* limited number of times.
Outcome ==
    IF result = "ok" THEN "complete"
    ELSE IF stopping THEN "suspend"
    ELSE IF cause = "user" THEN "abort"
    ELSE IF result = "lost" /\ cause # "stall" /\ Resumed(job.id).n <= MaxResumes THEN "resume"
    ELSE "fail"

\* process looks at how the pull ended, and why.  (A count beyond the limit is not
\* kept: it is dropped with the download's failure.)
Judge ==
    /\ pc = "settle"
    /\ pc' = Outcome
    /\ resumes' = IF Outcome = "resume" THEN [resumes EXCEPT ![job.id] = Resumed(job.id)]
                  ELSE resumes
    /\ UNCHANGED <<disk, pulled, up, job, task, wake, stopping, client, spent, stale, vain>>

\* ... and writes what it decided, whatever has happened since.  Unless the
\* download is to resume, its count is dropped.
SettleAs(outcome, table) ==
    /\ pc = outcome
    /\ rows' = table
    /\ resumes' = [resumes EXCEPT ![job.id] = Zero]
    /\ vain' = [vain EXCEPT ![job.id] = Zero]
    /\ pc' = "clear"
    /\ UNCHANGED <<clock, pulled, up, job, task, wake, stopping, client, spent, stale>>

Complete == SettleAs("complete", FinishDownload(rows, job.id, "completed"))

Suspend == SettleAs("suspend", RequeueKeepingPlace(rows, job.id))

Abort == SettleAs("abort", FinishDownload(rows, job.id, "cancelled"))

Fail == SettleAs("fail", FinishDownload(rows, job.id, "failed"))

\* Ollama went away: back to its place in the queue.
Resume ==
    /\ pc = "resume"
    /\ rows' = RequeueKeepingPlace(rows, job.id)
    /\ vain' = [vain EXCEPT ![job.id] = OneMore(vain[job.id])]
    /\ pc' = "clear"
    /\ UNCHANGED <<clock, pulled, up, job, task, resumes, wake, stopping, client, spent, stale>>

\* process's deferred calls: Cancel can't reach the download any more.
Clear ==
    /\ pc = "clear"
    /\ cancelID' = 0
    /\ cause' = "none"
    /\ reached' = 0
    /\ result' = "none"
    /\ owed' = FALSE
    /\ job' = NoJob
    /\ pc' = IF stopping THEN "off" ELSE "next"
    /\ UNCHANGED <<disk, pulled, up, resumes, wake, stopping, client, spent, stale, vain>>

-----------------------------------------------------------------------------
(* The handlers.  client[c] is what handler c is about to do.              *)

GoOn(c, step) == client' = [client EXCEPT ![c] = step]

Free(c, request) == client[c].at = "rest" /\ request \in Requests

\* Manager.Enqueue, once Check has found nothing against the name.
Enqueue(c, m) ==
    /\ Free(c, "enqueue")
    /\ clock < MaxStamp
    /\ ActiveOf(rows, m) = {}
    /\ \E id \in Ids : IsNewId(rows, id) /\ rows' = EnqueueDownload(rows, id, m, clock)
    /\ clock' = clock + 1
    /\ GoOn(c, [AtRest EXCEPT !.at = "wake"])
    /\ UNCHANGED <<pulled, up, worker, wake, stopping, spent, stale, vain>>

Wake(c) ==
    /\ client[c].at = "wake"
    /\ wake' = TRUE
    /\ GoOn(c, AtRest)
    /\ UNCHANGED <<disk, pulled, up, worker, stopping, spent, stale, vain>>

\* Cancel of the download that is registered: abort its pull, if it is not
\* aborted already (the first cause stands), and whether or not it still runs.
CancelRunning(c, id) ==
    /\ Free(c, "cancel")
    /\ cancelID = id
    /\ cause' = IF cause = "none" THEN "user" ELSE cause
    /\ owed' = (owed \/ (cause = "none" /\ pc \in {"pull", "settle"}))
    /\ UNCHANGED <<disk, pulled, up, pc, job, cancelID, reached, result, resumes, wake,
                   stopping, client, spent, stale, vain>>

\* Cancel of any other: it releases the mutex, reads the row, and if that was
\* queued marks it cancelled.
CancelOther(c, id) ==
    /\ Free(c, "cancel")
    /\ cancelID # id
    /\ GoOn(c, [AtRest EXCEPT !.at = "miss", !.id = id])
    /\ UNCHANGED <<disk, pulled, up, worker, wake, stopping, spent, stale, vain>>

CancelRead(c) ==
    /\ client[c].at = "miss"
    /\ GoOn(c, IF IsQueued(rows, client[c].id) THEN [client[c] EXCEPT !.at = "drop"] ELSE AtRest)
    /\ UNCHANGED <<disk, pulled, up, worker, wake, stopping, spent, stale, vain>>

CancelDrop(c) ==
    LET id == client[c].id IN
    /\ client[c].at = "drop"
    /\ rows' = FinishDownload(rows, id, "cancelled")
    /\ stale' = (stale \/ rows[id].status \notin {"queued", "cancelled", "none"})
    /\ GoOn(c, AtRest)
    /\ UNCHANGED <<clock, pulled, up, worker, wake, stopping, spent, vain>>

\* Retry, under model name m (the row's own, or a corrected one).
RetryRead(c, id, m) ==
    /\ Free(c, "retry")
    /\ clock < MaxStamp
    /\ rows[id].status \in Retryable
    /\ GoOn(c, [at |-> "scan", id |-> id, model |-> m, rename |-> m # rows[id].model])
    /\ UNCHANGED <<disk, pulled, up, worker, wake, stopping, spent, stale, vain>>

RetryScan(c) ==
    /\ client[c].at = "scan"
    /\ GoOn(c, IF ActiveOf(rows, client[c].model) # {} THEN AtRest
               ELSE [client[c] EXCEPT !.at = IF client[c].rename THEN "rename" ELSE "requeue"])
    /\ UNCHANGED <<disk, pulled, up, worker, wake, stopping, spent, stale, vain>>

RetryRename(c) ==
    /\ client[c].at = "rename"
    /\ rows' = SetDownloadModel(rows, client[c].id, client[c].model)
    /\ stale' = (stale \/ rows[client[c].id].status = "completed")
    /\ GoOn(c, [client[c] EXCEPT !.at = "requeue"])
    /\ UNCHANGED <<clock, pulled, up, worker, wake, stopping, spent, vain>>

\* (Bug: doesn't wake the worker.)
RetryRequeueBug(c) ==
    LET id == client[c].id IN
    /\ client[c].at = "requeue"
    /\ rows' = RequeueAtBack(rows, id, clock)
    /\ clock' = clock + 1
    /\ stale' = (stale \/ /\ Present(rows, id)
                          /\ \/ rows[id].status \notin Retryable
                             \/ ActiveOf(rows, rows[id].model) # {})
    /\ GoOn(c, AtRest)
    /\ UNCHANGED <<pulled, up, worker, wake, stopping, spent, vain>>

RetryRequeue(c) ==
    LET id == client[c].id IN
    /\ client[c].at = "requeue"
    /\ rows' = RequeueAtBack(rows, id, clock)
    /\ clock' = clock + 1
    /\ stale' = (stale \/ /\ Present(rows, id)
                          /\ \/ rows[id].status \notin Retryable
                             \/ ActiveOf(rows, rows[id].model) # {})
    /\ GoOn(c, [AtRest EXCEPT !.at = "wake"])
    /\ UNCHANGED <<pulled, up, worker, wake, stopping, spent, vain>>

\* DeleteDownload of one row, or ClearFinishedDownloads of them all.
Delete(S) ==
    /\ "delete" \in Requests
    /\ rows' = DeleteDownloads(rows, S)
    /\ vain' = [id \in Ids |-> IF Present(rows', id) THEN vain[id] ELSE Zero]
    /\ UNCHANGED <<clock, pulled, up, worker, wake, stopping, client, spent, stale>>

\* The browser hangs up in the middle of a request: its context is cancelled,
\* the next statement fails and the handler returns.
Disconnect(c) ==
    /\ client[c].at \in {"miss", "drop", "scan", "rename", "requeue"}
    /\ GoOn(c, AtRest)
    /\ UNCHANGED <<disk, pulled, up, worker, wake, stopping, spent, stale, vain>>

Handler(c) ==
    \/ \E m \in Models : Enqueue(c, m)
    \/ \E id \in Ids : CancelRunning(c, id) \/ CancelOther(c, id)
    \/ \E id \in Ids, m \in Models : RetryRead(c, id, m)

HandlerGoesOn(c) ==
    \/ Wake(c) \/ CancelRead(c) \/ CancelDrop(c)
    \/ RetryScan(c) \/ RetryRename(c) \/ RetryRequeue(c)
    \/ Disconnect(c)

-----------------------------------------------------------------------------
(* The process and Ollama.                                                 *)

\* SIGTERM cancels the context that Run and every pull descend from.
Shutdown ==
    /\ ~stopping
    /\ restarts < MaxRestarts
    /\ stopping' = TRUE
    /\ UNCHANGED <<disk, pulled, up, worker, wake, client, spent, stale, vain>>

\* A new process: only the table is left.
Restart ==
    /\ restarts' = restarts + 1
    /\ pc' = "boot"
    /\ job' = NoJob
    /\ cancelID' = 0
    /\ cause' = "none"
    /\ reached' = 0
    /\ result' = "none"
    /\ owed' = FALSE
    /\ vain' = [id \in Ids |-> Zero]
    /\ resumes' = [id \in Ids |-> Zero]
    /\ wake' = FALSE
    /\ stopping' = FALSE
    /\ client' = [c \in Clients |-> AtRest]
    /\ UNCHANGED <<disk, pulled, up, outages, stale>>

\* main returns once the worker has, without waiting for handlers.
Exit == pc = "off" /\ Restart

\* Killed, or the worker outlasted main's five seconds.
Crash == restarts < MaxRestarts /\ Restart

OllamaStops ==
    /\ up
    /\ outages < MaxOutages
    /\ up' = FALSE
    /\ outages' = outages + 1
    /\ UNCHANGED <<disk, pulled, worker, wake, stopping, client, restarts, stale, vain>>

OllamaAnswers ==
    /\ ~up
    /\ up' = TRUE
    /\ UNCHANGED <<disk, pulled, worker, wake, stopping, client, spent, stale, vain>>

-----------------------------------------------------------------------------
Run == Boot \/ ReadQueue \/ Awaken \/ Hold \/ Release \/ Stop

Process == \/ Begin \/ Register \/ Pull \/ Judge
           \/ Complete \/ Suspend \/ Abort \/ Fail \/ Resume \/ Clear

Next ==
    \/ Run \/ Process
    \/ IdleTimeout \/ Progress \/ Stall
    \/ \E c \in Clients : Handler(c) \/ HandlerGoesOn(c)
    \/ \E S \in {Ids} \cup {{id} : id \in Ids} : Delete(S)
    \/ Shutdown \/ Exit \/ Crash \/ OllamaStops \/ OllamaAnswers

Spec == Init /\ [][Next]_vars

\* The worker's own steps and what it waits for are never put off for ever; a
\* handler that has begun goes on; a pull that gets nowhere stalls; Ollama and
\* the process come back.  Nobody has to make a request, and the one-minute
\* timer need not fire: the wake-up alone has to be enough.
Fairness ==
    /\ WF_vars(Run)
    /\ WF_vars(Process)
    /\ WF_vars(Stall)
    /\ \A c \in Clients : WF_vars(HandlerGoesOn(c))
    /\ WF_vars(Exit)
    /\ WF_vars(OllamaAnswers)

FairSpec == Spec /\ Fairness

-----------------------------------------------------------------------------
(* Properties.                                                             *)

InProcess == pc \in {"register", "pull", "settle"} \cup Outcomes

\* At most one download runs, and it is the one the worker has in hand: a row
\* says "downloading" only while process has it, or until the worker of a new
\* process puts back what the last one left (RequeueInterrupted).
OneRunning ==
    /\ \A id \in Ids : rows[id].status = "downloading" =>
          \/ InProcess /\ id = job.id
          \/ pc \in {"boot", "off"}
    /\ \A i, j \in Ids :
          rows[i].status = "downloading" /\ rows[j].status = "downloading" => i = j

\* No wake-up is lost: when the worker sleeps beside a queued download, a nudge
\* is in the channel or a handler is about to leave one (Wake).
NoLostWakeup ==
    pc = "idle" /\ (\E id \in Ids : IsQueued(rows, id)) =>
        wake \/ \E c \in Clients : client[c].at = "wake"

\* The queue is served in order: whatever else is queued once the worker has
\* read a row was queued after it, also when downloads are interrupted and put
\* back, retried, and ids are used again.
FirstComeFirstServed ==
    pc = "check" \/ InProcess =>
        \A id \in Ids \ {job.id} : IsQueued(rows, id) => job.at < rows[id].at

\* "A download that loses Ollama this many times in a row without getting any
\* further is failed rather than resumed forever" (manager.go: maxAutoResumes): as
\* long as the process runs, no row is put back more often than that between two
\* pulls of its own that got further, whatever is cancelled, retried or deleted
\* meanwhile and whichever row had its id before.
ResumesBounded == \A id \in Ids : vain[id].n <= MaxResumes

\* A model is queued or downloading at most once (ErrAlreadyQueued).
NoDuplicates ==
    \A i, j \in Ids :
        {rows[i].status, rows[j].status} \subseteq Active /\ rows[i].model = rows[j].model
            => i = j

\* While a pull runs, its row says so, names the model being pulled, and has the
\* place in the queue it was picked for.
JobIsItsRow ==
    InProcess => /\ rows[job.id].status = "downloading"
                 /\ rows[job.id].model = job.model
                 /\ rows[job.id].at = job.at

\* A download recorded as completed is of a model that Ollama has pulled.
CompletedWasPulled ==
    \A id \in Ids : rows[id].status = "completed" => rows[id].model \in pulled

\* The unguarded updates (StartDownload, Cancel's FinishDownload, Retry's
\* SetDownloadModel and RequeueDownload) are the only way to break the three
\* above: they hold until one of these acts on a row that has changed since it
\* was read.
SoundUntilStale == stale \/ (NoDuplicates /\ JobIsItsRow /\ CompletedWasPulled)

\* What is promised of the table as a whole, until a stale write: QueuePromise.
Listed == [id \in Ids |-> [status |-> rows[id].status,
                           model  |-> rows[id].model,
                           at     |-> rows[id].at]]
Promise == INSTANCE QueuePromise WITH row <- Listed, broken <- stale
KeepsPromise == Promise!Spec

\* A cancel that reaches the pull before process has looked at why it ended (a
\* stall that came first keeps it from the pull) is what the row will say, unless
\* success or the app's shutdown came first: the download isn't recorded as failed,
\* and not put back, whatever comes between the cancel, the look and the write.
CancelDecides ==
    [][owed /\ pc \in Outcomes \ {"suspend"} /\ pc' = "clear" =>
          rows'[job.id].status \in {"cancelled", "completed", "none"}]_vars

\* Every download that is queued is eventually settled: however often Ollama
\* drops the connection, nothing waits for ever.
EveryDownloadSettles ==
    \A id \in Ids : rows[id].status \in Active ~> rows[id].status \notin Active

\* manager.go: "Cancel stops a download: a queued one is taken out of the queue".
CancelledIsNotPulled == pc = "pull" => rows[job.id].status # "cancelled"
=============================================================================
