------------------------ MODULE DownloadQueueProofs ------------------------
(***************************************************************************)
(* Theorems about DownloadQueue, for every set of models and handlers and  *)
(* every value of the bounds.                                              *)
(***************************************************************************)
EXTENDS DownloadQueue, TLAPS

(* Facts about the statements of DownloadStore.                            *)

Table == [Ids -> Row \cup {NoRow}]

\* Every statement leaves a table of rows.
LEMMA UpdatesTyped ==
    ASSUME NEW t \in Table, NEW id \in Ids, NEW m \in Models, NEW now \in Nat,
           NEW status \in Finished
    PROVE  /\ EnqueueDownload(t, id, m, now) \in Table
           /\ StartDownload(t, id) \in Table
           /\ FinishDownload(t, id, status) \in Table
           /\ RequeueKeepingPlace(t, id) \in Table
           /\ RequeueAtBack(t, id, now) \in Table
           /\ SetDownloadModel(t, id, m) \in Table
<1>0. t[id] \in Row \cup {NoRow}  BY DEF Table
<1>1. EnqueueDownload(t, id, m, now) \in Table
  BY DEF EnqueueDownload, Table, Row, Active
<1>2. StartDownload(t, id) \in Table
  BY <1>0 DEF StartDownload, Update, Present, Table, Row, Active
<1>3. FinishDownload(t, id, status) \in Table
  BY <1>0 DEF FinishDownload, Update, Present, Table, Row, Active
<1>4. RequeueKeepingPlace(t, id) \in Table
  BY <1>0 DEF RequeueKeepingPlace, Update, Present, Table, Row, Active
<1>5. RequeueAtBack(t, id, now) \in Table
  BY <1>0 DEF RequeueAtBack, Update, Present, Table, Row, Active
<1>6. SetDownloadModel(t, id, m) \in Table
  BY <1>0 DEF SetDownloadModel, Table, Row, NoRow, Active, Finished, Retryable
<1>7. QED  BY <1>1, <1>2, <1>3, <1>4, <1>5, <1>6

\* So does every statement on the whole table.
LEMMA SweepsTyped ==
    ASSUME NEW t \in Table, NEW S
    PROVE  RequeueInterrupted(t) \in Table /\ DeleteDownloads(t, S) \in Table
<1>1. RequeueInterrupted(t) \in Table
  <2>1. ASSUME NEW i \in Ids
        PROVE  RequeueInterrupted(t)[i] \in Row \cup {NoRow}
    BY DEF RequeueInterrupted, Table, Row, NoRow, Active
  <2>2. QED  BY <2>1 DEF RequeueInterrupted, Table
<1>2. DeleteDownloads(t, S) \in Table
  BY DEF DeleteDownloads, Table
<1>3. QED  BY <1>1, <1>2

-----------------------------------------------------------------------------
(* Type correctness.                                                       *)

JobType    == [id : Ids, model : Models, at : Nat] \cup {NoJob}
ClientType == [at : ClientSteps, id : Ids \cup {0},
               model : Models \cup {NoModel}, rename : BOOLEAN]

\* The first state has its type.
LEMMA InitTyped == Init => TypeOK
<1> SUFFICES ASSUME Init PROVE TypeOK  OBVIOUS
<1> USE DEF Init
<1>1. rows \in [Ids -> Row \cup {NoRow}] /\ pulled \in SUBSET Models  OBVIOUS
<1>2. {resumes, vain} \subseteq [Ids -> [n : Nat, reached : Nat]]  BY DEF Zero
<1>3. client \in [Clients -> ClientType]  BY DEF ClientType, AtRest, ClientSteps
<1>4. clock \in Nat /\ reached \in Nat /\ restarts \in Nat /\ outages \in Nat  OBVIOUS
<1>5. QED  BY <1>1, <1>2, <1>3, <1>4 DEF TypeOK, ClientType, NoJob, WorkerSteps

\* At these steps the worker has a row in hand.
HasJob == pc \in {"check", "register", "pull", "settle",
                  "complete", "suspend", "abort", "resume", "fail", "clear"} <=> job # NoJob

\* A handler in the middle of a request has the id of a row.
HasId == \A c \in Clients :
            client[c].at \in {"miss", "drop", "scan", "rename", "requeue"} =>
                /\ client[c].id \in Ids
                /\ client[c].at \in {"scan", "rename"} => client[c].model \in Models

Typed == TypeOK /\ HasJob /\ HasId

\* ... and nothing is in hand in it.
LEMMA InitHands == Init => HasJob /\ HasId
BY DEF Init, HasJob, HasId, AtRest, NoJob

\* The steps of Run keep the type.
LEMMA RunTyped == ASSUME Typed, Run PROVE Typed'
<1> USE DEF Typed, TypeOK, HasJob, HasId, disk, task, spent
<1>1. CASE Boot
  <2>1. rows' \in Table
    BY <1>1, SweepsTyped DEF Boot, Table
  <2>2. QED  BY <1>1, <2>1 DEF Boot, Table, WorkerSteps
<1>2. CASE ReadQueue
  <2>1. ASSUME NEW id \in Ids, IsNextQueued(rows, id)
        PROVE  rows[id] \in Row
    BY <2>1 DEF IsNextQueued, IsQueued, NoRow
  <2>2. QED  BY <1>2, <2>1, StoreAssumption DEF ReadQueue, WorkerSteps, NoJob, Row, Ids
<1>3. CASE Awaken  BY <1>3 DEF Awaken, WorkerSteps
<1>4. CASE Hold  BY <1>4 DEF Hold, WorkerSteps
<1>5. CASE Release  BY <1>5 DEF Release, WorkerSteps
<1>6. CASE Stop  BY <1>6 DEF Stop, WorkerSteps
<1>7. QED  BY <1>1, <1>2, <1>3, <1>4, <1>5, <1>6 DEF Run

\* The row in hand is a row of the table's ids.
LEMMA JobTyped == ASSUME Typed, job # NoJob PROVE job.id \in Ids /\ job.model \in Models
BY DEF Typed, TypeOK

\* ... and process has one in hand from its start.
LEMMA InHand ==
    ASSUME Typed, pc \in {"check", "clear"} \/ InProcess
    PROVE  job.id \in Ids /\ job.model \in Models
BY JobTyped DEF Typed, HasJob, InProcess, Outcomes

\* The steps that write an outcome.
Settling == Complete \/ Suspend \/ Abort \/ Fail \/ Resume

\* What they have in common.
LEMMA SettlingIs ==
    ASSUME Settling
    PROVE  /\ pc \in Outcomes /\ InProcess
           /\ pc' = "clear"
           /\ job' = job /\ clock' = clock /\ pulled' = pulled /\ stale' = stale
BY DEF Settling, Complete, Suspend, Abort, Fail, Resume, SettleAs, Outcomes, InProcess

\* Writing an outcome keeps the type ...
LEMMA SettleTyped ==
    ASSUME Typed, NEW t \in Table, NEW o \in Outcomes, SettleAs(o, t)
    PROVE  Typed'
<1>1. job.id \in Ids  BY JobTyped DEF SettleAs, Typed, HasJob, Outcomes
<1>2. {resumes', vain'} \subseteq [Ids -> [n : Nat, reached : Nat]]
  BY <1>1 DEF SettleAs, Typed, TypeOK, Zero
<1>3. TypeOK'
  BY <1>2 DEF SettleAs, Typed, TypeOK, Table, WorkerSteps, disk, task, spent
<1>4. HasJob' /\ HasId'
  BY DEF SettleAs, Typed, HasJob, HasId, Outcomes
<1>5. QED  BY <1>3, <1>4 DEF Typed

\* Once more put back, a count is still one.
LEMMA OneMoreTyped ==
    ASSUME Typed, NEW count \in [n : Nat, reached : Nat]
    PROVE  OneMore(count) \in [n : Nat, reached : Nat]
BY DEF OneMore, Typed, TypeOK

\* The look at how a pull ended decides for one of the outcomes.
LEMMA JudgeTyped == ASSUME Typed, Judge PROVE Typed' /\ pc' \in Outcomes
<1>1. pc' \in Outcomes  BY DEF Judge, Outcome, Outcomes
<1>2. job.id \in Ids  BY JobTyped DEF Judge, Typed, HasJob
<1>3. Resumed(job.id) \in [n : Nat, reached : Nat]
  BY <1>2, OneMoreTyped DEF Resumed, Typed, TypeOK
<1>4. resumes' \in [Ids -> [n : Nat, reached : Nat]]
  <2>1. resumes' = resumes \/ resumes' = [resumes EXCEPT ![job.id] = Resumed(job.id)]
    BY DEF Judge
  <2>2. QED  BY <1>2, <1>3, <2>1 DEF Typed, TypeOK
<1>5. TypeOK'
  BY <1>1, <1>4 DEF Judge, Typed, TypeOK, WorkerSteps, disk, task, spent
<1>6. HasJob' /\ HasId'
  BY <1>1 DEF Judge, Typed, HasJob, HasId, Outcomes
<1>7. QED  BY <1>1, <1>5, <1>6 DEF Typed

\* ... and so do the other steps of process.
LEMMA ProcessTyped == ASSUME Typed, Process PROVE Typed'
<1>0. rows \in Table  BY DEF Typed, TypeOK, Table
<1>1. CASE Begin
  <2>1. job.id \in Ids  BY <1>1, JobTyped DEF Begin, Typed, HasJob
  <2>2. StartDownload(rows, job.id) \in Table
    BY <1>0, <2>1 DEF StartDownload, Update, Present, Table, Row, Active
  <2>3. stale' \in BOOLEAN  BY <1>1 DEF Begin
  <2>4. QED
    BY <1>1, <2>2, <2>3
    DEF Begin, Typed, TypeOK, HasJob, HasId, Table, WorkerSteps, task, spent
<1>2. CASE Register
  <2>1. job.id \in Ids  BY <1>2, JobTyped DEF Register, Typed, HasJob
  <2>2. QED
    BY <1>2, <2>1 DEF Register, Typed, TypeOK, HasJob, HasId, WorkerSteps, disk, spent
<1>3. CASE Pull
  <2>1. job.model \in Models  BY <1>3, JobTyped DEF Pull, Typed, HasJob
  <2>2. QED
    BY <1>3, <2>1 DEF Pull, Typed, TypeOK, HasJob, HasId, WorkerSteps, disk, spent
<1>4. CASE Complete \/ Abort \/ Fail
  <2>1. job.id \in Ids
    BY <1>4, JobTyped DEF Complete, Abort, Fail, SettleAs, Typed, HasJob, Outcomes
  <2>2. ASSUME NEW s \in Finished PROVE FinishDownload(rows, job.id, s) \in Table
    BY <1>0, <2>1 DEF FinishDownload, Update, Present, Table, Row, Active
  <2>3. QED
    BY <1>4, <2>2, SettleTyped DEF Complete, Abort, Fail, Finished, Retryable, Outcomes
<1>5. CASE Suspend \/ Resume
  <2>1. job.id \in Ids
    BY <1>5, JobTyped DEF Suspend, Resume, SettleAs, Typed, HasJob, Outcomes
  <2>2. RequeueKeepingPlace(rows, job.id) \in Table
    BY <1>0, <2>1 DEF RequeueKeepingPlace, Update, Present, Table, Row, Active
  <2>3. CASE Suspend  BY <2>2, <2>3, SettleTyped DEF Suspend, Outcomes
  <2>4. CASE Resume
    <3>1. OneMore(vain[job.id]) \in [n : Nat, reached : Nat]
      BY <2>1, OneMoreTyped DEF Typed, TypeOK
    <3>2. vain' \in [Ids -> [n : Nat, reached : Nat]]
      BY <2>1, <2>4, <3>1 DEF Resume, Typed, TypeOK
    <3>3. TypeOK'
      BY <2>2, <2>4, <3>2 DEF Resume, Typed, TypeOK, Table, WorkerSteps, task, spent
    <3>4. HasJob' /\ HasId'
      BY <2>4 DEF Resume, Typed, HasJob, HasId
    <3>5. QED  BY <3>3, <3>4 DEF Typed
  <2>5. QED  BY <1>5, <2>3, <2>4
<1>6. CASE Clear
  BY <1>6 DEF Clear, Typed, TypeOK, HasJob, HasId, WorkerSteps, NoJob, disk, spent
<1>7. CASE Judge  BY <1>7, JudgeTyped
<1>8. QED  BY <1>1, <1>2, <1>3, <1>4, <1>5, <1>6, <1>7 DEF Process

\* A handler that goes on to a well-formed step leaves the handlers typed.
LEMMA GoOnTyped ==
    ASSUME Typed, NEW c \in Clients, NEW step \in ClientType, GoOn(c, step),
           step.at \in {"miss", "drop", "scan", "rename", "requeue"} => step.id \in Ids,
           step.at \in {"scan", "rename"} => step.model \in Models
    PROVE  client' \in [Clients -> ClientType] /\ HasId'
BY DEF GoOn, Typed, TypeOK, HasId, ClientType

\* The two resting forms of a handler are well-formed.
LEMMA AtRestTyped == \A at \in {"rest", "wake"} : [AtRest EXCEPT !.at = at] \in ClientType
BY DEF AtRest, ClientType, ClientSteps

\* The first step of a request keeps the type ...
LEMMA HandlerTyped == ASSUME Typed, NEW c \in Clients, Handler(c) PROVE Typed'
<1> USE DEF ClientType
<1>0. rows \in Table /\ clock \in Nat  BY DEF Typed, TypeOK, Table
<1>1. ASSUME NEW m \in Models, Enqueue(c, m) PROVE Typed'
  <2>1. rows' \in Table
    <3>1. PICK id \in Ids : rows' = EnqueueDownload(rows, id, m, clock)  BY <1>1 DEF Enqueue
    <3>2. QED  BY <1>0, <3>1 DEF EnqueueDownload, Table, Row, Active
  <2>2. client' \in [Clients -> ClientType] /\ HasId'
    BY <1>1, GoOnTyped, AtRestTyped DEF Enqueue, AtRest, ClientSteps
  <2>3. QED
    BY <1>1, <2>1, <2>2 DEF Enqueue, Typed, TypeOK, HasJob, Table, worker, spent
<1>2. ASSUME NEW id \in Ids, CancelRunning(c, id) PROVE Typed'
  BY <1>2 DEF CancelRunning, Typed, TypeOK, HasJob, HasId, disk, spent
<1>3. ASSUME NEW id \in Ids, CancelOther(c, id) PROVE Typed'
  <2>1. client' \in [Clients -> ClientType] /\ HasId'
    BY <1>3, GoOnTyped DEF CancelOther, AtRest, ClientSteps
  <2>2. QED
    BY <1>3, <2>1 DEF CancelOther, Typed, TypeOK, HasJob, disk, worker, spent
<1>4. ASSUME NEW id \in Ids, NEW m \in Models, RetryRead(c, id, m) PROVE Typed'
  <2>1. client' \in [Clients -> ClientType] /\ HasId'
    BY <1>4, GoOnTyped DEF RetryRead, ClientSteps
  <2>2. QED
    BY <1>4, <2>1 DEF RetryRead, Typed, TypeOK, HasJob, disk, worker, spent
<1>5. QED  BY <1>1, <1>2, <1>3, <1>4 DEF Handler

\* ... and so do the steps that follow.
LEMMA HandlerGoesOnTyped ==
    ASSUME Typed, NEW c \in Clients, HandlerGoesOn(c) PROVE Typed'
<1> USE DEF ClientType
<1>0. rows \in Table /\ clock \in Nat /\ client[c] \in ClientType
  BY DEF Typed, TypeOK, Table
<1>r. AtRest \in ClientType  BY DEF AtRest, ClientSteps
<1>1. CASE Wake(c)
  <2>1. client' \in [Clients -> ClientType] /\ HasId'
    BY <1>1, <1>r, GoOnTyped DEF Wake, AtRest
  <2>2. QED  BY <1>1, <2>1 DEF Wake, Typed, TypeOK, HasJob, disk, worker, spent
<1>2. CASE CancelRead(c)
  <2>1. client[c].id \in Ids  BY <1>2 DEF CancelRead, Typed, HasId
  <2>2. client' \in [Clients -> ClientType] /\ HasId'
    BY <1>0, <1>2, <1>r, <2>1, GoOnTyped DEF CancelRead, AtRest, ClientSteps
  <2>3. QED  BY <1>2, <2>2 DEF CancelRead, Typed, TypeOK, HasJob, disk, worker, spent
<1>3. CASE CancelDrop(c)
  <2>1. client[c].id \in Ids  BY <1>3 DEF CancelDrop, Typed, HasId
  <2>2. rows' \in Table
    BY <1>0, <1>3, <2>1
    DEF CancelDrop, FinishDownload, Update, Present, Table, Row, Finished, Retryable
  <2>3. client' \in [Clients -> ClientType] /\ HasId'
    BY <1>3, <1>r, GoOnTyped DEF CancelDrop, AtRest
  <2>4. stale' \in BOOLEAN  BY <1>3 DEF CancelDrop
  <2>5. QED
    BY <1>3, <2>2, <2>3, <2>4 DEF CancelDrop, Typed, TypeOK, HasJob, Table, worker, spent
<1>4. CASE RetryScan(c)
  <2>1. client[c].id \in Ids /\ client[c].model \in Models
    BY <1>4 DEF RetryScan, Typed, HasId
  <2>2. client' \in [Clients -> ClientType] /\ HasId'
    BY <1>0, <1>4, <1>r, <2>1, GoOnTyped DEF RetryScan, AtRest, ClientSteps
  <2>3. QED  BY <1>4, <2>2 DEF RetryScan, Typed, TypeOK, HasJob, disk, worker, spent
<1>5. CASE RetryRename(c)
  <2>1. client[c].id \in Ids /\ client[c].model \in Models
    BY <1>5 DEF RetryRename, Typed, HasId
  <2>2. rows' \in Table
    BY <1>0, <1>5, <2>1
    DEF RetryRename, SetDownloadModel, Table, Row, NoRow, Active, Finished, Retryable
  <2>3. client' \in [Clients -> ClientType] /\ HasId'
    BY <1>0, <1>5, <2>1, GoOnTyped DEF RetryRename, ClientSteps
  <2>4. stale' \in BOOLEAN  BY <1>5 DEF RetryRename
  <2>5. QED
    BY <1>5, <2>2, <2>3, <2>4 DEF RetryRename, Typed, TypeOK, HasJob, Table, worker, spent
<1>6. CASE RetryRequeue(c)
  <2>1. client[c].id \in Ids  BY <1>6 DEF RetryRequeue, Typed, HasId
  <2>2. rows' \in Table
    BY <1>0, <1>6, <2>1 DEF RetryRequeue, RequeueAtBack, Update, Present, Table, Row, Active
  <2>3. client' \in [Clients -> ClientType] /\ HasId'
    BY <1>6, GoOnTyped, AtRestTyped DEF RetryRequeue, AtRest, ClientSteps
  <2>4. stale' \in BOOLEAN  BY <1>6 DEF RetryRequeue
  <2>5. QED
    BY <1>0, <1>6, <2>2, <2>3, <2>4
    DEF RetryRequeue, Typed, TypeOK, HasJob, Table, worker, spent
<1>7. CASE Disconnect(c)
  <2>1. client' \in [Clients -> ClientType] /\ HasId'
    BY <1>7, <1>r, GoOnTyped DEF Disconnect, AtRest
  <2>2. QED  BY <1>7, <2>1 DEF Disconnect, Typed, TypeOK, HasJob, disk, worker, spent
<1>8. QED  BY <1>1, <1>2, <1>3, <1>4, <1>5, <1>6, <1>7 DEF HandlerGoesOn

\* Steps of no handler: the timers, Ollama, deletions, the process.
Elsewhere == \/ IdleTimeout \/ Progress \/ Stall
             \/ \E S \in {Ids} \cup {{id} : id \in Ids} : Delete(S)
             \/ Shutdown \/ Exit \/ Crash \/ OllamaStops \/ OllamaAnswers

\* So do the steps of nobody in particular.
LEMMA ElsewhereTyped == ASSUME Typed, Elsewhere PROVE Typed'
<1> USE DEF Typed, HasJob, HasId
<1>1. CASE IdleTimeout  BY <1>1 DEF IdleTimeout, TypeOK, WorkerSteps, disk, task, spent
<1>2. CASE Progress
  <2>1. reached' \in Nat  BY <1>2, QueueAssumption DEF Progress, TypeOK
  <2>2. QED  BY <1>2, <2>1 DEF Progress, TypeOK, disk, spent
<1>3. CASE Stall  BY <1>3 DEF Stall, TypeOK, disk, spent
<1>4. ASSUME NEW S, Delete(S) PROVE Typed'
  <2>1. rows' \in Table  BY <1>4, SweepsTyped DEF Delete, TypeOK, Table
  <2>2. vain' \in [Ids -> [n : Nat, reached : Nat]]  BY <1>4 DEF Delete, TypeOK, Zero
  <2>3. QED  BY <1>4, <2>1, <2>2 DEF Delete, TypeOK, Table, worker, spent
<1>5. CASE Shutdown  BY <1>5 DEF Shutdown, TypeOK, disk, worker, spent
<1>6. CASE Restart
  <2>1. {resumes', vain'} \subseteq [Ids -> [n : Nat, reached : Nat]]  BY <1>6 DEF Restart, Zero
  <2>2. client' \in [Clients -> ClientType] /\ HasId'
    BY <1>6 DEF Restart, ClientType, ClientSteps, AtRest
  <2>3. restarts' \in Nat /\ reached' \in Nat  BY <1>6 DEF Restart, TypeOK
  <2>4. QED
    BY <1>6, <2>1, <2>2, <2>3 DEF Restart, TypeOK, ClientType, WorkerSteps, disk
<1>7. CASE OllamaStops
  <2>1. outages' \in Nat  BY <1>7 DEF OllamaStops, TypeOK
  <2>2. /\ UNCHANGED <<rows, clock, pulled, pc, job, cancelID, cause, reached, result>>
        /\ UNCHANGED <<resumes, wake, stopping, client, restarts, stale, owed, vain>>
        /\ up' = FALSE
    BY <1>7 DEF OllamaStops, disk, worker
  <2>3. TypeOK'  BY <2>1, <2>2 DEF TypeOK
  <2>4. HasJob' /\ HasId'  BY <2>2
  <2>5. QED  BY <2>3, <2>4
<1>8. CASE OllamaAnswers  BY <1>8 DEF OllamaAnswers, TypeOK, disk, worker, spent
<1>9. QED
  BY <1>1, <1>2, <1>3, <1>4, <1>5, <1>6, <1>7, <1>8 DEF Elsewhere, Exit, Crash

\* Every step keeps the type.
LEMMA StepTyped == Typed /\ [Next]_vars => Typed'
<1> SUFFICES ASSUME Typed, [Next]_vars PROVE Typed'  OBVIOUS
<1>1. CASE Run  BY <1>1, RunTyped
<1>2. CASE Process  BY <1>2, ProcessTyped
<1>3. ASSUME NEW c \in Clients, Handler(c) PROVE Typed'  BY <1>3, HandlerTyped
<1>4. ASSUME NEW c \in Clients, HandlerGoesOn(c) PROVE Typed'  BY <1>4, HandlerGoesOnTyped
<1>5. CASE Elsewhere  BY <1>5, ElsewhereTyped
<1>6. CASE UNCHANGED vars  BY <1>6 DEF vars, Typed, TypeOK, HasJob, HasId
<1>7. QED  BY <1>1, <1>2, <1>3, <1>4, <1>5, <1>6 DEF Next, Elsewhere

\* Typed is an inductive invariant.
LEMMA AlwaysTyped == Spec => []Typed
<1>1. Init => Typed  BY InitTyped, InitHands DEF Typed
<1>2. QED  BY <1>1, StepTyped, PTL DEF Spec

\* The state of the queue always has its type.
THEOREM TypeCorrect == Spec => []TypeOK
<1>1. Typed => TypeOK  BY DEF Typed
<1>2. QED  BY <1>1, AlwaysTyped, PTL

-----------------------------------------------------------------------------
(* What each statement does to one row of the table.                       *)

\* An update changes the row it names, if that is there.
LEMMA UpdateEffect ==
    ASSUME NEW t \in Table, NEW id \in Ids, NEW row, NEW i \in Ids
    PROVE  Update(t, id, row)[i] = IF i = id /\ t[i] # NoRow THEN row ELSE t[i]
BY DEF Update, Present, Table

\* StartDownload changes a status alone.
LEMMA StartEffect ==
    ASSUME NEW t \in Table, NEW id \in Ids, NEW i \in Ids
    PROVE  /\ StartDownload(t, id)[i].status =
                  IF i = id /\ t[i] # NoRow THEN "downloading" ELSE t[i].status
           /\ StartDownload(t, id)[i].model = t[i].model
           /\ StartDownload(t, id)[i].at = t[i].at
BY UpdateEffect DEF StartDownload

\* FinishDownload changes a status alone.
LEMMA FinishEffect ==
    ASSUME NEW t \in Table, NEW id \in Ids, NEW i \in Ids, NEW status
    PROVE  /\ FinishDownload(t, id, status)[i].status =
                  IF i = id /\ t[i] # NoRow THEN status ELSE t[i].status
           /\ FinishDownload(t, id, status)[i].model = t[i].model
           /\ FinishDownload(t, id, status)[i].at = t[i].at
<1>1. t[i] # NoRow => t[i] \in Row  BY DEF Table
<1>2. QED  BY <1>1, UpdateEffect DEF FinishDownload, Row

\* An interrupted download is requeued under its old stamp.
LEMMA KeepEffect ==
    ASSUME NEW t \in Table, NEW id \in Ids, NEW i \in Ids
    PROVE  /\ RequeueKeepingPlace(t, id)[i].status =
                  IF i = id /\ t[i] # NoRow THEN "queued" ELSE t[i].status
           /\ RequeueKeepingPlace(t, id)[i].model = t[i].model
           /\ RequeueKeepingPlace(t, id)[i].at = t[i].at
<1>1. t[i] # NoRow => t[i] \in Row  BY DEF Table
<1>2. QED  BY <1>1, UpdateEffect DEF RequeueKeepingPlace, Row

\* A retried one is requeued under a new stamp.
LEMMA BackEffect ==
    ASSUME NEW t \in Table, NEW id \in Ids, NEW i \in Ids, NEW now
    PROVE  /\ RequeueAtBack(t, id, now)[i].status =
                  IF i = id /\ t[i] # NoRow THEN "queued" ELSE t[i].status
           /\ RequeueAtBack(t, id, now)[i].model = t[i].model
           /\ RequeueAtBack(t, id, now)[i].at =
                  IF i = id /\ t[i] # NoRow THEN now ELSE t[i].at
BY UpdateEffect DEF RequeueAtBack

\* Only a finished row takes another model.
LEMMA RenameEffect ==
    ASSUME NEW t \in Table, NEW id \in Ids, NEW i \in Ids, NEW m
    PROVE  /\ SetDownloadModel(t, id, m)[i].status = t[i].status
           /\ SetDownloadModel(t, id, m)[i].model =
                  IF i = id /\ t[i].status \in Finished THEN m ELSE t[i].model
           /\ SetDownloadModel(t, id, m)[i].at = t[i].at
<1>1. t[i] \in Row \/ t[i] = NoRow  BY DEF Table
<1>2. QED  BY <1>1 DEF SetDownloadModel, Table, Row, NoRow

\* A new row is queued, for its model, under a new stamp.
LEMMA EnqueueEffect ==
    ASSUME NEW t \in Table, NEW id \in Ids, NEW i \in Ids, NEW m, NEW now
    PROVE  /\ EnqueueDownload(t, id, m, now)[i].status =
                  IF i = id THEN "queued" ELSE t[i].status
           /\ EnqueueDownload(t, id, m, now)[i].model = IF i = id THEN m ELSE t[i].model
           /\ EnqueueDownload(t, id, m, now)[i].at = IF i = id THEN now ELSE t[i].at
BY DEF EnqueueDownload, Table

\* The sweep at boot requeues what was downloading, stamps unchanged.
LEMMA InterruptedEffect ==
    ASSUME NEW t \in Table, NEW i \in Ids
    PROVE  /\ RequeueInterrupted(t)[i].status =
                  IF t[i].status = "downloading" THEN "queued" ELSE t[i].status
           /\ RequeueInterrupted(t)[i].model = t[i].model
           /\ RequeueInterrupted(t)[i].at = t[i].at
<1>1. t[i] \in Row \/ t[i] = NoRow  BY DEF Table
<1>2. QED  BY <1>1 DEF RequeueInterrupted, Row, NoRow

\* Only finished rows are deleted.
LEMMA DeleteEffect ==
    ASSUME NEW t \in Table, NEW S, NEW i \in Ids
    PROVE  DeleteDownloads(t, S)[i] =
              IF i \in S /\ t[i].status \in Finished THEN NoRow ELSE t[i]
BY DEF DeleteDownloads

\* A row is there exactly when it has a status of its own.
LEMMA PresentStatus ==
    ASSUME NEW t \in Table, NEW i \in Ids
    PROVE  t[i] # NoRow <=> t[i].status # "none"
BY DEF Table, Row, NoRow, Active, Finished, Retryable

-----------------------------------------------------------------------------
(* The inductive invariant.                                                *)

\* A row that says "downloading" is the worker's: the steps of the worker.
LEMMA WorkerOneRunning == ASSUME Typed, OneRunning, Run \/ Process PROVE OneRunning'
<1> USE DEF OneRunning, InProcess
<1>0. rows \in Table  BY DEF Typed, TypeOK, Table
<1>1. CASE Boot  BY <1>1 DEF Boot, RequeueInterrupted
<1>2. CASE ReadQueue \/ Awaken \/ Hold \/ Release \/ Stop
  BY <1>2 DEF ReadQueue, Awaken, Hold, Release, Stop, Outcomes, disk
<1>3. CASE Begin
  <2>1. job.id \in Ids  BY <1>3, JobTyped DEF Begin, Typed, HasJob
  <2>2. QED  BY <1>0, <1>3, <2>1, StartEffect DEF Begin
<1>4. CASE Register \/ Pull  BY <1>4 DEF Register, Pull, disk
<1>5. CASE Settling
  <2>1. pc \in Outcomes /\ job.id \in Ids  BY <1>5, SettlingIs, InHand
  <2>2. ASSUME NEW id \in Ids PROVE rows'[id].status # "downloading"
    <3>1. rows'[id].status = "downloading" => rows[id].status = "downloading" /\ id # job.id
      BY <1>0, <1>5, <2>1, FinishEffect, KeepEffect
      DEF Settling, Complete, Suspend, Abort, Fail, Resume, SettleAs, NoRow
    <3>2. pc \notin {"boot", "off"}  BY <2>1 DEF Outcomes
    <3>3. QED  BY <3>1, <3>2
  <2>3. QED  BY <2>2
<1>6. CASE Clear  BY <1>6 DEF Clear, Outcomes, disk
<1>7. CASE Judge  BY <1>7, JudgeTyped DEF Judge, Outcomes, disk
<1>8. QED
  BY <1>1, <1>2, <1>3, <1>4, <1>5, <1>6, <1>7 DEF Run, Process, Settling

\* ... and of everyone else: no handler marks a row "downloading".
LEMMA OthersOneRunning ==
    ASSUME Typed, OneRunning,
           Elsewhere \/ \E c \in Clients : Handler(c) \/ HandlerGoesOn(c)
    PROVE  OneRunning'
<1> USE DEF OneRunning, InProcess
<1>0. rows \in Table /\ rows' \in Table
  BY ElsewhereTyped, HandlerTyped, HandlerGoesOnTyped DEF Typed, TypeOK, Table
<1>1. CASE Elsewhere
  <2>1. ASSUME NEW S, Delete(S) PROVE OneRunning'
    BY <1>0, <2>1, DeleteEffect DEF Delete, worker, NoRow
  <2>2. CASE Exit \/ Crash  BY <2>2 DEF Exit, Crash, Restart, disk
  <2>3. CASE IdleTimeout \/ Progress \/ Stall \/ Shutdown \/ OllamaStops \/ OllamaAnswers
    BY <2>3
    DEF IdleTimeout, Progress, Stall, Shutdown, OllamaStops, OllamaAnswers, Outcomes, disk,
        worker
  <2>4. QED  BY <1>1, <2>1, <2>2, <2>3 DEF Elsewhere
<1>2. ASSUME NEW c \in Clients, Handler(c) PROVE OneRunning'
  <2>1. ASSUME NEW m \in Models, Enqueue(c, m) PROVE OneRunning'
    <3>1. PICK id \in Ids : rows' = EnqueueDownload(rows, id, m, clock)
      BY <2>1 DEF Enqueue
    <3>2. ASSUME NEW i \in Ids, rows'[i].status = "downloading"
          PROVE  rows[i].status = "downloading"
      BY <1>0, <3>1, <3>2, EnqueueEffect
    <3>3. QED  BY <2>1, <3>2 DEF Enqueue, worker
  <2>2. ASSUME NEW id \in Ids, CancelRunning(c, id) \/ CancelOther(c, id) PROVE OneRunning'
    BY <2>2 DEF CancelRunning, CancelOther, disk, worker
  <2>3. ASSUME NEW id \in Ids, NEW m \in Models, RetryRead(c, id, m) PROVE OneRunning'
    BY <2>3 DEF RetryRead, disk, worker
  <2>4. QED  BY <1>2, <2>1, <2>2, <2>3 DEF Handler
<1>3. ASSUME NEW c \in Clients, HandlerGoesOn(c) PROVE OneRunning'
  <2>1. CASE Wake(c) \/ CancelRead(c) \/ RetryScan(c) \/ Disconnect(c)
    BY <2>1 DEF Wake, CancelRead, RetryScan, Disconnect, disk, worker
  <2>2. CASE CancelDrop(c)
    <3>1. client[c].id \in Ids  BY <2>2 DEF CancelDrop, Typed, HasId
    <3>2. QED  BY <1>0, <2>2, <3>1, FinishEffect DEF CancelDrop, worker
  <2>3. CASE RetryRename(c)
    <3>1. client[c].id \in Ids  BY <2>3 DEF RetryRename, Typed, HasId
    <3>2. QED  BY <1>0, <2>3, <3>1, RenameEffect DEF RetryRename, worker
  <2>4. CASE RetryRequeue(c)
    <3>1. client[c].id \in Ids  BY <2>4 DEF RetryRequeue, Typed, HasId
    <3>2. QED  BY <1>0, <2>4, <3>1, BackEffect DEF RetryRequeue, worker
  <2>5. QED  BY <1>3, <2>1, <2>2, <2>3, <2>4 DEF HandlerGoesOn
<1>4. QED  BY <1>1, <1>2, <1>3

\* At most one download runs, and it is the worker's.
THEOREM OneDownloadRuns == Spec => []OneRunning
<1>1. Init => OneRunning  BY DEF Init, OneRunning, NoRow
<1>2. Typed /\ OneRunning /\ [Next]_vars => OneRunning'
  <2>1. CASE UNCHANGED vars  BY <2>1 DEF vars, OneRunning, InProcess
  <2>2. QED
    BY <2>1, WorkerOneRunning, OthersOneRunning DEF Next, Elsewhere
<1>3. QED  BY <1>1, <1>2, AlwaysTyped, PTL DEF Spec

-----------------------------------------------------------------------------
(* Order, wake-ups and soundness.                                          *)

\* The clock is ahead of every stamp, and no two rows share one.
Stamps ==
    /\ job.at < clock
    /\ \A i \in Ids : rows[i].at < clock
    /\ \A i, j \in Ids :
          i # j /\ Present(rows, i) /\ Present(rows, j) => rows[i].at # rows[j].at

\* A pull that returned "success" has pulled its model.
SuccessPulled ==
    pc = "complete" \/ (pc = "settle" /\ result = "ok") => job.model \in pulled

Sound == NoDuplicates /\ JobIsItsRow /\ CompletedWasPulled

Ordered == Stamps /\ FirstComeFirstServed

\* The steps of Run keep the order.
LEMMA RunOrdered == ASSUME Typed, Ordered, Run PROVE Ordered'
<1> USE DEF Ordered, Stamps, FirstComeFirstServed, InProcess, Outcomes
<1>0. rows \in Table  BY DEF Typed, TypeOK, Table
<1>1. CASE Boot
  <2>1. \A i \in Ids : Present(rows', i) => Present(rows, i)
    BY <1>0, <1>1, InterruptedEffect DEF Boot, Present, RequeueInterrupted, NoRow
  <2>2. QED  BY <1>0, <1>1, <2>1, InterruptedEffect DEF Boot
<1>2. CASE ReadQueue
  <2>1. CASE pc' = "idle"  BY <1>2, <2>1 DEF ReadQueue, disk
  <2>2. ASSUME NEW id \in Ids, IsNextQueued(rows, id),
               job' = [id |-> id, model |-> rows[id].model, at |-> rows[id].at]
        PROVE  Ordered'
    <3>1. \A i \in Ids : IsQueued(rows, i) => Present(rows, i)
      BY DEF IsQueued, Present, NoRow
    <3>2. ASSUME NEW i \in Ids \ {id}, IsQueued(rows, i) PROVE rows[id].at < rows[i].at
      <4>1. rows[id].at \in Nat /\ rows[i].at \in Nat
        BY <1>0 DEF Table, Row, NoRow
      <4>2. rows[id].at # rows[i].at
        BY <2>2, <3>1, <3>2 DEF IsNextQueued
      <4>3. QED  BY <2>2, <3>2, <4>1, <4>2 DEF IsNextQueued
    <3>3. QED  BY <1>2, <2>2, <3>2 DEF ReadQueue, disk, IsQueued
  <2>3. QED  BY <1>2, <2>1, <2>2 DEF ReadQueue
<1>3. CASE Awaken  BY <1>3 DEF Awaken, disk
<1>4. CASE Hold  BY <1>4, <1>0 DEF Hold, disk, NoJob, Typed, TypeOK
<1>5. CASE Release  BY <1>5 DEF Release, disk
<1>6. CASE Stop  BY <1>6, <1>0 DEF Stop, disk, NoJob, Typed, TypeOK
<1>7. QED  BY <1>1, <1>2, <1>3, <1>4, <1>5, <1>6 DEF Run

\* A step that leaves every stamp alone, brings no row back and queues nothing
\* but the row in hand disturbs no order.
LEMMA QuietOrdered ==
    ASSUME Typed, Ordered, Typed', clock' = clock, job' = job,
           \A i \in Ids : Present(rows', i) => Present(rows, i),
           \A i \in Ids : Present(rows', i) => rows'[i].at = rows[i].at,
           \A i \in Ids \ {job.id} : IsQueued(rows', i) => IsQueued(rows, i),
           pc' = "check" \/ InProcess' => pc = "check" \/ InProcess
    PROVE  Ordered'
<1>0. rows \in Table /\ rows' \in Table /\ clock \in Nat  BY DEF Typed, TypeOK, Table
<1>1. \A i \in Ids : IsQueued(rows', i) => Present(rows', i)
  BY DEF IsQueued, Present, NoRow
<1>2. \A i \in Ids : ~Present(rows', i) => rows'[i].at = 0
  BY DEF Present, NoRow
<1>3. job.at \in Nat  BY DEF Typed, TypeOK, NoJob
<1>4. Stamps'
  BY <1>0, <1>2, <1>3 DEF Ordered, Stamps
<1>5. FirstComeFirstServed'
  BY <1>1 DEF Ordered, FirstComeFirstServed
<1>6. QED  BY <1>4, <1>5 DEF Ordered

\* The steps of process keep the order.
LEMMA ProcessOrdered == ASSUME Typed, Ordered, Process PROVE Ordered'
<1>0. rows \in Table /\ rows' \in Table /\ Typed'
  BY ProcessTyped DEF Typed, TypeOK, Table
<1> USE DEF Present, IsQueued
<1>1. CASE Begin
  BY <1>0, <1>1, InHand, StartEffect, PresentStatus, QuietOrdered DEF Begin, InProcess
<1>2. CASE Register \/ Pull
  BY <1>0, <1>2, QuietOrdered DEF Register, Pull, InProcess, disk
<1>3. CASE Complete \/ Abort \/ Fail
  <2>1. PICK s \in Finished : rows' = FinishDownload(rows, job.id, s)
    BY <1>3 DEF Complete, Abort, Fail, SettleAs, Finished, Retryable
  <2>2. InProcess /\ clock' = clock /\ job' = job  BY <1>3, SettlingIs DEF Settling
  <2>3. s # "queued"  BY DEF Finished, Retryable
  <2>4. QED
    BY <1>0, <2>1, <2>2, <2>3, InHand, FinishEffect, PresentStatus, QuietOrdered
<1>4. CASE Suspend \/ Resume
  <2>1. rows' = RequeueKeepingPlace(rows, job.id)
    BY <1>4 DEF Suspend, Resume, SettleAs
  <2>2. InProcess /\ clock' = clock /\ job' = job  BY <1>4, SettlingIs DEF Settling
  <2>3. QED
    BY <1>0, <2>1, <2>2, InHand, KeepEffect, PresentStatus, QuietOrdered
<1>5. CASE Clear
  BY <1>0, <1>5
  DEF Clear, Ordered, Stamps, FirstComeFirstServed, InProcess, Outcomes, NoJob, disk,
      Typed, TypeOK
<1>6. CASE Judge
  BY <1>0, <1>6, QuietOrdered DEF Judge, InProcess, disk
<1>7. QED  BY <1>1, <1>2, <1>3, <1>4, <1>5, <1>6 DEF Process

\* A row that is queued at the back gets a stamp of its own.
LEMMA BackOrdered ==
    ASSUME Typed, Ordered, Typed', clock' = clock + 1, job' = job, pc' = pc, NEW id \in Ids,
           \A i \in Ids \ {id} : rows'[i] = rows[i],
           rows'[id].at \in {clock, rows[id].at},
           rows'[id].at = rows[id].at => ~Present(rows', id)
    PROVE  Ordered'
<1>0. rows \in Table /\ rows' \in Table /\ clock \in Nat /\ job.at \in Nat
  BY DEF Typed, TypeOK, Table, NoJob
<1>1. \A i \in Ids : rows[i].at \in Nat /\ rows'[i].at \in Nat
  BY <1>0 DEF Table, Row, NoRow
<1>2. ~Present(rows', id) => rows'[id].at = 0 /\ ~IsQueued(rows', id)
  BY DEF Present, NoRow, IsQueued
<1>3. Stamps'
  BY <1>0, <1>1, <1>2 DEF Ordered, Stamps, Present
<1>4. FirstComeFirstServed'
  BY <1>0, <1>1, <1>2 DEF Ordered, Stamps, FirstComeFirstServed, InProcess, IsQueued
<1>5. QED  BY <1>3, <1>4 DEF Ordered

\* Handlers and the rest keep the order.
LEMMA OthersOrdered ==
    ASSUME Typed, Ordered,
           Elsewhere \/ \E c \in Clients : Handler(c) \/ HandlerGoesOn(c)
    PROVE  Ordered'
<1>0. rows \in Table /\ rows' \in Table /\ Typed'
  BY ElsewhereTyped, HandlerTyped, HandlerGoesOnTyped DEF Typed, TypeOK, Table
<1> USE DEF Present, IsQueued
<1>q. ASSUME rows' = rows, clock' = clock, job' = job, pc' = pc PROVE Ordered'
  BY <1>0, <1>q, QuietOrdered DEF InProcess
<1>1. CASE Elsewhere
  <2>1. ASSUME NEW S, Delete(S) PROVE Ordered'
    <3>1. \A i \in Ids : rows'[i] = rows[i] \/ rows'[i] = NoRow
      BY <1>0, <2>1, DeleteEffect DEF Delete
    <3>2. NoRow.status # "queued"  BY DEF NoRow
    <3>3. clock' = clock /\ job' = job /\ pc' = pc  BY <2>1 DEF Delete, worker
    <3>4. QED  BY <1>0, <3>1, <3>2, <3>3, QuietOrdered DEF InProcess
  <2>2. CASE Exit \/ Crash
    BY <1>0, <2>2
    DEF Exit, Crash, Restart, Ordered, Stamps, FirstComeFirstServed, InProcess, Outcomes,
        NoJob, disk, Typed, TypeOK
  <2>3. CASE IdleTimeout
    BY <2>3
    DEF IdleTimeout, Ordered, Stamps, FirstComeFirstServed, InProcess, Outcomes, disk
  <2>4. CASE Progress \/ Stall \/ Shutdown \/ OllamaStops \/ OllamaAnswers
    BY <1>q, <2>4 DEF Progress, Stall, Shutdown, OllamaStops, OllamaAnswers, disk, worker
  <2>5. QED  BY <1>1, <2>1, <2>2, <2>3, <2>4 DEF Elsewhere
<1>2. ASSUME NEW c \in Clients, Handler(c) PROVE Ordered'
  <2>1. ASSUME NEW m \in Models, Enqueue(c, m) PROVE Ordered'
    <3>1. PICK id \in Ids : rows' = EnqueueDownload(rows, id, m, clock)
      BY <2>1 DEF Enqueue
    <3>2. /\ \A i \in Ids \ {id} : rows'[i] = rows[i]
          /\ rows'[id].at = clock
      BY <1>0, <3>1 DEF EnqueueDownload, Table
    <3>3. clock \in Nat /\ rows[id].at < clock  BY DEF Typed, TypeOK, Ordered, Stamps
    <3>4. rows[id].at \in Nat  BY <1>0 DEF Table, Row, NoRow
    <3>5. QED  BY <1>0, <2>1, <3>2, <3>3, <3>4, BackOrdered DEF Enqueue, worker
  <2>2. ASSUME NEW id \in Ids, CancelRunning(c, id) \/ CancelOther(c, id) PROVE Ordered'
    BY <1>q, <2>2 DEF CancelRunning, CancelOther, disk, worker
  <2>3. ASSUME NEW id \in Ids, NEW m \in Models, RetryRead(c, id, m) PROVE Ordered'
    BY <1>q, <2>3 DEF RetryRead, disk, worker
  <2>4. QED  BY <1>2, <2>1, <2>2, <2>3 DEF Handler
<1>3. ASSUME NEW c \in Clients, HandlerGoesOn(c) PROVE Ordered'
  <2>1. CASE Wake(c) \/ CancelRead(c) \/ RetryScan(c) \/ Disconnect(c)
    BY <1>q, <2>1 DEF Wake, CancelRead, RetryScan, Disconnect, disk, worker
  <2>2. CASE CancelDrop(c)
    <3>1. client[c].id \in Ids  BY <2>2 DEF CancelDrop, Typed, HasId
    <3>2. QED
      BY <1>0, <2>2, <3>1, FinishEffect, PresentStatus, QuietOrdered
      DEF CancelDrop, worker, InProcess
  <2>3. CASE RetryRename(c)
    <3>1. client[c].id \in Ids  BY <2>3 DEF RetryRename, Typed, HasId
    <3>2. QED
      BY <1>0, <2>3, <3>1, RenameEffect, PresentStatus, QuietOrdered
      DEF RetryRename, worker, InProcess
  <2>4. CASE RetryRequeue(c)
    <3>1. client[c].id \in Ids  BY <2>4 DEF RetryRequeue, Typed, HasId
    <3>2. rows' = RequeueAtBack(rows, client[c].id, clock)  BY <2>4 DEF RetryRequeue
    <3>3. /\ \A i \in Ids \ {client[c].id} : rows'[i] = rows[i]
          /\ rows'[client[c].id].at = IF Present(rows, client[c].id) THEN clock
                                      ELSE rows[client[c].id].at
          /\ ~Present(rows, client[c].id) => ~Present(rows', client[c].id)
      BY <1>0, <3>1, <3>2, UpdateEffect, BackEffect DEF RequeueAtBack
    <3>4. clock \in Nat /\ rows[client[c].id].at < clock
      BY <3>1 DEF Typed, TypeOK, Ordered, Stamps
    <3>5. rows[client[c].id].at \in Nat  BY <1>0, <3>1 DEF Table, Row, NoRow
    <3>6. QED
      BY <1>0, <2>4, <3>1, <3>3, <3>4, <3>5, BackOrdered DEF RetryRequeue, worker
  <2>5. QED  BY <1>3, <2>1, <2>2, <2>3, <2>4 DEF HandlerGoesOn
<1>4. QED  BY <1>1, <1>2, <1>3

\* Ordered, which adds the stamps' uniqueness, is inductive.
LEMMA AlwaysOrdered == Spec => []Ordered
<1>1. Init => Ordered
  BY DEF Init, Ordered, Stamps, FirstComeFirstServed, InProcess, Outcomes, NoJob, NoRow,
         Present
<1>2. Typed /\ Ordered /\ [Next]_vars => Ordered'
  <2>1. CASE UNCHANGED vars
    BY <2>1 DEF vars, Ordered, Stamps, FirstComeFirstServed, InProcess
  <2>2. QED
    BY <2>1, RunOrdered, ProcessOrdered, OthersOrdered DEF Next, Elsewhere
<1>3. QED  BY <1>1, <1>2, AlwaysTyped, PTL DEF Spec

\* The queue is served in order.
THEOREM ServedInOrder == Spec => []FirstComeFirstServed
<1>1. Ordered => FirstComeFirstServed  BY DEF Ordered
<1>2. QED  BY <1>1, AlwaysOrdered, PTL

-----------------------------------------------------------------------------
(* Wake-ups.                                                               *)

\* The worker goes to sleep only when nothing is queued.
LEMMA RunWakes == ASSUME Typed, NoLostWakeup, Run \/ Process PROVE NoLostWakeup'
<1> USE DEF NoLostWakeup
<1>1. CASE Run
  <2>1. CASE ReadQueue  BY <2>1 DEF ReadQueue, disk, IsQueued
  <2>2. CASE Boot \/ Awaken \/ Hold \/ Release \/ Stop
    BY <2>2 DEF Boot, Awaken, Hold, Release, Stop
  <2>3. QED  BY <1>1, <2>1, <2>2 DEF Run
<1>2. CASE Process
  <2>1. pc' # "idle"
    BY <1>2, JudgeTyped, SettlingIs
    DEF Process, Begin, Register, Pull, Outcomes, Settling, Clear
  <2>2. QED  BY <2>1
<1>3. QED  BY <1>1, <1>2

\* Whoever queues a row is about to leave a wake-up.
LEMMA OthersWake ==
    ASSUME Typed, NoLostWakeup,
           Elsewhere \/ \E c \in Clients : Handler(c) \/ HandlerGoesOn(c)
    PROVE  NoLostWakeup'
<1>0. rows \in Table /\ client \in [Clients -> ClientType]
  BY DEF Typed, TypeOK, Table, ClientType
<1> USE DEF NoLostWakeup, IsQueued
<1>1. CASE Elsewhere
  <2>1. ASSUME NEW S, Delete(S) PROVE NoLostWakeup'
    <3>1. \A i \in Ids : rows'[i] = rows[i] \/ rows'[i] = NoRow
      BY <1>0, <2>1, DeleteEffect DEF Delete
    <3>2. NoRow.status # "queued"  BY DEF NoRow
    <3>3. QED  BY <2>1, <3>1, <3>2 DEF Delete, worker
  <2>2. CASE Exit \/ Crash  BY <2>2 DEF Exit, Crash, Restart
  <2>3. CASE IdleTimeout  BY <2>3 DEF IdleTimeout
  <2>4. CASE Progress \/ Stall \/ Shutdown \/ OllamaStops \/ OllamaAnswers
    BY <2>4 DEF Progress, Stall, Shutdown, OllamaStops, OllamaAnswers, disk, worker
  <2>5. QED  BY <1>1, <2>1, <2>2, <2>3, <2>4 DEF Elsewhere
<1>2. ASSUME NEW c \in Clients, Handler(c) PROVE NoLostWakeup'
  <2>1. ASSUME NEW m \in Models, Enqueue(c, m) PROVE NoLostWakeup'
    <3>1. client'[c].at = "wake"  BY <1>0, <2>1 DEF Enqueue, GoOn, AtRest
    <3>2. QED  BY <3>1
  <2>2. ASSUME NEW id \in Ids, CancelRunning(c, id) PROVE NoLostWakeup'
    BY <2>2 DEF CancelRunning, disk
  <2>3. ASSUME NEW id \in Ids, CancelOther(c, id) PROVE NoLostWakeup'
    <3>1. \A d \in Clients : client[d].at = "wake" => client'[d].at = "wake"
      BY <1>0, <2>3 DEF CancelOther, Free, GoOn
    <3>2. QED  BY <2>3, <3>1 DEF CancelOther, disk, worker
  <2>4. ASSUME NEW id \in Ids, NEW m \in Models, RetryRead(c, id, m) PROVE NoLostWakeup'
    <3>1. \A d \in Clients : client[d].at = "wake" => client'[d].at = "wake"
      BY <1>0, <2>4 DEF RetryRead, Free, GoOn
    <3>2. QED  BY <2>4, <3>1 DEF RetryRead, disk, worker
  <2>5. QED  BY <1>2, <2>1, <2>2, <2>3, <2>4 DEF Handler
<1>3. ASSUME NEW c \in Clients, HandlerGoesOn(c) PROVE NoLostWakeup'
  <2>1. CASE Wake(c)  BY <2>1 DEF Wake
  <2>2. CASE RetryRequeue(c)
    <3>1. client'[c].at = "wake"  BY <1>0, <2>2 DEF RetryRequeue, GoOn, AtRest
    <3>2. QED  BY <3>1
  <2>3. CASE CancelRead(c) \/ RetryScan(c) \/ RetryRename(c) \/ CancelDrop(c)
            \/ Disconnect(c)
    <3>1. \A d \in Clients : client[d].at = "wake" => client'[d].at = "wake"
      BY <1>0, <2>3 DEF CancelRead, RetryScan, RetryRename, CancelDrop, Disconnect, AtRest, GoOn
    <3>2. \A i \in Ids : IsQueued(rows', i) => IsQueued(rows, i)
      <4>1. CASE CancelRead(c) \/ RetryScan(c) \/ Disconnect(c)
        BY <4>1 DEF CancelRead, RetryScan, Disconnect, disk
      <4>2. CASE CancelDrop(c)
        <5>1. client[c].id \in Ids  BY <4>2 DEF CancelDrop, Typed, HasId
        <5>2. QED  BY <1>0, <4>2, <5>1, FinishEffect DEF CancelDrop
      <4>3. CASE RetryRename(c)
        <5>1. client[c].id \in Ids  BY <4>3 DEF RetryRename, Typed, HasId
        <5>2. QED  BY <1>0, <4>3, <5>1, RenameEffect DEF RetryRename
      <4>4. QED  BY <2>3, <4>1, <4>2, <4>3
    <3>3. pc' = pc /\ wake' = wake
      BY <2>3 DEF CancelRead, RetryScan, RetryRename, CancelDrop, Disconnect, worker
    <3>4. QED  BY <3>1, <3>2, <3>3
  <2>4. QED  BY <1>3, <2>1, <2>2, <2>3 DEF HandlerGoesOn
<1>4. QED  BY <1>1, <1>2, <1>3

\* The worker never sleeps through a download that was queued for it.
THEOREM WakeupsArrive == Spec => []NoLostWakeup
<1>1. Init => NoLostWakeup  BY DEF Init, NoLostWakeup
<1>2. Typed /\ NoLostWakeup /\ [Next]_vars => NoLostWakeup'
  <2>1. CASE UNCHANGED vars  BY <2>1 DEF vars, NoLostWakeup, IsQueued
  <2>2. QED  BY <2>1, RunWakes, OthersWake DEF Next, Elsewhere
<1>3. QED  BY <1>1, <1>2, AlwaysTyped, PTL DEF Spec

-----------------------------------------------------------------------------
(* Auto-resumes.                                                           *)

\* What the history will say of a row once a decision to resume it is written.
Owing(id) == IF pc = "resume" /\ id = job.id THEN OneMore(vain[id]) ELSE vain[id]

\* The worker's counter is never behind the history, neither in how often a row
\* was put back nor in how far it got, and never beyond the limit.
Counted ==
    /\ ResumesBounded
    /\ \A id \in Ids : /\ resumes[id].n <= MaxResumes
                       /\ Owing(id).n <= resumes[id].n
                       /\ Owing(id).reached <= resumes[id].reached

\* A step beside the counter and the history leaves them in step, also where it
\* only moves the worker from and to places other than "resume".
LEMMA CountedApart ==
    ASSUME Counted, resumes' = resumes, vain' = vain,
           \/ pc' = pc /\ job' = job /\ reached' = reached
           \/ pc # "resume" /\ pc' # "resume"
    PROVE  Counted'
BY DEF Counted, ResumesBounded, Owing, OneMore

\* One more lost connection counts for no less on the greater of two counts.
LEMMA OneMoreGrows ==
    ASSUME Typed, NEW c \in [n : Nat, reached : Nat], NEW d \in [n : Nat, reached : Nat],
           c.n <= d.n, c.reached <= d.reached
    PROVE  /\ OneMore(c).n <= OneMore(d).n \/ OneMore(c).n <= 1
           /\ OneMore(c).reached <= OneMore(d).reached
           /\ OneMore(c).n >= 1 /\ OneMore(c).reached >= reached
           /\ OneMore(d).n >= 1
BY DEF OneMore, Typed, TypeOK

\* process's look at why the pull ended counts before it decides.
LEMMA JudgeCounted == ASSUME Typed, Counted, Judge PROVE Counted'
<1>0. /\ resumes \in [Ids -> [n : Nat, reached : Nat]]
      /\ vain \in [Ids -> [n : Nat, reached : Nat]]
      /\ job.id \in Ids /\ MaxResumes \in Nat
      /\ pc = "settle" /\ vain' = vain /\ job' = job /\ reached' = reached
  BY InHand, QueueAssumption DEF Judge, Typed, TypeOK, InProcess, task
<1>1. CASE Outcome = "resume"
  <2>1. resumes' = [resumes EXCEPT ![job.id] = Resumed(job.id)] /\ pc' = "resume"
    BY <1>1 DEF Judge
  <2>2. Resumed(job.id).n <= MaxResumes
    BY <1>1 DEF Outcome
  <2>3. Resumed(job.id) = OneMore(resumes[job.id]) /\ Resumed(job.id) \in [n : Nat, reached : Nat]
    BY <1>0, OneMoreTyped DEF Resumed
  <2>4. vain[job.id].n <= resumes[job.id].n /\ vain[job.id].reached <= resumes[job.id].reached
    BY <1>0 DEF Counted, Owing
  <2>5. /\ OneMore(vain[job.id]) \in [n : Nat, reached : Nat]
        /\ OneMore(vain[job.id]).n <= Resumed(job.id).n
        /\ OneMore(vain[job.id]).reached <= Resumed(job.id).reached
    BY <1>0, <2>3, <2>4, OneMoreTyped, OneMoreGrows
  <2>6. Owing(job.id)' = OneMore(vain[job.id])
    BY <1>0, <2>1 DEF Owing, OneMore
  <2>7. \A id \in Ids \ {job.id} : Owing(id)' = vain[id] /\ resumes'[id] = resumes[id]
    BY <1>0, <2>1 DEF Owing
  <2>8. \A id \in Ids \ {job.id} : Owing(id) = vain[id]  BY <1>0 DEF Owing
  <2>9. resumes'[job.id] = Resumed(job.id)  BY <1>0, <2>1
  <2>10. QED
    BY <1>0, <2>2, <2>5, <2>6, <2>7, <2>8, <2>9 DEF Counted, ResumesBounded
<1>2. CASE Outcome # "resume"
  BY <1>0, <1>2, CountedApart DEF Judge
<1>3. QED  BY <1>1, <1>2

\* A row that is put back is in the history what it is in the counter.
LEMMA ResumeCounted == ASSUME Typed, Counted, Resume PROVE Counted'
<1>0. /\ resumes' = resumes /\ vain \in [Ids -> [n : Nat, reached : Nat]]
      /\ resumes \in [Ids -> [n : Nat, reached : Nat]]
      /\ job.id \in Ids /\ pc = "resume" /\ pc' = "clear" /\ MaxResumes \in Nat
      /\ vain' = [vain EXCEPT ![job.id] = OneMore(vain[job.id])]
  BY InHand, QueueAssumption DEF Resume, Typed, TypeOK, InProcess, Outcomes
<1>1. \A id \in Ids : vain'[id] = Owing(id) /\ Owing(id)' = vain'[id]
  BY <1>0 DEF Owing
<1>2. ASSUME NEW id \in Ids PROVE Owing(id).n \in Nat
  BY <1>0, OneMoreTyped DEF Owing
<1>3. QED  BY <1>0, <1>1, <1>2 DEF Counted, ResumesBounded

\* A count dropped, with the history, is no more than one kept.
LEMMA ForgottenCounted ==
    ASSUME Typed, Counted, pc' = pc, job' = job, reached' = reached, resumes' = resumes,
           vain' \in [Ids -> [n : Nat, reached : Nat]],
           \A id \in Ids : vain'[id] = vain[id] \/ vain'[id] = Zero
    PROVE  Counted'
<1>0. /\ vain \in [Ids -> [n : Nat, reached : Nat]] /\ MaxResumes \in Nat
      /\ resumes \in [Ids -> [n : Nat, reached : Nat]] /\ reached \in Nat
  BY QueueAssumption DEF Typed, TypeOK
<1>1. ASSUME NEW id \in Ids
      PROVE  /\ vain'[id].n <= MaxResumes
             /\ Owing(id)'.n <= resumes[id].n
             /\ Owing(id)'.reached <= resumes[id].reached
  <2>1. CASE vain'[id] = vain[id]
    BY <2>1 DEF Counted, ResumesBounded, Owing, OneMore
  <2>2. CASE vain'[id] = Zero /\ pc = "resume" /\ id = job.id
    <3>1. Owing(id)' = IF reached > 0 THEN [n |-> 1, reached |-> reached]
                       ELSE [n |-> 1, reached |-> 0]
      BY <2>2 DEF Owing, OneMore, Zero
    <3>2. Owing(id).n >= 1 /\ Owing(id).reached >= reached
          /\ Owing(id) \in [n : Nat, reached : Nat]
      BY <1>0, <2>2 DEF Owing, OneMore
    <3>3. QED  BY <1>0, <2>2, <3>1, <3>2 DEF Counted, Zero
  <2>3. CASE vain'[id] = Zero /\ ~(pc = "resume" /\ id = job.id)
    BY <1>0, <2>3 DEF Owing, Zero
  <2>4. QED  BY <2>1, <2>2, <2>3
<1>2. QED  BY <1>1 DEF Counted, ResumesBounded

\* However often Ollama is lost, as long as the process runs no row is put back
\* more than MaxResumes times between two pulls that got further.
THEOREM ResumesAreBounded == Spec => []ResumesBounded
<1>1. Init => Counted
  BY QueueAssumption DEF Init, Counted, ResumesBounded, Owing, Zero
<1>2. Typed /\ Counted /\ [Next]_vars => Counted'
  <2> SUFFICES ASSUME Typed, Counted, [Next]_vars PROVE Counted'  OBVIOUS
  <2>0. MaxResumes \in Nat  BY QueueAssumption
  <2>1. CASE Run
    BY <2>1, CountedApart DEF Run, Boot, ReadQueue, Awaken, Hold, Release, Stop
  <2>2. CASE Begin \/ Register \/ Pull \/ Clear
    BY <2>2, CountedApart DEF Begin, Register, Pull, Clear
  <2>3. CASE Judge  BY <2>3, JudgeCounted
  <2>4. CASE Complete \/ Suspend \/ Abort \/ Fail
    <3>1. PICK o \in Outcomes \ {"resume"} : \E t : SettleAs(o, t)
      BY <2>4 DEF Complete, Suspend, Abort, Fail, Outcomes
    <3>2. /\ resumes' = [resumes EXCEPT ![job.id] = Zero]
          /\ vain' = [vain EXCEPT ![job.id] = Zero]
          /\ pc # "resume" /\ pc' = "clear"
      BY <3>1 DEF SettleAs
    <3>3. \A id \in Ids : \/ vain'[id] = Zero /\ resumes'[id] = Zero
                          \/ vain'[id] = vain[id] /\ resumes'[id] = resumes[id]
      BY <3>2 DEF Typed, TypeOK
    <3>4. QED  BY <2>0, <3>2, <3>3 DEF Counted, ResumesBounded, Owing, Zero
  <2>5. CASE Resume  BY <2>5, ResumeCounted
  <2>6. CASE Elsewhere
    <3>1. ASSUME NEW S, Delete(S) PROVE Counted'
      <4>1. vain' \in [Ids -> [n : Nat, reached : Nat]]
        BY <3>1 DEF Delete, Typed, TypeOK, Zero
      <4>2. QED  BY <3>1, <4>1, ForgottenCounted DEF Delete, worker
    <3>2. CASE Exit \/ Crash
      BY <2>0, <3>2 DEF Exit, Crash, Restart, Counted, ResumesBounded, Owing, Zero
    <3>3. CASE \/ IdleTimeout \/ Progress \/ Stall
               \/ Shutdown \/ OllamaStops \/ OllamaAnswers
      BY <3>3, CountedApart
      DEF IdleTimeout, Progress, Stall, Shutdown, OllamaStops, OllamaAnswers, worker
    <3>4. QED  BY <2>6, <3>1, <3>2, <3>3 DEF Elsewhere
  <2>7. ASSUME NEW c \in Clients, Handler(c) PROVE Counted'
    BY <2>7, CountedApart
    DEF Handler, Enqueue, CancelRunning, CancelOther, RetryRead, worker
  <2>8. ASSUME NEW c \in Clients, HandlerGoesOn(c) PROVE Counted'
    BY <2>8, CountedApart
    DEF HandlerGoesOn, Wake, CancelRead, CancelDrop, RetryScan, RetryRename, RetryRequeue,
        Disconnect, worker
  <2>9. CASE UNCHANGED vars  BY <2>9, CountedApart DEF vars
  <2>10. QED
    BY <2>1, <2>2, <2>3, <2>4, <2>5, <2>6, <2>7, <2>8, <2>9 DEF Next, Process, Elsewhere
<1>3. Counted => ResumesBounded  BY DEF Counted
<1>4. QED  BY <1>1, <1>2, <1>3, AlwaysTyped, PTL DEF Spec

-----------------------------------------------------------------------------
(* Soundness up to the first stale write.                                  *)

\* What a "success" that is yet to be recorded is about.
LEMMA SuccessStep == Typed /\ SuccessPulled /\ [Next]_vars => SuccessPulled'
<1> SUFFICES ASSUME Typed, SuccessPulled, [Next]_vars PROVE SuccessPulled'  OBVIOUS
<1> USE DEF SuccessPulled
<1>1. CASE Run  BY <1>1 DEF Run, Boot, ReadQueue, Awaken, Hold, Release, Stop
<1>2. CASE Process
  <2>1. CASE Pull  BY <2>1 DEF Pull
  <2>2. CASE Judge
    <3>1. pc' = "complete" => result = "ok"  BY <2>2 DEF Judge, Outcome
    <3>2. pc' # "settle"  BY <2>2, JudgeTyped DEF Outcomes
    <3>3. QED  BY <2>2, <3>1, <3>2 DEF Judge
  <2>3. CASE ~Pull /\ ~Judge
    <3>1. pc' \notin {"settle", "complete"}
      BY <1>2, <2>3, SettlingIs DEF Process, Begin, Register, Settling, Clear
    <3>2. QED  BY <3>1
  <2>4. QED  BY <2>1, <2>2, <2>3
<1>3. CASE Elsewhere
  <2>1. CASE Exit \/ Crash  BY <2>1 DEF Exit, Crash, Restart
  <2>2. CASE ~(Exit \/ Crash)
    BY <1>3, <2>2 DEF Elsewhere, IdleTimeout, Progress, Stall, Delete, Shutdown,
                      OllamaStops, OllamaAnswers, worker
  <2>3. QED  BY <2>1, <2>2
<1>4. ASSUME NEW c \in Clients, Handler(c) \/ HandlerGoesOn(c) PROVE SuccessPulled'
  <2>1. pc' = pc /\ result' = result /\ job' = job /\ pulled' = pulled
    BY <1>4 DEF Handler, Enqueue, CancelRunning, CancelOther, RetryRead, HandlerGoesOn, Wake,
                CancelRead, CancelDrop, RetryScan, RetryRename, RetryRequeue, Disconnect, worker
  <2>2. QED  BY <2>1
<1>5. CASE UNCHANGED vars  BY <1>5 DEF vars
<1>6. QED  BY <1>1, <1>2, <1>3, <1>4, <1>5 DEF Next, Elsewhere

\* No step takes back that a write was stale.
LEMMA StaleStays == ASSUME [Next]_vars, ~stale' PROVE ~stale
<1>1. CASE Run  BY <1>1 DEF Run, Boot, ReadQueue, Awaken, Hold, Release, Stop
<1>2. CASE Process
  BY <1>2, SettlingIs DEF Process, Begin, Register, Pull, Judge, Settling, Clear
<1>3. CASE Elsewhere
  BY <1>3 DEF Elsewhere, IdleTimeout, Progress, Stall, Delete, Shutdown, Exit, Crash,
              Restart, OllamaStops, OllamaAnswers
<1>4. ASSUME NEW c \in Clients, Handler(c) \/ HandlerGoesOn(c) PROVE ~stale
  BY <1>4 DEF Handler, Enqueue, CancelRunning, CancelOther, RetryRead, HandlerGoesOn, Wake,
              CancelRead, CancelDrop, RetryScan, RetryRename, RetryRequeue,
              Disconnect
<1>5. CASE UNCHANGED vars  BY <1>5 DEF vars
<1>6. QED  BY <1>1, <1>2, <1>3, <1>4, <1>5 DEF Next, Elsewhere

\* A step that leaves every row as it is, or settles it less, keeps the table
\* sound: no row joins the queue, changes its model or turns completed.
LEMMA QuietSound ==
    ASSUME Typed, Typed', NoDuplicates, CompletedWasPulled, pulled \subseteq pulled',
           \A i \in Ids : rows'[i].status \in Active =>
               rows[i].status \in Active /\ rows'[i].model = rows[i].model,
           \A i \in Ids : rows'[i].status = "completed" =>
               rows[i].status = "completed" /\ rows'[i].model = rows[i].model
    PROVE  NoDuplicates' /\ CompletedWasPulled'
BY DEF NoDuplicates, CompletedWasPulled

\* The worker's steps keep the rows sound.
LEMMA WorkerSound ==
    ASSUME Typed, Typed', OneRunning, SuccessPulled, Sound, ~stale', Run \/ Process
    PROVE  Sound'
<1>0. rows \in Table /\ rows' \in Table  BY DEF Typed, TypeOK, Table
<1> USE DEF Sound
<1>1. CASE Boot
  <2>1. JobIsItsRow'  BY <1>1 DEF Boot, JobIsItsRow, InProcess, Outcomes
  <2>2. QED
    BY <1>0, <1>1, <2>1, InterruptedEffect, QuietSound DEF Boot, Active
<1>2. CASE ReadQueue \/ Awaken \/ Hold \/ Release \/ Stop
  <2>1. JobIsItsRow'
    BY <1>2
    DEF ReadQueue, Awaken, Hold, Release, Stop, JobIsItsRow, InProcess, Outcomes
  <2>2. rows' = rows /\ pulled' = pulled
    BY <1>2 DEF ReadQueue, Awaken, Hold, Release, Stop, disk
  <2>3. QED  BY <2>1, <2>2 DEF NoDuplicates, CompletedWasPulled
<1>3. CASE Begin
  <2>1. JobUnchanged /\ rows' = StartDownload(rows, job.id) /\ job' = job /\ pulled' = pulled
    BY <1>3 DEF Begin
  <2>2. job.id \in Ids /\ rows[job.id] # NoRow
    BY <1>3, <2>1, InHand DEF Begin, JobUnchanged, IsQueued, NoRow
  <2>3. JobIsItsRow'
    BY <1>0, <2>1, <2>2, StartEffect DEF JobIsItsRow, JobUnchanged
  <2>4. QED
    BY <1>0, <2>1, <2>2, <2>3, StartEffect, QuietSound DEF JobUnchanged, IsQueued, Active
<1>4. CASE Register
  BY <1>4 DEF Register, JobIsItsRow, InProcess, disk, NoDuplicates, CompletedWasPulled
<1>5. CASE Pull
  <2>1. rows' = rows /\ job' = job /\ pulled \subseteq pulled' /\ pc = "pull"
    BY <1>5 DEF Pull, disk
  <2>2. JobIsItsRow'  BY <2>1 DEF JobIsItsRow, InProcess
  <2>3. QED  BY <2>1, <2>2, QuietSound
<1>6. CASE Complete \/ Abort \/ Fail
  <2>1. PICK s \in Finished : /\ rows' = FinishDownload(rows, job.id, s)
                              /\ s = "completed" => pc = "complete"
    BY <1>6 DEF Complete, Abort, Fail, SettleAs, Finished, Retryable
  <2>2. InProcess /\ pc' = "clear" /\ job' = job /\ pulled' = pulled
    BY <1>6, SettlingIs DEF Settling
  <2>3. JobIsItsRow'  BY <2>2 DEF JobIsItsRow, InProcess, Outcomes
  <2>4. job.id \in Ids /\ rows[job.id].model = job.model
    BY <2>2, InHand DEF JobIsItsRow
  <2>5. s \notin Active  BY DEF Active, Finished, Retryable
  <2>6. ASSUME NEW i \in Ids
        PROVE  /\ rows'[i].status \in Active => i # job.id /\ rows[i].status \in Active
               /\ rows'[i].model = rows[i].model
               /\ rows'[i].status = rows[i].status \/ (i = job.id /\ rows'[i].status = s)
    BY <1>0, <2>1, <2>4, <2>5, FinishEffect, PresentStatus DEF Active
  <2>7. NoDuplicates'  BY <2>6 DEF NoDuplicates
  <2>8. CompletedWasPulled'
    BY <2>1, <2>2, <2>4, <2>6 DEF CompletedWasPulled, SuccessPulled
  <2>9. QED  BY <2>3, <2>7, <2>8
<1>7. CASE Suspend \/ Resume
  <2>1. rows' = RequeueKeepingPlace(rows, job.id)
    BY <1>7 DEF Suspend, Resume, SettleAs
  <2>2. InProcess /\ pc' = "clear" /\ job' = job /\ pulled' = pulled
    BY <1>7, SettlingIs DEF Settling
  <2>3. JobIsItsRow'  BY <2>2 DEF JobIsItsRow, InProcess, Outcomes
  <2>4. job.id \in Ids /\ rows[job.id].status = "downloading"
    BY <2>2, InHand DEF JobIsItsRow
  <2>5. QED
    BY <1>0, <2>1, <2>2, <2>3, <2>4, KeepEffect, QuietSound DEF Active
<1>8. CASE Clear
  BY <1>8
  DEF Clear, JobIsItsRow, InProcess, Outcomes, disk, NoDuplicates, CompletedWasPulled
<1>9. CASE Judge
  BY <1>9, JudgeTyped DEF Judge, JobIsItsRow, InProcess, disk, NoDuplicates, CompletedWasPulled
<1>10. QED
  BY <1>1, <1>2, <1>3, <1>4, <1>5, <1>6, <1>7, <1>8, <1>9 DEF Run, Process

\* So do everyone else's.
LEMMA OthersSound ==
    ASSUME Typed, Typed', OneRunning, Sound, ~stale',
           Elsewhere \/ \E c \in Clients : Handler(c) \/ HandlerGoesOn(c)
    PROVE  Sound'
<1>0. rows \in Table /\ rows' \in Table  BY DEF Typed, TypeOK, Table
<1>j. InProcess => job.id \in Ids  BY InHand
<1> USE DEF Sound
\* What is left to show when a step leaves the worker and the job's row alone.
<1>q. ASSUME pc' = pc, job' = job, InProcess => rows'[job.id] = rows[job.id] PROVE JobIsItsRow'
  BY <1>q DEF JobIsItsRow, InProcess
<1>r. ASSUME pc' = pc, job' = job, rows' = rows, pulled' = pulled PROVE Sound'
  BY <1>r DEF JobIsItsRow, InProcess, NoDuplicates, CompletedWasPulled
<1>1. CASE Elsewhere
  <2>1. ASSUME NEW S, Delete(S) PROVE Sound'
    <3>1. \A i \in Ids : rows'[i] = rows[i] \/ (rows'[i] = NoRow /\ rows[i].status \in Finished)
      BY <1>0, <2>1, DeleteEffect DEF Delete
    <3>2. NoRow.status \notin Active \cup {"completed"} /\ "downloading" \notin Finished
      BY DEF NoRow, Active, Finished, Retryable
    <3>3. pc' = pc /\ job' = job /\ pulled' = pulled  BY <2>1 DEF Delete, worker
    <3>4. JobIsItsRow'  BY <1>j, <1>q, <3>1, <3>2, <3>3 DEF JobIsItsRow
    <3>5. QED  BY <3>1, <3>2, <3>3, <3>4, QuietSound
  <2>2. CASE Exit \/ Crash
    BY <2>2
    DEF Exit, Crash, Restart, JobIsItsRow, InProcess, Outcomes, disk, NoDuplicates,
        CompletedWasPulled
  <2>3. CASE IdleTimeout
    BY <2>3
    DEF IdleTimeout, JobIsItsRow, InProcess, Outcomes, disk, NoDuplicates, CompletedWasPulled
  <2>4. CASE Progress \/ Stall \/ Shutdown \/ OllamaStops \/ OllamaAnswers
    BY <1>r, <2>4 DEF Progress, Stall, Shutdown, OllamaStops, OllamaAnswers, disk, worker
  <2>5. QED  BY <1>1, <2>1, <2>2, <2>3, <2>4 DEF Elsewhere
<1>2. ASSUME NEW c \in Clients, Handler(c) PROVE Sound'
  <2>1. ASSUME NEW m \in Models, Enqueue(c, m) PROVE Sound'
    <3>1. PICK id \in Ids : IsNewId(rows, id) /\ rows' = EnqueueDownload(rows, id, m, clock)
      BY <2>1 DEF Enqueue
    <3>2. rows[id] = NoRow /\ \A i \in Ids \ {id} : rows'[i] = rows[i]
      BY <1>0, <3>1 DEF EnqueueDownload, Table, IsNewId, Present, Ids
    <3>3. rows'[id].status = "queued" /\ rows'[id].model = m
      BY <1>0, <3>1, EnqueueEffect
    <3>4. pc' = pc /\ job' = job /\ pulled' = pulled  BY <2>1 DEF Enqueue, worker
    <3>5. JobIsItsRow'
      BY <1>j, <1>q, <3>2, <3>4 DEF JobIsItsRow, NoRow
    <3>6. \A i \in Ids : ~(rows[i].status \in Active /\ rows[i].model = m)
      BY <2>1 DEF Enqueue, ActiveOf
    <3>7. NoDuplicates'
      BY <3>2, <3>3, <3>6 DEF NoDuplicates
    <3>8. CompletedWasPulled'
      BY <3>2, <3>3, <3>4 DEF CompletedWasPulled
    <3>9. QED  BY <3>5, <3>7, <3>8
  <2>2. ASSUME NEW id \in Ids, CancelRunning(c, id) \/ CancelOther(c, id) PROVE Sound'
    BY <1>r, <2>2 DEF CancelRunning, CancelOther, disk, worker
  <2>3. ASSUME NEW id \in Ids, NEW m \in Models, RetryRead(c, id, m) PROVE Sound'
    BY <1>r, <2>3 DEF RetryRead, disk, worker
  <2>4. QED  BY <1>2, <2>1, <2>2, <2>3 DEF Handler
<1>3. ASSUME NEW c \in Clients, HandlerGoesOn(c) PROVE Sound'
  <2>1. CASE Wake(c) \/ CancelRead(c) \/ RetryScan(c) \/ Disconnect(c)
    BY <1>r, <2>1 DEF Wake, CancelRead, RetryScan, Disconnect, disk, worker
  <2>2. CASE CancelDrop(c)
    <3>1. client[c].id \in Ids  BY <2>2 DEF CancelDrop, Typed, HasId
    <3>2. /\ rows' = FinishDownload(rows, client[c].id, "cancelled")
          /\ pc' = pc /\ job' = job /\ pulled' = pulled
          /\ rows[client[c].id].status \in {"queued", "cancelled", "none"}
      BY <2>2 DEF CancelDrop, worker
    <3>3. \A i \in Ids \ {client[c].id} : rows'[i] = rows[i]
      BY <1>0, <3>1, <3>2, UpdateEffect DEF FinishDownload
    <3>4. JobIsItsRow'  BY <1>j, <1>q, <3>2, <3>3 DEF JobIsItsRow
    <3>5. QED
      BY <1>0, <3>1, <3>2, <3>4, FinishEffect, QuietSound DEF Active
  <2>3. CASE RetryRename(c)
    <3>1. client[c].id \in Ids  BY <2>3 DEF RetryRename, Typed, HasId
    <3>2. /\ rows' = SetDownloadModel(rows, client[c].id, client[c].model)
          /\ pc' = pc /\ job' = job /\ pulled' = pulled
          /\ rows[client[c].id].status # "completed"
      BY <2>3 DEF RetryRename, worker
    <3>3. \A i \in Ids : /\ rows'[i].status = rows[i].status
                         /\ rows'[i].at = rows[i].at
                         /\ rows[i].status \in Active \cup {"completed"} =>
                               rows'[i].model = rows[i].model
      BY <1>0, <3>1, <3>2, RenameEffect DEF Active, Finished, Retryable
    <3>4. JobIsItsRow'  BY <1>j, <3>2, <3>3 DEF JobIsItsRow, InProcess, Active
    <3>5. QED  BY <3>2, <3>3, <3>4, QuietSound
  <2>4. CASE RetryRequeue(c)
    <3> DEFINE id == client[c].id
    <3>1. id \in Ids  BY <2>4 DEF RetryRequeue, Typed, HasId
    <3>2. /\ rows' = RequeueAtBack(rows, id, clock)
          /\ pc' = pc /\ job' = job /\ pulled' = pulled
          /\ rows[id] # NoRow => /\ rows[id].status \in Retryable
                                 /\ ActiveOf(rows, rows[id].model) = {}
      BY <2>4 DEF RetryRequeue, worker, Present
    <3>3. \A i \in Ids \ {id} : rows'[i] = rows[i]
      BY <1>0, <3>1, <3>2, UpdateEffect DEF RequeueAtBack
    <3>4. CASE rows[id] = NoRow
      <4>1. \A i \in Ids : rows'[i] = rows[i]
        BY <1>0, <3>1, <3>2, <3>3, <3>4, UpdateEffect DEF RequeueAtBack
      <4>2. QED  BY <1>j, <1>q, <3>2, <4>1, QuietSound
    <3>5. CASE rows[id] # NoRow
      <4>1. rows'[id].status = "queued" /\ rows'[id].model = rows[id].model
        BY <1>0, <3>1, <3>2, <3>5, BackEffect
      <4>2. JobIsItsRow'
        BY <1>j, <1>q, <3>2, <3>3, <3>5 DEF JobIsItsRow, Retryable
      <4>3. \A i \in Ids : ~(rows[i].status \in Active /\ rows[i].model = rows[id].model)
        BY <3>2, <3>5 DEF ActiveOf
      <4>4. NoDuplicates'  BY <3>3, <4>1, <4>3 DEF NoDuplicates
      <4>5. CompletedWasPulled'
        BY <3>2, <3>3, <4>1 DEF CompletedWasPulled
      <4>6. QED  BY <4>2, <4>4, <4>5
    <3>6. QED  BY <3>4, <3>5
  <2>5. QED  BY <1>3, <2>1, <2>2, <2>3, <2>4 DEF HandlerGoesOn
<1>4. QED  BY <1>1, <1>2, <1>3

\* The rows are sound until a write is stale.
SoundSoFar == SuccessPulled /\ (~stale => Sound)

\* They stay so: the strengthening is SuccessPulled.
LEMMA AlwaysSound == Spec => []SoundSoFar
<1>1. Init => SoundSoFar
  BY DEF Init, SoundSoFar, SuccessPulled, Sound, NoDuplicates, JobIsItsRow,
         CompletedWasPulled, InProcess, Outcomes, NoRow, Active
<1>2. Typed /\ OneRunning /\ SoundSoFar /\ [Next]_vars => SoundSoFar'
  <2> USE DEF SoundSoFar
  <2> SUFFICES ASSUME Typed, OneRunning, SoundSoFar, [Next]_vars, ~stale' PROVE Sound'
    BY SuccessStep
  <2>1. Typed' /\ Sound  BY StepTyped, StaleStays
  <2>2. CASE UNCHANGED vars
    BY <2>1, <2>2
    DEF vars, Sound, NoDuplicates, JobIsItsRow, CompletedWasPulled, InProcess
  <2>3. QED  BY <2>1, <2>2, WorkerSound, OthersSound DEF Next, Elsewhere
<1>3. QED  BY <1>1, <1>2, AlwaysTyped, OneDownloadRuns, PTL DEF Spec

\* Until some unguarded update acts on a row that has changed since it was
\* read, no model is queued twice, the running download's row says what runs,
\* and what is recorded as completed has been pulled.
THEOREM SoundBeforeStale == Spec => []SoundUntilStale
<1>1. SoundSoFar => SoundUntilStale  BY DEF SoundSoFar, Sound, SoundUntilStale
<1>2. QED  BY <1>1, AlwaysSound, PTL

\* From a cancel that reached the pull in time to the end of process, the outcome
\* that is decided is none of failure and resumption.
Honoured ==
    owed => \/ pc \in {"pull", "settle"} /\ cause = "user"
            \/ pc \in {"complete", "suspend", "abort", "clear"}

\* A step that leaves the cancel, its cause and the worker alone honours it still.
LEMMA HonouredApart ==
    ASSUME Honoured, owed' = owed, cause' = cause, pc' = pc
    PROVE  Honoured'
BY DEF Honoured

\* No step turns an honoured cancel into something else.
LEMMA HonouredStep == Honoured /\ [Next]_vars => Honoured'
<1> SUFFICES ASSUME Honoured, [Next]_vars PROVE Honoured'  OBVIOUS
<1>1. CASE Run
  BY <1>1
  DEF Run, Boot, ReadQueue, Awaken, Hold, Release, Stop, Honoured, task
<1>2. CASE Process
  <2>1. CASE Begin  BY <2>1 DEF Begin, Honoured, task
  <2>2. CASE Register \/ Pull \/ Clear  BY <2>2 DEF Register, Pull, Clear, Honoured
  <2>3. CASE Judge  BY <2>3 DEF Judge, Outcome, Honoured, task
  <2>4. CASE Settling
    BY <2>4, SettlingIs DEF Honoured
  <2>5. QED  BY <1>2, <2>1, <2>2, <2>3, <2>4 DEF Process, Settling
<1>3. CASE Elsewhere
  <2>1. CASE Stall \/ IdleTimeout  BY <2>1 DEF Stall, IdleTimeout, Honoured, task
  <2>2. CASE Exit \/ Crash  BY <2>2 DEF Exit, Crash, Restart, Honoured
  <2>3. ASSUME NEW S, Delete(S) PROVE Honoured'
    BY <2>3, HonouredApart DEF Delete, worker
  <2>4. CASE Progress \/ Shutdown \/ OllamaStops \/ OllamaAnswers
    BY <2>4, HonouredApart DEF Progress, Shutdown, OllamaStops, OllamaAnswers, worker
  <2>5. QED  BY <1>3, <2>1, <2>2, <2>3, <2>4 DEF Elsewhere
<1>4. ASSUME NEW c \in Clients, Handler(c) PROVE Honoured'
  <2>1. ASSUME NEW id \in Ids, CancelRunning(c, id) PROVE Honoured'
    BY <2>1 DEF CancelRunning, Honoured
  <2>2. QED
    BY <1>4, <2>1, HonouredApart DEF Handler, Enqueue, CancelOther, RetryRead, worker
<1>5. ASSUME NEW c \in Clients, HandlerGoesOn(c) PROVE Honoured'
  BY <1>5, HonouredApart
  DEF HandlerGoesOn, Wake, CancelRead, CancelDrop, RetryScan, RetryRename, RetryRequeue,
      Disconnect, worker
<1>6. CASE UNCHANGED vars  BY <1>6, HonouredApart DEF vars
<1>7. QED  BY <1>1, <1>2, <1>3, <1>4, <1>5, <1>6 DEF Next, Elsewhere

\* A cancel that reaches the pull before process has looked at why it ended is
\* what the row says when process is done, or that it is completed, unless the app
\* is shutting down.
THEOREM CancelIsDecisive == Spec => CancelDecides
<1> DEFINE Decided == owed /\ pc \in Outcomes \ {"suspend"} /\ pc' = "clear" =>
                         rows'[job.id].status \in {"cancelled", "completed", "none"}
<1>1. Typed /\ Honoured /\ [Next]_vars => [Decided]_vars
  <2> SUFFICES ASSUME Typed, Honoured, Next, owed, pc \in Outcomes \ {"suspend"},
                      pc' = "clear"
               PROVE  rows'[job.id].status \in {"cancelled", "completed", "none"}
    OBVIOUS
  <2>1. rows \in Table /\ job.id \in Ids
    BY InHand DEF Typed, TypeOK, Table, InProcess
  <2>2. pc \in {"complete", "abort"}  BY DEF Honoured, Outcomes
  <2>3. ~(Elsewhere \/ \E c \in Clients : Handler(c) \/ HandlerGoesOn(c))
    BY <2>2
    DEF Elsewhere, IdleTimeout, Progress, Stall, Delete, Shutdown, Exit, Crash, Restart,
        OllamaStops, OllamaAnswers, Handler, Enqueue, CancelRunning, CancelOther,
        RetryRead, HandlerGoesOn, Wake, CancelRead, CancelDrop, RetryScan, RetryRename,
        RetryRequeue, Disconnect, worker
  <2>4. Complete \/ Abort
    BY <2>2, <2>3
    DEF Next, Elsewhere, Run, Boot, ReadQueue, Awaken, Hold, Release, Stop, Process,
        Begin, Register, Pull, Judge, Suspend, Fail, Resume, SettleAs, Clear
  <2>5. \E s \in {"completed", "cancelled"} : rows' = FinishDownload(rows, job.id, s)
    BY <2>4 DEF Complete, Abort, SettleAs
  <2>6. QED  BY <2>1, <2>5, FinishEffect, PresentStatus
<1>2. Init => Honoured  BY DEF Init, Honoured
<1>3. QED  BY <1>1, <1>2, HonouredStep, AlwaysTyped, PTL DEF Spec, CancelDecides

-----------------------------------------------------------------------------
(* The queue keeps its promise.                                            *)

\* Everything the steps of the promise rest on.
Grounds == Typed /\ OneRunning /\ Ordered /\ SoundSoFar

\* A step that changes no row's status, model or place is no step of the promise.
LEMMA QuietKept ==
    ASSUME \A i \in Ids : /\ rows'[i].status = rows[i].status
                          /\ rows'[i].model = rows[i].model
                          /\ rows'[i].at = rows[i].at,
           stale' = stale
    PROVE  UNCHANGED <<Listed, stale>>
BY DEF Listed

\* The rows of the promise are those of the table.
LEMMA ListedIs ==
    /\ Listed \in [Ids -> {[status |-> r.status, model |-> r.model, at |-> r.at] :
                           r \in {rows[i] : i \in Ids}}]
    /\ \A i \in Ids : /\ Listed[i].status = rows[i].status
                      /\ Listed[i].model = rows[i].model
                      /\ Listed[i].at = rows[i].at
                      /\ Listed[i] = [status |-> rows[i].status, model |-> rows[i].model,
                                      at |-> rows[i].at]
BY DEF Listed

\* A step that changes the status of row id, and nothing else, reads as such.
LEMMA StatusListed ==
    ASSUME NEW id \in Ids, NEW s,
           \A i \in Ids : /\ rows'[i].status = IF i = id THEN s ELSE rows[i].status
                          /\ rows'[i].model = rows[i].model
                          /\ rows'[i].at = rows[i].at
    PROVE  Listed' = [Listed EXCEPT ![id].status = s]
<1>1. ASSUME NEW i \in Ids PROVE Listed'[i] = [Listed EXCEPT ![id].status = s][i]
  BY DEF Listed
<1>2. QED  BY <1>1 DEF Listed

\* The worker's steps are the promise's Start and Settle, or change no row.
LEMMA WorkerKeeps ==
    ASSUME Grounds, Grounds', ~stale, ~stale', Run \/ Process
    PROVE  Promise!Next \/ UNCHANGED <<Listed, stale>>
<1>0. rows \in Table /\ rows' \in Table  BY DEF Grounds, Typed, TypeOK, Table
<1>s. stale' = stale  BY DEF Grounds, Typed, TypeOK
<1>j. pc = "check" \/ InProcess => job.id \in Ids  BY InHand DEF Grounds
<1>q. ASSUME rows' = rows PROVE UNCHANGED <<Listed, stale>>
  BY <1>q, <1>s, QuietKept
\* One row that runs settles, or goes back to its place.
<1>r. ASSUME NEW id \in Ids, rows[id].status = "downloading",
             NEW s \in {"completed", "failed", "cancelled", "queued"},
             \A i \in Ids : /\ rows'[i].status = IF i = id THEN s ELSE rows[i].status
                            /\ rows'[i].model = rows[i].model
                            /\ rows'[i].at = rows[i].at
      PROVE  Promise!Next
  <2>1. Listed' = [Listed EXCEPT ![id].status = s]  BY <1>r, StatusListed
  <2>2. Promise!Settle(id)
    BY <1>r, <2>1, ListedIs DEF Promise!Settle, Promise!Running
  <2>3. QED  BY <1>s, <2>2 DEF Promise!Next
<1>1. CASE Boot
  <2>1. CASE \E id \in Ids : rows[id].status = "downloading"
    <3>1. PICK id \in Ids : rows[id].status = "downloading"  BY <2>1
    <3>2. \A i \in Ids : /\ rows'[i].status = IF i = id THEN "queued" ELSE rows[i].status
                         /\ rows'[i].model = rows[i].model
                         /\ rows'[i].at = rows[i].at
      BY <1>0, <1>1, <3>1, InterruptedEffect DEF Boot, Grounds, OneRunning
    <3>3. QED  BY <1>r, <3>1, <3>2
  <2>2. CASE ~ \E id \in Ids : rows[id].status = "downloading"
    BY <1>0, <1>1, <1>s, <2>2, InterruptedEffect, QuietKept DEF Boot
  <2>3. QED  BY <2>1, <2>2
<1>2. CASE \/ ReadQueue \/ Awaken \/ Hold \/ Release \/ Stop
           \/ Register \/ Pull \/ Judge \/ Clear
  BY <1>2, <1>q
  DEF ReadQueue, Awaken, Hold, Release, Stop, Register, Pull, Judge, Clear, disk
<1>3. CASE Begin
  <2>1. JobUnchanged /\ rows' = StartDownload(rows, job.id) /\ pc = "check"
    BY <1>3 DEF Begin
  <2>2. job.id \in Ids /\ rows[job.id] # NoRow
    BY <1>j, <2>1 DEF JobUnchanged, IsQueued, NoRow
  <2>3. Listed' = [Listed EXCEPT ![job.id].status = "downloading"]
    BY <1>0, <2>1, <2>2, StartEffect, StatusListed
  <2>4. \A i \in Ids : rows[i].status # "downloading"
    BY <2>1 DEF Grounds, OneRunning, InProcess, Outcomes
  <2>5. ASSUME NEW i \in Ids, rows[i].status = "queued" PROVE rows[job.id].at <= rows[i].at
    <3>1. rows[i].at \in Nat /\ rows[job.id].at \in Nat
      BY <1>0, <2>2 DEF Table, Row, NoRow
    <3>2. QED
      BY <2>1, <2>5, <3>1
      DEF Grounds, Ordered, FirstComeFirstServed, JobUnchanged, IsQueued
  <2>6. Promise!Start(job.id)
    BY <2>1, <2>2, <2>3, <2>4, <2>5, ListedIs
    DEF Promise!Start, Promise!Waiting, Promise!Running, JobUnchanged, IsQueued
  <2>7. QED  BY <1>s, <2>2, <2>6 DEF Promise!Next
<1>4. CASE Settling
  <2>1. InProcess  BY <1>4, SettlingIs
  <2>2. job.id \in Ids /\ rows[job.id].status = "downloading" /\ rows[job.id] # NoRow
    BY <1>j, <2>1 DEF Grounds, SoundSoFar, Sound, JobIsItsRow, NoRow
  <2>3. CASE Complete \/ Abort \/ Fail
    <3>1. PICK s \in Finished : rows' = FinishDownload(rows, job.id, s)
      BY <2>3 DEF Complete, Abort, Fail, SettleAs, Finished, Retryable
    <3>2. s \in {"completed", "failed", "cancelled", "queued"}  BY DEF Finished, Retryable
    <3>3. QED  BY <1>0, <1>r, <2>2, <3>1, <3>2, FinishEffect
  <2>4. CASE Suspend \/ Resume
    <3>1. rows' = RequeueKeepingPlace(rows, job.id)
      BY <2>4 DEF Suspend, Resume, SettleAs
    <3>2. QED  BY <1>0, <1>r, <2>2, <3>1, KeepEffect
  <2>5. QED  BY <1>4, <2>3, <2>4 DEF Settling
<1>5. QED  BY <1>1, <1>2, <1>3, <1>4 DEF Run, Process, Settling

\* Two records of the promise's shape, and the functions made of them.
LEMMA ListedExt ==
    ASSUME NEW id \in Ids, NEW s, NEW m, NEW at,
           \A i \in Ids \ {id} : rows'[i] = rows[i],
           rows'[id].status = s, rows'[id].model = m, rows'[id].at = at
    PROVE  Listed' = [Listed EXCEPT ![id] = [status |-> s, model |-> m, at |-> at]]
<1>1. ASSUME NEW i \in Ids
      PROVE  Listed'[i] = [Listed EXCEPT ![id] = [status |-> s, model |-> m, at |-> at]][i]
  BY DEF Listed
<1>2. QED  BY <1>1 DEF Listed

\* The steps of everyone else are the promise's Submit, Withdraw, Correct,
\* Rejoin and Forget.
LEMMA OthersKeep ==
    ASSUME Grounds, Grounds', ~stale, ~stale',
           Elsewhere \/ \E c \in Clients : Handler(c) \/ HandlerGoesOn(c)
    PROVE  Promise!Next \/ UNCHANGED <<Listed, stale>>
<1>0. rows \in Table /\ rows' \in Table  BY DEF Grounds, Typed, TypeOK, Table
<1>s. stale' = stale  BY DEF Grounds, Typed, TypeOK
<1>q. ASSUME rows' = rows PROVE UNCHANGED <<Listed, stale>>
  BY <1>q, <1>s, QuietKept
<1>a. \A i \in Ids : rows[i].status \in Active => rows[i].at < clock
  BY DEF Grounds, Ordered, Stamps
<1>1. CASE Elsewhere
  <2>1. ASSUME NEW S, Delete(S) PROVE Promise!Next
    <3> DEFINE Out == {i \in Ids : i \in S /\ rows[i].status \in Finished}
    <3>1. rows' = DeleteDownloads(rows, S)  BY <2>1 DEF Delete
    <3>2. Out \in SUBSET Promise!Settled
      BY ListedIs DEF Promise!Settled, Finished, Retryable
    <3>3. ASSUME NEW i \in Ids
          PROVE  Listed'[i] = IF i \in Out THEN Promise!Gone ELSE Listed[i]
      <4>1. rows'[i] = IF i \in Out THEN NoRow ELSE rows[i]
        BY <1>0, <3>1, DeleteEffect
      <4>2. QED  BY <4>1 DEF Listed, NoRow, Promise!Gone
    <3>4. Listed' = [i \in Ids |-> IF i \in Out THEN Promise!Gone ELSE Listed[i]]
      BY <3>3 DEF Listed
    <3>5. Promise!Forget(Out)  BY <3>4 DEF Promise!Forget
    <3>6. QED  BY <1>s, <3>2, <3>5 DEF Promise!Next
  <2>2. CASE IdleTimeout \/ Progress \/ Stall \/ Shutdown \/ Exit \/ Crash \/ OllamaStops
             \/ OllamaAnswers
    BY <1>q, <2>2
    DEF IdleTimeout, Progress, Stall, Shutdown, Exit, Crash, Restart, OllamaStops,
        OllamaAnswers, disk
  <2>3. QED  BY <1>1, <2>1, <2>2 DEF Elsewhere
<1>2. ASSUME NEW c \in Clients, Handler(c) PROVE Promise!Next \/ UNCHANGED <<Listed, stale>>
  <2>1. ASSUME NEW m \in Models, Enqueue(c, m) PROVE Promise!Next
    <3>1. PICK id \in Ids : IsNewId(rows, id) /\ rows' = EnqueueDownload(rows, id, m, clock)
      BY <2>1 DEF Enqueue
    <3>2. rows[id] = NoRow /\ \A i \in Ids \ {id} : rows'[i] = rows[i]
      BY <1>0, <3>1 DEF EnqueueDownload, Table, IsNewId, Present, Ids
    <3>3. rows'[id].status = "queued" /\ rows'[id].model = m /\ rows'[id].at = clock
      BY <1>0, <3>1, EnqueueEffect
    <3>4. Listed' = [Listed EXCEPT ![id] = [status |-> "queued", model |-> m, at |-> clock]]
      BY <3>2, <3>3, ListedExt
    <3>5. Listed' = [Listed EXCEPT ![id] = Listed'[id]]  BY <3>4 DEF Listed
    <3>6. Listed[id] = Promise!Gone  BY <3>2, ListedIs DEF NoRow, Promise!Gone
    <3>7. Listed'[id].status = "queued" /\ Listed'[id].model = m /\ Listed'[id].at = clock
      BY <3>3 DEF Listed
    <3>8. Promise!OnlyOf(id, m)
      BY <2>1, ListedIs
      DEF Promise!OnlyOf, Promise!Waiting, Promise!Running, Enqueue, ActiveOf, Active
    <3>9. Promise!AtTheBack(clock)
      BY <1>a, ListedIs DEF Promise!AtTheBack, Promise!Waiting, Promise!Running, Active
    <3>10. Promise!Submit(id)
      BY <3>5, <3>6, <3>7, <3>8, <3>9 DEF Promise!Submit
    <3>11. QED  BY <1>s, <3>10 DEF Promise!Next
  <2>2. ASSUME NEW id \in Ids, CancelRunning(c, id) \/ CancelOther(c, id)
        PROVE  UNCHANGED <<Listed, stale>>
    BY <1>q, <2>2 DEF CancelRunning, CancelOther, disk
  <2>3. ASSUME NEW id \in Ids, NEW m \in Models, RetryRead(c, id, m)
        PROVE  UNCHANGED <<Listed, stale>>
    BY <1>q, <2>3 DEF RetryRead, disk
  <2>4. QED  BY <1>2, <2>1, <2>2, <2>3 DEF Handler
<1>3. ASSUME NEW c \in Clients, HandlerGoesOn(c)
      PROVE  Promise!Next \/ UNCHANGED <<Listed, stale>>
  <2> DEFINE id == client[c].id
  <2>1. CASE Wake(c) \/ CancelRead(c) \/ RetryScan(c) \/ Disconnect(c)
    BY <1>q, <2>1 DEF Wake, CancelRead, RetryScan, Disconnect, disk
  <2>2. CASE CancelDrop(c)
    <3>1. id \in Ids  BY <2>2 DEF CancelDrop, Grounds, Typed, HasId
    <3>2. /\ rows' = FinishDownload(rows, id, "cancelled")
          /\ rows[id].status \in {"queued", "cancelled", "none"}
      BY <2>2 DEF CancelDrop
    <3>3. CASE rows[id].status = "queued"
      <4>1. rows[id] # NoRow  BY <3>3 DEF NoRow
      <4>2. Listed' = [Listed EXCEPT ![id].status = "cancelled"]
        BY <1>0, <3>1, <3>2, <4>1, FinishEffect, StatusListed
      <4>3. Promise!Withdraw(id)
        BY <3>1, <3>3, <4>2, ListedIs DEF Promise!Withdraw, Promise!Waiting
      <4>4. QED  BY <1>s, <3>1, <4>3 DEF Promise!Next
    <3>4. CASE rows[id].status # "queued"
      <4>1. ASSUME NEW i \in Ids
            PROVE  /\ rows'[i].status = rows[i].status
                   /\ rows'[i].model = rows[i].model
                   /\ rows'[i].at = rows[i].at
        BY <1>0, <3>1, <3>2, <3>4, FinishEffect, PresentStatus
      <4>2. QED  BY <1>s, <4>1, QuietKept
    <3>5. QED  BY <3>3, <3>4
  <2>3. CASE RetryRename(c)
    <3> DEFINE m == client[c].model
    <3>1. id \in Ids  BY <2>3 DEF RetryRename, Grounds, Typed, HasId
    <3>2. rows' = SetDownloadModel(rows, id, m) /\ rows[id].status # "completed"
      BY <2>3 DEF RetryRename
    <3>3. CASE rows[id].status \in Retryable
      <4>1. \A i \in Ids : /\ rows'[i].status = rows[i].status
                           /\ rows'[i].model = IF i = id THEN m ELSE rows[i].model
                           /\ rows'[i].at = rows[i].at
        BY <1>0, <3>1, <3>2, <3>3, RenameEffect DEF Finished
      <4>2. ASSUME NEW i \in Ids
            PROVE  Listed'[i] = [Listed EXCEPT ![id].model = Listed'[id].model][i]
        BY <4>1 DEF Listed
      <4>3. Listed' = [Listed EXCEPT ![id].model = Listed'[id].model]
        BY <4>2 DEF Listed
      <4>4. Promise!Correct(id)
        BY <3>1, <3>3, <4>3, ListedIs DEF Promise!Correct, Retryable
      <4>5. QED  BY <1>s, <3>1, <4>4 DEF Promise!Next
    <3>4. CASE rows[id].status \notin Retryable
      <4>1. rows[id].status \notin Finished  BY <3>2, <3>4 DEF Finished
      <4>2. ASSUME NEW i \in Ids
            PROVE  /\ rows'[i].status = rows[i].status
                   /\ rows'[i].model = rows[i].model
                   /\ rows'[i].at = rows[i].at
        BY <1>0, <3>1, <3>2, <4>1, RenameEffect
      <4>3. QED  BY <1>s, <4>2, QuietKept
    <3>5. QED  BY <3>3, <3>4
  <2>4. CASE RetryRequeue(c)
    <3>1. id \in Ids  BY <2>4 DEF RetryRequeue, Grounds, Typed, HasId
    <3>2. /\ rows' = RequeueAtBack(rows, id, clock)
          /\ rows[id] # NoRow => /\ rows[id].status \in Retryable
                                 /\ ActiveOf(rows, rows[id].model) = {}
      BY <2>4 DEF RetryRequeue, Present
    <3>3. CASE rows[id] = NoRow
      <4>1. ASSUME NEW i \in Ids
            PROVE  /\ rows'[i].status = rows[i].status
                   /\ rows'[i].model = rows[i].model
                   /\ rows'[i].at = rows[i].at
        BY <1>0, <3>1, <3>2, <3>3, BackEffect
      <4>2. QED  BY <1>s, <4>1, QuietKept
    <3>4. CASE rows[id] # NoRow
      <4>1. \A i \in Ids : /\ rows'[i].status = IF i = id THEN "queued" ELSE rows[i].status
                           /\ rows'[i].model = rows[i].model
                           /\ rows'[i].at = IF i = id THEN clock ELSE rows[i].at
        BY <1>0, <3>1, <3>2, <3>4, BackEffect
      <4>2. Listed'[id].at = clock  BY <3>1, <4>1 DEF Listed
      <4>3. ASSUME NEW i \in Ids
            PROVE  Listed'[i] = [Listed EXCEPT ![id].status = "queued", ![id].at = clock][i]
        BY <4>1 DEF Listed
      <4>4. Listed' = [Listed EXCEPT ![id].status = "queued", ![id].at = clock]
        BY <4>3 DEF Listed
      <4>5. Promise!AtTheBack(clock)
        BY <1>a, ListedIs DEF Promise!AtTheBack, Promise!Waiting, Promise!Running, Active
      <4>6. Promise!OnlyOf(id, Listed[id].model)
        BY <3>1, <3>2, <3>4, ListedIs
        DEF Promise!OnlyOf, Promise!Waiting, Promise!Running, ActiveOf, Active
      <4>7. Listed[id].status \in {"failed", "cancelled"}
        BY <3>1, <3>2, <3>4, ListedIs DEF Retryable
      <4>8. Promise!Rejoin(id)
        BY <4>2, <4>4, <4>5, <4>6, <4>7 DEF Promise!Rejoin
      <4>9. QED  BY <1>s, <3>1, <4>8 DEF Promise!Next
    <3>5. QED  BY <3>3, <3>4
  <2>5. QED  BY <1>3, <2>1, <2>2, <2>3, <2>4 DEF HandlerGoesOn
<1>4. QED  BY <1>1, <1>2, <1>3

\* Until an unguarded update acts on a stale row, the queue does exactly what
\* QueuePromise allows; from then on nothing is promised.
THEOREM QueueKeepsPromise == Spec => KeepsPromise
<1>1. Init => Promise!Init
  <2> SUFFICES ASSUME Init PROVE Promise!Init  OBVIOUS
  <2>1. ASSUME NEW i \in Ids PROVE Listed[i] = Promise!Gone
    BY DEF Init, Listed, NoRow, Promise!Gone
  <2>2. Listed = [i \in Ids |-> Promise!Gone]  BY <2>1 DEF Listed
  <2>3. QED  BY <2>2 DEF Init, Promise!Init
<1>2. Grounds /\ Grounds' /\ [Next]_vars => [Promise!Next]_<<Listed, stale>>
  <2> SUFFICES ASSUME Grounds, Grounds', [Next]_vars
               PROVE  Promise!Next \/ UNCHANGED <<Listed, stale>>
    OBVIOUS
  <2>1. CASE stale'  BY <2>1 DEF Promise!Next
  <2>2. CASE ~stale'
    <3>1. ~stale  BY <2>2, StaleStays
    <3>2. CASE UNCHANGED vars  BY <3>2 DEF vars, Listed
    <3>3. QED
      BY <2>2, <3>1, <3>2, WorkerKeeps, OthersKeep DEF Next, Elsewhere
  <2>3. QED  BY <2>1, <2>2
<1>3. Spec => []Grounds
  BY AlwaysTyped, OneDownloadRuns, AlwaysOrdered, AlwaysSound, PTL DEF Grounds
<1>4. QED  BY <1>1, <1>2, <1>3, PTL DEF Spec, KeepsPromise, Promise!Spec
=============================================================================
