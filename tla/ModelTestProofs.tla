-------------------------- MODULE ModelTestProofs --------------------------
(***************************************************************************)
(* Proofs about the model test runner, for any tests, models, handlers,    *)
(* restarts and refusals: it keeps its types, runs one test and one of its *)
(* runs at a time, lets the models have the memory one after the other,    *)
(* records one reply at most once its test is cancelled, and, until a      *)
(* write acts on a test that is past what was read, does what TestPromise  *)
(* allows.                                                                 *)
(***************************************************************************)
EXTENDS ModelTestRunner, TLAPS

Table    == [Tests -> Test \cup {NoTest}]
Statuses == Active \cup Verdict

-----------------------------------------------------------------------------
(* The rows, and what a statement does to them.                            *)

\* A test has the runs its plan says, and one that isn't there has none.
LEMMA RowParts ==
    ASSUME NEW t \in Test \cup {NoTest}
    PROVE  /\ t.status = "none" <=> t = NoTest
           /\ t.status \in Statuses \cup {"none"}
           /\ t # NoTest => t \in Test /\ t.status \in Statuses /\ t.plan \in Plans
           /\ t = NoTest => DOMAIN t.runs = {}
           /\ \A k \in DOMAIN t.runs : /\ t.runs[k] \in RunStatus
                                       /\ k \in Nat \ {0}
                                       /\ t.plan[k] \in Models
<1> USE DEF Statuses, Test, NoTest, Active, Verdict
<1>1. CASE t = NoTest
  BY <1>1
<1>2. CASE t \in Test
  <2>1. PICK p \in Plans : t.runs \in [DOMAIN p -> RunStatus]
    BY <1>2
  <2>2. t.plan \in Plans /\ DOMAIN p = DOMAIN t.plan /\ t.plan \in Seq(Models)
    BY <1>2, <2>1, TestStoreAssumption
  <2>3. DOMAIN t.plan = 1..Len(t.plan) /\ Len(t.plan) \in Nat
    BY <2>2
  <2>4. ASSUME NEW k \in DOMAIN t.runs
        PROVE t.runs[k] \in RunStatus /\ k \in Nat \ {0} /\ t.plan[k] \in Models
    <3>1. k \in DOMAIN p
      BY <2>1, <2>4
    <3>2. k \in 1..Len(t.plan)
      BY <3>1, <2>2, <2>3
    <3> QED  BY <2>1, <3>1, <3>2, <2>2
  <2>5. t.status \in Statuses /\ t.status # "none"
    BY <1>2
  <2> QED  BY <1>2, <2>2, <2>4, <2>5
<1> QED  BY <1>1, <1>2

\* A test whose runs are in other states is one.
LEMMA OtherRuns ==
    ASSUME NEW t \in Test \cup {NoTest}, NEW f \in [DOMAIN t.runs -> RunStatus],
           NEW u, u = [t EXCEPT !.runs = f]
    PROVE  /\ u \in Test \cup {NoTest}
           /\ u = NoTest <=> t = NoTest
           /\ u.status = t.status
           /\ u.runs = f
<1>1. CASE t = NoTest
  <2>1. f = <<>>
    BY <1>1 DEF NoTest
  <2>2. u = NoTest
    BY <1>1, <2>1 DEF NoTest
  <2> QED  BY <1>1, <2>1, <2>2 DEF NoTest
<1>2. CASE t \in Test
  <2>1. PICK p \in Plans : t.runs \in [DOMAIN p -> RunStatus]
    BY <1>2 DEF Test
  <2>2. f \in [DOMAIN p -> RunStatus]
    BY <2>1
  <2>3. u \in Test /\ u.status = t.status /\ u.runs = f
    BY <1>2, <2>1, <2>2 DEF Test
  <2>4. t # NoTest /\ u # NoTest
    BY <1>2, <2>3 DEF Test, NoTest, Active, Verdict
  <2> QED  BY <2>3, <2>4
<1> QED  BY <1>1, <1>2

\* A statement that changes the runs of one test, and nothing else.
RunsOnly(new, old, id) ==
    /\ new \in Table
    /\ \A i \in Tests \ {id} : new[i] = old[i]
    /\ new[id].status = old[id].status
    /\ new[id] = NoTest <=> old[id] = NoTest
    /\ DOMAIN new[id].runs = DOMAIN old[id].runs

\* UPDATE of a test's status touches that alone.
LEMMA SetStatusEffect ==
    ASSUME NEW old \in Table, NEW id \in Tests, NEW s \in Statuses
    PROVE  LET new == SetStatus(old, id, s)
           IN  /\ new \in Table
               /\ \A i \in Tests \ {id} : new[i] = old[i]
               /\ new[id].runs = old[id].runs
               /\ new[id] = NoTest <=> old[id] = NoTest
               /\ old[id] # NoTest => new[id].status = s
<1>1. CASE old[id] = NoTest
  BY <1>1 DEF SetStatus
<1>2. CASE old[id] # NoTest
  <2> DEFINE u == [old[id] EXCEPT !.status = s]
  <2>1. old[id] \in Test
    BY <1>2 DEF Table
  <2>2. u \in Test /\ u.status = s /\ u.runs = old[id].runs
    BY <2>1 DEF Test, Statuses
  <2>3. u # NoTest
    BY <2>2 DEF Test, NoTest, Statuses, Active, Verdict
  <2>4. SetStatus(old, id, s) = [old EXCEPT ![id] = u]
    BY <1>2 DEF SetStatus
  <2> HIDE DEF u
  <2> QED  BY <1>2, <2>2, <2>3, <2>4 DEF Table
<1> QED  BY <1>1, <1>2

\* One run of a test is given another status.
OneRunSet(new, old, id, k, s) ==
    /\ RunsOnly(new, old, id)
    /\ new[id].runs = [old[id].runs EXCEPT ![k] = s]
    /\ \A j \in DOMAIN old[id].runs : new[id].runs[j] = IF j = k THEN s ELSE old[id].runs[j]

\* UPDATE of a run's status touches that run alone.
LEMMA SetRunEffect ==
    ASSUME NEW old \in Table, NEW id \in Tests, NEW k, NEW s \in RunStatus,
           NEW new, new = SetRun(old, id, k, s)
    PROVE  OneRunSet(new, old, id, k, s)
<1> DEFINE f == [old[id].runs EXCEPT ![k] = s]
<1>1. old[id] \in Test \cup {NoTest}
  BY DEF Table
<1>2. old[id].runs \in [DOMAIN old[id].runs -> RunStatus]
  <2>1. CASE old[id] = NoTest
    BY <2>1 DEF NoTest
  <2>2. CASE old[id] \in Test
    BY <2>2 DEF Test
  <2> QED  BY <1>1, <2>1, <2>2
<1>3. f \in [DOMAIN old[id].runs -> RunStatus]
  BY <1>2
<1>4. \A j \in DOMAIN old[id].runs : f[j] = IF j = k THEN s ELSE old[id].runs[j]
  BY <1>2
<1>5. CASE k \notin DOMAIN old[id].runs
  <2>1. SetRun(old, id, k, s) = old
    BY <1>5 DEF SetRun, Runs
  <2>2. f = old[id].runs
    BY <1>5, <1>2
  <2> QED  BY <1>4, <1>5, <2>1, <2>2 DEF RunsOnly, OneRunSet
<1>6. CASE k \in DOMAIN old[id].runs
  <2>1. PICK u : u = [old[id] EXCEPT !.runs = f]
    OBVIOUS
  <2>2. SetRun(old, id, k, s) = [old EXCEPT ![id] = u]
    BY <1>6, <2>1 DEF SetRun, Runs, Table
  <2> HIDE DEF f
  <2>3. u \in Test \cup {NoTest} /\ u.runs = f /\ u.status = old[id].status /\ (u = NoTest <=> old[id] = NoTest)
    BY <2>1, <1>1, <1>3, OtherRuns
  <2>4. DOMAIN f = DOMAIN old[id].runs
    BY <1>3
  <2>5. RunsOnly(SetRun(old, id, k, s), old, id) /\ SetRun(old, id, k, s)[id].runs = f
    BY <2>2, <2>3, <2>4 DEF RunsOnly, Table
  <2> QED  BY <2>5, <1>4 DEF f, OneRunSet
<1> QED  BY <1>5, <1>6

\* So does dropping what is left of a test.
LEMMA CancelOpenEffect ==
    ASSUME NEW old \in Table, NEW id \in Tests
    PROVE  LET new == CancelOpenRuns(old, id)
           IN  /\ RunsOnly(new, old, id)
               /\ new[id].runs = [j \in DOMAIN old[id].runs |->
                                    IF old[id].runs[j] \in Open THEN "cancelled" ELSE old[id].runs[j]]
<1> DEFINE f == [j \in DOMAIN old[id].runs |->
                   IF old[id].runs[j] \in Open THEN "cancelled" ELSE old[id].runs[j]]
<1>1. old[id] \in Test \cup {NoTest}
  BY DEF Table
<1>2. \A j \in DOMAIN old[id].runs : old[id].runs[j] \in RunStatus
  BY <1>1, RowParts
<1>3. f \in [DOMAIN old[id].runs -> RunStatus]
  BY <1>2 DEF RunStatus, Verdict
<1>4. PICK u : u = [old[id] EXCEPT !.runs = f]
  OBVIOUS
<1>5. CancelOpenRuns(old, id) = [old EXCEPT ![id] = u]
  BY <1>4 DEF CancelOpenRuns, Table
<1> HIDE DEF f
<1>6. u \in Test \cup {NoTest} /\ u.runs = f /\ u.status = old[id].status /\ (u = NoTest <=> old[id] = NoTest)
  BY <1>1, <1>3, <1>4, OtherRuns
<1>7. DOMAIN f = DOMAIN old[id].runs
  BY <1>3
<1>8. RunsOnly(CancelOpenRuns(old, id), old, id) /\ CancelOpenRuns(old, id)[id].runs = f
  BY <1>5, <1>6, <1>7 DEF RunsOnly, Table
<1> QED  BY <1>8 DEF f

\* A restart puts every run that was cut off back in its place.
LEMMA RequeueRunsEffect ==
    ASSUME NEW old \in Table
    PROVE  LET new == RequeueRuns(old)
           IN  /\ new \in Table
               /\ \A id \in Tests :
                     /\ new[id].status = old[id].status
                     /\ new[id] = NoTest <=> old[id] = NoTest
                     /\ new[id].runs = [j \in DOMAIN old[id].runs |->
                           IF old[id].runs[j] = "running" THEN "pending" ELSE old[id].runs[j]]
<1> DEFINE f(id) == [j \in DOMAIN old[id].runs |->
                       IF old[id].runs[j] = "running" THEN "pending" ELSE old[id].runs[j]]
           u(id) == [old[id] EXCEPT !.runs = f(id)]
<1>1. ASSUME NEW id \in Tests
      PROVE  /\ u(id) \in Test \cup {NoTest}
             /\ u(id).runs = f(id)
             /\ u(id).status = old[id].status
             /\ u(id) = NoTest <=> old[id] = NoTest
  <2>1. old[id] \in Test \cup {NoTest}
    BY DEF Table
  <2>2. \A j \in DOMAIN old[id].runs : old[id].runs[j] \in RunStatus
    BY <2>1, RowParts
  <2>3. f(id) \in [DOMAIN old[id].runs -> RunStatus]
    BY <2>2 DEF RunStatus, Open
  <2> HIDE DEF f
  <2> QED  BY <2>1, <2>3, OtherRuns, RowParts
<1>2. RequeueRuns(old) = [id \in Tests |-> u(id)]
  BY DEF RequeueRuns
<1>3. RequeueRuns(old) \in Table /\ \A id \in Tests : RequeueRuns(old)[id] = u(id)
  <2> HIDE DEF u
  <2> QED  BY <1>1, <1>2 DEF Table
<1> HIDE DEF u
<1> QED  BY <1>1, <1>3

\* ... and every test back in the queue.
LEMMA RequeueTestsEffect ==
    ASSUME NEW old \in Table
    PROVE  LET new == RequeueTests(old)
           IN  /\ new \in Table
               /\ \A id \in Tests :
                     /\ new[id].runs = old[id].runs
                     /\ new[id] = NoTest <=> old[id] = NoTest
                     /\ new[id].status = IF old[id].status = "running" THEN "queued" ELSE old[id].status
<1> DEFINE u(id) == IF old[id].status = "running" THEN [old[id] EXCEPT !.status = "queued"] ELSE old[id]
<1>1. ASSUME NEW id \in Tests
      PROVE  /\ u(id) \in Test \cup {NoTest}
             /\ u(id).runs = old[id].runs
             /\ u(id).status = IF old[id].status = "running" THEN "queued" ELSE old[id].status
             /\ u(id) = NoTest <=> old[id] = NoTest
  <2>1. old[id] \in Test \cup {NoTest}
    BY DEF Table
  <2>2. CASE old[id].status = "running"
    <3>1. old[id] \in Test
      BY <2>1, <2>2 DEF NoTest
    <3>2. [old[id] EXCEPT !.status = "queued"] \in Test /\ u(id) = [old[id] EXCEPT !.status = "queued"]
      BY <2>2, <3>1 DEF Test, Active
    <3>3. u(id).status = "queued" /\ u(id).runs = old[id].runs
      BY <3>1, <3>2 DEF Test
    <3> QED  BY <2>2, <3>1, <3>2, <3>3 DEF NoTest
  <2>3. CASE old[id].status # "running"
    BY <2>1, <2>3
  <2> QED  BY <2>2, <2>3
<1>2. RequeueTests(old) = [id \in Tests |-> u(id)]
  BY DEF RequeueTests
<1>3. RequeueTests(old) \in Table /\ \A id \in Tests : RequeueTests(old)[id] = u(id)
  <2> HIDE DEF u
  <2> QED  BY <1>1, <1>2 DEF Table
<1> HIDE DEF u
<1> QED  BY <1>1, <1>3

\* A new test is queued, with all of its runs to do.
LEMMA CreateEffect ==
    ASSUME NEW old \in Table, NEW id \in Tests, NEW plan \in Plans
    PROVE  LET new == CreateModelTest(old, id, plan)
           IN  /\ new \in Table
               /\ \A i \in Tests \ {id} : new[i] = old[i]
               /\ new[id].status = "queued"
               /\ new[id].runs = [k \in DOMAIN plan |-> "pending"]
               /\ new[id] # NoTest
<1> DEFINE u == [status |-> "queued", plan |-> plan, runs |-> [k \in DOMAIN plan |-> "pending"]]
<1>1. [k \in DOMAIN plan |-> "pending"] \in [DOMAIN plan -> RunStatus]
  BY DEF RunStatus, Open
<1>2. u \in Test
  BY <1>1 DEF Test, Active
<1>3. u.status = "queued" /\ u.runs = [k \in DOMAIN plan |-> "pending"] /\ u # NoTest
  BY DEF NoTest
<1>4. CreateModelTest(old, id, plan) = [old EXCEPT ![id] = u]
  BY DEF CreateModelTest
<1> HIDE DEF u
<1> QED  BY <1>2, <1>3, <1>4 DEF Table

\* A closed test goes with its runs.
LEMMA DeleteEffect ==
    ASSUME NEW old \in Table, NEW id \in Tests, old[id].status \in Verdict
    PROVE  LET new == DeleteModelTest(old, id)
           IN  /\ new \in Table
               /\ \A i \in Tests \ {id} : new[i] = old[i]
               /\ new[id] = NoTest
BY DEF DeleteModelTest, Table

-----------------------------------------------------------------------------
(* Types.                                                                  *)

\* Every step is of one of these kinds; the proofs below go through them.
LEMMA StepKinds ==
    ASSUME [Next]_vars
    PROVE  \/ Boot \/ Requeue \/ ReadQueue \/ Awaken \/ Stop \/ IdleTimeout
           \/ Register \/ Start \/ Find \/ Swap \/ Look \/ Begin \/ Chat
           \/ Judge \/ Record \/ RecordCancelled \/ Count \/ Free \/ Sweep \/ Mark
           \/ Abandon \/ LetGo \/ Clear
           \/ \E c \in Clients, plan \in Plans : Create(c, plan)
           \/ \E c \in Clients, id \in Tests : CancelRunning(c, id) \/ CancelOther(c, id)
           \/ \E c \in Clients : Wake(c) \/ CancelRead(c) \/ CancelSweep(c) \/ CancelMark(c) \/ Disconnect(c)
           \/ \E id \in Tests : Delete(id)
           \/ \E m \in Shared : UserLoads(m) \/ Unloaded(m)
           \/ Shutdown \/ Exit \/ Crash
           \/ UNCHANGED vars
BY DEF Next, Run, Process, Handler, HandlerGoesOn

\* Where process is between two steps.
Processing == {"register", "start", "find", "swap", "look", "begin", "chat", "settle", "record",
               "drop", "count", "free", "sweep", "mark", "release", "clear"}

\* What the worker and the handlers have in hand when they get to a step.
InHand ==
    /\ IF pc \in Processing THEN job \in Tests ELSE job = 0
    /\ pc \in {"swap", "look", "begin", "chat", "settle", "record", "drop"} => run # NoRun
    /\ pc \in {"settle", "record"} => reply # "none"
    /\ pc \in {"free", "sweep", "mark"} => verdict # "none"
    /\ \A c \in Clients : client[c].at \in {"miss", "sweep", "mark"} => client[c].id \in Tests

Typed == TypeOK /\ InHand

\* The first state has the right types.
LEMMA InitTyped == Init => Typed
<1> SUFFICES ASSUME Init PROVE Typed
  OBVIOUS
<1>1. \A c \in Clients : client[c] = AtRest
  BY DEF Init
<1>2. client \in [Clients -> [at : ClientSteps, id : Tests \cup {0}]]
  BY DEF Init, AtRest, ClientSteps
<1>3. TypeOK
  BY <1>2 DEF Init, TypeOK, WorkerSteps
<1>4. InHand
  BY <1>1 DEF Init, InHand, Processing, AtRest
<1> QED  BY <1>3, <1>4 DEF Typed

\* The next run is for a model, ...
LEMMA FindTyped ==
    ASSUME Typed, Find
    PROVE  /\ run' # NoRun => run'.k \in Nat \ {0} /\ run'.model \in Models
           /\ pc' # "count" => run' # NoRun
           /\ UNCHANGED <<tests, memory, job, current, leave, reply, verdict, cancelID, cause,
                          late, wake, world, stale>>
           /\ pc' \in {"count", "begin", "swap"} /\ job \in Tests
<1>1. job \in Tests /\ tests[job] \in Test \cup {NoTest}
  BY DEF Find, Typed, TypeOK, InHand, Processing
<1>2. ASSUME NEW k \in Runs(tests, job), run' = [k |-> k, model |-> tests[job].plan[k]]
      PROVE  run' # NoRun /\ run'.k \in Nat \ {0} /\ run'.model \in Models
  <2>1. k \in Nat \ {0} /\ tests[job].plan[k] \in Models
    BY <1>1, <1>2, RowParts DEF Runs
  <2> QED  BY <1>2, <2>1, TestStoreAssumption DEF NoRun
<1>3. CASE pc' = "count" /\ UNCHANGED run
  BY <1>1, <1>3 DEF Find, Typed, TypeOK
<1> QED  BY <1>1, <1>2, <1>3 DEF Find

\* ... and every statement keeps the tables tables.
LEMMA TablesTyped ==
    ASSUME Typed, [Next]_vars
    PROVE  tests' \in Table
<1>1. tests \in Table /\ job \in Tests \cup {0}
  BY DEF Typed, TypeOK, Table
<1>2. CASE UNCHANGED tests
  BY <1>1, <1>2
<1>3. CASE Boot
  BY <1>1, <1>3, RequeueRunsEffect DEF Boot
<1>4. CASE Requeue
  BY <1>1, <1>4, RequeueTestsEffect DEF Requeue
<1>5. CASE Start \/ Mark
  <2>1. job \in Tests
    BY <1>5 DEF Start, Mark, Typed, InHand, Processing
  <2>2. "running" \in Statuses /\ (verdict # "none" => verdict \in Statuses)
    BY DEF Typed, TypeOK, Statuses, Active
  <2>3. CASE Start
    BY <1>1, <2>1, <2>2, <2>3, SetStatusEffect DEF Start, StartModelTest
  <2>4. CASE Mark
    <3>1. verdict # "none"
      BY <2>4 DEF Mark, Typed, InHand
    <3> QED  BY <1>1, <2>1, <2>2, <2>4, <3>1, SetStatusEffect DEF Mark
  <2> QED  BY <1>5, <2>3, <2>4
<1>6. CASE Begin \/ Record \/ RecordCancelled
  <2>1. job \in Tests
    BY <1>6 DEF Begin, Record, RecordCancelled, Typed, InHand, Processing
  <2>2. pc = "record" => reply \in RunStatus
    BY DEF Typed, InHand, TypeOK, RunStatus, Verdict
  <2>3. PICK s \in RunStatus : tests' = SetRun(tests, job, run.k, s)
    BY <1>6, <2>2 DEF Begin, Record, RecordCancelled, RunStatus, Open, Verdict
  <2>4. RunsOnly(tests', tests, job)
    BY <1>1, <2>1, <2>3, SetRunEffect DEF OneRunSet
  <2> QED  BY <2>4 DEF RunsOnly
<1>7. CASE Sweep
  <2>1. job \in Tests
    BY <1>7 DEF Sweep, Typed, InHand, Processing
  <2> QED  BY <1>1, <1>7, <2>1, CancelOpenEffect DEF Sweep, RunsOnly
<1>8. ASSUME NEW c \in Clients, NEW plan \in Plans, Create(c, plan) PROVE tests' \in Table
  <2>1. PICK id \in Tests : tests' = CreateModelTest(tests, id, plan)
    BY <1>8 DEF Create
  <2> QED  BY <1>1, <2>1, CreateEffect
<1>9. ASSUME NEW c \in Clients, CancelSweep(c) PROVE tests' \in Table
  <2>1. client[c].id \in Tests
    BY <1>9 DEF CancelSweep, Typed, InHand
  <2> QED  BY <1>1, <1>9, <2>1, CancelOpenEffect DEF CancelSweep, RunsOnly
<1>10. ASSUME NEW c \in Clients, CancelMark(c) PROVE tests' \in Table
  <2>1. client[c].id \in Tests /\ "cancelled" \in Statuses
    BY <1>10 DEF CancelMark, Typed, InHand, Statuses, Verdict
  <2> QED  BY <1>1, <1>10, <2>1, SetStatusEffect DEF CancelMark
<1>11. ASSUME NEW id \in Tests, Delete(id) PROVE tests' \in Table
  BY <1>1, <1>11, DeleteEffect DEF Delete
<1>12. CASE ~UNCHANGED tests
  BY <1>3, <1>4, <1>5, <1>6, <1>7, <1>8, <1>9, <1>10, <1>11, <1>12, StepKinds
     DEF ReadQueue, Awaken, Stop, IdleTimeout, Register, Find, Swap, Look, Chat, Judge, Count, Free,
         Abandon, LetGo, Clear, Release, CancelRunning, CancelOther, Wake, CancelRead, Disconnect,
         UserLoads, Unloaded, Shutdown, Exit, Crash, Restart, vars
<1> QED  BY <1>2, <1>12

\* Letting go of a model takes none into memory.
LEMMA ReleaseTyped ==
    ASSUME TypeOK, Release
    PROVE  /\ loaded' \in SUBSET Models
           /\ ours' \in SUBSET loaded'
           /\ ours' \subseteq ours
           /\ current' = NoModel
           /\ refusals' \in Nat
           /\ UNCHANGED <<tests, job, run, leave, reply, verdict, cancelID, cause, late, wake,
                          stopping, client, restarts, stale>>
BY DEF Release, TypeOK, memory

\* A handler that goes on keeps the types of what it has in hand.
LEMMA ClientTyped ==
    ASSUME Typed, NEW c \in Clients, NEW at \in ClientSteps, NEW id \in Tests \cup {0},
           GoOn(c, at, id), at \in {"miss", "sweep", "mark"} => id \in Tests
    PROVE  /\ client' \in [Clients -> [at : ClientSteps, id : Tests \cup {0}]]
           /\ \A d \in Clients : client'[d].at \in {"miss", "sweep", "mark"} => client'[d].id \in Tests
<1>1. client' = [client EXCEPT ![c] = [at |-> at, id |-> id]]
  BY DEF GoOn
<1>2. client \in [Clients -> [at : ClientSteps, id : Tests \cup {0}]]
  BY DEF Typed, TypeOK
<1>3. \A d \in Clients : client'[d] = IF d = c THEN [at |-> at, id |-> id] ELSE client[d]
  BY <1>1, <1>2
<1>4. client' \in [Clients -> [at : ClientSteps, id : Tests \cup {0}]]
  BY <1>1, <1>2
<1>5. ASSUME NEW d \in Clients, client'[d].at \in {"miss", "sweep", "mark"} PROVE client'[d].id \in Tests
  <2>1. CASE d = c
    BY <1>3, <1>5, <2>1
  <2>2. CASE d # c
    BY <1>3, <1>5, <2>2 DEF Typed, InHand
  <2> QED  BY <2>1, <2>2
<1> QED  BY <1>4, <1>5

\* Every step keeps the types.
LEMMA NextTyped == Typed /\ [Next]_vars => Typed'
<1> SUFFICES ASSUME Typed, [Next]_vars PROVE Typed'
  OBVIOUS
<1> USE DEF Typed, TypeOK, InHand, Processing, WorkerSteps
<1>0. tests' \in [Tests -> Test \cup {NoTest}]
  BY TablesTyped DEF Table
<1>1. CASE Boot \/ Requeue
  BY <1>0, <1>1 DEF Boot, Requeue, memory, inhand, world
<1>2. CASE ReadQueue \/ Awaken \/ Stop \/ IdleTimeout
  <2>1. CASE ReadQueue
    BY <1>0, <2>1 DEF ReadQueue, memory, inhand, world
  <2>2. CASE Awaken \/ Stop \/ IdleTimeout
    BY <1>0, <2>2 DEF Awaken, Stop, IdleTimeout, memory, inhand, world
  <2> QED  BY <1>2, <2>1, <2>2
<1>3. CASE Register \/ Start
  <2>1. CASE Register
    BY <1>0, <2>1 DEF Register, memory, inhand, world
  <2>2. CASE Start
    BY <1>0, <2>2 DEF Start, memory, inhand, world
  <2> QED  BY <1>3, <2>1, <2>2
<1>4. CASE Find
  BY <1>0, <1>4, FindTyped DEF Find, memory, world
<1>5. CASE Swap
  BY <1>0, <1>5, ReleaseTyped DEF Swap
<1>6. CASE Look
  <2>1. leave' \in BOOLEAN
    <3>1. leave' \in {run.model \in loaded, FALSE}
      BY <1>6 DEF Look
    <3>2. (run.model \in loaded) \in BOOLEAN
      OBVIOUS
    <3> QED  BY <3>1, <3>2
  <2>2. current' \in Models /\ run # NoRun /\ job \in Tests
    BY <1>6 DEF Look
  <2>3. UNCHANGED <<loaded, ours, job, run, reply, verdict, cancelID, cause, late, wake, stopping,
                    client, restarts, refusals, stale>>
    BY <1>6 DEF Look, memory, world
  <2> QED  BY <1>0, <1>6, <2>1, <2>2, <2>3 DEF Look
<1>7. CASE Begin
  BY <1>0, <1>7 DEF Begin, memory, inhand, world
<1>8. CASE Chat
  BY <1>0, <1>8 DEF Chat, world
<1>9. CASE Judge \/ Record
  BY <1>0, <1>9 DEF Judge, Record, memory, inhand, world
<1>10. CASE RecordCancelled
  BY <1>0, <1>10 DEF RecordCancelled, memory, world, Verdict
<1>11. CASE Count
  BY <1>0, <1>11 DEF Count, memory, world, Verdict
<1>12. CASE Free
  BY <1>0, <1>12, ReleaseTyped DEF Free
<1>13. CASE Sweep \/ Mark
  BY <1>0, <1>13 DEF Sweep, Mark, memory, inhand, world
<1>14. CASE Abandon
  BY <1>0, <1>14 DEF Abandon, memory, inhand, world
<1>15. CASE LetGo
  BY <1>0, <1>15, ReleaseTyped DEF LetGo
<1>16. CASE Clear
  BY <1>0, <1>16 DEF Clear, memory, world
<1>17. ASSUME NEW c \in Clients, NEW plan \in Plans, Create(c, plan) PROVE Typed'
  <2>1. GoOn(c, "wake", 0)
    BY <1>17 DEF Create
  <2>2. "wake" \in ClientSteps
    BY DEF ClientSteps
  <2>3. /\ client' \in [Clients -> [at : ClientSteps, id : Tests \cup {0}]]
        /\ \A d \in Clients : client'[d].at \in {"miss", "sweep", "mark"} => client'[d].id \in Tests
    BY <2>1, <2>2, ClientTyped
  <2> QED  BY <1>0, <1>17, <2>3 DEF Create, memory, worker
<1>18. ASSUME NEW c \in Clients, NEW id \in Tests, CancelRunning(c, id) PROVE Typed'
  BY <1>0, <1>18 DEF CancelRunning, memory, inhand, world
<1>19. ASSUME NEW c \in Clients, NEW id \in Tests, CancelOther(c, id) PROVE Typed'
  <2>1. GoOn(c, "miss", id)
    BY <1>19 DEF CancelOther
  <2>2. "miss" \in ClientSteps
    BY DEF ClientSteps
  <2>3. /\ client' \in [Clients -> [at : ClientSteps, id : Tests \cup {0}]]
        /\ \A d \in Clients : client'[d].at \in {"miss", "sweep", "mark"} => client'[d].id \in Tests
    BY <2>1, <2>2, ClientTyped
  <2> QED  BY <1>0, <1>19, <2>3 DEF CancelOther, memory, worker
<1>20. ASSUME NEW c \in Clients,
              Wake(c) \/ CancelRead(c) \/ CancelSweep(c) \/ CancelMark(c) \/ Disconnect(c)
       PROVE  Typed'
  <2>1. \/ GoOn(c, "rest", 0)
        \/ client[c].at \in {"miss", "sweep"} /\ \E at \in {"sweep", "mark"} : GoOn(c, at, client[c].id)
    BY <1>20 DEF Wake, CancelRead, CancelSweep, CancelMark, Disconnect
  <2>2. {"rest", "sweep", "mark"} \subseteq ClientSteps
    BY DEF ClientSteps
  <2>3. /\ client' \in [Clients -> [at : ClientSteps, id : Tests \cup {0}]]
        /\ \A d \in Clients : client'[d].at \in {"miss", "sweep", "mark"} => client'[d].id \in Tests
    <3>1. CASE GoOn(c, "rest", 0)
      BY <2>2, <3>1, ClientTyped
    <3>2. ASSUME client[c].at \in {"miss", "sweep"}, NEW at \in {"sweep", "mark"}, GoOn(c, at, client[c].id)
          PROVE  /\ client' \in [Clients -> [at : ClientSteps, id : Tests \cup {0}]]
                 /\ \A d \in Clients : client'[d].at \in {"miss", "sweep", "mark"} => client'[d].id \in Tests
      <4>1. client[c].id \in Tests
        BY <3>2
      <4>2. at \in ClientSteps
        BY <2>2
      <4> QED  BY <3>2, <4>1, <4>2, ClientTyped
    <3> QED  BY <2>1, <3>1, <3>2
  <2>4. UNCHANGED <<loaded, ours, pc, job, run, current, leave, reply, verdict, cancelID, cause,
                    late, stopping, restarts, refusals>>
    BY <1>20 DEF Wake, CancelRead, CancelSweep, CancelMark, Disconnect, memory, worker
  <2>5. wake' \in BOOLEAN /\ stale' \in BOOLEAN
    BY <1>20 DEF Wake, CancelRead, CancelSweep, CancelMark, Disconnect
  <2> QED  BY <1>0, <2>3, <2>4, <2>5
<1>21. ASSUME NEW id \in Tests, Delete(id) PROVE Typed'
  BY <1>0, <1>21 DEF Delete, memory, worker, world
<1>22. ASSUME NEW m \in Shared, UserLoads(m) \/ Unloaded(m) PROVE Typed'
  BY <1>0, <1>22, RunnerAssumption DEF UserLoads, Unloaded, worker, world
<1>23. CASE Shutdown
  BY <1>0, <1>23 DEF Shutdown, memory, worker
<1>24. CASE Exit \/ Crash
  <2>1. client' = [c \in Clients |-> AtRest]
    BY <1>24 DEF Exit, Crash, Restart
  <2>2. /\ client' \in [Clients -> [at : ClientSteps, id : Tests \cup {0}]]
        /\ \A d \in Clients : client'[d].at \notin {"miss", "sweep", "mark"}
    BY <2>1 DEF AtRest, ClientSteps
  <2>3. Restart
    BY <1>24 DEF Exit, Crash
  <2>4. restarts' \in Nat
    BY <2>3 DEF Restart
  <2>5. UNCHANGED <<loaded, ours, refusals, stale>>
    BY <2>3 DEF Restart, memory
  <2> QED  BY <1>0, <2>2, <2>3, <2>4, <2>5 DEF Restart
<1>25. CASE UNCHANGED vars
  BY <1>0, <1>25 DEF vars
<1> QED  BY <1>1, <1>2, <1>3, <1>4, <1>5, <1>6, <1>7, <1>8, <1>9, <1>10, <1>11, <1>12, <1>13, <1>14,
            <1>15, <1>16, <1>17, <1>18, <1>19, <1>20, <1>21, <1>22, <1>23, <1>24, <1>25, StepKinds

\* Every variable keeps its type, also across crashes.
THEOREM TypeCorrect == Spec => []TypeOK
<1>1. Spec => []Typed
  BY InitTyped, NextTyped, PTL DEF Spec
<1>2. Typed => TypeOK
  BY DEF Typed
<1> QED  BY <1>1, <1>2, PTL

-----------------------------------------------------------------------------
(* One test at a time.                                                     *)

\* What a step does to the row of one test; the id it is about, if any, is the
\* worker's or a handler's.
LEMMA RowStep ==
    ASSUME Typed, [Next]_vars, NEW i \in Tests
    PROVE  \/ tests'[i] = tests[i]
           \/ Boot /\ tests' = RequeueRuns(tests)
           \/ Requeue /\ tests' = RequeueTests(tests)
           \/ i = job /\ (Start \/ Mark \/ Begin \/ Record \/ RecordCancelled \/ Sweep)
           \/ \E c \in Clients, plan \in Plans :
                 /\ Create(c, plan) /\ tests[i] = NoTest
                 /\ tests'[i].status = "queued" /\ tests'[i].runs = [k \in DOMAIN plan |-> "pending"]
           \/ \E c \in Clients : i = client[c].id /\ (CancelSweep(c) \/ CancelMark(c))
           \/ Delete(i) /\ tests'[i] = NoTest
<1> USE DEF Typed, TypeOK, InHand
<1>0. tests \in Table
  BY DEF Table
<1>1. CASE UNCHANGED tests
  BY <1>1
<1>2. CASE Boot
  BY <1>2 DEF Boot
<1>3. CASE Requeue
  BY <1>3 DEF Requeue
<1>4. CASE Start \/ Mark
  <2>1. job \in Tests
    BY <1>4 DEF Start, Mark, Processing
  <2>2. \E s : tests' = SetStatus(tests, job, s)
    BY <1>4 DEF Start, Mark, StartModelTest
  <2>3. i # job => tests'[i] = tests[i]
    BY <2>1, <2>2 DEF SetStatus
  <2> QED  BY <1>4, <2>3
<1>5. CASE Begin \/ Record \/ RecordCancelled
  <2>1. job \in Tests
    BY <1>5 DEF Begin, Record, RecordCancelled, Processing
  <2>2. \E s : tests' = SetRun(tests, job, run.k, s)
    BY <1>5 DEF Begin, Record, RecordCancelled
  <2>3. i # job => tests'[i] = tests[i]
    BY <2>1, <2>2 DEF SetRun
  <2> QED  BY <1>5, <2>3
<1>6. CASE Sweep
  BY <1>6 DEF Sweep, CancelOpenRuns
<1>7. ASSUME NEW c \in Clients, NEW plan \in Plans, Create(c, plan)
      PROVE  \/ tests'[i] = tests[i]
             \/ /\ Create(c, plan) /\ tests[i] = NoTest
                /\ tests'[i].status = "queued" /\ tests'[i].runs = [k \in DOMAIN plan |-> "pending"]
  <2>1. PICK id \in Tests : IsNewTest(tests, id) /\ tests' = CreateModelTest(tests, id, plan)
    BY <1>7 DEF Create
  <2>2. id >= id
    BY DEF Tests
  <2>3. tests[id] = NoTest
    BY <2>1, <2>2 DEF IsNewTest
  <2>4. CASE i = id
    BY <1>0, <1>7, <2>1, <2>3, <2>4, CreateEffect
  <2>5. CASE i # id
    BY <1>0, <2>1, <2>5, CreateEffect
  <2> QED  BY <2>4, <2>5
<1>8. ASSUME NEW c \in Clients, CancelSweep(c) \/ CancelMark(c)
      PROVE  i # client[c].id => tests'[i] = tests[i]
  BY <1>8 DEF CancelSweep, CancelMark, CancelOpenRuns, SetStatus
<1>9. ASSUME NEW id \in Tests, Delete(id)
      PROVE  tests'[i] = tests[i] \/ (Delete(i) /\ tests'[i] = NoTest)
  BY <1>0, <1>9, DeleteEffect DEF Delete
<1>10. CASE ~UNCHANGED tests
  BY <1>2, <1>3, <1>4, <1>5, <1>6, <1>7, <1>8, <1>9, <1>10, StepKinds
     DEF ReadQueue, Awaken, Stop, IdleTimeout, Register, Find, Swap, Look, Chat, Judge, Count, Free,
         Abandon, LetGo, Clear, Release, CancelRunning, CancelOther, Wake, CancelRead, Disconnect,
         UserLoads, Unloaded, Shutdown, Exit, Crash, Restart, vars
<1> QED  BY <1>1, <1>10

\* Writing the run in hand.
LEMMA RunWritten ==
    ASSUME Typed, job \in Tests, NEW s \in RunStatus, tests' = SetRun(tests, job, run.k, s)
    PROVE  OneRunSet(tests', tests, job, run.k, s)
<1>1. tests \in Table
  BY DEF Typed, TypeOK, Table
<1> QED  BY <1>1, SetRunEffect

\* What a step does to the status of a test, and to its runs as a whole.
StatusStep(i) ==
    \/ tests'[i].status = tests[i].status
    \/ Requeue /\ tests[i].status = "running" /\ tests'[i].status = "queued"
    \/ Start /\ i = job /\ tests'[i].status = "running"
    \/ Mark /\ i = job /\ tests'[i].status = verdict
    \/ \E c \in Clients : CancelMark(c) /\ i = client[c].id /\ tests'[i].status = "cancelled"
    \/ (\E c \in Clients, plan \in Plans : Create(c, plan)) /\ tests[i] = NoTest /\ tests'[i].status = "queued"
    \/ Delete(i) /\ tests'[i] = NoTest

RunsStep(i) ==
    \/ tests'[i].runs = tests[i].runs
    \/ /\ Boot
       /\ tests'[i].runs = [j \in DOMAIN tests[i].runs |->
                              IF tests[i].runs[j] = "running" THEN "pending" ELSE tests[i].runs[j]]
    \/ Begin /\ i = job /\ OneRunSet(tests', tests, i, run.k, "running")
    \/ Record /\ i = job /\ OneRunSet(tests', tests, i, run.k, reply)
    \/ RecordCancelled /\ i = job /\ OneRunSet(tests', tests, i, run.k, "cancelled")
    \/ /\ (Sweep /\ i = job) \/ (\E c \in Clients : CancelSweep(c) /\ i = client[c].id)
       /\ tests'[i].runs = [j \in DOMAIN tests[i].runs |->
                              IF tests[i].runs[j] \in Open THEN "cancelled" ELSE tests[i].runs[j]]
    \/ /\ (\E c \in Clients, plan \in Plans : Create(c, plan)) /\ tests[i] = NoTest
       /\ \E plan \in Plans : tests'[i].runs = [k \in DOMAIN plan |-> "pending"]
    \/ Delete(i) /\ tests'[i] = NoTest

\* Every step changes a test in one of these ways.
LEMMA TestStep ==
    ASSUME Typed, [Next]_vars, NEW i \in Tests
    PROVE  StatusStep(i) /\ RunsStep(i)
<1>0. tests \in Table
  BY DEF Typed, TypeOK, Table
<1>1. CASE tests'[i] = tests[i]
  BY <1>1 DEF StatusStep, RunsStep
<1>2. CASE Boot /\ tests' = RequeueRuns(tests)
  <2>1. /\ tests'[i].status = tests[i].status
        /\ tests'[i].runs = [j \in DOMAIN tests[i].runs |->
                               IF tests[i].runs[j] = "running" THEN "pending" ELSE tests[i].runs[j]]
    BY <1>0, <1>2, RequeueRunsEffect
  <2> QED  BY <1>2, <2>1 DEF StatusStep, RunsStep
<1>3. CASE Requeue /\ tests' = RequeueTests(tests)
  <2>1. /\ tests'[i].runs = tests[i].runs
        /\ tests'[i].status = IF tests[i].status = "running" THEN "queued" ELSE tests[i].status
    BY <1>0, <1>3, RequeueTestsEffect
  <2> QED  BY <1>3, <2>1 DEF StatusStep, RunsStep
<1>4. ASSUME NEW s \in Statuses, tests' = SetStatus(tests, i, s)
      PROVE  tests'[i] = tests[i] \/ (tests'[i].runs = tests[i].runs /\ tests'[i].status = s)
  BY <1>0, <1>4, SetStatusEffect DEF SetStatus
<1>5. CASE i = job /\ Start
  <2>1. tests' = SetStatus(tests, i, "running") /\ "running" \in Statuses
    BY <1>5 DEF Start, StartModelTest, Statuses, Active
  <2> QED  BY <1>4, <1>5, <2>1 DEF StatusStep, RunsStep
<1>6. CASE i = job /\ Mark
  <2>1. tests' = SetStatus(tests, i, verdict) /\ verdict \in Verdict
    BY <1>6 DEF Mark, Typed, TypeOK, InHand
  <2>2. verdict \in Statuses
    BY <2>1 DEF Statuses
  <2> QED  BY <1>4, <1>6, <2>1, <2>2 DEF StatusStep, RunsStep
<1>7. ASSUME NEW c \in Clients, i = client[c].id, CancelMark(c) PROVE StatusStep(i) /\ RunsStep(i)
  <2>1. tests' = SetStatus(tests, i, "cancelled") /\ "cancelled" \in Statuses
    BY <1>7 DEF CancelMark, Statuses, Verdict
  <2> QED  BY <1>4, <1>7, <2>1 DEF StatusStep, RunsStep
<1>8. CASE i = job /\ Begin
  <2>1. tests' = SetRun(tests, job, run.k, "running") /\ "running" \in RunStatus
    BY <1>8 DEF Begin, RunStatus, Open
  <2>2. OneRunSet(tests', tests, i, run.k, "running")
    BY <1>8, <2>1, RunWritten
  <2> QED  BY <1>8, <2>2 DEF StatusStep, RunsStep, OneRunSet, RunsOnly
<1>9. CASE i = job /\ Record
  <2>1. tests' = SetRun(tests, job, run.k, reply) /\ reply \in RunStatus
    BY <1>9 DEF Record, Typed, TypeOK, InHand, RunStatus, Verdict
  <2>2. OneRunSet(tests', tests, i, run.k, reply)
    BY <1>9, <2>1, RunWritten
  <2> QED  BY <1>9, <2>2 DEF StatusStep, RunsStep, OneRunSet, RunsOnly
<1>10. CASE i = job /\ RecordCancelled
  <2>1. tests' = SetRun(tests, job, run.k, "cancelled") /\ "cancelled" \in RunStatus
    BY <1>10 DEF RecordCancelled, RunStatus, Verdict
  <2>2. OneRunSet(tests', tests, i, run.k, "cancelled")
    BY <1>10, <2>1, RunWritten
  <2> QED  BY <1>10, <2>2 DEF StatusStep, RunsStep, OneRunSet, RunsOnly
<1>11. ASSUME tests' = CancelOpenRuns(tests, i)
       PROVE  /\ tests'[i].status = tests[i].status
              /\ tests'[i].runs = [j \in DOMAIN tests[i].runs |->
                                    IF tests[i].runs[j] \in Open THEN "cancelled" ELSE tests[i].runs[j]]
  BY <1>0, <1>11, CancelOpenEffect DEF RunsOnly
<1>12. CASE i = job /\ Sweep
  <2>1. tests' = CancelOpenRuns(tests, i)
    BY <1>12 DEF Sweep
  <2> QED  BY <1>11, <1>12, <2>1 DEF StatusStep, RunsStep
<1>13. ASSUME NEW c \in Clients, i = client[c].id, CancelSweep(c) PROVE StatusStep(i) /\ RunsStep(i)
  <2>1. tests' = CancelOpenRuns(tests, i)
    BY <1>13 DEF CancelSweep
  <2> QED  BY <1>11, <1>13, <2>1 DEF StatusStep, RunsStep
<1>14. ASSUME NEW c \in Clients, NEW plan \in Plans, Create(c, plan), tests[i] = NoTest,
              tests'[i].status = "queued", tests'[i].runs = [k \in DOMAIN plan |-> "pending"]
       PROVE  StatusStep(i) /\ RunsStep(i)
  BY <1>14 DEF StatusStep, RunsStep
<1>15. CASE Delete(i) /\ tests'[i] = NoTest
  BY <1>15 DEF StatusStep, RunsStep
<1> QED  BY <1>1, <1>2, <1>3, <1>5, <1>6, <1>7, <1>8, <1>9, <1>10, <1>12, <1>13, <1>14, <1>15, RowStep

\* ... and each of its runs in one of these.
LEMMA RunStep ==
    ASSUME Typed, [Next]_vars, NEW i \in Tests, NEW k \in Runs(tests', i)
    PROVE  \/ HasStatus(tests, i, k, tests'[i].runs[k])
           \/ Boot /\ HasStatus(tests, i, k, "running") /\ tests'[i].runs[k] = "pending"
           \/ Begin /\ i = job /\ k = run.k /\ k \in Runs(tests, i) /\ tests'[i].runs[k] = "running"
           \/ Record /\ i = job /\ k = run.k /\ k \in Runs(tests, i) /\ tests'[i].runs[k] = reply
           \/ RecordCancelled /\ i = job /\ k = run.k /\ k \in Runs(tests, i) /\ tests'[i].runs[k] = "cancelled"
           \/ /\ (Sweep /\ i = job) \/ (\E c \in Clients : CancelSweep(c) /\ i = client[c].id)
              /\ k \in Runs(tests, i) /\ tests[i].runs[k] \in Open /\ tests'[i].runs[k] = "cancelled"
           \/ /\ (\E c \in Clients, plan \in Plans : Create(c, plan)) /\ tests[i] = NoTest
              /\ tests'[i].runs[k] = "pending"
<1> USE DEF Runs, HasStatus
<1>1. CASE tests'[i].runs = tests[i].runs
  BY <1>1
<1>2. CASE /\ Boot
           /\ tests'[i].runs = [j \in DOMAIN tests[i].runs |->
                                  IF tests[i].runs[j] = "running" THEN "pending" ELSE tests[i].runs[j]]
  BY <1>2
<1>3. ASSUME NEW s, OneRunSet(tests', tests, i, run.k, s)
      PROVE  \/ HasStatus(tests, i, k, tests'[i].runs[k])
             \/ k = run.k /\ k \in Runs(tests, i) /\ tests'[i].runs[k] = s
  BY <1>3 DEF OneRunSet, RunsOnly
<1>4. CASE Begin /\ i = job /\ OneRunSet(tests', tests, i, run.k, "running")
  BY <1>3, <1>4
<1>5. CASE Record /\ i = job /\ OneRunSet(tests', tests, i, run.k, reply)
  BY <1>3, <1>5
<1>6. CASE RecordCancelled /\ i = job /\ OneRunSet(tests', tests, i, run.k, "cancelled")
  BY <1>3, <1>6
<1>7. CASE /\ (Sweep /\ i = job) \/ (\E c \in Clients : CancelSweep(c) /\ i = client[c].id)
           /\ tests'[i].runs = [j \in DOMAIN tests[i].runs |->
                                  IF tests[i].runs[j] \in Open THEN "cancelled" ELSE tests[i].runs[j]]
  <2>1. CASE tests[i].runs[k] \in Open
    BY <1>7, <2>1
  <2>2. CASE tests[i].runs[k] \notin Open
    BY <1>7, <2>2
  <2> QED  BY <2>1, <2>2
<1>8. CASE /\ (\E c \in Clients, plan \in Plans : Create(c, plan)) /\ tests[i] = NoTest
           /\ \E plan \in Plans : tests'[i].runs = [j \in DOMAIN plan |-> "pending"]
  BY <1>8
<1>9. CASE Delete(i) /\ tests'[i] = NoTest
  BY <1>9 DEF NoTest
<1>10. RunsStep(i)
  BY TestStep
<1> QED  BY <1>1, <1>2, <1>4, <1>5, <1>6, <1>7, <1>8, <1>9, <1>10 DEF RunsStep

\* Only the worker marks a test, and a run of it, as running.
LEMMA NewlyRunning ==
    ASSUME Typed, [Next]_vars, NEW i \in Tests
    PROVE  /\ tests'[i].status = "running" => tests[i].status = "running" \/ (Start /\ i = job)
           /\ \A k \in Runs(tests', i) : tests'[i].runs[k] = "running" =>
                 HasStatus(tests, i, k, "running") \/ (Begin /\ i = job /\ k = run.k)
<1>1. (Mark => verdict # "running") /\ (Record => reply # "running")
  BY DEF Typed, TypeOK, Verdict
<1>2. tests'[i].status = "running" => tests[i].status = "running" \/ (Start /\ i = job)
  BY <1>1, TestStep DEF StatusStep, NoTest
<1>3. ASSUME NEW k \in Runs(tests', i), tests'[i].runs[k] = "running"
      PROVE  HasStatus(tests, i, k, "running") \/ (Begin /\ i = job /\ k = run.k)
  BY <1>1, <1>3, RunStep
<1> QED  BY <1>2, <1>3

\* Where the worker may be while a test, or a run of it, is marked as running.
MayRun(i)       == \/ i = job /\ (stopping \/ pc \notin {"release", "clear"})
                   \/ pc \in {"boot", "requeue", "off"}
MayBeDone(i, k) == \/ i = job /\ k = run.k /\ (stopping \/ pc \in {"chat", "settle", "record", "drop"})
                   \/ pc \in {"boot", "off"}

\* A step that takes the worker elsewhere leaves nothing running behind.
LEMMA NothingLeftRunning ==
    ASSUME Typed, OneTestRuns, [Next]_vars, NEW i \in Tests
    PROVE  /\ MayRun(i) => MayRun(i)' \/ tests'[i].status # "running"
           /\ \A k \in Runs(tests, i) :
                 MayBeDone(i, k) => MayBeDone(i, k)' \/ ~HasStatus(tests', i, k, "running")
<1> USE DEF Typed, TypeOK, InHand, Processing, MayRun, MayBeDone
<1> DEFINE Claim ==
        /\ MayRun(i) => MayRun(i)' \/ tests'[i].status # "running"
        /\ \A k \in Runs(tests, i) :
              MayBeDone(i, k) => MayBeDone(i, k)' \/ ~HasStatus(tests', i, k, "running")
<1>0. tests \in Table
  BY DEF Table
<1>1. CASE Boot
  <2>1. tests'[i].runs = [j \in DOMAIN tests[i].runs |->
                            IF tests[i].runs[j] = "running" THEN "pending" ELSE tests[i].runs[j]]
    BY <1>0, <1>1, RequeueRunsEffect DEF Boot
  <2> QED  BY <1>1, <2>1 DEF Boot, HasStatus, Runs
<1>2. CASE Requeue
  <2>1. tests'[i].status # "running"
    BY <1>0, <1>2, RequeueTestsEffect DEF Requeue
  <2> QED  BY <1>2, <2>1 DEF Requeue, inhand, world
<1>3. CASE ReadQueue \/ Awaken \/ Stop \/ IdleTimeout
  BY <1>3, TestStoreAssumption DEF ReadQueue, Awaken, Stop, IdleTimeout, inhand, world, Tests
<1>4. CASE Register \/ Start
  BY <1>4 DEF Register, Start, inhand, world
<1>5. CASE Find \/ Swap \/ Look \/ Begin \/ Chat \/ Judge
  BY <1>5 DEF Find, Swap, Look, Begin, Chat, Judge, Release, inhand, world
<1>6. CASE Record \/ RecordCancelled
  <2>1. PICK s \in Verdict : tests' = SetRun(tests, job, run.k, s)
    BY <1>6 DEF Record, RecordCancelled, Verdict
  <2>2. s \in RunStatus /\ s # "running" /\ job \in Tests
    BY <1>6 DEF RunStatus, Verdict, Record, RecordCancelled
  <2>3. OneRunSet(tests', tests, job, run.k, s)
    BY <2>1, <2>2, RunWritten
  <2>4. UNCHANGED <<job, run, stopping>> /\ pc \in {"record", "drop"} /\ pc' \in {"find", "sweep"}
    BY <1>6 DEF Record, RecordCancelled, inhand, world
  <2> QED  BY <2>2, <2>3, <2>4 DEF HasStatus, Runs, RunsOnly, OneRunSet
<1>7. CASE Count \/ Free \/ Sweep \/ Abandon \/ LetGo
  BY <1>7 DEF Count, Free, Sweep, Abandon, LetGo, Release, inhand, world
<1>8. CASE Mark
  <2>1. tests' = SetStatus(tests, job, verdict) /\ verdict \in Verdict /\ job \in Tests
    BY <1>8 DEF Mark
  <2>2. verdict \in Statuses /\ verdict # "running"
    BY <2>1 DEF Statuses, Verdict
  <2>3. /\ tests'[job] = NoTest <=> tests[job] = NoTest
        /\ tests[job] # NoTest => tests'[job].status = verdict
    BY <1>0, <2>1, <2>2, SetStatusEffect
  <2>4. tests'[job].status # "running"
    BY <2>2, <2>3 DEF NoTest
  <2> QED  BY <1>8, <2>4 DEF Mark, inhand, world
<1>9. CASE Clear
  <2>1. CASE stopping
    BY <1>9, <2>1 DEF Clear
  <2>2. CASE ~stopping
    BY <1>9, <2>2 DEF Clear
  <2> QED  BY <2>1, <2>2
<1>10. CASE UNCHANGED <<job, run, stopping, pc>>
  BY <1>10
<1>11. CASE Shutdown
  BY <1>11 DEF Shutdown, worker
<1>12. CASE Exit \/ Crash
  BY <1>12 DEF Exit, Crash, Restart
<1>13. CASE ~UNCHANGED <<job, run, stopping, pc>>
  BY <1>1, <1>2, <1>3, <1>4, <1>5, <1>6, <1>7, <1>8, <1>9, <1>11, <1>12, <1>13, StepKinds
     DEF Create, CancelRunning, CancelOther, Wake, CancelRead, CancelSweep, CancelMark, Disconnect,
         Delete, UserLoads, Unloaded, worker, inhand, world, vars
<1> QED  BY <1>10, <1>13

\* Every step keeps it at one.
LEMMA OneTestRunsNext == Typed /\ OneTestRuns /\ [Next]_vars => OneTestRuns'
<1> SUFFICES ASSUME Typed, OneTestRuns, [Next]_vars PROVE OneTestRuns'
  OBVIOUS
<1>1. ASSUME NEW i \in Tests, tests'[i].status = "running" PROVE MayRun(i)'
  <2>1. CASE Start /\ i = job
    BY <2>1 DEF Start, MayRun
  <2>2. CASE tests[i].status = "running"
    <3>1. MayRun(i)
      BY <2>2 DEF OneTestRuns, MayRun
    <3> QED  BY <1>1, <3>1, NothingLeftRunning
  <2> QED  BY <1>1, <2>1, <2>2, NewlyRunning
<1>2. ASSUME NEW i \in Tests, NEW k \in Runs(tests', i), tests'[i].runs[k] = "running"
      PROVE  MayBeDone(i, k)'
  <2>1. CASE Begin /\ i = job /\ k = run.k
    BY <2>1 DEF Begin, MayBeDone, inhand
  <2>2. CASE HasStatus(tests, i, k, "running")
    <3>1. MayBeDone(i, k) /\ k \in Runs(tests, i)
      BY <2>2 DEF OneTestRuns, MayBeDone, HasStatus
    <3>2. HasStatus(tests', i, k, "running")
      BY <1>2 DEF HasStatus
    <3> QED  BY <3>1, <3>2, NothingLeftRunning
  <2> QED  BY <1>2, <2>1, <2>2, NewlyRunning
<1> QED  BY <1>1, <1>2 DEF OneTestRuns, MayRun, MayBeDone

\* One test at a time, and one run of it, whatever crashes and handlers do.
THEOREM OneTestAtATime == Spec => []OneTestRuns
<1>1. Init => OneTestRuns
  BY DEF Init, OneTestRuns
<1>2. Spec => []Typed
  BY InitTyped, NextTyped, PTL DEF Spec
<1> QED  BY <1>1, <1>2, OneTestRunsNext, PTL DEF Spec

\* Nothing is recorded late but what process was about to write when the cancel
\* came; it asks about the cancel before it is about to write another.
Stops ==
    /\ late <= 1
    /\ cause # "user" => late = 0
    /\ pc = "record" => late = 0

\* Every step keeps it so: the counter moves with a reply that is recorded, and is
\* set back with the test or the process.
LEMMA StopsNext == Typed /\ Stops /\ [Next]_vars => Stops'
<1> SUFFICES ASSUME Typed, Stops, [Next]_vars PROVE Stops'
  OBVIOUS
<1> USE DEF Stops
<1>1. CASE Judge
  BY <1>1 DEF Judge
<1>2. CASE Record
  BY <1>2 DEF Record
<1>3. CASE Register \/ Clear \/ Exit \/ Crash
  BY <1>3 DEF Register, Clear, Exit, Crash, Restart
<1>4. ASSUME NEW c \in Clients, NEW id \in Tests, CancelRunning(c, id) PROVE Stops'
  BY <1>4 DEF CancelRunning
<1>5. CASE UNCHANGED <<late, cause>> /\ (pc' = pc \/ pc' # "record")
  BY <1>5
<1>6. CASE ~(UNCHANGED <<late, cause>> /\ (pc' = pc \/ pc' # "record"))
  BY <1>1, <1>2, <1>3, <1>4, <1>6, StepKinds
  DEF Boot, Requeue, ReadQueue, Awaken, Stop, IdleTimeout, Start, Find, Swap, Look, Begin,
      Chat, RecordCancelled, Count, Free, Sweep, Mark, Abandon, LetGo, Release,
      Create, CancelOther, Wake, CancelRead, CancelSweep, CancelMark, Disconnect,
      Delete, UserLoads, Unloaded, Shutdown, worker, vars
<1> QED  BY <1>5, <1>6

\* Once a test is cancelled, one reply more is recorded at most, whatever handlers,
\* Ollama and restarts do.
THEOREM CancelledTestsStop == Spec => []CancelStopsRuns
<1>1. Init => Stops
  BY DEF Init, Stops
<1>2. Spec => []Typed
  BY InitTyped, NextTyped, PTL DEF Spec
<1>3. Stops => CancelStopsRuns
  BY DEF Stops, CancelStopsRuns
<1> QED  BY <1>1, <1>2, <1>3, StopsNext, PTL DEF Spec

-----------------------------------------------------------------------------
(* Memory.                                                                 *)

\* Until a restart, a refusal or a shutdown (short of the chat in progress)
\* nothing the worker loaded is in memory but the model it has in hand, and not
\* that one if someone else had it loaded.
OnlyInHand ==
    restarts = 0 /\ refusals = 0 /\ (~stopping \/ pc = "chat") =>
        /\ ours \subseteq {current}
        /\ leave => ours = {}
        /\ pc = "look" => current = NoModel
        /\ pc \in {"begin", "chat"} => current = run.model

\* Letting go of a model leaves none that is to be unloaded.
LEMMA ReleaseEmpties ==
    ASSUME Typed, OnlyInHand, Release, pc # "chat", pc' # "chat", pc' \notin {"begin", "chat"}
    PROVE  OnlyInHand'
<1> SUFFICES ASSUME restarts' = 0, refusals' = 0, ~stopping'
             PROVE  ours' = {} /\ current' = NoModel
  BY DEF OnlyInHand
<1>1. refusals \in Nat /\ ours \subseteq Models /\ NoModel \notin Models
  BY TestStoreAssumption DEF Typed, TypeOK
<1>2. restarts = 0 /\ ~stopping /\ current' = NoModel
  BY DEF Release
<1>3. CASE loaded' = loaded \ {current} /\ ours' = ours \ {current} /\ UNCHANGED refusals
  BY <1>2, <1>3 DEF OnlyInHand
<1>4. CASE refusals' = refusals + 1
  BY <1>1, <1>4
<1>5. CASE (current = NoModel \/ leave \/ stopping) /\ UNCHANGED <<memory, refusals>>
  BY <1>1, <1>2, <1>5 DEF OnlyInHand, memory
<1> QED  BY <1>2, <1>3, <1>4, <1>5 DEF Release

\* Every step keeps it so.
LEMMA OnlyInHandNext == Typed /\ OnlyInHand /\ [Next]_vars => OnlyInHand'
<1> SUFFICES ASSUME Typed, OnlyInHand, [Next]_vars PROVE OnlyInHand'
  OBVIOUS
<1>1. CASE Boot \/ Requeue \/ ReadQueue \/ Awaken \/ Stop \/ IdleTimeout \/ Register \/ Start
  BY <1>1 DEF Boot, Requeue, ReadQueue, Awaken, Stop, IdleTimeout, Register, Start, OnlyInHand,
              memory, inhand, world
<1>2. CASE Find
  BY <1>2 DEF Find, OnlyInHand, memory, world
<1>3. CASE Swap \/ Free \/ LetGo
  BY <1>3, ReleaseEmpties DEF Swap, Free, LetGo
<1>4. CASE Look
  <2>1. ours \subseteq Models /\ NoModel \notin Models
    BY TestStoreAssumption DEF Typed, TypeOK
  <2>2. UNCHANGED <<ours, run, restarts, refusals, stopping>> /\ pc = "look" /\ pc' = "begin" /\ current' = run.model
    BY <1>4 DEF Look, memory, world
  <2>3. restarts' = 0 /\ refusals' = 0 /\ ~stopping' => ours' = {}
    BY <2>1, <2>2 DEF OnlyInHand
  <2> QED  BY <2>2, <2>3 DEF OnlyInHand
<1>5. CASE Begin
  BY <1>5 DEF Begin, OnlyInHand, memory, inhand, world
<1>6. CASE Chat
  <2>1. loaded' \ loaded \subseteq {run.model} /\ ours' = ours \cup (IF leave THEN {} ELSE loaded' \ loaded)
    BY <1>6 DEF Chat
  <2>2. UNCHANGED <<run, current, leave, restarts, refusals, stopping>> /\ pc = "chat" /\ pc' = "settle"
    BY <1>6 DEF Chat, world
  <2> QED  BY <2>1, <2>2 DEF OnlyInHand
<1>7. CASE Judge \/ Record \/ RecordCancelled \/ Count \/ Sweep \/ Mark \/ Abandon
  BY <1>7
  DEF Judge, Record, RecordCancelled, Count, Sweep, Mark, Abandon, OnlyInHand, memory, inhand, world
<1>8. CASE Clear
  BY <1>8 DEF Clear, OnlyInHand, memory, world
<1>9. ASSUME NEW m \in Shared, UserLoads(m) \/ Unloaded(m) PROVE OnlyInHand'
  BY <1>9 DEF UserLoads, Unloaded, OnlyInHand, worker, world
<1>10. CASE Shutdown
  BY <1>10 DEF Shutdown, OnlyInHand, memory, worker
<1>11. CASE Exit \/ Crash
  <2>1. restarts' = restarts + 1 /\ restarts \in Nat
    BY <1>11 DEF Exit, Crash, Restart, Typed, TypeOK
  <2>2. restarts' # 0
    BY <2>1
  <2> QED  BY <2>2 DEF OnlyInHand
<1>12. CASE UNCHANGED <<ours, current, leave, pc, run, restarts, refusals, stopping>>
  BY <1>12 DEF OnlyInHand
<1>13. CASE ~UNCHANGED <<ours, current, leave, pc, run, restarts, refusals, stopping>>
  BY <1>1, <1>2, <1>3, <1>4, <1>5, <1>6, <1>7, <1>8, <1>9, <1>10, <1>11, <1>13, StepKinds
     DEF Create, CancelRunning, CancelOther, Wake, CancelRead, CancelSweep, CancelMark, Disconnect,
         Delete, memory, worker, inhand, world, vars
<1> QED  BY <1>12, <1>13

\* The models have the memory to themselves, one after the other, as long as
\* the app isn't restarted and Ollama unloads what it is asked to.
THEOREM ModelsHaveTheirTurn == Spec => []TakesTurns
<1>1. Init => OnlyInHand
  BY DEF Init, OnlyInHand
<1>2. OnlyInHand => TakesTurns
  BY DEF OnlyInHand, TakesTurns, ModelsTakeTurns
<1>3. Spec => []Typed
  BY InitTyped, NextTyped, PTL DEF Spec
<1> QED  BY <1>1, <1>2, <1>3, OnlyInHandNext, PTL DEF Spec

-----------------------------------------------------------------------------
(* What is true of the tables until a stale write.                         *)

\* Where the test in hand has been started, and not yet settled.
Doing  == {"find", "swap", "look", "begin", "chat", "settle", "record", "drop", "count", "free",
           "sweep", "mark"}
Chatting == {"chat", "settle", "record", "drop"}
Judged == {"free", "sweep", "mark"}

AllDone(id) == \A k \in Runs(tests, id) : tests[id].runs[k] \notin Open

\* At most one run, and one test, are marked as running, also after a restart.
OneOfEach ==
    \A i, j \in Tests :
        /\ \A k \in Runs(tests, i), l \in Runs(tests, j) :
              tests[i].runs[k] = "running" /\ tests[j].runs[l] = "running" => i = j /\ k = l
        /\ tests[i].status = "running" /\ tests[j].status = "running" => i = j

\* The test that is about to be started is the oldest in the queue.
FirstInLine ==
    pc \in {"register", "start"} =>
        tests[job] # NoTest /\ \A i \in Tests : tests[i].status = "queued" => job <= i

\* The test in hand is marked as running, and the run in hand is still to do or
\* marked as running, too.
MarkedRunning ==
    /\ pc \in Doing => tests[job].status = "running"
    /\ pc \in {"swap", "look", "begin"} => IsNextPending(tests, job, run.k)
    /\ pc \in Chatting => HasStatus(tests, job, run.k, "running")

\* The verdict fits the runs, and is only given once none is left.
VerdictFits ==
    /\ pc \in Judged =>
          /\ verdict = "completed" => \E k \in Runs(tests, job) : tests[job].runs[k] = "completed"
          /\ verdict = "failed" => \A k \in Runs(tests, job) : tests[job].runs[k] # "completed"
          /\ verdict = "cancelled" => \E k \in Runs(tests, job) : tests[job].runs[k] = "cancelled"
    /\ pc = "mark" => AllDone(job)

\* A closed test has no run left; nor has one that a handler is about to close.
ClosedAreDone ==
    /\ \A i \in Tests : tests[i].status \in Verdict => AllDone(i)
    /\ \A c \in Clients : /\ client[c].at \in {"sweep", "mark"} => tests[client[c].id] # NoTest
                          /\ client[c].at = "mark" => AllDone(client[c].id)

Sound == OneOfEach /\ FirstInLine /\ MarkedRunning /\ VerdictFits /\ ClosedAreDone

SoundUntilStale == ~stale => Sound

\* A stale write is not forgotten.
LEMMA StaleStays == [Next]_vars /\ stale => stale'
<1> SUFFICES ASSUME [Next]_vars, stale PROVE stale'
  OBVIOUS
<1> QED
  BY StepKinds
  DEF Boot, Requeue, ReadQueue, Awaken, Stop, IdleTimeout, Register, Start, Find, Swap, Look, Begin,
      Chat, Judge, Record, RecordCancelled, Count, Free, Sweep, Mark, Abandon, LetGo, Clear, Release,
      Create, CancelRunning, CancelOther, Wake, CancelRead, CancelSweep, CancelMark, Disconnect,
      Delete, UserLoads, Unloaded, Shutdown, Exit, Crash, Restart, vars

\* How the worker gets where it is, with what it has in hand.
LEMMA WorkerMoves ==
    ASSUME Typed, [Next]_vars
    PROVE  /\ pc' \in {"register", "start"} =>
                 ReadQueue \/ (pc \in {"register", "start"} /\ UNCHANGED job)
           /\ pc' \in Doing => (Start \/ pc \in Doing) /\ UNCHANGED job
           /\ pc' \in {"swap", "look", "begin"} =>
                 Find \/ (pc \in {"swap", "look", "begin"} /\ UNCHANGED run)
           /\ pc' \in Chatting => (Begin \/ pc \in Chatting) /\ UNCHANGED run
           /\ pc' \in Judged =>
                 Count \/ RecordCancelled \/ (pc \in Judged /\ UNCHANGED verdict)
           /\ pc' = "mark" => Sweep \/ pc = "mark"
<1> USE DEF Doing, Judged, Chatting
<1>1. CASE Boot \/ Requeue \/ Awaken \/ Stop \/ IdleTimeout \/ Abandon \/ Mark \/ LetGo \/ Clear
  BY <1>1 DEF Boot, Requeue, Awaken, Stop, IdleTimeout, Abandon, Mark, LetGo, Clear
<1>2. CASE ReadQueue
  BY <1>2 DEF ReadQueue
<1>3. CASE Register \/ Start \/ Begin \/ Judge \/ Record \/ Sweep
  BY <1>3 DEF Register, Start, Begin, Judge, Record, Sweep, inhand
<1>4. CASE Find \/ Look \/ Chat \/ Count \/ RecordCancelled
  BY <1>4 DEF Find, Look, Chat, Count, RecordCancelled
<1>5. CASE Swap \/ Free
  BY <1>5 DEF Swap, Free, Release
<1>6. CASE Exit \/ Crash
  BY <1>6 DEF Exit, Crash, Restart
<1>7. CASE UNCHANGED <<pc, job, run, verdict>>
  BY <1>7
<1>8. CASE ~UNCHANGED <<pc, job, run, verdict>>
  BY <1>1, <1>2, <1>3, <1>4, <1>5, <1>6, <1>8, StepKinds
     DEF Create, CancelRunning, CancelOther, Wake, CancelRead, CancelSweep, CancelMark, Disconnect,
         Delete, UserLoads, Unloaded, Shutdown, worker, inhand, vars
<1> QED  BY <1>7, <1>8

\* How a handler gets to the statements of a cancel.
LEMMA HandlerMoves ==
    ASSUME Typed, [Next]_vars, NEW d \in Clients, client'[d].at \in {"sweep", "mark"}
    PROVE  /\ client'[d].id = client[d].id
           /\ \/ CancelRead(d) /\ tests[client[d].id].status = "queued"
              \/ client[d].at \in {"sweep", "mark"}
           /\ client'[d].at = "mark" => CancelSweep(d) \/ client[d].at = "mark"
<1>0. client \in [Clients -> [at : ClientSteps, id : Tests \cup {0}]]
  BY DEF Typed, TypeOK
<1>1. ASSUME NEW c \in Clients, NEW at, NEW id, GoOn(c, at, id)
      PROVE  client'[d] = IF d = c THEN [at |-> at, id |-> id] ELSE client[d]
  BY <1>0, <1>1 DEF GoOn
<1>2. CASE client'[d] = client[d]
  BY <1>2
<1>3. ASSUME NEW c \in Clients, NEW plan \in Plans, Create(c, plan) PROVE client'[d] = client[d]
  <2>1. GoOn(c, "wake", 0)
    BY <1>3 DEF Create
  <2>2. client'[d] = IF d = c THEN [at |-> "wake", id |-> 0] ELSE client[d]
    BY <1>1, <2>1
  <2> QED  BY <2>2
<1>4. ASSUME NEW c \in Clients, NEW id \in Tests, CancelRunning(c, id) \/ CancelOther(c, id)
      PROVE  client'[d] = client[d]
  <2>1. client' = client \/ GoOn(c, "miss", id)
    BY <1>4 DEF CancelRunning, CancelOther, world
  <2>2. GoOn(c, "miss", id) => client'[d] = IF d = c THEN [at |-> "miss", id |-> id] ELSE client[d]
    BY <1>1
  <2> QED  BY <2>1, <2>2
<1>5. ASSUME NEW c \in Clients, Wake(c) \/ Disconnect(c) \/ CancelMark(c) PROVE client'[d] = client[d]
  <2>1. GoOn(c, "rest", 0)
    BY <1>5 DEF Wake, Disconnect, CancelMark
  <2>2. client'[d] = IF d = c THEN [at |-> "rest", id |-> 0] ELSE client[d]
    BY <1>1, <2>1
  <2> QED  BY <2>2
<1>6. ASSUME NEW c \in Clients, CancelRead(c)
      PROVE  \/ client'[d] = client[d]
             \/ c = d /\ tests[client[d].id].status = "queued" /\ client'[d] = [at |-> "sweep", id |-> client[d].id]
  <2>1. \/ GoOn(c, "rest", 0)
        \/ tests[client[c].id].status = "queued" /\ GoOn(c, "sweep", client[c].id)
    BY <1>6 DEF CancelRead
  <2>2. GoOn(c, "rest", 0) => client'[d] = IF d = c THEN [at |-> "rest", id |-> 0] ELSE client[d]
    BY <1>1
  <2>3. GoOn(c, "sweep", client[c].id) =>
           client'[d] = IF d = c THEN [at |-> "sweep", id |-> client[c].id] ELSE client[d]
    BY <1>1
  <2> QED  BY <2>1, <2>2, <2>3
<1>7. ASSUME NEW c \in Clients, CancelSweep(c)
      PROVE  \/ client'[d] = client[d]
             \/ c = d /\ client[d].at = "sweep" /\ client'[d] = [at |-> "mark", id |-> client[d].id]
  <2>1. GoOn(c, "mark", client[c].id) /\ client[c].at = "sweep"
    BY <1>7 DEF CancelSweep
  <2>2. client'[d] = IF d = c THEN [at |-> "mark", id |-> client[c].id] ELSE client[d]
    BY <1>1, <2>1
  <2> QED  BY <2>1, <2>2
<1>8. ~(Exit \/ Crash)
  BY DEF Exit, Crash, Restart, AtRest
<1>9. \/ UNCHANGED client
      \/ \E c \in Clients, plan \in Plans : Create(c, plan)
      \/ \E c \in Clients, id \in Tests : CancelRunning(c, id) \/ CancelOther(c, id)
      \/ \E c \in Clients : Wake(c) \/ CancelRead(c) \/ CancelSweep(c) \/ CancelMark(c) \/ Disconnect(c)
      \/ Exit \/ Crash
  BY StepKinds
     DEF Boot, Requeue, ReadQueue, Awaken, Stop, IdleTimeout, Register, Start, Find, Swap, Look, Begin,
         Chat, Judge, Record, RecordCancelled, Count, Free, Sweep, Mark, Abandon, LetGo, Clear, Release,
         Delete, UserLoads, Unloaded, Shutdown, world, vars
<1>10. \/ client'[d] = client[d]
       \/ CancelRead(d) /\ tests[client[d].id].status = "queued" /\ client'[d] = [at |-> "sweep", id |-> client[d].id]
       \/ CancelSweep(d) /\ client[d].at = "sweep" /\ client'[d] = [at |-> "mark", id |-> client[d].id]
  BY <1>3, <1>4, <1>5, <1>6, <1>7, <1>8, <1>9
<1> QED  BY <1>2, <1>10

\* What makes a write not stale.
LEMMA InTime ==
    ASSUME ~stale', NEW i \in Tests
    PROVE  /\ Start => tests[job].status = "queued"
           /\ \A c \in Clients : (CancelSweep(c) \/ CancelMark(c)) /\ i = client[c].id =>
                 tests[i].status \in {"queued", "cancelled", "none"}
           /\ Delete(i) => ~Claimed(i)
BY DEF Start, CancelSweep, CancelMark, TooLate, Delete

\* A row that isn't there has no status and no runs, before and after a step.
LEMMA Absent ==
    ASSUME Typed, [Next]_vars, NEW i \in Tests
    PROVE  /\ tests[i].status = "none" <=> tests[i] = NoTest
           /\ tests'[i].status = "none" <=> tests'[i] = NoTest
           /\ tests[i] = NoTest => Runs(tests, i) = {}
           /\ tests'[i] = NoTest => Runs(tests', i) = {}
           /\ "none" \notin Statuses
<1>1. tests[i] \in Test \cup {NoTest} /\ tests'[i] \in Test \cup {NoTest}
  BY TablesTyped DEF Typed, TypeOK, Table
<1> QED  BY <1>1, RowParts DEF Runs, Statuses, Active, Verdict

\* A run that is open was so before, unless its test is new.
LEMMA OpenBefore ==
    ASSUME Typed, MarkedRunning, [Next]_vars, NEW i \in Tests, NEW k \in Runs(tests', i),
           tests'[i].runs[k] \in Open
    PROVE  (k \in Runs(tests, i) /\ tests[i].runs[k] \in Open) \/ tests[i] = NoTest
<1>1. Begin /\ i = job /\ k = run.k => tests[i].runs[k] = "pending"
  BY DEF MarkedRunning, Begin, IsNextPending, HasStatus
<1>2. "cancelled" \notin Open /\ (Record => reply \notin Open) /\ {"pending", "running"} = Open
  BY DEF Open, Record, Typed, TypeOK
<1> QED  BY <1>1, <1>2, RunStep DEF HasStatus

\* There is one of each, stale writes or not.
LEMMA OneOfEachNext ==
    ASSUME Typed, OneTestRuns, OneOfEach, [Next]_vars
    PROVE  OneOfEach'
<1>1. ASSUME NEW i \in Tests, NEW j \in Tests, NEW k \in Runs(tests', i), NEW l \in Runs(tests', j),
             tests'[i].runs[k] = "running", tests'[j].runs[l] = "running"
      PROVE  i = j /\ k = l
  <2>1. CASE Begin
    <3>1. \A x \in Tests : \A y \in Runs(tests, x) : ~HasStatus(tests, x, y, "running")
      BY <2>1 DEF Begin, OneTestRuns, HasStatus
    <3> QED  BY <1>1, <3>1, NewlyRunning DEF HasStatus
  <2>2. CASE ~Begin
    <3>1. HasStatus(tests, i, k, "running") /\ HasStatus(tests, j, l, "running")
      BY <1>1, <2>2, NewlyRunning
    <3> QED  BY <3>1 DEF OneOfEach, HasStatus
  <2> QED  BY <2>1, <2>2
<1>2. ASSUME NEW i \in Tests, NEW j \in Tests, tests'[i].status = "running", tests'[j].status = "running"
      PROVE  i = j
  <2>1. CASE Start
    <3>1. \A x \in Tests : tests[x].status = "running" => x = job
      BY <2>1 DEF Start, OneTestRuns
    <3> QED  BY <1>2, <3>1, NewlyRunning
  <2>2. CASE ~Start
    <3>1. tests[i].status = "running" /\ tests[j].status = "running"
      BY <1>2, <2>2, NewlyRunning
    <3> QED  BY <3>1 DEF OneOfEach
  <2> QED  BY <2>1, <2>2
<1> QED  BY <1>1, <1>2 DEF OneOfEach

\* A test that is about to be started stays, and later ones come after it.
LEMMA FirstInLineNext ==
    ASSUME Typed, FirstInLine, [Next]_vars, ~stale'
    PROVE  FirstInLine'
<1> SUFFICES ASSUME pc' \in {"register", "start"}
             PROVE  tests'[job'] # NoTest /\ \A i \in Tests : tests'[i].status = "queued" => job' <= i
  BY DEF FirstInLine
<1>1. CASE ReadQueue
  <2>1. tests' = tests /\ job' \in Tests /\ IsNextQueued(tests, job')
    BY <1>1 DEF ReadQueue
  <2> QED  BY <2>1 DEF IsNextQueued, NoTest
<1>2. CASE ~ReadQueue
  <2>1. /\ pc \in {"register", "start"} /\ job' = job /\ job \in Tests /\ tests[job] # NoTest
        /\ \A i \in Tests : tests[i].status = "queued" => job <= i
    BY <1>2, WorkerMoves DEF FirstInLine, Typed, InHand, Processing
  <2>2. ~Requeue /\ ~Start /\ ~Mark
    BY <2>1 DEF Requeue, Start, Mark
  <2>3. ~Delete(job)
    BY <2>1, InTime DEF Claimed
  <2>4. tests'[job] # NoTest
    BY <2>1, <2>2, <2>3, TestStep, Absent DEF StatusStep
  <2>5. ASSUME NEW i \in Tests, tests'[i].status = "queued" PROVE job <= i
    <3>1. CASE tests[i].status = "queued"
      BY <2>1, <3>1
    <3>2. CASE tests[i].status # "queued"
      <4>1. PICK c \in Clients, plan \in Plans : Create(c, plan)
        BY <2>2, <2>5, <3>2, TestStep DEF StatusStep, NoTest
      <4>2. PICK id \in Tests : IsNewTest(tests, id) /\ tests' = CreateModelTest(tests, id, plan)
        BY <4>1 DEF Create
      <4>3. tests \in Table
        BY DEF Typed, TypeOK, Table
      <4>4. \A x \in Tests \ {id} : tests'[x] = tests[x]
        BY <4>2, <4>3 DEF CreateModelTest, Table
      <4>5. i = id
        BY <2>5, <3>2, <4>4
      <4>6. ~(job >= id)
        BY <2>1, <4>2 DEF IsNewTest
      <4>7. job \in Nat /\ id \in Nat
        BY <2>1, TestStoreAssumption DEF Tests
      <4> QED  BY <4>5, <4>6, <4>7
    <3> QED  BY <3>1, <3>2
  <2> QED  BY <2>1, <2>4, <2>5
<1> QED  BY <1>1, <1>2

\* Nobody but the worker touches the test it is doing.
LEMMA InHandUntouched ==
    ASSUME Typed, MarkedRunning, [Next]_vars, ~stale', pc \in Doing
    PROVE  /\ job \in Tests
           /\ ~Mark => tests'[job].status = "running"
           /\ ~(Begin \/ Record \/ RecordCancelled \/ Sweep) => tests'[job].runs = tests[job].runs
<1>1. job \in Tests /\ tests[job].status = "running"
  BY DEF MarkedRunning, Typed, InHand, Processing, Doing
<1>2. ~Boot /\ ~Requeue /\ ~Start
  BY DEF Boot, Requeue, Start, Doing
<1>3. ~Delete(job) /\ tests[job] # NoTest
  BY <1>1 DEF Delete, Verdict, NoTest
<1>4. \A c \in Clients : ~((CancelSweep(c) \/ CancelMark(c)) /\ job = client[c].id)
  BY <1>1, InTime
<1>5. ~Mark => tests'[job].status = "running"
  BY <1>1, <1>2, <1>3, <1>4, TestStep DEF StatusStep
<1>6. ~(Begin \/ Record \/ RecordCancelled \/ Sweep) => tests'[job].runs = tests[job].runs
  BY <1>1, <1>2, <1>3, <1>4, TestStep DEF RunsStep
<1> QED  BY <1>1, <1>5, <1>6

\* What the worker writes of the run in hand, and when it gives a test up.
LEMMA JobWrites ==
    ASSUME Typed, [Next]_vars, job \in Tests
    PROVE  /\ Begin => OneRunSet(tests', tests, job, run.k, "running")
           /\ Record => OneRunSet(tests', tests, job, run.k, reply)
           /\ RecordCancelled => OneRunSet(tests', tests, job, run.k, "cancelled")
           /\ Sweep => tests'[job].runs = [j \in DOMAIN tests[job].runs |->
                                             IF tests[job].runs[j] \in Open THEN "cancelled" ELSE tests[job].runs[j]]
<1>1. ASSUME NEW s \in RunStatus, tests' = SetRun(tests, job, run.k, s)
      PROVE  OneRunSet(tests', tests, job, run.k, s)
  BY <1>1, RunWritten
<1>2. {"running", "cancelled"} \subseteq RunStatus /\ (Record => reply \in RunStatus)
  BY DEF Record, Typed, TypeOK, InHand, RunStatus, Open, Verdict
<1>3. Begin => OneRunSet(tests', tests, job, run.k, "running")
  BY <1>1, <1>2 DEF Begin
<1>4. Record => OneRunSet(tests', tests, job, run.k, reply)
  BY <1>1, <1>2 DEF Record
<1>5. RecordCancelled => OneRunSet(tests', tests, job, run.k, "cancelled")
  BY <1>1, <1>2 DEF RecordCancelled
<1>6. tests \in Table
  BY DEF Typed, TypeOK, Table
<1>7. Sweep => tests'[job].runs = [j \in DOMAIN tests[job].runs |->
                                     IF tests[job].runs[j] \in Open THEN "cancelled" ELSE tests[job].runs[j]]
  BY <1>6, CancelOpenEffect DEF Sweep
<1> QED  BY <1>3, <1>4, <1>5, <1>7

\* The test and the run in hand stay marked as running until the worker settles them.
LEMMA MarkedRunningNext ==
    ASSUME Typed, MarkedRunning, [Next]_vars, ~stale'
    PROVE  MarkedRunning'
<1>1. ASSUME pc' \in Doing PROVE tests'[job'].status = "running"
  <2>1. CASE Start
    <3>1. tests \in Table /\ job \in Tests /\ "running" \in Statuses /\ tests[job].status = "queued" /\ job' = job
      BY <2>1, InTime DEF Start, Typed, TypeOK, InHand, Processing, Table, Statuses, Active, inhand
    <3>2. tests[job] # NoTest /\ tests' = SetStatus(tests, job, "running")
      BY <2>1, <3>1 DEF NoTest, Start, StartModelTest
    <3>3. tests'[job].status = "running"
      BY <3>1, <3>2, SetStatusEffect
    <3> QED  BY <3>1, <3>3
  <2>2. CASE ~Start
    <3>1. pc \in Doing /\ job' = job
      BY <1>1, <2>2, WorkerMoves
    <3>2. ~Mark
      BY <1>1 DEF Mark, Doing
    <3> QED  BY <3>1, <3>2, InHandUntouched
  <2> QED  BY <2>1, <2>2
<1>2. ASSUME pc' \in {"swap", "look", "begin"} PROVE IsNextPending(tests', job', run'.k)
  <2>1. CASE Find
    <3>1. tests' = tests /\ job' = job
      BY <2>1 DEF Find
    <3>2. PICK k \in Runs(tests, job) : IsNextPending(tests, job, k) /\ run' = [k |-> k, model |-> tests[job].plan[k]]
      BY <1>2, <2>1 DEF Find
    <3>3. run'.k = k
      BY <3>2
    <3> QED  BY <3>1, <3>2, <3>3
  <2>2. CASE ~Find
    <3>1. pc \in {"swap", "look", "begin"} /\ run' = run
      BY <1>2, <2>2, WorkerMoves
    <3>2. pc \in Doing /\ pc' \in Doing
      BY <1>2, <3>1 DEF Doing
    <3>3. job' = job
      BY <3>2, WorkerMoves
    <3>4. ~(Begin \/ Record \/ RecordCancelled \/ Sweep)
      BY <1>2, <3>1 DEF Begin, Record, RecordCancelled, Sweep
    <3>5. tests'[job].runs = tests[job].runs
      BY <3>2, <3>4, InHandUntouched
    <3>6. IsNextPending(tests, job, run.k)
      BY <3>1 DEF MarkedRunning
    <3> QED  BY <3>1, <3>3, <3>5, <3>6 DEF IsNextPending, HasStatus, Runs
  <2> QED  BY <2>1, <2>2
<1>3. ASSUME pc' \in Chatting PROVE HasStatus(tests', job', run'.k, "running")
  <2>1. (Begin \/ pc \in Chatting) /\ run' = run
    BY <1>3, WorkerMoves
  <2>2. job' = job
    BY <1>3, WorkerMoves DEF Doing, Chatting
  <2>3. CASE Begin
    <3>1. job \in Tests /\ run.k \in Runs(tests, job)
      BY <2>3 DEF Begin, MarkedRunning, IsNextPending, HasStatus, Typed, InHand, Processing
    <3>2. OneRunSet(tests', tests, job, run.k, "running")
      BY <2>3, <3>1, JobWrites
    <3> QED  BY <2>1, <2>2, <3>1, <3>2 DEF OneRunSet, RunsOnly, HasStatus, Runs
  <2>4. CASE ~Begin
    <3>1. pc \in Chatting /\ pc \in Doing
      BY <2>1, <2>4 DEF Doing, Chatting
    <3>2. ~(Begin \/ Record \/ RecordCancelled \/ Sweep)
      BY <1>3, <3>1 DEF Begin, Record, RecordCancelled, Sweep, Chatting
    <3>3. tests'[job].runs = tests[job].runs
      BY <3>1, <3>2, InHandUntouched
    <3>4. HasStatus(tests, job, run.k, "running")
      BY <3>1 DEF MarkedRunning
    <3> QED  BY <2>1, <2>2, <3>3, <3>4 DEF HasStatus, Runs
  <2> QED  BY <2>3, <2>4
<1> QED  BY <1>1, <1>2, <1>3 DEF MarkedRunning

\* A verdict that fits the runs goes on fitting them.
LEMMA VerdictFitsNext ==
    ASSUME Typed, MarkedRunning, VerdictFits, [Next]_vars, ~stale'
    PROVE  VerdictFits'
<1> DEFINE Fits == /\ verdict = "completed" => \E k \in Runs(tests, job) : tests[job].runs[k] = "completed"
                   /\ verdict = "failed" => \A k \in Runs(tests, job) : tests[job].runs[k] # "completed"
                   /\ verdict = "cancelled" => \E k \in Runs(tests, job) : tests[job].runs[k] = "cancelled"
<1>1. ASSUME pc' \in Judged PROVE Fits'
  <2>1. job' = job
    BY <1>1, WorkerMoves DEF Judged, Doing
  <2>2. CASE Count
    <3>1. tests' = tests /\ verdict' = IF \E k \in Runs(tests, job) : tests[job].runs[k] = "completed"
                                        THEN "completed" ELSE "failed"
      BY <2>2 DEF Count
    <3> QED  BY <2>1, <3>1 DEF Runs
  <2>3. CASE RecordCancelled
    <3>1. job \in Tests /\ run.k \in Runs(tests, job) /\ verdict' = "cancelled"
      BY <2>3 DEF RecordCancelled, MarkedRunning, Chatting, HasStatus, Typed, InHand, Processing
    <3>2. OneRunSet(tests', tests, job, run.k, "cancelled")
      BY <2>3, <3>1, JobWrites
    <3>3. run.k \in Runs(tests', job) /\ tests'[job].runs[run.k] = "cancelled"
      BY <3>1, <3>2 DEF OneRunSet, RunsOnly, Runs
    <3> QED  BY <2>1, <3>1, <3>3
  <2>4. CASE ~Count /\ ~RecordCancelled
    <3>1. pc \in Judged /\ verdict' = verdict
      BY <1>1, <2>4, WorkerMoves
    <3>2. Fits /\ pc \in Doing /\ ~Begin /\ ~Record
      BY <3>1 DEF VerdictFits, Judged, Doing, Begin, Record
    <3>3. job \in Tests
      BY <3>2, InHandUntouched
    <3>4. CASE Sweep
      <4>1. tests'[job].runs = [j \in DOMAIN tests[job].runs |->
                                  IF tests[job].runs[j] \in Open THEN "cancelled" ELSE tests[job].runs[j]]
        BY <3>3, <3>4, JobWrites
      <4>2. "completed" \notin Open /\ "cancelled" \notin Open
        BY DEF Open
      <4>3. ASSUME verdict = "completed" PROVE \E k \in Runs(tests', job) : tests'[job].runs[k] = "completed"
        <5>1. PICK k \in Runs(tests, job) : tests[job].runs[k] = "completed"
          BY <3>2, <4>3
        <5>2. k \in Runs(tests', job) /\ tests'[job].runs[k] = "completed"
          BY <4>1, <4>2, <5>1 DEF Runs
        <5> QED  BY <5>2
      <4>4. ASSUME verdict = "failed", NEW k \in Runs(tests', job) PROVE tests'[job].runs[k] # "completed"
        <5>1. k \in Runs(tests, job)
          BY <4>1 DEF Runs
        <5>2. tests[job].runs[k] # "completed"
          BY <3>2, <4>4, <5>1
        <5> QED  BY <4>1, <5>1, <5>2 DEF Runs
      <4>5. ASSUME verdict = "cancelled" PROVE \E k \in Runs(tests', job) : tests'[job].runs[k] = "cancelled"
        <5>1. PICK k \in Runs(tests, job) : tests[job].runs[k] = "cancelled"
          BY <3>2, <4>5
        <5>2. k \in Runs(tests', job) /\ tests'[job].runs[k] = "cancelled"
          BY <4>1, <4>2, <5>1 DEF Runs
        <5> QED  BY <5>2
      <4> QED  BY <2>1, <3>1, <4>3, <4>4, <4>5
    <3>5. CASE ~Sweep
      <4>1. tests'[job].runs = tests[job].runs
        BY <2>4, <3>2, <3>5, InHandUntouched
      <4> QED  BY <2>1, <3>1, <3>2, <4>1 DEF Runs
    <3> QED  BY <3>4, <3>5
  <2> QED  BY <2>2, <2>3, <2>4
<1>2. ASSUME pc' = "mark" PROVE AllDone(job)'
  <2>1. job' = job /\ (Sweep \/ pc = "mark")
    BY <1>2, WorkerMoves DEF Doing
  <2>2. CASE Sweep
    <3>1. job \in Tests
      BY <2>2 DEF Sweep, Typed, InHand, Processing
    <3>2. tests'[job].runs = [j \in DOMAIN tests[job].runs |->
                                IF tests[job].runs[j] \in Open THEN "cancelled" ELSE tests[job].runs[j]]
      BY <2>2, <3>1, JobWrites
    <3> QED  BY <2>1, <3>2 DEF AllDone, Runs, Open
  <2>3. CASE ~Sweep
    <3>1. pc = "mark" /\ pc \in Doing /\ AllDone(job)
      BY <2>1, <2>3 DEF Doing, VerdictFits
    <3>2. ~(Begin \/ Record \/ RecordCancelled \/ Sweep)
      BY <3>1, <2>3 DEF Begin, Record, RecordCancelled
    <3>3. tests'[job].runs = tests[job].runs
      BY <3>1, <3>2, InHandUntouched
    <3> QED  BY <2>1, <3>1, <3>3 DEF AllDone, Runs
  <2> QED  BY <2>1, <2>2, <2>3
<1> QED  BY <1>1, <1>2 DEF VerdictFits

\* Closed tests stay as they are, and those that a handler closes have no run left.
LEMMA ClosedAreDoneNext ==
    ASSUME Typed, MarkedRunning, VerdictFits, ClosedAreDone, [Next]_vars, ~stale'
    PROVE  ClosedAreDone'
<1>1. ASSUME NEW i \in Tests, tests'[i].status \in Verdict, NEW k \in Runs(tests', i), tests'[i].runs[k] \in Open
      PROVE  FALSE
  <2>1. tests'[i] # NoTest
    BY <1>1 DEF NoTest, Verdict
  <2>2. "queued" \notin Verdict /\ "running" \notin Verdict /\ "none" \notin Verdict
    BY DEF Verdict
  <2>3. \/ tests'[i].status = tests[i].status
        \/ Mark /\ i = job
        \/ \E c \in Clients : CancelMark(c) /\ i = client[c].id
    BY <1>1, <2>1, <2>2, TestStep DEF StatusStep
  <2>4. AllDone(i)
    <3>1. CASE tests'[i].status = tests[i].status
      BY <1>1, <3>1 DEF ClosedAreDone
    <3>2. CASE Mark /\ i = job
      BY <3>2 DEF Mark, VerdictFits
    <3>3. ASSUME NEW c \in Clients, CancelMark(c), i = client[c].id PROVE AllDone(i)
      BY <3>3 DEF CancelMark, ClosedAreDone
    <3> QED  BY <2>3, <3>1, <3>2, <3>3
  <2>5. tests[i] # NoTest
    <3>1. CASE tests'[i].status = tests[i].status
      BY <2>1, <3>1, Absent
    <3>2. CASE Mark /\ i = job
      BY <3>2 DEF Mark, MarkedRunning, Doing, NoTest
    <3>3. ASSUME NEW c \in Clients, CancelMark(c), i = client[c].id PROVE tests[i] # NoTest
      BY <3>3 DEF CancelMark, ClosedAreDone
    <3> QED  BY <2>3, <3>1, <3>2, <3>3
  <2> QED  BY <1>1, <2>4, <2>5, OpenBefore DEF AllDone
<1>2. ASSUME NEW c \in Clients, client'[c].at \in {"sweep", "mark"}
      PROVE  /\ client'[c].id = client[c].id /\ client[c].id \in Tests
             /\ tests[client[c].id] # NoTest
             /\ tests'[client[c].id] # NoTest
  <2>1. /\ client'[c].id = client[c].id
        /\ \/ CancelRead(c) /\ tests[client[c].id].status = "queued"
           \/ client[c].at \in {"sweep", "mark"}
    BY <1>2, HandlerMoves
  <2>2. client[c].id \in Tests /\ tests[client[c].id] # NoTest
    BY <2>1 DEF CancelRead, ClosedAreDone, NoTest, Typed, InHand
  <2>3. ~Delete(client[c].id)
    <3>1. Delete(client[c].id) => client' = client
      BY DEF Delete, world
    <3>2. Delete(client[c].id) => Claimed(client[c].id)
      BY <1>2, <3>1 DEF Claimed
    <3> QED  BY <2>2, <3>2, InTime
  <2>4. verdict # "none" \/ ~Mark
    BY DEF Mark, Typed, InHand
  <2>5. tests'[client[c].id].status # "none"
    BY <2>2, <2>3, <2>4, TestStep, Absent DEF StatusStep
  <2> QED  BY <2>1, <2>2, <2>5, Absent
<1>3. ASSUME NEW c \in Clients, client'[c].at = "mark", NEW k \in Runs(tests', client[c].id),
             tests'[client[c].id].runs[k] \in Open
      PROVE  FALSE
  <2>1. client[c].id \in Tests /\ tests[client[c].id] # NoTest
    BY <1>2, <1>3
  <2>2. k \in Runs(tests, client[c].id) /\ tests[client[c].id].runs[k] \in Open
    BY <1>3, <2>1, OpenBefore
  <2>3. CancelSweep(c) \/ client[c].at = "mark"
    BY <1>3, HandlerMoves
  <2>4. CASE CancelSweep(c)
    <3>1. tests \in Table /\ tests' = CancelOpenRuns(tests, client[c].id)
      BY <2>4 DEF CancelSweep, Typed, TypeOK, Table
    <3>2. tests'[client[c].id].runs = [j \in DOMAIN tests[client[c].id].runs |->
             IF tests[client[c].id].runs[j] \in Open THEN "cancelled" ELSE tests[client[c].id].runs[j]]
      BY <2>1, <3>1, CancelOpenEffect
    <3> QED  BY <1>3, <2>2, <3>2 DEF Runs, Open
  <2>5. CASE client[c].at = "mark"
    BY <2>2, <2>5 DEF ClosedAreDone, AllDone
  <2> QED  BY <2>3, <2>4, <2>5
<1>4. \A i \in Tests : tests'[i].status \in Verdict => AllDone(i)'
  BY <1>1 DEF AllDone
<1>5. \A c \in Clients : client'[c].at \in {"sweep", "mark"} => (tests[client[c].id] # NoTest)'
  BY <1>2
<1>6. \A c \in Clients : client'[c].at = "mark" => AllDone(client[c].id)'
  BY <1>2, <1>3 DEF AllDone
<1> QED  BY <1>4, <1>5, <1>6 DEF ClosedAreDone

\* All of this stays true until a stale write.
LEMMA SoundNext ==
    Typed /\ OneTestRuns /\ SoundUntilStale /\ [Next]_vars => SoundUntilStale'
<1> SUFFICES ASSUME Typed, OneTestRuns, SoundUntilStale, [Next]_vars, ~stale' PROVE Sound'
  BY DEF SoundUntilStale
<1>1. Sound
  BY StaleStays DEF SoundUntilStale
<1> QED  BY <1>1, OneOfEachNext, FirstInLineNext, MarkedRunningNext, VerdictFitsNext, ClosedAreDoneNext DEF Sound

-----------------------------------------------------------------------------
(* The runner keeps its promise.                                           *)

\* Everything the steps of the promise rest on.
Grounds == Typed /\ OneTestRuns /\ SoundUntilStale

\* What the promise sees of a test.
LEMMA ListedIs ==
    /\ DOMAIN Listed = Tests
    /\ \A i \in Tests : /\ Listed[i] = [status |-> tests[i].status, runs |-> tests[i].runs]
                        /\ Listed[i].status = tests[i].status
                        /\ Listed[i].runs = tests[i].runs
                        /\ tests[i] = NoTest => Listed[i] = Promise!Gone
                        /\ Promise!Of(i) = Runs(tests, i)
                        /\ \A status : Promise!With(i, status) = {k \in Runs(tests, i) : tests[i].runs[k] = status}
                        /\ Promise!OpenRuns(i) = {k \in Runs(tests, i) : tests[i].runs[k] \in Open}
<1>1. DOMAIN Listed = Tests
  BY DEF Listed
<1>2. ASSUME NEW i \in Tests
      PROVE  /\ Listed[i] = [status |-> tests[i].status, runs |-> tests[i].runs]
             /\ Listed[i].status = tests[i].status
             /\ Listed[i].runs = tests[i].runs
             /\ tests[i] = NoTest => Listed[i] = Promise!Gone
  BY DEF Listed, NoTest, Promise!Gone
<1>3. ASSUME NEW i \in Tests
      PROVE  /\ Promise!Of(i) = Runs(tests, i)
             /\ \A status : Promise!With(i, status) = {k \in Runs(tests, i) : tests[i].runs[k] = status}
  BY <1>2 DEF Promise!Of, Promise!With, Runs
<1>4. ASSUME NEW i \in Tests
      PROVE  Promise!OpenRuns(i) = {k \in Runs(tests, i) : tests[i].runs[k] \in Open}
  BY <1>3 DEF Promise!OpenRuns, Open
<1> QED  BY <1>1, <1>2, <1>3, <1>4

\* A step that changes one test reads as such.
LEMMA OneListed ==
    ASSUME NEW id \in Tests, \A i \in Tests \ {id} : tests'[i] = tests[i]
    PROVE  /\ Listed' = [Listed EXCEPT ![id] = [status |-> tests'[id].status, runs |-> tests'[id].runs]]
           /\ tests'[id].runs = tests[id].runs => Listed' = [Listed EXCEPT ![id].status = tests'[id].status]
           /\ tests'[id].status = tests[id].status => Listed' = [Listed EXCEPT ![id].runs = tests'[id].runs]
           /\ tests'[id].status = tests[id].status /\ tests'[id].runs = tests[id].runs => Listed' = Listed
<1> DEFINE r == [status |-> tests'[id].status, runs |-> tests'[id].runs]
<1>1. Listed' = [i \in Tests |-> IF i = id THEN r ELSE Listed[i]]
  <2>1. ASSUME NEW i \in Tests PROVE Listed'[i] = IF i = id THEN r ELSE Listed[i]
    BY DEF Listed
  <2> HIDE DEF r
  <2> QED  BY <2>1 DEF Listed
<1>2. [Listed EXCEPT ![id] = r] = [i \in Tests |-> IF i = id THEN r ELSE Listed[i]]
  BY DEF Listed
<1>3. Listed[id] = [status |-> tests[id].status, runs |-> tests[id].runs]
  BY ListedIs
<1>4. tests'[id].runs = tests[id].runs => r = [Listed[id] EXCEPT !.status = tests'[id].status]
  BY <1>3
<1>5. tests'[id].status = tests[id].status => r = [Listed[id] EXCEPT !.runs = tests'[id].runs]
  BY <1>3
<1>6. tests'[id].status = tests[id].status /\ tests'[id].runs = tests[id].runs => Listed' = Listed
  BY DEF Listed
<1> QED  BY <1>1, <1>2, <1>4, <1>5, <1>6

\* A test's runs are dropped as the promise has it, or there are none to drop.
LEMMA DropKept ==
    ASSUME Typed, NEW id \in Tests, tests' = CancelOpenRuns(tests, id), stale' = stale,
           tests[id].status \notin Verdict \/ AllDone(id)
    PROVE  Promise!Next \/ UNCHANGED <<Listed, stale>>
<1>1. tests \in Table
  BY DEF Typed, TypeOK, Table
<1>2. /\ RunsOnly(tests', tests, id)
      /\ tests'[id].runs = [j \in DOMAIN tests[id].runs |->
                              IF tests[id].runs[j] \in Open THEN "cancelled" ELSE tests[id].runs[j]]
  BY <1>1, CancelOpenEffect
<1>3. /\ \A i \in Tests \ {id} : tests'[i] = tests[i]
      /\ tests'[id].status = tests[id].status
  BY <1>2 DEF RunsOnly
<1>4. CASE tests[id].status \notin Verdict
  <2>1. Listed' = [Listed EXCEPT ![id].runs = tests'[id].runs]
    BY <1>3, OneListed
  <2>2. tests'[id].runs = [k \in DOMAIN Listed[id].runs |->
                             IF k \in Promise!OpenRuns(id) THEN "cancelled" ELSE Listed[id].runs[k]]
    BY <1>2, ListedIs DEF Runs
  <2>3. Promise!Drop(id)
    BY <1>4, <2>1, <2>2, ListedIs DEF Promise!Drop, Promise!Closed, Verdict
  <2> QED  BY <2>3 DEF Promise!Next
<1>5. CASE AllDone(id)
  <2>1. tests[id].runs = [j \in DOMAIN tests[id].runs |-> tests[id].runs[j]]
    <3>1. tests[id] \in Test \cup {NoTest}
      BY <1>1 DEF Table
    <3> QED  BY <3>1 DEF Test, NoTest
  <2>2. tests'[id].runs = tests[id].runs
    BY <1>2, <1>5, <2>1 DEF AllDone, Runs
  <2> QED  BY <1>3, <2>2, OneListed
<1> QED  BY <1>4, <1>5

\* Writing the run in hand reads as such.
LEMMA RunListed ==
    ASSUME Typed, job \in Tests, NEW s, OneRunSet(tests', tests, job, run.k, s)
    PROVE  Listed' = [Listed EXCEPT ![job].runs[run.k] = s]
<1>1. /\ \A i \in Tests \ {job} : tests'[i] = tests[i]
      /\ tests'[job].status = tests[job].status
      /\ tests'[job].runs = [tests[job].runs EXCEPT ![run.k] = s]
  BY DEF OneRunSet, RunsOnly
<1>2. Listed' = [Listed EXCEPT ![job].runs = tests'[job].runs]
  BY <1>1, OneListed
<1>3. tests'[job].runs = [Listed[job].runs EXCEPT ![run.k] = s]
  BY <1>1, ListedIs
<1> QED  BY <1>2, <1>3

\* What process does is the promise's Start, Begin, End, Drop and Close.
LEMMA ProcessKeeps ==
    ASSUME Grounds, [Next]_vars, Sound, ~stale, ~stale',
           Start \/ Begin \/ Record \/ RecordCancelled \/ Sweep \/ Mark
    PROVE  Promise!Next \/ UNCHANGED <<Listed, stale>>
<1>0. /\ tests \in Table /\ Typed /\ OneTestRuns /\ stale' = stale
      /\ OneOfEach /\ FirstInLine /\ MarkedRunning /\ VerdictFits
  <2>1. Typed /\ Typed'
    BY NextTyped DEF Grounds
  <2>2. stale' = stale /\ tests \in Table
    BY <2>1 DEF Typed, TypeOK, Table
  <2> QED  BY <2>1, <2>2 DEF Grounds, Sound
<1>1. job \in Tests
  BY <1>0 DEF Start, Begin, Record, RecordCancelled, Sweep, Mark, Typed, InHand, Processing
<1>2. CASE Start
  <2>1. tests[job].status = "queued" /\ tests' = SetStatus(tests, job, "running") /\ "running" \in Statuses
    BY <1>1, <1>2, InTime DEF Start, StartModelTest, Statuses, Active
  <2>2. tests[job] # NoTest
    BY <2>1 DEF NoTest
  <2>3. /\ \A i \in Tests \ {job} : tests'[i] = tests[i]
        /\ tests'[job].runs = tests[job].runs
        /\ tests'[job].status = "running"
    BY <1>0, <1>1, <2>1, <2>2, SetStatusEffect
  <2>4. Listed' = [Listed EXCEPT ![job].status = "running"]
    BY <1>1, <2>3, OneListed
  <2>5. \A i \in Tests : tests[i].status # "running"
    BY <1>0, <1>2, <2>1 DEF OneTestRuns, Start
  <2>6. \A i \in Tests : tests[i].status = "queued" => job <= i
    BY <1>0, <1>2 DEF FirstInLine, Start
  <2>7. Promise!Start(job)
    BY <1>1, <2>1, <2>4, <2>5, <2>6, ListedIs DEF Promise!Start, Promise!NothingRuns
  <2> QED  BY <1>0, <1>1, <2>7 DEF Promise!Next
<1>3. CASE Begin
  <2>1. tests[job].status = "running" /\ IsNextPending(tests, job, run.k)
    BY <1>0, <1>3 DEF Begin, MarkedRunning, Doing
  <2>2. Listed' = [Listed EXCEPT ![job].runs[run.k] = "running"]
    BY <1>0, <1>1, <1>3, JobWrites, RunListed
  <2>3. \A i \in Tests : \A k \in Runs(tests, i) : tests[i].runs[k] # "running"
    BY <1>0, <1>3 DEF Begin, OneTestRuns
  <2>4. \A i \in Tests : Promise!With(i, "running") = {}
    BY <2>3, ListedIs
  <2>5. run.k \in Promise!With(job, "pending") /\ \A j \in Promise!With(job, "pending") : run.k <= j
    BY <1>1, <2>1, ListedIs DEF IsNextPending, HasStatus
  <2>6. Promise!Begin(job, run.k)
    BY <1>1, <2>1, <2>2, <2>4, <2>5, ListedIs DEF Promise!Begin
  <2>7. run.k \in Promise!Of(job)
    BY <1>1, <2>1, ListedIs DEF IsNextPending, HasStatus
  <2> QED  BY <1>0, <1>1, <2>6, <2>7 DEF Promise!Next
<1>4. CASE Record \/ RecordCancelled
  <2>1. HasStatus(tests, job, run.k, "running")
    BY <1>0, <1>4 DEF Record, RecordCancelled, MarkedRunning, Chatting
  <2>2. (Record => reply \in Promise!Closed) /\ "cancelled" \in Promise!Closed
    BY <1>0 DEF Record, Typed, TypeOK, InHand, Promise!Closed
  <2>3. PICK s \in Promise!Closed : OneRunSet(tests', tests, job, run.k, s)
    BY <1>0, <1>1, <1>4, <2>2, JobWrites
  <2>4. Listed' = [Listed EXCEPT ![job].runs[run.k] = s]
    BY <1>0, <1>1, <2>3, RunListed
  <2>5. run.k \in Promise!With(job, "running") /\ run.k \in Promise!Of(job)
    BY <1>1, <2>1, ListedIs DEF HasStatus
  <2>6. Promise!End(job, run.k)
    BY <2>4, <2>5 DEF Promise!End
  <2> QED  BY <1>0, <1>1, <2>5, <2>6 DEF Promise!Next
<1>5. CASE Sweep
  <2>1. tests[job].status \notin Verdict /\ tests' = CancelOpenRuns(tests, job)
    BY <1>0, <1>5 DEF Sweep, MarkedRunning, Doing, Verdict
  <2> QED  BY <1>0, <1>1, <2>1, DropKept
<1>6. CASE Mark
  <2>1. /\ tests[job].status = "running" /\ tests[job] # NoTest
        /\ tests' = SetStatus(tests, job, verdict)
        /\ verdict \in Verdict /\ verdict \in Statuses
    BY <1>0, <1>6 DEF Mark, MarkedRunning, Doing, NoTest, Typed, TypeOK, InHand, Statuses
  <2>2. /\ \A i \in Tests \ {job} : tests'[i] = tests[i]
        /\ tests'[job].runs = tests[job].runs
        /\ tests'[job].status = verdict
    BY <1>0, <1>1, <2>1, SetStatusEffect
  <2>3. Listed' = [Listed EXCEPT ![job].status = verdict]
    BY <1>1, <2>2, OneListed
  <2>4. /\ AllDone(job)
        /\ verdict = "completed" => \E k \in Runs(tests, job) : tests[job].runs[k] = "completed"
        /\ verdict = "failed" => \A k \in Runs(tests, job) : tests[job].runs[k] # "completed"
        /\ verdict = "cancelled" => \E k \in Runs(tests, job) : tests[job].runs[k] = "cancelled"
    BY <1>0, <1>6 DEF Mark, VerdictFits, Judged
  <2>5. Promise!OpenRuns(job) = {}
    BY <1>1, <2>4, ListedIs DEF AllDone
  <2>6. /\ verdict = "completed" => Promise!With(job, "completed") # {}
        /\ verdict = "failed" => Promise!With(job, "completed") = {}
        /\ verdict = "cancelled" => Promise!With(job, "cancelled") # {}
    BY <1>1, <2>4, ListedIs
  <2>7. Promise!Close(job, verdict)
    BY <1>1, <2>1, <2>3, <2>5, <2>6, ListedIs DEF Promise!Close
  <2>8. verdict \in Promise!Closed
    BY <2>1 DEF Promise!Closed, Verdict
  <2> QED  BY <1>0, <1>1, <2>7, <2>8 DEF Promise!Next
<1> QED  BY <1>2, <1>3, <1>4, <1>5, <1>6

\* A new process puts back the run that was cut off, and then its test.
LEMMA BootKeeps ==
    ASSUME Grounds, [Next]_vars, Sound, ~stale, ~stale', Boot \/ Requeue
    PROVE  Promise!Next \/ UNCHANGED <<Listed, stale>>
<1>0. tests \in Table /\ OneTestRuns /\ stale' = stale /\ OneOfEach
  <2>1. Typed /\ Typed'
    BY NextTyped DEF Grounds
  <2>2. stale' = stale /\ tests \in Table
    BY <2>1 DEF Typed, TypeOK, Table
  <2> QED  BY <2>2 DEF Grounds, Sound
<1>1. CASE Boot
  <2>1. \A x \in Tests : /\ tests'[x].status = tests[x].status
                         /\ tests'[x].runs = [j \in DOMAIN tests[x].runs |->
                               IF tests[x].runs[j] = "running" THEN "pending" ELSE tests[x].runs[j]]
    BY <1>0, <1>1, RequeueRunsEffect DEF Boot
  <2>2. \A x \in Tests : tests[x].runs = [j \in DOMAIN tests[x].runs |-> tests[x].runs[j]]
    <3> SUFFICES ASSUME NEW x \in Tests PROVE tests[x].runs = [j \in DOMAIN tests[x].runs |-> tests[x].runs[j]]
      OBVIOUS
    <3>1. tests[x] \in Test \cup {NoTest}
      BY <1>0 DEF Table
    <3> QED  BY <3>1 DEF Test, NoTest
  <2>3. CASE \A x \in Tests : \A j \in DOMAIN tests[x].runs : tests[x].runs[j] # "running"
    <3>1. \A x \in Tests : tests'[x].runs = tests[x].runs
      BY <2>1, <2>2, <2>3
    <3> QED  BY <1>0, <2>1, <3>1 DEF Listed
  <2>4. ASSUME NEW id \in Tests, NEW k \in DOMAIN tests[id].runs, tests[id].runs[k] = "running"
        PROVE  Promise!Next
    <3>1. ASSUME NEW x \in Tests, x # id PROVE tests'[x].runs = tests[x].runs
      <4>1. \A j \in DOMAIN tests[x].runs : tests[x].runs[j] # "running"
        BY <1>0, <2>4, <3>1 DEF OneOfEach, Runs
      <4> QED  BY <2>1, <2>2, <4>1
    <3>2. tests'[id].runs = [tests[id].runs EXCEPT ![k] = "pending"]
      <4>1. \A j \in DOMAIN tests[id].runs : tests[id].runs[j] = "running" => j = k
        BY <1>0, <2>4 DEF OneOfEach, Runs
      <4> QED  BY <2>1, <2>4, <4>1
    <3>3. Listed' = [Listed EXCEPT ![id].runs = tests'[id].runs]
      <4>1. \A x \in Tests : Listed'[x] = [Listed EXCEPT ![id].runs = tests'[id].runs][x]
        BY <2>1, <3>1, ListedIs DEF Listed
      <4> QED  BY <4>1 DEF Listed
    <3>4. Listed' = [Listed EXCEPT ![id].runs[k] = "pending"]
      <4>1. tests'[id].runs = [Listed[id].runs EXCEPT ![k] = "pending"]
        BY <3>2, ListedIs
      <4> QED  BY <3>3, <4>1
    <3>5. k \in Promise!With(id, "running") /\ k \in Promise!Of(id)
      BY <2>4, ListedIs DEF Runs
    <3>6. Promise!PutBackRun(id, k)
      BY <3>4, <3>5 DEF Promise!PutBackRun
    <3> QED  BY <1>0, <3>5, <3>6 DEF Promise!Next
  <2> QED  BY <2>3, <2>4
<1>2. CASE Requeue
  <2>1. \A x \in Tests : /\ tests'[x].runs = tests[x].runs
                         /\ tests'[x].status = IF tests[x].status = "running" THEN "queued" ELSE tests[x].status
    BY <1>0, <1>2, RequeueTestsEffect DEF Requeue
  <2>2. CASE \A x \in Tests : tests[x].status # "running"
    BY <1>0, <2>1, <2>2 DEF Listed
  <2>3. ASSUME NEW id \in Tests, tests[id].status = "running" PROVE Promise!Next
    <3>1. \A x \in Tests : tests'[x].status = IF x = id THEN "queued" ELSE tests[x].status
      BY <1>0, <2>1, <2>3 DEF OneOfEach
    <3>2. \A x \in Tests : Listed'[x] = [Listed EXCEPT ![id].status = "queued"][x]
      BY <2>1, <3>1, ListedIs DEF Listed
    <3>3. Listed' = [Listed EXCEPT ![id].status = "queued"]
      BY <3>2 DEF Listed
    <3>4. \A k \in Runs(tests, id) : tests[id].runs[k] # "running"
      BY <1>0, <1>2, TestStoreAssumption DEF Requeue, OneTestRuns, Grounds, Typed, InHand, Processing, Tests
    <3>5. Promise!With(id, "running") = {}
      BY <3>4, ListedIs
    <3>6. Promise!PutBack(id)
      BY <2>3, <3>3, <3>5, ListedIs DEF Promise!PutBack
    <3> QED  BY <1>0, <3>6 DEF Promise!Next
  <2> QED  BY <2>2, <2>3
<1> QED  BY <1>1, <1>2

\* What the handlers do is the promise's Submit, Drop, Close and Forget.
LEMMA HandlersKeep ==
    ASSUME Grounds, [Next]_vars, Sound, ~stale, ~stale',
           \/ \E c \in Clients, plan \in Plans : Create(c, plan)
           \/ \E c \in Clients : CancelSweep(c) \/ CancelMark(c)
           \/ \E id \in Tests : Delete(id)
    PROVE  Promise!Next \/ UNCHANGED <<Listed, stale>>
<1>0. tests \in Table /\ Typed /\ stale' = stale /\ ClosedAreDone
  <2>1. Typed /\ Typed'
    BY NextTyped DEF Grounds
  <2>2. stale' = stale /\ tests \in Table
    BY <2>1 DEF Typed, TypeOK, Table
  <2> QED  BY <2>1, <2>2 DEF Grounds, Sound
<1>1. ASSUME NEW c \in Clients, NEW plan \in Plans, Create(c, plan) PROVE Promise!Next
  <2>1. PICK id \in Tests : IsNewTest(tests, id) /\ tests' = CreateModelTest(tests, id, plan)
    BY <1>1 DEF Create
  <2>2. /\ \A i \in Tests \ {id} : tests'[i] = tests[i]
        /\ tests'[id].status = "queued"
        /\ tests'[id].runs = [k \in DOMAIN plan |-> "pending"]
    <3>1. \A i \in Tests \ {id} : tests'[i] = tests[i]
      BY <1>0, <2>1 DEF CreateModelTest, Table
    <3>2. tests'[id] = [status |-> "queued", plan |-> plan, runs |-> [k \in DOMAIN plan |-> "pending"]]
      BY <1>0, <2>1 DEF CreateModelTest, Table
    <3> QED  BY <3>1, <3>2
  <2>3. Listed' = [Listed EXCEPT ![id] = [status |-> "queued", runs |-> [k \in DOMAIN plan |-> "pending"]]]
    BY <2>2, OneListed
  <2>4. DOMAIN Listed'[id].runs = DOMAIN plan
    BY <2>2 DEF Listed
  <2>5. \A i \in Tests : i >= id => Listed[i] = Promise!Gone
    BY <2>1, ListedIs DEF IsNewTest
  <2>6. Promise!Submit(id)
    BY <2>3, <2>4, <2>5 DEF Promise!Submit
  <2> QED  BY <1>0, <2>6 DEF Promise!Next
<1>2. ASSUME NEW c \in Clients, CancelSweep(c) PROVE Promise!Next \/ UNCHANGED <<Listed, stale>>
  <2>1. client[c].id \in Tests /\ tests' = CancelOpenRuns(tests, client[c].id)
    BY <1>0, <1>2 DEF CancelSweep, Typed, InHand
  <2>2. tests[client[c].id].status \in {"queued", "cancelled", "none"}
    BY <1>2, <2>1, InTime
  <2>3. tests[client[c].id].status \notin Verdict \/ AllDone(client[c].id)
    BY <1>0, <2>1 DEF ClosedAreDone
  <2> QED  BY <1>0, <2>1, <2>3, DropKept
<1>3. ASSUME NEW c \in Clients, CancelMark(c) PROVE Promise!Next \/ UNCHANGED <<Listed, stale>>
  <2>1. PICK id \in Tests : id = client[c].id
    BY <1>0, <1>3 DEF CancelMark, Typed, InHand
  <2>2. /\ tests' = SetStatus(tests, id, "cancelled") /\ "cancelled" \in Statuses
        /\ tests[id] # NoTest /\ AllDone(id)
    BY <1>0, <1>3, <2>1 DEF CancelMark, ClosedAreDone, Statuses, Verdict
  <2>3. tests[id].status \in {"queued", "cancelled"}
    BY <1>0, <1>3, <2>1, <2>2, InTime, Absent
  <2>4. /\ \A i \in Tests \ {id} : tests'[i] = tests[i]
        /\ tests'[id].runs = tests[id].runs
        /\ tests'[id].status = "cancelled"
    BY <1>0, <2>2, SetStatusEffect
  <2>5. CASE tests[id].status = "cancelled"
    BY <1>0, <2>4, <2>5, OneListed
  <2>6. CASE tests[id].status = "queued"
    <3>1. Listed' = [Listed EXCEPT ![id].status = "cancelled"]
      BY <2>4, OneListed
    <3>2. Promise!OpenRuns(id) = {}
      BY <2>2, ListedIs DEF AllDone
    <3>3. Promise!Close(id, "cancelled")
      BY <2>6, <3>1, <3>2, ListedIs DEF Promise!Close
    <3>4. "cancelled" \in Promise!Closed
      BY DEF Promise!Closed
    <3> QED  BY <1>0, <3>3, <3>4 DEF Promise!Next
  <2> QED  BY <2>3, <2>5, <2>6
<1>4. ASSUME NEW id \in Tests, Delete(id) PROVE Promise!Next
  <2>1. tests[id].status \in Verdict /\ tests' = DeleteModelTest(tests, id)
    BY <1>4 DEF Delete
  <2>2. /\ \A i \in Tests \ {id} : tests'[i] = tests[i]
        /\ tests'[id] = NoTest
    BY <1>0, <2>1, DeleteEffect
  <2>3. Listed' = [Listed EXCEPT ![id] = [status |-> tests'[id].status, runs |-> tests'[id].runs]]
    BY <2>2, OneListed
  <2>4. Listed' = [Listed EXCEPT ![id] = Promise!Gone]
    BY <2>2, <2>3 DEF NoTest, Promise!Gone
  <2>5. Promise!Forget(id)
    BY <2>1, <2>4, ListedIs DEF Promise!Forget, Promise!Closed, Verdict
  <2> QED  BY <1>0, <2>5 DEF Promise!Next
<1> QED  BY <1>1, <1>2, <1>3, <1>4

\* Until a write acts on a test that is past what was read, the runner does
\* exactly what TestPromise allows; from then on nothing is promised.
THEOREM RunnerKeepsPromise == Spec => KeepsPromise
<1>1. Init => Promise!Init
  <2> SUFFICES ASSUME Init PROVE Promise!Init
    OBVIOUS
  <2>1. ASSUME NEW i \in Tests PROVE Listed[i] = Promise!Gone
    BY DEF Init, Listed, NoTest, Promise!Gone
  <2>2. Listed = [i \in Tests |-> Promise!Gone]
    BY <2>1 DEF Listed
  <2> QED  BY <2>2 DEF Init, Promise!Init
<1>2. Grounds /\ [Next]_vars => [Promise!Next]_<<Listed, stale>>
  <2> SUFFICES ASSUME Grounds, [Next]_vars PROVE Promise!Next \/ UNCHANGED <<Listed, stale>>
    OBVIOUS
  <2>1. CASE stale'
    BY <2>1 DEF Promise!Next
  <2>2. CASE ~stale'
    <3>1. ~stale /\ Sound
      BY <2>2, StaleStays DEF Grounds, SoundUntilStale
    <3>2. CASE UNCHANGED <<tests, stale>>
      BY <3>2 DEF Listed
    <3>3. CASE ~UNCHANGED <<tests, stale>>
      BY <2>2, <3>1, <3>3, ProcessKeeps, BootKeeps, HandlersKeep, StepKinds
      DEF ReadQueue, Awaken, Stop, IdleTimeout, Register, Find, Swap, Look, Chat, Judge, Count, Free,
          Abandon, LetGo, Clear, Release, CancelRunning, CancelOther, Wake, CancelRead, Disconnect,
          UserLoads, Unloaded, Shutdown, Exit, Crash, Restart, vars
    <3> QED  BY <3>2, <3>3
  <2> QED  BY <2>1, <2>2
<1>3. Init => OneTestRuns /\ SoundUntilStale
  <2> SUFFICES ASSUME Init PROVE OneTestRuns /\ Sound
    BY DEF SoundUntilStale
  <2>1. \A i \in Tests : tests[i] = NoTest /\ Runs(tests, i) = {}
    BY DEF Init, NoTest, Runs
  <2>2. OneTestRuns /\ OneOfEach
    BY <2>1 DEF OneTestRuns, OneOfEach, NoTest
  <2>3. FirstInLine /\ MarkedRunning /\ VerdictFits
    BY DEF Init, FirstInLine, MarkedRunning, VerdictFits, Doing, Chatting, Judged
  <2>4. ClosedAreDone
    BY <2>1 DEF Init, ClosedAreDone, AtRest, NoTest, Verdict
  <2> QED  BY <2>2, <2>3, <2>4 DEF Sound
<1>4. Grounds /\ [Next]_vars => Grounds'
  BY NextTyped, OneTestRunsNext, SoundNext DEF Grounds
<1>5. Init => Grounds
  BY <1>3, InitTyped DEF Grounds
<1>6. Spec => []Grounds
  BY <1>4, <1>5, PTL DEF Spec
<1> QED  BY <1>1, <1>2, <1>6, PTL DEF Spec, KeepsPromise, Promise!Spec

=============================================================================
