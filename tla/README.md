# A TLA+ model of ollama-model-manager

The program is a web front end to one Ollama server. It keeps a SQLite
database, queues model downloads and model tests, and runs them in background
goroutines while HTTP handlers, a crash, a restart or an outage of Ollama may
come at any moment. These modules model what is hard about that, check it with
TLC on small instances, and prove the most important parts for instances of
any size.

## The system: inventory

| Component | State | Operations | Interacts with | Hard because | Correct when |
|---|---|---|---|---|---|
| Download queue, `internal/downloads/manager.go` | `wake`, `cancelID`/`cancel`, `live`, `waiting`, `resumes`; the `downloads` rows | Enqueue, Cancel, Retry; worker: Run, process, resume, waitForOllama | store, Ollama, handlers, main's context | unguarded updates race the worker; cancel, stall, shutdown and the pull's result together; restarts | one pull at a time, in order; a cancel is obeyed; no duplicates; bounded resumes; everything settles |
| Store, `internal/store` | the SQLite tables | one method per statement or transaction | everybody | methods of several statements; ids are used again | each statement keeps the table's own rules |
| Model tests, `internal/modeltest/runner.go` | `wake`, `cancelID`/`cancel`; the test and run rows; models in memory | Create, Cancel, Delete; worker: Run, process, loaded, unload | store, Ollama, users who load models | the same races, two-statement finish, restarts in the middle of a test | one run at a time, in order; verdicts agree with the runs; models take turns in memory |
| Usage tracker, `internal/usage/tracker.go` | `seen` (the last answer); usage rows | Run, poll | Ollama, store | missed polls, slow answers, restarts; uses are only inferred | no time or load is invented, idle models aren't counted, uses are caught |
| Users and sessions, `internal/web/auth.go`, `store/users.go` | users, sessions | sign-in, sign-out, changes | store | (left out) | (left out) |
| Blacklist, deletion, bulk actions, `handlers_models.go`, `handlers_bulk.go` | blacklist rows; models in Ollama | delete, blacklist, unblacklist, unload | Ollama, store, downloads | partial failure half-way through; look and write apart | what is reported is what happened; a banned model is asked about first |
| Disk check, `handlers_downloads.go` | none (the queue's bytes, the disk) | resourceConcerns, QueuedBytes, tracker | store, worker | two requests at once; a pull goes on meanwhile | what is queued fits |
| Labels, `store/labels.go`, `handlers_labels.go` | labels and their models | set, create, rename, delete, bulk | store | a label deleted or renamed between two statements | names unique, no dangling labels, built-in ones stay |
| Storage accounting, `web/storage.go`, `unused.go`, `dupes.go`, `weekusage.go` | none (reads manifests, usage rows) | Freed, SameAs, DeleteEffect, unusedFor, duplicateQuants | disk | shared layers, several tags, unreadable manifests | agrees with what deleting frees |
| Update checks, `web/update.go`, `ollama_update.go` | the cached release, the last comparison | check, refresh, withRunning | GitHub, Ollama | a slow refresh overtaken by another | what is shown agrees with itself, and is right in the end |
| Library client, `internal/library` | response cache, health | search, tags, record, WatchHealth | ollama.com, Hugging Face | expiry during a request, visitors' reads between the check's | fresh within its time; broken when, and only when, it is |
| Ollama client, `internal/ollama` | none | Pull, Chat, Running, Load, Unload, ... | Ollama | how a stream may end | errors told apart |
| System sampler and verdicts, `internal/sysinfo`, `fit.go`, `ollama_settings.go` | a window of samples | collect; estimateFit, resourceConcerns, suggestOllamaSettings | the operating system | three sets of thresholds | the verdicts don't contradict each other |
| Models list, `handlers_models.go`, `models_sort.go`, `handlers_state.go` | the page in a browser, its watcher | filter, sort, page, poll, refresh | Ollama, usage | changes and outages between two reads | every model shown once; the list keeps up |
| Discover, `handlers_discover.go` | none | tagRows, blacklistedTag | library, blacklist, Ollama | tags that are one download | rows of one download agree |
| Life cycle, `cmd/ollama-model-manager/main.go` | contexts | start, shutdown, reset-password | all | five seconds for each worker | what was going is resumed |
| Pages, `internal/web` otherwise | none | render, load, unload, chat | all | - | - |

Interaction is by calls. What is shared is the database (one connection, so
statements are serialised, but a method of two statements is not atomic), the
fields under `Manager.mu` and `Runner.mu`, the one-slot wake-up channels, and
the process's context, which SIGTERM cancels.

## Modules

| Module | What it is |
|---|---|
| `DownloadStore` | the `downloads` table: each statement as an operator on tables |
| `DownloadQueue` | the download worker, the handlers, Ollama and the process |
| `QueuePromise` | what the queue promises, abstractly |
| `DownloadQueueProofs` | theorems about `DownloadQueue` and that it implements `QueuePromise` |
| `MCDownloadQueue` | instances for TLC |
| `ModelTestStore` | the `model_tests` and `model_test_runs` tables |
| `ModelTestRunner` | the test runner, the handlers, the models in memory and the process |
| `TestPromise` | what the runner promises, abstractly |
| `ModelTestProofs` | theorems about `ModelTestRunner` and that it implements `TestPromise` |
| `MCModelTestRunner` | instances for TLC |
| `UsageTracker` | the usage tracker, its two tables, and what is really used in Ollama |
| `UsageTrackerProofs` | theorems about it |
| `MCUsageTracker` | instances for TLC |
| `ModelAdmin` | asking for downloads (disk, blacklist), deleting one or many models |
| `AdminProofs` | theorems about it |
| `Sums` | lemmas about finite sets and sums over them, on which those about the disk and the pages rest |
| `MCModelAdmin` | instances for TLC |
| `LibraryClient` | the cache of ollama.com's pages, the health record and its watcher |
| `LibraryProofs` | theorems about it |
| `MCLibraryClient` | instances for TLC |
| `Labels` | the labels' two tables, their handlers and the start |
| `LabelsProofs` | theorems about it |
| `UpdateCheck` | the cached release and the comparison with Ollama's version |
| `Storage` | the Models page's figures |
| `ModelsPage` | the models list in a browser, and its watcher |
| `Discover` | a model's card and the rows of its tags |
| `Hardware` | the sampler and the three verdicts on the machine |
| `Pages` | `Labels` and the five above, side by side |
| `PagesProofs` | theorems about those five, and that `Pages` does nothing to them |
| `MCPages` | an instance of `Pages` for TLC |

An operator whose name ends in `Bug` (and `RecordedOnce`) is the definition after it with a
plausible mistake; `PROJECT.json` ("mutants") pairs each property with one that
breaks it.

### DownloadQueue

A step is one SQL statement, one critical section of `Manager.mu`, or one call
to Ollama. A local variable that lives across two of them is state: `job` is
the row `Run` read (its id, model and place; `process` uses it to the end),
`client[c]` what a handler has found and is about to do.

`pc` is where the worker is: `boot` (RequeueInterrupted), `next`
(NextQueuedDownload), `idle` (the select on the channel), `check` (asking
Ollama's version), `held` (waitForOllama), `register` (started, but not yet in
Cancel's reach), `pull`, `settle` (the pull has returned), one of `Outcomes` (the switch
has looked at how it ended and why, and taken its case), `clear` (the
deferred functions), `off`. `Judge` is the look, `Complete`, `Suspend`, `Abort`, `Fail`
and `Resume` the writes that follow it; a cancel, a shutdown or the stall timer
may come between the two, and changes nothing any more. Shutdown sets `stopping`; the actions with
`~stopping` in their guard are those whose statement runs under the process's
context, and the outcome is written under `context.WithoutCancel`, so its
actions have no such guard. A crash loses every variable but the table, what
Ollama has (`pulled`) and whether it is up.

`Cancel` is two paths: of the registered download it cancels the context with a
cause (the first cause stands); of any other it reads the row and then marks it.
`Retry` reads, scans, perhaps renames, requeues and wakes. Between any two of
these the browser may hang up (`Disconnect`).

`stale` is a history variable. It becomes true when an update that asks only
for an id is applied to a row that is no longer what its author had read: the
worker's StartDownload, Cancel's FinishDownload, Retry's SetDownloadModel and
RequeueDownload. The code really does this (see Findings), and the promise of
the queue is void from there on. Everything that holds even so is stated without
it; what holds until then is stated with it, which also says that there is no
other way to break it.

Two more are history. `owed` says that a cancel reached the pull before `Judge`. `vain`
is what `resumes` should be: for each row, how often it was put back since its
pulls got further. It is kept by the writes of the table alone, and goes with the
row, where `resumes` is kept by `process` and goes when `process` ends a download.

### ModelTestRunner

The same for tests. `loaded` is what Ollama has in memory; `ours` the part that
a run loaded, whose test is to unload it, and that no user has asked for since. A test's runs are a
sequence of statuses beside the models they are for. `process`'s `release` is
the operator `Release`, used by the steps that run it (`Swap`, `Free`, `LetGo`).
`Judge` asks whether the test was cancelled, and `Record` or `RecordCancelled` writes
what follows; a cancel may come between them. `late` is history: the replies
recorded since the running test was cancelled.
`stale` is as above, for StartModelTest and FinishModelTest; it also becomes true
when a test is deleted that the worker is about to start, or a handler about to
cancel, by what they have read of it (`Claimed`).

### UsageTracker

The tracker polls Ollama for the models loaded and their unload times, and takes
a later unload time for a use. Time is counted in seconds. `Pass` lets one
second pass and runs the ticker (one slot; a second tick is dropped); `Use` and
`Unload` are Ollama's; `Tick`, `Answer`, `Fail`, `Skip`, `Mark`, `Add` and `Done` are the
steps of `Run` and `poll`; an answer, and each of the two statements of a use, may take
any time, and the statements may fail. The answer's unload times may differ by
`Slack` from one time to the next, which the code allows for. `Restart` loses
`seen`.

What is recorded is compared with history variables that the code has not
got: `usedAt` and `starts` (what requests did), `answered`, and `truth`, which notes
at each answer who has been used since the one before (`touched`), and who
surely must be found out (`sure`): those used more than twice the slack after it
and by requests that did not ask to keep the model for less time than before. The last condition is
needed: a request may bring the unload time forward (the page that loads a model
offers several times to keep it), and such a use is not seen, although the
comment at tracker.go:72 has it that "a model used in the meantime has a later
unload time".

### ModelAdmin

A request is a record: how far its handler has got (`step`), what it was asked
and what it has read. `AddUp` and `Weigh` are the two reads of
`resourceConcerns`, the queue's bytes and then the disk's; `Look` is the
blacklist; `Enqueue` the transaction, `UnblacklistQueued` what comes after it.
Everybody else may move between any two. Deleting goes model by model through
`todo`, and collects what the report will say (`deleted`, `failed`,
`unlisted`); beside it `gone` and `banned` note what really became of the
models. A browser that hangs up ends any request but a bulk one, which runs
under `context.WithoutCancel`.

The worker is here for its bytes: a model has `Size[m]` layers of one unit
each, fetched in order; `seen` is how many the tracker has heard of. The row's
`left` is its total less what is completed. `QueueFits` excuses what nobody
could know: `excused` becomes true when a download is let in by someone who
was asked and confirmed, by a retry (which looks at nothing), with its size
unknown, or after a moment, between the look and the write, when what the
queue had to fetch changed or a row said less than there was to fetch. That
last includes the code's own window: two requests may both find room.

### LibraryClient

A read is a look in the cache, a request, the store of the answer, and the
record of how it went. Time is counted in ticks of half an hour; nothing keeps
a time of day, an answer in the cache keeps how long it has left and a request
whether a tick has passed since it began, so that the clock has no bound. A
request ends within 15 seconds and a check within a minute, so that at most one
tick passes meanwhile. `site[p]` is what a page gives now: it is `good`, loads
and is unreadable (`bad`), has lost its details (`bare`), is `down`, or
`missing`. `met` is history: somebody who waited could not read a page.

### Labels

One step per statement or transaction. `missing` are the built-in names that
the start has yet to look for; requests are taken once it is through. Ids are
AUTOINCREMENT, and `nextId` is the sequence. `Find` and `Check` are the two
reads that come before an update or a delete, the handler's and the store's;
the write comes after, whatever has become of the label.

### UpdateCheck, Storage, ModelsPage, Discover, Hardware

`UpdateCheck`: `info`, `life` and `age` are the checker's cached answer, `holder`
whoever asks GitHub with the lock held, `last` the comparison that the pages
show. A refresh asks Ollama its version first, then for the release (`CheckKept`
or `AskGitHub` and `GitHubAnswers`), and writes both (`Keep`); the System page
writes the version alone (`KeepRunning`). An older answer of Ollama's may be written after a
newer one; `VersionSettles` says that it doesn't stay.

`Storage`, `Discover` and `Hardware` are operators over a state that is only
what they read: the library by digest and layer, the tags of a model and the
blacklist, the last snapshot. Their actions are what changes it (a pull, a
deletion, a retagging site, a sample), so that every state the instance allows
is reached, and the operators are compared with reference definitions there: what
a deletion leaves on the disk (`Real`), what rows that are one download say, what
the three verdicts say of one machine.

`ModelsPage` is one browser. Its addresses are records, `ParseListState` and
`URL` what the code makes of them. `trail` is history: the rows shown to someone
who follows Next from the first page while nothing changes.

These six share no state and no call. `Pages` puts them side by side, where one
moves (`part`) and the others stand still.

## What the runs show

| Run | Instance | Shows |
|---|---|---|
| `Queue` | 2 rows, 2 models, 2 handlers, 2 queueings | types; no lost wake-up; first come, first served; the unguarded updates are the only way to duplicates, a misdirected pull or a wrong "completed" |
| `QueueFaults` | 2 rows, 1 model, 1 handler, 1 restart, 1 outage, fair | one download runs; bounded resumes; a cancel decides; `QueuePromise` is implemented; every queued download settles |
| `Tests` | 2 tests of 2 runs, 1 handler, 1 restart | one run at a time; cancel stops the runs; `TestPromise` is implemented |
| `TestsMemory` | 1 test of 2 runs, 2 models that users load too, a failing unload, 1 restart, fair | models take turns; every test settles |
| `Usage` | 1 model, 8 seconds, interval of 3, kept for 3 or 6, any number of failures and restarts | no time or load is invented; idle models aren't counted; uses are caught |
| `Admin` | 2 models of 2 and 1 layers, a disk for 2, 2 requests at once, 3 in all, 1 fault | what is queued fits; reports are true; a banned model is asked about, and unbanned once queued |
| `Library` | 1 visitor and the check, 4 pages, a cache of 2, fair, unbounded time | nothing outlives its time; no false alarm; outages and recoveries are noticed |
| `Pages` | labels: 2 names, 3 ids, 2 requests, 1 restart; updates: 3 parties, 2 releases; storage: 3 tags, 3 contents of 4 layers, 2 days; list: 4 models, pages of 2, 2 changes; Discover: 3 tags of 2 digests; hardware: 4 amounts of memory, up to 2 GPUs | labels keep their rules; the version settles; figures add up; every model is shown once; rows and verdicts agree |

Two rows are enough for an order and for a duplicate, and for an id to be given
out again. Two handlers are needed for races between them (`Queue`); a race of a
handler and the worker needs one. `QueueFaults` has one model: two rows of it are
two downloads, and what its invariants say of several models is proved for any
number. `MaxStamp` bounds the times anything is queued,
`MaxBytes` = 1 the progress (none, or some), `MaxResumes` = 1 stands for five: at
most one resume without progress, and one more than allowed. A row that is put
back, cancelled and queued again keeps both its counts, and so does not start afresh. One restart can come at any
step, in the middle of the steps of another as a shutdown followed by a new
process. In the runs with `SYMMETRY` only handlers and models are permuted, and
nothing orders those; none of them checks liveness.

In `Usage` the models don't influence each other, so one is enough; eight seconds
give two ticks after the start, which is three polls, so that a poll may fail between two answers, and
twice the short time to keep a model, so that it may be unloaded and loaded again.

In `Admin` the disk has room for one model at a time, or for the small one and
half of the other; three requests are enough for two that race and one that
deletes, retries or unblacklists what they go by. In `Library` a cache of two
for three pages is full whenever it matters; the site's two failing pages are the
first, which visitors read too, and the one that only the check's last step
reads.  In `Pages`, three ids are two labels and one that is made again after a
deletion; three tags are two of one content and one beside; pages of two out of
four models are full, half full and past the end; a machine may have no GPU,
two, one that shares the memory, and amounts that can't be read.

`Admin`, `Pages` and `PageDeaf` do not look for deadlocks: their requests are
bounded, and when all have been made and the rest is done nothing is left to
do. Everywhere else the system never stops.

A run that expects a violation shows one of the findings.

## Findings

1. `CancelRace`: a queued download can be cancelled between the worker's read and
   its start; it is pulled all the same. Its row says cancelled during the pull
   if the mark comes after the worker's own (StartDownload), and downloading if before.
2. `SizeForgotten`: the first line of a pull, which is about no layer, writes
   "0 of 0" over the size that was recorded when the download was queued, so the
   disk check counts nothing for it until a layer is reported; a failed attempt
   that is queued again keeps it so (manager.go:429 and 444; downloads.go:119).
3. `BareForgotten`: a health check that finds results without their details goes
   on, and the readable tags page after them clears what it found (health.go:94,
   against health.go:14). In practice the alarm is on for as long as it takes to
   read two pages, once every six hours.
4. `PageDeaf`: a models list that was read while Ollama didn't answer has no
   address to read itself again from, so it never hears the event that tells of
   Ollama's return; the page stays an error until it is reloaded
   (handlers_models.go:47).

These were found while modelling too, and their grounds are in the source; no
run shows them by itself.

5. A resume count is dropped only when process ends a download (441). One that
   waits to resume and is cancelled and deleted leaves its count behind, and the
   next download is given its id: that one is failed too early, with a message
   that it lost the connection five times in a row (473, against 39 and 81).
   `ResumesBounded` is the other half: no download is resumed too often.
6. A cancel that comes after process has looked at the cause of the pull's end
   (manager.go:447) and before `cancelID` is cleared (392-396) is accepted and
   forgotten: the page says that it was cancelled, and the download is recorded as failed, or put back
   and resumed. `CancelDecides` is about the cancels before.
7. The same in the test runner: a cancel that comes after it was asked for
   (runner.go:153) does not keep the reply from being recorded (159). The next
   run is then given up; if there is none, or the cancel comes later still, the test ends as completed
   or failed although the page says that it was cancelled (164-175, 204-210). `CancelStopsRuns` says that it is one reply at most.
8. `Retry`'s check for the model (293) and its write (308) aren't one transaction,
   so a model can be queued twice. `SoundUntilStale` has it as one of the ways to
   make `stale` true.
9. After a restart in the middle of a model's runs, the test runner takes
   the model it had loaded for someone else's and leaves it loaded beside the next one (runner.go:140,
   against 113). `TakesTurns` makes an exception of it.

The cancel of a test has the same race as 1 (`CancelQueuedModelTest` reads and
then writes); in `ModelTestRunner` it is one of the ways to make `stale` true.

Smaller ones, seen in passing:

- A bulk delete is said to blacklist "each first" (handlers_bulk.go:88); it deletes first.
- `handleLabelUpdate` does not look at `UpdateLabel`'s `ok`: a label deleted meanwhile is
  updated without an error. `labelNamed` compares with Unicode case folding what
  the table compares as ASCII.
- A request for the app's update that is given up caches an empty answer for five
  minutes. `releases` keeps an answer for as long as the background waits between
  two checks, so that GitHub is asked at every second one.
- A page found in the cache is recorded as a good read of ollama.com, and so
  clears the alarm of one that failed.
- A watcher with no fingerprint yet asks again at once while Ollama is down; its
  first answer only takes stock, so what changed since the page was rendered is missed.
- `idleSince` counts a use under any of a model's tags, but not under one deleted since.
- `localModels` reads what is installed before what is downloading: a download that
  completes in between is in neither.

## Fairness

The worker's steps are weakly fair: it is a goroutine with nothing to wait for
but what is named in its guards. A pull that makes no progress is ended by the
stall timer (weak fairness of `Stall`); `Progress` is not fair, but bounded. A
handler that has begun goes on (or its browser hangs up). Ollama comes back
after an outage and a process that has stopped is started again; without these
two nothing can be promised. A chat of a test ends: `Chat` is called without a
time limit of its own, so this is an assumption on Ollama. No request is fair,
and neither is the one-minute timer beside the wake-up channel: the wake-ups
alone are enough.

`LibraryClient`: a visitor's request is answered or times out (15 seconds), the
check's goroutine goes on, and time passes. Nothing is assumed of the site or of
who visits. `UpdateCheck`: the background goes on at its ticks, GitHub answers
or times out (5 seconds), a refresh writes what it has, and time passes; the
lock is strongly fair, since Go's mutex hands itself to a waiter that has
starved. What `VersionSettles` promises is conditional on Ollama staying up.

## What is proved

`DownloadQueueProofs` proves, for any number of rows, models, handlers,
restarts and outages, from the assumptions on the constants alone
(`StoreAssumption`, `QueueAssumption`):

- `TypeCorrect`, `OneDownloadRuns`, `WakeupsArrive`, `ResumesAreBounded`,
  `ServedInOrder`, `SoundBeforeStale`, `CancelIsDecisive`: the invariants and the
  action property of the runs `Queue` and `QueueFaults`;
- `QueueKeepsPromise`: `DownloadQueue` implements `QueuePromise`.

None of the invariants but `TypeOK` is inductive. The
argument goes in layers, each using those before it:

- `Typed`: `TypeOK`, and that while the worker is between `check` and `clear` it
  has a job, and a registered id is the job's.
- `OneRunning` is inductive with `Typed`: only `Begin` makes a row "downloading",
  and it does so where `OneRunning` says that none is.
- `Ordered`: first come first served needs that places in the queue are unique
  and in the past of the clock (`Stamps`); the worker's read takes the least, and
  every later queueing gets a greater one. An interrupted download keeps its place,
  and no other can have it.
- `SoundSoFar`: until a stale write the worker's job is its row; a result of
  "ok" is of a model in `pulled` (`SuccessPulled`); with no duplicates.
- `ResumesAreBounded`: the invariant is `Counted`. For every row the code's count is within
  the limit and not behind what really happened: it is at least as high, and the
  progress it goes by at least as far, also when another row had the id. While a row is
  about to be put back the history is taken with that one (`Owing`). Counting one more keeps the two in that
  order (`OneMoreGrows`), and a row is put back only if `Judge` has found
  room under the limit (`JudgeCounted`).
- `CancelIsDecisive`: the invariant is `Honoured`. A cancel that is owed is the cause
  for as long as nobody has looked; afterwards the worker is at a case of
  the switch that honours it (or success or the app's shutdown came first).
- The refinement takes these as its grounds: each action of the queue is a step
  of the promise, or leaves the table alone, or makes `stale` true.

`UsageTrackerProofs` proves, for any models, keep-alive times, slack and interval,
from `TrackerAssumption`, the five invariants of the run `Usage`:

- `TypeCorrect`: the types.
- `NoMoreTimeThanPassed`: each interval recorded, or that the poll in progress or the
  tick in the channel may yet record, has passed before the last tick (`Budget`).
- `LoadsHappened`: each load recorded, that the poll in progress may record, or that
  Ollama has made since the last answer, has happened (`LoadBudget`). Both budgets need
  that a model whose first statement is done is one that is counted (`InHand`).
- `IdleNotCounted` and `UseCaught`: a model's unload time is the last use and its
  time to keep; the last answer's is no earlier than now for a model that
  hasn't been used since, and, unless it was asked to be kept for less, at most
  the time of that answer and its time to keep (`Comparable`).

`LabelsProofs` proves, for any models, names, requests and restarts, from
`LabelsAssumption`: the types (`TypeCorrect`), `NamesStayUnique`,
`NothingDangles`, `GoneStaysGone` and `BuiltinsRemain`, which are the four
properties of labels in the run `Pages`.

- Names and dangling labels are inductive with the types: the statement that
  names a label, or puts one on a model, is the one that looks. The types need
  that a request that will give a name has one (`Complete`).
- What is gone stays gone because ids are in order (`Fresh`), and every id a
  request knows is one that was given out (`Known`).
- The built-in labels are the one rule that a statement breaks by itself: the
  write goes by what a statement before it has read. `Cleared` says that a request about to
  write has an id that is not a built-in label's, and it is inductive because
  no label becomes built in, and ids are not given out again.

`ModelTestProofs` proves, for any tests, models, plans, handlers, restarts and
refusals, from `TestStoreAssumption` and `RunnerAssumption`, all that the runs
`Tests` and `TestsMemory` check of the runner but its liveness:

- `TypeCorrect` needs `InHand`: what the worker and the handlers hold, given
  where they are in the code; the two are inductive together (`Typed`).
- `OneTestAtATime` is inductive with `Typed`: only the worker's `Start` and `Begin`
  mark a test or a run as running, and they mark what the worker has in hand
  (`NewlyRunning`); it lets go of neither while the row says so (`NothingLeftRunning`).
- `CancelledTestsStop`: the invariant is `Stops`. No reply is late before a cancel;
  none is late while the worker is at `record`, because `Judge` goes there only without a
  cancel, and one that comes while it is there makes the reply about to be written
  the first. After that every `Judge` finds the cancel.
- `ModelsHaveTheirTurn` needs `OnlyInHand`: until a restart, a refusal or a
  shutdown, nothing the worker has loaded is in memory but the model in hand.
- `RunnerKeepsPromise`: each step is one of the promise, or leaves the tests
  alone, or makes `stale` true. Its grounds are `SoundUntilStale`: at most one
  test and run is marked as running, the worker's test is the first in line, one it has begun is marked as
  running, a verdict fits the runs, and a test that is over has none to do.

`AdminProofs` proves, for any finite set of models, sizes, disk, requests and
faults, from `AdminAssumption`, the five properties of the run `Admin`:

- `TypeCorrect` is inductive with what each request's record says of where it is
  (`Requests`) and with the pull having reported no more than there is (`Reported`);
  together they are `Typed`. `ReportsAreTrue` and `BlacklistStands` follow from it and the steps:
  `Requests` says that what a request lists as deleted, failed and blacklisted fits
  what it did (`Honest`), and that one which unblacklists has queued its download (`Earned`).
- `BannedAreAskedAbout` needs that a request past the look was asked, or its model was not on the
  blacklist, or got there late (`Allowed`).
- `DownloadsFit` is inductive only with what each request under way knows (`Safe`).
  A handler reads the sum of the queue, weighs the disk and queues its download in
  three steps, and requests, deletions and the worker go on in between. `Sound` says of each
  request that the sum it has read is no less than what the queue has to fetch, or
  it is marked as blind; and, once it has weighed the disk, that its download fits along with
  all that is queued. The pull keeps `Within`, because a layer fetched is
  as much less to fetch as it is less room; a deletion, because the layers it
  frees are at least those some download needs again. These steps are lemmas about the
  sums (`FetchedFits`, `DeletedFits`, `OneMoreLoad`, ...), and what they need to
  know of sums is in `Sums`: adding one element, changing one value, comparing two.
  The library's `SumFunctionOnSet` is a recursive function over subsets, so `Sums`
  proves its facts by taking a least counterexample among the finite subsets.

`LibraryProofs` proves, for any pages, sizes of the cache and times to live, from
`LibraryAssumption`, the invariants of the run `Library`:

- `TypeCorrect` and `AnswersExpire` are inductive together (`Typed`): an entry that is still
  served was stored with what is left of its time to live, and what a request has read
  was given no earlier than the request began (`Requests`, `Lasting`).
- `AlarmsAreFounded`: whatever a request has got that counts against the site, or the
  cache holds of it, was met by somebody who waited (`Grounded`).

`PagesProofs` proves, for any values of the constants that `PartsAssumption` allows
(each component's own assumption), the five invariants of the run `Pages` that are not the
labels'. `EachIsItself` says that `Pages` does nothing to its components, so that what is
proved of `Labels` holds there too.

- `DotAgrees`: the comparison shown is always one of two versions (`Compared`),
  whoever wrote it; a comparison of two versions is sound.
- `PageFiguresAddUp` holds of every state of the right types, so the types are
  the invariant and the work is in the sums. Each blob stands for the layers behind it
  (`Behind`: a layer for itself, an unread manifest for all of its own) and counts as many bytes. The
  layers a deletion removes are covered by the blobs it is said to free
  (`RemovedIsCovered`), so they are no more (`SumOfCovered`); if every manifest can be read they
  are the same set. What single quantisations free is disjoint, so it is no
  more than all of them free (`SumOfApart`). Tags without use add nothing to a bar.
- `ModelsShownOnce`: the order of any column is total (`OrderIsTotal`,
  `OrderIsTransitive`), so every model has a place of its own (`PlacesAreApart`) and, since there are as many
  places as models, every place a model (`SortedOnce`). The invariant is `Walked`: on
  a walk the rows shown are the list up to the end of the page. A link keeps
  the whole state of the list (`LinksKeepState`), so Next goes on where it was (`WalkGoesOn`),
  and the page without a Next is the one that ends with the list (`PagesFit`).
- `DownloadRowsAgree`: tags of one download have the same tags beside themselves
  (`SameIsShared`), and whatever a row takes from those is then the same.
- `MachineVerdictsAgree`: the verdicts are inequalities between sums of a
  snapshot's memory, all natural numbers (`ReadingsAreNat`). The samples are in order, none is later than the clock, and
  cutting off the oldest keeps the last (`TrimKeepsLast`).

Only model-checked: the liveness properties (`EveryDownloadSettles`, `EveryTestSettles`,
`OutageNoticed`, `RecoveryNoticed`, `VersionSettles`). They rest on fairness, and so on
which steps are enabled, which is out of the prover's reach.

## Not modelled

- Failing SQL statements, apart from those that fail because their context is
  cancelled and the blacklisting of a deleted model. The outcome statements' errors are ignored by the code; a row would
  stay "downloading" until the next start.
- Speed, log lines, error texts, prompts, replies, timings.
- In `ModelAdmin`: all of a row but its `left`; that an ended row stays beside a
  new one of the same model (a new request replaces it); what an update of an
  installed model fetches (nothing); an entry's reason and details; other users
  of the disk; a models folder that isn't visible (the check is then skipped); the
  bulk unload. Layers that models share are in `Storage`.
- The case of a name (models and labels are names up to case).
- Clocks that go backwards: `queued_at` is taken to grow.
- The order of version strings: versions are numbers in `UpdateCheck`.
- The parsing of ollama.com's and Hugging Face's pages. Hugging Face's searches
  use the same cache, but no health record.
- Sign-in, sessions and accounts: they share no state with the rest.
- Chat, Markdown, formatting, templates, static files, and the reading of the
  operating system: no state of the program's own.

What is left would be, in this order: failing SQL statements; the bulk unload; sign-in.
