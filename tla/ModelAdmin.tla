----------------------------- MODULE ModelAdmin -----------------------------
(***************************************************************************)
(* What people do with models besides testing them: asking for downloads   *)
(* (with the check of the disk and of the blacklist before one is queued), *)
(* deleting one or many of them, blacklisting them as they go.             *)
(*                                                                         *)
(* A request is a record that says how far its handler has got and what it *)
(* knows; each statement, and each call to Ollama, is a step.  The worker  *)
(* is here only for the bytes it fetches and writes down: how it chooses a *)
(* row is in DownloadQueue.  A layer of a model is one unit of disk space, *)
(* and layers are fetched one after another.                               *)
(***************************************************************************)
EXTENDS Naturals, FiniteSets, Functions

CONSTANTS
    Models,         \* models by name, up to case
    Clients,        \* requests that can be under way at once
    Size,           \* Size[m]: the layers of m
    Capacity,       \* layers that fit on the disk where Ollama keeps models
    MaxRequests,    \* bound: requests made
    MaxFaults,      \* bound: lost answers, failing statements, failing pulls
    None            \* no model

ASSUME AdminAssumption ==
    /\ IsFiniteSet(Models)
    /\ Size \in [Models -> Nat \ {0}]
    /\ Capacity \in Nat
    /\ MaxRequests \in Nat
    /\ MaxFaults \in Nat
    /\ None \notin Models

VARIABLES
    have,           \* have[m]: layers of m that Ollama has
    installed,      \* the models Ollama lists
    row,            \* row[m]: the latest download of m
    seen,           \* layers the pull in progress has reported (the tracker)
    blacklist,      \* the models on the blacklist
    req,            \* req[c]: the request in c's hands
    asked,          \* requests made so far
    faults,         \* faults so far
    excused         \* history: a download was let in that nobody could know fits

vars == <<have, installed, row, seen, blacklist, req, asked, faults, excused>>

-----------------------------------------------------------------------------
Statuses == {"none", "queued", "downloading", "ended"}
Row      == [status : Statuses, left : Nat]
NoRow    == [status |-> "none", left |-> 0]
Steps    == {"rest", "check", "sum", "weigh", "look", "enqueue", "unban", "delete", "ban"}

Request ==
    [step : Steps,
     model : Models \cup {None}, confirm : BOOLEAN, unban : BOOLEAN,
     size : Nat, update : BOOLEAN, queued : Nat, blind : BOOLEAN, late : BOOLEAN,
     blacklist : BOOLEAN, bulk : BOOLEAN, todo : SUBSET Models,
     deleted : SUBSET Models, failed : SUBSET Models, unlisted : SUBSET Models,
     gone : SUBSET Models, banned : SUBSET Models, inserted : BOOLEAN]

AtRest ==
    [step |-> "rest",
     model |-> None, confirm |-> FALSE, unban |-> FALSE,
     size |-> 0, update |-> FALSE, queued |-> 0, blind |-> FALSE, late |-> FALSE,
     blacklist |-> FALSE, bulk |-> FALSE, todo |-> {},
     deleted |-> {}, failed |-> {}, unlisted |-> {}, gone |-> {}, banned |-> {}, inserted |-> FALSE]

Less(a, b) == IF a > b THEN a - b ELSE 0

Active(m)    == row[m].status \in {"queued", "downloading"}
ActiveModels == {m \in Models : Active(m)}

\* queued is the sum a request has read; the others it has taken note of: blind
\* (the sum says too little), late (the model was blacklisted after the look),
\* gone (models Ollama was without since the request began), banned (those it
\* blacklisted) and inserted (it has queued its download) are history, which no
\* handler goes by.

\* What a download still has to fetch; what its row says it has (its total_bytes
\* less its completed_bytes) is its left.
Need == [m \in Models |-> Less(Size[m], have[m])]
Left == [m \in Models |-> row[m].left]

QueuedBytesBug == SumFunctionOnSet(Left, {m \in Models : row[m].status = "queued"})
QueuedBytes    == SumFunctionOnSet(Left, ActiveModels)
Free           == Less(Capacity, SumFunctionOnSet(have, Models))

\* A row says less than there is to fetch.
Blind == \E m \in ActiveModels : row[m].left < Need[m]

TypeOK ==
    /\ have \in [Models -> Nat]
    /\ \A m \in Models : have[m] <= Size[m]
    /\ installed \subseteq {m \in Models : have[m] = Size[m]}
    /\ row \in [Models -> Row]
    /\ \A m, n \in Models : row[m].status = "downloading" /\ row[n].status = "downloading" => m = n
    /\ seen \in Nat
    /\ blacklist \subseteq Models
    /\ req \in [Clients -> Request]
    /\ asked \in 0..MaxRequests
    /\ faults \in 0..MaxFaults
    /\ excused \in BOOLEAN

Init ==
    /\ installed \in SUBSET Models
    /\ have = [m \in Models |-> IF m \in installed THEN Size[m] ELSE 0]
    /\ SumFunctionOnSet(have, Models) <= Capacity
    /\ row = [m \in Models |-> NoRow]
    /\ seen = 0
    /\ blacklist = {}
    /\ req = [c \in Clients |-> AtRest]
    /\ asked = 0
    /\ faults = 0
    /\ excused = FALSE

-----------------------------------------------------------------------------
\* Bookkeeping of a request's steps.

At(c, step)    == req[c].step = step
Advance(c, r)  == req' = [req EXCEPT ![c] = r]
GoTo(c, step)  == [req[c] EXCEPT !.step = step]
Finish(c)      == Advance(c, AtRest)
Begin(c, r)    == At(c, "rest") /\ asked < MaxRequests /\ asked' = asked + 1 /\ Advance(c, r)
Fault          == faults < MaxFaults /\ faults' = faults + 1

\* r, when what the queue has to fetch is no longer what r will have read.
Outdated(r) ==
    IF r.step \in {"sum", "weigh", "look", "enqueue"} THEN [r EXCEPT !.blind = TRUE] ELSE r

Queueing(c, m) == req[c].model = m /\ req[c].step = "enqueue"

-----------------------------------------------------------------------------
\* Asking for a download.

\* The form: confirm is set by the dialog's button; unban by the dialog's or by
\* the Download button of the blacklist.
AskDownload(c, m, confirm, unban) ==
    /\ Begin(c, [AtRest EXCEPT !.step = "check", !.model = m, !.confirm = confirm, !.unban = unban])
    /\ UNCHANGED <<have, installed, row, seen, blacklist, faults, excused>>

\* The registry may not say how big the model is; one that doesn't exist is refused.
Check(c) ==
    /\ At(c, "check")
    /\ \E size \in {0, Size[req[c].model]} :
           Advance(c, [req[c] EXCEPT !.step = IF req[c].confirm THEN "enqueue" ELSE "sum",
                                     !.size = size, !.update = req[c].model \in installed])
    /\ UNCHANGED <<have, installed, row, seen, blacklist, asked, faults, excused>>

Refuse(c) ==
    /\ At(c, "check")
    /\ Finish(c)
    /\ UNCHANGED <<have, installed, row, seen, blacklist, asked, faults, excused>>

\* resourceConcerns reads what is queued, then what is free: in the other order
\* the bytes fetched in between would be in neither.
AddUp(c) ==
    /\ At(c, "sum")
    /\ Advance(c, [req[c] EXCEPT !.step = "weigh", !.queued = QueuedBytes, !.blind = @ \/ Blind])
    /\ UNCHANGED <<have, installed, row, seen, blacklist, asked, faults, excused>>

Fits(size, queued) == size <= Less(Free, queued)

Weigh(c) ==
    /\ At(c, "weigh")
    /\ IF req[c].size = 0 \/ req[c].update \/ Fits(req[c].size, req[c].queued)
       THEN Advance(c, [GoTo(c, "look") EXCEPT !.queued = 0])
       ELSE Finish(c)                       \* the dialog
    /\ UNCHANGED <<have, installed, row, seen, blacklist, asked, faults, excused>>

LookBug(c) ==
    /\ At(c, "look")
    /\ Advance(c, GoTo(c, "enqueue"))
    /\ UNCHANGED <<have, installed, row, seen, blacklist, asked, faults, excused>>

\* downloadConfirm, blacklistedFor
Look(c) ==
    /\ At(c, "look")
    /\ IF req[c].unban \/ req[c].model \notin blacklist
       THEN Advance(c, GoTo(c, "enqueue"))
       ELSE Finish(c)                       \* the dialog
    /\ UNCHANGED <<have, installed, row, seen, blacklist, asked, faults, excused>>

\* EnqueueChecked's total is what the download is thought to take (diskNeed).
DiskNeed(r) == IF r.update THEN 0 ELSE r.size

Enqueue(c) ==
    LET m == req[c].model IN
    /\ At(c, "enqueue")
    /\ ~Active(m)
    /\ row' = [row EXCEPT ![m] = [status |-> "queued", left |-> DiskNeed(req[c])]]
    /\ req' = [d \in Clients |-> IF d # c THEN Outdated(req[d])
                                ELSE IF ~req[c].unban THEN AtRest
                                ELSE [AtRest EXCEPT !.step = "unban", !.model = m, !.inserted = TRUE]]
    /\ excused' = (\/ excused
                   \/ req[c].confirm
                   \/ req[c].blind
                   \/ req[c].size = 0)
    /\ UNCHANGED <<have, installed, seen, blacklist, asked, faults>>

AlreadyQueuedBug(c) ==
    /\ At(c, "enqueue")
    /\ Active(req[c].model)
    /\ IF req[c].unban THEN Advance(c, GoTo(c, "unban")) ELSE Finish(c)
    /\ UNCHANGED <<have, installed, row, seen, blacklist, asked, faults, excused>>

AlreadyQueued(c) ==
    /\ At(c, "enqueue")
    /\ Active(req[c].model)
    /\ Finish(c)
    /\ UNCHANGED <<have, installed, row, seen, blacklist, asked, faults, excused>>

UnblacklistQueued(c) ==
    /\ At(c, "unban")
    /\ blacklist' = blacklist \ {req[c].model}
    /\ Finish(c)
    /\ UNCHANGED <<have, installed, row, seen, asked, faults, excused>>

\* A browser that hangs up cancels the context of all but a bulk request.
Disconnect(c) ==
    /\ ~At(c, "rest")
    /\ ~req[c].bulk
    /\ Finish(c)
    /\ UNCHANGED <<have, installed, row, seen, blacklist, asked, faults, excused>>

-----------------------------------------------------------------------------
\* Deleting models, one from its page or several from the list.

AskDelete(c, names, ban) ==
    /\ names # {}
    /\ Begin(c, [AtRest EXCEPT !.step = "delete", !.todo = names,
                               !.blacklist = ban, !.bulk = Cardinality(names) > 1, !.gone = Models \ installed])
    /\ UNCHANGED <<have, installed, row, seen, blacklist, faults, excused>>

\* A model that is to be updated, and now to be fetched, was counted as nothing.
Remove(m) ==
    /\ installed' = installed \ {m}
    /\ have' = IF m \in installed THEN [have EXCEPT ![m] = 0] ELSE have

Gone(r, m) ==
    LET s == IF r.step \in {"delete", "ban"} THEN [r EXCEPT !.gone = @ \cup {m}] ELSE r
    IN  IF Active(m) THEN Outdated(s) ELSE s

Deleted(c, m) ==
    [req[c] EXCEPT !.todo = @ \ {m}, !.deleted = @ \cup {m}, !.gone = @ \cup {m}, !.model = m,
                   !.step = IF req[c].blacklist THEN "ban" ELSE "delete"]

\* A model that Ollama hasn't got any more counts as deleted (deleteModel).
Delete(c, m) ==
    /\ At(c, "delete")
    /\ m \in req[c].todo
    /\ Remove(m)
    /\ req' = [d \in Clients |-> IF d = c THEN Deleted(c, m) ELSE Gone(req[d], m)]
    /\ UNCHANGED <<row, seen, blacklist, asked, faults, excused>>

\* Ollama refuses, or its answer to what it did is lost.
DeleteFails(c, m) ==
    LET failing == [req[c] EXCEPT !.todo = @ \ {m}, !.failed = @ \cup {m}] IN
    /\ At(c, "delete")
    /\ m \in req[c].todo
    /\ Fault
    /\ \/ /\ UNCHANGED <<installed, have>>
          /\ Advance(c, failing)
       \/ /\ Remove(m)
          /\ req' = [d \in Clients |-> Gone(IF d = c THEN failing ELSE req[d], m)]
    /\ UNCHANGED <<row, seen, blacklist, asked, excused>>

\* What an entry says of its model is left out.
Blacklist(c) ==
    LET m == req[c].model IN
    /\ At(c, "ban")
    /\ blacklist' = blacklist \cup {m}
    /\ req' = [d \in Clients |->
                   IF d = c THEN [GoTo(c, "delete") EXCEPT !.model = None, !.banned = @ \cup {m}]
                   ELSE IF Queueing(d, m) THEN [req[d] EXCEPT !.late = TRUE] ELSE req[d]]
    /\ UNCHANGED <<have, installed, row, seen, asked, faults, excused>>

BlacklistFailsBug(c) ==
    /\ At(c, "ban")
    /\ Fault
    /\ Advance(c, [GoTo(c, "delete") EXCEPT !.model = None])
    /\ UNCHANGED <<have, installed, row, seen, blacklist, asked, excused>>

BlacklistFails(c) ==
    /\ At(c, "ban")
    /\ Fault
    /\ Advance(c, [GoTo(c, "delete") EXCEPT !.unlisted = @ \cup {req[c].model}, !.model = None])
    /\ UNCHANGED <<have, installed, row, seen, blacklist, asked, excused>>

\* Back to the list with what was done and what couldn't be (afterDelete).
Report(c) ==
    /\ At(c, "delete")
    /\ req[c].todo = {}
    /\ Finish(c)
    /\ UNCHANGED <<have, installed, row, seen, blacklist, asked, faults, excused>>

\* The blacklist's own Remove button: one statement.
Unblacklist(m) ==
    /\ asked < MaxRequests
    /\ asked' = asked + 1
    /\ m \in blacklist
    /\ blacklist' = blacklist \ {m}
    /\ UNCHANGED <<have, installed, row, seen, req, faults, excused>>

-----------------------------------------------------------------------------
\* The worker and the download's own buttons, for their bytes.

Pulling(m) == row[m].status = "downloading"

\* By the layers reported so far (tracker.bytes): their sizes less what of them
\* has been fetched.
Tracked(m, status) == [status |-> status, left |-> Less(seen, have[m])]

StartBug(m) ==
    /\ row[m].status = "queued"
    /\ row' = [row EXCEPT ![m].status = "downloading"]
    /\ seen' = 0
    /\ UNCHANGED <<have, installed, blacklist, req, asked, faults, excused>>

Start(m) ==
    /\ row[m].status = "queued"
    /\ \A n \in Models : ~Pulling(n)
    /\ row' = [row EXCEPT ![m].status = "downloading"]
    /\ seen' = 0
    /\ UNCHANGED <<have, installed, blacklist, req, asked, faults, excused>>

\* Written with the first line of a pull, which is about no layer, and then now
\* and again.
UpdateDownloadProgress(m) ==
    /\ Pulling(m)
    /\ row' = [row EXCEPT ![m] = Tracked(m, "downloading")]
    /\ UNCHANGED <<have, installed, seen, blacklist, req, asked, faults, excused>>

\* The pull reports the next layer, and in time it is there.
Layer(m) ==
    /\ Pulling(m)
    /\ have[m] < Size[m]
    /\ seen <= have[m]
    /\ seen' = have[m] + 1
    /\ UNCHANGED <<have, installed, row, blacklist, req, asked, faults, excused>>

Fetch(m) ==
    /\ Pulling(m)
    /\ have[m] < seen
    /\ Free > 0
    /\ have' = [have EXCEPT ![m] = @ + 1]
    /\ UNCHANGED <<installed, row, seen, blacklist, req, asked, faults, excused>>

Complete(m) ==
    /\ Pulling(m)
    /\ have[m] = Size[m]
    /\ installed' = installed \cup {m}
    /\ row' = [row EXCEPT ![m] = NoRow]
    /\ seen' = 0
    /\ UNCHANGED <<have, blacklist, req, asked, faults, excused>>

\* The pull fails or is cancelled ("ended"), or is to be resumed ("queued").
Settle(m, status) ==
    /\ Pulling(m)
    /\ row' = [row EXCEPT ![m] = Tracked(m, status)]
    /\ seen' = 0
    /\ UNCHANGED <<have, installed, blacklist, req, asked, faults, excused>>

CancelQueued(m) ==
    /\ row[m].status = "queued"
    /\ row' = [row EXCEPT ![m].status = "ended"]
    /\ UNCHANGED <<have, installed, seen, blacklist, req, asked, faults, excused>>

\* A retry looks neither at the disk nor at the blacklist, and goes by the bytes
\* the row has kept.
Retry(m) ==
    /\ asked < MaxRequests
    /\ asked' = asked + 1
    /\ row[m].status = "ended"
    /\ row' = [row EXCEPT ![m].status = "queued"]
    /\ excused' = TRUE
    /\ UNCHANGED <<have, installed, seen, blacklist, req, faults>>

-----------------------------------------------------------------------------
Handler(c) ==
    \/ \E m \in Models, confirm, unban \in BOOLEAN : AskDownload(c, m, confirm, unban)
    \/ Check(c) \/ Refuse(c) \/ AddUp(c) \/ Weigh(c) \/ Look(c)
    \/ Enqueue(c) \/ AlreadyQueued(c) \/ UnblacklistQueued(c) \/ Disconnect(c)
    \/ \E names \in SUBSET Models, ban \in BOOLEAN : AskDelete(c, names, ban)
    \/ \E m \in Models : Delete(c, m) \/ DeleteFails(c, m)
    \/ Blacklist(c) \/ BlacklistFails(c) \/ Report(c)

Worker(m) ==
    \/ Start(m) \/ UpdateDownloadProgress(m) \/ Layer(m) \/ Fetch(m) \/ Complete(m)
    \/ \E status \in {"queued", "ended"} : Settle(m, status)

Next ==
    \/ \E c \in Clients : Handler(c)
    \/ \E m \in Models : Worker(m) \/ CancelQueued(m) \/ Retry(m) \/ Unblacklist(m)

Spec == Init /\ [][Next]_vars

-----------------------------------------------------------------------------
\* The downloads that are queued fit on the disk, all of them together, unless
\* one was let in by somebody who was told otherwise (confirm), by a retry, when
\* its size was unknown, or when what the queue had yet to fetch could not be
\* known: another was let in since, or a row said less than there was to fetch.
\* So nothing else defeats resourceConcerns: no deletion, no cancel, no partial
\* download, no pull that goes on while it looks.
QueueFits ==
    excused \/ SumFunctionOnSet(Need, ActiveModels) <= Free

\* What is reported of a deletion, however much of it failed, is what happened
\* (handleBulkDelete, handleDeleteModel): a model reported as deleted is one that
\* Ollama no longer had; those blacklisted are those deleted, but for the ones
\* reported as "deleted, but not blacklisted".
ReportIsTrue ==
    [][\A c \in Clients : Report(c) =>
           /\ req[c].deleted \subseteq req[c].gone
           /\ req[c].banned = IF req[c].blacklist THEN req[c].deleted \ req[c].unlisted ELSE {}
           /\ req[c].failed \cap req[c].banned = {}]_vars

\* A model on the blacklist is not queued unless somebody was asked first: only
\* one that was blacklisted after the look, or by a request that comes from the
\* dialog or the blacklist (a retry aside).
BannedIsConfirmed ==
    [][\A c \in Clients, m \in Models :
           /\ Enqueue(c)
           /\ req[c].model = m
           /\ m \in blacklist
           => req[c].confirm \/ req[c].unban \/ req[c].late]_vars

\* The size that was recorded when a download was queued stands for it until its
\* pull has reported a layer (EnqueueDownload).
SizeStands ==
    [][\A m \in Models :
           Active(m) /\ Active(m)' /\ row'[m].left # row[m].left => seen > 0]_vars

\* A download that is cancelled in its dialog or refused leaves the blacklist
\* be: an entry goes when somebody removes it there, or after its model was queued.
UnbannedOnceQueued ==
    [][\A m \in Models :
           m \in blacklist \ blacklist' =>
               \/ Unblacklist(m)
               \/ \E c \in Clients : req[c].model = m /\ req[c].inserted]_vars
=============================================================================
