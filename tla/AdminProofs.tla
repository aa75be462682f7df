---------------------------- MODULE AdminProofs ----------------------------
(***************************************************************************)
(* Proofs about asking for downloads and deleting models, for any models,  *)
(* sizes, disk, number of requests and faults: what is queued fits on the  *)
(* disk, what is reported of a deletion is what happened, and a model on   *)
(* the blacklist is neither queued nor taken off it unasked.               *)
(***************************************************************************)
EXTENDS ModelAdmin, Sums

\* Every step is of one of these kinds; the proofs below go through them.
LEMMA StepKinds ==
    ASSUME [Next]_vars
    PROVE  \/ \E c \in Clients, m \in Models, confirm, unban \in BOOLEAN : AskDownload(c, m, confirm, unban)
           \/ \E c \in Clients : Check(c) \/ Refuse(c) \/ AddUp(c) \/ Weigh(c) \/ Look(c)
           \/ \E c \in Clients : Enqueue(c) \/ AlreadyQueued(c) \/ UnblacklistQueued(c) \/ Disconnect(c)
           \/ \E c \in Clients, names \in SUBSET Models, ban \in BOOLEAN : AskDelete(c, names, ban)
           \/ \E c \in Clients, m \in Models : Delete(c, m) \/ DeleteFails(c, m)
           \/ \E c \in Clients : Blacklist(c) \/ BlacklistFails(c) \/ Report(c)
           \/ \E m \in Models : Start(m) \/ UpdateDownloadProgress(m) \/ Layer(m) \/ Fetch(m) \/ Complete(m)
           \/ \E m \in Models, status \in {"queued", "ended"} : Settle(m, status)
           \/ \E m \in Models : CancelQueued(m) \/ Retry(m) \/ Unblacklist(m)
           \/ UNCHANGED vars
BY DEF Next, Handler, Worker, vars

-----------------------------------------------------------------------------
(* What a request may be.                                                  *)

\* A request that is past the form knows its model, and the model's size if the
\* registry does.
Informed(r) ==
    /\ r.step \in {"check", "sum", "weigh", "look", "enqueue", "unban", "ban"} => r.model \in Models
    /\ r.step \in {"sum", "weigh", "look", "enqueue"} => r.size \in {0, Size[r.model]}

\* What a deletion says it has done is what it has done so far.
Honest(r) ==
    r.step \in {"delete", "ban"} =>
        /\ r.deleted \subseteq r.gone
        /\ r.todo \cap r.deleted = {} /\ r.todo \cap r.failed = {} /\ r.deleted \cap r.failed = {}
        /\ r.unlisted \subseteq r.deleted
        /\ r.step = "ban" => r.blacklist /\ r.model \in r.deleted \ r.unlisted
        /\ r.banned = IF ~r.blacklist THEN {}
                      ELSE IF r.step = "ban" THEN r.deleted \ (r.unlisted \cup {r.model})
                      ELSE r.deleted \ r.unlisted

\* A request that goes on to the blacklist has queued its download.
Earned(r) == r.step = "unban" => r.inserted

WellFormed(r) == r \in Request /\ Informed(r) /\ Honest(r) /\ Earned(r)

Requests == \A c \in Clients : WellFormed(req[c])
Reported == \A m \in Models : Pulling(m) => seen <= Size[m]

Typed == TypeOK /\ Requests /\ Reported

Records == \A c \in Clients : WellFormed(req'[c])

\* A request at rest is one.
LEMMA AtRestWellFormed == WellFormed(AtRest)
BY DEF WellFormed, Informed, Honest, Earned, AtRest, Request, Steps

\* So is one that is told of what others do.
LEMMA BlindWellFormed ==
    ASSUME NEW r, WellFormed(r)
    PROVE  WellFormed(Outdated(r)) /\ WellFormed([r EXCEPT !.late = TRUE])
<1>1. WellFormed([r EXCEPT !.blind = TRUE])
  BY DEF WellFormed, Informed, Honest, Earned, Request
<1>2. WellFormed([r EXCEPT !.late = TRUE])
  BY DEF WellFormed, Informed, Honest, Earned, Request
<1>3. Outdated(r) = [r EXCEPT !.blind = TRUE] \/ Outdated(r) = r
  BY DEF Outdated
<1> QED  BY <1>1, <1>2, <1>3

\* A deletion takes note of what others delete.
LEMMA GoneWellFormed ==
    ASSUME NEW r, WellFormed(r), NEW m \in Models
    PROVE  WellFormed(Gone(r, m))
<1> DEFINE n == [r EXCEPT !.gone = @ \cup {m}]
           s == IF r.step \in {"delete", "ban"} THEN n ELSE r
<1>1. n \in Request /\ n.gone = r.gone \cup {m} /\ n.inserted = r.inserted /\ n.banned = r.banned
  BY DEF WellFormed, Request
<1>2. /\ n.step = r.step /\ n.model = r.model /\ n.size = r.size /\ n.blacklist = r.blacklist
      /\ n.deleted = r.deleted /\ n.todo = r.todo /\ n.failed = r.failed /\ n.unlisted = r.unlisted
  BY DEF WellFormed, Request
<1> HIDE DEF n
<1>3. WellFormed(n)
  BY <1>1, <1>2 DEF WellFormed, Informed, Honest, Earned
<1>4. WellFormed(s)
  BY <1>3
<1> HIDE DEF s
<1>5. WellFormed(Outdated(s))
  BY <1>4, BlindWellFormed
<1>6. Gone(r, m) = IF Active(m) THEN Outdated(s) ELSE s
  BY DEF Gone, s, n
<1> QED  BY <1>4, <1>5, <1>6

\* One request moves, the others stay.
LEMMA OneMoves ==
    ASSUME Typed, NEW c \in Clients, NEW r, WellFormed(r), req' = [req EXCEPT ![c] = r]
    PROVE  Records /\ req' \in [Clients -> Request]
<1>1. req \in [Clients -> Request] /\ r \in Request
  BY DEF Typed, TypeOK, WellFormed
<1>2. \A d \in Clients : req'[d] = IF d = c THEN r ELSE req[d]
  BY <1>1
<1> QED  BY <1>1, <1>2 DEF Typed, Requests, Records

\* Every request is what it may be after a step.
RequestsKept == Records /\ req' \in [Clients -> Request]

\* What a download's request does keeps it well formed.
LEMMA AskingKeeps ==
    ASSUME Typed, NEW c \in Clients,
           \/ \E m \in Models, confirm, unban \in BOOLEAN : AskDownload(c, m, confirm, unban)
           \/ Check(c) \/ Refuse(c) \/ AddUp(c) \/ Weigh(c) \/ Look(c)
           \/ AlreadyQueued(c) \/ UnblacklistQueued(c) \/ Disconnect(c) \/ Report(c)
    PROVE  RequestsKept
<1>0. WellFormed(req[c])
  BY DEF Typed, Requests
<1>1. ASSUME Finish(c) PROVE RequestsKept
  BY <1>1, AtRestWellFormed, OneMoves DEF Finish, Advance, RequestsKept
<1>2. ASSUME NEW m \in Models, NEW confirm \in BOOLEAN, NEW unban \in BOOLEAN, AskDownload(c, m, confirm, unban)
      PROVE  RequestsKept
  <2> DEFINE r == [AtRest EXCEPT !.step = "check", !.model = m, !.confirm = confirm, !.unban = unban]
  <2>1. WellFormed(r)
    BY DEF WellFormed, Informed, Honest, Earned, AtRest, Request, Steps
  <2>2. req' = [req EXCEPT ![c] = r]
    BY <1>2 DEF AskDownload, Begin, Advance
  <2> HIDE DEF r
  <2> QED  BY <2>1, <2>2, OneMoves DEF RequestsKept
<1>3. ASSUME Check(c) PROVE RequestsKept
  <2> DEFINE step == IF req[c].confirm THEN "enqueue" ELSE "sum"
             update == req[c].model \in installed
  <2>1. PICK size \in {0, Size[req[c].model]} :
            req' = [req EXCEPT ![c] = [req[c] EXCEPT !.step = step, !.size = size, !.update = update]]
    BY <1>3 DEF Check, Advance
  <2> DEFINE r == [req[c] EXCEPT !.step = step, !.size = size, !.update = update]
  <2>0. step \in {"enqueue", "sum"} /\ update \in BOOLEAN
    OBVIOUS
  <2> HIDE DEF step, update
  <2>2. req[c].model \in Models /\ size \in Nat
    BY <1>0, <1>3, AdminAssumption DEF Check, At, WellFormed, Informed
  <2>3. r \in Request
    BY <1>0, <2>0, <2>2 DEF WellFormed, Request, Steps
  <2>4. r.step \in {"enqueue", "sum"} /\ r.model = req[c].model /\ r.size = size
    BY <1>0, <2>0 DEF WellFormed, Request
  <2>5. req' = [req EXCEPT ![c] = r]
    BY <2>1
  <2> HIDE DEF r
  <2>6. WellFormed(r)
    BY <2>2, <2>3, <2>4 DEF WellFormed, Informed, Honest, Earned
  <2> QED  BY <2>5, <2>6, OneMoves DEF RequestsKept
<1>4. ASSUME AddUp(c) PROVE RequestsKept
  <2> DEFINE r == [req[c] EXCEPT !.step = "weigh", !.queued = QueuedBytes, !.blind = @ \/ Blind]
  <2>1. QueuedBytes \in Nat
    <3>1. IsFiniteSet(ActiveModels)
      BY AdminAssumption, FS_Subset DEF ActiveModels
    <3>2. \A m \in ActiveModels : Left[m] \in Nat
      BY DEF Typed, TypeOK, Row, Left, ActiveModels
    <3> QED  BY <3>1, <3>2, SumIsNat DEF QueuedBytes
  <2>2. WellFormed(r)
    BY <1>0, <1>4, <2>1 DEF AddUp, At, WellFormed, Informed, Honest, Earned, Request, Steps
  <2>3. req' = [req EXCEPT ![c] = r]
    BY <1>4 DEF AddUp, Advance
  <2> HIDE DEF r
  <2> QED  BY <2>2, <2>3, OneMoves DEF RequestsKept
<1>5. ASSUME Weigh(c) PROVE RequestsKept
  <2> DEFINE r == [GoTo(c, "look") EXCEPT !.queued = 0]
  <2>1. WellFormed(r)
    BY <1>0, <1>5 DEF Weigh, At, GoTo, WellFormed, Informed, Honest, Earned, Request, Steps
  <2>2. req' = [req EXCEPT ![c] = r] \/ Finish(c)
    BY <1>5 DEF Weigh, Advance
  <2> HIDE DEF r
  <2> QED  BY <1>1, <2>1, <2>2, OneMoves DEF RequestsKept
<1>6. ASSUME Look(c) PROVE RequestsKept
  <2> DEFINE r == GoTo(c, "enqueue")
  <2>1. WellFormed(r)
    BY <1>0, <1>6 DEF Look, At, GoTo, WellFormed, Informed, Honest, Earned, Request, Steps
  <2>2. req' = [req EXCEPT ![c] = r] \/ Finish(c)
    BY <1>6 DEF Look, Advance
  <2> HIDE DEF r
  <2> QED  BY <1>1, <2>1, <2>2, OneMoves DEF RequestsKept
<1> QED  BY <1>1, <1>2, <1>3, <1>4, <1>5, <1>6 DEF Refuse, AlreadyQueued, UnblacklistQueued, Disconnect, Report

\* A request that queues its download tells the others.
LEMMA EnqueueKeeps ==
    ASSUME Typed, NEW c \in Clients, Enqueue(c)
    PROVE  RequestsKept
<1> DEFINE r == IF ~req[c].unban THEN AtRest
                ELSE [AtRest EXCEPT !.step = "unban", !.model = req[c].model, !.inserted = TRUE]
<1>1. req' = [d \in Clients |-> IF d # c THEN Outdated(req[d]) ELSE r]
  BY DEF Enqueue
<1>2. req[c].model \in Models
  BY DEF Typed, Requests, WellFormed, Informed, Enqueue, At
<1>3. WellFormed(r)
  <2>1. WellFormed([AtRest EXCEPT !.step = "unban", !.model = req[c].model, !.inserted = TRUE])
    BY <1>2 DEF WellFormed, Informed, Honest, Earned, AtRest, Request, Steps
  <2> QED  BY <2>1, AtRestWellFormed
<1> HIDE DEF r
<1>4. \A d \in Clients : WellFormed(Outdated(req[d]))
  BY BlindWellFormed DEF Typed, Requests
<1>5. \A d \in Clients : WellFormed(req'[d]) /\ req'[d] \in Request
  BY <1>1, <1>3, <1>4 DEF WellFormed
<1> QED  BY <1>1, <1>5 DEF RequestsKept, Records

\* A deletion keeps every request well formed, its own and those it tells.
LEMMA DeletingKeeps ==
    ASSUME Typed, NEW c \in Clients,
           \/ \E names \in SUBSET Models, ban \in BOOLEAN : AskDelete(c, names, ban)
           \/ \E m \in Models : Delete(c, m) \/ DeleteFails(c, m)
           \/ Blacklist(c) \/ BlacklistFails(c)
    PROVE  RequestsKept
<1>0. WellFormed(req[c])
  BY DEF Typed, Requests
<1>1. ASSUME NEW m \in Models, NEW r, WellFormed(r),
             \/ req' = [req EXCEPT ![c] = r]
             \/ req' = [d \in Clients |-> IF d = c THEN r ELSE Gone(req[d], m)]
             \/ req' = [d \in Clients |-> Gone(IF d = c THEN r ELSE req[d], m)]
      PROVE  RequestsKept
  <2>1. \A d \in Clients : WellFormed(Gone(req[d], m)) /\ WellFormed(req[d]) /\ WellFormed(Gone(r, m))
    BY <1>1, GoneWellFormed DEF Typed, Requests
  <2>2. CASE req' = [req EXCEPT ![c] = r]
    BY <1>1, <2>2, OneMoves DEF RequestsKept
  <2>3. CASE req' = [d \in Clients |-> IF d = c THEN r ELSE Gone(req[d], m)]
    <3>1. \A d \in Clients : WellFormed(req'[d]) /\ req'[d] \in Request
      BY <1>1, <2>1, <2>3 DEF WellFormed
    <3> QED  BY <2>3, <3>1 DEF RequestsKept, Records
  <2>4. CASE req' = [d \in Clients |-> Gone(IF d = c THEN r ELSE req[d], m)]
    <3>1. \A d \in Clients : WellFormed(req'[d]) /\ req'[d] \in Request
      BY <1>1, <2>1, <2>4 DEF WellFormed
    <3> QED  BY <2>4, <3>1 DEF RequestsKept, Records
  <2> QED  BY <1>1, <2>2, <2>3, <2>4
<1>2. ASSUME NEW names \in SUBSET Models, NEW ban \in BOOLEAN, AskDelete(c, names, ban)
      PROVE  RequestsKept
  <2> DEFINE bulk == Cardinality(names) > 1
             gone == Models \ installed
             r == [AtRest EXCEPT !.step = "delete", !.todo = names, !.blacklist = ban, !.bulk = bulk, !.gone = gone]
  <2>1. bulk \in BOOLEAN /\ gone \in SUBSET Models
    OBVIOUS
  <2>2. req' = [req EXCEPT ![c] = r]
    BY <1>2 DEF AskDelete, Begin, Advance
  <2> HIDE DEF bulk, gone
  <2>3. r \in Request
    BY <2>1 DEF AtRest, Request, Steps
  <2>4. /\ r.step = "delete" /\ r.deleted = {} /\ r.failed = {} /\ r.unlisted = {} /\ r.banned = {}
    BY DEF AtRest
  <2> HIDE DEF r
  <2>5. WellFormed(r)
    BY <2>3, <2>4 DEF WellFormed, Informed, Honest, Earned, Request
  <2> QED  BY <2>2, <2>5, OneMoves DEF RequestsKept
<1>3. ASSUME NEW m \in Models, Delete(c, m) PROVE RequestsKept
  <2> DEFINE r == Deleted(c, m)
  <2>1. /\ r \in Request /\ r.step = (IF req[c].blacklist THEN "ban" ELSE "delete") /\ r.model = m
        /\ r.todo = req[c].todo \ {m} /\ r.deleted = req[c].deleted \cup {m} /\ r.gone = req[c].gone \cup {m}
    BY <1>0 DEF Deleted, WellFormed, Request, Steps
  <2>2. /\ r.failed = req[c].failed /\ r.unlisted = req[c].unlisted /\ r.banned = req[c].banned
        /\ r.blacklist = req[c].blacklist
    BY <1>0 DEF Deleted, WellFormed, Request
  <2>3. At(c, "delete") /\ m \in req[c].todo /\ req' = [d \in Clients |-> IF d = c THEN r ELSE Gone(req[d], m)]
    BY <1>3 DEF Delete
  <2> HIDE DEF r
  <2>4. Informed(r) /\ Earned(r)
    BY <2>1, <2>2 DEF Informed, Earned
  <2>5. Honest(req[c]) /\ req[c].step = "delete"
    BY <1>0, <2>3 DEF WellFormed, At
  <2>6. Honest(r)
    <3>1. CASE req[c].blacklist
      BY <2>1, <2>2, <2>3, <2>5, <3>1 DEF Honest
    <3>2. CASE ~req[c].blacklist
      BY <2>1, <2>2, <2>3, <2>5, <3>2 DEF Honest
    <3> QED  BY <3>1, <3>2
  <2> QED  BY <1>1, <2>1, <2>3, <2>4, <2>6 DEF WellFormed
<1>4. ASSUME NEW m \in Models, DeleteFails(c, m) PROVE RequestsKept
  <2> DEFINE r == [req[c] EXCEPT !.todo = @ \ {m}, !.failed = @ \cup {m}]
  <2>1. /\ r \in Request /\ r.step = req[c].step /\ r.model = req[c].model
        /\ r.todo = req[c].todo \ {m} /\ r.deleted = req[c].deleted /\ r.gone = req[c].gone
    BY <1>0 DEF WellFormed, Request, Steps
  <2>2. /\ r.failed = req[c].failed \cup {m} /\ r.unlisted = req[c].unlisted /\ r.banned = req[c].banned
        /\ r.blacklist = req[c].blacklist
    BY <1>0 DEF WellFormed, Request
  <2>3. /\ At(c, "delete") /\ m \in req[c].todo
        /\ \/ req' = [req EXCEPT ![c] = r]
           \/ req' = [d \in Clients |-> Gone(IF d = c THEN r ELSE req[d], m)]
    BY <1>4 DEF DeleteFails, Advance
  <2> HIDE DEF r
  <2>4. WellFormed(r)
    BY <1>0, <2>1, <2>2, <2>3 DEF WellFormed, Informed, Honest, Earned, Request, At
  <2> QED  BY <1>1, <2>3, <2>4
<1>5. ASSUME Blacklist(c) PROVE RequestsKept
  <2> DEFINE m == req[c].model
             r == [GoTo(c, "delete") EXCEPT !.model = None, !.banned = @ \cup {m}]
  <2>1. m \in Models /\ At(c, "ban")
    BY <1>0, <1>5 DEF WellFormed, Informed, Blacklist, At
  <2>2. /\ r \in Request /\ r.step = "delete" /\ r.todo = req[c].todo /\ r.deleted = req[c].deleted
        /\ r.gone = req[c].gone
    BY <1>0, <2>1 DEF GoTo, WellFormed, Request, Steps
  <2>3. /\ r.failed = req[c].failed /\ r.unlisted = req[c].unlisted /\ r.banned = req[c].banned \cup {m}
        /\ r.blacklist = req[c].blacklist
    BY <1>0 DEF GoTo, WellFormed, Request
  <2>4. req' = [d \in Clients |-> IF d = c THEN r
                                  ELSE IF Queueing(d, m) THEN [req[d] EXCEPT !.late = TRUE] ELSE req[d]]
    BY <1>5 DEF Blacklist
  <2> HIDE DEF r
  <2>5. WellFormed(r)
    BY <1>0, <2>1, <2>2, <2>3 DEF WellFormed, Informed, Honest, Earned, Request, At
  <2>6. \A d \in Clients : WellFormed([req[d] EXCEPT !.late = TRUE])
    BY BlindWellFormed DEF Typed, Requests
  <2>7. \A d \in Clients : WellFormed(req'[d])
    BY <2>4, <2>5, <2>6 DEF Typed, Requests
  <2>8. \A d \in Clients : req'[d] \in Request
    BY <2>7 DEF WellFormed
  <2> QED  BY <2>4, <2>7, <2>8 DEF RequestsKept, Records
<1>6. ASSUME BlacklistFails(c) PROVE RequestsKept
  <2> DEFINE m == req[c].model
             r == [GoTo(c, "delete") EXCEPT !.unlisted = @ \cup {m}, !.model = None]
  <2>1. m \in Models /\ At(c, "ban") /\ req' = [req EXCEPT ![c] = r]
    BY <1>0, <1>6 DEF WellFormed, Informed, BlacklistFails, At, Advance
  <2>2. /\ r \in Request /\ r.step = "delete" /\ r.todo = req[c].todo /\ r.deleted = req[c].deleted
        /\ r.gone = req[c].gone
    BY <1>0, <2>1 DEF GoTo, WellFormed, Request, Steps
  <2>3. /\ r.failed = req[c].failed /\ r.unlisted = req[c].unlisted \cup {m} /\ r.banned = req[c].banned
        /\ r.blacklist = req[c].blacklist
    BY <1>0 DEF GoTo, WellFormed, Request
  <2> HIDE DEF r
  <2>4. WellFormed(r)
    BY <1>0, <2>1, <2>2, <2>3 DEF WellFormed, Informed, Honest, Earned, Request, At
  <2> QED  BY <2>1, <2>4, OneMoves DEF RequestsKept
<1> QED  BY <1>2, <1>3, <1>4, <1>5, <1>6

-----------------------------------------------------------------------------
(* The tables, and what a step does to them.                               *)

\* What TypeOK says of all but the requests.
Disk   == /\ have \in [Models -> Nat]
          /\ \A m \in Models : have[m] <= Size[m]
          /\ installed \subseteq {m \in Models : have[m] = Size[m]}
Rows   == /\ row \in [Models -> Row]
          /\ \A m, n \in Models : Pulling(m) /\ Pulling(n) => m = n
          /\ seen \in Nat
Counts == asked \in 0..MaxRequests /\ faults \in 0..MaxFaults

LEMMA TypeParts ==
    TypeOK <=> /\ Disk /\ Rows /\ Counts /\ blacklist \subseteq Models
               /\ req \in [Clients -> Request] /\ excused \in BOOLEAN
BY DEF TypeOK, Disk, Rows, Counts, Pulling

\* A deletion takes all of a model that Ollama has complete; others stay.
LEMMA RemoveKeeps ==
    ASSUME Disk, NEW m \in Models, Remove(m)
    PROVE  Disk'
BY AdminAssumption DEF Disk, Remove

\* The layers of a pull grow up to the model's size.
LEMMA PullingKeeps ==
    ASSUME Disk, Rows, Reported, NEW m \in Models,
           Start(m) \/ UpdateDownloadProgress(m) \/ Layer(m) \/ Fetch(m) \/ Complete(m)
           \/ (\E status \in {"queued", "ended"} : Settle(m, status)) \/ CancelQueued(m) \/ Retry(m)
    PROVE  Disk' /\ Rows' /\ Reported'
<1>0. Size \in [Models -> Nat \ {0}]
  BY AdminAssumption
<1>1. \A status \in Statuses : Tracked(m, status) \in Row /\ Tracked(m, status).status = status
  BY DEF Tracked, Row, Less, Disk, Rows
<1>2. ASSUME UNCHANGED <<have, installed>> PROVE Disk'
  BY <1>2 DEF Disk
<1>3. ASSUME Start(m) PROVE Disk' /\ Rows' /\ Reported'
  <2>1. Rows' /\ Reported'
    BY <1>0, <1>3 DEF Start, Rows, Row, Statuses, Reported, Pulling
  <2> QED  BY <1>2, <1>3, <2>1 DEF Start
<1>4. ASSUME UpdateDownloadProgress(m) PROVE Disk' /\ Rows' /\ Reported'
  <2>1. Rows' /\ Reported'
    BY <1>1, <1>4 DEF UpdateDownloadProgress, Rows, Row, Statuses, Reported, Pulling
  <2> QED  BY <1>2, <1>4, <2>1 DEF UpdateDownloadProgress
<1>5. ASSUME Layer(m) PROVE Disk' /\ Rows' /\ Reported'
  <2>1. Rows' /\ Reported'
    BY <1>0, <1>5 DEF Layer, Disk, Rows, Reported, Pulling
  <2> QED  BY <1>2, <1>5, <2>1 DEF Layer
<1>6. ASSUME Fetch(m) PROVE Disk' /\ Rows' /\ Reported'
  <2>1. have[m] + 1 <= Size[m] /\ m \notin installed
    BY <1>0, <1>6 DEF Fetch, Disk, Rows, Reported, Pulling
  <2>2. Disk'
    BY <1>0, <1>6, <2>1 DEF Fetch, Disk
  <2> QED  BY <1>6, <2>2 DEF Fetch, Rows, Reported, Pulling
<1>7. ASSUME Complete(m) PROVE Disk' /\ Rows' /\ Reported'
  <2>1. Rows' /\ Reported'
    BY <1>0, <1>7 DEF Complete, Rows, Row, NoRow, Statuses, Reported, Pulling
  <2> QED  BY <1>7, <2>1 DEF Complete, Disk
<1>8. ASSUME NEW status \in {"queued", "ended"}, Settle(m, status) PROVE Disk' /\ Rows' /\ Reported'
  <2>1. Rows' /\ Reported'
    BY <1>0, <1>1, <1>8 DEF Settle, Rows, Row, Statuses, Reported, Pulling
  <2> QED  BY <1>2, <1>8, <2>1 DEF Settle
<1>9. ASSUME CancelQueued(m) \/ Retry(m) PROVE Disk' /\ Rows' /\ Reported'
  <2>1. Rows' /\ Reported'
    BY <1>9 DEF CancelQueued, Retry, Rows, Row, Statuses, Reported, Pulling
  <2> QED  BY <1>2, <1>9, <2>1 DEF CancelQueued, Retry
<1> QED  BY <1>3, <1>4, <1>5, <1>6, <1>7, <1>8, <1>9

\* A queued download's row is one, and none is pulled because of it.
LEMMA EnqueueRows ==
    ASSUME Typed, NEW c \in Clients, Enqueue(c)
    PROVE  Rows' /\ Reported'
<1>1. req[c].model \in Models /\ req[c].size \in Nat
  BY DEF Typed, Requests, WellFormed, Informed, Request, Enqueue, At
<1>2. DiskNeed(req[c]) \in Nat
  BY <1>1 DEF DiskNeed
<1>3. Rows
  BY TypeParts DEF Typed
<1> QED  BY <1>1, <1>2, <1>3 DEF Typed, Enqueue, Rows, Row, Statuses, Reported, Pulling

\* The first state has the right types.
LEMMA InitTyped == Init => Typed
<1> SUFFICES ASSUME Init PROVE Typed
  OBVIOUS
<1>1. Disk /\ Rows /\ Counts /\ Reported
  BY AdminAssumption DEF Init, Disk, Rows, Counts, Reported, Row, NoRow, Statuses, Pulling
<1>2. Requests /\ req \in [Clients -> Request]
  BY AtRestWellFormed DEF Init, Requests, WellFormed
<1> QED  BY <1>1, <1>2, TypeParts DEF Init, Typed

\* Every step keeps them.
LEMMA NextTyped == Typed /\ [Next]_vars => Typed'
<1> SUFFICES ASSUME Typed, [Next]_vars PROVE Typed'
  OBVIOUS
<1>0. Disk /\ Rows /\ Counts /\ blacklist \subseteq Models /\ excused \in BOOLEAN
      /\ req \in [Clients -> Request] /\ Requests /\ Reported
  BY TypeParts DEF Typed
<1>1. ASSUME Disk', Rows', Counts', Reported', (blacklist \subseteq Models)', (excused \in BOOLEAN)', RequestsKept
      PROVE  Typed'
  <2>1. Requests'
    BY <1>1 DEF RequestsKept, Records, Requests, WellFormed, Informed, Honest, Earned
  <2>2. TypeOK'
    BY <1>1, TypeParts DEF RequestsKept, TypeOK, Disk, Rows, Counts, Pulling
  <2> QED  BY <1>1, <2>1, <2>2 DEF Typed
<1>2. ASSUME UNCHANGED req PROVE RequestsKept
  BY <1>0, <1>2 DEF RequestsKept, Records, Requests
<1>3. ASSUME UNCHANGED <<have, installed>> PROVE Disk'
  BY <1>0, <1>3 DEF Disk
<1>4. ASSUME UNCHANGED <<row, seen>> PROVE Rows' /\ Reported'
  BY <1>0, <1>4 DEF Rows, Reported, Pulling
<1>5. ASSUME UNCHANGED <<asked, faults>> PROVE Counts'
  BY <1>0, <1>5 DEF Counts
<1>6. ASSUME asked < MaxRequests, asked' = asked + 1, UNCHANGED faults PROVE Counts'
  BY <1>0, <1>6, AdminAssumption DEF Counts
<1>7. ASSUME Fault, UNCHANGED asked PROVE Counts'
  BY <1>0, <1>7, AdminAssumption DEF Counts, Fault
<1>11. ASSUME NEW c \in Clients, NEW m \in Models, NEW confirm \in BOOLEAN, NEW unban \in BOOLEAN,
              AskDownload(c, m, confirm, unban)
       PROVE  Typed'
  <2>1. RequestsKept
    BY <1>11, AskingKeeps
  <2> QED  BY <1>0, <1>1, <1>3, <1>4, <1>6, <1>11, <2>1 DEF AskDownload, Begin
<1>12. ASSUME NEW c \in Clients, Check(c) \/ Refuse(c) \/ AddUp(c) \/ Weigh(c) \/ Look(c)
                                 \/ AlreadyQueued(c) \/ Disconnect(c) \/ Report(c)
       PROVE  Typed'
  <2>1. RequestsKept
    BY <1>12, AskingKeeps
  <2>2. UNCHANGED <<have, installed, row, seen, blacklist, asked, faults, excused>>
    BY <1>12 DEF Check, Refuse, AddUp, Weigh, Look, AlreadyQueued, Disconnect, Report
  <2> QED  BY <1>0, <1>1, <1>3, <1>4, <1>5, <2>1, <2>2
<1>13. ASSUME NEW c \in Clients, UnblacklistQueued(c) PROVE Typed'
  <2>1. RequestsKept
    BY <1>13, AskingKeeps
  <2> QED  BY <1>0, <1>1, <1>3, <1>4, <1>5, <1>13, <2>1 DEF UnblacklistQueued
<1>14. ASSUME NEW c \in Clients, Enqueue(c) PROVE Typed'
  <2>1. RequestsKept /\ Rows' /\ Reported'
    BY <1>14, EnqueueKeeps, EnqueueRows
  <2>2. (excused \in BOOLEAN)'
    BY <1>14 DEF Enqueue
  <2> QED  BY <1>0, <1>1, <1>3, <1>5, <1>14, <2>1, <2>2 DEF Enqueue
<1>15. ASSUME NEW c \in Clients, NEW names \in SUBSET Models, NEW ban \in BOOLEAN, AskDelete(c, names, ban)
       PROVE  Typed'
  <2>1. RequestsKept
    BY <1>15, DeletingKeeps
  <2> QED  BY <1>0, <1>1, <1>3, <1>4, <1>6, <1>15, <2>1 DEF AskDelete, Begin
<1>16. ASSUME NEW c \in Clients, NEW m \in Models, Delete(c, m) PROVE Typed'
  <2>1. RequestsKept /\ Disk'
    BY <1>0, <1>16, DeletingKeeps, RemoveKeeps DEF Delete
  <2> QED  BY <1>0, <1>1, <1>4, <1>5, <1>16, <2>1 DEF Delete
<1>17. ASSUME NEW c \in Clients, NEW m \in Models, DeleteFails(c, m) PROVE Typed'
  <2>1. RequestsKept /\ Disk'
    BY <1>0, <1>3, <1>17, DeletingKeeps, RemoveKeeps DEF DeleteFails
  <2> QED  BY <1>0, <1>1, <1>4, <1>7, <1>17, <2>1 DEF DeleteFails
<1>18. ASSUME NEW c \in Clients, Blacklist(c) PROVE Typed'
  <2>1. RequestsKept
    BY <1>18, DeletingKeeps
  <2>2. req[c].model \in Models
    BY <1>0, <1>18 DEF Requests, WellFormed, Informed, Blacklist, At
  <2> QED  BY <1>0, <1>1, <1>3, <1>4, <1>5, <1>18, <2>1, <2>2 DEF Blacklist
<1>19. ASSUME NEW c \in Clients, BlacklistFails(c) PROVE Typed'
  <2>1. RequestsKept
    BY <1>19, DeletingKeeps
  <2> QED  BY <1>0, <1>1, <1>3, <1>4, <1>7, <1>19, <2>1 DEF BlacklistFails
<1>20. ASSUME NEW m \in Models, Start(m) \/ UpdateDownloadProgress(m) \/ Layer(m) \/ Fetch(m) \/ Complete(m)
                                \/ (\E status \in {"queued", "ended"} : Settle(m, status)) \/ CancelQueued(m)
       PROVE  Typed'
  <2>1. Disk' /\ Rows' /\ Reported'
    BY <1>0, <1>20, PullingKeeps
  <2>2. UNCHANGED <<blacklist, req, asked, faults, excused>>
    BY <1>20 DEF Start, UpdateDownloadProgress, Layer, Fetch, Complete, Settle, CancelQueued
  <2> QED  BY <1>0, <1>1, <1>2, <1>5, <2>1, <2>2
<1>21. ASSUME NEW m \in Models, Retry(m) PROVE Typed'
  <2>1. Disk' /\ Rows' /\ Reported'
    BY <1>0, <1>21, PullingKeeps
  <2> QED  BY <1>0, <1>1, <1>2, <1>6, <1>21, <2>1 DEF Retry
<1>22. ASSUME NEW m \in Models, Unblacklist(m) PROVE Typed'
  BY <1>0, <1>1, <1>2, <1>3, <1>4, <1>6, <1>22 DEF Unblacklist
<1>23. CASE UNCHANGED vars
  BY <1>0, <1>1, <1>2, <1>3, <1>4, <1>5, <1>23 DEF vars
<1> QED  BY <1>11, <1>12, <1>13, <1>14, <1>15, <1>16, <1>17, <1>18, <1>19, <1>20, <1>21, <1>22, <1>23, StepKinds

\* Every variable keeps its type, and at most one download is being pulled.
THEOREM TypeCorrect == Spec => []TypeOK
<1>1. Spec => []Typed
  BY InitTyped, NextTyped, PTL DEF Spec
<1> QED  BY <1>1, PTL DEF Typed

-----------------------------------------------------------------------------
(* Reports and the blacklist.                                              *)

\* What a request is told of others changes neither where it is nor what for.
LEMMA ToldStays ==
    ASSUME NEW r \in Request, NEW m \in Models, NEW s \in {r, Outdated(r), Gone(r, m)}
    PROVE  /\ s.step = r.step /\ s.model = r.model /\ s.size = r.size /\ s.update = r.update
           /\ s.confirm = r.confirm /\ s.unban = r.unban /\ s.late = r.late /\ s.queued = r.queued
           /\ r.blind => s.blind
<1> DEFINE Stays(q) ==
        /\ q.step = r.step /\ q.model = r.model /\ q.size = r.size /\ q.update = r.update
        /\ q.confirm = r.confirm /\ q.unban = r.unban /\ q.late = r.late /\ q.queued = r.queued
        /\ r.blind => q.blind
<1>1. ASSUME NEW q \in Request, Stays(q) PROVE Outdated(q) \in Request /\ Stays(Outdated(q))
  <2> DEFINE b == [q EXCEPT !.blind = TRUE]
  <2>1. b \in Request /\ b.blind /\ b.step = q.step /\ b.model = q.model /\ b.size = q.size /\ b.update = q.update
    BY DEF Request
  <2>2. b.confirm = q.confirm /\ b.unban = q.unban /\ b.late = q.late /\ b.queued = q.queued
    BY DEF Request
  <2>3. Outdated(q) \in {b, q}
    BY DEF Outdated
  <2> HIDE DEF b
  <2>4. Stays(b)
    BY <1>1, <2>1, <2>2
  <2> HIDE DEF Stays
  <2> QED  BY <1>1, <2>1, <2>3, <2>4
<1>2. [r EXCEPT !.gone = @ \cup {m}] \in Request /\ Stays([r EXCEPT !.gone = @ \cup {m}])
  BY DEF Request
<1>3. Stays(r)
  OBVIOUS
<1> HIDE DEF Stays
<1>4. Stays(Outdated(r)) /\ Stays(Gone(r, m))
  BY <1>1, <1>2, <1>3 DEF Gone
<1>5. Stays(s)
  BY <1>3, <1>4
<1> QED  BY <1>5 DEF Stays

\* What is reported of a deletion is what happened.
THEOREM ReportsAreTrue == Spec => ReportIsTrue
<1>1. Spec => []Typed
  BY InitTyped, NextTyped, PTL DEF Spec
<1>2. ASSUME Typed, NEW c \in Clients, Report(c)
      PROVE  /\ req[c].deleted \subseteq req[c].gone
             /\ req[c].banned = IF req[c].blacklist THEN req[c].deleted \ req[c].unlisted ELSE {}
             /\ req[c].failed \cap req[c].banned = {}
  BY <1>2 DEF Typed, Requests, WellFormed, Honest, Report, At
<1>3. Typed => [\A c \in Clients : Report(c) =>
           /\ req[c].deleted \subseteq req[c].gone
           /\ req[c].banned = IF req[c].blacklist THEN req[c].deleted \ req[c].unlisted ELSE {}
           /\ req[c].failed \cap req[c].banned = {}]_vars
  BY <1>2
<1> QED  BY <1>1, <1>3, PTL DEF ReportIsTrue

\* An entry of the blacklist goes by the button beside it, or by a request that
\* has queued the model.
THEOREM BlacklistStands == Spec => UnbannedOnceQueued
<1>1. Spec => []Typed
  BY InitTyped, NextTyped, PTL DEF Spec
<1>2. ASSUME Typed, [Next]_vars, NEW m \in blacklist \ blacklist'
      PROVE  m \in Models /\ (Unblacklist(m) \/ \E c \in Clients : req[c].model = m /\ req[c].inserted)
  <2>1. m \in Models
    BY <1>2 DEF Typed, TypeOK
  <2>2. ASSUME NEW c \in Clients, UnblacklistQueued(c) PROVE req[c].model = m /\ req[c].inserted
    BY <1>2, <2>2 DEF UnblacklistQueued, At, Typed, Requests, WellFormed, Earned
  <2>3. ASSUME NEW n \in Models, Unblacklist(n) PROVE n = m
    BY <1>2, <2>3 DEF Unblacklist
  <2> QED
    BY <1>2, <2>1, <2>2, <2>3, StepKinds
    DEF AskDownload, Check, Refuse, AddUp, Weigh, Look, Enqueue, AlreadyQueued, Disconnect, AskDelete,
        Delete, DeleteFails, Blacklist, BlacklistFails, Report, Start, UpdateDownloadProgress, Layer, Fetch,
        Complete, Settle, CancelQueued, Retry, vars
<1>3. Typed /\ [Next]_vars =>
          [\A m \in Models :
              m \in blacklist \ blacklist' =>
                  \/ Unblacklist(m)
                  \/ \E c \in Clients : req[c].model = m /\ req[c].inserted]_vars
  BY <1>2
<1> QED  BY <1>1, <1>3, PTL DEF UnbannedOnceQueued, Spec

\* A request about to queue a model on the blacklist may do so.
Sanctioned(r, banned) == r.step = "enqueue" /\ r.model \in banned => r.confirm \/ r.unban \/ r.late

Allowed == \A c \in Clients : Sanctioned(req[c], blacklist)

\* No step takes a request there that may not; a model that is blacklisted
\* meanwhile is noted.
LEMMA AllowedNext == Typed /\ Allowed /\ [Next]_vars => Allowed'
<1> SUFFICES ASSUME Typed, Allowed, [Next]_vars, NEW d \in Clients
             PROVE  Sanctioned(req'[d], blacklist')
  BY DEF Allowed
<1>0. req \in [Clients -> Request] /\ req[d] \in Request /\ Sanctioned(req[d], blacklist)
  BY DEF Typed, TypeOK, Allowed
<1>1. ASSUME UNCHANGED req, blacklist' \subseteq blacklist PROVE Sanctioned(req'[d], blacklist')
  BY <1>0, <1>1 DEF Sanctioned
<1>2. ASSUME NEW c \in Clients, NEW r, req' = [req EXCEPT ![c] = r], r.step # "enqueue", blacklist' \subseteq blacklist
      PROVE  Sanctioned(req'[d], blacklist')
  BY <1>0, <1>2 DEF Sanctioned
<1>3. ASSUME NEW c \in Clients, Finish(c), blacklist' \subseteq blacklist
      PROVE  Sanctioned(req'[d], blacklist')
  <2>1. AtRest.step # "enqueue"
    BY DEF AtRest
  <2> QED  BY <1>2, <1>3, <2>1 DEF Finish, Advance
<1>4. ASSUME NEW s \in {req[d], Outdated(req[d])} \cup {Gone(req[d], m) : m \in Models}, req'[d] = s,
             blacklist' = blacklist
      PROVE  Sanctioned(req'[d], blacklist')
  <2>1. s.step = req[d].step /\ s.model = req[d].model /\ s.confirm = req[d].confirm
        /\ s.unban = req[d].unban /\ s.late = req[d].late
    <3>1. CASE s \in {req[d], Outdated(req[d])}
      <4>1. CASE Models = {}
        BY <1>0, <3>1, <4>1 DEF Outdated, Request
      <4>2. CASE Models # {}
        BY <1>0, <3>1, <4>2, ToldStays
      <4> QED  BY <4>1, <4>2
    <3>2. ASSUME NEW m \in Models, s = Gone(req[d], m)
          PROVE  s.step = req[d].step /\ s.model = req[d].model /\ s.confirm = req[d].confirm
                 /\ s.unban = req[d].unban /\ s.late = req[d].late
      BY <1>0, <3>2, ToldStays
    <3> QED  BY <1>4, <3>1, <3>2
  <2> QED  BY <1>0, <1>4, <2>1 DEF Sanctioned
<1>11. ASSUME NEW c \in Clients, NEW m \in Models, NEW confirm \in BOOLEAN, NEW unban \in BOOLEAN,
              AskDownload(c, m, confirm, unban)
       PROVE  Sanctioned(req'[d], blacklist')
  <2> DEFINE r == [AtRest EXCEPT !.step = "check", !.model = m, !.confirm = confirm, !.unban = unban]
  <2>1. r.step # "enqueue" /\ req' = [req EXCEPT ![c] = r] /\ blacklist' = blacklist
    BY <1>11 DEF AskDownload, Begin, Advance, AtRest
  <2> HIDE DEF r
  <2> QED  BY <1>2, <2>1
<1>12. ASSUME NEW c \in Clients, Check(c) PROVE Sanctioned(req'[d], blacklist')
  <2>1. CASE d = c
    <3> DEFINE step == IF req[c].confirm THEN "enqueue" ELSE "sum"
               update == req[c].model \in installed
    <3>1. PICK size : req' = [req EXCEPT ![c] = [req[c] EXCEPT !.step = step, !.size = size, !.update = update]]
      BY <1>12 DEF Check, Advance
    <3>2. step = "enqueue" => req[d].confirm
      BY <2>1
    <3> HIDE DEF step, update
    <3>3. req'[d].confirm = req[d].confirm /\ req'[d].step = step
      BY <1>0, <2>1, <3>1 DEF Request
    <3> QED  BY <3>2, <3>3 DEF Sanctioned
  <2>2. CASE d # c
    BY <1>0, <1>12, <2>2 DEF Check, Advance
  <2> QED  BY <2>1, <2>2
<1>13. ASSUME NEW c \in Clients,
              Refuse(c) \/ AlreadyQueued(c) \/ UnblacklistQueued(c) \/ Disconnect(c) \/ Report(c)
       PROVE  Sanctioned(req'[d], blacklist')
  BY <1>3, <1>13 DEF Refuse, AlreadyQueued, UnblacklistQueued, Disconnect, Report
<1>14. ASSUME NEW c \in Clients, AddUp(c) \/ Weigh(c) PROVE Sanctioned(req'[d], blacklist')
  <2>1. CASE d = c
    <3> DEFINE blind == req[c].blind \/ Blind
               w == [req[c] EXCEPT !.step = "weigh", !.queued = QueuedBytes, !.blind = blind]
               l == [[req[c] EXCEPT !.step = "look"] EXCEPT !.queued = 0]
    <3>1. req'[d] \in {w, l, AtRest}
      BY <1>0, <1>14, <2>1 DEF AddUp, Weigh, Advance, Finish, GoTo
    <3> HIDE DEF blind
    <3>2. w.step = "weigh" /\ l.step = "look" /\ AtRest.step = "rest"
      BY <1>0, <2>1 DEF AtRest, Request
    <3> HIDE DEF w, l
    <3>3. req'[d].step \in {"weigh", "look", "rest"}
      BY <3>1, <3>2
    <3> QED  BY <3>3 DEF Sanctioned
  <2>2. CASE d # c
    BY <1>0, <1>14, <2>2 DEF AddUp, Weigh, Advance, Finish
  <2> QED  BY <2>1, <2>2
<1>15. ASSUME NEW c \in Clients, Look(c) PROVE Sanctioned(req'[d], blacklist')
  <2>1. CASE req[c].unban \/ req[c].model \notin blacklist
    <3>1. CASE d = c
      <4>1. req'[d].model = req[d].model /\ req'[d].unban = req[d].unban
        BY <1>0, <1>15, <2>1, <3>1 DEF Look, Advance, GoTo, Request
      <4> QED  BY <1>15, <2>1, <3>1, <4>1 DEF Look, Sanctioned
    <3>2. CASE d # c
      BY <1>0, <1>15, <2>1, <3>2 DEF Look, Advance
    <3> QED  BY <3>1, <3>2
  <2>2. CASE ~(req[c].unban \/ req[c].model \notin blacklist)
    BY <1>3, <1>15, <2>2 DEF Look
  <2> QED  BY <2>1, <2>2
<1>16. ASSUME NEW c \in Clients, Enqueue(c) PROVE Sanctioned(req'[d], blacklist')
  <2>1. CASE d = c
    <3>1. req'[d].step \in {"rest", "unban"}
      BY <1>16, <2>1 DEF Enqueue, AtRest
    <3> QED  BY <3>1 DEF Sanctioned
  <2>2. CASE d # c
    BY <1>4, <1>16, <2>2 DEF Enqueue
  <2> QED  BY <2>1, <2>2
<1>17. ASSUME NEW c \in Clients, NEW names \in SUBSET Models, NEW ban \in BOOLEAN, AskDelete(c, names, ban)
       PROVE  Sanctioned(req'[d], blacklist')
  <2>1. PICK bulk, gone : req' = [req EXCEPT ![c] = [AtRest EXCEPT !.step = "delete", !.todo = names,
                                    !.blacklist = ban, !.bulk = bulk, !.gone = gone]]
    BY <1>17 DEF AskDelete, Begin, Advance
  <2>2. blacklist' = blacklist
    BY <1>17 DEF AskDelete
  <2> DEFINE r == [AtRest EXCEPT !.step = "delete", !.todo = names, !.blacklist = ban, !.bulk = bulk, !.gone = gone]
  <2>3. r.step # "enqueue"
    BY DEF AtRest
  <2>4. req' = [req EXCEPT ![c] = r]
    BY <2>1
  <2> HIDE DEF r
  <2> QED  BY <1>2, <2>2, <2>3, <2>4
<1>18. ASSUME NEW c \in Clients, NEW m \in Models, Delete(c, m) \/ DeleteFails(c, m)
       PROVE  Sanctioned(req'[d], blacklist')
  <2>0. blacklist' = blacklist /\ req[c].step = "delete" /\ req[c] \in Request
    BY <1>18 DEF Delete, DeleteFails, At, Typed, TypeOK
  <2>1. CASE d = c
    <3> DEFINE f == [req[c] EXCEPT !.todo = @ \ {m}, !.failed = @ \cup {m}]
    <3>1. f \in Request /\ f.step = "delete" /\ Deleted(c, m).step \in {"ban", "delete"}
      BY <2>0 DEF Deleted, Request
    <3>2. req'[d] \in {Deleted(c, m), f, Gone(f, m)}
      BY <1>0, <1>18, <2>1 DEF Delete, DeleteFails, Advance
    <3> HIDE DEF f
    <3>3. Gone(f, m).step = f.step
      BY <3>1, ToldStays
    <3> QED  BY <3>1, <3>2, <3>3 DEF Sanctioned
  <2>2. CASE d # c
    <3>1. req'[d] \in {req[d], Gone(req[d], m)}
      BY <1>0, <1>18, <2>2 DEF Delete, DeleteFails, Advance
    <3> QED  BY <1>4, <2>0, <3>1
  <2> QED  BY <2>1, <2>2
<1>19. ASSUME NEW c \in Clients, Blacklist(c) PROVE Sanctioned(req'[d], blacklist')
  <2> DEFINE m == req[c].model
  <2>1. CASE d = c
    <3>1. req'[d].step = "delete"
      BY <1>0, <1>19, <2>1 DEF Blacklist, GoTo, Request
    <3> QED  BY <3>1 DEF Sanctioned
  <2>2. CASE d # c /\ Queueing(d, m)
    <3>1. req'[d].late
      BY <1>0, <1>19, <2>2 DEF Blacklist, Request
    <3> QED  BY <3>1 DEF Sanctioned
  <2>3. CASE d # c /\ ~Queueing(d, m)
    BY <1>0, <1>19, <2>3 DEF Blacklist, Queueing, Sanctioned
  <2> QED  BY <2>1, <2>2, <2>3
<1>20. ASSUME NEW c \in Clients, BlacklistFails(c) PROVE Sanctioned(req'[d], blacklist')
  <2>1. CASE d = c
    <3>1. req'[d].step = "delete"
      BY <1>0, <1>20, <2>1 DEF BlacklistFails, Advance, GoTo, Request
    <3> QED  BY <3>1 DEF Sanctioned
  <2>2. CASE d # c
    BY <1>0, <1>20, <2>2 DEF BlacklistFails, Advance
  <2> QED  BY <2>1, <2>2
<1>21. ASSUME NEW m \in Models,
              \/ Start(m) \/ UpdateDownloadProgress(m) \/ Layer(m) \/ Fetch(m) \/ Complete(m)
              \/ \E status \in {"queued", "ended"} : Settle(m, status)
              \/ CancelQueued(m) \/ Retry(m) \/ Unblacklist(m)
       PROVE  Sanctioned(req'[d], blacklist')
  BY <1>1, <1>21 DEF Start, UpdateDownloadProgress, Layer, Fetch, Complete, Settle, CancelQueued, Retry, Unblacklist
<1>22. CASE UNCHANGED vars
  BY <1>1, <1>22 DEF vars
<1> QED  BY <1>11, <1>12, <1>13, <1>14, <1>15, <1>16, <1>17, <1>18, <1>19, <1>20, <1>21, <1>22, StepKinds

\* A model on the blacklist is queued only if somebody was asked, or it got
\* there after the look.
THEOREM BannedAreAskedAbout == Spec => BannedIsConfirmed
<1>1. Init => Allowed
  BY DEF Init, Allowed, Sanctioned, AtRest
<1>2. Spec => [](Typed /\ Allowed)
  BY <1>1, InitTyped, NextTyped, AllowedNext, PTL DEF Spec
<1>3. Allowed => [\A c \in Clients, m \in Models :
                     /\ Enqueue(c)
                     /\ req[c].model = m
                     /\ m \in blacklist
                     => req[c].confirm \/ req[c].unban \/ req[c].late]_vars
  BY DEF Allowed, Sanctioned, Enqueue, At
<1> QED  BY <1>2, <1>3, PTL DEF BannedIsConfirmed

-----------------------------------------------------------------------------
(* What fits on the disk.  The lemmas are about any contents h of it and    *)
(* any set A of models to be downloaded.                                    *)

\* What h leaves to be fetched, and what it leaves free.
NeedAt(h)   == [m \in Models |-> Less(Size[m], h[m])]
Load(h, A)  == SumFunctionOnSet(NeedAt(h), A)
FreeAt(h)   == Less(Capacity, SumFunctionOnSet(h, Models))

\* h is on the disk, and the rest of A would fit too.
OnDisk(h)    == h \in [Models -> Nat] /\ (\A m \in Models : h[m] <= Size[m]) /\ SumFunctionOnSet(h, Models) <= Capacity
Within(h, A) == Load(h, A) <= FreeAt(h)

\* These are natural numbers.
LEMMA LoadIsNat ==
    ASSUME NEW h, OnDisk(h)
    PROVE  /\ \A m \in Models : NeedAt(h)[m] = Size[m] - h[m] /\ NeedAt(h)[m] \in Nat
           /\ SumFunctionOnSet(h, Models) \in Nat
           /\ FreeAt(h) = Capacity - SumFunctionOnSet(h, Models) /\ FreeAt(h) \in Nat
           /\ \A A \in SUBSET Models : IsFiniteSet(A) /\ Load(h, A) \in Nat
<1>1. \A m \in Models : Size[m] \in Nat /\ h[m] \in Nat /\ h[m] <= Size[m]
  BY AdminAssumption DEF OnDisk
<1>2. \A m \in Models : NeedAt(h)[m] = Size[m] - h[m] /\ NeedAt(h)[m] \in Nat
  BY <1>1 DEF NeedAt, Less
<1>3. SumFunctionOnSet(h, Models) \in Nat
  BY <1>1, AdminAssumption, SumIsNat
<1>4. ASSUME NEW A \in SUBSET Models PROVE IsFiniteSet(A) /\ Load(h, A) \in Nat
  <2>1. IsFiniteSet(A)
    BY AdminAssumption, FS_Subset
  <2> HIDE DEF NeedAt
  <2>2. \A m \in A : NeedAt(h)[m] \in Nat
    BY <1>2
  <2> QED  BY <2>1, <2>2, SumIsNat DEF Load
<1>5. FreeAt(h) = Capacity - SumFunctionOnSet(h, Models) /\ FreeAt(h) \in Nat
  BY <1>3, AdminAssumption DEF FreeAt, OnDisk, Less
<1> QED  BY <1>2, <1>3, <1>4, <1>5

\* Fewer downloads take no more.
LEMMA FewerLoad ==
    ASSUME NEW h, OnDisk(h), NEW A \in SUBSET Models, NEW B \in SUBSET A
    PROVE  Load(h, B) <= Load(h, A) /\ (Within(h, A) => Within(h, B))
<1>1. IsFiniteSet(A) /\ \A m \in A : NeedAt(h)[m] \in Nat
  BY LoadIsNat
<1>2. Load(h, B) <= Load(h, A)
  BY <1>1, SumOfPart DEF Load
<1>3. Load(h, A) \in Nat /\ Load(h, B) \in Nat /\ FreeAt(h) \in Int
  BY LoadIsNat, AdminAssumption
<1> QED  BY <1>2, <1>3 DEF Within

\* One more takes at most what it needs.
LEMMA OneMoreLoad ==
    ASSUME NEW h, OnDisk(h), NEW A \in SUBSET Models, NEW m \in Models
    PROVE  Load(h, A \cup {m}) <= Load(h, A) + NeedAt(h)[m]
<1>1. Load(h, A) \in Nat /\ NeedAt(h)[m] \in Nat
  BY LoadIsNat
<1>2. CASE m \in A
  <2>1. A \cup {m} = A
    BY <1>2
  <2> QED  BY <1>1, <2>1
<1>3. CASE m \notin A
  <2> DEFINE B == A \cup {m}
  <2>1. B \in SUBSET Models /\ m \in B /\ B \ {m} = A
    BY <1>3
  <2>2. IsFiniteSet(B) /\ \A n \in B : NeedAt(h)[n] \in Nat
    BY <2>1, LoadIsNat
  <2> HIDE DEF B
  <2>3. Load(h, B) = NeedAt(h)[m] + Load(h, A)
    BY <2>1, <2>2, SumWithout DEF Load
  <2> QED  BY <1>1, <2>3 DEF B
<1> QED  BY <1>2, <1>3

\* h, but for n layers of m.
Changed(h, m, n) == [h EXCEPT ![m] = n]

\* What changes of one model changes what is free by as much, and what is to be
\* fetched if it is among those.
LEMMA OneChanges ==
    ASSUME NEW h, OnDisk(h), NEW m \in Models, NEW n \in 0..Size[m], n <= h[m] + FreeAt(h), NEW A \in SUBSET Models
    PROVE  /\ OnDisk(Changed(h, m, n))
           /\ FreeAt(Changed(h, m, n)) + n = FreeAt(h) + h[m]
           /\ m \in A => Load(Changed(h, m, n), A) + n = Load(h, A) + h[m]
           /\ m \notin A => Load(Changed(h, m, n), A) = Load(h, A)
<1> DEFINE k == Changed(h, m, n)
<1>0. Size[m] \in Nat /\ h \in [Models -> Nat] /\ Capacity \in Nat /\ IsFiniteSet(Models)
  BY AdminAssumption DEF OnDisk
<1>1. k \in [Models -> Nat] /\ k[m] = n /\ (\A x \in Models \ {m} : k[x] = h[x]) /\ \A x \in Models : k[x] <= Size[x]
  BY <1>0 DEF OnDisk, Changed
<1> HIDE DEF k
<1>2. SumFunctionOnSet(k, Models) + h[m] = SumFunctionOnSet(h, Models) + n
  <2>1. \A x \in Models : h[x] \in Nat /\ k[x] \in Nat
    BY <1>0, <1>1
  <2>2. SumFunctionOnSet(k, Models) + h[m] = SumFunctionOnSet(h, Models) + k[m]
    BY <1>0, <1>1, <2>1, SumOfChange
  <2> QED  BY <1>1, <2>2
<1>3. FreeAt(h) = Capacity - SumFunctionOnSet(h, Models) /\ SumFunctionOnSet(h, Models) \in Nat
  BY LoadIsNat
<1>4. SumFunctionOnSet(k, Models) \in Nat
  BY <1>0, <1>1, SumIsNat
<1>5. OnDisk(k)
  <2>1. SumFunctionOnSet(k, Models) <= Capacity
    BY <1>0, <1>2, <1>3, <1>4
  <2> QED  BY <1>1, <2>1 DEF OnDisk
<1>6. FreeAt(k) + n = FreeAt(h) + h[m]
  <2>1. FreeAt(k) = Capacity - SumFunctionOnSet(k, Models)
    BY <1>5, LoadIsNat
  <2> QED  BY <1>0, <1>2, <1>3, <1>4, <2>1
<1>7. IsFiniteSet(A) /\ Load(h, A) \in Nat /\ Load(k, A) \in Nat
  BY <1>5, LoadIsNat
<1>8. \A x \in Models \ {m} : NeedAt(k)[x] = NeedAt(h)[x]
  BY <1>1 DEF NeedAt
<1>9. ASSUME m \in A PROVE Load(k, A) + n = Load(h, A) + h[m]
  <2> DEFINE f == NeedAt(h)
             g == NeedAt(k)
  <2>1. (\A x \in A : f[x] \in Nat /\ g[x] \in Nat) /\ \A x \in A \ {m} : f[x] = g[x]
    BY <1>5, <1>8, LoadIsNat
  <2>2. f[m] = Size[m] - h[m] /\ g[m] = Size[m] - n
    BY <1>1, <1>5, LoadIsNat
  <2> HIDE DEF f, g
  <2>3. SumFunctionOnSet(g, A) + f[m] = SumFunctionOnSet(f, A) + g[m]
    BY <1>7, <1>9, <2>1, SumOfChange
  <2>4. SumFunctionOnSet(g, A) = Load(k, A) /\ SumFunctionOnSet(f, A) = Load(h, A)
    BY DEF Load, f, g
  <2> QED  BY <1>0, <1>7, <2>2, <2>3, <2>4
<1>10. ASSUME m \notin A PROVE Load(k, A) = Load(h, A)
  <2>1. \A x \in A : NeedAt(k)[x] = NeedAt(h)[x]
    BY <1>8, <1>10
  <2> QED  BY <1>7, <2>1, SumOfSame DEF Load
<1> QED  BY <1>5, <1>6, <1>9, <1>10 DEF k

\* A model that is deleted frees as much as there may be to fetch anew.
LEMMA DeletedFits ==
    ASSUME NEW h, OnDisk(h), NEW m \in Models, NEW A \in SUBSET Models
    PROVE  /\ OnDisk(Changed(h, m, 0))
           /\ Within(h, A) => Within(Changed(h, m, 0), A)
           /\ m \notin A => Load(Changed(h, m, 0), A) = Load(h, A)
<1>1. h[m] \in Nat /\ 0 \in 0..Size[m]
  <2>1. Size[m] \in Nat
    BY AdminAssumption
  <2>2. h[m] \in Nat
    BY DEF OnDisk
  <2> QED  BY <2>1, <2>2
<1>2. FreeAt(h) \in Nat /\ 0 <= h[m] + FreeAt(h)
  BY <1>1, LoadIsNat
<1> DEFINE n == 0
           k == Changed(h, m, n)
<1>3. n \in 0..Size[m] /\ n <= h[m] + FreeAt(h)
  BY <1>1, <1>2
<1> HIDE DEF n
<1>4. /\ OnDisk(k)
      /\ FreeAt(k) + n = FreeAt(h) + h[m]
      /\ m \in A => Load(k, A) + n = Load(h, A) + h[m]
      /\ m \notin A => Load(k, A) = Load(h, A)
  BY <1>3, OneChanges
<1> HIDE DEF k
<1>5. FreeAt(k) \in Nat /\ Load(h, A) \in Nat /\ Load(k, A) \in Nat
  BY <1>4, LoadIsNat
<1>6. ASSUME Load(h, A) <= FreeAt(h) PROVE Load(k, A) <= FreeAt(k)
  <2>1. n = 0
    BY DEF n
  <2>2. CASE m \in A
    BY <1>1, <1>2, <1>4, <1>5, <1>6, <2>1, <2>2
  <2>3. CASE m \notin A
    BY <1>1, <1>2, <1>4, <1>5, <1>6, <2>1, <2>3
  <2> QED  BY <2>2, <2>3
<1> QED  BY <1>4, <1>6 DEF Within, k, n

\* A layer that is fetched is no longer needed.
LEMMA FetchedFits ==
    ASSUME NEW h, OnDisk(h), NEW m \in Models, h[m] < Size[m], FreeAt(h) > 0, 
           NEW A \in SUBSET Models, m \in A
    PROVE  /\ OnDisk(Changed(h, m, h[m] + 1))
           /\ Within(h, A) => Within(Changed(h, m, h[m] + 1), A)
           /\ Load(Changed(h, m, h[m] + 1), A) <= Load(h, A)
<1>1. h[m] \in Nat /\ h[m] + 1 \in 0..Size[m]
  <2>1. Size[m] \in Nat
    BY AdminAssumption
  <2>2. h[m] \in Nat
    BY DEF OnDisk
  <2> QED  BY <2>1, <2>2
<1>2. FreeAt(h) \in Nat
  BY LoadIsNat
<1> DEFINE n == h[m] + 1
           k == Changed(h, m, n)
<1>3. n \in 0..Size[m] /\ n <= h[m] + FreeAt(h)
  BY <1>1, <1>2
<1> HIDE DEF n
<1>4. /\ OnDisk(k)
      /\ FreeAt(k) + n = FreeAt(h) + h[m]
      /\ Load(k, A) + n = Load(h, A) + h[m]
  BY <1>3, OneChanges
<1> HIDE DEF k
<1>5. FreeAt(k) \in Nat /\ Load(h, A) \in Nat /\ Load(k, A) \in Nat
  BY <1>4, LoadIsNat
<1>6. n = h[m] + 1
  BY DEF n
<1>7. Load(k, A) <= Load(h, A)
  BY <1>1, <1>4, <1>5, <1>6
<1>8. ASSUME Load(h, A) <= FreeAt(h) PROVE Load(k, A) <= FreeAt(k)
  BY <1>1, <1>2, <1>4, <1>5, <1>6, <1>8
<1> QED  BY <1>4, <1>7, <1>8 DEF Within, k, n

\* What a request knows of the queue is enough for what it is about to do: the
\* sum it has read is no less than what is to be fetched, and its download, once
\* weighed, fits along with the others.
Sound(r, h, A) ==
    /\ r.step = "weigh" => r.blind \/ Load(h, A) <= r.queued
    /\ r.step \in {"look", "enqueue"} \/ (r.step \in {"sum", "weigh"} /\ r.update) =>
           r.blind \/ r.confirm \/ r.size = 0 \/ Within(h, A \cup {r.model})

\* Everything fits, and every request goes by what is enough.
AllFits == Within(have, ActiveModels) /\ \A c \in Clients : Sound(req[c], have, ActiveModels)

Safe == Typed /\ OnDisk(have) /\ (excused \/ AllFits)

\* A request that isn't weighing its download has nothing to know.
LEMMA OthersSound ==
    ASSUME NEW r, r.step \notin {"sum", "weigh", "look", "enqueue"}, NEW h, NEW A
    PROVE  Sound(r, h, A)
BY DEF Sound

\* Nor has one that is told that it doesn't.
LEMMA ToldSound ==
    ASSUME NEW r \in Request, NEW h, NEW A
    PROVE  Sound(Outdated(r), h, A)
<1> DEFINE b == [r EXCEPT !.blind = TRUE]
<1>1. b.blind
  BY DEF Request
<1>2. CASE r.step \in {"sum", "weigh", "look", "enqueue"}
  <2>1. Outdated(r) = b
    BY <1>2 DEF Outdated
  <2> HIDE DEF b
  <2> QED  BY <1>1, <2>1 DEF Sound
<1>3. CASE r.step \notin {"sum", "weigh", "look", "enqueue"}
  BY <1>3, OthersSound DEF Outdated
<1> QED  BY <1>2, <1>3

\* What one knows stays true while there is less to fetch and no less is free.
LEMMA StaysSound ==
    ASSUME NEW r, WellFormed(r), NEW h, OnDisk(h), NEW A \in SUBSET Models, Sound(r, h, A),
           NEW k, OnDisk(k), NEW B \in SUBSET Models, Load(k, B) <= Load(h, A),
           \A m \in Models : Within(h, A \cup {m}) => Within(k, B \cup {m})
    PROVE  Sound(r, k, B)
<1>1. Load(h, A) \in Nat /\ Load(k, B) \in Nat
  BY LoadIsNat
<1>2. r.queued \in Nat
  BY DEF WellFormed, Request
<1>3. r.step \in {"sum", "weigh", "look", "enqueue"} => r.model \in Models
  BY DEF WellFormed, Informed
<1>4. r.step = "weigh" => r.blind \/ Load(k, B) <= r.queued
  BY <1>1, <1>2 DEF Sound
<1>5. r.step \in {"look", "enqueue"} \/ (r.step \in {"sum", "weigh"} /\ r.update) =>
          r.blind \/ r.confirm \/ r.size = 0 \/ Within(k, B \cup {r.model})
  BY <1>3 DEF Sound
<1> QED  BY <1>4, <1>5 DEF Sound

\* The sum that is read is no less than what is to be fetched, unless a row says less.
LEMMA SumIsEnough ==
    ASSUME Typed, OnDisk(have), ~Blind
    PROVE  Load(have, ActiveModels) <= QueuedBytes
<1> DEFINE f == NeedAt(have)
           A == ActiveModels
<1>1. IsFiniteSet(A) /\ \A m \in A : f[m] \in Nat
  BY LoadIsNat DEF ActiveModels
<1>2. \A m \in A : Left[m] \in Nat
  BY DEF Typed, TypeOK, Row, Left, ActiveModels
<1>3. \A m \in A : f[m] <= Left[m]
  <2>1. ASSUME NEW m \in A PROVE f[m] <= Left[m]
    <3>1. m \in Models /\ ~(row[m].left < Need[m])
      BY DEF Blind, ActiveModels
    <3>2. f = Need
      BY DEF NeedAt, Need
    <3>3. Left[m] = row[m].left
      BY <3>1 DEF Left
    <3> HIDE DEF f, A
    <3> QED  BY <1>1, <1>2, <3>1, <3>2, <3>3
  <2> QED  BY <2>1
<1> HIDE DEF f, A
<1>4. SumFunctionOnSet(f, A) <= SumFunctionOnSet(Left, A)
  BY <1>1, <1>2, <1>3, SumOfMore
<1> QED  BY <1>4 DEF Load, QueuedBytes, f, A

\* A download that fits beside the sum that was read fits beside what is queued.
LEMMA WeighedFits ==
    ASSUME NEW h, OnDisk(h), NEW A \in SUBSET Models, NEW m \in Models, NEW queued \in Nat,
           Load(h, A) <= queued, Size[m] <= Less(FreeAt(h), queued)
    PROVE  Within(h, A \cup {m})
<1> DEFINE B == A \cup {m}
<1>1. Load(h, A) \in Nat /\ Load(h, B) \in Nat /\ FreeAt(h) \in Nat
  BY LoadIsNat
<1>2. NeedAt(h)[m] = Size[m] - h[m] /\ NeedAt(h)[m] \in Nat
  BY LoadIsNat
<1>3. Size[m] \in Nat /\ Size[m] # 0
  BY AdminAssumption
<1>4. h[m] \in Nat
  BY DEF OnDisk
<1>5. Load(h, B) <= Load(h, A) + NeedAt(h)[m]
  BY OneMoreLoad
<1>6. Size[m] + queued <= FreeAt(h)
  BY <1>1, <1>3 DEF Less
<1> HIDE DEF B
<1>7. Load(h, B) <= FreeAt(h)
  BY <1>1, <1>2, <1>3, <1>4, <1>5, <1>6
<1> QED  BY <1>7 DEF Within, B

\* One that is there already takes nothing.
LEMMA UpdateFits ==
    ASSUME NEW h, OnDisk(h), NEW A \in SUBSET Models, NEW m \in Models, h[m] = Size[m], Within(h, A)
    PROVE  Within(h, A \cup {m})
<1> DEFINE B == A \cup {m}
<1>1. Load(h, A) \in Nat /\ Load(h, B) \in Nat /\ FreeAt(h) \in Nat
  BY LoadIsNat
<1>2. NeedAt(h)[m] = Size[m] - h[m] /\ NeedAt(h)[m] \in Nat
  BY LoadIsNat
<1>3. Size[m] \in Nat
  BY AdminAssumption
<1>4. Load(h, B) <= Load(h, A) + NeedAt(h)[m]
  BY OneMoreLoad
<1>5. Load(h, A) <= FreeAt(h)
  BY DEF Within
<1> HIDE DEF B
<1>6. Load(h, B) <= FreeAt(h)
  BY <1>1, <1>2, <1>3, <1>4, <1>5
<1> QED  BY <1>6 DEF Within, B

\* While nothing is fetched, deleted or queued, it is for the one request that
\* moves to go by what is enough.
LEMMA MoveFits ==
    ASSUME Typed, AllFits, NEW c \in Clients, NEW r, req' = [req EXCEPT ![c] = r], UNCHANGED <<have, row>>,
           Sound(r, have, ActiveModels)
    PROVE  AllFits'
<1>1. ActiveModels' = ActiveModels
  BY DEF ActiveModels, Active
<1>2. \A d \in Clients : req'[d] = r \/ req'[d] = req[d]
  BY DEF Typed, TypeOK
<1>3. \A d \in Clients : Sound(req'[d], have, ActiveModels)
  BY <1>2 DEF AllFits
<1>4. ASSUME NEW d \in Clients PROVE Sound(req'[d], have', ActiveModels')
  BY <1>1, <1>3
<1> QED  BY <1>1, <1>4 DEF AllFits

\* Asking for a download: the disk is weighed, and the sums are.
LEMMA AskingFits ==
    ASSUME Safe, AllFits, NEW c \in Clients,
           \/ \E m \in Models, confirm, unban \in BOOLEAN : AskDownload(c, m, confirm, unban)
           \/ Check(c) \/ Refuse(c) \/ AddUp(c) \/ Weigh(c) \/ Look(c)
           \/ AlreadyQueued(c) \/ UnblacklistQueued(c) \/ Disconnect(c) \/ Report(c)
           \/ \E names \in SUBSET Models, ban \in BOOLEAN : AskDelete(c, names, ban)
           \/ BlacklistFails(c)
    PROVE  AllFits'
<1> DEFINE h == have
           A == ActiveModels
<1>0. WellFormed(req[c]) /\ req[c] \in Request /\ Sound(req[c], h, A) /\ OnDisk(h) /\ Typed /\ Within(h, A)
  BY DEF Safe, Typed, Requests, WellFormed, AllFits
<1>1. A \in SUBSET Models
  BY DEF ActiveModels
<1>2. ASSUME NEW r, req' = [req EXCEPT ![c] = r], UNCHANGED <<have, row>>,
             r.step \notin {"sum", "weigh", "look", "enqueue"}
      PROVE  AllFits'
  BY <1>0, <1>2, OthersSound, MoveFits
<1>3. ASSUME Finish(c), UNCHANGED <<have, row>> PROVE AllFits'
  <2>1. AtRest.step = "rest"
    BY DEF AtRest
  <2> QED  BY <1>2, <1>3, <2>1 DEF Finish, Advance
<1>4. ASSUME NEW m \in Models, NEW confirm \in BOOLEAN, NEW unban \in BOOLEAN, AskDownload(c, m, confirm, unban)
      PROVE  AllFits'
  <2> DEFINE r == [AtRest EXCEPT !.step = "check", !.model = m, !.confirm = confirm, !.unban = unban]
  <2>1. r.step = "check" /\ req' = [req EXCEPT ![c] = r] /\ UNCHANGED <<have, row>>
    BY <1>4 DEF AskDownload, Begin, Advance, AtRest
  <2> HIDE DEF r
  <2> QED  BY <1>2, <2>1
<1>5. ASSUME Check(c) PROVE AllFits'
  <2> DEFINE step == IF req[c].confirm THEN "enqueue" ELSE "sum"
             update == req[c].model \in installed
  <2>1. PICK size : req' = [req EXCEPT ![c] = [req[c] EXCEPT !.step = step, !.size = size, !.update = update]]
    BY <1>5 DEF Check, Advance
  <2> DEFINE r == [req[c] EXCEPT !.step = step, !.size = size, !.update = update]
  <2>2. UNCHANGED <<have, row>> /\ req[c].model \in Models
    BY <1>0, <1>5 DEF Check, At, WellFormed, Informed
  <2>3. step = (IF req[c].confirm THEN "enqueue" ELSE "sum") /\ update \in BOOLEAN
    OBVIOUS
  <2>4. update => h[req[c].model] = Size[req[c].model]
    BY <1>0 DEF Typed, TypeOK
  <2> HIDE DEF step, update
  <2>5. r.step = step /\ r.update = update /\ r.confirm = req[c].confirm /\ r.model = req[c].model
    BY <1>0 DEF Request
  <2>6. req' = [req EXCEPT ![c] = r]
    BY <2>1
  <2> HIDE DEF r
  <2>7. update => Within(h, A \cup {r.model})
    BY <1>0, <1>1, <2>2, <2>4, <2>5, UpdateFits
  <2> HIDE DEF h, A
  <2>8. Sound(r, h, A)
    <3>1. CASE req[c].confirm
      BY <2>3, <2>5, <3>1 DEF Sound
    <3>2. CASE ~req[c].confirm
      BY <2>3, <2>5, <2>7, <3>2 DEF Sound
    <3> QED  BY <3>1, <3>2
  <2> QED  BY <1>0, <2>2, <2>6, <2>8, MoveFits DEF h, A
<1>6. ASSUME AddUp(c) PROVE AllFits'
  <2> DEFINE blind == req[c].blind \/ Blind
             r == [req[c] EXCEPT !.step = "weigh", !.queued = QueuedBytes, !.blind = blind]
  <2>1. req' = [req EXCEPT ![c] = r] /\ UNCHANGED <<have, row>> /\ req[c].step = "sum"
    BY <1>6 DEF AddUp, Advance, At
  <2>2. ~blind => Load(h, A) <= QueuedBytes
    BY <1>0, SumIsEnough
  <2>3. req[c].blind => blind
    OBVIOUS
  <2> HIDE DEF blind
  <2>4. /\ r.step = "weigh" /\ r.queued = QueuedBytes /\ r.blind = blind /\ r.update = req[c].update
        /\ r.confirm = req[c].confirm /\ r.size = req[c].size /\ r.model = req[c].model
    BY <1>0 DEF Request
  <2> HIDE DEF r, h, A
  <2>5. Sound(r, h, A)
    BY <1>0, <2>1, <2>2, <2>3, <2>4 DEF Sound
  <2> QED  BY <1>0, <2>1, <2>5, MoveFits DEF h, A
<1>7. ASSUME Weigh(c) PROVE AllFits'
  <2>0. UNCHANGED <<have, row>> /\ req[c].step = "weigh"
    BY <1>7 DEF Weigh, At
  <2>1. CASE req[c].size = 0 \/ req[c].update \/ Fits(req[c].size, req[c].queued)
    <3> DEFINE r == [[req[c] EXCEPT !.step = "look"] EXCEPT !.queued = 0]
    <3>1. req' = [req EXCEPT ![c] = r]
      BY <1>7, <2>1 DEF Weigh, Advance, GoTo
    <3>2. /\ r.step = "look" /\ r.blind = req[c].blind /\ r.confirm = req[c].confirm
          /\ r.size = req[c].size /\ r.model = req[c].model
      BY <1>0 DEF Request
    <3> HIDE DEF r
    <3>3. req[c].model \in Models /\ req[c].size \in {0, Size[req[c].model]} /\ req[c].queued \in Nat
      BY <1>0, <2>0 DEF WellFormed, Informed, Request
    <3>4. req[c].blind \/ req[c].confirm \/ req[c].size = 0 \/ Within(h, A \cup {req[c].model})
      <4>1. ASSUME ~req[c].blind, req[c].size # 0, Fits(req[c].size, req[c].queued)
            PROVE  Within(h, A \cup {req[c].model})
        <5>1. Load(h, A) <= req[c].queued
          BY <1>0, <2>0, <4>1 DEF Sound
        <5>2. Size[req[c].model] <= Less(FreeAt(h), req[c].queued)
          BY <3>3, <4>1 DEF Fits, Free, FreeAt
        <5> HIDE DEF h, A
        <5> QED  BY <1>0, <1>1, <3>3, <5>1, <5>2, WeighedFits
      <4>2. ASSUME req[c].update
            PROVE  req[c].blind \/ req[c].confirm \/ req[c].size = 0 \/ Within(h, A \cup {req[c].model})
        BY <1>0, <2>0, <4>2 DEF Sound
      <4> QED  BY <2>1, <4>1, <4>2
    <3>5. Sound(r, h, A)
      BY <3>2, <3>4 DEF Sound
    <3> QED  BY <1>0, <2>0, <3>1, <3>5, MoveFits
  <2>2. CASE ~(req[c].size = 0 \/ req[c].update \/ Fits(req[c].size, req[c].queued))
    BY <1>3, <1>7, <2>0, <2>2 DEF Weigh
  <2> QED  BY <2>1, <2>2
<1>8. ASSUME Look(c) PROVE AllFits'
  <2>0. UNCHANGED <<have, row>> /\ req[c].step = "look"
    BY <1>8 DEF Look, At
  <2>1. CASE req[c].unban \/ req[c].model \notin blacklist
    <3> DEFINE r == [req[c] EXCEPT !.step = "enqueue"]
    <3>1. req' = [req EXCEPT ![c] = r]
      BY <1>8, <2>1 DEF Look, Advance, GoTo
    <3>2. /\ r.step = "enqueue" /\ r.blind = req[c].blind /\ r.confirm = req[c].confirm
          /\ r.size = req[c].size /\ r.model = req[c].model
      BY <1>0 DEF Request
    <3> HIDE DEF r
    <3>3. Sound(r, h, A)
      BY <1>0, <2>0, <3>2 DEF Sound
    <3> QED  BY <1>0, <2>0, <3>1, <3>3, MoveFits
  <2>2. CASE ~(req[c].unban \/ req[c].model \notin blacklist)
    BY <1>3, <1>8, <2>0, <2>2 DEF Look
  <2> QED  BY <2>1, <2>2
<1>9. ASSUME NEW names \in SUBSET Models, NEW ban \in BOOLEAN, AskDelete(c, names, ban) PROVE AllFits'
  <2> DEFINE bulk == Cardinality(names) > 1
             gone == Models \ installed
             r == [AtRest EXCEPT !.step = "delete", !.todo = names, !.blacklist = ban, !.bulk = bulk, !.gone = gone]
  <2>1. req' = [req EXCEPT ![c] = r] /\ UNCHANGED <<have, row>>
    BY <1>9 DEF AskDelete, Begin, Advance
  <2> HIDE DEF bulk, gone
  <2>2. r.step = "delete"
    BY DEF AtRest
  <2> HIDE DEF r
  <2> QED  BY <1>2, <2>1, <2>2
<1>10. ASSUME BlacklistFails(c) PROVE AllFits'
  <2> DEFINE r == [[req[c] EXCEPT !.step = "delete"] EXCEPT !.unlisted = @ \cup {req[c].model}, !.model = None]
  <2>1. req' = [req EXCEPT ![c] = r] /\ UNCHANGED <<have, row>>
    BY <1>10 DEF BlacklistFails, Advance, GoTo
  <2>2. r.step = "delete"
    BY <1>0 DEF Request
  <2> HIDE DEF r
  <2> QED  BY <1>2, <2>1, <2>2
<1> QED  BY <1>3, <1>4, <1>5, <1>6, <1>7, <1>8, <1>9, <1>10
         DEF Refuse, AlreadyQueued, UnblacklistQueued, Disconnect, Report

\* Queueing a download, the last to be weighed: it fits with the others, and
\* those who have not been told of it are now.
LEMMA EnqueueFits ==
    ASSUME Safe, AllFits, NEW c \in Clients, Enqueue(c), ~excused'
    PROVE  AllFits'
<1> DEFINE m == req[c].model
<1>0. WellFormed(req[c]) /\ Sound(req[c], have, ActiveModels) /\ req[c].step = "enqueue" /\ m \in Models
  BY DEF Safe, Typed, Requests, WellFormed, Informed, AllFits, Enqueue, At
<1>1. ~req[c].confirm /\ ~req[c].blind /\ req[c].size # 0
  BY DEF Enqueue
<1>2. Within(have, ActiveModels \cup {m})
  BY <1>0, <1>1 DEF Sound
<1>3. have' = have /\ row' = [row EXCEPT ![m] = [status |-> "queued", left |-> DiskNeed(req[c])]]
  BY DEF Enqueue
<1>4. ActiveModels' = ActiveModels \cup {m}
  BY <1>0, <1>3 DEF ActiveModels, Active, Safe, Typed, TypeOK
<1> DEFINE r == IF ~req[c].unban THEN AtRest
                ELSE [AtRest EXCEPT !.step = "unban", !.model = m, !.inserted = TRUE]
<1>5. req' = [d \in Clients |-> IF d # c THEN Outdated(req[d]) ELSE r]
  BY DEF Enqueue
<1>6. r.step \in {"rest", "unban"}
  BY DEF AtRest
<1> HIDE DEF r, m
<1>7. ASSUME NEW d \in Clients PROVE Sound(req'[d], have', ActiveModels')
  <2>1. CASE d = c
    <3>1. req'[d] = r
      BY <1>5, <2>1
    <3>2. req'[d].step \notin {"sum", "weigh", "look", "enqueue"}
      BY <1>6, <3>1
    <3> QED  BY <3>2, OthersSound
  <2>2. CASE d # c
    <3>1. req'[d] = Outdated(req[d]) /\ req[d] \in Request
      BY <1>5, <2>2 DEF Safe, Typed, TypeOK
    <3> QED  BY <3>1, ToldSound
  <2> QED  BY <2>1, <2>2
<1>8. Within(have', ActiveModels')
  BY <1>2, <1>3, <1>4
<1> QED  BY <1>7, <1>8 DEF AllFits

\* Deleting a model: what it took is free, what is queued of it is to be fetched
\* again, and those who have counted it as there are told.
LEMMA DeletingFits ==
    ASSUME Safe, NEW c \in Clients, NEW m \in Models, Delete(c, m) \/ DeleteFails(c, m)
    PROVE  OnDisk(have)' /\ (AllFits => AllFits')
<1> DEFINE h == have
           k == have'
           A == ActiveModels
<1>0. Typed /\ OnDisk(h) /\ A \in SUBSET Models
  BY DEF Safe, ActiveModels
<1>1. row' = row /\ req[c].step = "delete" /\ req[c] \in Request /\ WellFormed(req[c])
  BY <1>0 DEF Delete, DeleteFails, At, Typed, TypeOK, Requests
<1>2. ActiveModels' = A
  BY <1>1 DEF ActiveModels, Active
<1> DEFINE f == [req[c] EXCEPT !.todo = @ \ {m}, !.failed = @ \cup {m}]
<1>3. \/ UNCHANGED have /\ req' = [req EXCEPT ![c] = f]
      \/ /\ have' = (IF m \in installed THEN Changed(h, m, 0) ELSE h)
         /\ \/ req' = [d \in Clients |-> IF d = c THEN Deleted(c, m) ELSE Gone(req[d], m)]
            \/ req' = [d \in Clients |-> Gone(IF d = c THEN f ELSE req[d], m)]
  BY DEF Delete, DeleteFails, Remove, Advance, Changed
<1>4. f \in Request /\ f.step = "delete" /\ Deleted(c, m).step \in {"ban", "delete"}
  BY <1>1 DEF Deleted, Request
<1> HIDE DEF f
<1>5. Gone(f, m).step = "delete"
  BY <1>4, ToldStays
<1>6. k = h \/ k = Changed(h, m, 0)
  BY <1>3
<1> HIDE DEF h, k, A
<1>7. ASSUME NEW B \in SUBSET Models
      PROVE  OnDisk(k) /\ (Within(h, B) => Within(k, B)) /\ (m \notin B => Load(k, B) = Load(h, B))
  BY <1>0, <1>6, DeletedFits
<1>8. ASSUME AllFits, NEW d \in Clients PROVE Sound(req'[d], k, A)
  <2>0. WellFormed(req[d]) /\ req[d] \in Request /\ Sound(req[d], h, A)
    BY <1>0, <1>8 DEF AllFits, Typed, Requests, WellFormed, h, A
  <2>1. CASE d = c
    <3>1. req'[d] \in {f, Deleted(c, m), Gone(f, m)}
      BY <1>0, <1>3, <2>1 DEF Typed, TypeOK
    <3>2. req'[d].step \notin {"sum", "weigh", "look", "enqueue"}
      BY <1>4, <1>5, <3>1
    <3> QED  BY <3>2, OthersSound
  <2>2. CASE d # c
    <3>1. (k = h /\ req'[d] = req[d]) \/ req'[d] = Gone(req[d], m)
      BY <1>0, <1>3, <2>2 DEF Typed, TypeOK, h, k
    <3>2. CASE k = h /\ req'[d] = req[d]
      BY <2>0, <3>2
    <3>3. CASE req'[d] = Gone(req[d], m)
      <4> DEFINE s == IF req[d].step \in {"delete", "ban"} THEN [req[d] EXCEPT !.gone = @ \cup {m}] ELSE req[d]
      <4>1. s \in Request /\ (s # req[d] => s.step \in {"delete", "ban"})
        <5>1. [req[d] EXCEPT !.gone = @ \cup {m}] \in Request /\ [req[d] EXCEPT !.gone = @ \cup {m}].step = req[d].step
          BY <2>0 DEF Request
        <5> QED  BY <2>0, <5>1
      <4>2. req'[d] = IF Active(m) THEN Outdated(s) ELSE s
        BY <3>3 DEF Gone
      <4> HIDE DEF s
      <4>3. CASE Active(m)
        <5>1. req'[d] = Outdated(s)
          BY <4>2, <4>3
        <5> QED  BY <4>1, <5>1, ToldSound
      <4>4. CASE ~Active(m) /\ s # req[d]
        <5>1. s.step \notin {"sum", "weigh", "look", "enqueue"} /\ req'[d] = s
          BY <4>1, <4>2, <4>4
        <5> QED  BY <5>1, OthersSound
      <4>5. CASE ~Active(m) /\ s = req[d]
        <5>1. m \notin A /\ req'[d] = req[d]
          BY <4>2, <4>5 DEF ActiveModels, A
        <5>2. Load(k, A) = Load(h, A) /\ Load(h, A) \in Nat
          BY <1>0, <1>7, <5>1, LoadIsNat
        <5>3. ASSUME NEW n \in Models PROVE Within(h, A \cup {n}) => Within(k, A \cup {n})
          <6> DEFINE B == A \cup {n}
          <6>1. B \in SUBSET Models
            BY <1>0
          <6> HIDE DEF B
          <6>2. Within(h, B) => Within(k, B)
            BY <1>7, <6>1
          <6> QED  BY <6>2 DEF B
        <5>4. Load(k, A) <= Load(h, A)
          BY <5>2
        <5>5. Sound(req[d], k, A)
          BY <1>0, <1>7, <2>0, <5>3, <5>4, StaysSound
        <5> QED  BY <5>1, <5>5
      <4> QED  BY <4>3, <4>4, <4>5
    <3> QED  BY <3>1, <3>2, <3>3
  <2> QED  BY <2>1, <2>2
<1>9. ASSUME AllFits PROVE Within(k, A)
  BY <1>0, <1>7, <1>9 DEF AllFits, h, A
<1>10. AllFits => AllFits'
  BY <1>2, <1>8, <1>9 DEF AllFits, k
<1> QED  BY <1>0, <1>7, <1>10 DEF k

\* The worker: a layer that is there is no longer to be fetched, and a download
\* that ends is no longer queued.
LEMMA PullingFits ==
    ASSUME Safe, NEW m \in Models,
           \/ Start(m) \/ UpdateDownloadProgress(m) \/ Layer(m) \/ Fetch(m) \/ Complete(m)
           \/ \E status \in {"queued", "ended"} : Settle(m, status)
           \/ CancelQueued(m)
    PROVE  OnDisk(have)' /\ (AllFits => AllFits')
<1> DEFINE h == have
           k == have'
           A == ActiveModels
           B == ActiveModels'
<1>0. Typed /\ OnDisk(h) /\ A \in SUBSET Models /\ row \in [Models -> Row]
  BY DEF Safe, ActiveModels, Typed, TypeOK
<1>1. UNCHANGED req
  BY DEF Start, UpdateDownloadProgress, Layer, Fetch, Complete, Settle, CancelQueued
<1>2. ASSUME Fetch(m) PROVE B = A /\ m \in A /\ k = Changed(h, m, h[m] + 1) /\ h[m] < Size[m] /\ FreeAt(h) > 0
  <2>1. B = A /\ m \in A
    BY <1>2 DEF Fetch, Pulling, ActiveModels, Active
  <2>2. h[m] < Size[m]
    BY <1>2, <1>0, AdminAssumption DEF Fetch, Typed, TypeOK, Reported
  <2>3. k = Changed(h, m, h[m] + 1) /\ FreeAt(h) > 0
    BY <1>2 DEF Fetch, Changed, Free, FreeAt
  <2> QED  BY <2>1, <2>2, <2>3
<1>3. ASSUME ~Fetch(m) PROVE k = h /\ B \in SUBSET A
  <2>1. k = h
    BY <1>3 DEF Start, UpdateDownloadProgress, Layer, Complete, Settle, CancelQueued
  <2>2. \/ row' = row
        \/ Active(m) /\ \E new : row' = [row EXCEPT ![m] = new]
    BY <1>0, <1>3 DEF Start, UpdateDownloadProgress, Layer, Complete, Settle, CancelQueued, Pulling, Active
  <2>3. B \in SUBSET A
    BY <1>0, <2>2 DEF ActiveModels, Active
  <2> QED  BY <2>1, <2>3
<1> HIDE DEF h, k, A, B
<1>4. OnDisk(k) /\ B \in SUBSET Models /\ Load(k, B) <= Load(h, A)
  <2>1. CASE Fetch(m)
    BY <1>0, <1>2, <2>1, FetchedFits
  <2>2. CASE ~Fetch(m)
    BY <1>0, <1>3, <2>2, FewerLoad
  <2> QED  BY <2>1, <2>2
<1>5. ASSUME NEW X \in SUBSET Models, Within(h, A \cup X) PROVE Within(k, B \cup X)
  <2> DEFINE C == A \cup X
             D == B \cup X
  <2>1. CASE Fetch(m)
    <3>1. C \in SUBSET Models /\ m \in C /\ D = C /\ Within(h, C)
      BY <1>0, <1>2, <1>5, <2>1
    <3> HIDE DEF C, D
    <3>2. Within(k, C)
      BY <1>0, <1>2, <2>1, <3>1, FetchedFits
    <3> QED  BY <3>1, <3>2 DEF D
  <2>2. CASE ~Fetch(m)
    <3>1. C \in SUBSET Models /\ D \in SUBSET C /\ Within(h, C)
      BY <1>0, <1>3, <1>5, <2>2
    <3> HIDE DEF C, D
    <3>2. Within(h, D)
      BY <1>0, <3>1, FewerLoad
    <3> QED  BY <1>3, <2>2, <3>2 DEF D
  <2> QED  BY <2>1, <2>2
<1>6. ASSUME AllFits, NEW d \in Clients PROVE Sound(req'[d], k, B)
  <2>1. WellFormed(req[d]) /\ Sound(req[d], h, A) /\ req'[d] = req[d]
    BY <1>0, <1>1, <1>6 DEF AllFits, Typed, Requests, h, A
  <2>2. ASSUME NEW n \in Models PROVE Within(h, A \cup {n}) => Within(k, B \cup {n})
    BY <1>5
  <2>3. Sound(req[d], k, B)
    BY <1>0, <1>4, <2>1, <2>2, StaysSound
  <2> QED  BY <2>1, <2>3
<1>7. ASSUME AllFits PROVE Within(k, B)
  <2>1. Within(h, A \cup {}) /\ B \cup {} = B
    BY <1>7 DEF AllFits, h, A
  <2> QED  BY <1>5, <2>1
<1>8. AllFits => AllFits'
  BY <1>6, <1>7 DEF AllFits, k, B
<1> QED  BY <1>4, <1>8 DEF k

\* Blacklisting tells others only that it was late.
LEMMA BlacklistingFits ==
    ASSUME Safe, AllFits, NEW c \in Clients, Blacklist(c)
    PROVE  AllFits'
<1> DEFINE m == req[c].model
<1>1. have' = have /\ ActiveModels' = ActiveModels
  BY DEF Blacklist, ActiveModels, Active
<1>2. ASSUME NEW d \in Clients PROVE Sound(req'[d], have, ActiveModels)
  <2>0. req[d] \in Request /\ Sound(req[d], have, ActiveModels)
    BY DEF Safe, Typed, TypeOK, AllFits
  <2>1. CASE d = c
    <3> DEFINE r == [[req[c] EXCEPT !.step = "delete"] EXCEPT !.model = None, !.banned = @ \cup {m}]
    <3>1. req'[d] = r
      BY <2>1 DEF Blacklist, GoTo
    <3>2. r.step = "delete"
      BY <2>0, <2>1 DEF Request
    <3> HIDE DEF r
    <3>3. req'[d].step \notin {"sum", "weigh", "look", "enqueue"}
      BY <3>1, <3>2
    <3> QED  BY <3>3, OthersSound
  <2>2. CASE d # c
    <3> DEFINE l == [req[d] EXCEPT !.late = TRUE]
    <3>1. req'[d] \in {l, req[d]}
      BY <2>2 DEF Blacklist
    <3>2. /\ l.step = req[d].step /\ l.blind = req[d].blind /\ l.confirm = req[d].confirm
          /\ l.size = req[d].size /\ l.model = req[d].model /\ l.queued = req[d].queued /\ l.update = req[d].update
      BY <2>0 DEF Request
    <3> HIDE DEF l
    <3>3. Sound(l, have, ActiveModels)
      BY <2>0, <3>2 DEF Sound
    <3> QED  BY <2>0, <3>1, <3>3
  <2> QED  BY <2>1, <2>2
<1>3. ASSUME NEW d \in Clients PROVE Sound(req'[d], have', ActiveModels')
  BY <1>1, <1>2
<1> QED  BY <1>1, <1>3 DEF AllFits

\* At first nothing is queued, and what is installed fits.
LEMMA InitSafe == Init => Safe
<1> SUFFICES ASSUME Init PROVE Safe
  OBVIOUS
<1>1. Typed
  BY InitTyped
<1>2. OnDisk(have)
  BY <1>1 DEF Init, OnDisk, Typed, TypeOK
<1>3. ActiveModels = {}
  BY DEF Init, ActiveModels, Active, NoRow
<1>4. Within(have, {})
  <2>1. Load(have, {}) = 0
    BY SumOfNone DEF Load
  <2>2. FreeAt(have) \in Nat
    BY <1>2, LoadIsNat
  <2> QED  BY <2>1, <2>2 DEF Within
<1>5. ASSUME NEW c \in Clients PROVE Sound(req[c], have, ActiveModels)
  <2>1. req[c].step \notin {"sum", "weigh", "look", "enqueue"}
    BY DEF Init, AtRest
  <2> QED  BY <2>1, OthersSound
<1> QED  BY <1>1, <1>2, <1>3, <1>4, <1>5 DEF Safe, AllFits

\* Every step keeps to what fits, unless a download is let in that is excused.
LEMMA SafeNext == Safe /\ [Next]_vars => Safe'
<1> SUFFICES ASSUME Safe, [Next]_vars PROVE OnDisk(have)' /\ (excused' \/ AllFits')
  BY NextTyped DEF Safe
<1>0. OnDisk(have) /\ (excused \/ AllFits)
  BY DEF Safe
<1>1. ASSUME OnDisk(have)', excused => excused', ~excused' /\ AllFits => AllFits'
      PROVE  OnDisk(have)' /\ (excused' \/ AllFits')
  BY <1>0, <1>1
<1>2. ASSUME UNCHANGED have PROVE OnDisk(have)'
  <2>1. have' = have
    BY <1>2
  <2> QED  BY <1>0, <2>1
<1>3. ASSUME UNCHANGED <<have, row, req>> PROVE AllFits => AllFits'
  <2>1. have' = have /\ ActiveModels' = ActiveModels /\ req' = req
    BY <1>3 DEF ActiveModels, Active
  <2>2. ASSUME AllFits, NEW d \in Clients PROVE Sound(req'[d], have', ActiveModels')
    <3>1. Sound(req[d], have, ActiveModels)
      BY <2>2 DEF AllFits
    <3> QED  BY <2>1, <3>1
  <2>3. AllFits => Within(have', ActiveModels')
    BY <2>1 DEF AllFits
  <2> QED  BY <2>2, <2>3 DEF AllFits
<1>4. ASSUME NEW c \in Clients,
             \/ \E m \in Models, confirm, unban \in BOOLEAN : AskDownload(c, m, confirm, unban)
             \/ Check(c) \/ Refuse(c) \/ AddUp(c) \/ Weigh(c) \/ Look(c)
             \/ AlreadyQueued(c) \/ UnblacklistQueued(c) \/ Disconnect(c) \/ Report(c)
             \/ \E names \in SUBSET Models, ban \in BOOLEAN : AskDelete(c, names, ban)
             \/ BlacklistFails(c)
      PROVE  OnDisk(have)' /\ (excused' \/ AllFits')
  <2>1. UNCHANGED <<have, excused>>
    BY <1>4 DEF AskDownload, Check, Refuse, AddUp, Weigh, Look, AlreadyQueued, UnblacklistQueued, Disconnect,
                Report, AskDelete, BlacklistFails
  <2>2. AllFits => AllFits'
    BY <1>4, AskingFits
  <2> QED  BY <1>1, <1>2, <2>1, <2>2
<1>5. ASSUME NEW c \in Clients, Enqueue(c) PROVE OnDisk(have)' /\ (excused' \/ AllFits')
  <2>1. ~excused' /\ AllFits => AllFits'
    BY <1>5, EnqueueFits
  <2>2. UNCHANGED have /\ (excused => excused')
    BY <1>5 DEF Enqueue
  <2> QED  BY <1>1, <1>2, <2>1, <2>2
<1>6. ASSUME NEW c \in Clients, NEW m \in Models, Delete(c, m) \/ DeleteFails(c, m)
      PROVE  OnDisk(have)' /\ (excused' \/ AllFits')
  <2>1. excused' = excused
    BY <1>6 DEF Delete, DeleteFails
  <2> QED  BY <1>1, <1>6, <2>1, DeletingFits
<1>7. ASSUME NEW c \in Clients, Blacklist(c) PROVE OnDisk(have)' /\ (excused' \/ AllFits')
  <2>1. UNCHANGED <<have, excused>>
    BY <1>7 DEF Blacklist
  <2> QED  BY <1>1, <1>2, <1>7, <2>1, BlacklistingFits
<1>8. ASSUME NEW m \in Models,
             \/ Start(m) \/ UpdateDownloadProgress(m) \/ Layer(m) \/ Fetch(m) \/ Complete(m)
             \/ \E status \in {"queued", "ended"} : Settle(m, status)
             \/ CancelQueued(m)
      PROVE  OnDisk(have)' /\ (excused' \/ AllFits')
  <2>1. excused' = excused
    BY <1>8 DEF Start, UpdateDownloadProgress, Layer, Fetch, Complete, Settle, CancelQueued
  <2> QED  BY <1>1, <1>8, <2>1, PullingFits
<1>9. ASSUME NEW m \in Models, Retry(m) PROVE OnDisk(have)' /\ (excused' \/ AllFits')
  BY <1>2, <1>9 DEF Retry
<1>10. ASSUME NEW m \in Models, Unblacklist(m) PROVE OnDisk(have)' /\ (excused' \/ AllFits')
  <2>1. UNCHANGED <<have, row, req, excused>>
    BY <1>10 DEF Unblacklist
  <2> QED  BY <1>1, <1>2, <1>3, <2>1
<1>11. CASE UNCHANGED vars
  <2>1. UNCHANGED <<have, row, req, excused>>
    BY <1>11 DEF vars
  <2> QED  BY <1>1, <1>2, <1>3, <2>1
<1> QED  BY <1>4, <1>5, <1>6, <1>7, <1>8, <1>9, <1>10, <1>11, StepKinds

\* What is queued fits on the disk, all of it together, however requests,
\* deletions and the pull take turns, but for the excuses QueueFits names.
THEOREM DownloadsFit == Spec => []QueueFits
<1>1. Safe => QueueFits
  <2>1. Within(have, ActiveModels) => SumFunctionOnSet(Need, ActiveModels) <= Free
    BY DEF Within, Load, NeedAt, FreeAt, Need, Free
  <2> QED  BY <2>1 DEF Safe, AllFits, QueueFits
<1> QED  BY <1>1, InitSafe, SafeNext, PTL DEF Spec

=============================================================================
