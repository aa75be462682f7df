---------------------------- MODULE LabelsProofs ----------------------------
(***************************************************************************)
(* Proofs about the labels, for any models, names, requests and restarts:  *)
(* names are unique, no model has a label that doesn't exist, an id is     *)
(* never given out again, and the built-in labels stay as they are,        *)
(* although every handler acts on what it has read a statement earlier.    *)
(***************************************************************************)
EXTENDS Labels, TLAPS

\* Every step is of one of these kinds; the proofs below go through them.
LEMMA StepKinds ==
    ASSUME [Next]_vars
    PROVE  \/ \E name \in Names : AddBuiltin(name) \/ Create(name)
           \/ Restart
           \/ \E c \in Clients : Asking(c)
           \/ \E c \in Clients : Find(c) \/ Check(c) \/ Update(c) \/ Delete(c) \/ LabelModels(c)
           \/ \E c \in Clients : CreateNew(c) \/ UseNamed(c) \/ SetModelLabels(c) \/ Disconnect(c)
           \/ UNCHANGED vars
BY DEF Next, Handler, vars

-----------------------------------------------------------------------------
(* What a request may be, and how it moves.                                *)

\* A request that is to rename or delete a label has its id, one that is to give
\* a name has one, and only the labels of a model are made in passing.
Complete(r) ==
    /\ r.kind \in {"update", "delete"} => r.id \in Ids
    /\ r.kind = "update" \/ r.step \in {"create", "named"} => r.name \in Names
    /\ r.step \in {"create", "named"} => r.kind = "set"

WellFormed(r) == r \in Request /\ Complete(r)

\* About to rename or delete.
Changing(r) == r.step = "write" /\ r.kind \in {"update", "delete"}

Requests == \A c \in Clients : WellFormed(req[c])
Known    == \A c \in Clients : req[c].id < nextId
Cleared  == \A c \in Clients : Changing(req[c]) => ~labels[req[c].id].builtin
Fresh    == \A i \in Ids : i >= nextId => labels[i] = NoLabel

Typed == TypeOK /\ Requests /\ Known

\* c's request becomes r; one that may now rename or delete has just been found
\* not to be for a built-in label.
Move(c, r) ==
    /\ req' = [req EXCEPT ![c] = r]
    /\ WellFormed(r)
    /\ r.id < nextId
    /\ Changing(r) => UNCHANGED <<labels, nextId>> /\ ~labels[r.id].builtin

\* The request of a client at rest is one.
LEMMA AtRestWellFormed == WellFormed(AtRest) /\ AtRest.id = 0 /\ ~Changing(AtRest)
BY DEF WellFormed, Complete, Changing, AtRest, Request, Steps, Kinds

\* A request that is asked for is one.
LEMMA AskingMoves ==
    ASSUME Typed, NEW c \in Clients, Asking(c)
    PROVE  \E r : Move(c, r)
<1> USE DEF WellFormed, Complete, Changing, AtRest, Request, Steps, Kinds
<1>1. ASSUME NEW id \in Ids, NEW name \in Names, AskUpdate(c, id, name) PROVE \E r : Move(c, r)
  <2> DEFINE r == [AtRest EXCEPT !.step = "find", !.kind = "update", !.id = id, !.name = name]
  <2>1. WellFormed(r) /\ ~Changing(r) /\ r.id = id
    OBVIOUS
  <2>2. Move(c, r)
    BY <1>1, <2>1 DEF AskUpdate, Begin, Move
  <2> QED  BY <2>2
<1>2. ASSUME NEW id \in Ids, AskDelete(c, id) PROVE \E r : Move(c, r)
  <2> DEFINE r == [AtRest EXCEPT !.step = "find", !.kind = "delete", !.id = id]
  <2>1. WellFormed(r) /\ ~Changing(r) /\ r.id = id
    OBVIOUS
  <2>2. Move(c, r)
    BY <1>2, <2>1 DEF AskDelete, Begin, Move
  <2> QED  BY <2>2
<1>3. ASSUME NEW id \in Ids, NEW models \in SUBSET Models, NEW add \in BOOLEAN, AskBulk(c, id, models, add)
      PROVE  \E r : Move(c, r)
  <2> DEFINE r == [AtRest EXCEPT !.step = "find", !.kind = "bulk", !.id = id, !.models = models, !.add = add]
  <2>1. WellFormed(r) /\ ~Changing(r) /\ r.id = id
    OBVIOUS
  <2>2. Move(c, r)
    BY <1>3, <2>1 DEF AskBulk, Begin, Move
  <2> QED  BY <2>2
<1>4. ASSUME NEW m \in Models, NEW ids \in SUBSET Ids, NEW name \in Names \cup {NoName}, AskSet(c, m, ids, name)
      PROVE  \E r : Move(c, r)
  <2> DEFINE r == [AtRest EXCEPT !.step = IF name = NoName THEN "write" ELSE "create",
                                 !.kind = "set", !.models = {m}, !.ids = ids, !.name = name]
  <2>1. WellFormed(r) /\ ~Changing(r) /\ r.id = 0
    OBVIOUS
  <2>2. Move(c, r)
    BY <1>4, <2>1 DEF AskSet, Begin, Move, Typed, TypeOK
  <2> QED  BY <2>2
<1> QED  BY <1>1, <1>2, <1>3, <1>4 DEF Asking

\* A handler's step moves its own request.
LEMMA HandlerMoves ==
    ASSUME Typed, NEW c \in Clients, Handler(c)
    PROVE  \E r : Move(c, r)
<1> USE DEF WellFormed, Complete, Changing, Request, Steps, Kinds
<1>0. WellFormed(req[c]) /\ req[c].id < nextId /\ req \in [Clients -> Request]
  BY DEF Typed, Requests, Known, TypeOK
<1>1. CASE Finish(c)
  <2>1. WellFormed(AtRest) /\ AtRest.id < nextId /\ ~Changing(AtRest)
    BY AtRestWellFormed DEF Typed, TypeOK
  <2>2. Move(c, AtRest)
    BY <1>1, <2>1 DEF Finish, Move
  <2> QED  BY <2>2
<1>2. ASSUME NEW step \in {"check", "write", "named"}, GoTo(c, step),
             step = "write" /\ req[c].kind # "bulk" => UNCHANGED <<labels, nextId>> /\ ~labels[req[c].id].builtin,
             step = "named" => At(c, "create")
      PROVE  \E r : Move(c, r)
  <2> DEFINE r == [req[c] EXCEPT !.step = step]
  <2>1. WellFormed(r)
    BY <1>0, <1>2 DEF At
  <2>2. r.id = req[c].id /\ r.step = step /\ r.kind = req[c].kind
    BY <1>0
  <2>3. req' = [req EXCEPT ![c] = r]
    BY <1>0, <1>2 DEF GoTo
  <2>4. Move(c, r)
    BY <1>0, <1>2, <2>1, <2>2, <2>3 DEF Move
  <2> QED  BY <2>4
<1>3. CASE Find(c)
  BY <1>1, <1>2, <1>3 DEF Find
<1>4. CASE Check(c)
  BY <1>1, <1>2, <1>4 DEF Check
<1>5. CASE Update(c) \/ Delete(c) \/ LabelModels(c) \/ SetModelLabels(c) \/ Disconnect(c)
  BY <1>1, <1>5 DEF Update, Delete, LabelModels, SetModelLabels, Disconnect
<1>6. ASSUME NEW i \in Ids, req[c].kind = "set", req' = [req EXCEPT ![c].ids = @ \cup {i}, ![c].step = "write"]
      PROVE  \E r : Move(c, r)
  <2> DEFINE r == [req[c] EXCEPT !.ids = @ \cup {i}, !.step = "write"]
  <2>1. WellFormed(r) /\ r.id = req[c].id /\ ~Changing(r)
    BY <1>0, <1>6
  <2>2. req' = [req EXCEPT ![c] = r]
    BY <1>0, <1>6
  <2>3. Move(c, r)
    BY <1>0, <2>1, <2>2 DEF Move
  <2> QED  BY <2>3
<1>7. CASE CreateNew(c)
  <2>1. req[c].kind = "set"
    BY <1>0, <1>7 DEF CreateNew, At
  <2>2. CASE Taken(req[c].name)
    BY <1>2, <1>7, <2>2 DEF CreateNew
  <2>3. CASE ~Taken(req[c].name)
    <3>1. nextId \in Ids
      BY <1>7, <2>3, LabelsAssumption DEF CreateNew, Insert, Typed, TypeOK, Ids
    <3> QED  BY <1>6, <1>7, <2>1, <2>3, <3>1 DEF CreateNew
  <2> QED  BY <2>2, <2>3
<1>8. CASE UseNamed(c)
  <2>1. req[c].kind = "set"
    BY <1>0, <1>8 DEF UseNamed, At
  <2> QED  BY <1>1, <1>6, <1>8, <2>1 DEF UseNamed
<1> QED  BY <1>3, <1>4, <1>5, <1>7, <1>8 DEF Handler

-----------------------------------------------------------------------------
(* How the labels move.                                                    *)

\* A label that is made has a name nobody has; else one request's label is
\* renamed or deleted, or the labels stay.
LEMMA LabelsMove ==
    ASSUME Typed, [Next]_vars
    PROVE  \/ UNCHANGED <<labels, nextId>>
           \/ \E name \in Names, builtin \in BOOLEAN : ~Taken(name) /\ Insert(name, builtin)
           \/ \E c \in Clients : Update(c) \/ Delete(c)
<1>1. ASSUME NEW name \in Names, AddBuiltin(name)
      PROVE  UNCHANGED <<labels, nextId>> \/ (~Taken(name) /\ Insert(name, TRUE))
  BY <1>1 DEF AddBuiltin
<1>2. ASSUME NEW name \in Names, Create(name) PROVE ~Taken(name) /\ Insert(name, FALSE)
  BY <1>2 DEF Create
<1>3. ASSUME NEW c \in Clients, CreateNew(c)
      PROVE  \/ UNCHANGED <<labels, nextId>>
             \/ req[c].name \in Names /\ ~Taken(req[c].name) /\ Insert(req[c].name, FALSE)
  BY <1>3 DEF CreateNew, At, Typed, Requests, WellFormed, Complete
<1>4. ASSUME NEW c \in Clients, Asking(c) PROVE UNCHANGED <<labels, nextId>>
  BY <1>4 DEF Asking, AskUpdate, AskDelete, AskBulk, AskSet
<1>5. ASSUME NEW c \in Clients,
             Find(c) \/ Check(c) \/ LabelModels(c) \/ UseNamed(c) \/ SetModelLabels(c) \/ Disconnect(c)
      PROVE  UNCHANGED <<labels, nextId>>
  BY <1>5 DEF Find, Check, LabelModels, UseNamed, SetModelLabels, Disconnect
<1>6. CASE Restart \/ UNCHANGED vars
  BY <1>6 DEF Restart, vars
<1> QED  BY <1>1, <1>2, <1>3, <1>4, <1>5, <1>6, StepKinds

\* A label that is made has the next id, and the others stay as they are.
LEMMA InsertAdds ==
    ASSUME Typed, NEW name \in Names, NEW builtin \in BOOLEAN, Insert(name, builtin)
    PROVE  /\ nextId \in Ids
           /\ nextId' = nextId + 1
           /\ labels' \in [Ids -> Label \cup {NoLabel}]
           /\ labels'[nextId] = [name |-> name, builtin |-> builtin]
           /\ \A i \in Ids : i # nextId => labels'[i] = labels[i]
<1>1. nextId \in Ids
  BY LabelsAssumption DEF Insert, Typed, TypeOK, Ids
<1>2. [name |-> name, builtin |-> builtin] \in Label
  BY DEF Label
<1>3. labels \in [Ids -> Label \cup {NoLabel}]
  BY DEF Typed, TypeOK
<1> QED  BY <1>1, <1>2, <1>3 DEF Insert

\* A label that is renamed is there and keeps the rest of what it is, and its new
\* name is nobody else's.
LEMMA UpdateRenames ==
    ASSUME Typed, NEW c \in Clients, Update(c), labels' # labels
    PROVE  LET id == req[c].id IN
           /\ Exists(id)
           /\ Changing(req[c])
           /\ req[c].name \in Names
           /\ labels' \in [Ids -> Label \cup {NoLabel}]
           /\ labels'[id] = [name |-> req[c].name, builtin |-> labels[id].builtin]
           /\ \A i \in Ids : i # id => labels'[i] = labels[i] /\ labels[i].name # req[c].name
           /\ nextId' = nextId
<1> DEFINE id == req[c].id
<1>1. Exists(id) /\ (\A i \in Ids : i # id => labels[i].name # req[c].name)
  BY DEF Update
<1>2. labels' = [labels EXCEPT ![id].name = req[c].name] /\ nextId' = nextId
  BY DEF Update
<1>3. req[c].name \in Names /\ Changing(req[c])
  BY DEF Update, At, Changing, Typed, Requests, WellFormed, Complete
<1>4. labels \in [Ids -> Label \cup {NoLabel}] /\ id \in Ids /\ labels[id] \in Label
  BY <1>1 DEF Typed, TypeOK, Exists
<1>5. labels'[id] = [labels[id] EXCEPT !.name = req[c].name]
  BY <1>2, <1>4
<1>6. labels'[id] = [name |-> req[c].name, builtin |-> labels[id].builtin]
  BY <1>4, <1>5 DEF Label
<1>7. labels'[id] \in Label
  BY <1>3, <1>4, <1>6 DEF Label
<1>8. \A i \in Ids : i # id => labels'[i] = labels[i]
  BY <1>2, <1>4
<1>9. labels' \in [Ids -> Label \cup {NoLabel}]
  BY <1>2, <1>4, <1>7, <1>8
<1> QED  BY <1>1, <1>2, <1>3, <1>6, <1>8, <1>9

\* A label that is deleted leaves the others as they are.
LEMMA DeleteRemoves ==
    ASSUME Typed, NEW c \in Clients, Delete(c)
    PROVE  LET id == req[c].id IN
           /\ id \in Ids
           /\ Changing(req[c])
           /\ labels' \in [Ids -> Label \cup {NoLabel}]
           /\ labels'[id] = NoLabel
           /\ \A i \in Ids : i # id => labels'[i] = labels[i]
           /\ nextId' = nextId
BY DEF Delete, At, Changing, Typed, TypeOK, Requests, WellFormed, Complete

\* Some label has a name of its own, and NoLabel has none.
LEMMA NoLabelHasNoName ==
    /\ \A l \in Label : l.name \in Names /\ l.name # NoName /\ l # NoLabel /\ l.builtin \in BOOLEAN
    /\ NoLabel.name = NoName /\ ~NoLabel.builtin
BY LabelsAssumption DEF Label, NoLabel

-----------------------------------------------------------------------------
(* Types.                                                                  *)

\* Every step keeps the types, and the requests what they have to be.
LEMMA TypedKept == Typed /\ [Next]_vars => Typed'
<1> SUFFICES ASSUME Typed, [Next]_vars PROVE Typed'
  OBVIOUS
<1>1. labels' \in [Ids -> Label \cup {NoLabel}] /\ nextId' \in 1..(MaxId + 1) /\ nextId' >= nextId
  <2>1. labels \in [Ids -> Label \cup {NoLabel}] /\ nextId \in 1..(MaxId + 1)
    BY DEF Typed, TypeOK
  <2>2. CASE UNCHANGED <<labels, nextId>>
    BY <2>1, <2>2
  <2>3. ASSUME NEW name \in Names, NEW builtin \in BOOLEAN, Insert(name, builtin)
        PROVE  labels' \in [Ids -> Label \cup {NoLabel}] /\ nextId' = nextId + 1 /\ nextId \in 1..MaxId
    BY <2>3, InsertAdds DEF Ids
  <2>4. ASSUME NEW c \in Clients, Update(c) \/ Delete(c)
        PROVE  labels' \in [Ids -> Label \cup {NoLabel}] /\ nextId' = nextId
    BY <2>1, <2>4, UpdateRenames, DeleteRemoves DEF Update
  <2> QED  BY <2>1, <2>2, <2>3, <2>4, LabelsMove, LabelsAssumption
<1>2. (Requests /\ Known /\ req \in [Clients -> Request])'
  <2>1. Requests /\ Known /\ req \in [Clients -> Request] /\ nextId \in Nat /\ nextId' \in Nat /\ nextId >= 1
    BY <1>1, LabelsAssumption DEF Typed, TypeOK
  <2>2. \A c \in Clients : req[c].id \in Nat
    BY <2>1, LabelsAssumption DEF Request, Ids
  <2>3. ASSUME NEW c \in Clients, NEW r, Move(c, r) PROVE (Requests /\ Known /\ req \in [Clients -> Request])'
    <3>1. r \in Request /\ r.id \in Nat
      BY <2>3, LabelsAssumption DEF Move, WellFormed, Request, Ids
    <3>2. \A d \in Clients : req'[d] = IF d = c THEN r ELSE req[d]
      BY <2>1, <2>3 DEF Move
    <3>3. req' \in [Clients -> Request]
      BY <2>1, <2>3, <3>1 DEF Move
    <3>4. Requests'
      BY <2>1, <2>3, <3>2 DEF Move, Requests
    <3>5. Known'
      BY <1>1, <2>1, <2>2, <2>3, <3>1, <3>2 DEF Move, Known
    <3> QED  BY <3>3, <3>4, <3>5
  <2>4. CASE req' = req
    BY <1>1, <2>1, <2>2, <2>4 DEF Requests, Known
  <2>5. CASE Restart
    <3>1. req' = [c \in Clients |-> AtRest]
      BY <2>5 DEF Restart
    <3> QED  BY <1>1, <2>1, <3>1, AtRestWellFormed DEF Requests, Known, WellFormed
  <2>6. ASSUME NEW name \in Names, AddBuiltin(name) \/ Create(name) PROVE req' = req
    BY <2>6 DEF AddBuiltin, Create
  <2>7. ASSUME UNCHANGED vars PROVE req' = req
    BY <2>7 DEF vars
  <2>8. ASSUME NEW c \in Clients, Asking(c) \/ Handler(c) PROVE \E r : Move(c, r)
    BY <2>8, AskingMoves, HandlerMoves
  <2> QED  BY <2>3, <2>4, <2>5, <2>6, <2>7, <2>8 DEF Next
<1>3. (on \subseteq Models \X Ids)'
  <2>1. on \subseteq Models \X Ids
    BY DEF Typed, TypeOK
  <2>2. ASSUME NEW c \in Clients, LabelModels(c) PROVE on' \subseteq Models \X Ids
    <3>1. req[c].models \subseteq Models
      BY DEF Typed, TypeOK, Request
    <3> QED  BY <2>1, <2>2, <3>1 DEF LabelModels, Exists
  <2>3. ASSUME NEW c \in Clients, SetModelLabels(c) PROVE on' \subseteq Models \X Ids
    <3>1. req[c].models \subseteq Models
      BY DEF Typed, TypeOK, Request
    <3> QED  BY <2>1, <2>3, <3>1 DEF SetModelLabels, Exists
  <2>4. ASSUME NEW c \in Clients, Delete(c) PROVE on' \subseteq on
    BY <2>4 DEF Delete
  <2>5. ASSUME NEW c \in Clients,
               Find(c) \/ Check(c) \/ Update(c) \/ CreateNew(c) \/ UseNamed(c) \/ Disconnect(c) \/ Asking(c)
        PROVE  on' = on
    BY <2>5 DEF Find, Check, Update, CreateNew, UseNamed, Disconnect, Asking, AskUpdate, AskDelete, AskBulk, AskSet
  <2>6. ASSUME NEW name \in Names, AddBuiltin(name) \/ Create(name) PROVE on' = on
    BY <2>6 DEF AddBuiltin, Create
  <2>7. CASE Restart \/ UNCHANGED vars
    BY <2>1, <2>7 DEF Restart, vars
  <2> QED  BY <2>1, <2>2, <2>3, <2>4, <2>5, <2>6, <2>7, StepKinds
<1>4. (missing \subseteq BuiltinNames /\ restarts \in 0..MaxRestarts)'
  <2>1. missing \subseteq BuiltinNames /\ restarts \in 0..MaxRestarts
    BY DEF Typed, TypeOK
  <2>2. CASE Restart
    BY <2>1, <2>2, LabelsAssumption DEF Restart
  <2>3. ASSUME NEW name \in Names, AddBuiltin(name) \/ Create(name)
        PROVE  missing' \subseteq missing /\ restarts' = restarts
    BY <2>3 DEF AddBuiltin, Create
  <2>4. ASSUME NEW c \in Clients, Asking(c) PROVE UNCHANGED <<missing, restarts>>
    BY <2>4 DEF Asking, AskUpdate, AskDelete, AskBulk, AskSet
  <2>5. ASSUME NEW c \in Clients, Handler(c) PROVE UNCHANGED <<missing, restarts>>
    BY <2>5 DEF Handler, Find, Check, Update, Delete, LabelModels, CreateNew, UseNamed, SetModelLabels, Disconnect
  <2>6. CASE UNCHANGED vars
    BY <2>1, <2>6 DEF vars
  <2> QED  BY <2>1, <2>2, <2>3, <2>4, <2>5, <2>6 DEF Next
<1> QED  BY <1>1, <1>2, <1>3, <1>4 DEF Typed, TypeOK

\* The first state has them.
LEMMA InitTyped == Init => Typed
<1> SUFFICES ASSUME Init PROVE Typed
  OBVIOUS
<1>1. req = [c \in Clients |-> AtRest]
  BY DEF Init
<1>2. Requests /\ Known /\ req \in [Clients -> Request]
  BY <1>1, AtRestWellFormed DEF Init, Requests, Known, WellFormed
<1>3. labels \in [Ids -> Label \cup {NoLabel}] /\ on \subseteq Models \X Ids /\ missing \subseteq BuiltinNames
  BY DEF Init
<1>4. nextId \in 1..(MaxId + 1) /\ restarts \in 0..MaxRestarts
  BY LabelsAssumption DEF Init
<1> QED  BY <1>2, <1>3, <1>4 DEF Typed, TypeOK

\* The types hold throughout, of the requests too.
LEMMA TypedHolds == Spec => []Typed
BY InitTyped, TypedKept, PTL DEF Spec

\* Every variable of the labels keeps its type.
THEOREM TypeCorrect == Spec => []TypeOK
<1>1. Typed => TypeOK
  BY DEF Typed
<1> QED  BY <1>1, TypedHolds, PTL

-----------------------------------------------------------------------------
(* Names, ids and the built-in labels.                                     *)

\* Labels that are not yet made are not there: ids are given out in order.
LEMMA FreshKept == Typed /\ Fresh /\ [Next]_vars => Fresh'
<1> SUFFICES ASSUME Typed, Fresh, [Next]_vars PROVE Fresh'
  OBVIOUS
<1>1. nextId \in Nat /\ \A i \in Ids : i \in Nat
  BY LabelsAssumption DEF Typed, TypeOK, Ids
<1>2. CASE UNCHANGED <<labels, nextId>>
  BY <1>2 DEF Fresh
<1>3. ASSUME NEW name \in Names, NEW builtin \in BOOLEAN, Insert(name, builtin) PROVE Fresh'
  <2>1. nextId' = nextId + 1 /\ \A i \in Ids : i # nextId => labels'[i] = labels[i]
    BY <1>3, InsertAdds
  <2>2. ASSUME NEW i \in Ids, i >= nextId' PROVE i # nextId /\ i >= nextId
    BY <1>1, <2>1, <2>2
  <2> QED  BY <2>1, <2>2 DEF Fresh
<1>4. ASSUME NEW c \in Clients, Update(c) PROVE Fresh'
  <2>1. CASE labels' = labels
    BY <1>4, <2>1 DEF Fresh, Update
  <2>2. CASE labels' # labels
    <3>1. Exists(req[c].id) /\ nextId' = nextId /\ \A i \in Ids : i # req[c].id => labels'[i] = labels[i]
      BY <1>4, <2>2, UpdateRenames
    <3>2. ~(req[c].id >= nextId)
      BY <3>1 DEF Fresh, Exists
    <3> QED  BY <3>1, <3>2 DEF Fresh
  <2> QED  BY <2>1, <2>2
<1>5. ASSUME NEW c \in Clients, Delete(c) PROVE Fresh'
  BY <1>5, DeleteRemoves DEF Fresh
<1> QED  BY <1>2, <1>3, <1>4, <1>5, LabelsMove

\* Labels that are not yet made are not there.
LEMMA FreshHolds == Spec => []Fresh
<1>1. Init => Fresh
  BY DEF Init, Fresh
<1> QED  BY <1>1, FreshKept, TypedHolds, PTL DEF Spec

\* Every step keeps names unique: a new label's name is nobody's, and a label
\* that is renamed takes nobody's.
LEMMA NamesKept == Typed /\ NamesUnique /\ [Next]_vars => NamesUnique'
<1> SUFFICES ASSUME Typed, NamesUnique, [Next]_vars,
                    NEW i \in Ids, NEW j \in Ids, labels'[i].name = labels'[j].name, i # j
             PROVE  labels'[i] = NoLabel
  BY DEF NamesUnique
<1>1. labels \in [Ids -> Label \cup {NoLabel}]
  BY DEF Typed, TypeOK
<1>2. \A k \in Ids : labels[k].name = NoName <=> labels[k] = NoLabel
  BY <1>1, NoLabelHasNoName
<1>3. CASE UNCHANGED <<labels, nextId>>
  BY <1>3 DEF NamesUnique
<1>4. ASSUME NEW name \in Names, NEW builtin \in BOOLEAN, ~Taken(name), Insert(name, builtin)
      PROVE  labels'[i] = NoLabel
  <2>1. labels'[nextId].name = name /\ \A k \in Ids : k # nextId => labels'[k] = labels[k]
    <3>1. labels'[nextId] = [name |-> name, builtin |-> builtin] /\ \A k \in Ids : k # nextId => labels'[k] = labels[k]
      BY <1>4, InsertAdds
    <3> QED  BY <3>1
  <2>2. \A k \in Ids : labels[k].name # name
    BY <1>4 DEF Taken
  <2>3. i # nextId /\ j # nextId
    BY <2>1, <2>2
  <2> QED  BY <2>1, <2>3 DEF NamesUnique
<1>5. ASSUME NEW c \in Clients, Update(c) PROVE labels'[i] = NoLabel
  <2>1. CASE labels' = labels
    BY <2>1 DEF NamesUnique
  <2>2. CASE labels' # labels
    <3> DEFINE id == req[c].id
    <3>1. labels'[id] = [name |-> req[c].name, builtin |-> labels[id].builtin]
      BY <1>5, <2>2, UpdateRenames
    <3>2. \A k \in Ids : k # id => labels'[k] = labels[k] /\ labels[k].name # req[c].name
      BY <1>5, <2>2, UpdateRenames
    <3>3. i # id /\ j # id
      BY <3>1, <3>2
    <3> QED  BY <3>2, <3>3 DEF NamesUnique
  <2> QED  BY <2>1, <2>2
<1>6. ASSUME NEW c \in Clients, Delete(c) PROVE labels'[i] = NoLabel
  <2> DEFINE id == req[c].id
  <2>1. labels'[id] = NoLabel /\ \A k \in Ids : k # id => labels'[k] = labels[k]
    BY <1>6, DeleteRemoves
  <2>2. CASE i = id
    BY <2>1, <2>2
  <2>3. CASE i # id /\ j = id
    BY <1>2, <2>1, <2>3, NoLabelHasNoName
  <2>4. CASE i # id /\ j # id
    BY <2>1, <2>4 DEF NamesUnique
  <2> QED  BY <2>2, <2>3, <2>4
<1> QED  BY <1>3, <1>4, <1>5, <1>6, LabelsMove

\* No two labels ever have the same name, for any names, requests and restarts.
THEOREM NamesStayUnique == Spec => []NamesUnique
<1>1. Init => NamesUnique
  BY DEF Init, NamesUnique
<1> QED  BY <1>1, NamesKept, TypedHolds, PTL DEF Spec

\* A label that is gone stays gone: what is made gets an id that was never used.
THEOREM GoneStaysGone == Spec => GoneForGood
<1>1. ASSUME Typed, [Next]_vars
      PROVE  [\A i \in Ids : i < nextId /\ labels[i] = NoLabel => labels'[i] = NoLabel]_vars
  <2> SUFFICES ASSUME NEW i \in Ids, i < nextId, labels[i] = NoLabel PROVE labels'[i] = NoLabel
    OBVIOUS
  <2>1. i # nextId
    BY <1>1, LabelsAssumption DEF Typed, TypeOK, Ids
  <2>2. ASSUME NEW name \in Names, NEW builtin \in BOOLEAN, Insert(name, builtin) PROVE labels'[i] = NoLabel
    <3>1. labels'[i] = labels[i]
      BY <1>1, <2>1, <2>2, InsertAdds
    <3> QED  BY <3>1
  <2>3. ASSUME NEW c \in Clients, Update(c) PROVE labels'[i] = NoLabel
    BY <1>1, <2>3, UpdateRenames DEF Exists
  <2>4. ASSUME NEW c \in Clients, Delete(c) PROVE labels'[i] = NoLabel
    BY <1>1, <2>4, DeleteRemoves
  <2> QED  BY <1>1, <2>2, <2>3, <2>4, LabelsMove
<1> QED  BY <1>1, TypedHolds, PTL DEF Spec, GoneForGood

\* A request that may rename or delete is for a label that is not built in, and
\* whatever the others do in between, it stays so: no label becomes built in.
LEMMA ClearedKept == Typed /\ Fresh /\ Cleared /\ [Next]_vars => Cleared'
<1> SUFFICES ASSUME Typed, Fresh, Cleared, [Next]_vars PROVE Cleared'
  OBVIOUS
<1>1. labels \in [Ids -> Label \cup {NoLabel}] /\ nextId \in Nat /\ req \in [Clients -> Request]
  BY LabelsAssumption DEF Typed, TypeOK
<1>2. ASSUME NEW i \in Ids, i < nextId, ~labels[i].builtin PROVE ~labels'[i].builtin
  <2>1. i # nextId
    BY <1>1, <1>2, LabelsAssumption DEF Ids
  <2>2. ASSUME NEW name \in Names, NEW builtin \in BOOLEAN, Insert(name, builtin) PROVE ~labels'[i].builtin
    <3>1. labels'[i] = labels[i]
      BY <2>1, <2>2, InsertAdds
    <3> QED  BY <1>2, <3>1
  <2>3. ASSUME NEW c \in Clients, Update(c) PROVE ~labels'[i].builtin
    <3> DEFINE id == req[c].id
    <3>1. CASE labels' = labels
      BY <1>2, <3>1
    <3>2. CASE labels' # labels
      <4>1. labels'[id] = [name |-> req[c].name, builtin |-> labels[id].builtin]
        BY <2>3, <3>2, UpdateRenames
      <4>2. \A k \in Ids : k # id => labels'[k] = labels[k]
        BY <2>3, <3>2, UpdateRenames
      <4> QED  BY <1>2, <4>1, <4>2
    <3> QED  BY <3>1, <3>2
  <2>4. ASSUME NEW c \in Clients, Delete(c) PROVE ~labels'[i].builtin
    BY <1>2, <2>4, DeleteRemoves, NoLabelHasNoName
  <2> QED  BY <1>2, <2>2, <2>3, <2>4, LabelsMove
<1>3. ASSUME NEW c \in Clients, Changing(req[c]) PROVE ~labels'[req[c].id].builtin
  <2>1. req[c].id \in Ids /\ req[c].id < nextId
    BY <1>3 DEF Typed, Requests, WellFormed, Complete, Known, Changing
  <2> QED  BY <1>2, <1>3, <2>1 DEF Cleared
<1>4. CASE req' = req
  BY <1>3, <1>4 DEF Cleared
<1>5. CASE Restart
  <2>1. req' = [c \in Clients |-> AtRest]
    BY <1>5 DEF Restart
  <2> QED  BY <2>1, AtRestWellFormed DEF Cleared
<1>6. ASSUME NEW c \in Clients, NEW r, Move(c, r) PROVE Cleared'
  <2>1. \A d \in Clients : req'[d] = IF d = c THEN r ELSE req[d]
    BY <1>1, <1>6 DEF Move
  <2>2. Changing(r) => ~labels'[r.id].builtin
    BY <1>6 DEF Move
  <2> QED  BY <1>3, <2>1, <2>2 DEF Cleared
<1>7. ASSUME NEW name \in Names, AddBuiltin(name) \/ Create(name) PROVE req' = req
  BY <1>7 DEF AddBuiltin, Create
<1>8. ASSUME UNCHANGED vars PROVE req' = req
  BY <1>8 DEF vars
<1>9. ASSUME NEW c \in Clients, Asking(c) \/ Handler(c) PROVE \E r : Move(c, r)
  BY <1>9, AskingMoves, HandlerMoves
<1> QED  BY <1>4, <1>5, <1>6, <1>7, <1>8, <1>9 DEF Next

\* No request that may rename or delete is for a built-in label.
LEMMA ClearedHolds == Spec => []Cleared
<1>1. Init => Cleared
  BY AtRestWellFormed DEF Init, Cleared
<1> QED  BY <1>1, ClearedKept, FreshHolds, TypedHolds, PTL DEF Spec

\* A built-in label is never renamed, deleted or made anew.
THEOREM BuiltinsRemain == Spec => BuiltinsStay
<1>1. ASSUME Typed, Fresh, Cleared, [Next]_vars
      PROVE  [\A i \in Ids : labels[i].builtin => labels'[i] = labels[i]]_vars
  <2> SUFFICES ASSUME NEW i \in Ids, labels[i].builtin PROVE labels'[i] = labels[i]
    OBVIOUS
  <2>1. ASSUME NEW name \in Names, NEW builtin \in BOOLEAN, Insert(name, builtin) PROVE labels'[i] = labels[i]
    <3>1. nextId \in Ids /\ \A k \in Ids : k # nextId => labels'[k] = labels[k]
      BY <1>1, <2>1, InsertAdds
    <3>2. nextId >= nextId
      BY <3>1, LabelsAssumption DEF Ids
    <3>3. ~labels[nextId].builtin
      BY <1>1, <3>1, <3>2, NoLabelHasNoName DEF Fresh
    <3> QED  BY <3>1, <3>3
  <2>2. ASSUME NEW c \in Clients, Update(c) PROVE labels'[i] = labels[i]
    BY <1>1, <2>2, UpdateRenames DEF Cleared
  <2>3. ASSUME NEW c \in Clients, Delete(c) PROVE labels'[i] = labels[i]
    BY <1>1, <2>3, DeleteRemoves DEF Cleared
  <2> QED  BY <1>1, <2>1, <2>2, <2>3, LabelsMove
<1> QED  BY <1>1, TypedHolds, FreshHolds, ClearedHolds, PTL DEF Spec, BuiltinsStay

-----------------------------------------------------------------------------
(* Labels on models.                                                       *)

\* Every step keeps the labels on models there: a label is put on a model in the
\* statement that finds it there, and taken off all in the one that deletes it.
LEMMA LabelsOnModelsKept == Typed /\ NoDangling /\ [Next]_vars => NoDangling'
<1> SUFFICES ASSUME Typed, NoDangling, [Next]_vars, NEW p \in on' PROVE labels'[p[2]] # NoLabel
  BY DEF NoDangling
<1>1. p \in Models \X Ids
  BY TypedKept DEF Typed, TypeOK
<1>2. labels \in [Ids -> Label \cup {NoLabel}]
  BY DEF Typed, TypeOK
<1>3. ASSUME NEW i \in Ids, labels[i] # NoLabel, labels'[i] = NoLabel
      PROVE  \E c \in Clients : Delete(c) /\ req[c].id = i
  <2>1. ASSUME NEW name \in Names, NEW builtin \in BOOLEAN, Insert(name, builtin) PROVE FALSE
    <3>1. labels'[nextId] = [name |-> name, builtin |-> builtin]
      BY <2>1, InsertAdds
    <3>2. labels'[nextId] # NoLabel
      BY <3>1, LabelsAssumption DEF NoLabel
    <3> QED  BY <1>3, <2>1, <3>2, InsertAdds
  <2>2. ASSUME NEW c \in Clients, Update(c) PROVE FALSE
    <3>1. labels' # labels
      BY <1>3
    <3>2. /\ labels'[req[c].id] = [name |-> req[c].name, builtin |-> labels[req[c].id].builtin]
          /\ req[c].name \in Names
          /\ \A k \in Ids : k # req[c].id => labels'[k] = labels[k]
      BY <2>2, <3>1, UpdateRenames
    <3>3. labels'[req[c].id] # NoLabel
      BY <3>2, LabelsAssumption DEF NoLabel
    <3> QED  BY <1>3, <3>2, <3>3
  <2>3. ASSUME NEW c \in Clients, Delete(c) PROVE req[c].id = i
    BY <1>3, <2>3, DeleteRemoves
  <2> QED  BY <1>3, <2>1, <2>2, <2>3, LabelsMove
<1>4. ASSUME NEW c \in Clients, LabelModels(c) PROVE labels'[p[2]] # NoLabel
  <2>1. labels' = labels
    BY <1>4 DEF LabelModels
  <2>2. CASE p \in on
    BY <2>1, <2>2 DEF NoDangling
  <2>3. CASE p \notin on
    BY <1>4, <2>1, <2>3 DEF LabelModels, Exists
  <2> QED  BY <2>2, <2>3
<1>5. ASSUME NEW c \in Clients, SetModelLabels(c) PROVE labels'[p[2]] # NoLabel
  <2>1. labels' = labels
    BY <1>5 DEF SetModelLabels
  <2>2. CASE p \in on
    BY <2>1, <2>2 DEF NoDangling
  <2>3. CASE p \notin on
    BY <1>5, <2>1, <2>3 DEF SetModelLabels, Exists
  <2> QED  BY <2>2, <2>3
<1>6. ASSUME NEW c \in Clients, Delete(c) PROVE labels'[p[2]] # NoLabel
  <2>1. p \in on /\ p[2] # req[c].id
    BY <1>6 DEF Delete
  <2> QED  BY <1>1, <1>6, <2>1, DeleteRemoves DEF NoDangling
<1>7. ASSUME on' = on, \A c \in Clients : ~Delete(c) PROVE labels'[p[2]] # NoLabel
  BY <1>1, <1>3, <1>7 DEF NoDangling
<1>8. ASSUME NEW c \in Clients,
             Find(c) \/ Check(c) \/ Update(c) \/ CreateNew(c) \/ UseNamed(c) \/ Disconnect(c) \/ Asking(c)
      PROVE  on' = on
  BY <1>8 DEF Find, Check, Update, CreateNew, UseNamed, Disconnect, Asking, AskUpdate, AskDelete, AskBulk, AskSet
<1>9. ASSUME NEW name \in Names, AddBuiltin(name) \/ Create(name) PROVE on' = on
  BY <1>9 DEF AddBuiltin, Create
<1>10. ASSUME Restart \/ UNCHANGED vars PROVE on' = on
  BY <1>10 DEF Restart, vars
<1> QED  BY <1>4, <1>5, <1>6, <1>7, <1>8, <1>9, <1>10, StepKinds

\* A model never has a label that doesn't exist.
THEOREM NothingDangles == Spec => []NoDangling
<1>1. Init => NoDangling
  BY DEF Init, NoDangling
<1> QED  BY <1>1, LabelsOnModelsKept, TypedHolds, PTL DEF Spec
=============================================================================
