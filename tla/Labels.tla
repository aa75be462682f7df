------------------------------- MODULE Labels -------------------------------
(***************************************************************************)
(* Labels for models: the tables labels and model_labels, and the handlers *)
(* that make, change, delete and give labels.  A statement (or transaction)*)
(* is a step; what a handler has found with one and uses in the next is in *)
(* its client's record.  Names are names up to case; a label's colour is   *)
(* left out, and so is the error a form shows.                             *)
(***************************************************************************)
EXTENDS Naturals

CONSTANTS
    Models,         \* models by name, up to case
    Clients,        \* requests that can be under way at once
    Names,          \* the names a label may be given
    BuiltinNames,   \* those of the built-in labels
    NoName,         \* not a name
    MaxId,          \* bound: labels ever made
    MaxRestarts     \* bound: restarts of the process

ASSUME LabelsAssumption ==
    /\ BuiltinNames \subseteq Names
    /\ NoName \notin Names
    /\ MaxId \in Nat
    /\ MaxRestarts \in Nat

VARIABLES
    labels,         \* labels[id]: the row with that id
    nextId,         \* the next id (AUTOINCREMENT: none is given out twice)
    on,             \* model_labels: pairs of a model and a label's id
    missing,        \* built-in names that the start has yet to look for
    req,            \* req[c]: the request in c's hands
    restarts

vars == <<labels, nextId, on, missing, req, restarts>>

-----------------------------------------------------------------------------
Ids     == 1..MaxId
NoLabel == [name |-> NoName, builtin |-> FALSE]
Label   == [name : Names, builtin : BOOLEAN]

Kinds == {"update", "delete", "set", "bulk"}
Steps == {"rest", "find", "check", "write", "create", "named"}

\* name is a label's new name; id the label that was asked for, or found; ids the
\* labels ticked; models those to be labelled; add whether to add or to remove.
Request ==
    [step : Steps, kind : Kinds, id : Ids \cup {0}, name : Names \cup {NoName},
     ids : SUBSET Ids, models : SUBSET Models, add : BOOLEAN]

AtRest ==
    [step |-> "rest", kind |-> "set", id |-> 0, name |-> NoName,
     ids |-> {}, models |-> {}, add |-> FALSE]

Exists(id)  == id \in Ids /\ labels[id] # NoLabel
Taken(name) == \E i \in Ids : labels[i].name = name

TypeOK ==
    /\ labels \in [Ids -> Label \cup {NoLabel}]
    /\ nextId \in 1..(MaxId + 1)
    /\ on \subseteq Models \X Ids
    /\ missing \subseteq BuiltinNames
    /\ req \in [Clients -> Request]
    /\ restarts \in 0..MaxRestarts

Init ==
    /\ labels = [i \in Ids |-> NoLabel]
    /\ nextId = 1
    /\ on = {}
    /\ missing = BuiltinNames
    /\ req = [c \in Clients |-> AtRest]
    /\ restarts = 0

-----------------------------------------------------------------------------
At(c, step) == req[c].step = step
Begin(c, r) == missing = {} /\ At(c, "rest") /\ req' = [req EXCEPT ![c] = r]
Finish(c)   == req' = [req EXCEPT ![c] = AtRest]
GoTo(c, step) == req' = [req EXCEPT ![c].step = step]

InsertBug(name, builtin) ==
    \E id \in Ids :
        /\ labels[id] = NoLabel
        /\ \A i \in Ids : i < id => labels[i] # NoLabel
        /\ labels' = [labels EXCEPT ![id] = [name |-> name, builtin |-> builtin]]
        /\ nextId' = IF id < nextId THEN nextId ELSE id + 1

\* INSERT INTO labels: the id is one that was never used.
Insert(name, builtin) ==
    /\ nextId <= MaxId
    /\ labels' = [labels EXCEPT ![nextId] = [name |-> name, builtin |-> builtin]]
    /\ nextId' = nextId + 1

\* At the start, before any request: the built-in labels whose name nobody has.
AddBuiltin(name) ==
    /\ name \in missing
    /\ missing' = missing \ {name}
    /\ IF Taken(name) THEN UNCHANGED <<labels, nextId>> ELSE Insert(name, TRUE)
    /\ UNCHANGED <<on, req, restarts>>

Restart ==
    /\ restarts < MaxRestarts
    /\ restarts' = restarts + 1
    /\ missing' = BuiltinNames
    /\ req' = [c \in Clients |-> AtRest]
    /\ UNCHANGED <<labels, nextId, on>>

\* The New label form: one statement, refused when the name is taken.
Create(name) ==
    /\ missing = {}
    /\ ~Taken(name)
    /\ Insert(name, FALSE)
    /\ UNCHANGED <<on, missing, req, restarts>>

-----------------------------------------------------------------------------
\* The Edit and Delete dialogs, and the label of a bulk request, name a label by
\* its id: the label was there when the page was shown.
AskUpdate(c, id, name) ==
    /\ id < nextId
    /\ Begin(c, [AtRest EXCEPT !.step = "find", !.kind = "update", !.id = id, !.name = name])
    /\ UNCHANGED <<labels, nextId, on, missing, restarts>>

AskDelete(c, id) ==
    /\ id < nextId
    /\ Begin(c, [AtRest EXCEPT !.step = "find", !.kind = "delete", !.id = id])
    /\ UNCHANGED <<labels, nextId, on, missing, restarts>>

AskBulk(c, id, models, add) ==
    /\ id < nextId
    /\ Begin(c, [AtRest EXCEPT !.step = "find", !.kind = "bulk", !.id = id, !.models = models, !.add = add])
    /\ UNCHANGED <<labels, nextId, on, missing, restarts>>

\* labelFromPath, or handleBulkLabel's GetLabel.
Find(c) ==
    /\ At(c, "find")
    /\ IF ~Exists(req[c].id) THEN Finish(c)
       ELSE IF req[c].kind = "bulk" THEN GoTo(c, "write") ELSE GoTo(c, "check")
    /\ UNCHANGED <<labels, nextId, on, missing, restarts>>

CheckBug(c) ==
    /\ At(c, "check")
    /\ IF Exists(req[c].id) THEN GoTo(c, "write") ELSE Finish(c)
    /\ UNCHANGED <<labels, nextId, on, missing, restarts>>

\* UpdateLabel and DeleteLabel read the label again, for whether it is built in.
Check(c) ==
    /\ At(c, "check")
    /\ IF Exists(req[c].id) /\ ~labels[req[c].id].builtin THEN GoTo(c, "write") ELSE Finish(c)
    /\ UNCHANGED <<labels, nextId, on, missing, restarts>>

UpdateBug(c) ==
    /\ At(c, "write") /\ req[c].kind = "update"
    /\ IF Exists(req[c].id)
       THEN labels' = [labels EXCEPT ![req[c].id].name = req[c].name] ELSE UNCHANGED labels
    /\ Finish(c)
    /\ UNCHANGED <<nextId, on, missing, restarts>>

\* The UPDATE finds no row, or finds the name taken by another, or renames the label.
Update(c) ==
    LET id == req[c].id IN
    /\ At(c, "write") /\ req[c].kind = "update"
    /\ IF Exists(id) /\ \A i \in Ids : i # id => labels[i].name # req[c].name
       THEN labels' = [labels EXCEPT ![id].name = req[c].name] ELSE UNCHANGED labels
    /\ Finish(c)
    /\ UNCHANGED <<nextId, on, missing, restarts>>

\* The DELETE, which takes the label off every model (ON DELETE CASCADE).
Delete(c) ==
    /\ At(c, "write") /\ req[c].kind = "delete"
    /\ labels' = [labels EXCEPT ![req[c].id] = NoLabel]
    /\ on' = {p \in on : p[2] # req[c].id}
    /\ Finish(c)
    /\ UNCHANGED <<nextId, missing, restarts>>

LabelModelsBug(c) ==
    /\ At(c, "write") /\ req[c].kind = "bulk"
    /\ on' = IF req[c].add THEN on \cup (req[c].models \X {req[c].id})
                           ELSE on \ (req[c].models \X {req[c].id})
    /\ Finish(c)
    /\ UNCHANGED <<labels, nextId, missing, restarts>>

\* A label that is gone by now is added to none.
LabelModels(c) ==
    LET pairs == req[c].models \X {req[c].id} IN
    /\ At(c, "write") /\ req[c].kind = "bulk"
    /\ on' = IF ~req[c].add THEN on \ pairs
             ELSE IF Exists(req[c].id) THEN on \cup pairs ELSE on
    /\ Finish(c)
    /\ UNCHANGED <<labels, nextId, missing, restarts>>

-----------------------------------------------------------------------------
\* The Edit labels dialog of a model: the labels ticked and perhaps a new one.
AskSet(c, m, ids, name) ==
    /\ \A i \in ids : i < nextId
    /\ Begin(c, [AtRest EXCEPT !.step = IF name = NoName THEN "write" ELSE "create",
                               !.kind = "set", !.models = {m}, !.ids = ids, !.name = name])
    /\ UNCHANGED <<labels, nextId, on, missing, restarts>>

CreateNew(c) ==
    /\ At(c, "create")
    /\ IF Taken(req[c].name)
       THEN GoTo(c, "named") /\ UNCHANGED <<labels, nextId>>
       ELSE /\ Insert(req[c].name, FALSE)
            /\ req' = [req EXCEPT ![c].ids = @ \cup {nextId}, ![c].step = "write"]
    /\ UNCHANGED <<on, missing, restarts>>

\* There already: use it (labelNamed), unless it has gone meanwhile.
UseNamed(c) ==
    /\ At(c, "named")
    /\ \/ \E i \in Ids :
              /\ labels[i].name = req[c].name
              /\ req' = [req EXCEPT ![c].ids = @ \cup {i}, ![c].step = "write"]
       \/ ~Taken(req[c].name) /\ Finish(c)
    /\ UNCHANGED <<labels, nextId, on, missing, restarts>>

SetModelLabels(c) ==
    LET models == req[c].models IN
    /\ At(c, "write") /\ req[c].kind = "set"
    /\ on' = {p \in on : p[1] \notin models} \cup (models \X {i \in req[c].ids : Exists(i)})
    /\ Finish(c)
    /\ UNCHANGED <<labels, nextId, missing, restarts>>

\* A browser that hangs up cancels the request's context.
Disconnect(c) ==
    /\ ~At(c, "rest")
    /\ Finish(c)
    /\ UNCHANGED <<labels, nextId, on, missing, restarts>>

-----------------------------------------------------------------------------
Asking(c) ==
    \/ \E id \in Ids, name \in Names : AskUpdate(c, id, name)
    \/ \E id \in Ids : AskDelete(c, id)
    \/ \E id \in Ids, models \in SUBSET Models, add \in BOOLEAN : AskBulk(c, id, models, add)
    \/ \E m \in Models, ids \in SUBSET Ids, name \in Names \cup {NoName} : AskSet(c, m, ids, name)

Handler(c) ==
    \/ Find(c) \/ Check(c) \/ Update(c) \/ Delete(c) \/ LabelModels(c)
    \/ CreateNew(c) \/ UseNamed(c) \/ SetModelLabels(c) \/ Disconnect(c)

Next ==
    \/ \E name \in Names : AddBuiltin(name) \/ Create(name)
    \/ Restart
    \/ \E c \in Clients : Asking(c) \/ Handler(c)

Spec == Init /\ [][Next]_vars

-----------------------------------------------------------------------------
\* No two labels have the same name, whatever renames, requests that make a label
\* in passing and restarts come together.
NamesUnique ==
    \A i, j \in Ids : labels[i].name = labels[j].name => i = j \/ labels[i] = NoLabel

\* A model never has a label that doesn't exist, even when the label is deleted
\* between a handler's look at it and its write.
NoDangling ==
    \A p \in on : labels[p[2]] # NoLabel

\* A label that is gone stays gone, so that a page or a handler that still knows
\* its id cannot give, change or delete another one in its place.
GoneForGood ==
    [][\A i \in Ids : i < nextId /\ labels[i] = NoLabel => labels'[i] = NoLabel]_vars

\* A built-in label is never renamed, deleted or made anew (ErrLabelBuiltin),
\* though whether it is built in is asked a statement before the write.
BuiltinsStay ==
    [][\A i \in Ids : labels[i].builtin => labels'[i] = labels[i]]_vars
=============================================================================
