----------------------------- MODULE ModelsPage -----------------------------
(***************************************************************************)
(* The list of models in somebody's browser: its filters, order and pages, *)
(* which the page's links carry in their addresses, and the watcher in the *)
(* footer, which has the list read again when the state it shows changes.  *)
(*                                                                         *)
(* Models are numbers, in the order of their names.  A filter is whatever  *)
(* keeps some models: a search, a capability, a label, a time unused.  Of  *)
(* the sortable columns there are one whose value isn't always known       *)
(* (used), one with ties (size) and the name.                              *)
(***************************************************************************)
EXTENDS Integers, FiniteSets, Sequences

CONSTANTS
    Models,
    Filters,
    Keeps,          \* Keeps[f]: the models that pass the filter f
    Invalid,        \* filters no page offers, such as a time not among the choices
    SizeOf,         \* SizeOf[m]
    PageSize,
    None,
    MaxChanges      \* bound: changes made elsewhere

\* What the constants are taken to be.
ModelsPageAssumption ==
    /\ Models \subseteq Nat /\ IsFiniteSet(Models)
    /\ Keeps \in [Filters -> SUBSET Models]
    /\ Invalid \cap Filters = {}
    /\ SizeOf \in [Models -> Nat]
    /\ PageSize \in Nat \ {0}
    /\ MaxChanges \in Nat
    /\ None \notin {"name", "size", "used", "asc", "desc"}

VARIABLES
    installed,      \* what Ollama lists
    loaded,         \* what is in memory
    lastUsed,       \* lastUsed[m]: when m was last used; 0 if never seen to be
    reachable,      \* whether Ollama answers
    changes,        \* changes so far: the clock of lastUsed
    page,           \* the list in the browser
    seen,           \* the watcher's fingerprint; None before its first answer
    pending,        \* "state-changed" was fired, the list is yet to be read again
    trail           \* history: the models shown since the first page, following
                    \* Next while nothing changed; None if not on such a walk

vars == <<installed, loaded, lastUsed, reachable, changes, page, seen, pending, trail>>

-----------------------------------------------------------------------------
\* Addresses and what they stand for.

SortKeys == {"name", "size", "used"}

Address == [filters : SUBSET (Filters \cup Invalid), sort : SortKeys \cup {None},
            dir : {"asc", "desc", None}, page : Int]
State   == [filters : SUBSET Filters, sort : SortKeys, desc : BOOLEAN, page : Nat \ {0}]

ParseListState(a) ==
    [filters |-> a.filters \ Invalid,
     sort    |-> IF a.sort = None THEN "used" ELSE a.sort,
     desc    |-> a.sort = None \/ a.dir = "desc",
     page    |-> IF a.page > 0 THEN a.page ELSE 1]

IsDefaultSort(st) == st.sort = "used" /\ st.desc
Dir(st) == IF st.desc THEN "desc" ELSE "asc"

\* What is as by default is left out; a page of 0 is none.
URL(st) ==
    [filters |-> st.filters,
     sort    |-> IF IsDefaultSort(st) THEN None ELSE st.sort,
     dir     |-> IF IsDefaultSort(st) THEN None ELSE Dir(st),
     page    |-> IF st.page > 1 THEN st.page ELSE 0]

\* The link of a column: the other way round if it is the active one.
Header(st, key) ==
    URL([st EXCEPT !.page = 1, !.sort = key,
                   !.desc = IF st.sort = key THEN ~st.desc ELSE key # "name"])

-----------------------------------------------------------------------------
\* handleModels.

Matching(models, st) == {m \in models : \A f \in st.filters : m \in Keeps[f]}

\* used is when each model was last used.
Known(key, used, m) == key = "size" \/ used[m] > 0
Value(key, used, m) == IF key = "size" THEN SizeOf[m] ELSE used[m]

\* Unknown values last, whichever way; ties by name.
Before(key, desc, used, a, b) ==
    IF key = "name" THEN IF desc THEN b < a ELSE a < b
    ELSE IF Known(key, used, a) # Known(key, used, b) THEN Known(key, used, a)
    ELSE IF Known(key, used, a) /\ Value(key, used, a) # Value(key, used, b)
         THEN (Value(key, used, b) < Value(key, used, a)) <=> desc
    ELSE a < b

\* The model that has so many before it.
Place(models, key, desc, used, m) == Cardinality({k \in models : Before(key, desc, used, k, m)})
SortModels(models, key, desc, used) ==
    [i \in 1..Cardinality(models) |-> CHOOSE m \in models : Place(models, key, desc, used, m) = i - 1]

TotalPagesBug(n) == IF n < PageSize THEN 1 ELSE n \div PageSize
TotalPages(n) == IF n = 0 THEN 1 ELSE (n + PageSize - 1) \div PageSize
Least(a, b)   == IF a < b THEN a ELSE b

\* What the watcher's fingerprint stands for.
Fingerprint == <<loaded, lastUsed>>

\* A page past the last is the last.  A failure to list the models leaves
\* nothing but the error: no links, and no address to read it again from.
Render(st) ==
    LET all   == SortModels(Matching(installed, st), st.sort, st.desc, lastUsed)
        pages == TotalPages(Len(all))
        p     == Least(st.page, pages)
    IN IF reachable
       THEN [error |-> FALSE, st |-> [st EXCEPT !.page = p],
             rows |-> SubSeq(all, (p - 1) * PageSize + 1, Least(p * PageSize, Len(all))),
             more |-> p < pages]
       ELSE [error |-> TRUE, st |-> st, rows |-> <<>>, more |-> FALSE]

Show(st) == page' = Render(st)

-----------------------------------------------------------------------------
TypeOK ==
    /\ installed \subseteq Models
    /\ loaded \subseteq installed
    /\ lastUsed \in [Models -> 0..MaxChanges]
    /\ reachable \in BOOLEAN
    /\ changes \in 0..MaxChanges
    /\ page.error \in BOOLEAN /\ page.st \in State /\ page.more \in BOOLEAN
    /\ Len(page.rows) <= PageSize
    /\ seen # None => seen \in (SUBSET Models) \X [Models -> 0..MaxChanges]
    /\ pending \in BOOLEAN

Default == [filters |-> {}, sort |-> "used", desc |-> TRUE, page |-> 1]

Init ==
    /\ installed = Models
    /\ loaded = {}
    /\ lastUsed = [m \in Models |-> 0]
    /\ reachable = TRUE
    /\ changes = 0
    /\ page = Render(Default)
    /\ seen = None
    /\ pending = FALSE
    /\ trail = page.rows

-----------------------------------------------------------------------------
\* The browser.

Elsewhere == <<installed, loaded, lastUsed, reachable, changes>>

StartTrail == trail' = IF page'.st.page = 1 /\ ~page'.error THEN page'.rows ELSE None

\* An address that was typed, kept or linked to from elsewhere: a new page.
Visit(a) ==
    /\ Show(ParseListState(a))
    /\ seen' = None
    /\ pending' = FALSE
    /\ StartTrail
    /\ UNCHANGED Elsewhere

\* A link of the list only replaces the list.
Swap(a) ==
    /\ Show(ParseListState(a))
    /\ UNCHANGED <<seen, pending>> /\ UNCHANGED Elsewhere

Follow(a) == ~page.error /\ Swap(a)

NextPage ==
    /\ page.more
    /\ Follow(URL([page.st EXCEPT !.page = @ + 1]))
    /\ trail' = IF trail = None \/ page'.error THEN None ELSE trail \o page'.rows

PrevPage == page.st.page > 1 /\ Follow(URL([page.st EXCEPT !.page = @ - 1])) /\ StartTrail
Sort(key) == Follow(Header(page.st, key)) /\ StartTrail

\* The filter form, which is there whatever became of the list, keeps the order
\* and not the page.
Filter(fs) == Swap(URL([page.st EXCEPT !.filters = fs, !.page = 1])) /\ StartTrail

-----------------------------------------------------------------------------
\* The watcher.  Its first answer says nothing but what it has seen.
Poll ==
    /\ reachable
    /\ seen # Fingerprint
    /\ pending' = (pending \/ seen # None)
    /\ seen' = Fingerprint
    /\ UNCHANGED <<page, trail>> /\ UNCHANGED Elsewhere

\* The list listens only if it has an address to read itself again from.
Refresh ==
    /\ pending
    /\ pending' = FALSE
    /\ IF page.error THEN UNCHANGED page ELSE Show(ParseListState(URL(page.st)))
    /\ trail' = IF page'.st.page = 1 /\ ~page'.error THEN page'.rows ELSE None
    /\ UNCHANGED seen /\ UNCHANGED Elsewhere

-----------------------------------------------------------------------------
\* Changes made elsewhere.

Change == changes < MaxChanges /\ changes' = changes + 1 /\ trail' = None

Use(m) ==
    /\ Change
    /\ m \in installed
    /\ loaded' = loaded \cup {m}
    /\ lastUsed' = [lastUsed EXCEPT ![m] = changes']
    /\ UNCHANGED <<installed, reachable, page, seen, pending>>

\* Loaded or unloaded, without the tracker having noticed a use.
Load(m) ==
    /\ Change
    /\ m \in installed
    /\ loaded' = IF m \in loaded THEN loaded \ {m} ELSE loaded \cup {m}
    /\ UNCHANGED <<installed, lastUsed, reachable, page, seen, pending>>

Install(m) ==
    /\ Change
    /\ installed' = IF m \in installed THEN installed \ {m} ELSE installed \cup {m}
    /\ loaded' = loaded \ {m}
    /\ UNCHANGED <<lastUsed, reachable, page, seen, pending>>

Outage ==
    /\ Change
    /\ reachable' = ~reachable
    /\ UNCHANGED <<installed, loaded, lastUsed, page, seen, pending>>

-----------------------------------------------------------------------------
Addresses ==
    [filters : {{}, Filters \cup Invalid}, sort : {None}, dir : {None, "asc"}, page : {-1, 1, 2, 9}]

Next ==
    \/ \E a \in Addresses : Visit(a)
    \/ NextPage \/ PrevPage
    \/ \E key \in SortKeys : Sort(key)
    \/ \E fs \in SUBSET Filters : Filter(fs)
    \/ Poll \/ Refresh
    \/ \E m \in Models : Use(m) \/ Load(m) \/ Install(m)
    \/ Outage

Spec == Init /\ [][Next]_vars

-----------------------------------------------------------------------------
(* Properties.                                                             *)

\* Who follows Next from the first page, while nothing changes, is shown models
\* that match, in one order across the pages and so none twice, and by the last
\* page every one of them (handlers_models.go: handleModels; models_sort.go: URL,
\* sortModels).
SeenOnce ==
    trail # None =>
        /\ \A i, j \in DOMAIN trail : i < j =>
               Before(page.st.sort, page.st.desc, lastUsed, trail[i], trail[j])
        /\ LET shown == {trail[i] : i \in DOMAIN trail}
               all   == Matching(installed, page.st)
           IN shown \subseteq all /\ (page.more \/ shown = all)

\* An event of the watcher finds a list that listens: "a state-changed event that
\* the page's views listen for to re-fetch themselves" (handlers_state.go).
EventIsHeard == pending /\ reachable => ~page.error
=============================================================================
