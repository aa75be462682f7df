--------------------------- MODULE LibraryClient ---------------------------
(***************************************************************************)
(* The client for ollama.com: pages read through a cache, the record of    *)
(* whether browsing works, and the check of it every few hours.            *)
(*                                                                         *)
(* Time passes in ticks of the searches' time to live.  Nothing keeps a    *)
(* time of day: an answer in the cache keeps how long it has left (life)   *)
(* and a request how long ago it began (age), so the clock is unbounded.   *)
(* A request is given 15 seconds, so one tick at most passes meanwhile.    *)
(***************************************************************************)
EXTENDS Integers, FiniteSets, Functions

CONSTANTS
    Visitors,       \* requests people make
    Checker,        \* WatchHealth's goroutine
    First, Second,  \* the library's first page and the next
    Tags,           \* a model's tags
    Unknown,        \* the tags of a model that doesn't exist
    Serves,         \* Serves[p]: what reading p may give (site[p])
    TTL,            \* TTL[p]: ticks an answer is kept
    CheckEvery,     \* ticks from one check to the next
    MaxCached,
    None            \* no page

Searches == {First, Second}
Pages    == Searches \cup {Tags, Unknown}
Cached   == Searches \cup {Tags}
Readers  == Visitors \cup {Checker}
Contents == {"good", "bare", "bad", "down", "missing"}

ASSUME LibraryAssumption ==
    /\ Checker \notin Visitors
    /\ Serves \in [Pages -> SUBSET Contents \ {{}}]
    /\ Serves[Unknown] = {"missing"}
    /\ TTL \in [Cached -> Nat \ {0}]
    /\ CheckEvery \in Nat \ {0}
    /\ MaxCached \in Nat \ {0}
    /\ None \notin Pages

VARIABLES
    site,       \* site[p]: what reading p gives now
    cache,      \* the pages kept
    broken,     \* whether browsing ollama.com fails (Health)
    req,        \* req[r]: the request r has under way
    check,      \* WatchHealth: how far it is
    met         \* history: somebody who waited for a page couldn't read it

vars == <<site, cache, broken, req, check, met>>

-----------------------------------------------------------------------------
\* A page that loaded, readable or not, is kept; anything else is an error.
\* "bare" are results with nothing but their names: no error, but not healthy.
Loaded(a) == a \in {"good", "bare", "bad"}
Failed(a) == a \in {"bad", "down", "missing"}

\* What born adds is history: ticks since the site gave the answer.
Entry   == [body : {"good", "bare", "bad"}, life : Int, born : Nat]
Request == [step : {"rest", "fetch", "store", "record"}, page : Pages \cup {None},
            age : 0..1, got : Contents, over : BOOLEAN, born : 0..1]
AtRest  == [step |-> "rest", page |-> None, age |-> 0, got |-> "good", over |-> FALSE, born |-> 0]

TypeOK ==
    /\ site \in [Pages -> Contents]
    /\ DOMAIN cache \subseteq Cached
    /\ Cardinality(DOMAIN cache) <= MaxCached
    /\ \A p \in DOMAIN cache : cache[p] \in Entry /\ cache[p].life <= TTL[p]
    /\ broken \in BOOLEAN
    /\ req \in [Readers -> Request]
    /\ check \in [stage : {"idle", "first", "second", "tags"}, due : 0..CheckEvery,
                  late : BOOLEAN, bare : BOOLEAN]
    /\ met \in BOOLEAN

Init ==
    /\ site \in {s \in [Pages -> Contents] : \A p \in Pages : s[p] \in Serves[p]}
    /\ cache = [p \in {} |-> None]
    /\ broken = FALSE
    /\ req = [r \in Readers |-> AtRest]
    /\ check = [stage |-> "idle", due |-> 0, late |-> FALSE, bare |-> FALSE]
    /\ met = FALSE

-----------------------------------------------------------------------------
\* A read of a page: the cache, the request, the cache again, the record.

\* The look in the cache; a page found there needs no request.
Look(p) == p \in DOMAIN cache /\ cache[p].life > 0

Reading(p) ==
    IF Look(p) THEN [AtRest EXCEPT !.step = "record", !.page = p, !.got = cache[p].body]
    ELSE [AtRest EXCEPT !.step = "fetch", !.page = p]

Ask(v, p) ==
    /\ req[v].step = "rest"
    /\ req' = [req EXCEPT ![v] = Reading(p)]
    /\ UNCHANGED <<site, cache, broken, check, met>>

\* The answer.  One whose context has ended is an error, whatever the site.
Fetch(r) ==
    /\ req[r].step = "fetch"
    /\ LET a == IF req[r].over THEN "down" ELSE site[req[r].page]
       IN /\ req' = [req EXCEPT ![r].got = a, ![r].step = IF Loaded(a) THEN "store" ELSE "record"]
          /\ met' = (met \/ (~req[r].over /\ a \in {"bare", "bad", "down"}))
    /\ UNCHANGED <<site, cache, broken, check>>

\* With the cache full, what had expired when the request began is dropped,
\* and all of it when that isn't enough.
RoomBug(r) ==
    IF Cardinality(DOMAIN cache) < MaxCached THEN cache
    ELSE Restrict(cache, {p \in DOMAIN cache : cache[p].life + req[r].age >= 0})
Room(r) ==
    LET fresh == {p \in DOMAIN cache : cache[p].life + req[r].age >= 0}
    IN IF Cardinality(DOMAIN cache) < MaxCached THEN cache
       ELSE IF Cardinality(fresh) < MaxCached THEN Restrict(cache, fresh)
       ELSE [p \in {} |-> None]

\* The time to live counts from before the request was sent.
LifeBug(r) == TTL[req[r].page]
Life(r) == TTL[req[r].page] - req[r].age

StorePage(r) ==
    /\ req[r].step = "store"
    /\ LET kept == Room(r)
           e == [body |-> req[r].got, life |-> Life(r), born |-> req[r].born]
       IN cache' = [p \in DOMAIN kept \cup {req[r].page} |-> IF p = req[r].page THEN e ELSE kept[p]]
    /\ req' = [req EXCEPT ![r].step = "record"]
    /\ UNCHANGED <<site, broken, check, met>>

\* record: a request that was given up, or a page there isn't, says nothing.
RecordedBug(r) ==
    IF req[r].got = "missing" THEN broken ELSE req[r].got # "good"
RecordedOnce(r) ==
    IF req[r].over \/ req[r].got = "missing" THEN broken ELSE broken \/ req[r].got # "good"
Recorded(r) ==
    IF req[r].over \/ req[r].got = "missing" THEN broken ELSE req[r].got # "good"

Record(v) ==
    /\ req[v].step = "record"
    /\ broken' = Recorded(v)
    /\ req' = [req EXCEPT ![v] = AtRest]
    /\ UNCHANGED <<site, cache, check, met>>

\* The visitor leaves: the request's context ends.  (Between the fetch and the
\* store it makes no difference until the record.)
GiveUp(v) ==
    /\ req[v].step \in {"fetch", "record"}
    /\ ~req[v].over
    /\ req' = [req EXCEPT ![v].over = TRUE]
    /\ UNCHANGED <<site, cache, broken, check, met>>

-----------------------------------------------------------------------------
\* WatchHealth: at start and whenever the ticker says, the first page, the
\* second and the first model's tags; an error ends the check.

Start(stage, page, c) ==
    /\ check' = [c EXCEPT !.stage = stage]
    /\ req' = [req EXCEPT ![Checker] = Reading(page)]

CheckHealth ==
    /\ check.stage = "idle"
    /\ check.due = 0
    /\ Start("first", First, [check EXCEPT !.due = CheckEvery, !.late = FALSE, !.bare = FALSE])
    /\ UNCHANGED <<site, cache, broken, met>>

NextStageBug(stage, c) ==
    \/ /\ stage = "first" /\ Start("second", Second, c)
    \/ /\ stage \in {"second", "tags"}
       /\ check' = [c EXCEPT !.stage = "idle", !.late = FALSE]
       /\ req' = [req EXCEPT ![Checker] = AtRest]
NextStage(stage, c) ==
    \/ /\ stage = "first" /\ Start("second", Second, c)
    \/ /\ stage = "second" /\ Start("tags", Tags, c)
    \/ /\ stage = "tags"
       /\ check' = [c EXCEPT !.stage = "idle", !.late = FALSE]
       /\ req' = [req EXCEPT ![Checker] = AtRest]

CheckGoesOn ==
    /\ req[Checker].step = "record"
    /\ broken' = Recorded(Checker)
    /\ LET c == [check EXCEPT !.bare = @ \/ req[Checker].got = "bare"]
       IN IF Failed(req[Checker].got)
          THEN /\ check' = [c EXCEPT !.stage = "idle", !.late = FALSE]
               /\ req' = [req EXCEPT ![Checker] = AtRest]
          ELSE NextStage(check.stage, c)
    /\ UNCHANGED <<site, cache, met>>

-----------------------------------------------------------------------------
\* The sites, and time.

Change(p) ==
    /\ \E a \in Serves[p] \ {site[p]} : site' = [site EXCEPT ![p] = a]
    /\ UNCHANGED <<cache, broken, req, check, met>>

\* Once a page has expired its age no longer matters.
Older(e) == [e EXCEPT !.life = IF @ < -1 THEN @ ELSE @ - 1, !.born = IF e.life < 1 THEN 0 ELSE @ + 1]

\* A half hour: longer than any request or check takes.
Tick ==
    /\ \A r \in Readers : req[r].age = 0
    /\ ~check.late
    /\ cache' = [p \in DOMAIN cache |-> Older(cache[p])]
    /\ req' = [r \in Readers |->
                IF req[r].step = "rest" THEN req[r]
                ELSE [req[r] EXCEPT !.age = 1, !.born = IF req[r].step = "fetch" THEN 0 ELSE 1]]
    /\ check' = [check EXCEPT !.late = check.stage # "idle", !.due = IF @ = 0 THEN 0 ELSE @ - 1]
    /\ UNCHANGED <<site, broken, met>>

Step(r) == Fetch(r) \/ StorePage(r)
Visit(v) == \E p \in Pages : Ask(v, p)
VisitGoesOn(v) == Step(v) \/ Record(v)
Watch == CheckHealth \/ CheckGoesOn \/ Step(Checker)

Next ==
    \/ \E v \in Visitors : Visit(v) \/ VisitGoesOn(v) \/ GiveUp(v)
    \/ Watch
    \/ \E p \in Pages : Change(p)
    \/ Tick

Spec == Init /\ [][Next]_vars

\* Requests are answered or time out, WatchHealth goes on, and time passes.
Fairness ==
    /\ \A v \in Visitors : WF_vars(VisitGoesOn(v))
    /\ WF_vars(Watch)
    /\ WF_vars(Tick)

FairSpec == Spec /\ Fairness

-----------------------------------------------------------------------------
(* Properties.                                                             *)

\* A page is served from the cache for no longer after the site gave it than
\* its time to live, however long the request for it took (library.go: expires
\* counts from before the request).
NeverOutlived == \A p \in DOMAIN cache : cache[p].life > 0 => cache[p].life + cache[p].born <= TTL[p]

\* Browsing is called broken only if some page could really not be read:
\* visitors who leave and models that don't exist raise no alarm (health.go:
\* record).
NoFalseAlarm == broken => met

\* A page of the check that can't be read from some time on is noticed, again
\* and again, whatever the cache still holds and visitors read (health.go:
\* WatchHealth, "known to be broken before anyone tries").
OutageNoticed ==
    \A p \in Cached : <>[](site[p] \in {"bad", "down"}) => []<>broken

\* Once every page can be read again the alarm ends for good.
RecoveryNoticed ==
    (<>[]\A p \in Cached : site[p] = "good") => <>[]~broken

\* A check that found results without their details, with nobody else reading,
\* leaves browsing broken: "results missing their details count too" (health.go).
BareIsReported == check.stage = "idle" /\ check.bare => broken
=============================================================================
