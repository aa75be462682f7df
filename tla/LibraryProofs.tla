--------------------------- MODULE LibraryProofs ---------------------------
(***************************************************************************)
(* Proofs about the client for ollama.com, for any number of visitors, any *)
(* times to live, any size of the cache and any pages the site may serve:  *)
(* no answer outlives its time, and no alarm is false.                     *)
(***************************************************************************)
EXTENDS LibraryClient, FiniteSetTheorems, TLAPS

\* Every step is of one of these kinds; the proofs below go through them.
LEMMA StepKinds ==
    ASSUME [Next]_vars
    PROVE  \/ \E v \in Visitors, p \in Pages : Ask(v, p)
           \/ \E r \in Readers : Fetch(r) \/ StorePage(r)
           \/ \E v \in Visitors : Record(v) \/ GiveUp(v)
           \/ CheckHealth \/ CheckGoesOn
           \/ \E p \in Pages : Change(p)
           \/ Tick
           \/ UNCHANGED vars
BY DEF Next, Visit, VisitGoesOn, Step, Watch, Readers, vars

-----------------------------------------------------------------------------
(* What a request, an entry of the cache and the check may be.             *)

\* A request under way has its page; what it stores has loaded, which the page
\* of a model that doesn't exist never has; and its answer is no older than it.
WellFormed(r) ==
    /\ r \in Request
    /\ r.step # "rest" => r.page \in Pages
    /\ r.step = "store" => r.page \in Cached /\ r.got \in {"good", "bare", "bad"}
    /\ r.born <= r.age

\* An entry is kept for its time to live, however long its request took.
Lasting(p, e) == e \in Entry /\ e.life <= TTL[p] /\ (e.life > 0 => e.life + e.born <= TTL[p])

Sites     == site \in [Pages -> Contents] /\ \A p \in Pages : site[p] \in Serves[p]
Kept      == /\ DOMAIN cache \subseteq Cached
             /\ Cardinality(DOMAIN cache) <= MaxCached
             /\ \A p \in DOMAIN cache : Lasting(p, cache[p])
Requests  == req \in [Readers -> Request] /\ \A r \in Readers : WellFormed(req[r])
Stages    == check \in [stage : {"idle", "first", "second", "tags"}, due : 0..CheckEvery,
                        late : BOOLEAN, bare : BOOLEAN]

Typed == Sites /\ Kept /\ Requests /\ Stages /\ broken \in BOOLEAN /\ met \in BOOLEAN

\* Three pages at most are kept.
LEMMA CachedIsFinite == IsFiniteSet(Cached)
<1>1. IsFiniteSet({First}) /\ IsFiniteSet({Second}) /\ IsFiniteSet({Tags})
  BY FS_Singleton
<1>2. Cached = ({First} \cup {Second}) \cup {Tags}
  BY DEF Cached, Searches
<1>3. IsFiniteSet({First} \cup {Second})
  BY <1>1, FS_Union
<1> QED  BY <1>1, <1>2, <1>3, FS_Union

\* A request at rest is one.
LEMMA AtRestWellFormed ==
    WellFormed(AtRest) /\ AtRest \in Request /\ AtRest.step = "rest" /\ AtRest.age = 0 /\ AtRest.born = 0
BY DEF WellFormed, AtRest, Request, Contents

\* One that begins is one, whether it finds its page in the cache or not.
LEMMA ReadingWellFormed ==
    ASSUME Kept, NEW p \in Pages
    PROVE  WellFormed(Reading(p))
<1> DEFINE f == [AtRest EXCEPT !.step = "record", !.page = p, !.got = cache[p].body]
           n == [AtRest EXCEPT !.step = "fetch", !.page = p]
<1>1. WellFormed(n)
  <2>1. n \in Request /\ n.step = "fetch" /\ n.page = p /\ n.born = 0 /\ n.age = 0
    BY AtRestWellFormed DEF Request
  <2> HIDE DEF n
  <2> QED  BY <2>1 DEF WellFormed
<1>2. ASSUME Look(p) PROVE WellFormed(f)
  <2>1. cache[p].body \in Contents
    BY <1>2 DEF Look, Kept, Lasting, Entry, Contents
  <2> DEFINE body == cache[p].body
  <2>2. body \in Contents
    BY <2>1
  <2> HIDE DEF body
  <2>3. f = [AtRest EXCEPT !.step = "record", !.page = p, !.got = body]
    BY DEF body
  <2>4. f \in Request /\ f.step = "record" /\ f.page = p /\ f.born = 0 /\ f.age = 0
    <3> HIDE DEF f
    <3> QED  BY <2>2, <2>3, AtRestWellFormed DEF Request
  <2> HIDE DEF f
  <2> QED  BY <2>4 DEF WellFormed
<1>3. Reading(p) = IF Look(p) THEN f ELSE n
  BY DEF Reading
<1> HIDE DEF f, n
<1> QED  BY <1>1, <1>2, <1>3

\* One request moves, the others stay.
LEMMA OneMoves ==
    ASSUME Requests, NEW r \in Readers, NEW q, WellFormed(q), req' = [req EXCEPT ![r] = q]
    PROVE  Requests'
<1>1. req \in [Readers -> Request] /\ q \in Request
  BY DEF Requests, WellFormed
<1>2. req' \in [Readers -> Request] /\ \A s \in Readers : req'[s] = IF s = r THEN q ELSE req[s]
  BY <1>1
<1>3. \A s \in Readers : WellFormed(req'[s])
  BY <1>2 DEF Requests
<1> QED  BY <1>2, <1>3 DEF Requests, WellFormed

\* With room made there is room for one page, and what is kept is of before.
LEMMA RoomIsMade ==
    ASSUME Kept, NEW r
    PROVE  /\ DOMAIN Room(r) \subseteq DOMAIN cache
           /\ Cardinality(DOMAIN Room(r)) \in Nat /\ Cardinality(DOMAIN Room(r)) < MaxCached
           /\ \A p \in DOMAIN Room(r) : Room(r)[p] = cache[p]
<1> DEFINE fresh == {p \in DOMAIN cache : cache[p].life + req[r].age >= 0}
<1>0. MaxCached \in Nat /\ MaxCached # 0
  BY LibraryAssumption
<1>1. fresh \subseteq DOMAIN cache /\ IsFiniteSet(DOMAIN cache) /\ IsFiniteSet(fresh)
  BY CachedIsFinite, FS_Subset DEF Kept
<1>2. Cardinality(DOMAIN cache) \in Nat /\ Cardinality(fresh) \in Nat
  BY <1>1, FS_CardinalityType
<1>3. Room(r) = IF Cardinality(DOMAIN cache) < MaxCached THEN cache
                ELSE IF Cardinality(fresh) < MaxCached THEN Restrict(cache, fresh)
                ELSE [p \in {} |-> None]
  BY DEF Room
<1>4. DOMAIN Restrict(cache, fresh) = fresh /\ \A p \in fresh : Restrict(cache, fresh)[p] = cache[p]
  BY DEF Restrict
<1>5. DOMAIN [p \in {} |-> None] = {} /\ Cardinality({}) = 0
  BY FS_EmptySet
<1> HIDE DEF fresh
<1>6. CASE Cardinality(DOMAIN cache) < MaxCached
  BY <1>2, <1>3, <1>6
<1>7. CASE ~(Cardinality(DOMAIN cache) < MaxCached) /\ Cardinality(fresh) < MaxCached
  BY <1>1, <1>2, <1>3, <1>4, <1>7
<1>8. CASE ~(Cardinality(DOMAIN cache) < MaxCached) /\ ~(Cardinality(fresh) < MaxCached)
  BY <1>0, <1>3, <1>5, <1>8
<1> QED  BY <1>6, <1>7, <1>8

\* A page that is stored makes the cache no larger than it may be, and lasts no
\* longer than its time to live.
LEMMA StoreKeeps ==
    ASSUME Kept, Requests, NEW r \in Readers, StorePage(r)
    PROVE  Kept'
<1> DEFINE kept == Room(r)
           q == req[r].page
           e == [body |-> req[r].got, life |-> Life(r), born |-> req[r].born]
           D == DOMAIN kept \cup {q}
<1>1. /\ DOMAIN kept \subseteq DOMAIN cache
      /\ Cardinality(DOMAIN kept) \in Nat /\ Cardinality(DOMAIN kept) < MaxCached
      /\ \A p \in DOMAIN kept : kept[p] = cache[p]
  BY RoomIsMade
<1>2. cache' = [p \in D |-> IF p = q THEN e ELSE kept[p]]
  BY DEF StorePage
<1>3. q \in Cached /\ req[r].got \in {"good", "bare", "bad"} /\ req[r].born \in 0..1 /\ req[r].age \in 0..1
      /\ req[r].born <= req[r].age
  BY DEF StorePage, Requests, WellFormed, Request
<1>4. Lasting(q, e)
  <2>1. TTL[q] \in Nat
    BY <1>3, LibraryAssumption
  <2> QED  BY <1>3, <2>1 DEF Lasting, Entry, Life
<1> HIDE DEF kept, q, e
<1>5. Cardinality(D) <= MaxCached
  <2>1. IsFiniteSet(DOMAIN kept)
    BY <1>1, CachedIsFinite, FS_Subset DEF Kept
  <2>2. Cardinality(D) = IF q \in DOMAIN kept THEN Cardinality(DOMAIN kept) ELSE Cardinality(DOMAIN kept) + 1
    BY <2>1, FS_AddElement
  <2>3. MaxCached \in Nat
    BY LibraryAssumption
  <2> QED  BY <1>1, <2>2, <2>3
<1>6. DOMAIN cache' = D /\ D \subseteq Cached
  BY <1>1, <1>2, <1>3 DEF Kept
<1>7. ASSUME NEW p \in D PROVE Lasting(p, cache'[p])
  <2>1. CASE p = q
    BY <1>2, <1>4, <2>1
  <2>2. CASE p # q
    <3>1. p \in DOMAIN kept /\ cache'[p] = kept[p]
      BY <1>2, <2>2
    <3> QED  BY <1>1, <3>1 DEF Kept
  <2> QED  BY <2>1, <2>2
<1> HIDE DEF D
<1> QED  BY <1>5, <1>6, <1>7 DEF Kept, Lasting

\* Time makes the entries older, and takes from each as much as it adds.
LEMMA TickKeeps ==
    ASSUME Kept, Tick
    PROVE  Kept'
<1>1. cache' = [p \in DOMAIN cache |-> Older(cache[p])]
  BY DEF Tick
<1>2. ASSUME NEW p \in DOMAIN cache PROVE Lasting(p, Older(cache[p]))
  <2> DEFINE e == cache[p]
             life == IF e.life < -1 THEN e.life ELSE e.life - 1
             born == IF e.life < 1 THEN 0 ELSE e.born + 1
  <2>1. e \in Entry /\ e.life <= TTL[p] /\ (e.life > 0 => e.life + e.born <= TTL[p]) /\ TTL[p] \in Nat
    BY LibraryAssumption DEF Kept, Lasting
  <2> HIDE DEF e
  <2>2. e.life \in Int /\ e.born \in Nat
    BY <2>1 DEF Entry
  <2>3. /\ life \in Int /\ born \in Nat /\ life <= TTL[p] /\ (life > 0 => life + born <= TTL[p])
    BY <2>1, <2>2
  <2>4. Older(e) = [e EXCEPT !.life = life, !.born = born]
    BY <2>1 DEF Older
  <2> HIDE DEF life, born
  <2>5. Older(e) \in Entry /\ Older(e).life = life /\ Older(e).born = born
    BY <2>1, <2>3, <2>4 DEF Entry
  <2> QED  BY <2>3, <2>5 DEF Lasting, e
<1>3. DOMAIN cache' = DOMAIN cache /\ \A p \in DOMAIN cache : Lasting(p, cache'[p])
  BY <1>1, <1>2
<1> QED  BY <1>3 DEF Kept, Lasting

\* At first nothing is kept and nobody reads.
LEMMA InitTyped == Init => Typed
<1> SUFFICES ASSUME Init PROVE Typed
  OBVIOUS
<1>1. Sites /\ broken \in BOOLEAN /\ met \in BOOLEAN
  BY DEF Init, Sites
<1>2. Kept
  <2>1. DOMAIN cache = {} /\ Cardinality({}) = 0
    BY FS_EmptySet DEF Init
  <2> QED  BY <2>1, LibraryAssumption DEF Kept
<1>3. Requests
  BY AtRestWellFormed DEF Init, Requests, WellFormed
<1>4. Stages
  BY LibraryAssumption DEF Init, Stages
<1> QED  BY <1>1, <1>2, <1>3, <1>4 DEF Typed

\* What a request does next keeps every request well formed.
LEMMA RequestsNext ==
    ASSUME Typed, [Next]_vars
    PROVE  Requests'
<1>0. Requests /\ Kept /\ \A r \in Readers : WellFormed(req[r]) /\ req[r] \in Request
  BY DEF Typed, Requests, WellFormed
<1>1. ASSUME UNCHANGED req PROVE Requests'
  BY <1>0, <1>1 DEF Requests
<1>2. \A v \in Visitors : v \in Readers
  BY DEF Readers
<1>3. Checker \in Readers
  BY DEF Readers
<1>4. ASSUME NEW v \in Visitors, NEW p \in Pages, Ask(v, p) PROVE Requests'
  BY <1>0, <1>2, <1>4, ReadingWellFormed, OneMoves DEF Ask
<1>5. ASSUME NEW r \in Readers, Fetch(r) PROVE Requests'
  <2> DEFINE a == IF req[r].over THEN "down" ELSE site[req[r].page]
             step == IF Loaded(a) THEN "store" ELSE "record"
             q == [req[r] EXCEPT !.got = a, !.step = step]
  <2>1. req[r].page \in Pages /\ req[r].step = "fetch"
    BY <1>0, <1>5 DEF Fetch, WellFormed
  <2>2. a \in Contents
    BY <2>1 DEF Typed, Sites, Contents
  <2>3. Loaded(a) => req[r].page \in Cached /\ a \in {"good", "bare", "bad"}
    <3>1. ASSUME Loaded(a) PROVE req[r].page # Unknown
      <4>1. a = site[req[r].page] /\ a # "missing"
        BY <3>1 DEF Loaded
      <4> QED  BY <2>1, <4>1, LibraryAssumption DEF Typed, Sites
    <3> QED  BY <2>1, <3>1 DEF Loaded, Pages, Cached
  <2>4. step \in {"store", "record"} /\ (step = "store" => Loaded(a))
    OBVIOUS
  <2>5. req' = [req EXCEPT ![r] = q]
    BY <1>5 DEF Fetch
  <2> HIDE DEF a, step
  <2>6. /\ q \in Request /\ q.step = step /\ q.got = a /\ q.page = req[r].page
        /\ q.born = req[r].born /\ q.age = req[r].age
    BY <1>0, <2>2, <2>4 DEF Request
  <2> HIDE DEF q
  <2>7. WellFormed(q)
    BY <1>0, <2>1, <2>3, <2>4, <2>6 DEF WellFormed
  <2> QED  BY <1>0, <2>5, <2>7, OneMoves
<1>6. ASSUME NEW r \in Readers, StorePage(r) PROVE Requests'
  <2> DEFINE q == [req[r] EXCEPT !.step = "record"]
  <2>1. WellFormed(q)
    BY <1>0, <1>6 DEF StorePage, WellFormed, Request
  <2>2. req' = [req EXCEPT ![r] = q]
    BY <1>6 DEF StorePage
  <2> HIDE DEF q
  <2> QED  BY <1>0, <2>1, <2>2, OneMoves
<1>7. ASSUME NEW v \in Visitors, Record(v) PROVE Requests'
  BY <1>0, <1>2, <1>7, AtRestWellFormed, OneMoves DEF Record
<1>8. ASSUME NEW v \in Visitors, GiveUp(v) PROVE Requests'
  <2> DEFINE q == [req[v] EXCEPT !.over = TRUE]
  <2>1. WellFormed(q)
    BY <1>0, <1>2 DEF WellFormed, Request
  <2>2. req' = [req EXCEPT ![v] = q]
    BY <1>8 DEF GiveUp
  <2> HIDE DEF q
  <2> QED  BY <1>0, <1>2, <2>1, <2>2, OneMoves
<1>9. ASSUME CheckHealth \/ CheckGoesOn PROVE Requests'
  <2>1. \/ \E p \in Pages : req' = [req EXCEPT ![Checker] = Reading(p)]
        \/ req' = [req EXCEPT ![Checker] = AtRest]
    BY <1>9 DEF CheckHealth, CheckGoesOn, NextStage, Start, Pages, Searches
  <2> QED  BY <1>0, <1>3, <2>1, AtRestWellFormed, ReadingWellFormed, OneMoves
<1>10. ASSUME Tick PROVE Requests'
  <2>1. ASSUME NEW r \in Readers
        PROVE  /\ WellFormed(req[r])
               /\ WellFormed([req[r] EXCEPT !.age = 1, !.born = IF req[r].step = "fetch" THEN 0 ELSE 1])
    <3> DEFINE born == IF req[r].step = "fetch" THEN 0 ELSE 1
               q == [req[r] EXCEPT !.age = 1, !.born = born]
    <3>0. req[r] \in Request
      BY <1>0
    <3>1. born \in {0, 1} /\ born \in 0..1 /\ born <= 1 /\ 1 \in 0..1
      OBVIOUS
    <3> HIDE DEF born
    <3>2. /\ q \in Request /\ q.step = req[r].step /\ q.page = req[r].page /\ q.got = req[r].got
          /\ q.born = born /\ q.age = 1
      BY <3>0, <3>1 DEF Request
    <3> HIDE DEF q
    <3>3. WellFormed(q)
      BY <1>0, <3>1, <3>2 DEF WellFormed
    <3> QED  BY <1>0, <3>3 DEF q, born
  <2>2. \A r \in Readers : WellFormed(req'[r])
    BY <1>10, <2>1 DEF Tick
  <2>3. req' \in [Readers -> Request]
    <3>1. \A r \in Readers : req'[r] \in Request
      BY <2>2 DEF WellFormed
    <3> QED  BY <1>10, <3>1 DEF Tick
  <2> QED  BY <2>2, <2>3 DEF Requests, WellFormed
<1> QED  BY <1>1, <1>4, <1>5, <1>6, <1>7, <1>8, <1>9, <1>10, StepKinds DEF Change, vars

\* Every step keeps the types.
LEMMA NextTyped == Typed /\ [Next]_vars => Typed'
<1> SUFFICES ASSUME Typed, [Next]_vars PROVE Typed'
  OBVIOUS
<1>0. Sites /\ Kept /\ Requests /\ Stages /\ broken \in BOOLEAN /\ met \in BOOLEAN
  BY DEF Typed
<1>1. Requests'
  BY RequestsNext
<1>2. ASSUME UNCHANGED cache PROVE Kept'
  BY <1>0, <1>2 DEF Kept, Lasting
<1>3. Kept'
  <2>1. ASSUME NEW r \in Readers, StorePage(r) PROVE Kept'
    BY <1>0, <2>1, StoreKeeps
  <2>2. ASSUME Tick PROVE Kept'
    BY <1>0, <2>2, TickKeeps
  <2> QED  BY <1>2, <2>1, <2>2, StepKinds DEF Ask, Fetch, Record, GiveUp, CheckHealth, CheckGoesOn, Change, vars
<1>4. Sites'
  <2>1. ASSUME NEW p \in Pages, Change(p) PROVE Sites'
    BY <1>0, <2>1, LibraryAssumption DEF Change, Sites
  <2>2. ASSUME UNCHANGED site PROVE Sites'
    BY <1>0, <2>2 DEF Sites
  <2> QED  BY <2>1, <2>2, StepKinds DEF Ask, Fetch, StorePage, Record, GiveUp, CheckHealth, CheckGoesOn, Tick, vars
<1>5. Stages'
  <2>0. CheckEvery \in Nat /\ check.bare \in BOOLEAN
    BY <1>0, LibraryAssumption DEF Stages
  <2>1. ASSUME UNCHANGED check PROVE Stages'
    BY <1>0, <2>1 DEF Stages
  <2>2. ASSUME CheckHealth PROVE Stages'
    <3>1. check' = [[check EXCEPT !.due = CheckEvery, !.late = FALSE, !.bare = FALSE] EXCEPT !.stage = "first"]
      BY <2>2 DEF CheckHealth, Start
    <3>2. CheckEvery \in 0..CheckEvery
      BY <2>0
    <3> QED  BY <1>0, <3>1, <3>2 DEF Stages
  <2>3. ASSUME CheckGoesOn PROVE Stages'
    <3> DEFINE bare == check.bare \/ req[Checker].got = "bare"
               c == [check EXCEPT !.bare = bare]
    <3>1. \/ check' = [c EXCEPT !.stage = "idle", !.late = FALSE]
          \/ check' = [c EXCEPT !.stage = "second"]
          \/ check' = [c EXCEPT !.stage = "tags"]
      BY <2>3 DEF CheckGoesOn, NextStage, Start
    <3>2. bare \in BOOLEAN
      BY <2>0
    <3> HIDE DEF bare
    <3> QED  BY <1>0, <3>1, <3>2 DEF Stages
  <2>4. ASSUME Tick PROVE Stages'
    <3> DEFINE late == check.stage # "idle"
               due == IF check.due = 0 THEN 0 ELSE check.due - 1
    <3>1. late \in BOOLEAN /\ due \in 0..CheckEvery
      BY <1>0, <2>0 DEF Stages
    <3>2. check' = [check EXCEPT !.late = late, !.due = due]
      BY <1>0, <2>4 DEF Tick, Stages
    <3> HIDE DEF late, due
    <3> QED  BY <1>0, <3>1, <3>2 DEF Stages
  <2> QED  BY <2>1, <2>2, <2>3, <2>4, StepKinds DEF Ask, Fetch, StorePage, Record, GiveUp, Change, vars
<1>6. broken' \in BOOLEAN
  <2>1. \A r \in Readers : Recorded(r) \in BOOLEAN
    BY <1>0 DEF Recorded
  <2> QED  BY <1>0, <2>1, StepKinds
           DEF Readers, Ask, Fetch, StorePage, Record, GiveUp, CheckHealth, CheckGoesOn, Change, Tick, vars
<1>7. met' \in BOOLEAN
  <2>1. ASSUME NEW r \in Readers, Fetch(r) PROVE met' \in BOOLEAN
    <3> DEFINE a == IF req[r].over THEN "down" ELSE site[req[r].page]
               seen == ~req[r].over /\ a \in {"bare", "bad", "down"}
    <3>1. met' = (met \/ seen)
      BY <2>1 DEF Fetch
    <3> HIDE DEF seen
    <3> QED  BY <3>1
  <2> QED  BY <1>0, <2>1, StepKinds
           DEF Ask, StorePage, Record, GiveUp, CheckHealth, CheckGoesOn, Change, Tick, vars
<1> QED  BY <1>1, <1>3, <1>4, <1>5, <1>6, <1>7 DEF Typed

\* Every variable keeps its type, and the cache its size.
THEOREM TypeCorrect == Spec => []TypeOK
<1>1. Spec => []Typed
  BY InitTyped, NextTyped, PTL DEF Spec
<1>2. Typed => TypeOK
  BY DEF Typed, TypeOK, Sites, Kept, Lasting, Requests, Stages
<1> QED  BY <1>1, <1>2, PTL

\* No answer is served after its time to live, counted from when the site gave
\* it, however long the request took and however late it was stored.
THEOREM AnswersExpire == Spec => []NeverOutlived
<1>1. Spec => []Typed
  BY InitTyped, NextTyped, PTL DEF Spec
<1>2. Typed => NeverOutlived
  BY DEF Typed, Kept, Lasting, NeverOutlived
<1> QED  BY <1>1, <1>2, PTL

-----------------------------------------------------------------------------
(* Alarms.  What a request has got or an entry holds that counts as broken  *)
(* was met by somebody who waited for it.                                  *)

\* r will raise an alarm only if somebody has met what it is about.
Founded(r, m) ==
    /\ r.step \in {"store", "record"} /\ r.got \in {"bare", "bad"} => m
    /\ r.step = "record" /\ r.got = "down" /\ ~r.over => m

\* So does the cache, and so did those before.
Grounded ==
    /\ \A r \in Readers : Founded(req[r], met)
    /\ \A p \in DOMAIN cache : cache[p].body \in {"bare", "bad"} => met
    /\ NoFalseAlarm

\* A request at rest raises none, nor does one that finds what others met.
LEMMA ReadingFounded ==
    ASSUME Typed, Grounded, NEW p
    PROVE  Founded(AtRest, met) /\ Founded(Reading(p), met)
<1>1. Founded(AtRest, met)
  BY DEF Founded, AtRest
<1>2. CASE Look(p)
  <2> DEFINE f == [AtRest EXCEPT !.step = "record", !.page = p, !.got = cache[p].body]
  <2>1. p \in DOMAIN cache /\ cache[p].body \in {"good", "bare", "bad"} /\ (cache[p].body \in {"bare", "bad"} => met)
    BY <1>2 DEF Look, Typed, Kept, Lasting, Entry, Grounded
  <2>2. f.got = cache[p].body
    BY DEF AtRest
  <2>3. Reading(p) = f
    BY <1>2 DEF Reading
  <2> HIDE DEF f
  <2> QED  BY <1>1, <2>1, <2>2, <2>3 DEF Founded
<1>3. CASE ~Look(p)
  <2> DEFINE n == [AtRest EXCEPT !.step = "fetch", !.page = p]
  <2>1. Reading(p) = n /\ n.step = "fetch"
    BY <1>3 DEF Reading, AtRest
  <2> HIDE DEF n
  <2> QED  BY <1>1, <2>1 DEF Founded
<1> QED  BY <1>1, <1>2, <1>3

\* A record of what is founded is.
LEMMA RecordFounded ==
    ASSUME Typed, Grounded, NEW r \in Readers, req[r].step = "record"
    PROVE  Recorded(r) => met
<1>1. req[r].got \in Contents /\ Founded(req[r], met) /\ (broken => met)
  BY DEF Typed, Requests, Request, Grounded, NoFalseAlarm
<1> QED  BY <1>1 DEF Recorded, Founded, Contents

\* No step raises an alarm that nobody has met with.
LEMMA GroundedNext == Typed /\ Grounded /\ [Next]_vars => Grounded'
<1> SUFFICES ASSUME Typed, Grounded, [Next]_vars PROVE Grounded'
  OBVIOUS
<1>0. /\ req \in [Readers -> Request] /\ (\A r \in Readers : req[r] \in Request /\ Founded(req[r], met))
      /\ (\A p \in DOMAIN cache : cache[p].body \in {"bare", "bad"} => met) /\ (broken => met)
      /\ met \in BOOLEAN /\ Kept
  BY DEF Typed, Requests, Grounded, NoFalseAlarm
<1>1. ASSUME NEW r \in Readers, NEW q, Founded(q, met'), met => met', UNCHANGED cache, broken' => met',
             req' = [req EXCEPT ![r] = q]
      PROVE  Grounded'
  <2>1. ASSUME NEW s \in Readers PROVE Founded(req'[s], met')
    <3>1. req'[s] = q \/ req'[s] = req[s]
      BY <1>0, <1>1
    <3> QED  BY <1>0, <1>1, <3>1 DEF Founded
  <2>2. ASSUME NEW p \in DOMAIN cache' PROVE cache'[p].body \in {"bare", "bad"} => met'
    BY <1>0, <1>1
  <2> QED  BY <1>1, <2>1, <2>2 DEF Grounded, NoFalseAlarm
<1>2. \A v \in Visitors : v \in Readers
  BY DEF Readers
<1>3. ASSUME NEW v \in Visitors, NEW p \in Pages, Ask(v, p) PROVE Grounded'
  <2>1. met' = met /\ broken' = broken /\ UNCHANGED cache /\ req' = [req EXCEPT ![v] = Reading(p)]
    BY <1>3 DEF Ask
  <2>2. Founded(Reading(p), met')
    BY <2>1, ReadingFounded
  <2> QED  BY <1>0, <1>1, <1>2, <2>1, <2>2
<1>4. ASSUME NEW r \in Readers, Fetch(r) PROVE Grounded'
  <2> DEFINE a == IF req[r].over THEN "down" ELSE site[req[r].page]
             step == IF Loaded(a) THEN "store" ELSE "record"
             q == [req[r] EXCEPT !.got = a, !.step = step]
             seen == ~req[r].over /\ a \in {"bare", "bad", "down"}
  <2>1. met' = (met \/ seen) /\ broken' = broken /\ UNCHANGED cache /\ req' = [req EXCEPT ![r] = q]
    BY <1>4 DEF Fetch
  <2>2. (a \in {"bare", "bad"} => seen) /\ (a = "down" /\ ~req[r].over => seen)
    OBVIOUS
  <2> HIDE DEF a, step, seen
  <2>3. q.got = a /\ q.over = req[r].over
    BY <1>0 DEF Request
  <2> HIDE DEF q
  <2>4. Founded(q, met')
    BY <2>1, <2>2, <2>3 DEF Founded
  <2>5. met => met'
    BY <2>1
  <2>6. broken' => met'
    BY <1>0, <2>1
  <2> QED  BY <1>1, <2>1, <2>4, <2>5, <2>6
<1>5. ASSUME NEW r \in Readers, StorePage(r) PROVE Grounded'
  <2> DEFINE q == [req[r] EXCEPT !.step = "record"]
             kept == Room(r)
             e == [body |-> req[r].got, life |-> Life(r), born |-> req[r].born]
  <2>1. met' = met /\ broken' = broken /\ req' = [req EXCEPT ![r] = q] /\ req[r].step = "store"
    BY <1>5 DEF StorePage
  <2>2. cache' = [p \in DOMAIN kept \cup {req[r].page} |-> IF p = req[r].page THEN e ELSE kept[p]]
    BY <1>5 DEF StorePage
  <2>3. req[r].got \in {"good", "bare", "bad"} /\ q.got = req[r].got /\ e.body = req[r].got
    BY <1>0, <2>1 DEF Typed, Requests, WellFormed, Request
  <2>4. \A p \in DOMAIN kept : p \in DOMAIN cache /\ kept[p] = cache[p]
    BY <1>0, RoomIsMade
  <2> HIDE DEF q, kept, e
  <2>5. Founded(q, met)
    BY <1>0, <2>1, <2>3 DEF Founded
  <2>6. ASSUME NEW s \in Readers PROVE Founded(req'[s], met')
    <3>1. req'[s] = q \/ req'[s] = req[s]
      BY <1>0, <2>1
    <3> QED  BY <1>0, <2>1, <2>5, <3>1
  <2>7. ASSUME NEW p \in DOMAIN cache' PROVE cache'[p].body \in {"bare", "bad"} => met'
    <3>1. CASE p = req[r].page
      <4>1. cache'[p].body = req[r].got
        BY <2>2, <2>3, <3>1
      <4> QED  BY <1>0, <2>1, <4>1 DEF Founded
    <3>2. CASE p # req[r].page
      <4>1. p \in DOMAIN kept /\ cache'[p] = kept[p]
        BY <2>2, <3>2
      <4> QED  BY <1>0, <2>1, <2>4, <4>1
    <3> QED  BY <3>1, <3>2
  <2> QED  BY <1>0, <2>1, <2>6, <2>7 DEF Grounded, NoFalseAlarm
<1>6. ASSUME NEW v \in Visitors, Record(v) PROVE Grounded'
  <2>1. met' = met /\ UNCHANGED cache /\ req' = [req EXCEPT ![v] = AtRest] /\ broken' = Recorded(v)
        /\ req[v].step = "record"
    BY <1>6 DEF Record
  <2>2. Founded(AtRest, met')
    BY <2>1, ReadingFounded
  <2>3. broken' => met'
    BY <1>2, <2>1, RecordFounded
  <2> QED  BY <1>1, <1>2, <2>1, <2>2, <2>3
<1>7. ASSUME NEW v \in Visitors, GiveUp(v) PROVE Grounded'
  <2> DEFINE q == [req[v] EXCEPT !.over = TRUE]
  <2>1. met' = met /\ broken' = broken /\ UNCHANGED cache /\ req' = [req EXCEPT ![v] = q]
    BY <1>7 DEF GiveUp
  <2>2. q.step = req[v].step /\ q.got = req[v].got /\ q.over
    BY <1>0, <1>2 DEF Request
  <2> HIDE DEF q
  <2>3. Founded(q, met')
    BY <1>0, <1>2, <2>1, <2>2 DEF Founded
  <2> QED  BY <1>0, <1>1, <1>2, <2>1, <2>3
<1>8. ASSUME CheckHealth \/ CheckGoesOn PROVE Grounded'
  <2>1. met' = met /\ UNCHANGED cache /\ Checker \in Readers
    BY <1>8 DEF CheckHealth, CheckGoesOn, Readers
  <2>2. PICK q : req' = [req EXCEPT ![Checker] = q] /\ (q = AtRest \/ \E p \in Pages : q = Reading(p))
    BY <1>8 DEF CheckHealth, CheckGoesOn, NextStage, Start, Pages, Searches
  <2>3. Founded(q, met')
    BY <2>1, <2>2, ReadingFounded
  <2>4. broken' => met'
    <3>1. CASE CheckHealth
      BY <1>0, <2>1, <3>1 DEF CheckHealth
    <3>2. CASE CheckGoesOn
      <4>1. broken' = Recorded(Checker) /\ req[Checker].step = "record"
        BY <3>2 DEF CheckGoesOn
      <4>2. Recorded(Checker) => met
        BY <2>1, <4>1, RecordFounded
      <4> QED  BY <2>1, <4>1, <4>2
    <3> QED  BY <1>8, <3>1, <3>2
  <2> QED  BY <1>1, <2>1, <2>2, <2>3, <2>4
<1>9. ASSUME Tick PROVE Grounded'
  <2>1. met' = met /\ broken' = broken /\ cache' = [p \in DOMAIN cache |-> Older(cache[p])]
    BY <1>9 DEF Tick
  <2>2. ASSUME NEW r \in Readers PROVE Founded(req'[r], met')
    <3> DEFINE born == IF req[r].step = "fetch" THEN 0 ELSE 1
               q == [req[r] EXCEPT !.age = 1, !.born = born]
    <3>1. req'[r] \in {req[r], q}
      BY <1>9 DEF Tick
    <3> HIDE DEF born
    <3>2. q.step = req[r].step /\ q.got = req[r].got /\ q.over = req[r].over
      BY <1>0 DEF Request
    <3> HIDE DEF q
    <3> QED  BY <1>0, <2>1, <3>1, <3>2 DEF Founded
  <2>3. ASSUME NEW p \in DOMAIN cache PROVE cache'[p].body = cache[p].body
    <3>1. cache[p] \in Entry
      BY <1>0 DEF Kept, Lasting
    <3>2. Older(cache[p]).body = cache[p].body
      BY <3>1 DEF Older, Entry
    <3> QED  BY <2>1, <3>2
  <2>4. DOMAIN cache' = DOMAIN cache
    BY <2>1
  <2> QED  BY <1>0, <2>1, <2>2, <2>3, <2>4 DEF Grounded, NoFalseAlarm
<1>10. ASSUME (\E p \in Pages : Change(p)) \/ UNCHANGED vars PROVE Grounded'
  BY <1>0, <1>10 DEF Change, vars, Grounded, NoFalseAlarm
<1> QED  BY <1>3, <1>4, <1>5, <1>6, <1>7, <1>8, <1>9, <1>10, StepKinds

\* Browsing is called broken only after somebody who waited couldn't read a
\* page: neither a visitor who leaves nor a page there isn't raises an alarm.
THEOREM AlarmsAreFounded == Spec => []NoFalseAlarm
<1>1. Init => Grounded
  <2>1. Founded(AtRest, met)
    BY DEF Founded, AtRest
  <2> QED  BY <2>1 DEF Init, Grounded, NoFalseAlarm
<1>2. Grounded => NoFalseAlarm
  BY DEF Grounded
<1> QED  BY <1>1, <1>2, InitTyped, NextTyped, GroundedNext, PTL DEF Spec

=============================================================================
