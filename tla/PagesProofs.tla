---------------------------- MODULE PagesProofs ----------------------------
(***************************************************************************)
(* Theorems about Pages.  A step of the whole is a step of one component   *)
(* and none of the others, so each component's property rests on an        *)
(* invariant of that component alone.                                      *)
(***************************************************************************)
EXTENDS Pages, Sums, SequenceTheorems

\* Whatever part moves, a component takes a step of its own or stands still.
LEMMA StepKinds ==
    ASSUME [PagesNext]_allVars
    PROVE  /\ Upd!Next \/ UNCHANGED updVars
           /\ Sto!Next \/ UNCHANGED stoVars
           /\ Lst!Next \/ UNCHANGED lstVars
           /\ Dis!Next \/ UNCHANGED disVars
           /\ Hw!Next \/ UNCHANGED hwVars
BY DEF PagesNext, allVars

\* The components do side by side what each does by itself: whatever holds of one
\* of them, such as what LabelsProofs proves of Labels, holds of it here.
THEOREM EachIsItself == PagesSpec => Spec /\ Upd!Spec /\ Sto!Spec /\ Lst!Spec /\ Dis!Spec /\ Hw!Spec
<1>1. PagesInit => Init /\ Upd!Init /\ Sto!Init /\ Lst!Init /\ Dis!Init /\ Hw!Init
  BY DEF PagesInit
<1>2. [PagesNext]_allVars => /\ [Next]_vars /\ [Upd!Next]_(Upd!vars) /\ [Sto!Next]_(Sto!vars)
                            /\ [Lst!Next]_(Lst!vars) /\ [Dis!Next]_(Dis!vars) /\ [Hw!Next]_(Hw!vars)
  BY StepKinds DEF PagesNext, allVars, updVars, stoVars, lstVars, disVars, hwVars,
                   Upd!vars, Sto!vars, Lst!vars, Dis!vars, Hw!vars
<1> QED  BY <1>1, <1>2, PTL DEF PagesSpec, Spec, Upd!Spec, Sto!Spec, Lst!Spec, Dis!Spec, Hw!Spec

-----------------------------------------------------------------------------
(* UpdateCheck: whoever wrote the last comparison, it is one of two        *)
(* versions.                                                               *)

Compared(c) == \E r, l \in Upd!Versions : c = Upd!Compare(r, l)

Updates == Upd!TypeOK /\ Compared(last)

\* The constants of UpdateCheck, one by one.
LEMMA UpdateConstants ==
    /\ MaxVersion \in Nat \ {0} /\ OkTTL \in Nat \ {0} /\ ErrTTL \in Nat \ {0} /\ CheckEvery \in Nat \ {0}
    /\ Background \notin Panels \cup SystemPages
    /\ Panels \cap SystemPages = {}
    /\ None \notin Upd!Refreshers \cup SystemPages
    /\ 0 \in Upd!Versions
BY PartsAssumption DEF Upd!UpdateAssumption, Upd!Refreshers, Upd!Versions

\* A comparison has its fields, and says what follows from its versions.
LEMMA CompareIsSound ==
    ASSUME NEW c, Compared(c)
    PROVE  /\ c \in Upd!Comparison
           /\ c.available <=> c.running # 0 /\ c.latest > c.running
           /\ c.current <=> c.running # 0 /\ c.latest = c.running
<1>1. PICK r \in Upd!Versions, l \in Upd!Versions : c = Upd!Compare(r, l)
  BY DEF Compared
<1>2. r \in Nat /\ l \in Nat
  BY UpdateConstants DEF Upd!Versions
<1>3. c = [running |-> r, latest |-> l, available |-> r # 0 /\ l # 0 /\ l > r,
           current |-> r # 0 /\ l # 0 /\ l = r]
  BY <1>1 DEF Upd!Compare
<1>4. /\ c.running = r /\ c.latest = l
      /\ c.available <=> r # 0 /\ l # 0 /\ l > r
      /\ c.current <=> r # 0 /\ l # 0 /\ l = r
  BY <1>3
<1>5. c \in Upd!Comparison
  <2> DEFINE newer == r # 0 /\ l # 0 /\ l > r
             same  == r # 0 /\ l # 0 /\ l = r
  <2>1. newer \in BOOLEAN /\ same \in BOOLEAN
    OBVIOUS
  <2>2. c = [running |-> r, latest |-> l, available |-> newer, current |-> same]
    BY <1>3
  <2> HIDE DEF newer, same
  <2> QED  BY <2>1, <2>2 DEF Upd!Comparison
<1> QED  BY <1>2, <1>4, <1>5

\* What a request is about is itself a request.
LEMMA RefreshIsRequest ==
    ASSUME NEW f \in BOOLEAN, NEW v \in Upd!Versions
    PROVE  /\ Upd!AtRest \in Upd!Request
           /\ [Upd!AtRest EXCEPT !.step = "check", !.force = f, !.running = v] \in Upd!Request
           /\ [Upd!AtRest EXCEPT !.step = "keep", !.running = v] \in Upd!Request
BY UpdateConstants DEF Upd!AtRest, Upd!Request

\* What a request that only reads leaves alone.
UpdRest == <<ollama, runs, latest, info, life, age, holder, last, due>>

\* At first nothing is known, and the versions agree.
LEMMA InitUpdates == Upd!Init => Updates
<1> SUFFICES ASSUME Upd!Init PROVE Updates
  OBVIOUS
<1>1. 1 \in Upd!Versions /\ 0 \in Upd!Versions
  BY UpdateConstants DEF Upd!Versions
<1>2. last = Upd!Compare(0, 0)
  BY DEF Upd!Init, Upd!Compare
<1>3. Compared(last)
  BY <1>1, <1>2 DEF Compared
<1>4. Upd!AtRest \in Upd!Request
  BY RefreshIsRequest, <1>1
<1>5. last \in Upd!Comparison
  BY <1>3, CompareIsSound
<1> QED  BY <1>1, <1>3, <1>4, <1>5, UpdateConstants DEF Upd!Init, Upd!TypeOK, Updates

\* A step either leaves the comparison alone or makes it anew of two versions.
LEMMA NextUpdates ==
    ASSUME Updates, Upd!Next \/ UNCHANGED updVars
    PROVE  Updates'
<1> DEFINE R == Upd!Refreshers \cup SystemPages
<1>0. /\ {ollama, runs, latest, info} \subseteq Upd!Versions
      /\ ollama \in {0, runs}
      /\ life \in 0..(IF info = 0 THEN ErrTTL + 1 ELSE OkTTL + 1)
      /\ age \in 0..OkTTL
      /\ holder \in Upd!Refreshers \cup {None}
      /\ refreshes \in [R -> Upd!Request]
      /\ holder # None => refreshes[holder].step = "check"
      /\ due \in 0..CheckEvery
      /\ Compared(last)
  BY DEF Updates, Upd!TypeOK
<1> DEFINE Live == life \in 0..(IF info = 0 THEN ErrTTL + 1 ELSE OkTTL + 1)
           Checking == holder # None => refreshes[holder].step = "check"
<1> DEFINE Kept ==
               /\ {ollama, runs, latest, info}' \subseteq Upd!Versions
               /\ (ollama \in {0, runs})'
               /\ Live'
               /\ (age \in 0..OkTTL)'
               /\ (holder \in Upd!Refreshers \cup {None})'
               /\ (refreshes \in [R -> Upd!Request])'
               /\ Checking'
               /\ (due \in 0..CheckEvery)'
               /\ Compared(last)'
<1>1. Kept => Updates'
  BY CompareIsSound DEF Updates, Upd!TypeOK, Compared
<1>2. ASSUME NEW r \in R, NEW f \in BOOLEAN, Upd!Refresh(r, f)
      PROVE  refreshes' \in [R -> Upd!Request] /\ Checking'
  <2>1. [Upd!AtRest EXCEPT !.step = "check", !.force = f, !.running = ollama] \in Upd!Request
    BY <1>0, RefreshIsRequest
  <2>2. refreshes' \in [R -> Upd!Request]
    BY <1>0, <1>2, <2>1 DEF Upd!Refresh
  <2>3. holder # None => holder # r /\ holder \in R
    BY <1>0, <1>2, UpdateConstants DEF Upd!Refresh
  <2>4. Checking'
    BY <1>0, <1>2, <2>3 DEF Upd!Refresh
  <2> QED  BY <2>2, <2>4
<1>3. CASE \E p \in Panels : Upd!AskPanel(p)
  <2>1. PICK p \in Panels, f \in BOOLEAN : Upd!Refresh(p, f) /\ UNCHANGED due
    BY <1>3 DEF Upd!AskPanel
  <2>2. p \in R
    BY DEF Upd!Refreshers
  <2> QED  BY <1>0, <1>1, <1>2, <2>1, <2>2 DEF Upd!Refresh
<1>4. CASE Upd!AskBackground
  <2>1. Background \in R /\ FALSE \in BOOLEAN
    BY DEF Upd!Refreshers
  <2>2. Upd!Refresh(Background, FALSE) /\ due' = CheckEvery
    BY <1>4 DEF Upd!AskBackground
  <2>3. refreshes' \in [R -> Upd!Request] /\ Checking'
    BY <1>2, <2>1, <2>2
  <2>4. due' \in 0..CheckEvery
    BY <2>2, UpdateConstants
  <2> QED  BY <1>0, <1>1, <2>2, <2>3, <2>4 DEF Upd!Refresh
<1>5. ASSUME NEW r \in Upd!Refreshers, Upd!CheckKept(r) PROVE UpdRest' = UpdRest /\ refreshes' \in [R -> Upd!Request] /\ Checking'
  <2>1. [refreshes[r] EXCEPT !.step = "keep", !.latest = info] \in Upd!Request
    BY <1>0 DEF Upd!Request
  <2>2. refreshes' = [refreshes EXCEPT ![r] = [refreshes[r] EXCEPT !.step = "keep", !.latest = info]]
    BY <1>5 DEF Upd!CheckKept
  <2> QED  BY <1>0, <1>5, <2>1, <2>2 DEF Upd!CheckKept, UpdRest
<1>6. ASSUME NEW r \in Upd!Refreshers, Upd!AskGitHub(r)
      PROVE  /\ UNCHANGED <<ollama, runs, latest, info, life, last, refreshes, due>>
             /\ age' = 0 /\ holder' = r /\ refreshes[r].step = "check"
  BY <1>6 DEF Upd!AskGitHub
<1>7. ASSUME NEW r \in Upd!Refreshers, NEW found \in Upd!Versions, Upd!Answer(r, found)
      PROVE  /\ UNCHANGED <<ollama, runs, latest, age, last, due>>
             /\ info' = found /\ holder' = None /\ Live'
             /\ refreshes' \in [R -> Upd!Request]
  <2>1. [refreshes[r] EXCEPT !.step = "keep", !.latest = found] \in Upd!Request
    BY <1>0 DEF Upd!Request
  <2>2. refreshes' = [refreshes EXCEPT ![r] = [refreshes[r] EXCEPT !.step = "keep", !.latest = found]]
    BY <1>7 DEF Upd!Answer
  <2>3. refreshes' \in [R -> Upd!Request]
    BY <1>0, <2>1, <2>2
  <2>4. Live'
    BY <1>7, UpdateConstants DEF Upd!Answer
  <2> QED  BY <1>7, <2>3, <2>4 DEF Upd!Answer
<1>8. ASSUME NEW r \in R, refreshes[r].step = "keep", refreshes' = [refreshes EXCEPT ![r] = Upd!AtRest], holder' = holder
      PROVE  refreshes' \in [R -> Upd!Request] /\ Checking'
  <2>1. Upd!AtRest \in Upd!Request
    BY RefreshIsRequest, UpdateConstants
  <2> QED  BY <1>0, <1>8, <2>1
<1>9. ASSUME NEW r \in Upd!Refreshers, Upd!RefreshGoesOn(r)
      PROVE  Updates'
  <2>1. CASE Upd!CheckKept(r)
    BY <1>0, <1>1, <1>5, <2>1 DEF UpdRest
  <2>2. CASE Upd!AskGitHub(r)
    BY <1>0, <1>1, <1>6, <2>2, UpdateConstants
  <2>3. CASE Upd!GitHubAnswers(r)
    <3>1. PICK found \in Upd!Versions : Upd!Answer(r, found)
      BY <1>0, <2>3, UpdateConstants DEF Upd!GitHubAnswers
    <3> QED  BY <1>0, <1>1, <1>7, <3>1
  <2>4. CASE Upd!Keep(r)
    <3>1. refreshes[r] \in Upd!Request
      BY <1>0
    <3>2. Compared(last)'
      BY <2>4, <3>1 DEF Upd!Keep, Upd!Request, Compared
    <3> QED  BY <1>0, <1>1, <1>8, <2>4, <3>2 DEF Upd!Keep
  <2> QED  BY <1>9, <2>1, <2>2, <2>3, <2>4 DEF Upd!RefreshGoesOn
<1>10. ASSUME NEW p \in SystemPages, Upd!AskRunning(p)
       PROVE  UpdRest' = UpdRest /\ refreshes' \in [R -> Upd!Request] /\ Checking'
  <2>1. [Upd!AtRest EXCEPT !.step = "keep", !.running = ollama] \in Upd!Request
    BY <1>0, RefreshIsRequest
  <2>2. holder # None => holder # p /\ holder \in R
    BY <1>0, <1>10, UpdateConstants DEF Upd!AskRunning
  <2> QED  BY <1>0, <1>10, <2>1, <2>2 DEF Upd!AskRunning, UpdRest
<1>11. ASSUME NEW p \in SystemPages, Upd!KeepRunning(p)
       PROVE  Updates'
  <2>1. refreshes[p] \in Upd!Request /\ last \in Upd!Comparison
    BY <1>0, CompareIsSound
  <2>2. Compared(last)'
    BY <1>11, <2>1 DEF Upd!KeepRunning, Upd!WithRunning, Upd!Request, Upd!Comparison, Compared
  <2> QED  BY <1>0, <1>1, <1>8, <1>11, <2>2 DEF Upd!KeepRunning
<1>12. CASE Upd!Release \/ Upd!Upgrade \/ Upd!Outage
  <2>1. CASE Upd!Release
    BY <1>0, <1>1, <2>1, UpdateConstants DEF Upd!Release, Upd!Versions
  <2>2. CASE Upd!Upgrade
    BY <1>0, <1>1, <2>2 DEF Upd!Upgrade
  <2>3. CASE Upd!Outage
    BY <1>0, <1>1, <2>3, UpdateConstants DEF Upd!Outage
  <2> QED  BY <1>12, <2>1, <2>2, <2>3
<1>13. CASE Upd!Tick
  <2>1. Live' /\ (age \in 0..OkTTL)' /\ (due \in 0..CheckEvery)'
    BY <1>0, <1>13, UpdateConstants DEF Upd!Tick
  <2> QED  BY <1>0, <1>1, <1>13, <2>1 DEF Upd!Tick
<1>14. CASE UNCHANGED updVars
  BY <1>0, <1>1, <1>14 DEF updVars
<1>15. ASSUME NEW p \in SystemPages, Upd!AskRunning(p) PROVE Updates'
  BY <1>0, <1>1, <1>10, <1>15 DEF UpdRest
<1> HIDE DEF R, Live, Checking, Kept
<1> QED  BY <1>3, <1>4, <1>9, <1>11, <1>12, <1>13, <1>14, <1>15 DEF Upd!Next

\* What the dot and the panel say follows from the two versions beside it,
\* whoever wrote either of them last.
THEOREM DotAgrees == PagesSpec => []LastAgrees
<1>1. PagesInit => Updates
  BY InitUpdates DEF PagesInit
<1>2. Updates /\ [PagesNext]_allVars => Updates'
  BY NextUpdates, StepKinds
<1>3. Updates => LastAgrees
  BY CompareIsSound DEF Updates, LastAgrees, Upd!LastAgrees
<1> QED  BY <1>1, <1>2, <1>3, PTL DEF PagesSpec

-----------------------------------------------------------------------------
(* Storage: the figures are sums over blobs, and a blob is accounted for   *)
(* by the layers it stands for, so what they say of each other follows     *)
(* from which blobs cover which layers, and which have none in common.     *)

Blob      == Layers \cup {Sto!Unread(c) : c \in Contents}
Behind(b) == IF b \in Layers THEN {b} ELSE LayersOf[b[1]]

\* The blobs whose bytes a deletion is said to free.
Loosened(names) ==
    {b \in UNION {Sto!Blobs(c) : c \in Sto!Gone(names)} : Sto!Users(b) \subseteq Sto!Gone(names)}

\* The layers whose bytes it does free.
Removed(names) == Sto!Files(Sto!Installed) \ Sto!Files(Sto!Installed \ names)

\* The constants of Storage, one by one.
LEMMA StorageConstants ==
    /\ Tags \subseteq Nat /\ IsFiniteSet(Tags)
    /\ None \notin Contents \cup Tags
    /\ IsFiniteSet(Layers)
    /\ LayersOf \in [Contents -> SUBSET Layers]
    /\ \A c \in Contents : <<c>> \notin Layers
    /\ LayerSize \in [Layers -> Nat]
    /\ UnusedDays \in Nat /\ MaxSeries \in Nat /\ MaxManifests \in Nat /\ MaxDay \in Nat \ {0}
<1>1. /\ Tags \subseteq Nat /\ Sto!IsFiniteSet(Tags)
      /\ None \notin Contents \cup Tags
      /\ Sto!IsFiniteSet(Layers)
      /\ LayersOf \in [Contents -> SUBSET Layers]
      /\ \A c \in Contents : <<c>> \notin Layers
      /\ LayerSize \in [Layers -> Nat]
      /\ {UnusedDays, MaxSeries, MaxManifests} \subseteq Nat /\ MaxDay \in Nat \ {0}
  BY PartsAssumption DEF Sto!StorageAssumption
<1>2. IsFiniteSet(Tags) /\ IsFiniteSet(Layers)
  BY <1>1 DEF Sto!IsFiniteSet, IsFiniteSet
<1> QED  BY <1>1, <1>2

\* The instance adds up as everybody does.
LEMMA SameSum == ASSUME NEW f, NEW S PROVE Sto!SumFunctionOnSet(f, S) = SumFunctionOnSet(f, S)
BY DEF Sto!SumFunctionOnSet, Sto!FoldFunctionOnSet, Sto!MapThenFoldSet,
       SumFunctionOnSet, FoldFunctionOnSet, MapThenFoldSet

\* At first the library is empty.
LEMMA InitStorage == ASSUME Sto!Init PROVE Sto!TypeOK
<1>1. 1 \in Sto!Days /\ 0 \in 0..MaxDay
  BY StorageConstants DEF Sto!Days
<1> QED  BY <1>1 DEF Sto!Init, Sto!TypeOK

\* Whatever happens, it names contents, and the days go by.
LEMMA NextStorage == ASSUME Sto!TypeOK, Sto!Next \/ UNCHANGED stoVars PROVE Sto!TypeOK'
<1> USE DEF Sto!TypeOK
<1>1. ASSUME NEW t \in Tags, NEW c \in Contents, Sto!Pull(t, c) PROVE Sto!TypeOK'
  <2>1. today \in 0..MaxDay
    BY StorageConstants DEF Sto!Days
  <2> QED  BY <1>1, <2>1 DEF Sto!Pull
<1>2. ASSUME NEW t \in Tags, Sto!Delete(t) PROVE Sto!TypeOK'
  <2>1. 0 \in 0..MaxDay
    BY StorageConstants
  <2> QED  BY <1>2, <2>1 DEF Sto!Delete
<1>3. ASSUME NEW t \in Tags, Sto!Use(t) PROVE Sto!TypeOK'
  <2>1. week' = [week EXCEPT ![t] = [week[t] EXCEPT ![today] = 1]]
    BY <1>3 DEF Sto!Use
  <2>2. [week[t] EXCEPT ![today] = 1] \in [Sto!Days -> 0..1]
    OBVIOUS
  <2>3. week' \in [Tags -> [Sto!Days -> 0..1]]
    BY <2>1, <2>2
  <2> QED  BY <1>3, <2>3 DEF Sto!Use
<1>4. ASSUME NEW c \in Contents, Sto!ReadManifest(c) PROVE Sto!TypeOK'
  <2>1. known' \subseteq Contents
    BY <1>4 DEF Sto!ReadManifest
  <2> QED  BY <1>4, <2>1 DEF Sto!ReadManifest
<1>5. CASE Sto!Midnight
  BY <1>5, StorageConstants DEF Sto!Midnight, Sto!Days
<1>6. CASE UNCHANGED stoVars
  BY <1>6 DEF stoVars
<1> QED  BY <1>1, <1>2, <1>3, <1>4, <1>5, <1>6 DEF Sto!Next

\* A blob is as big as the layers behind it.
LEMMA BlobsMeasure ==
    /\ DOMAIN Sto!BlobSize = Blob
    /\ \A b \in Blob : /\ Behind(b) \in SUBSET Layers
                       /\ Sto!BlobSize[b] = SumFunctionOnSet(LayerSize, Behind(b))
                       /\ Sto!BlobSize[b] \in Nat
    /\ \A bs \in SUBSET Blob : Sto!Bytes[bs] = SumFunctionOnSet(Sto!BlobSize, bs)
    /\ \A ls \in SUBSET Layers : Sto!Bytes[ls] = SumFunctionOnSet(LayerSize, ls)
<1>1. DOMAIN Sto!BlobSize = Blob
  BY DEF Sto!BlobSize, Blob
<1>2. \A bs \in SUBSET Blob : Sto!Bytes[bs] = SumFunctionOnSet(Sto!BlobSize, bs)
  BY <1>1, SameSum DEF Sto!Bytes
<1>3. ASSUME NEW l \in Layers
      PROVE  Sto!BlobSize[l] = LayerSize[l] /\ Behind(l) = {l}
             /\ SumFunctionOnSet(LayerSize, {l}) = LayerSize[l] /\ LayerSize[l] \in Nat
  <2>1. Sto!BlobSize[l] = LayerSize[l] /\ Behind(l) = {l}
    BY DEF Sto!BlobSize, Behind
  <2>2. LayerSize[l] \in Nat
    BY StorageConstants
  <2>3. SumFunctionOnSet(LayerSize, {l}) = LayerSize[l] + SumFunctionOnSet(LayerSize, {l} \ {l})
    BY <2>2, FS_Singleton, SumWithout
  <2>4. {l} \ {l} = {}
    OBVIOUS
  <2> QED  BY <2>1, <2>2, <2>3, <2>4, SumOfNone
<1>4. ASSUME NEW c \in Contents
      PROVE  /\ Sto!BlobSize[Sto!Unread(c)] = SumFunctionOnSet(LayerSize, LayersOf[c])
             /\ Behind(Sto!Unread(c)) = LayersOf[c]
             /\ SumFunctionOnSet(LayerSize, LayersOf[c]) \in Nat
             /\ LayersOf[c] \in SUBSET Layers
  <2>1. Sto!Unread(c) \notin Layers /\ Sto!Unread(c)[1] = c
    BY StorageConstants DEF Sto!Unread
  <2>2. LayersOf[c] \in SUBSET Layers
    BY StorageConstants
  <2>3. SumFunctionOnSet(LayerSize, LayersOf[c]) \in Nat
    BY <2>2, StorageConstants, FS_Subset, SumIsNat
  <2>4. Sto!Unread(c) \in DOMAIN Sto!BlobSize
    BY <1>1 DEF Blob
  <2>5. Sto!BlobSize[Sto!Unread(c)] = SumFunctionOnSet(LayerSize, LayersOf[c])
    BY <2>1, <2>4, SameSum DEF Sto!BlobSize
  <2> QED  BY <2>1, <2>2, <2>3, <2>5 DEF Behind
<1>5. ASSUME NEW b \in Blob
      PROVE  /\ Behind(b) \in SUBSET Layers
             /\ Sto!BlobSize[b] = SumFunctionOnSet(LayerSize, Behind(b))
             /\ Sto!BlobSize[b] \in Nat
  <2>1. CASE b \in Layers
    BY <1>3, <2>1
  <2>2. CASE b \notin Layers
    <3>1. PICK c \in Contents : b = Sto!Unread(c)
      BY <2>2 DEF Blob
    <3> QED  BY <1>4, <3>1
  <2> QED  BY <2>1, <2>2
<1>6. ASSUME NEW ls \in SUBSET Layers PROVE Sto!Bytes[ls] = SumFunctionOnSet(LayerSize, ls)
  <2>1. ls \in SUBSET Blob /\ IsFiniteSet(ls)
    BY StorageConstants, FS_Subset DEF Blob
  <2>2. \A l \in ls : Sto!BlobSize[l] = LayerSize[l]
    BY <1>3
  <2>3. SumFunctionOnSet(Sto!BlobSize, ls) = SumFunctionOnSet(LayerSize, ls)
    BY <2>1, <2>2, SumOfSame
  <2> QED  BY <1>2, <2>1, <2>3
<1> QED  BY <1>1, <1>2, <1>5, <1>6

\* What is present is finite, and so are its blobs.
LEMMA PresentIsFinite ==
    ASSUME Sto!TypeOK
    PROVE  /\ Sto!Present \subseteq Contents /\ IsFiniteSet(Sto!Present)
           /\ \A c \in Contents : Sto!Blobs(c) \subseteq Blob /\ IsFiniteSet(Sto!Blobs(c))
           /\ \A cs \in SUBSET Sto!Present : /\ UNION {Sto!Blobs(c) : c \in cs} \subseteq Blob
                                             /\ IsFiniteSet(UNION {Sto!Blobs(c) : c \in cs})
<1>1. Sto!Installed \subseteq Tags /\ IsFiniteSet(Sto!Installed)
  BY StorageConstants, FS_Subset DEF Sto!Installed
<1>2. Sto!Present \subseteq Contents
  BY DEF Sto!Present, Sto!Installed, Sto!TypeOK
<1>3. IsFiniteSet(Sto!Present)
  BY <1>1, FiniteImage DEF Sto!Present
<1>4. ASSUME NEW c \in Contents PROVE Sto!Blobs(c) \subseteq Blob /\ IsFiniteSet(Sto!Blobs(c))
  <2>1. LayersOf[c] \subseteq Layers /\ IsFiniteSet(LayersOf[c])
    BY StorageConstants, FS_Subset
  <2> QED  BY <2>1, FS_Singleton DEF Sto!Blobs, Blob
<1>5. ASSUME NEW cs \in SUBSET Sto!Present
      PROVE  /\ UNION {Sto!Blobs(c) : c \in cs} \subseteq Blob
             /\ IsFiniteSet(UNION {Sto!Blobs(c) : c \in cs})
  <2>1. cs \subseteq Contents /\ IsFiniteSet(cs)
    BY <1>2, <1>3, FS_Subset
  <2>2. IsFiniteSet({Sto!Blobs(c) : c \in cs})
    <3> DEFINE f == [c \in cs |-> Sto!Blobs(c)]
    <3>1. {Sto!Blobs(c) : c \in cs} = {f[c] : c \in cs}
      OBVIOUS
    <3> HIDE DEF f
    <3> QED  BY <2>1, <3>1, FiniteImage
  <2>3. \A s \in {Sto!Blobs(c) : c \in cs} : IsFiniteSet(s)
    BY <1>4, <2>1
  <2>4. IsFiniteSet(UNION {Sto!Blobs(c) : c \in cs})
    BY <2>2, <2>3, FS_UNION
  <2> QED  BY <1>4, <2>1, <2>4
<1> QED  BY <1>2, <1>3, <1>4, <1>5

\* A tag names what is present.
LEMMA TagsNamePresent ==
    ASSUME Sto!TypeOK
    PROVE  /\ \A t \in Sto!Installed : library[t] \in Sto!Present
           /\ \A c \in Sto!Present : /\ c \in Contents /\ Sto!TagsOf(c) # {}
                                     /\ Sto!TagsOf(c) \subseteq Sto!Installed
                                     /\ \A t \in Sto!TagsOf(c) : library[t] = c
BY StorageConstants DEF Sto!TypeOK, Sto!Present, Sto!Installed, Sto!TagsOf

\* What a blob of a content is.
LEMMA BlobKinds ==
    ASSUME Sto!TypeOK, NEW c \in Contents, NEW b \in Sto!Blobs(c)
    PROVE  IF c \in known THEN b \in LayersOf[c] /\ b \in Layers ELSE b = Sto!Unread(c) /\ b \notin Layers
BY StorageConstants DEF Sto!Blobs, Sto!Unread

\* What a deletion is said to free is a sum of blobs.
LEMMA FreedIsSum ==
    ASSUME Sto!TypeOK, NEW names
    PROVE  /\ Loosened(names) \subseteq Blob /\ IsFiniteSet(Loosened(names))
           /\ Sto!Freed(names) = SumFunctionOnSet(Sto!BlobSize, Loosened(names))
           /\ Sto!Freed(names) \in Nat
           /\ Loosened(names) \subseteq UNION {Sto!Blobs(c) : c \in Sto!Present}
<1>1. Sto!Gone(names) \in SUBSET Sto!Present
  BY DEF Sto!Gone
<1>2. /\ UNION {Sto!Blobs(c) : c \in Sto!Gone(names)} \subseteq Blob
      /\ IsFiniteSet(UNION {Sto!Blobs(c) : c \in Sto!Gone(names)})
  BY <1>1, PresentIsFinite
<1>3. Loosened(names) \subseteq UNION {Sto!Blobs(c) : c \in Sto!Gone(names)}
  BY DEF Loosened
<1>4. Loosened(names) \subseteq Blob /\ IsFiniteSet(Loosened(names))
  BY <1>2, <1>3, FS_Subset
<1>5. Sto!Freed(names) = SumFunctionOnSet(Sto!BlobSize, Loosened(names))
  BY <1>4, BlobsMeasure DEF Sto!Freed, Loosened
<1>6. SumFunctionOnSet(Sto!BlobSize, Loosened(names)) \in Nat
  BY <1>4, BlobsMeasure, SumIsNat
<1> QED  BY <1>1, <1>3, <1>4, <1>5, <1>6

\* What it does free is a sum of layers.
LEMMA RealIsSum ==
    ASSUME Sto!TypeOK, NEW names
    PROVE  /\ Removed(names) \in SUBSET Layers
           /\ Sto!Real(names) = SumFunctionOnSet(LayerSize, Removed(names))
           /\ Sto!Real(names) \in Nat
<1>1. Sto!Files(Sto!Installed) \subseteq Layers
  BY TagsNamePresent, StorageConstants DEF Sto!Files
<1>2. Removed(names) \in SUBSET Layers /\ IsFiniteSet(Removed(names))
  BY <1>1, StorageConstants, FS_Subset DEF Removed
<1>3. Sto!Real(names) = SumFunctionOnSet(LayerSize, Removed(names))
  BY <1>2, BlobsMeasure DEF Sto!Real, Removed
<1>4. SumFunctionOnSet(LayerSize, Removed(names)) \in Nat
  BY <1>2, StorageConstants, SumIsNat
<1> QED  BY <1>2, <1>3, <1>4

\* The layers removed are those of models that go with all their tags, and of no other.
LEMMA RemovedIsGone ==
    ASSUME Sto!TypeOK, NEW names \in SUBSET Sto!Installed, NEW l
    PROVE  l \in Removed(names) <=>
               /\ \E c \in Sto!Present : l \in LayersOf[c]
               /\ \A c \in Sto!Present : l \in LayersOf[c] => c \in Sto!Gone(names)
<1>1. l \in Sto!Files(Sto!Installed) <=> \E c \in Sto!Present : l \in LayersOf[c]
  BY DEF Sto!Files, Sto!Present
<1>2. l \in Sto!Files(Sto!Installed \ names) <=> \E t \in Sto!Installed \ names : l \in LayersOf[library[t]]
  BY DEF Sto!Files
<1>3. ASSUME NEW c \in Sto!Present PROVE c \in Sto!Gone(names) <=> Sto!TagsOf(c) \subseteq names
  BY DEF Sto!Gone
<1>4. (\E t \in Sto!Installed \ names : l \in LayersOf[library[t]])
          <=> \E c \in Sto!Present : l \in LayersOf[c] /\ ~(Sto!TagsOf(c) \subseteq names)
  <2>1. ASSUME NEW t \in Sto!Installed \ names PROVE library[t] \in Sto!Present /\ ~(Sto!TagsOf(library[t]) \subseteq names)
    BY TagsNamePresent DEF Sto!TagsOf, Sto!Installed
  <2>2. ASSUME NEW c \in Sto!Present, ~(Sto!TagsOf(c) \subseteq names)
        PROVE  \E t \in Sto!Installed \ names : library[t] = c
    BY <2>2, TagsNamePresent
  <2> QED  BY <2>1, <2>2
<1> QED  BY <1>1, <1>2, <1>3, <1>4 DEF Removed

\* And every one of them is behind a blob that is said to be freed.
LEMMA RemovedIsCovered ==
    ASSUME Sto!TypeOK, NEW names \in SUBSET Sto!Installed
    PROVE  Removed(names) \subseteq UNION {Behind(b) : b \in Loosened(names)}
<1> SUFFICES ASSUME NEW l \in Removed(names) PROVE \E b \in Loosened(names) : l \in Behind(b)
  OBVIOUS
<1>1. PICK c \in Sto!Present : l \in LayersOf[c]
  BY RemovedIsGone
<1>2. \A d \in Sto!Present : l \in LayersOf[d] => d \in Sto!Gone(names)
  BY RemovedIsGone
<1>3. Sto!Present \subseteq Contents /\ l \in Layers
  BY PresentIsFinite, RealIsSum
<1>4. ASSUME NEW d \in Sto!Present, d \in known, l \in LayersOf[d] PROVE l \in Loosened(names) /\ l \in Behind(l)
  <2>1. l \in Sto!Blobs(d) /\ d \in Sto!Gone(names)
    BY <1>2, <1>4 DEF Sto!Blobs
  <2>2. \A e \in Sto!Users(l) : e \in Sto!Gone(names)
    BY <1>2, <1>3, BlobKinds DEF Sto!Users
  <2>3. l \in Behind(l)
    BY <1>3 DEF Behind
  <2> QED  BY <2>1, <2>2, <2>3 DEF Loosened
<1>5. ASSUME c \notin known PROVE Sto!Unread(c) \in Loosened(names) /\ l \in Behind(Sto!Unread(c))
  <2>1. Sto!Unread(c) \in Sto!Blobs(c) /\ c \in Sto!Gone(names)
    BY <1>1, <1>2, <1>5 DEF Sto!Blobs
  <2>2. Sto!Unread(c) \notin Layers /\ Sto!Unread(c)[1] = c
    BY <1>3, StorageConstants DEF Sto!Unread
  <2>3. ASSUME NEW e \in Sto!Users(Sto!Unread(c)) PROVE e = c
    <3>1. e \in Contents /\ Sto!Unread(c) \in Sto!Blobs(e)
      BY <1>3 DEF Sto!Users
    <3>2. Sto!Unread(c) = Sto!Unread(e)
      BY <2>2, <3>1, BlobKinds
    <3> QED  BY <3>2 DEF Sto!Unread
  <2>4. l \in Behind(Sto!Unread(c))
    BY <1>1, <2>2 DEF Behind
  <2> QED  BY <2>1, <2>3, <2>4 DEF Loosened
<1> QED  BY <1>1, <1>4, <1>5

\* When every manifest can be read the blobs said to be freed are the layers removed.
LEMMA ExactIsRemoved ==
    ASSUME Sto!TypeOK, Sto!Exact, NEW names \in SUBSET Sto!Installed
    PROVE  Loosened(names) = Removed(names)
<1>1. \A c \in Sto!Present : Sto!Blobs(c) = LayersOf[c]
  BY DEF Sto!Exact, Sto!Blobs
<1>2. Sto!Gone(names) \subseteq Sto!Present
  BY DEF Sto!Gone
<1>3. ASSUME NEW l
      PROVE  l \in Loosened(names) <=>
               /\ \E c \in Sto!Present : l \in LayersOf[c]
               /\ \A c \in Sto!Present : l \in LayersOf[c] => c \in Sto!Gone(names)
  <2>1. l \in Loosened(names) <=> /\ \E c \in Sto!Gone(names) : l \in LayersOf[c]
                                  /\ \A c \in Sto!Present : l \in LayersOf[c] => c \in Sto!Gone(names)
    BY <1>1, <1>2 DEF Loosened, Sto!Users
  <2> QED  BY <1>2, <2>1
<1> QED  BY <1>3, RemovedIsGone

\* What is said to be freed is no less than what is.
LEMMA FreedIsEnough ==
    ASSUME Sto!TypeOK, NEW names \in SUBSET Sto!Installed
    PROVE  Sto!Real(names) <= Sto!Freed(names)
<1> DEFINE L == [b \in Loosened(names) |-> Behind(b)]
           U == Loosened(names)
           f == LayerSize
           g == Sto!BlobSize
<1>1. IsFiniteSet(U) /\ U \subseteq Blob
  BY FreedIsSum
<1>2. IsFiniteSet(Layers) /\ \A x \in Layers : f[x] \in Nat
  BY StorageConstants
<1>3. \A u \in U : L[u] \in SUBSET Layers /\ g[u] = SumFunctionOnSet(f, L[u])
  BY <1>1, BlobsMeasure
<1>4. Removed(names) \subseteq UNION {L[u] : u \in U}
  BY RemovedIsCovered
<1> HIDE DEF L, U, f, g
<1>5. SumFunctionOnSet(f, Removed(names)) <= SumFunctionOnSet(g, U)
  BY <1>1, <1>2, <1>3, <1>4, SumOfCovered
<1> QED  BY <1>5, FreedIsSum, RealIsSum DEF f, g, U

\* The delete dialogs say what a deletion frees.
LEMMA DialogsSayWhatFrees == ASSUME Sto!TypeOK PROVE Sto!FreesAsSaid
<1>1. ASSUME Sto!Exact PROVE Sto!OnDisk = Sto!Bytes[Sto!Files(Sto!Installed)]
  <2>1. UNION {Sto!Blobs(c) : c \in Sto!Present} = Sto!Files(Sto!Installed)
    BY <1>1 DEF Sto!Exact, Sto!Blobs, Sto!Files, Sto!Present
  <2> QED  BY <2>1 DEF Sto!OnDisk
<1>2. ASSUME NEW names \in SUBSET Sto!Installed
      PROVE  /\ IF Sto!Exact THEN Sto!Freed(names) = Sto!Real(names) ELSE Sto!Freed(names) >= Sto!Real(names)
             /\ Sto!DeleteEffect(names) = "the same model stays" => Sto!Real(names) = 0
  <2>1. Sto!Freed(names) \in Nat /\ Sto!Real(names) \in Nat /\ Sto!Real(names) <= Sto!Freed(names)
    BY FreedIsSum, RealIsSum, FreedIsEnough
  <2>2. Sto!Exact => Sto!Freed(names) = Sto!Real(names)
    BY ExactIsRemoved DEF Sto!Freed, Sto!Real, Loosened, Removed
  <2>3. Sto!DeleteEffect(names) = "the same model stays" => ~(Sto!Freed(names) > 0)
    BY DEF Sto!DeleteEffect
  <2>4. Sto!DeleteEffect(names) = "the same model stays" => Sto!Real(names) = 0
    <3>1. ~(Sto!Freed(names) > 0) => Sto!Real(names) = 0
      BY <2>1
    <3> QED  BY <2>3, <3>1
  <2>5. IF Sto!Exact THEN Sto!Freed(names) = Sto!Real(names) ELSE Sto!Freed(names) >= Sto!Real(names)
    BY <2>1, <2>2
  <2> QED  BY <2>4, <2>5
<1> QED  BY <1>1, <1>2 DEF Sto!FreesAsSaid

\* A model with a tag used lately is not among the unused, and those free no
\* more than there is.
LEMMA UnusedAreIdle == ASSUME Sto!TypeOK PROVE Sto!UnusedIsIdle
<1> SUFFICES ASSUME NEW t \in Sto!UnusedFor(UnusedDays)
             PROVE  /\ \A u \in Sto!TagsOf(library[t]), d \in Sto!Days : d + UnusedDays > today => week[u][d] = 0
                    /\ Sto!SummarizeUnused(UnusedDays).bytes <= Sto!OnDisk
  BY DEF Sto!UnusedIsIdle
<1>1. t \in Sto!Installed /\ Sto!IdleSince(t) + UnusedDays <= today /\ today \in Nat /\ UnusedDays \in Nat
  BY StorageConstants DEF Sto!UnusedFor, Sto!TypeOK, Sto!Days
<1> DEFINE DaysOf(u) == {d \in Sto!Days : week[u][d] > 0}
           whens == {1, came[t]} \cup {Sto!Used(u) : u \in {t} \cup Sto!SameAs(t)}
<1>2. t \in Tags /\ {t} \cup Sto!SameAs(t) = Sto!TagsOf(library[t]) /\ Sto!TagsOf(library[t]) \subseteq Tags
  BY <1>1 DEF Sto!Installed, Sto!SameAs, Sto!TagsOf
<1>3. ASSUME NEW u \in Tags
      PROVE  Sto!Used(u) \in Nat /\ \A d \in DaysOf(u) : d <= Sto!Used(u)
  <2>1. Sto!Used(u) = IF DaysOf(u) # {} THEN Sto!Max(DaysOf(u)) ELSE 0
    BY DEF Sto!Used
  <2>2. IsFiniteSet(DaysOf(u)) /\ DaysOf(u) \subseteq Nat
    <3>1. IsFiniteSet(1..MaxDay) /\ 1..MaxDay \subseteq Nat
      BY StorageConstants, FS_Interval
    <3>2. DaysOf(u) \subseteq 1..MaxDay
      BY DEF Sto!Days
    <3> HIDE DEF DaysOf
    <3> QED  BY <3>1, <3>2, FS_Subset
  <2> HIDE DEF DaysOf
  <2>3. DaysOf(u) # {} => Sto!Max(DaysOf(u)) \in DaysOf(u) /\ \A d \in DaysOf(u) : Sto!Max(DaysOf(u)) >= d
    <3>1. \A d \in DaysOf(u) : d \in Int
      BY <2>2
    <3> QED  BY <2>2, <3>1, GreatestOfSome DEF Sto!Max
  <2>4. CASE DaysOf(u) = {}
    BY <2>1, <2>4
  <2>5. CASE DaysOf(u) # {}
    BY <2>1, <2>2, <2>3, <2>5
  <2> QED  BY <2>4, <2>5
<1>4. /\ Sto!IdleSince(t) \in Int
      /\ \A u \in Sto!TagsOf(library[t]) : Sto!Used(u) <= Sto!IdleSince(t)
  <2>1. Sto!IdleSince(t) = Sto!Max(whens)
    BY DEF Sto!IdleSince
  <2>2. IsFiniteSet(whens)
    <3> DEFINE f == [u \in Tags |-> Sto!Used(u)]
               T == {t} \cup Sto!SameAs(t)
    <3>1. IsFiniteSet(T) /\ T \subseteq Tags
      BY <1>2, StorageConstants, FS_Subset
    <3>2. {Sto!Used(u) : u \in T} = {f[u] : u \in T}
      BY <3>1
    <3>3. IsFiniteSet({1} \cup {came[t]}) /\ {1, came[t]} = {1} \cup {came[t]}
      BY FS_Singleton, FS_AddElement
    <3> HIDE DEF f, T
    <3>4. IsFiniteSet({f[u] : u \in T})
      BY <3>1, FiniteImage
    <3> QED  BY <3>2, <3>3, <3>4, FS_Union DEF T
  <2>3. \A x \in whens : x \in Int
    <3>1. came[t] \in Int
      BY <1>2 DEF Sto!TypeOK
    <3> QED  BY <1>2, <1>3, <3>1
  <2>4. \A u \in Sto!TagsOf(library[t]) : Sto!Used(u) \in whens
    BY <1>2
  <2>5. whens # {}
    OBVIOUS
  <2> HIDE DEF whens
  <2>6. Sto!Max(whens) \in Int /\ \A x \in whens : Sto!Max(whens) >= x
    BY <2>2, <2>3, <2>5, GreatestOfSome DEF Sto!Max
  <2> QED  BY <1>2, <1>3, <2>1, <2>4, <2>6
<1>5. ASSUME NEW u \in Sto!TagsOf(library[t]), NEW d \in Sto!Days, d + UnusedDays > today PROVE week[u][d] = 0
  <2>1. u \in Tags /\ d \in Nat /\ week[u][d] \in 0..1
    <3>1. u \in Tags /\ week \in [Tags -> [Sto!Days -> 0..1]]
      BY <1>2 DEF Sto!TypeOK
    <3>2. d \in Nat
      BY StorageConstants DEF Sto!Days
    <3> QED  BY <3>1, <3>2
  <2>2. week[u][d] > 0 => d <= Sto!Used(u)
    BY <1>3, <2>1
  <2>3. Sto!Used(u) \in Nat /\ Sto!Used(u) <= Sto!IdleSince(t)
    BY <1>3, <1>4, <2>1
  <2>4. ~(week[u][d] > 0)
    BY <1>1, <1>4, <1>5, <2>1, <2>2, <2>3
  <2> QED  BY <2>1, <2>4
<1>6. Sto!SummarizeUnused(UnusedDays).bytes <= Sto!OnDisk
  <2> DEFINE names == Sto!UnusedFor(UnusedDays)
             all == UNION {Sto!Blobs(c) : c \in Sto!Present}
  <2>1. Sto!SummarizeUnused(UnusedDays).bytes = Sto!Freed(names)
    BY DEF Sto!SummarizeUnused
  <2>2. all \subseteq Blob /\ IsFiniteSet(all)
    BY PresentIsFinite
  <2>3. Sto!OnDisk = SumFunctionOnSet(Sto!BlobSize, all)
    BY <2>2, BlobsMeasure DEF Sto!OnDisk
  <2> HIDE DEF names
  <2>4. Sto!Freed(names) = SumFunctionOnSet(Sto!BlobSize, Loosened(names)) /\ Loosened(names) \subseteq all
    BY FreedIsSum
  <2>5. \A b \in all : Sto!BlobSize[b] \in Nat
    BY <2>2, BlobsMeasure
  <2> QED  BY <2>1, <2>2, <2>3, <2>4, <2>5, SumOfPart
<1> QED  BY <1>5, <1>6

\* What each of a group's quantisations frees is apart from what the others free.
LEMMA QuantsAreApart == ASSUME Sto!TypeOK PROVE Sto!QuantsApart
<1>1. ASSUME NEW g \in Sto!DuplicateQuants, NEW h \in Sto!DuplicateQuants, Sto!Entries(g) \cap Sto!Entries(h) # {}
      PROVE  g = h
  BY <1>1 DEF Sto!Entries
<1>2. \A t \in Sto!Installed : library[t] \notin Sto!OtherQuants(t)
  BY DEF Sto!OtherQuants
<1>3. ASSUME NEW g \in Sto!DuplicateQuants
      PROVE  Sto!SumFunctionOnSet([c \in Sto!Entries(g) |-> Sto!Frees(c)], Sto!Entries(g))
                 <= Sto!Freed(UNION {Sto!TagsOf(c) : c \in Sto!Entries(g)})
  <2> DEFINE U == Sto!Entries(g)
             together == UNION {Sto!TagsOf(c) : c \in U}
             S == Loosened(together)
             L == [c \in U |-> Loosened(Sto!TagsOf(c))]
             frees == [c \in U |-> Sto!Frees(c)]
             f == Sto!BlobSize
  <2>1. U \subseteq Sto!Present /\ IsFiniteSet(U)
    BY PresentIsFinite, FS_Subset DEF Sto!Entries
  <2> HIDE DEF U
  <2>2. ASSUME NEW c \in U PROVE Sto!Gone(Sto!TagsOf(c)) = {c}
    BY <2>1, TagsNamePresent DEF Sto!Gone
  <2>3. ASSUME NEW c \in U PROVE c \in Sto!Gone(together)
    BY <2>1 DEF Sto!Gone
  <2>4. ASSUME NEW c \in U, NEW b
        PROVE  b \in L[c] <=> b \in Sto!Blobs(c) /\ Sto!Users(b) \subseteq {c}
    BY <2>2 DEF Loosened
  <2>5. \A u \in U : L[u] \in SUBSET S
    <3> SUFFICES ASSUME NEW u \in U, NEW b \in L[u] PROVE b \in S
      OBVIOUS
    <3>1. b \in Sto!Blobs(u) /\ Sto!Users(b) \subseteq {u}
      BY <2>4
    <3> QED  BY <2>3, <3>1 DEF Loosened
  <2>6. \A u, w \in U : u # w => L[u] \cap L[w] = {}
    <3> SUFFICES ASSUME NEW u \in U, NEW w \in U, u # w, NEW b \in L[u] \cap L[w] PROVE FALSE
      OBVIOUS
    <3>1. b \in Sto!Blobs(w) /\ Sto!Users(b) \subseteq {u}
      BY <2>4
    <3>2. w \in Sto!Users(b)
      BY <2>1, <3>1 DEF Sto!Users
    <3> QED  BY <3>1, <3>2
  <2>7. \A u \in U : frees[u] = SumFunctionOnSet(f, L[u])
    BY FreedIsSum DEF Sto!Frees
  <2>8. IsFiniteSet(S) /\ (\A b \in S : f[b] \in Nat) /\ Sto!Freed(together) = SumFunctionOnSet(f, S)
    BY FreedIsSum, BlobsMeasure
  <2> HIDE DEF S, L, f, frees, together
  <2>9. SumFunctionOnSet(frees, U) <= SumFunctionOnSet(f, S)
    BY <2>1, <2>5, <2>6, <2>7, <2>8, SumOfApart
  <2>10. Sto!SumFunctionOnSet(frees, U) <= Sto!Freed(together)
    BY <2>8, <2>9, SameSum
  <2> QED  BY <2>10 DEF frees, together, U
<1> QED  BY <1>1, <1>2, <1>3 DEF Sto!QuantsApart

\* The series of the chart and the rest make up the day's use.
LEMMA BarsAddUp == ASSUME Sto!TypeOK PROVE Sto!ChartAddsUp
<1> SUFFICES ASSUME NEW d \in Sto!Days
             PROVE  Sto!SumFunctionOnSet(Sto!Bars[d], DOMAIN Sto!Bars[d]) = Sto!SumFunctionOnSet(Sto!UsedOn(d), Tags)
  BY DEF Sto!ChartAddsUp
<1> DEFINE series == Sto!Series
           rest == Sto!Busy \ series
           bar == Sto!Bars[d]
           used == Sto!UsedOn(d)
<1>1. series \subseteq Sto!Busy /\ Sto!Busy \subseteq Tags /\ None \notin Tags /\ IsFiniteSet(Tags)
  BY StorageConstants DEF Sto!Series, Sto!Busy
<1>2. bar = [s \in series \cup IF rest = {} THEN {} ELSE {None} |->
                IF s \in series THEN week[s][d] ELSE Sto!SumFunctionOnSet(used, rest)]
  BY DEF Sto!Bars
<1>3. \A t \in Tags : used[t] = week[t][d] /\ used[t] \in Nat
  BY DEF Sto!UsedOn, Sto!TypeOK
<1>4. \A t \in Tags \ Sto!Busy : used[t] = 0
  <2> SUFFICES ASSUME NEW t \in Tags \ Sto!Busy PROVE week[t][d] = 0
    BY <1>3
  <2>1. IsFiniteSet(Sto!Days) /\ \A e \in Sto!Days : week[t][e] \in Nat
    <3>1. week \in [Tags -> [Sto!Days -> 0..1]]
      BY DEF Sto!TypeOK
    <3>2. IsFiniteSet(Sto!Days)
      BY StorageConstants, FS_Interval DEF Sto!Days
    <3> QED  BY <3>1, <3>2
  <2>2. Sto!Seconds(t) = SumFunctionOnSet(week[t], Sto!Days)
    BY SameSum DEF Sto!Seconds
  <2>3. SumFunctionOnSet(week[t], Sto!Days) = week[t][d] + SumFunctionOnSet(week[t], Sto!Days \ {d})
    BY <2>1, SumWithout
  <2>4. SumFunctionOnSet(week[t], Sto!Days \ {d}) \in Nat
    BY <2>1, FS_Subset, SumIsNat
  <2>5. ~(Sto!Seconds(t) > 0)
    BY DEF Sto!Busy
  <2> QED  BY <2>1, <2>2, <2>3, <2>4, <2>5
<1> HIDE DEF series, bar, used
<1>5. IsFiniteSet(Sto!Busy) /\ IsFiniteSet(series) /\ IsFiniteSet(rest)
  BY <1>1, FS_Subset
<1>6. SumFunctionOnSet(used, Tags) = SumFunctionOnSet(used, Sto!Busy)
  <2>1. SumFunctionOnSet(used, Tags) = SumFunctionOnSet(used, Sto!Busy) + SumFunctionOnSet(used, Tags \ Sto!Busy)
    BY <1>1, <1>3, SumOfParts
  <2>2. SumFunctionOnSet(used, Tags \ Sto!Busy) = 0
    BY <1>1, <1>4, FS_Subset, SumOfNaught
  <2>3. SumFunctionOnSet(used, Sto!Busy) \in Nat
    BY <1>1, <1>3, <1>5, SumIsNat
  <2> QED  BY <2>1, <2>2, <2>3
<1>7. SumFunctionOnSet(used, Sto!Busy) = SumFunctionOnSet(used, series) + SumFunctionOnSet(used, rest)
  BY <1>1, <1>3, <1>5, SumOfParts
<1>8. SumFunctionOnSet(bar, series) = SumFunctionOnSet(used, series) /\ \A s \in series : bar[s] \in Nat
  <2>1. \A s \in series : bar[s] = used[s]
    BY <1>1, <1>2, <1>3
  <2> QED  BY <1>1, <1>3, <1>5, <2>1, SumOfSame
<1>9. SumFunctionOnSet(used, series) \in Nat /\ SumFunctionOnSet(used, rest) \in Nat
  BY <1>1, <1>3, <1>5, SumIsNat
<1>10. CASE rest = {}
  <2>1. DOMAIN bar = series
    BY <1>2, <1>10
  <2>2. SumFunctionOnSet(used, rest) = 0
    BY <1>10, SumOfNone
  <2> QED  BY <1>6, <1>7, <1>8, <1>9, <2>1, <2>2, SameSum DEF bar, used
<1>11. CASE rest # {}
  <2>1. DOMAIN bar = series \cup {None} /\ None \notin series /\ bar[None] = SumFunctionOnSet(used, rest)
    BY <1>1, <1>2, <1>11, SameSum
  <2>2. (series \cup {None}) \ {None} = series
    BY <2>1
  <2>3. IsFiniteSet(series \cup {None}) /\ \A s \in series \cup {None} : bar[s] \in Nat
    BY <1>5, <1>8, <1>9, <2>1, FS_AddElement
  <2>4. SumFunctionOnSet(bar, series \cup {None}) = bar[None] + SumFunctionOnSet(bar, series)
    BY <2>2, <2>3, SumWithout
  <2> QED  BY <1>6, <1>7, <1>8, <1>9, <2>1, <2>4, SameSum DEF bar, used
<1> QED  BY <1>10, <1>11

\* What the Models page says of a library agrees with it and adds up, whatever
\* its models share and whichever manifests can be read (storage.go: DeleteEffect;
\* unused.go: summarizeUnused; dupes.go: duplicateQuants; weekusage.go: buildWeekUsage).
THEOREM PageFiguresAddUp == PagesSpec => []FiguresAddUp
<1>1. PagesInit => Sto!TypeOK
  BY InitStorage DEF PagesInit
<1>2. Sto!TypeOK /\ [PagesNext]_allVars => Sto!TypeOK'
  BY NextStorage, StepKinds
<1>3. Sto!TypeOK => FiguresAddUp
  BY DialogsSayWhatFrees, UnusedAreIdle, QuantsAreApart, BarsAddUp DEF FiguresAddUp, Sto!FiguresAddUp
<1> QED  BY <1>1, <1>2, <1>3, PTL DEF PagesSpec

-----------------------------------------------------------------------------
(* ModelsPage: the order is total, so every model has a place of its own;  *)
(* and a walk along Next has been shown the places up to the page's end.   *)

All(st)   == Lst!SortModels(Lst!Matching(listed, st), st.sort, st.desc, lastUsed)
Count(st) == Cardinality(Lst!Matching(listed, st))
End(st)   == Lst!Least(st.page * PageSize, Count(st))

\* What the list is read from.
Readable ==
    /\ listed \subseteq ListModels
    /\ lastUsed \in [ListModels -> 0..Changes]
    /\ reachable \in BOOLEAN

\* A walk has been shown what comes before the end of its page.
Walked(pg, tr) ==
    tr # None =>
        /\ reachable
        /\ pg.st.page <= Lst!TotalPages(Count(pg.st))
        /\ pg.more = (pg.st.page < Lst!TotalPages(Count(pg.st)))
        /\ tr = SubSeq(All(pg.st), 1, End(pg.st))

Browsing == Lst!TypeOK /\ Walked(page, trail)

\* The constants of ModelsPage, one by one.
LEMMA ListConstants ==
    /\ ListModels \subseteq Nat /\ IsFiniteSet(ListModels)
    /\ Keeps \in [Filters -> SUBSET ListModels]
    /\ Invalid \cap Filters = {}
    /\ SizeOf \in [ListModels -> Nat]
    /\ PageSize \in Nat \ {0} /\ Changes \in Nat
    /\ None \notin {"name", "size", "used", "asc", "desc"}
<1>1. /\ ListModels \subseteq Nat /\ Lst!IsFiniteSet(ListModels)
      /\ Keeps \in [Filters -> SUBSET ListModels]
      /\ Invalid \cap Filters = {}
      /\ SizeOf \in [ListModels -> Nat]
      /\ PageSize \in Nat \ {0} /\ Changes \in Nat
      /\ None \notin {"name", "size", "used", "asc", "desc"}
  BY PartsAssumption DEF Lst!ModelsPageAssumption
<1>2. IsFiniteSet(ListModels)
  BY <1>1 DEF Lst!IsFiniteSet, IsFiniteSet
<1> QED  BY <1>1, <1>2

\* The instance counts as everybody does.
LEMMA SameCount == ASSUME NEW S PROVE Lst!Cardinality(S) = Cardinality(S)
BY DEF Lst!Cardinality, Cardinality

\* The order of any column is total.
LEMMA OrderIsTotal ==
    ASSUME NEW used \in [ListModels -> Nat], NEW key, NEW desc \in BOOLEAN, NEW a \in ListModels, NEW b \in ListModels
    PROVE  /\ ~Lst!Before(key, desc, used, a, a)
           /\ a # b => Lst!Before(key, desc, used, a, b) \/ Lst!Before(key, desc, used, b, a)
<1>1. a \in Nat /\ b \in Nat
  BY ListConstants
<1>2. Lst!Value(key, used, a) \in Nat /\ Lst!Value(key, used, b) \in Nat
  <2>1. SizeOf[a] \in Nat /\ SizeOf[b] \in Nat /\ used[a] \in Nat /\ used[b] \in Nat
    BY ListConstants
  <2>2. used[a] \in Nat /\ used[b] \in Nat
    BY <2>1, ListConstants
  <2> QED  BY <2>1, <2>2 DEF Lst!Value
<1>3. Lst!Known(key, used, a) \in BOOLEAN /\ Lst!Known(key, used, b) \in BOOLEAN
  BY DEF Lst!Known
<1> QED  BY <1>1, <1>2, <1>3 DEF Lst!Before

\* And transitive.
LEMMA OrderIsTransitive ==
    ASSUME NEW used \in [ListModels -> Nat], NEW key, NEW desc \in BOOLEAN,
           NEW a \in ListModels, NEW b \in ListModels, NEW c \in ListModels,
           Lst!Before(key, desc, used, a, b), Lst!Before(key, desc, used, b, c)
    PROVE  Lst!Before(key, desc, used, a, c)
<1>1. a \in Nat /\ b \in Nat /\ c \in Nat
  BY ListConstants
<1>2. Lst!Value(key, used, a) \in Nat /\ Lst!Value(key, used, b) \in Nat /\ Lst!Value(key, used, c) \in Nat
  <2>1. /\ SizeOf[a] \in Nat /\ SizeOf[b] \in Nat /\ SizeOf[c] \in Nat
        /\ used[a] \in Nat /\ used[b] \in Nat /\ used[c] \in Nat
    BY ListConstants
  <2>2. used[a] \in Nat /\ used[b] \in Nat /\ used[c] \in Nat
    BY <2>1, ListConstants
  <2> QED  BY <2>1, <2>2 DEF Lst!Value
<1>3. Lst!Known(key, used, a) \in BOOLEAN /\ Lst!Known(key, used, b) \in BOOLEAN /\ Lst!Known(key, used, c) \in BOOLEAN
  BY DEF Lst!Known
<1>4. CASE key = "name"
  BY <1>1, <1>4 DEF Lst!Before
<1>5. CASE key # "name" /\ desc
  BY <1>1, <1>2, <1>3, <1>5 DEF Lst!Before
<1>6. CASE key # "name" /\ ~desc
  BY <1>1, <1>2, <1>3, <1>6 DEF Lst!Before
<1> QED  BY <1>4, <1>5, <1>6

\* Every model has a place of its own, in the order.
LEMMA PlacesAreApart ==
    ASSUME NEW used \in [ListModels -> Nat], NEW M \in SUBSET ListModels, NEW key, NEW desc \in BOOLEAN
    PROVE  /\ \A m \in M : Lst!Place(M, key, desc, used, m) \in 0..(Cardinality(M) - 1)
           /\ \A a, b \in M : Lst!Before(key, desc, used, a, b) =>
                  Lst!Place(M, key, desc, used, a) < Lst!Place(M, key, desc, used, b)
           /\ \A a, b \in M : Lst!Place(M, key, desc, used, a) = Lst!Place(M, key, desc, used, b) => a = b
<1> DEFINE Prior(m) == {k \in M : Lst!Before(key, desc, used, k, m)}
<1>1. IsFiniteSet(M) /\ Cardinality(M) \in Nat
  BY ListConstants, FS_Subset, FS_CardinalityType
<1>2. \A m \in M : Lst!Place(M, key, desc, used, m) = Cardinality(Prior(m))
  BY SameCount DEF Lst!Place
<1>3. ASSUME NEW m \in M PROVE Cardinality(Prior(m)) \in 0..(Cardinality(M) - 1)
  <2>1. m \notin Prior(m) /\ Prior(m) \subseteq M
    BY OrderIsTotal
  <2> HIDE DEF Prior
  <2>2. IsFiniteSet(Prior(m)) /\ Cardinality(Prior(m)) <= Cardinality(M) /\ Cardinality(Prior(m)) # Cardinality(M)
    BY <1>1, <2>1, FS_Subset
  <2>3. Cardinality(Prior(m)) \in Nat
    BY <2>2, FS_CardinalityType
  <2> QED  BY <1>1, <2>2, <2>3
<1>4. ASSUME NEW a \in M, NEW b \in M, Lst!Before(key, desc, used, a, b)
      PROVE  Cardinality(Prior(a)) < Cardinality(Prior(b))
  <2>1. Prior(a) \subseteq Prior(b) /\ a \in Prior(b) /\ a \notin Prior(a) /\ Prior(b) \subseteq M
    <3>1. \A k \in Prior(a) : Lst!Before(key, desc, used, k, b)
      BY <1>4, OrderIsTransitive
    <3>2. ~Lst!Before(key, desc, used, a, a)
      BY OrderIsTotal
    <3> QED  BY <1>4, <3>1, <3>2
  <2> HIDE DEF Prior
  <2>2. IsFiniteSet(Prior(b))
    BY <1>1, <2>1, FS_Subset
  <2>3. Cardinality(Prior(a)) <= Cardinality(Prior(b)) /\ Cardinality(Prior(a)) # Cardinality(Prior(b))
    BY <2>1, <2>2, FS_Subset
  <2>4. Cardinality(Prior(a)) \in Nat /\ Cardinality(Prior(b)) \in Nat
    BY <1>1, <1>3
  <2> QED  BY <2>3, <2>4
<1> HIDE DEF Prior
<1>5. \A m \in M : Cardinality(Prior(m)) \in Nat
  BY <1>1, <1>3
<1>6. ASSUME NEW a \in M, NEW b \in M, Cardinality(Prior(a)) = Cardinality(Prior(b)) PROVE a = b
  <2>1. ~Lst!Before(key, desc, used, a, b) /\ ~Lst!Before(key, desc, used, b, a)
    BY <1>4, <1>5, <1>6
  <2> QED  BY <2>1, OrderIsTotal
<1> QED  BY <1>2, <1>3, <1>4, <1>6

\* So the list has every model once, in order.
LEMMA SortedOnce ==
    ASSUME NEW used \in [ListModels -> Nat], NEW M \in SUBSET ListModels, NEW key, NEW desc \in BOOLEAN,
           NEW all, all = Lst!SortModels(M, key, desc, used), NEW n, n = Cardinality(M)
    PROVE  /\ n \in Nat /\ all \in Seq(M) /\ Len(all) = n
           /\ \A i, j \in 1..n : i < j => Lst!Before(key, desc, used, all[i], all[j])
           /\ \A m \in M : \E i \in 1..n : all[i] = m
<1> DEFINE P(m) == Lst!Place(M, key, desc, used, m)
           f == [m \in M |-> P(m) + 1]
<1>1. IsFiniteSet(M) /\ n \in Nat
  BY ListConstants, FS_Subset, FS_CardinalityType
<1>2. /\ \A m \in M : P(m) \in 0..(n - 1)
      /\ \A a, b \in M : Lst!Before(key, desc, used, a, b) => P(a) < P(b)
      /\ \A a, b \in M : P(a) = P(b) => a = b
  BY PlacesAreApart
<1>3. all = [i \in 1..n |-> CHOOSE m \in M : P(m) = i - 1]
  BY SameCount DEF Lst!SortModels
<1> HIDE DEF P
<1>4. \A i \in 1..n : \E m \in M : P(m) = i - 1
  <2>1. f \in Injection(M, 1..n)
    <3>1. f \in [M -> 1..n]
      BY <1>1, <1>2
    <3>2. \A a, b \in M : f[a] = f[b] => a = b
      BY <1>1, <1>2
    <3> HIDE DEF f
    <3> QED  BY <3>1, <3>2 DEF Injection, IsInjective
  <2>2. IsFiniteSet(1..n) /\ Cardinality(1..n) = Cardinality(M)
    BY <1>1, FS_Interval
  <2>3. f \in Surjection(M, 1..n)
    <3> HIDE DEF f
    <3> QED  BY <2>1, <2>2, FS_Injection
  <2>4. \A i \in 1..n : \E m \in M : f[m] = i
    <3> HIDE DEF f
    <3> QED  BY <2>3 DEF Surjection
  <2> QED  BY <1>1, <1>2, <2>4
<1>5. \A i \in 1..n : all[i] \in M /\ P(all[i]) = i - 1
  BY <1>3, <1>4
<1>6. all \in [1..n -> M]
  BY <1>3, <1>5
<1>7. all \in Seq(M) /\ Len(all) = n
  BY <1>1, <1>6
<1>8. ASSUME NEW i \in 1..n, NEW j \in 1..n, i < j PROVE Lst!Before(key, desc, used, all[i], all[j])
  <2>1. /\ all[i] \in M /\ all[j] \in M /\ P(all[i]) = i - 1 /\ P(all[j]) = j - 1
    BY <1>5
  <2>2. all[i] # all[j] /\ ~(P(all[j]) < P(all[i]))
    BY <1>1, <1>8, <2>1
  <2> QED  BY <1>2, <2>1, <2>2, OrderIsTotal
<1>9. ASSUME NEW m \in M PROVE \E i \in 1..n : all[i] = m
  <2>1. P(m) + 1 \in 1..n /\ (P(m) + 1) - 1 = P(m)
    BY <1>1, <1>2
  <2>2. all[P(m) + 1] = m
    BY <1>2, <1>5, <2>1
  <2> QED  BY <2>1, <2>2
<1> QED  BY <1>1, <1>7, <1>8, <1>9

-----------------------------------------------------------------------------
\* Pages.  A page is the last if it ends where the list ends.
LEMMA PagesFit ==
    ASSUME NEW n \in Nat, NEW p \in Nat \ {0}
    PROVE  /\ Lst!TotalPages(n) \in Nat \ {0}
           /\ p < Lst!TotalPages(n) => p * PageSize < n
           /\ p >= Lst!TotalPages(n) => p * PageSize >= n
<1> DEFINE s == PageSize
           q == (n + s - 1) \div s
<1>1. s \in Nat /\ s > 0 /\ n + s - 1 \in Nat
  BY ListConstants
<1>2. Lst!TotalPages(n) = IF n = 0 THEN 1 ELSE q
  BY DEF Lst!TotalPages
<1> HIDE DEF s
<1>3. q \in Int /\ q * s <= n + s - 1 /\ n + s - 1 < q * s + s
  BY <1>1
<1> HIDE DEF q
<1>4. n # 0 => q > 0
  <2> SUFFICES ASSUME n # 0, q <= 0 PROVE FALSE
    BY <1>3
  <2>1. q * s <= 0
    BY <1>1, <1>3
  <2> QED  BY <1>1, <1>3, <2>1
<1>5. ASSUME n # 0, p < q PROVE p * s < n
  <2>1. p + 1 <= q
    BY <1>3, <1>5
  <2>2. (p + 1) * s <= q * s
    BY <1>1, <1>3, <2>1
  <2>3. (p + 1) * s = p * s + s
    BY <1>1
  <2> QED  BY <1>1, <1>3, <2>2, <2>3
<1>6. ASSUME n # 0, p >= q PROVE p * s >= n
  <2>1. p * s >= q * s
    BY <1>1, <1>3, <1>6
  <2> QED  BY <1>1, <1>3, <2>1
<1>7. p * s >= 0
  BY <1>1
<1> QED  BY <1>2, <1>3, <1>4, <1>5, <1>6, <1>7 DEF s

\* A link says all there is to say of a state of the list.
LEMMA LinksKeepState ==
    ASSUME NEW st \in Lst!State
    PROVE  Lst!ParseListState(Lst!URL(st)) = st
<1> DEFINE u == Lst!URL(st)
<1>1. /\ st.filters \subseteq Filters /\ st.sort \in Lst!SortKeys /\ st.desc \in BOOLEAN /\ st.page \in Nat \ {0}
      /\ st = [filters |-> st.filters, sort |-> st.sort, desc |-> st.desc, page |-> st.page]
  BY DEF Lst!State
<1>2. /\ u.filters = st.filters
      /\ u.sort = IF Lst!IsDefaultSort(st) THEN None ELSE st.sort
      /\ u.dir = IF Lst!IsDefaultSort(st) THEN None ELSE Lst!Dir(st)
      /\ u.page = IF st.page > 1 THEN st.page ELSE 0
  BY DEF Lst!URL
<1>3. Lst!ParseListState(u) = [filters |-> u.filters \ Invalid, sort |-> IF u.sort = None THEN "used" ELSE u.sort,
                               desc |-> (u.sort = None \/ u.dir = "desc"),
                               page |-> IF u.page > 0 THEN u.page ELSE 1]
  BY DEF Lst!ParseListState
<1> HIDE DEF u
<1>4. u.filters \ Invalid = st.filters
  BY <1>1, <1>2, ListConstants
<1>5. None \notin Lst!SortKeys /\ None # "desc"
  BY ListConstants DEF Lst!SortKeys
<1>6. (IF u.sort = None THEN "used" ELSE u.sort) = st.sort
  BY <1>1, <1>2, <1>5 DEF Lst!IsDefaultSort
<1>7. (u.sort = None \/ u.dir = "desc") = st.desc
  <2>1. CASE Lst!IsDefaultSort(st)
    BY <1>1, <1>2, <2>1 DEF Lst!IsDefaultSort
  <2>2. CASE ~Lst!IsDefaultSort(st)
    <3>1. u.sort # None /\ u.dir = Lst!Dir(st)
      BY <1>1, <1>2, <1>5, <2>2
    <3>2. Lst!Dir(st) = "desc" <=> st.desc
      BY <1>1 DEF Lst!Dir
    <3> QED  BY <1>1, <3>1, <3>2
  <2> QED  BY <2>1, <2>2
<1>8. (IF u.page > 0 THEN u.page ELSE 1) = st.page
  BY <1>1, <1>2
<1> QED  BY <1>1, <1>3, <1>4, <1>6, <1>7, <1>8 DEF u

\* What is matched is in the library.
LEMMA MatchingIsListed ==
    ASSUME Readable, NEW st \in Lst!State
    PROVE  /\ Lst!Matching(listed, st) \in SUBSET ListModels
           /\ Count(st) \in Nat
           /\ All(st) \in Seq(Lst!Matching(listed, st)) /\ Len(All(st)) = Count(st)
<1>1. Lst!Matching(listed, st) \in SUBSET ListModels
  BY DEF Lst!Matching, Readable
<1>2. st.desc \in BOOLEAN
  BY DEF Lst!State
<1>3. lastUsed \in [ListModels -> Nat]
  BY ListConstants DEF Readable
<1> QED  BY <1>1, <1>2, <1>3, SortedOnce DEF All, Count

\* The length of a part of a sequence.
LEMMA PartLength ==
    ASSUME NEW S, NEW s \in Seq(S), NEW a \in Nat, NEW b \in Nat, b <= Len(s)
    PROVE  Len(SubSeq(s, a + 1, b)) = IF a < b THEN b - a ELSE 0
<1>1. \A i \in (a + 1)..b : s[i] \in S
  OBVIOUS
<1>2. Len(SubSeq(s, a + 1, b)) = IF a + 1 <= b THEN b - (a + 1) + 1 ELSE 0
  BY <1>1, SubSeqProperties
<1> QED  BY <1>2

\* What is shown of a state of the list.
LEMMA RenderIsPage ==
    ASSUME Readable, NEW st \in Lst!State, NEW pg, pg = Lst!Render(st)
    PROVE  /\ pg.error = ~reachable
           /\ pg.st \in Lst!State /\ pg.more \in BOOLEAN /\ Len(pg.rows) <= PageSize
           /\ pg.st.filters = st.filters /\ pg.st.sort = st.sort /\ pg.st.desc = st.desc
           /\ All(pg.st) = All(st) /\ Count(pg.st) = Count(st)
           /\ reachable =>
                /\ pg.st.page = Lst!Least(st.page, Lst!TotalPages(Count(st)))
                /\ pg.more = (pg.st.page < Lst!TotalPages(Count(st)))
                /\ pg.rows = SubSeq(All(st), (pg.st.page - 1) * PageSize + 1, End(pg.st))
<1> DEFINE n == Count(st)
           pages == Lst!TotalPages(n)
           p == Lst!Least(st.page, pages)
           here == [st EXCEPT !.page = p]
           rows == SubSeq(All(st), (p - 1) * PageSize + 1, Lst!Least(p * PageSize, n))
<1>1. n \in Nat /\ Len(All(st)) = n /\ All(st) \in Seq(Lst!Matching(listed, st))
  BY MatchingIsListed
<1>2. st.page \in Nat \ {0}
  BY DEF Lst!State
<1>3. pages \in Nat \ {0} /\ PageSize \in Nat \ {0}
  BY <1>1, <1>2, PagesFit, ListConstants
<1>4. p \in Nat \ {0} /\ p <= pages
  BY <1>2, <1>3 DEF Lst!Least
<1>5. pg = IF reachable THEN [error |-> FALSE, st |-> here, rows |-> rows, more |-> p < pages]
           ELSE [error |-> TRUE, st |-> st, rows |-> <<>>, more |-> FALSE]
  BY <1>1 DEF Lst!Render, All
<1>6. /\ here \in Lst!State /\ here.filters = st.filters /\ here.sort = st.sort /\ here.desc = st.desc
      /\ here.page = p
  BY <1>4 DEF Lst!State
<1> HIDE DEF here
<1>7. All(here) = All(st) /\ Count(here) = n
  BY <1>6 DEF All, Count, Lst!Matching
<1>8. Len(rows) <= PageSize
  <2> DEFINE a == (p - 1) * PageSize
             b == Lst!Least(p * PageSize, n)
  <2>1. a \in Nat /\ p * PageSize = a + PageSize
    BY <1>3, <1>4
  <2>2. b \in Nat /\ b <= a + PageSize /\ b <= n
    BY <1>1, <2>1, <1>3 DEF Lst!Least
  <2>3. rows = SubSeq(All(st), a + 1, b)
    OBVIOUS
  <2> HIDE DEF a, b, rows, n
  <2>4. Len(rows) = IF a < b THEN b - a ELSE 0
    BY <1>1, <2>1, <2>2, <2>3, PartLength
  <2>5. b - a <= PageSize
    BY <1>3, <2>1, <2>2
  <2> QED  BY <1>3, <2>4, <2>5
<1>9. End(here) = Lst!Least(p * PageSize, n)
  BY <1>6, <1>7 DEF End
<1> DEFINE more == p < pages
<1>10. CASE reachable
  <2>1. pg.error = FALSE /\ pg.st = here /\ pg.rows = rows /\ pg.more = more
    <3>1. pg = [error |-> FALSE, st |-> here, rows |-> rows, more |-> more]
      BY <1>5, <1>10
    <3> HIDE DEF rows, more
    <3> QED  BY <3>1
  <2>2. more \in BOOLEAN
    OBVIOUS
  <2>3. pg.rows = SubSeq(All(st), (pg.st.page - 1) * PageSize + 1, End(pg.st))
    BY <1>6, <1>9, <2>1
  <2>4. pg.more = (pg.st.page < Lst!TotalPages(Count(st)))
    BY <1>6, <2>1
  <2>5. pg.st.page = Lst!Least(st.page, Lst!TotalPages(Count(st)))
    BY <1>6, <2>1
  <2> HIDE DEF rows, more, p, pages, n
  <2>6. All(pg.st) = All(st) /\ Count(pg.st) = Count(st)
    BY <1>7, <2>1 DEF n
  <2> QED  BY <1>6, <1>8, <1>10, <2>1, <2>2, <2>3, <2>4, <2>5, <2>6
<1>11. CASE ~reachable
  <2>1. pg.error = TRUE /\ pg.st = st /\ pg.rows = <<>> /\ pg.more = FALSE
    BY <1>5, <1>11
  <2>2. Len(<<>>) <= PageSize
    BY <1>3
  <2> QED  BY <1>11, <2>1, <2>2
<1> QED  BY <1>10, <1>11 DEF Readable

\* A walk that begins with a page begins with the first.
LEMMA WalkBegins ==
    ASSUME Readable, NEW st \in Lst!State, NEW pg, pg = Lst!Render(st),
           NEW tr, tr = IF pg.st.page = 1 /\ ~pg.error THEN pg.rows ELSE None
    PROVE  Walked(pg, tr)
<1> SUFFICES ASSUME tr # None PROVE Walked(pg, tr)
  BY DEF Walked
<1>1. pg.st.page = 1 /\ ~pg.error /\ tr = pg.rows
  OBVIOUS
<1>2. reachable
  BY <1>1, RenderIsPage DEF Readable
<1>3. /\ 1 = Lst!Least(st.page, Lst!TotalPages(Count(st)))
      /\ pg.more = (1 < Lst!TotalPages(Count(st)))
      /\ pg.rows = SubSeq(All(st), (1 - 1) * PageSize + 1, End(pg.st))
      /\ All(pg.st) = All(st) /\ Count(pg.st) = Count(st)
  BY <1>1, <1>2, RenderIsPage
<1>4. (1 - 1) * PageSize + 1 = 1
  BY ListConstants
<1>5. Lst!TotalPages(Count(st)) \in Nat \ {0}
  BY MatchingIsListed, PagesFit
<1>6. pg.st.page <= Lst!TotalPages(Count(pg.st)) /\ pg.more = (pg.st.page < Lst!TotalPages(Count(pg.st)))
  BY <1>1, <1>3, <1>5
<1>7. tr = SubSeq(All(pg.st), 1, End(pg.st))
  BY <1>1, <1>3, <1>4
<1> QED  BY <1>2, <1>6, <1>7 DEF Walked

\* A walk that goes on goes on where it was.
LEMMA WalkGoesOn ==
    ASSUME Readable, NEW pg, pg.st \in Lst!State, pg.more,
           NEW tr, tr # None, Walked(pg, tr),
           NEW st, st = [pg.st EXCEPT !.page = @ + 1],
           NEW next, next = Lst!Render(st), ~next.error
    PROVE  Walked(next, tr \o next.rows)
<1> DEFINE p == pg.st.page
           n == Count(pg.st)
           all == All(pg.st)
           pages == Lst!TotalPages(n)
<1>1. /\ p \in Nat \ {0} /\ st \in Lst!State /\ st.page = p + 1
      /\ st.filters = pg.st.filters /\ st.sort = pg.st.sort /\ st.desc = pg.st.desc
  BY DEF Lst!State
<1>2. All(st) = all /\ Count(st) = n
  BY <1>1 DEF All, Count, Lst!Matching
<1>3. n \in Nat /\ all \in Seq(Lst!Matching(listed, pg.st)) /\ Len(all) = n
  BY MatchingIsListed
<1>4. reachable /\ p < pages /\ tr = SubSeq(all, 1, Lst!Least(p * PageSize, n))
  BY DEF Walked, End
<1>5. pages \in Nat \ {0} /\ p * PageSize < n /\ p * PageSize \in Nat /\ PageSize \in Nat \ {0}
  BY <1>1, <1>3, <1>4, PagesFit, ListConstants
<1>6. /\ next.st.page = Lst!Least(p + 1, pages)
      /\ next.more = (next.st.page < pages)
      /\ next.rows = SubSeq(all, (next.st.page - 1) * PageSize + 1, End(next.st))
      /\ All(next.st) = all /\ Count(next.st) = n
  <2>1. /\ All(next.st) = All(st) /\ Count(next.st) = Count(st)
        /\ next.st.page = Lst!Least(st.page, Lst!TotalPages(Count(st)))
        /\ next.more = (next.st.page < Lst!TotalPages(Count(st)))
        /\ next.rows = SubSeq(All(st), (next.st.page - 1) * PageSize + 1, End(next.st))
    BY <1>1, <1>4, RenderIsPage
  <2> HIDE DEF all, n, p
  <2>2. Lst!TotalPages(Count(st)) = pages
    BY <1>2
  <2> QED  BY <1>1, <1>2, <2>1, <2>2
<1>7. next.st.page = p + 1
  BY <1>1, <1>4, <1>5, <1>6 DEF Lst!Least
<1> DEFINE a == p * PageSize
           b == End(next.st)
<1>8. tr = SubSeq(all, 1, a)
  BY <1>4, <1>5 DEF Lst!Least
<1>9. next.rows = SubSeq(all, a + 1, b)
  BY <1>1, <1>6, <1>7
<1>10. b \in Nat /\ a <= b /\ b <= n
  <2>1. b = Lst!Least((p + 1) * PageSize, n)
    BY <1>6, <1>7 DEF End
  <2>2. (p + 1) * PageSize = a + PageSize
    BY <1>1, <1>5
  <2> HIDE DEF b
  <2> QED  BY <1>3, <1>5, <2>1, <2>2 DEF Lst!Least
<1>11. tr \o next.rows = SubSeq(all, 1, b)
  <2>1. 1 \in 1..Len(all) + 1 /\ a \in (1 - 1)..Len(all) /\ b \in a..Len(all)
    BY <1>3, <1>5, <1>10
  <2> HIDE DEF all, a, b
  <2> QED  BY <1>3, <1>8, <1>9, <2>1, ConcatAdjacentSubSeq
<1>12. next.st.page <= pages
  BY <1>1, <1>4, <1>5, <1>7
<1> QED  BY <1>4, <1>6, <1>11, <1>12 DEF Walked

\* What an address offered stands for is a state of the list.
LEMMA AddressesAreStates ==
    ASSUME NEW a \in Lst!Addresses
    PROVE  Lst!ParseListState(a) \in Lst!State
<1>1. /\ a.filters \in {{}, Filters \cup Invalid} /\ a.sort = None /\ a.dir \in {None, "asc"} /\ a.page \in {-1, 1, 2, 9}
  BY DEF Lst!Addresses
<1>2. a.filters \ Invalid \subseteq Filters
  BY <1>1
<1>3. (IF a.page > 0 THEN a.page ELSE 1) \in Nat \ {0}
  BY <1>1
<1>4. (IF a.sort = None THEN "used" ELSE a.sort) \in Lst!SortKeys
  BY <1>1 DEF Lst!SortKeys
<1>5. (a.sort = None \/ a.dir = "desc") \in BOOLEAN
  OBVIOUS
<1> QED  BY <1>2, <1>3, <1>4, <1>5 DEF Lst!ParseListState, Lst!State

\* A list in another order, or with other filters, begins again at its first page.
LEMMA OrderedState ==
    ASSUME NEW st \in Lst!State, NEW key \in Lst!SortKeys, NEW desc \in BOOLEAN
    PROVE  [st EXCEPT !.page = 1, !.sort = key, !.desc = desc] \in Lst!State
<1>1. [st EXCEPT !.page = 1] \in Lst!State
  BY DEF Lst!State
<1>2. ASSUME NEW s \in Lst!State PROVE [s EXCEPT !.sort = key] \in Lst!State
  BY DEF Lst!State
<1>3. ASSUME NEW s \in Lst!State PROVE [s EXCEPT !.desc = desc] \in Lst!State
  BY DEF Lst!State
<1> QED  BY <1>1, <1>2, <1>3

\* The same of its filters.
LEMMA FilteredState ==
    ASSUME NEW st \in Lst!State, NEW fs \in SUBSET Filters
    PROVE  [st EXCEPT !.filters = fs, !.page = 1] \in Lst!State
<1>1. [st EXCEPT !.filters = fs] \in Lst!State
  BY DEF Lst!State
<1>2. ASSUME NEW s \in Lst!State PROVE [s EXCEPT !.page = 1] \in Lst!State
  BY DEF Lst!State
<1> QED  BY <1>1, <1>2

\* The part of the invariant that is not the browser's.
LEMMA TypeIsReadable == ASSUME Lst!TypeOK PROVE Readable
BY DEF Lst!TypeOK, Readable

\* A list shown anew leaves the invariant as it was, whatever becomes of the watcher.
LEMMA ShownIsBrowsing ==
    ASSUME Lst!TypeOK, NEW st \in Lst!State, page' = Lst!Render(st), UNCHANGED Lst!Elsewhere,
           Walked(page', trail'), seen' \in {seen, None}, pending' \in BOOLEAN
    PROVE  Browsing'
<1>1. /\ page'.error \in BOOLEAN /\ page'.st \in Lst!State /\ page'.more \in BOOLEAN /\ Len(page'.rows) <= PageSize
  BY TypeIsReadable, RenderIsPage DEF Readable
<1>2. Lst!TypeOK'
  <2>1. /\ UNCHANGED <<listed, loaded, lastUsed, reachable, changes>>
    BY DEF Lst!Elsewhere
  <2>2. Lst!State' = Lst!State
    OBVIOUS
  <2> QED  BY <1>1, <2>1, <2>2 DEF Lst!TypeOK
<1>3. Walked(page, trail)'
  BY DEF Walked, All, Count, End, Lst!Elsewhere
<1> QED  BY <1>2, <1>3 DEF Browsing

\* At first it is so.
LEMMA InitBrowsing == ASSUME Lst!Init PROVE Browsing
<1>1. Readable
  BY ListConstants DEF Readable, Lst!Init
<1>2. Lst!Default \in Lst!State
  BY DEF Lst!Default, Lst!State, Lst!SortKeys
<1>3. page = Lst!Render(Lst!Default)
  BY DEF Lst!Init
<1>4. page.error = FALSE /\ page.st.page = 1
  <2>1. page.error = ~reachable /\ page.st.page = Lst!Least(1, Lst!TotalPages(Count(Lst!Default)))
    <3>1. reachable /\ Lst!Default.page = 1
      BY DEF Lst!Init, Lst!Default
    <3> QED  BY <1>1, <1>2, <1>3, <3>1, RenderIsPage
  <2>2. Lst!TotalPages(Count(Lst!Default)) \in Nat \ {0}
    BY <1>1, <1>2, MatchingIsListed, PagesFit
  <2>3. reachable = TRUE
    BY DEF Lst!Init
  <2> DEFINE pages == Lst!TotalPages(Count(Lst!Default))
  <2> HIDE DEF pages
  <2>4. page.st.page = 1
    BY <2>1, <2>2 DEF Lst!Least, pages
  <2> QED  BY <2>1, <2>3, <2>4
<1>5. Walked(page, trail)
  <2>1. trail = IF page.st.page = 1 /\ ~page.error THEN page.rows ELSE None
    BY <1>4 DEF Lst!Init
  <2> QED  BY <1>1, <1>2, <1>3, <2>1, WalkBegins
<1>6. Lst!TypeOK
  <2>1. page.error \in BOOLEAN /\ page.st \in Lst!State /\ page.more \in BOOLEAN /\ Len(page.rows) <= PageSize
    BY <1>1, <1>2, <1>3, RenderIsPage DEF Readable
  <2>2. listed \subseteq ListModels /\ loaded \subseteq listed /\ reachable \in BOOLEAN /\ pending \in BOOLEAN /\ seen = None
    BY DEF Lst!Init
  <2>3. lastUsed \in [ListModels -> 0..Changes] /\ changes \in 0..Changes
    BY ListConstants DEF Lst!Init
  <2> QED  BY <2>1, <2>2, <2>3 DEF Lst!TypeOK
<1> QED  BY <1>5, <1>6 DEF Browsing

\* And it stays so.
LEMMA NextBrowsing == ASSUME Browsing, Lst!Next \/ UNCHANGED lstVars PROVE Browsing'
<1> USE DEF Browsing
<1>1. Readable
  BY TypeIsReadable
<1>2. pending \in BOOLEAN /\ page.st \in Lst!State
  BY DEF Lst!TypeOK
<1>3. ASSUME NEW a \in Lst!Addresses, Lst!Visit(a) PROVE Browsing'
  <2>1. Lst!ParseListState(a) \in Lst!State
    BY AddressesAreStates
  <2>2. page' = Lst!Render(Lst!ParseListState(a))
    BY <1>3 DEF Lst!Visit, Lst!Show
  <2>3. Walked(page', trail')
    BY <1>1, <1>3, <2>1, <2>2, WalkBegins DEF Lst!Visit, Lst!StartTrail
  <2> QED  BY <1>3, <2>1, <2>2, <2>3, ShownIsBrowsing DEF Lst!Visit
<1>4. ASSUME NEW st \in Lst!State, Lst!Swap(Lst!URL(st)), Lst!StartTrail PROVE Browsing'
  <2>1. page' = Lst!Render(st)
    BY <1>4, LinksKeepState DEF Lst!Swap, Lst!Show
  <2>2. Walked(page', trail')
    BY <1>1, <1>4, <2>1, WalkBegins DEF Lst!StartTrail
  <2> QED  BY <1>2, <1>4, <2>1, <2>2, ShownIsBrowsing DEF Lst!Swap
<1>5. CASE Lst!NextPage
  <2> DEFINE st == [page.st EXCEPT !.page = @ + 1]
  <2>1. st \in Lst!State
    BY <1>2 DEF Lst!State
  <2>2. page' = Lst!Render(st)
    BY <1>5, <2>1, LinksKeepState DEF Lst!NextPage, Lst!Follow, Lst!Swap, Lst!Show
  <2>3. trail' = IF trail = None \/ page'.error THEN None ELSE trail \o page'.rows
    BY <1>5 DEF Lst!NextPage
  <2>4. page.more
    BY <1>5 DEF Lst!NextPage
  <2>5. Walked(page', trail')
    <3>1. CASE trail = None \/ page'.error
      BY <2>3, <3>1 DEF Walked
    <3>2. CASE ~(trail = None \/ page'.error)
      <4>1. Walked(page', trail \o page'.rows)
        BY <1>1, <1>2, <2>2, <2>4, <3>2, WalkGoesOn
      <4> QED  BY <2>3, <3>2, <4>1
    <3> QED  BY <3>1, <3>2
  <2> QED  BY <1>2, <1>5, <2>1, <2>2, <2>5, ShownIsBrowsing DEF Lst!NextPage, Lst!Follow, Lst!Swap
<1>6. CASE Lst!PrevPage
  <2>1. [page.st EXCEPT !.page = @ - 1] \in Lst!State
    BY <1>2, <1>6 DEF Lst!PrevPage, Lst!State
  <2> QED  BY <1>4, <1>6, <2>1 DEF Lst!PrevPage, Lst!Follow
<1>7. ASSUME NEW key \in Lst!SortKeys, Lst!Sort(key) PROVE Browsing'
  <2> DEFINE st == [page.st EXCEPT !.page = 1, !.sort = key,
                                   !.desc = IF page.st.sort = key THEN ~page.st.desc ELSE key # "name"]
  <2>1. st \in Lst!State
    <3> DEFINE desc == IF page.st.sort = key THEN ~page.st.desc ELSE key # "name"
    <3>1. desc \in BOOLEAN
      OBVIOUS
    <3> HIDE DEF desc
    <3>2. [page.st EXCEPT !.page = 1, !.sort = key, !.desc = desc] \in Lst!State
      BY <1>2, <3>1, OrderedState
    <3> QED  BY <3>2 DEF desc
  <2>2. Lst!Swap(Lst!URL(st)) /\ Lst!StartTrail
    BY <1>7 DEF Lst!Sort, Lst!Follow, Lst!Header
  <2> QED  BY <1>4, <2>1, <2>2
<1>8. ASSUME NEW fs \in SUBSET Filters, Lst!Filter(fs) PROVE Browsing'
  <2> DEFINE st == [page.st EXCEPT !.filters = fs, !.page = 1]
  <2>1. st \in Lst!State
    BY <1>2, FilteredState
  <2>2. Lst!Swap(Lst!URL(st)) /\ Lst!StartTrail
    BY <1>8 DEF Lst!Filter
  <2> QED  BY <1>4, <2>1, <2>2
<1>9. CASE Lst!Poll
  <2>1. Lst!TypeOK'
    BY <1>9 DEF Lst!Poll, Lst!TypeOK, Lst!Elsewhere, Lst!Fingerprint
  <2>2. Walked(page, trail)'
    BY <1>9 DEF Lst!Poll, Lst!Elsewhere, Walked, All, Count, End
  <2> QED  BY <2>1, <2>2
<1>10. CASE Lst!Refresh
  <2>1. CASE page.error
    <3>1. Lst!TypeOK'
      BY <1>10, <2>1 DEF Lst!Refresh, Lst!TypeOK, Lst!Elsewhere
    <3>2. trail' = None
      BY <1>10, <2>1 DEF Lst!Refresh
    <3> QED  BY <3>1, <3>2 DEF Walked
  <2>2. CASE ~page.error
    <3>1. page' = Lst!Render(page.st)
      BY <1>2, <1>10, <2>2, LinksKeepState DEF Lst!Refresh, Lst!Show
    <3>2. Walked(page', trail')
      BY <1>1, <1>2, <1>10, <3>1, WalkBegins DEF Lst!Refresh
    <3> QED  BY <1>2, <1>10, <3>1, <3>2, ShownIsBrowsing DEF Lst!Refresh
  <2> QED  BY <2>1, <2>2
<1>11. ASSUME NEW m \in ListModels, Lst!Use(m) \/ Lst!Load(m) \/ Lst!Install(m) PROVE Browsing'
  <2>1. trail' = None
    BY <1>11 DEF Lst!Use, Lst!Load, Lst!Install, Lst!Change
  <2>2. /\ changes' \in 0..Changes
        /\ UNCHANGED <<reachable, page, seen, pending>>
    BY <1>11, ListConstants DEF Lst!Use, Lst!Load, Lst!Install, Lst!Change, Lst!TypeOK
  <2>3. listed' \subseteq ListModels /\ loaded' \subseteq listed'
    BY <1>11 DEF Lst!Use, Lst!Load, Lst!Install, Lst!TypeOK
  <2>4. lastUsed' \in [ListModels -> 0..Changes]
    BY <1>11, <2>2 DEF Lst!Use, Lst!Load, Lst!Install, Lst!TypeOK
  <2> QED  BY <2>1, <2>2, <2>3, <2>4 DEF Lst!TypeOK, Walked
<1>12. CASE Lst!Outage
  BY <1>12, ListConstants DEF Lst!Outage, Lst!Change, Lst!TypeOK, Walked
<1>13. CASE UNCHANGED lstVars
  <2>1. Lst!TypeOK'
    BY <1>13 DEF lstVars, Lst!TypeOK
  <2>2. Walked(page, trail)'
    BY <1>13 DEF lstVars, Walked, All, Count, End
  <2> QED  BY <2>1, <2>2
<1> QED  BY <1>3, <1>5, <1>6, <1>7, <1>8, <1>9, <1>10, <1>11, <1>12, <1>13 DEF Lst!Next

\* What a walk has been shown is in order, matches, and is all of it by the last page.
LEMMA WalkIsInOrder == ASSUME Browsing PROVE Lst!SeenOnce
<1> SUFFICES ASSUME trail # None PROVE Lst!SeenOnce
  BY DEF Lst!SeenOnce
<1> DEFINE M == Lst!Matching(listed, page.st)
           all == All(page.st)
           n == Count(page.st)
           e == End(page.st)
<1>1. Readable /\ page.st \in Lst!State /\ lastUsed \in [ListModels -> Nat]
  <2>1. Readable /\ page.st \in Lst!State
    BY TypeIsReadable DEF Browsing, Lst!TypeOK
  <2> QED  BY <2>1, ListConstants DEF Readable
<1>2. page.st.desc \in BOOLEAN /\ page.st.page \in Nat \ {0}
  BY <1>1 DEF Lst!State
<1>3. M \in SUBSET ListModels /\ n \in Nat
  BY <1>1, MatchingIsListed
<1>4. /\ all \in Seq(M) /\ Len(all) = n
      /\ \A i, j \in 1..n : i < j => Lst!Before(page.st.sort, page.st.desc, lastUsed, all[i], all[j])
      /\ \A m \in M : \E i \in 1..n : all[i] = m
  BY <1>1, <1>2, <1>3, SortedOnce DEF All, Count
<1>5. trail = SubSeq(all, 1, e) /\ page.more = (page.st.page < Lst!TotalPages(n))
  BY DEF Browsing, Walked
<1>6. e \in Nat /\ e <= n /\ (~page.more => e = n)
  <2>1. page.st.page * PageSize \in Nat
    BY <1>2, ListConstants
  <2>2. ~page.more => page.st.page * PageSize >= n
    <3>1. Lst!TotalPages(n) \in Nat
      BY <1>2, <1>3, PagesFit
    <3>2. ~page.more => ~(page.st.page < Lst!TotalPages(n))
      BY <1>5
    <3> QED  BY <1>2, <1>3, <3>1, <3>2, PagesFit
  <2>3. e = Lst!Least(page.st.page * PageSize, n)
    BY DEF End
  <2> HIDE DEF e, n
  <2> QED  BY <1>3, <2>1, <2>2, <2>3 DEF Lst!Least
<1> HIDE DEF all, M, n, e
<1>7. DOMAIN trail = 1..e /\ \A i \in 1..e : trail[i] = all[i] /\ all[i] \in M
  <2>1. \A i \in 1..e : all[i] \in M
    BY <1>3, <1>4, <1>6
  <2>2. /\ DOMAIN SubSeq(all, 1, e) = 1..(IF 1 <= e THEN e - 1 + 1 ELSE 0)
        /\ \A i \in 1..(e - 1 + 1) : SubSeq(all, 1, e)[i] = all[1 + i - 1]
    BY <1>3, <1>4, <1>6, SubSeqProperties
  <2> QED  BY <1>5, <1>6, <2>1, <2>2
<1>8. \A i, j \in DOMAIN trail : i < j =>
          Lst!Before(page.st.sort, page.st.desc, lastUsed, trail[i], trail[j])
  BY <1>3, <1>4, <1>6, <1>7
<1>9. {trail[i] : i \in DOMAIN trail} \subseteq M
  BY <1>7
<1>10. ~page.more => {trail[i] : i \in DOMAIN trail} = M
  BY <1>4, <1>6, <1>7, <1>9
<1> QED  BY <1>8, <1>9, <1>10 DEF Lst!SeenOnce, M

\* A walk along Next shows every model of the list once, in one order, whatever
\* the filters, the column and the size of a page (handlers_models.go: handleModels).
THEOREM ModelsShownOnce == PagesSpec => []SeenOnce
<1>1. PagesInit => Browsing
  BY InitBrowsing DEF PagesInit
<1>2. Browsing /\ [PagesNext]_allVars => Browsing'
  BY NextBrowsing, StepKinds
<1>3. Browsing => SeenOnce
  BY WalkIsInOrder DEF SeenOnce, Browsing
<1> QED  BY <1>1, <1>2, <1>3, PTL DEF PagesSpec

-----------------------------------------------------------------------------
(* Discover: tags of one download have the same Same, so what is looked    *)
(* for among them is found for each or for none.                           *)

Listed ==
    /\ digest \in [CardTags -> Digests \cup {None}]
    /\ installed \in [CardTags -> Digests \cup {None}]
    /\ entries \in [CardTags -> [digest : Digests \cup {None}] \cup {None}]

\* The constants of Discover, one by one.
LEMMA DiscoverConstants ==
    /\ CardTags \subseteq Nat /\ IsFiniteSet(CardTags)
    /\ LatestTags \subseteq CardTags
    /\ None \notin Digests /\ None \notin CardTags
<1>1. /\ CardTags \subseteq Nat /\ Dis!IsFiniteSet(CardTags)
      /\ LatestTags \subseteq CardTags
      /\ None \notin Digests \cup CardTags
  BY PartsAssumption DEF Dis!DiscoverAssumption
<1>2. IsFiniteSet(CardTags)
  BY <1>1 DEF Dis!IsFiniteSet, IsFiniteSet
<1>3. None \notin Digests
  BY <1>1
<1>4. None \notin CardTags
  BY <1>1
<1> QED  BY <1>1, <1>2, <1>3, <1>4

\* Some tags have a first.
LEMMA FirstTagIsOne ==
    ASSUME NEW ts, ts \subseteq CardTags, ts # {}
    PROVE  Dis!Min(ts) \in ts
<1>1. IsFiniteSet(ts)
  BY DiscoverConstants, FS_Subset
<1>2. \A t \in ts : t \in Int
  BY DiscoverConstants
<1>3. \E t \in ts : \A u \in ts : t =< u
  BY <1>1, <1>2, LeastOfSome
<1> QED  BY <1>3 DEF Dis!Min

\* And so does what FirstOf picks.
LEMMA FirstOfIsOne ==
    ASSUME NEW ts, ts \subseteq CardTags, ts # {}
    PROVE  /\ Dis!FirstOf(ts) \in ts
           /\ Dis!FirstOf(ts) \in LatestTags => ts \subseteq LatestTags
<1>1. CASE ts \ LatestTags # {}
  <2>1. ts \ LatestTags \subseteq CardTags
    OBVIOUS
  <2>2. Dis!Min(ts \ LatestTags) \in ts \ LatestTags
    BY <1>1, <2>1, FirstTagIsOne
  <2> QED  BY <1>1, <2>2 DEF Dis!FirstOf
<1>2. CASE ts \ LatestTags = {}
  BY <1>2, FirstTagIsOne DEF Dis!FirstOf
<1> QED  BY <1>1, <1>2

\* Tags of one download look at the same tags.
LEMMA SameIsShared ==
    ASSUME NEW t \in CardTags, NEW u \in Dis!Same(t)
    PROVE  /\ u \in CardTags /\ Dis!Same(u) = Dis!Same(t)
           /\ t \in Dis!Same(t) /\ Dis!Same(t) \subseteq CardTags
BY DEF Dis!Same

\* A blacklisted tag is named by a tag.
LEMMA BlacklistedIsTag ==
    ASSUME NEW t \in CardTags, Dis!BlacklistedTag(t) # None
    PROVE  Dis!BlacklistedTag(t) \in CardTags
<1> DEFINE same == {u \in CardTags : entries[u] # None /\ digest[t] # None /\ entries[u].digest = digest[t]}
<1>1. CASE entries[t] # None
  BY <1>1 DEF Dis!BlacklistedTag
<1>2. CASE entries[t] = None
  <2>1. Dis!BlacklistedTag(t) = IF same = {} THEN None ELSE Dis!Min(same)
    BY <1>2 DEF Dis!BlacklistedTag
  <2>2. same \subseteq CardTags
    OBVIOUS
  <2> HIDE DEF same
  <2> QED  BY <2>1, <2>2, FirstTagIsOne
<1> QED  BY <1>1, <1>2

\* Whether some of a download's tags are blacklisted is the same for each.
LEMMA BlacklistedAlike ==
    ASSUME NEW ts, ts \subseteq CardTags, NEW t \in ts
    PROVE  Dis!Or(Dis!BlacklistedTag(t), Dis!BlacklistedAmong(ts)) = None
           <=> \A u \in ts : Dis!BlacklistedTag(u) = None
<1> DEFINE banned == {u \in ts : Dis!BlacklistedTag(u) # None}
<1>1. Dis!BlacklistedAmong(ts) = IF banned = {} THEN None ELSE Dis!BlacklistedTag(Dis!FirstOf(banned))
  BY DEF Dis!BlacklistedAmong
<1>2. banned # {} => Dis!FirstOf(banned) \in banned
  <2>1. banned \subseteq CardTags
    OBVIOUS
  <2> HIDE DEF banned
  <2> QED  BY <2>1, FirstOfIsOne
<1>3. banned # {} => Dis!BlacklistedAmong(ts) # None
  BY <1>1, <1>2
<1>4. banned = {} <=> \A u \in ts : Dis!BlacklistedTag(u) = None
  OBVIOUS
<1>5. Dis!BlacklistedTag(t) # None => banned # {}
  OBVIOUS
<1> HIDE DEF banned
<1> QED  BY <1>1, <1>3, <1>4, <1>5 DEF Dis!Or

\* Whether a row can be explained is the same for each.
LEMMA QuantsAlike ==
    ASSUME NEW t \in CardTags, t \in Dis!Same(t)
    PROVE  Dis!TagRow(t).quant = None <=> \A u \in Dis!Same(t) : QuantOf[u] = None
<1> DEFINE named == {u \in Dis!Same(t) : QuantOf[u] # None}
           other == IF named = {} THEN None ELSE QuantOf[Dis!Min(named)]
<1>1. Dis!TagRow(t).quant = Dis!Or(QuantOf[t], other)
  BY DEF Dis!TagRow
<1>2. named # {} => Dis!Min(named) \in named
  <2>1. named \subseteq CardTags
    BY SameIsShared
  <2> HIDE DEF named
  <2> QED  BY <2>1, FirstTagIsOne
<1>3. other = None <=> named = {}
  BY <1>2
<1>4. QuantOf[t] # None => named # {}
  OBVIOUS
<1>5. named = {} <=> \A u \in Dis!Same(t) : QuantOf[u] = None
  OBVIOUS
<1> HIDE DEF named, other
<1> QED  BY <1>1, <1>3, <1>4, <1>5 DEF Dis!Or

\* The other fields of a row.
LEMMA RowFields ==
    ASSUME NEW t
    PROVE  /\ Dis!TagRow(t).installed = (installed[t] # None \/ \E u \in Dis!Same(t) : installed[u] # None)
           /\ Dis!TagRow(t).blacklisted = Dis!Or(Dis!BlacklistedTag(t), Dis!BlacklistedAmong(Dis!Same(t)))
           /\ Dis!TagRow(t).aliasOf = IF Dis!Same(t) = {} \/ Dis!FirstOf(Dis!Same(t)) = t
                                      THEN None ELSE Dis!FirstOf(Dis!Same(t))
BY DEF Dis!TagRow

\* Whatever the tags, the site and the blacklist are, the rows agree.
LEMMA RowsAlwaysAgree == Dis!RowsAgree
<1>1. ASSUME NEW t \in CardTags, NEW u \in Dis!Same(t)
      PROVE  /\ Dis!TagRow(t).installed = Dis!TagRow(u).installed
             /\ (Dis!TagRow(t).blacklisted = None) = (Dis!TagRow(u).blacklisted = None)
             /\ (Dis!TagRow(t).quant = None) = (Dis!TagRow(u).quant = None)
             /\ t # u => \/ Dis!TagRow(t).aliasOf = u
                         \/ Dis!TagRow(u).aliasOf = t
                         \/ Dis!TagRow(t).aliasOf = Dis!TagRow(u).aliasOf /\ Dis!TagRow(t).aliasOf # None
             /\ Dis!TagRow(t).aliasOf = None /\ t \in LatestTags => Dis!Same(t) \subseteq LatestTags
  <2>1. /\ u \in CardTags /\ Dis!Same(u) = Dis!Same(t) /\ t \in Dis!Same(t) /\ u \in Dis!Same(u)
        /\ Dis!Same(t) \subseteq CardTags
    BY SameIsShared
  <2>2. Dis!TagRow(t).installed = Dis!TagRow(u).installed
    BY <2>1, RowFields
  <2>3. (Dis!TagRow(t).blacklisted = None) = (Dis!TagRow(u).blacklisted = None)
    BY <2>1, RowFields, BlacklistedAlike
  <2>4. (Dis!TagRow(t).quant = None) = (Dis!TagRow(u).quant = None)
    BY <2>1, QuantsAlike
  <2>5. /\ Dis!FirstOf(Dis!Same(t)) \in CardTags
        /\ Dis!FirstOf(Dis!Same(t)) \in LatestTags => Dis!Same(t) \subseteq LatestTags
    BY <2>1, FirstOfIsOne
  <2>6. None \notin CardTags
    BY DiscoverConstants
  <2> QED  BY <2>1, <2>2, <2>3, <2>4, <2>5, <2>6, RowFields
<1>2. ASSUME NEW t \in CardTags, t \in Dis!Card.blacklisted
      PROVE  Dis!TagRow(t).blacklisted = t
  <2>1. entries[t] # None
    BY <1>2 DEF Dis!Card
  <2>2. Dis!BlacklistedTag(t) = t /\ t # None
    BY <2>1, DiscoverConstants DEF Dis!BlacklistedTag
  <2> QED  BY <2>2, RowFields DEF Dis!Or
<1> QED  BY <1>1, <1>2 DEF Dis!RowsAgree

\* At first every row is of the kind it should be.
LEMMA InitListed == Dis!Init => Listed
BY DEF Dis!Init, Listed

\* And it stays so, whatever moves.
LEMMA NextListed ==
    ASSUME Listed, Dis!Next \/ UNCHANGED disVars
    PROVE  Listed'
<1>1. ASSUME NEW t \in CardTags, Dis!Retag(t) PROVE Listed'
  BY <1>1 DEF Dis!Retag, Listed
<1>2. ASSUME NEW t \in CardTags, Dis!Download(t) PROVE Listed'
  <2>1. PICK d \in IF digest[t] = None THEN Digests ELSE {digest[t]} :
             installed' = [installed EXCEPT ![t] = d] /\ UNCHANGED <<digest, entries>>
    BY <1>2 DEF Dis!Download
  <2>2. d \in Digests \cup {None}
    BY <2>1 DEF Listed
  <2> QED  BY <2>1, <2>2 DEF Listed
<1>3. ASSUME NEW t \in CardTags, Dis!Blacklist(t) PROVE Listed'
  <2>1. [digest |-> installed[t]] \in [digest : Digests \cup {None}]
    BY DEF Listed
  <2> QED  BY <1>3, <2>1 DEF Dis!Blacklist, Listed
<1>4. ASSUME NEW t \in CardTags, Dis!Unblacklist(t) PROVE Listed'
  BY <1>4 DEF Dis!Unblacklist, Listed
<1>5. ASSUME NEW t \in CardTags, Dis!Delete(t) PROVE Listed'
  BY <1>5 DEF Dis!Delete, Listed
<1>6. CASE UNCHANGED disVars
  BY <1>6 DEF disVars, Listed
<1> QED  BY <1>1, <1>2, <1>3, <1>4, <1>5, <1>6 DEF Dis!Next

\* Rows that are the same download say the same of it, whatever tags the site
\* moves, and whatever is downloaded, deleted and blacklisted meanwhile.
THEOREM DownloadRowsAgree == PagesSpec => []RowsAgree
<1>1. PagesInit => Listed
  BY InitListed DEF PagesInit
<1>2. Listed /\ [PagesNext]_allVars => Listed'
  BY NextListed, StepKinds
<1>3. Listed => RowsAgree
  <2>1. Listed => Dis!TypeOK
    BY DEF Listed, Dis!TypeOK
  <2> QED  BY <2>1, RowsAlwaysAgree DEF RowsAgree
<1> QED  BY <1>1, <1>2, <1>3, PTL DEF PagesSpec

-----------------------------------------------------------------------------
(* Hardware: the verdicts are arithmetic on the memory of one snapshot;    *)
(* the samples are in order because the ticks are.                         *)

Samples ==
    /\ \A i \in DOMAIN history : history[i] <= ticks
    /\ Hw!HistoryIsLatest

Machine == Hw!TypeOK /\ Samples

\* The constants of Hardware, one by one.
LEMMA HardwareConstants ==
    /\ Memory \subseteq Nat /\ 0 \in Memory
    /\ Sizes \subseteq Nat \ {0}
    /\ MaxGPUs \in Nat /\ MaxTicks \in Nat
    /\ SamplesKept \in Nat \ {0, 1}
BY PartsAssumption DEF Hw!HardwareAssumption

\* The memory of the GPUs adds up to a number.
LEMMA VRAMIsNat ==
    ASSUME NEW s \in Hw!Snapshot
    PROVE  Hw!VRAM(s) \in Nat
<1>1. PICK n \in 0..MaxGPUs : s.gpus \in [1..n -> Hw!GPU]
  BY DEF Hw!Snapshot, Hw!GPUs
<1> DEFINE mems == [i \in DOMAIN s.gpus |-> s.gpus[i].mem]
           unified == {i \in Hw!HasMem(s) : s.gpus[i].unified}
           counted == (Hw!HasMem(s) \ unified) \cup (IF unified = {} THEN {} ELSE {Hw!Min(unified)})
<1>2. n \in Nat /\ DOMAIN s.gpus = 1..n /\ IsFiniteSet(1..n)
  BY <1>1, HardwareConstants, FS_Interval
<1>3. counted \subseteq 1..n
  <2>0. unified \subseteq 1..n /\ Hw!HasMem(s) \subseteq 1..n
    BY <1>2 DEF Hw!HasMem
  <2>1. unified # {} => Hw!Min(unified) \in unified
    <3> HIDE DEF unified
    <3>1. IsFiniteSet(unified)
      BY <1>2, <2>0, FS_Subset
    <3>2. \A i \in unified : i \in Int
      BY <1>2, <2>0
    <3>3. unified # {} => \E i \in unified : \A j \in unified : i =< j
      BY <3>1, <3>2, LeastOfSome
    <3> QED  BY <3>3 DEF Hw!Min
  <2> HIDE DEF unified
  <2> QED  BY <2>0, <2>1
<1>4. \A i \in 1..n : mems[i] \in Nat
  BY <1>1, <1>2, HardwareConstants DEF Hw!GPU
<1>5. Hw!VRAM(s) = Hw!SumFunctionOnSet(mems, counted)
  BY DEF Hw!VRAM
<1>6. Hw!SumFunctionOnSet(mems, counted) = SumFunctionOnSet(mems, counted)
  BY DEF Hw!SumFunctionOnSet, Hw!FoldFunctionOnSet, Hw!MapThenFoldSet, SumFunctionOnSet, FoldFunctionOnSet, MapThenFoldSet
<1>7. IsFiniteSet(counted)
  <2> HIDE DEF counted
  <2> QED  BY <1>2, <1>3, FS_Subset
<1> HIDE DEF mems, counted
<1> QED  BY <1>3, <1>4, <1>5, <1>6, <1>7, SumIsNat

\* The readings of one snapshot are numbers.
LEMMA ReadingsAreNat ==
    ASSUME NEW s \in Hw!Snapshot
    PROVE  /\ s.ram \in Nat /\ s.at \in Nat
           /\ Hw!VRAM(s) \in Nat
           /\ Hw!Share(s.ram) \in Nat /\ Hw!Share(s.ram) <= s.ram
           /\ Hw!GpuMemory(s) \in Nat
<1>1. s.ram \in Nat /\ s.at \in Nat
  <2>1. s.ram \in Memory /\ s.at \in 0..MaxTicks
    BY DEF Hw!Snapshot
  <2>2. s.ram \in Nat
    BY <2>1, HardwareConstants
  <2>3. s.at \in Nat
    BY <2>1, HardwareConstants
  <2> QED  BY <2>2, <2>3
<1>2. Hw!Share(s.ram) \in Nat /\ Hw!Share(s.ram) <= s.ram
  BY <1>1 DEF Hw!Share
<1> QED  BY <1>1, <1>2, VRAMIsNat DEF Hw!GpuMemory

\* What a model needs grows with its size, and is no less.
LEMMA NeedGrows ==
    ASSUME NEW size \in Nat
    PROVE  /\ Hw!Need(size) \in Nat /\ size <= Hw!Need(size)
           /\ \A less \in Nat : less < size => Hw!Need(less) <= Hw!Need(size)
BY DEF Hw!Need

\* The verdict on a size, by the kind of machine.
LEMMA FitOfMachine ==
    ASSUME NEW s, NEW size
    PROVE  /\ ~Hw!IsKnown(s) => Hw!EstimateFit(size, s) = "unknown"
           /\ Hw!IsKnown(s) /\ Hw!Unified(s) =>
                 Hw!EstimateFit(size, s) = IF Hw!Need(size) <= Hw!Share(s.ram) THEN "gpu"
                                           ELSE IF Hw!Need(size) <= s.ram THEN "partial" ELSE "no"
           /\ Hw!IsKnown(s) /\ ~Hw!Unified(s) /\ ~Hw!HasVRAM(s) =>
                 Hw!EstimateFit(size, s) = IF Hw!Need(size) <= s.ram THEN "cpu" ELSE "no"
           /\ Hw!IsKnown(s) /\ ~Hw!Unified(s) /\ Hw!HasVRAM(s) =>
                 Hw!EstimateFit(size, s) = IF Hw!Need(size) <= Hw!VRAM(s) THEN "gpu"
                                           ELSE IF Hw!Need(size) <= Hw!VRAM(s) + s.ram THEN "partial" ELSE "no"
BY DEF Hw!EstimateFit

\* One model on one machine.
LEMMA VerdictsOnOne ==
    ASSUME NEW s \in Hw!Snapshot, NEW size \in Sizes
    PROVE  /\ Hw!EstimateFit(size, s) = "gpu" =>
                 Hw!Need(size) <= Hw!GpuMemory(s) /\ Hw!ResourceConcerns(size, s) = "none"
           /\ Hw!ResourceConcerns(size, s) = "won't load" => Hw!EstimateFit(size, s) = "no"
           /\ Hw!ResourceConcerns(size, s) = "partly on the CPU" => Hw!EstimateFit(size, s) \in {"partial", "no"}
           /\ Hw!IsKnown(s) /\ Hw!GpuMemory(s) > 0 /\ Hw!EstimateFit(size, s) # "gpu" =>
                 Hw!Need(size) > Hw!GpuMemory(s)
<1>1. size \in Nat
  BY HardwareConstants
<1>2. /\ s.ram \in Nat /\ Hw!VRAM(s) \in Nat
      /\ Hw!Share(s.ram) \in Nat /\ Hw!Share(s.ram) <= s.ram
      /\ Hw!Need(size) \in Nat /\ size <= Hw!Need(size)
  BY <1>1, ReadingsAreNat, NeedGrows
<1>3. CASE ~Hw!IsKnown(s)
  BY <1>3, FitOfMachine DEF Hw!ResourceConcerns
<1>4. CASE Hw!IsKnown(s) /\ Hw!Unified(s)
  BY <1>1, <1>2, <1>4, FitOfMachine DEF Hw!ResourceConcerns, Hw!GpuMemory
<1>5. CASE Hw!IsKnown(s) /\ ~Hw!Unified(s) /\ ~Hw!HasVRAM(s)
  BY <1>1, <1>2, <1>5, FitOfMachine DEF Hw!ResourceConcerns, Hw!GpuMemory
<1>6. CASE Hw!IsKnown(s) /\ ~Hw!Unified(s) /\ Hw!HasVRAM(s)
  BY <1>1, <1>2, <1>6, FitOfMachine DEF Hw!ResourceConcerns, Hw!GpuMemory
<1> QED  BY <1>3, <1>4, <1>5, <1>6

\* Two models on one machine.
LEMMA VerdictsOnTwo ==
    ASSUME NEW s \in Hw!Snapshot, NEW size \in Sizes, NEW less \in Sizes, less < size
    PROVE  Hw!Rank(Hw!EstimateFit(less, s)) >= Hw!Rank(Hw!EstimateFit(size, s))
<1>1. /\ Hw!Rank("gpu") = 3 /\ Hw!Rank("partial") = 2 /\ Hw!Rank("cpu") = 2
      /\ Hw!Rank("no") = 1 /\ Hw!Rank("unknown") = 0
  BY DEF Hw!Rank
<1>2. less \in Nat /\ size \in Nat
  BY HardwareConstants
<1>3. /\ s.ram \in Nat /\ Hw!VRAM(s) \in Nat /\ Hw!Share(s.ram) \in Nat /\ Hw!Share(s.ram) <= s.ram
      /\ Hw!Need(less) \in Nat /\ Hw!Need(size) \in Nat /\ Hw!Need(less) <= Hw!Need(size)
  BY <1>2, ReadingsAreNat, NeedGrows
<1>4. CASE ~Hw!IsKnown(s)
  BY <1>1, <1>4, FitOfMachine
<1>5. CASE Hw!IsKnown(s) /\ Hw!Unified(s)
  BY <1>1, <1>3, <1>5, FitOfMachine
<1>6. CASE Hw!IsKnown(s) /\ ~Hw!Unified(s) /\ ~Hw!HasVRAM(s)
  BY <1>1, <1>3, <1>6, FitOfMachine
<1>7. CASE Hw!IsKnown(s) /\ ~Hw!Unified(s) /\ Hw!HasVRAM(s)
  BY <1>1, <1>3, <1>7, FitOfMachine
<1> QED  BY <1>4, <1>5, <1>6, <1>7

\* The settings suggested for one machine.
LEMMA SettingsOfMachine ==
    ASSUME NEW s \in Hw!Snapshot
    PROVE  /\ Hw!IsKnown(s) => (Hw!SuggestFlash(s) <=> Hw!SuggestContext(s) > 0)
           /\ Hw!SuggestSingle(s) => Hw!SuggestContext(s) <= 32768
BY ReadingsAreNat DEF Hw!SuggestFlash, Hw!SuggestContext, Hw!SuggestSingle

\* So the verdicts on any snapshot agree.
LEMMA VerdictsOnMachine == snapshot \in Hw!Snapshot => Hw!VerdictsAgree
<1> SUFFICES ASSUME snapshot \in Hw!Snapshot PROVE Hw!VerdictsAgree
  OBVIOUS
<1>1. ASSUME NEW size \in Sizes PROVE Hw!FitsAgree(size)
  BY VerdictsOnOne, VerdictsOnTwo DEF Hw!FitsAgree
<1>2. Hw!SettingsAgree
  BY SettingsOfMachine DEF Hw!SettingsAgree
<1> QED  BY <1>1, <1>2 DEF Hw!VerdictsAgree

-----------------------------------------------------------------------------
\* The samples.

\* Trimming keeps the last ones, in order.
LEMMA TrimKeepsLast ==
    ASSUME NEW S, NEW h \in Seq(S), SamplesKept \in Nat, SamplesKept >= 1, Len(h) <= SamplesKept + 1
    PROVE  /\ Hw!Trim(h) \in Seq(S)
           /\ Len(Hw!Trim(h)) <= SamplesKept
           /\ \E d \in Nat : /\ d <= Len(h)
                             /\ Len(Hw!Trim(h)) = Len(h) - d
                             /\ \A i \in 1..Len(Hw!Trim(h)) : Hw!Trim(h)[i] = h[i + d]
           /\ h # <<>> => Hw!Trim(h) # <<>>
<1> DEFINE k == SamplesKept
<1>1. CASE Len(h) <= k
  <2>1. Hw!Trim(h) = h
    BY <1>1 DEF Hw!Trim
  <2>2. /\ 0 \in Nat /\ 0 <= Len(h) /\ Len(h) = Len(h) - 0
        /\ \A i \in 1..Len(h) : h[i] = h[i + 0]
    OBVIOUS
  <2>3. \E d \in Nat : d <= Len(h) /\ Len(h) = Len(h) - d /\ \A i \in 1..Len(h) : h[i] = h[i + d]
    BY <2>2
  <2> QED  BY <1>1, <2>1, <2>3
<1>2. CASE Len(h) > k
  <2>1. Len(h) = k + 1
    BY <1>2
  <2>2. Hw!Trim(h) = SubSeq(h, 2, k + 1)
    BY <1>2, <2>1 DEF Hw!Trim
  <2>3. /\ SubSeq(h, 2, k + 1) \in Seq(S)
        /\ Len(SubSeq(h, 2, k + 1)) = k
        /\ \A i \in 1..k : SubSeq(h, 2, k + 1)[i] = h[i + 1]
    <3>1. \A i \in 2..(k + 1) : h[i] \in S
      BY <2>1
    <3> QED  BY <2>1, <3>1, SubSeqProperties
  <2>4. SubSeq(h, 2, k + 1) # <<>>
    <3>1. Len(SubSeq(h, 2, k + 1)) # Len(<<>>)
      BY <2>3, EmptySeq
    <3> QED  BY <3>1, Zenon
  <2>5. 1 \in Nat /\ 1 <= Len(h) /\ k = Len(h) - 1
    BY <2>1
  <2> HIDE DEF k
  <2> QED  BY <2>1, <2>2, <2>3, <2>4, <2>5 DEF k
<1> QED  BY <1>1, <1>2

\* At first there are no samples.
LEMMA InitMachine == Hw!Init => Machine
<1> SUFFICES ASSUME Hw!Init PROVE Machine
  OBVIOUS
<1>1. snapshot = [at |-> 0, ram |-> 0, gpus |-> <<>>] /\ history = <<>> /\ ticks = 0
  BY DEF Hw!Init
<1>2. <<>> \in [1..0 -> Hw!GPU] /\ 0 \in 0..MaxGPUs
  BY HardwareConstants
<1>3. <<>> \in Hw!GPUs
  BY <1>2 DEF Hw!GPUs
<1>4. snapshot \in Hw!Snapshot
  BY <1>1, <1>3, HardwareConstants DEF Hw!Snapshot
<1>5. history \in Seq(1..MaxTicks) /\ Len(history) = 0 /\ DOMAIN history = {}
  BY <1>1
<1> QED  BY <1>1, <1>4, <1>5, HardwareConstants DEF Machine, Samples, Hw!TypeOK, Hw!HistoryIsLatest

\* A sample is the latest of them all, and the oldest go.
LEMMA NextMachine ==
    ASSUME Machine, Hw!Next \/ UNCHANGED hwVars
    PROVE  Machine'
<1>1. /\ snapshot \in Hw!Snapshot /\ ticks \in 0..MaxTicks /\ ticks \in Nat
      /\ history \in Seq(1..MaxTicks) /\ Len(history) \in Nat /\ DOMAIN history = 1..Len(history)
      /\ Len(history) <= SamplesKept
      /\ \A i \in 1..Len(history) : history[i] \in 1..MaxTicks /\ history[i] <= ticks
      /\ \A i, j \in 1..Len(history) : i < j => history[i] < history[j]
      /\ snapshot.at > 0 => history # <<>> /\ Hw!Last(history) = snapshot.at
  BY HardwareConstants DEF Machine, Samples, Hw!TypeOK, Hw!HistoryIsLatest
<1>2. ASSUME NEW ram \in Memory, NEW gpus \in Hw!GPUs, Hw!Collect(ram, gpus)
      PROVE  Machine'
  <2> DEFINE longer == Append(history, ticks + 1)
             h == Hw!Trim(longer)
  <2>1. /\ ticks < MaxTicks /\ ticks' = ticks + 1
        /\ snapshot' = [at |-> ticks + 1, ram |-> ram, gpus |-> gpus]
        /\ history' = h
    BY <1>2 DEF Hw!Collect
  <2>2. ticks + 1 \in 1..MaxTicks /\ MaxTicks \in Nat
    BY <1>1, <2>1, HardwareConstants
  <2>3. /\ longer \in Seq(1..MaxTicks) /\ Len(longer) = Len(history) + 1
        /\ \A i \in 1..Len(history) : longer[i] = history[i]
        /\ longer[Len(history) + 1] = ticks + 1
    BY <1>1, <2>2, AppendProperties
  <2> HIDE DEF longer
  <2>4. /\ \A i \in 1..Len(longer) : longer[i] \in 1..MaxTicks /\ longer[i] <= ticks + 1
        /\ \A i, j \in 1..Len(longer) : i < j => longer[i] < longer[j]
    <3>1. \A i \in 1..Len(longer) : i \in 1..Len(history) \/ i = Len(history) + 1
      BY <1>1, <2>3
    <3>2. \A i \in 1..Len(longer) : longer[i] \in 1..MaxTicks /\ longer[i] <= ticks + 1
      BY <1>1, <2>2, <2>3, <3>1
    <3>3. ASSUME NEW i \in 1..Len(longer), NEW j \in 1..Len(longer), i < j PROVE longer[i] < longer[j]
      <4>1. i \in 1..Len(history) /\ longer[i] = history[i] /\ history[i] \in Nat /\ history[i] <= ticks
        BY <1>1, <2>3, <3>3
      <4>2. CASE j \in 1..Len(history)
        BY <1>1, <2>3, <3>3, <4>1, <4>2
      <4>3. CASE j = Len(history) + 1
        BY <1>1, <2>3, <4>1, <4>3
      <4> QED  BY <3>1, <4>2, <4>3
    <3> QED  BY <3>2, <3>3
  <2>5. longer # <<>>
    BY <1>1, <2>3
  <2>6. SamplesKept \in Nat /\ SamplesKept >= 1 /\ Len(longer) <= SamplesKept + 1
    BY <1>1, <2>3, HardwareConstants
  <2>7. /\ h \in Seq(1..MaxTicks) /\ Len(h) <= SamplesKept /\ h # <<>>
        /\ \E d \in Nat : d <= Len(longer) /\ Len(h) = Len(longer) - d /\ \A i \in 1..Len(h) : h[i] = longer[i + d]
    BY <2>3, <2>5, <2>6, TrimKeepsLast
  <2>8. PICK d \in Nat : d <= Len(longer) /\ Len(h) = Len(longer) - d /\ \A i \in 1..Len(h) : h[i] = longer[i + d]
    BY <2>7
  <2> HIDE DEF h
  <2>9. Len(h) \in Nat /\ Len(h) >= 1 /\ DOMAIN h = 1..Len(h)
    BY <2>7, EmptySeq
  <2>10. \A i \in 1..Len(h) : i + d \in 1..Len(longer) /\ h[i] = longer[i + d]
    BY <1>1, <2>3, <2>8, <2>9
  <2>11. \A i \in 1..Len(h) : h[i] <= ticks + 1
    BY <2>4, <2>10
  <2>12. \A i, j \in 1..Len(h) : i < j => h[i] < h[j]
    BY <2>4, <2>10
  <2>13. h[Len(h)] = ticks + 1
    BY <1>1, <2>3, <2>8, <2>9, <2>10
  <2>14. Hw!Last(h) = ticks + 1
    BY <2>13 DEF Hw!Last
  <2>15. snapshot' \in Hw!Snapshot
    BY <2>1, <2>2 DEF Hw!Snapshot
  <2>16. ticks' \in 0..MaxTicks
    BY <1>1, <2>1, <2>2
  <2>17. Hw!TypeOK'
    BY <2>1, <2>7, <2>15, <2>16 DEF Hw!TypeOK
  <2>18. snapshot'.at = ticks + 1
    BY <2>1
  <2>19. Hw!HistoryIsLatest'
    BY <2>1, <2>7, <2>9, <2>12, <2>14, <2>18 DEF Hw!HistoryIsLatest
  <2> QED  BY <2>1, <2>9, <2>11, <2>17, <2>19 DEF Machine, Samples
<1>3. CASE Hw!Late
  <2>1. ticks' = ticks + 1 /\ ticks < MaxTicks /\ snapshot' = snapshot /\ history' = history
    BY <1>3 DEF Hw!Late
  <2>2. ticks' \in 0..MaxTicks /\ \A i \in DOMAIN history : history[i] <= ticks'
    BY <1>1, <2>1, HardwareConstants
  <2> QED  BY <2>1, <2>2 DEF Machine, Samples, Hw!TypeOK, Hw!HistoryIsLatest
<1>4. CASE UNCHANGED hwVars
  BY <1>4 DEF hwVars, Machine, Samples, Hw!TypeOK, Hw!HistoryIsLatest
<1> QED  BY <1>2, <1>3, <1>4 DEF Hw!Next

\* The three verdicts on one machine don't contradict each other, on any
\* machine, and the graphs show the last samples in order.
THEOREM MachineVerdictsAgree == PagesSpec => []VerdictsAgree
<1>1. PagesInit => Machine
  BY InitMachine DEF PagesInit
<1>2. Machine /\ [PagesNext]_allVars => Machine'
  BY NextMachine, StepKinds
<1>3. Machine => VerdictsAgree
  BY VerdictsOnMachine DEF Machine, Samples, Hw!TypeOK, VerdictsAgree
<1> QED  BY <1>1, <1>2, <1>3, PTL DEF PagesSpec
=============================================================================
