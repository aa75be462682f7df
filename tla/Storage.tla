------------------------------ MODULE Storage ------------------------------
(***************************************************************************)
(* The figures on the Models page: what deleting models frees, which have  *)
(* gone unused, which are installed in several quantisations, and the      *)
(* chart of the week's use.                                                *)
(*                                                                         *)
(* Tags are numbers, in the order in which Ollama lists them and the names *)
(* are sorted.  A content is what a digest stands for: a manifest and its  *)
(* layers.  Sizes are small numbers; times are days, and a page is looked  *)
(* at in the evening: more than a day after anything of the day before.    *)
(***************************************************************************)
EXTENDS Naturals, FiniteSetsExt

CONSTANTS
    Tags,
    Contents,
    Layers,
    LayersOf,       \* LayersOf[c]: the layers of c's manifest, its config among them
    Size,           \* Size[l]: a layer's bytes
    Repo,           \* Repo[t]: t's name without the tag
    Params,         \* Params[c]: the parameter count Ollama reports; NoParams if none
    Level,          \* Level[c]: the quantisation
    NoParams,
    NoModel,
    UnusedDays,     \* the filter: unused for so many days
    MaxDay,         \* bound: days
    MaxSeries,      \* weekSeries
    MaxManifests    \* the manifest cache's limit

\* What the constants are taken to be.
StorageAssumption ==
    /\ Tags \subseteq Nat /\ IsFiniteSet(Tags)
    /\ NoModel \notin Contents \cup Tags
    /\ IsFiniteSet(Layers)
    /\ LayersOf \in [Contents -> SUBSET Layers]
    /\ \A c \in Contents : <<c>> \notin Layers
    /\ Size \in [Layers -> Nat]
    /\ Contents \subseteq DOMAIN Params \cap DOMAIN Level
    /\ Tags \subseteq DOMAIN Repo
    /\ {UnusedDays, MaxSeries, MaxManifests} \subseteq Nat
    /\ MaxDay \in Nat \ {0}

VARIABLES
    library,        \* library[t]: the content that t names in Ollama
    known,          \* manifests that can be read, or are in the cache
    came,           \* came[t]: the day t was downloaded (ModifiedAt)
    week,           \* week[t][d]: seconds of use recorded for t on day d
    today

vars == <<library, known, came, week, today>>

Days == 1..MaxDay

TypeOK ==
    /\ library \in [Tags -> Contents \cup {NoModel}]
    /\ known \subseteq Contents
    /\ came \in [Tags -> 0..MaxDay]
    /\ week \in [Tags -> [Days -> 0..1]]
    /\ today \in Days

Init ==
    /\ library = [t \in Tags |-> NoModel]
    /\ known = {}
    /\ came = [t \in Tags |-> 0]
    /\ week = [t \in Tags |-> [d \in Days |-> 0]]
    /\ today = 1

-----------------------------------------------------------------------------
\* computeStorage.

Installed == {t \in Tags : library[t] # NoModel}
TagsOf(c) == {t \in Tags : library[t] = c}
Present   == {library[t] : t \in Installed}
SameAs(t) == TagsOf(library[t]) \ {t}
Exact     == Present \subseteq known

\* A model whose manifest can't be read counts as one blob of its listed size.
Unread(c) == <<c>>
Blobs(c)  == IF c \in known THEN LayersOf[c] ELSE {Unread(c)}
BlobSize ==
    [b \in Layers \cup {Unread(c) : c \in Contents} |->
        IF b \in Layers THEN Size[b] ELSE SumFunctionOnSet(Size, LayersOf[b[1]])]
Bytes == [bs \in SUBSET DOMAIN BlobSize |-> SumFunctionOnSet(BlobSize, bs)]

Users(b)  == {c \in Present : b \in Blobs(c)}
OnDisk    == Bytes[UNION {Blobs(c) : c \in Present}]

\* The models all of whose tags are among those deleted, and what only they use.
Gone(names) == {c \in Present : TagsOf(c) \subseteq names}
FreedBug(names) ==
    Bytes[UNION {Blobs(c) : c \in Gone(names)}]
Freed(names) ==
    Bytes[{b \in UNION {Blobs(c) : c \in Gone(names)} : Users(b) \subseteq Gone(names)}]

DeleteEffect(names) ==
    IF Freed(names) > 0 THEN IF Exact THEN "freeing" ELSE "freeing up to"
    ELSE IF \E t \in names : names = {t} /\ SameAs(t) # {} THEN "the same model stays"
    ELSE "shared with other models"

-----------------------------------------------------------------------------
\* unused.go, with the usage that the tracker has written down.

Used(t) == IF \E d \in Days : week[t][d] > 0 THEN Max({d \in Days : week[t][d] > 0}) ELSE 0

\* The latest of when tracking began (day 1), the download, and the last use
\* under any of the model's tags.
IdleSince(t) == Max({1, came[t]} \cup {Used(u) : u \in {t} \cup SameAs(t)})
UnusedFor(days) == {t \in Installed : IdleSince(t) + days <= today}

SummarizeUnused(days) ==
    [models |-> Cardinality({library[t] : t \in UnusedFor(days)}),
     bytes  |-> Freed(UnusedFor(days))]

-----------------------------------------------------------------------------
\* dupes.go: models installed in several quantisations.  A model with several
\* tags is one entry, in the group of the tag listed first.

GroupKey(c) == <<Repo[Min(TagsOf(c))], Params[c]>>
Entries(g)  == {c \in Present : Params[c] # NoParams /\ GroupKey(c) = g}
Frees(c)    == Freed(TagsOf(c))

DuplicateQuants ==
    {g \in {GroupKey(c) : c \in Present} :
        Cardinality(Entries(g)) >= 2 /\ Cardinality({Level[c] : c \in Entries(g)}) >= 2}

OtherQuants(t) ==
    UNION {Entries(g) \ {library[t]} : g \in {h \in DuplicateQuants : library[t] \in Entries(h)}}

-----------------------------------------------------------------------------
\* buildWeekUsage: the busiest models have a colour of their own, the rest are
\* one series; a rest of one keeps its name.

Seconds(t) == SumFunctionOnSet(week[t], Days)
UsedOn(d)  == [t \in Tags |-> week[t][d]]
Busy       == {t \in Tags : Seconds(t) > 0}
Ahead(t)   == {u \in Busy : Seconds(u) > Seconds(t) \/ (Seconds(u) = Seconds(t) /\ u < t)}
Series     == {t \in Busy : Cardinality(Ahead(t)) < MaxSeries}

Bars ==
    LET series == Series
        rest   == Busy \ series
    IN [d \in Days |->
           [s \in series \cup IF rest = {} THEN {} ELSE {NoModel} |->
               IF s \in series THEN week[s][d] ELSE SumFunctionOnSet(UsedOn(d), rest)]]

-----------------------------------------------------------------------------
\* Ollama and the days.

\* A tag is downloaded, or updated to another content.
Pull(t, c) ==
    /\ library[t] # c
    /\ library' = [library EXCEPT ![t] = c]
    /\ came' = [came EXCEPT ![t] = today]
    /\ UNCHANGED <<known, week, today>>

Delete(t) ==
    /\ library[t] # NoModel
    /\ library' = [library EXCEPT ![t] = NoModel]
    /\ came' = [came EXCEPT ![t] = 0]
    /\ UNCHANGED <<known, week, today>>

\* manifestLayers: a manifest read is kept; a full cache is emptied first.
ReadManifest(c) ==
    /\ c \in Present \ known
    /\ known' = IF Cardinality(known) > MaxManifests THEN {c} ELSE known \cup {c}
    /\ UNCHANGED <<library, came, week, today>>

Use(t) ==
    /\ library[t] # NoModel
    /\ week[t][today] = 0
    /\ week' = [week EXCEPT ![t][today] = 1]
    /\ UNCHANGED <<library, known, came, today>>

Midnight ==
    /\ today < MaxDay
    /\ today' = today + 1
    /\ UNCHANGED <<library, known, came, week>>

Next ==
    \/ \E t \in Tags, c \in Contents : Pull(t, c)
    \/ \E t \in Tags : Delete(t) \/ Use(t)
    \/ \E c \in Contents : ReadManifest(c)
    \/ Midnight

Spec == Init /\ [][Next]_vars

-----------------------------------------------------------------------------
(* Properties.                                                             *)

\* What really frees: the layers on the disk before, less those after.
Files(ts) == UNION {LayersOf[library[t]] : t \in ts}
Real(names) == Bytes[Files(Installed) \ Files(Installed \ names)]

\* What the delete dialogs say deleting any of the tags frees is what it frees,
\* and no less than that when not every manifest could be read; when they say
\* it frees nothing, it frees nothing (storage.go: DeleteEffect).
FreesAsSaid ==
    /\ Exact => OnDisk = Bytes[Files(Installed)]
    /\ \A names \in SUBSET Installed :
        /\ IF Exact THEN Freed(names) = Real(names) ELSE Freed(names) >= Real(names)
        /\ names # {} /\ DeleteEffect(names) = "the same model stays" => Real(names) = 0

\* A model that any of its tags was used as lately is not called unused, and
\* what deleting the unused ones frees leaves every model still wanted.
UnusedIsIdle ==
    \A t \in UnusedFor(UnusedDays) :
        /\ \A u \in TagsOf(library[t]), d \in Days : d + UnusedDays > today => week[u][d] = 0
        /\ SummarizeUnused(UnusedDays).bytes <= OnDisk

\* Quantisations of one model are different models, each in one group; what
\* deleting each of them frees adds up to no more than deleting them all does.
QuantsApart ==
    /\ \A g, h \in DuplicateQuants : Entries(g) \cap Entries(h) # {} => g = h
    /\ \A g \in DuplicateQuants :
           SumFunctionOnSet([c \in Entries(g) |-> Frees(c)], Entries(g)) <= Freed(UNION {TagsOf(c) : c \in Entries(g)})
    /\ \A t \in Installed : library[t] \notin OtherQuants(t)

\* The segments of a day's bar add up to the day's use.
ChartAddsUp ==
    LET bars == Bars IN
    \A d \in Days :
        SumFunctionOnSet(bars[d], DOMAIN bars[d]) = SumFunctionOnSet(UsedOn(d), Tags)

\* The page's figures agree with the library and with each other.
FiguresAddUp == FreesAsSaid /\ UnusedIsIdle /\ QuantsApart /\ ChartAddsUp
=============================================================================
