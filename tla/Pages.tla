------------------------------- MODULE Pages -------------------------------
(***************************************************************************)
(* The small components behind the pages, side by side: Labels,            *)
(* UpdateCheck, Storage, ModelsPage, Discover and Hardware.  They share no *)
(* state and no call, so in a behaviour one of them (part) moves and the   *)
(* others stand still.                                                     *)
(***************************************************************************)
EXTENDS Labels

CONSTANTS
    Parts,                                      \* the components looked at
    Panels, SystemPages, Background, MaxVersion, OkTTL, ErrTTL, CheckEvery,    \* UpdateCheck
    Tags, Contents, Layers, LayersOf, LayerSize, Repo, Params, Level,
    UnusedDays, MaxDay, MaxSeries, MaxManifests,                               \* Storage
    ListModels, Filters, Keeps, Invalid, SizeOf, PageSize, Changes,            \* ModelsPage
    CardTags, LatestTags, QuantOf, Digests,                                    \* Discover
    Memory, MaxGPUs, Sizes, SamplesKept, MaxTicks,                             \* Hardware
    None

VARIABLES
    part,
    ollama, runs, latest, info, life, age, holder, last, refreshes, due,
    library, known, came, week, today,
    listed, loaded, lastUsed, reachable, changes, page, seen, pending, trail,
    digest, installed, entries,
    snapshot, history, ticks

Upd == INSTANCE UpdateCheck WITH Pages <- SystemPages, Every <- CheckEvery, req <- refreshes

Sto == INSTANCE Storage WITH Size <- LayerSize, NoParams <- None, NoModel <- None

Lst == INSTANCE ModelsPage WITH Models <- ListModels, MaxChanges <- Changes, installed <- listed

Dis == INSTANCE Discover WITH Tags <- CardTags, Latest <- LatestTags

Hw == INSTANCE Hardware WITH Keep <- SamplesKept, latest <- snapshot

ASSUME PartsAssumption ==
    /\ Upd!UpdateAssumption
    /\ Sto!StorageAssumption
    /\ Lst!ModelsPageAssumption
    /\ Dis!DiscoverAssumption
    /\ Hw!HardwareAssumption

updVars == <<ollama, runs, latest, info, life, age, holder, last, refreshes, due>>
stoVars == <<library, known, came, week, today>>
lstVars == <<listed, loaded, lastUsed, reachable, changes, page, seen, pending, trail>>
disVars == <<digest, installed, entries>>
hwVars  == <<snapshot, history, ticks>>
allVars == <<part, vars, updVars, stoVars, lstVars, disVars, hwVars>>

PagesInit ==
    /\ part \in Parts
    /\ Init /\ Upd!Init /\ Sto!Init /\ Lst!Init /\ Dis!Init /\ Hw!Init
    /\ part # "discover" => digest = [t \in CardTags |-> CHOOSE d \in Digests : TRUE]

PagesNext ==
    /\ UNCHANGED part
    /\ \/ /\ part = "labels" /\ Next
          /\ UNCHANGED updVars /\ UNCHANGED stoVars /\ UNCHANGED lstVars /\ UNCHANGED disVars /\ UNCHANGED hwVars
       \/ /\ part = "updates" /\ Upd!Next
          /\ UNCHANGED vars /\ UNCHANGED stoVars /\ UNCHANGED lstVars /\ UNCHANGED disVars /\ UNCHANGED hwVars
       \/ /\ part = "storage" /\ Sto!Next
          /\ UNCHANGED vars /\ UNCHANGED updVars /\ UNCHANGED lstVars /\ UNCHANGED disVars /\ UNCHANGED hwVars
       \/ /\ part = "list" /\ Lst!Next
          /\ UNCHANGED vars /\ UNCHANGED updVars /\ UNCHANGED stoVars /\ UNCHANGED disVars /\ UNCHANGED hwVars
       \/ /\ part = "discover" /\ Dis!Next
          /\ UNCHANGED vars /\ UNCHANGED updVars /\ UNCHANGED stoVars /\ UNCHANGED lstVars /\ UNCHANGED hwVars
       \/ /\ part = "hardware" /\ Hw!Next
          /\ UNCHANGED vars /\ UNCHANGED updVars /\ UNCHANGED stoVars /\ UNCHANGED lstVars /\ UNCHANGED disVars

PagesSpec == PagesInit /\ [][PagesNext]_allVars

PagesFairSpec == PagesSpec /\ (part = "updates" => Upd!Fairness)

-----------------------------------------------------------------------------
\* What the dot says follows from the two versions beside it (UpdateCheck).
LastAgrees == part = "updates" => Upd!TypeOK /\ Upd!LastAgrees

\* The versions written down are the present ones in the end (UpdateCheck).
VersionSettles == part = "updates" => Upd!VersionSettles

\* The Models page's figures agree with the library (Storage).
FiguresAddUp == part = "storage" => Sto!TypeOK /\ Sto!FiguresAddUp

\* Following Next shows every model once (ModelsPage).
SeenOnce == part = "list" => Lst!TypeOK /\ Lst!SeenOnce

\* An event of the watcher finds a list that listens (ModelsPage).
EventIsHeard == Lst!EventIsHeard

\* Tags that are the same download look alike (Discover).
RowsAgree == part = "discover" => Dis!TypeOK /\ Dis!RowsAgree

\* The verdicts on the machine don't contradict each other (Hardware).
VerdictsAgree == part = "hardware" => Hw!TypeOK /\ Hw!VerdictsAgree /\ Hw!HistoryIsLatest
=============================================================================
