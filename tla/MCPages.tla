------------------------------ MODULE MCPages ------------------------------
(***************************************************************************)
(* An instance of Pages for TLC.  Two quantisations of one model share a   *)
(* layer, and one of them a blob with another model.                       *)
(***************************************************************************)
EXTENDS Pages, TLC

CONSTANTS
    m1, c1, c2, coding, n1,                 \* Labels
    panel, systemPage,                      \* UpdateCheck
    q4, q8, tuned, shared, w4, w8, w5,      \* Storage
    search,                                 \* ModelsPage
    d1, d2                                  \* Discover

\* Labels.
OneModel   == {m1}
TwoClients == {c1, c2}
TwoNames   == {coding, n1}
Builtin    == {coding}

\* UpdateCheck.
OnePanel      == {panel}
OneSystemPage == {systemPage}

\* Storage, and Discover.
ThreeTags     == 1..3
SomeContents  == {q4, q8, tuned}
SomeLayers    == {shared, w4, w8, w5}
TheirLayers   == q4 :> {shared, w4} @@ q8 :> {shared, w8} @@ tuned :> {w4, w5}
TheirSizes    == shared :> 1 @@ w4 :> 2 @@ w8 :> 4 @@ w5 :> 8
TheirRepo     == <<"qwen", "qwen", "tuned">>
TheirParams   == q4 :> "8B" @@ q8 :> "8B" @@ tuned :> None
TheirLevel    == q4 :> "q4" @@ q8 :> "q8" @@ tuned :> "q4"
FirstTag      == {1}
NamedQuants   == <<None, None, "q4">>
TwoDigests    == {d1, d2}

\* ModelsPage.
FourModels    == 1..4
OneFilter     == {search}
Found         == search :> {1, 3, 4}
NoSuchFilter  == {"none such"}
ListSizes     == <<2, 1, 2, 1>>

\* Hardware.
SomeMemory    == {0, 2, 6, 16}
SomeSizes     == {1, 2, 3, 4, 5, 6, 7, 8, 12, 16, 20, 24}
=============================================================================
