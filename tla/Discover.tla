------------------------------ MODULE Discover ------------------------------
(***************************************************************************)
(* A model of the library on the Discover page: its card, and the rows of  *)
(* its tags, with what is known of them here: installed or blacklisted.    *)
(*                                                                         *)
(* The site gives the same download several tags: they share its digest    *)
(* (shortened; here, the same one), and a tag moves from one download to   *)
(* another as the model is brought up to date.  Ollama and the blacklist   *)
(* know tags by name; a blacklist entry also keeps the digest that the tag *)
(* had here when it was made.  Tags are numbers, in the order in which the *)
(* site lists them.                                                        *)
(***************************************************************************)
EXTENDS Naturals, FiniteSetsExt

CONSTANTS
    Tags,
    Latest,         \* those named latest
    QuantOf,        \* QuantOf[t]: the quantisation t is named for; None if its name doesn't say
    Digests,
    None

\* What the constants are taken to be.
DiscoverAssumption ==
    /\ Tags \subseteq Nat /\ IsFiniteSet(Tags)
    /\ Latest \subseteq Tags
    /\ Tags \subseteq DOMAIN QuantOf
    /\ None \notin Digests \cup Tags

VARIABLES
    digest,         \* digest[t]: what the site lists t with; None if it lists none
    installed,      \* installed[t]: the digest t has here; None if it isn't
    entries         \* entries[t]: t's blacklist entry: [digest], or None

vars == <<digest, installed, entries>>

TypeOK ==
    /\ digest \in [Tags -> Digests \cup {None}]
    /\ installed \in [Tags -> Digests \cup {None}]
    /\ \A t \in Tags : entries[t] = None \/ entries[t].digest \in Digests \cup {None}

Init ==
    /\ digest \in [Tags -> Digests]
    /\ installed = [t \in Tags |-> None]
    /\ entries = [t \in Tags |-> None]

-----------------------------------------------------------------------------
\* localModels.blacklistedTag: by name, or else by digest.  The entry is named
\* by its tag; they are kept most recent first, here in the tags' order.
BlacklistedTag(t) ==
    IF entries[t] # None THEN t
    ELSE LET same == {u \in Tags : entries[u] # None /\ digest[t] # None /\ entries[u].digest = digest[t]}
         IN IF same = {} THEN None ELSE Min(same)

\* tagRows.  Tags that are the same download, and the first of some that has a
\* name of its own, or else the first.
Same(t) == {u \in Tags : digest[u] = digest[t] /\ digest[t] # None}
FirstOf(ts) == IF ts \ Latest # {} THEN Min(ts \ Latest) ELSE Min(ts)

Or(a, b) == IF a # None THEN a ELSE b
BlacklistedAmong(ts) ==
    LET banned == {u \in ts : BlacklistedTag(u) # None}
    IN IF banned = {} THEN None ELSE BlacklistedTag(FirstOf(banned))

TagRowBug(t) ==
    [installed   |-> installed[t] # None,
     blacklisted |-> BlacklistedTag(t),
     aliasOf     |-> IF Same(t) = {} \/ FirstOf(Same(t)) = t THEN None ELSE FirstOf(Same(t)),
     quant       |-> QuantOf[t]]
TagRow(t) ==
    [installed   |-> installed[t] # None \/ \E u \in Same(t) : installed[u] # None,
     blacklisted |-> Or(BlacklistedTag(t), BlacklistedAmong(Same(t))),
     aliasOf     |-> IF Same(t) = {} \/ FirstOf(Same(t)) = t THEN None ELSE FirstOf(Same(t)),
     quant       |-> Or(QuantOf[t],
                        LET named == {u \in Same(t) : QuantOf[u] # None}
                        IN IF named = {} THEN None ELSE QuantOf[Min(named)])]

\* discoverOllama: the model's card, by its name alone.
Card ==
    [installed   |-> \E t \in Tags : installed[t] # None,
     blacklisted |-> {t \in Tags : entries[t] # None}]

\* Whether the search shows it: hidden for the blacklist, or for not fitting.
Shown(hideBlacklisted, onlyFitting, fits) ==
    ~(hideBlacklisted /\ Card.blacklisted # {}) /\ (onlyFitting => fits)

-----------------------------------------------------------------------------
\* What happens to the tags.

\* The site brings a tag up to date, or can't be read for its digest.
Retag(t) ==
    /\ \E d \in (Digests \cup {None}) \ {digest[t]} : digest' = [digest EXCEPT ![t] = d]
    /\ UNCHANGED <<installed, entries>>

\* A download, or an update: Ollama has a digest even where the site lists none.
Download(t) ==
    /\ installed' \in {[installed EXCEPT ![t] = d] : d \in IF digest[t] = None THEN Digests ELSE {digest[t]}}
    /\ installed' # installed
    /\ UNCHANGED <<digest, entries>>

\* The entry has the digest of what is installed, if anything is.
Blacklist(t) ==
    /\ entries[t] = None
    /\ entries' = [entries EXCEPT ![t] = [digest |-> installed[t]]]
    /\ UNCHANGED <<digest, installed>>

Unblacklist(t) ==
    /\ entries[t] # None
    /\ entries' = [entries EXCEPT ![t] = None]
    /\ UNCHANGED <<digest, installed>>

Delete(t) ==
    /\ installed[t] # None
    /\ installed' = [installed EXCEPT ![t] = None]
    /\ UNCHANGED <<digest, entries>>

Next == \E t \in Tags :
    Retag(t) \/ Download(t) \/ Blacklist(t) \/ Unblacklist(t) \/ Delete(t)

Spec == Init /\ [][Next]_vars

-----------------------------------------------------------------------------
(* Properties.                                                             *)

\* Rows that are the same download say the same of it: whether it is installed,
\* blacklisted, and explained; and all but one, which is not an alias itself,
\* name that one (handlers_discover.go: tagRows).  What hides a card can be
\* found on its rows, under its own name.
RowsAgree ==
    /\ \A t \in Tags : \A u \in Same(t) :
        /\ TagRow(t).installed = TagRow(u).installed
        /\ (TagRow(t).blacklisted = None) = (TagRow(u).blacklisted = None)
        /\ (TagRow(t).quant = None) = (TagRow(u).quant = None)
        /\ t # u => \/ TagRow(t).aliasOf = u
                    \/ TagRow(u).aliasOf = t
                    \/ TagRow(t).aliasOf = TagRow(u).aliasOf /\ TagRow(t).aliasOf # None
        /\ TagRow(t).aliasOf = None /\ t \in Latest => Same(t) \subseteq Latest
    /\ \A t \in Tags : ~Shown(TRUE, FALSE, TRUE) /\ t \in Card.blacklisted => TagRow(t).blacklisted = t
=============================================================================
