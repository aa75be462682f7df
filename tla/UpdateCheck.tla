---------------------------- MODULE UpdateCheck ----------------------------
(***************************************************************************)
(* Whether Ollama has a newer release: GitHub's answer, kept for a while   *)
(* behind a lock that is held while GitHub is asked, and the comparison    *)
(* with the version Ollama runs, which the background check, the panel's   *)
(* "check now" and the System page each put together and write down.       *)
(*                                                                         *)
(* Versions are numbers; how two version strings compare is left out.  A   *)
(* tick is updateMinGap; life and age count ticks, so the clock is         *)
(* unbounded.                                                              *)
(***************************************************************************)
EXTENDS Naturals

CONSTANTS
    Panels,         \* requests for the Ollama panel, "check now" or not
    Pages,          \* requests for the System page
    Background,     \* RunOllamaUpdateChecks' goroutine
    MaxVersion,     \* bound: releases of Ollama
    OkTTL, ErrTTL,  \* ticks that an answer, and a failure, are kept
    Every,          \* ticks between two background checks
    None            \* nobody

\* What the constants are taken to be.
UpdateAssumption ==
    /\ Background \notin Panels \cup Pages
    /\ Panels \cap Pages = {}
    /\ None \notin Panels \cup Pages \cup {Background}
    /\ {MaxVersion, OkTTL, ErrTTL, Every} \subseteq Nat \ {0}

VARIABLES
    ollama,     \* the version Ollama runs; 0 while it doesn't answer
    runs,       \* the version installed
    latest,     \* the latest release
    info,       \* updateChecker.info: the release; 0 if it couldn't be asked
    life,       \* ticks until it expires
    age,        \* ticks since GitHub was asked
    holder,     \* who holds the lock, asking GitHub
    last,       \* ollamaUpdates.last
    req,        \* req[r]: the request r
    due         \* ticks until the background's next check

vars == <<ollama, runs, latest, info, life, age, holder, last, req, due>>

Refreshers == Panels \cup {Background}
Versions   == 0..MaxVersion

\* What a request has read: Ollama's version and the release, 0 if unknown.
Request == [step : {"rest", "check", "keep"}, force : BOOLEAN, running : Versions, latest : Versions]
AtRest  == [step |-> "rest", force |-> FALSE, running |-> 0, latest |-> 0]

Comparison == [running : Versions, latest : Versions, available : BOOLEAN, current : BOOLEAN]

\* Neither newer nor current unless both are known.
Compare(r, l) ==
    LET checked == r # 0 /\ l # 0
    IN [running |-> r, latest |-> l, available |-> checked /\ l > r, current |-> checked /\ l = r]

TypeOK ==
    /\ {ollama, runs, latest, info} \subseteq Versions
    /\ ollama \in {0, runs}
    /\ life \in 0..(IF info = 0 THEN ErrTTL + 1 ELSE OkTTL + 1)
    /\ age \in 0..OkTTL
    /\ holder \in Refreshers \cup {None}
    /\ last \in Comparison
    /\ req \in [Refreshers \cup Pages -> Request]
    /\ holder # None => req[holder].step = "check"
    /\ due \in 0..Every

Init ==
    /\ runs = 1 /\ ollama = 1 /\ latest = 1
    /\ info = 0 /\ life = 0 /\ age = OkTTL
    /\ holder = None
    /\ last = [running |-> 0, latest |-> 0, available |-> FALSE, current |-> FALSE]
    /\ req = [r \in Refreshers \cup Pages |-> AtRest]
    /\ due = 0

-----------------------------------------------------------------------------
\* refreshOllamaUpdate: Ollama's version, GitHub's answer, the comparison.

Refresh(r, force) ==
    /\ req[r].step = "rest"
    /\ req' = [req EXCEPT ![r] = [AtRest EXCEPT !.step = "check", !.force = force, !.running = ollama]]
    /\ UNCHANGED <<ollama, runs, latest, info, life, age, holder, last>>

AskPanel(p) == \E force \in BOOLEAN : Refresh(p, force) /\ UNCHANGED due
AskBackground == due = 0 /\ due' = Every /\ Refresh(Background, FALSE)

Cached(force) == life > 0 /\ (~force \/ age = 0)

\* The lock is free: the answer kept, or GitHub asked with the lock held.
CheckKept(r) ==
    /\ req[r].step = "check"
    /\ holder = None
    /\ Cached(req[r].force)
    /\ req' = [req EXCEPT ![r].step = "keep", ![r].latest = info]
    /\ UNCHANGED <<ollama, runs, latest, info, life, age, holder, last, due>>

AskGitHub(r) ==
    /\ req[r].step = "check"
    /\ holder = None
    /\ ~Cached(req[r].force)
    /\ holder' = r
    /\ age' = 0
    /\ UNCHANGED <<ollama, runs, latest, info, life, last, req, due>>

\* A failed answer, or a request that was given up, empties what was kept.  The
\* time to live counts from the answer: at the tick that ends it, it is still kept.
Answer(r, found) ==
    /\ holder = r
    /\ holder' = None
    /\ info' = found
    /\ life' = IF found = 0 THEN ErrTTL + 1 ELSE OkTTL + 1
    /\ req' = [req EXCEPT ![r].step = "keep", ![r].latest = found]
    /\ UNCHANGED <<ollama, runs, latest, age, last, due>>

GitHubAnswers(r) == Answer(r, latest) \/ Answer(r, 0)

KeepBug(r) ==
    /\ req[r].step = "keep"
    /\ last' = IF req[r].latest < last.latest THEN last ELSE Compare(last.running, req[r].latest)
    /\ req' = [req EXCEPT ![r] = AtRest]
    /\ UNCHANGED <<ollama, runs, latest, info, life, age, holder, due>>
Keep(r) ==
    /\ req[r].step = "keep"
    /\ last' = Compare(req[r].running, req[r].latest)
    /\ req' = [req EXCEPT ![r] = AtRest]
    /\ UNCHANGED <<ollama, runs, latest, info, life, age, holder, due>>

-----------------------------------------------------------------------------
\* withRunning: the System page asks Ollama and puts its version in the last
\* comparison, whatever that is by then.

AskRunning(p) ==
    /\ req[p].step = "rest"
    /\ ollama # 0
    /\ req' = [req EXCEPT ![p] = [AtRest EXCEPT !.step = "keep", !.running = ollama]]
    /\ UNCHANGED <<ollama, runs, latest, info, life, age, holder, last, due>>

WithRunningBug(v) == [last EXCEPT !.running = v]
WithRunning(v) == Compare(v, last.latest)

KeepRunning(p) ==
    /\ req[p].step = "keep"
    /\ last' = WithRunning(req[p].running)
    /\ req' = [req EXCEPT ![p] = AtRest]
    /\ UNCHANGED <<ollama, runs, latest, info, life, age, holder, due>>

-----------------------------------------------------------------------------
\* Ollama, its releases, and time.

Release ==
    /\ latest < MaxVersion
    /\ latest' = latest + 1
    /\ UNCHANGED <<ollama, runs, info, life, age, holder, last, req, due>>

Upgrade ==
    /\ runs < latest
    /\ runs' = latest
    /\ ollama' = latest
    /\ UNCHANGED <<latest, info, life, age, holder, last, req, due>>

Outage ==
    /\ ollama' = IF ollama = 0 THEN runs ELSE 0
    /\ UNCHANGED <<runs, latest, info, life, age, holder, last, req, due>>

\* GitHub has five seconds to answer, less than a tick.
Tick ==
    /\ holder = None
    /\ life' = IF life = 0 THEN 0 ELSE life - 1
    /\ age' = IF age = OkTTL THEN age ELSE age + 1
    /\ due' = IF due = 0 THEN 0 ELSE due - 1
    /\ UNCHANGED <<ollama, runs, latest, info, holder, last, req>>

RefreshGoesOn(r) == CheckKept(r) \/ AskGitHub(r) \/ GitHubAnswers(r) \/ Keep(r)

Next ==
    \/ \E p \in Panels : AskPanel(p)
    \/ AskBackground
    \/ \E r \in Refreshers : RefreshGoesOn(r)
    \/ \E p \in Pages : AskRunning(p) \/ KeepRunning(p)
    \/ Release \/ Upgrade \/ Outage
    \/ Tick

Spec == Init /\ [][Next]_vars

\* Everybody's call ends in the end, the background goes on, time passes, and
\* Ollama doesn't stay away.  A lock that is freed again and again is had in
\* the end (Go's mutex does not starve a waiter).
Fairness ==
    /\ WF_vars(AskBackground)
    /\ \A r \in Refreshers : SF_vars(CheckKept(r) \/ AskGitHub(r))
    /\ \A r \in Refreshers : WF_vars(GitHubAnswers(r)) /\ WF_vars(Keep(r))
    /\ \A p \in Pages : WF_vars(KeepRunning(p))
    /\ WF_vars(Tick)

FairSpec == Spec /\ Fairness

-----------------------------------------------------------------------------
(* Properties.                                                             *)

\* What the dot and the panel say follows from the two versions beside it,
\* whoever wrote either of them last (ollama_update.go: compare).
LastAgrees ==
    /\ last.available <=> last.running # 0 /\ last.latest > last.running
    /\ last.current <=> last.running # 0 /\ last.latest = last.running

\* Once Ollama stays up, and is upgraded no more (MaxVersion bounds it), its
\* version is what is written down in the end, whatever a slower request puts
\* back meanwhile; and so is the latest release, once GitHub's answers no longer
\* fail (ollama_update.go: withRunning, refreshOllamaUpdate).
VersionSettles ==
    /\ <>[](ollama # 0) => <>[](last.running = ollama)
    /\ <>[](ollama # 0 /\ info # 0) => <>[](last = Compare(ollama, latest))
=============================================================================
