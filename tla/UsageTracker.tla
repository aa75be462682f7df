---------------------------- MODULE UsageTracker ----------------------------
(***************************************************************************)
(* The usage tracker (internal/usage/tracker.go): every interval it asks   *)
(* Ollama which models are loaded and until when, and takes a model whose  *)
(* unload time has moved on since the last answer, or that is new, as used *)
(* meanwhile.  It only keeps the last answer, so what it records in        *)
(* model_usage and model_usage_daily (internal/store/usage.go) is an       *)
(* inference about what happened between two polls.                        *)
(*                                                                         *)
(* Time is in units of one second.  The daily rows are summed over the     *)
(* days.  A statement on the tables may fail: the tracker only logs that.  *)
(***************************************************************************)
EXTENDS Naturals

CONSTANTS Models,
          KeepAlives,  \* how long a request may ask Ollama to keep a model
          Interval,    \* seconds between two polls
          Slack,       \* what the same unload time may differ by, re-serialised
          MaxTime,     \* bound: how long to look
          MaxStarts    \* bound: times a model is loaded

ASSUME TrackerAssumption == /\ {MaxTime, MaxStarts, Slack} \subseteq Nat
                            /\ Interval \in Nat \ {0}
                            /\ KeepAlives \subseteq Nat \ {0}

VARIABLES
  now,
  expires,   \* Ollama: until when each model is loaded; 0 if it isn't
  pc,        \* where the tracker is in Run and poll
  tick,      \* a tick is in the ticker's one-slot channel
  phase,     \* seconds since the last tick
  asked,     \* the time poll was called with
  first,     \* Tracker.seen is nil
  seen,      \* Tracker.seen; 0 is no entry
  next,      \* the answer of the poll in progress
  todo,      \* the models of it that are still to be looked at
  marked,    \* the one whose first statement of the two is done, if any
  lastUsed,  \* model_usage.last_used_at; 0 is no row
  active,    \* model_usage_daily.active_seconds
  loads,     \* model_usage_daily.loads
  starts,    \* history: times Ollama has loaded each model
  usedAt,    \* history: when each model was last used
  keep,      \* history: for how long it was then to be kept
  shortened, \* history: models since asked to be kept for a shorter time
  answered,  \* history: when Ollama last answered this process; 0 if it hasn't
  truth      \* history: models used between that answer and the one before

ollama  == <<expires, starts, usedAt, keep, shortened>>
tables  == <<lastUsed, active, loads>>
clock   == <<now, tick, phase>>
poll    == <<asked, first, seen, next, todo, marked>>
vars    == <<now, expires, pc, tick, phase, asked, first, seen, next, todo, marked,
             lastUsed, active, loads, starts, usedAt, keep, shortened, answered, truth>>

None == [m \in Models |-> 0]

TypeOK ==
    /\ now \in Nat
    /\ {expires, seen, next} \subseteq [Models -> Nat]
    /\ pc \in {"wait", "ask", "list"}
    /\ tick \in BOOLEAN
    /\ phase \in 0..(Interval - 1)
    /\ asked \in Nat
    /\ first \in BOOLEAN
    /\ todo \in SUBSET Models
    /\ marked \in SUBSET Models
    /\ {lastUsed, active, loads} \subseteq [Models -> Nat]
    /\ {starts, usedAt, keep} \subseteq [Models -> Nat]
    /\ shortened \in SUBSET Models
    /\ answered \in Nat
    /\ truth \in [touched : SUBSET Models, sure : SUBSET Models]

\* Models may have been loaded before the app starts.
Init ==
    /\ now = 1
    /\ keep \in [Models -> KeepAlives]
    /\ expires \in {[m \in Models |-> IF m \in up THEN keep[m] ELSE 0] : up \in SUBSET Models}
    /\ pc = "ask"
    /\ tick = FALSE
    /\ phase = 0
    /\ asked = 0
    /\ first = TRUE
    /\ seen = None
    /\ next = None
    /\ todo = {}
    /\ marked = {}
    /\ lastUsed = None
    /\ active = None
    /\ loads = None
    /\ starts = None
    /\ usedAt = None
    /\ shortened = {}
    /\ answered = 0
    /\ truth = [touched |-> {}, sure |-> {}]

-----------------------------------------------------------------------------
(* Time and Ollama.                                                        *)

\* (Bug: seconds are counted on.)
PassBug ==
    /\ now < MaxTime
    /\ now' = now + 1
    /\ phase' = phase + 1
    /\ tick' = (tick \/ phase + 1 = Interval)
    /\ UNCHANGED <<ollama, tables, poll, pc, answered, truth>>

\* A tick that finds another in the channel is dropped.
Pass ==
    /\ now < MaxTime
    /\ now' = now + 1
    /\ phase' = IF phase + 1 = Interval THEN 0 ELSE phase + 1
    /\ tick' = (tick \/ phase + 1 = Interval)
    /\ UNCHANGED <<ollama, tables, poll, pc, answered, truth>>

\* A request to a model, which loads it if need be and says how long to keep it.
Use(m, k) ==
    /\ expires[m] = 0 => starts[m] < MaxStarts
    /\ starts' = [starts EXCEPT ![m] = IF expires[m] = 0 THEN @ + 1 ELSE @]
    /\ expires' = [expires EXCEPT ![m] = now + k]
    /\ usedAt' = [usedAt EXCEPT ![m] = now]
    /\ keep' = [keep EXCEPT ![m] = k]
    /\ shortened' = IF k < keep[m] THEN shortened \cup {m} ELSE shortened
    /\ UNCHANGED <<clock, tables, poll, pc, answered, truth>>

\* Its time is up, someone unloads it, or Ollama needs the memory.
Unload(m) ==
    /\ expires[m] # 0
    /\ expires' = [expires EXCEPT ![m] = 0]
    /\ UNCHANGED <<clock, tables, poll, pc, starts, usedAt, keep, shortened, answered, truth>>

-----------------------------------------------------------------------------
(* The tracker.                                                            *)

Tick ==
    /\ pc = "wait"
    /\ tick
    /\ tick' = FALSE
    /\ asked' = now
    /\ pc' = "ask"
    /\ UNCHANGED <<ollama, tables, now, phase, first, seen, next, todo, marked, answered, truth>>

\* Ollama answers with the models loaded and their unload times, give or take.
\* Which of them have really been used since the last answer is noted: "sure" are
\* those used long enough after it and not asked to be kept for less time.
Answer ==
    /\ pc = "ask"
    /\ \E late \in SUBSET Models :
          next' = [m \in Models |-> IF expires[m] # 0 /\ m \in late
                                    THEN expires[m] + Slack ELSE expires[m]]
    /\ todo' = {m \in Models : expires[m] # 0}
    /\ marked' = {}
    /\ pc' = "list"
    /\ answered' = now
    /\ truth' = [touched |-> {m \in Models : answered # 0 /\ usedAt[m] >= answered},
                 sure    |-> {m \in Models : /\ answered # 0
                                             /\ usedAt[m] > answered + 2 * Slack
                                             /\ m \notin shortened}]
    /\ shortened' = {}
    /\ UNCHANGED <<clock, tables, asked, first, seen, expires, starts, usedAt, keep>>

\* (Bug: an outage starts the tracker afresh.)
FailBug ==
    /\ pc = "ask"
    /\ pc' = "wait"
    /\ first' = TRUE
    /\ UNCHANGED <<clock, ollama, tables, asked, seen, next, todo, marked, answered, truth>>

\* It doesn't: what was loaded before is kept.
Fail ==
    /\ pc = "ask"
    /\ pc' = "wait"
    /\ UNCHANGED <<clock, ollama, tables, poll, answered, truth>>

WasLoaded(m) == ~first /\ seen[m] # 0

\* (Bug: the first answer counts like any other.)
StockBug(m) == WasLoaded(m) => next[m] > seen[m] + Slack

\* (Bug: no allowance for the same time written differently.)
CountedBug(m) == ~first /\ (WasLoaded(m) => next[m] > seen[m])

\* This poll takes m as used since the last one.  The first only takes stock.
Counted(m) == ~first /\ (WasLoaded(m) => next[m] > seen[m] + Slack)

Skip(m) ==
    /\ pc = "list" /\ m \in todo /\ marked = {}
    /\ ~Counted(m)
    /\ todo' = todo \ {m}
    /\ UNCHANGED <<clock, ollama, tables, pc, asked, first, seen, next, marked, answered, truth>>

\* MarkModelUsed, of the model that is looked at first.
Mark(m) ==
    /\ pc = "list" /\ m \in todo /\ marked = {}
    /\ Counted(m)
    /\ lastUsed' \in {[lastUsed EXCEPT ![m] = asked], lastUsed}
    /\ marked' = {m}
    /\ UNCHANGED <<clock, ollama, active, loads, pc, asked, first, seen, next, todo, answered,
                   truth>>
\* (Bug: every use is counted as a load.)
AddBug(m) ==
    /\ pc = "list" /\ marked = {m}
    /\ \/ /\ active' = [active EXCEPT ![m] = @ + Interval]
          /\ loads' = [loads EXCEPT ![m] = @ + 1]
       \/ UNCHANGED <<active, loads>>
    /\ todo' = todo \ {m}
    /\ marked' = {}
    /\ UNCHANGED <<clock, ollama, lastUsed, pc, asked, first, seen, next, answered, truth>>

\* AddModelUsage, of the same model.
Add(m) ==
    /\ pc = "list" /\ marked = {m}
    /\ \/ /\ active' = [active EXCEPT ![m] = @ + Interval]
          /\ loads' = [loads EXCEPT ![m] = IF WasLoaded(m) THEN @ ELSE @ + 1]
       \/ UNCHANGED <<active, loads>>
    /\ todo' = todo \ {m}
    /\ marked' = {}
    /\ UNCHANGED <<clock, ollama, lastUsed, pc, asked, first, seen, next, answered, truth>>

Done ==
    /\ pc = "list"
    /\ todo = {}
    /\ seen' = next
    /\ first' = FALSE
    /\ pc' = "wait"
    /\ UNCHANGED <<clock, ollama, tables, asked, next, todo, marked, answered, truth>>

\* The process ends, at any point, and a new one polls at once.
Restart ==
    /\ tick' = FALSE
    /\ phase' = 0
    /\ asked' = now
    /\ first' = TRUE
    /\ seen' = None
    /\ next' = None
    /\ todo' = {}
    /\ marked' = {}
    /\ pc' = "ask"
    /\ answered' = 0
    /\ UNCHANGED <<now, ollama, tables, truth>>

-----------------------------------------------------------------------------
Next ==
    \/ Pass \/ Tick \/ Answer \/ Fail \/ Done \/ Restart
    \/ \E m \in Models : Skip(m) \/ Mark(m) \/ Add(m) \/ Unload(m)
    \/ \E m \in Models, k \in KeepAlives : Use(m, k)

Spec == Init /\ [][Next]_vars

-----------------------------------------------------------------------------
(* Properties.                                                             *)

\* No more time in use is recorded than has passed, however often the app is
\* restarted or Ollama doesn't answer ("active_seconds: roughly how long it was
\* in use"; tracker.go: "The first poll only takes stock").
TimeFits == \A m \in Models : active[m] <= now

\* No more loads are recorded than there have been (tracker_test.go: "a load is
\* when it wasn't loaded at the last poll (not at startup, and not after an
\* outage it stayed loaded through)").
LoadsAreReal == \A m \in Models : loads[m] <= starts[m]

\* A model that nobody used since the last answer is not recorded as used
\* (tracker.go: "idle ones aren't miscounted").
IdleIsNotCounted ==
    pc = "list" => \A m \in todo : Counted(m) => m \in truth.touched

\* One that was, and stayed loaded, is, also when Ollama was out of reach in
\* between (tracker.go: "a model used in the meantime ... is still caught"), unless
\* it was asked to be kept for less time than before.
UseIsCaught ==
    pc = "list" => \A m \in todo : m \in truth.sure => Counted(m)
=============================================================================
