------------------------- MODULE UsageTrackerProofs -------------------------
(***************************************************************************)
(* Proofs about the usage tracker, for any models, interval and keep-alive *)
(* times: it keeps its types, records no more time than has passed and no  *)
(* more loads than there were, counts no model that wasn't used, and       *)
(* misses none that was (and stayed loaded for as long or longer).         *)
(***************************************************************************)
EXTENDS UsageTracker, TLAPS

\* Every step is of one of these kinds; the proofs below go through them.
LEMMA Steps ==
    ASSUME [Next]_vars
    PROVE  \/ Pass \/ Tick \/ Answer \/ Fail \/ Done \/ Restart
           \/ \E m \in Models : Skip(m) \/ Mark(m) \/ Add(m) \/ Unload(m)
           \/ \E m \in Models, k \in KeepAlives : Use(m, k)
           \/ UNCHANGED vars
BY DEF Next

-----------------------------------------------------------------------------
(* Types.                                                                  *)

\* The first state has the right types.
LEMMA InitTyped == Init => TypeOK
<1> SUFFICES ASSUME Init PROVE TypeOK
  OBVIOUS
<1>1. {expires, seen, next} \subseteq [Models -> Nat]
  <2>1. PICK up \in SUBSET Models : expires = [m \in Models |-> IF m \in up THEN keep[m] ELSE 0]
    BY DEF Init
  <2>2. keep \in [Models -> Nat]
    BY TrackerAssumption DEF Init
  <2> QED  BY <2>1, <2>2 DEF Init, None
<1>2. {starts, usedAt, keep} \subseteq [Models -> Nat]
  <2>1. keep \in [Models -> Nat]
    BY TrackerAssumption DEF Init
  <2>2. starts \in [Models -> Nat] /\ usedAt \in [Models -> Nat]
    BY DEF Init, None
  <2> QED  BY <2>1, <2>2
<1>3. {lastUsed, active, loads} \subseteq [Models -> Nat]
  BY DEF Init, None
<1>4. truth \in [touched : SUBSET Models, sure : SUBSET Models]
  BY DEF Init
<1>5. phase \in 0..(Interval - 1)
  BY TrackerAssumption DEF Init
<1> QED  BY <1>1, <1>2, <1>3, <1>4, <1>5 DEF Init, TypeOK

\* Every step keeps them.
LEMMA NextTyped == TypeOK /\ [Next]_vars => TypeOK'
<1> SUFFICES ASSUME TypeOK, [Next]_vars PROVE TypeOK'
  OBVIOUS
<1> USE TrackerAssumption
<1>1. CASE Pass
  BY <1>1 DEF Pass, TypeOK, ollama, tables, poll
<1>2. CASE Tick
  BY <1>2 DEF Tick, TypeOK, ollama, tables
<1>3. CASE Answer
  <2>1. next' \in [Models -> Nat]
    <3>1. PICK late \in SUBSET Models :
            next' = [m \in Models |-> IF expires[m] # 0 /\ m \in late
                                      THEN expires[m] + Slack ELSE expires[m]]
      BY <1>3 DEF Answer
    <3> QED  BY <3>1 DEF TypeOK
  <2>2. truth' \in [touched : SUBSET Models, sure : SUBSET Models]
    BY <1>3 DEF Answer
  <2> QED  BY <1>3, <2>1, <2>2 DEF Answer, TypeOK, clock, tables
<1>4. CASE Fail
  BY <1>4 DEF Fail, TypeOK, clock, ollama, tables, poll
<1>5. CASE Done
  BY <1>5 DEF Done, TypeOK, clock, ollama, tables
<1>6. CASE Restart
  <2>1. seen' \in [Models -> Nat] /\ next' \in [Models -> Nat]
    BY <1>6 DEF Restart, None
  <2>2. phase' \in 0..(Interval - 1)
    BY <1>6 DEF Restart
  <2> QED  BY <1>6, <2>1, <2>2 DEF Restart, TypeOK, ollama, tables
<1>7. ASSUME NEW m \in Models, Skip(m) PROVE TypeOK'
  BY <1>7 DEF Skip, TypeOK, clock, ollama, tables
<1>8. ASSUME NEW m \in Models, Mark(m) PROVE TypeOK'
  <2>1. lastUsed' \in [Models -> Nat]
    BY <1>8 DEF Mark, TypeOK
  <2> QED  BY <1>8, <2>1 DEF Mark, TypeOK, clock, ollama
<1>9. ASSUME NEW m \in Models, Add(m) PROVE TypeOK'
  BY <1>9 DEF Add, TypeOK, clock, ollama
<1>10. ASSUME NEW m \in Models, Unload(m) PROVE TypeOK'
  BY <1>10 DEF Unload, TypeOK, clock, tables, poll
<1>11. ASSUME NEW m \in Models, NEW k \in KeepAlives, Use(m, k) PROVE TypeOK'
  BY <1>11 DEF Use, TypeOK, clock, tables, poll
<1>12. CASE UNCHANGED vars
  BY <1>12 DEF vars, TypeOK
<1> QED  BY <1>1, <1>2, <1>3, <1>4, <1>5, <1>6, <1>7, <1>8, <1>9, <1>10, <1>11, <1>12, Steps

\* Every variable keeps its type.
THEOREM TypeCorrect == Spec => []TypeOK
BY InitTyped, NextTyped, PTL DEF Spec

-----------------------------------------------------------------------------
(* Time in use.                                                            *)

\* The model whose first statement is done is one that is counted.
InHand == /\ marked \subseteq todo
          /\ todo # {} => pc = "list"
          /\ \A m \in marked : Counted(m)

\* What the poll in progress may still add to m's time.
Owed(m) ==
    IF ~first /\ (pc = "ask" \/ (pc = "list" /\ m \in todo)) THEN Interval ELSE 0

\* What a tick in the channel will.
Ticked == IF tick THEN Interval ELSE 0

\* Every interval that is recorded, or may be, has passed since the tick before.
Budget == \A m \in Models : active[m] + Ticked + Owed(m) + phase <= now

\* In hand are only models that are counted.
LEMMA InHandHolds == Spec => []InHand
<1>1. Init => InHand
  BY DEF Init, InHand
<1>2. InHand /\ [Next]_vars => InHand'
  <2> SUFFICES ASSUME InHand, [Next]_vars PROVE InHand'
    OBVIOUS
  <2> USE DEF InHand, Counted, WasLoaded
  <2>1. CASE Pass
    BY <2>1 DEF Pass, poll
  <2>2. CASE Tick
    BY <2>2 DEF Tick
  <2>3. CASE Answer
    BY <2>3 DEF Answer
  <2>4. CASE Fail
    BY <2>4 DEF Fail, poll
  <2>5. CASE Done
    BY <2>5 DEF Done
  <2>6. CASE Restart
    BY <2>6 DEF Restart
  <2>7. ASSUME NEW m \in Models, Skip(m) PROVE InHand'
    BY <2>7 DEF Skip
  <2>8. ASSUME NEW m \in Models, Mark(m) PROVE InHand'
    BY <2>8 DEF Mark
  <2>9. ASSUME NEW m \in Models, Add(m) PROVE InHand'
    BY <2>9 DEF Add
  <2>10. ASSUME NEW m \in Models, Unload(m) PROVE InHand'
    BY <2>10 DEF Unload, poll
  <2>11. ASSUME NEW m \in Models, NEW k \in KeepAlives, Use(m, k) PROVE InHand'
    BY <2>11 DEF Use, poll
  <2>12. CASE UNCHANGED vars
    BY <2>12 DEF vars
  <2> QED  BY <2>1, <2>2, <2>3, <2>4, <2>5, <2>6, <2>7, <2>8, <2>9, <2>10, <2>11, <2>12, Steps
<1> QED  BY <1>1, <1>2, PTL DEF Spec

\* A step keeps within the budget.
LEMMA BudgetKept ==
    ASSUME TypeOK, InHand, Budget, [Next]_vars PROVE Budget'
<1> SUFFICES ASSUME NEW m \in Models
             PROVE  (active[m] + Ticked + Owed(m) + phase <= now)'
  BY DEF Budget
<1> DEFINE a == active[m]
<1>0. /\ a + Ticked + Owed(m) + phase <= now
      /\ a \in Nat /\ now \in Nat /\ phase \in Nat /\ phase < Interval /\ Interval \in Nat \ {0}
      /\ tick \in BOOLEAN
  BY TrackerAssumption DEF Budget, TypeOK
<1> USE DEF Owed, Ticked
<1>1. CASE Pass
  BY <1>0, <1>1 DEF Pass, tables, poll
<1>2. CASE Tick
  BY <1>0, <1>2 DEF Tick, tables
<1>3. CASE Answer
  BY <1>0, <1>3 DEF Answer, tables, clock
<1>4. CASE Fail
  BY <1>0, <1>4 DEF Fail, tables, clock, poll
<1>5. CASE Done
  BY <1>0, <1>5 DEF Done, tables, clock
<1>6. CASE Restart
  <2>1. Owed(m)' = 0 /\ Ticked' = 0 /\ phase' = 0 /\ now' = now /\ active'[m] = a
    BY <1>6 DEF Restart, tables
  <2>2. Owed(m) \in Nat /\ Ticked \in Nat
    BY <1>0
  <2> HIDE DEF Owed, Ticked
  <2> QED  BY <1>0, <2>1, <2>2
<1>7. ASSUME NEW n \in Models, Skip(n) PROVE (active[m] + Ticked + Owed(m) + phase <= now)'
  BY <1>0, <1>7 DEF Skip, tables, clock
<1>8. ASSUME NEW n \in Models, Mark(n) PROVE (active[m] + Ticked + Owed(m) + phase <= now)'
  BY <1>0, <1>8 DEF Mark, clock
<1>9. ASSUME NEW n \in Models, Add(n) PROVE (active[m] + Ticked + Owed(m) + phase <= now)'
  <2>1. n \in todo /\ ~first
    BY <1>9 DEF Add, InHand, Counted
  <2>2. CASE n = m
    <3>1. active'[m] = a + Interval \/ active'[m] = a
      BY <1>9, <2>2 DEF Add, TypeOK
    <3>2. Owed(m) = Interval /\ Owed(m)' = 0
      BY <1>9, <2>1, <2>2 DEF Add
    <3> HIDE DEF Owed
    <3> QED  BY <1>0, <1>9, <3>1, <3>2 DEF Add, clock
  <2>3. CASE n # m
    <3>1. active'[m] = a
      BY <1>9, <2>3 DEF Add, TypeOK
    <3>2. Owed(m)' = Owed(m)
      BY <1>9, <2>3 DEF Add
    <3> HIDE DEF Owed
    <3> QED  BY <1>0, <1>9, <3>1, <3>2 DEF Add, clock
  <2> QED  BY <2>2, <2>3
<1>10. ASSUME NEW n \in Models, Unload(n)
       PROVE  (active[m] + Ticked + Owed(m) + phase <= now)'
  BY <1>0, <1>10 DEF Unload, tables, clock, poll
<1>11. ASSUME NEW n \in Models, NEW k \in KeepAlives, Use(n, k)
       PROVE  (active[m] + Ticked + Owed(m) + phase <= now)'
  BY <1>0, <1>11 DEF Use, tables, clock, poll
<1>12. CASE UNCHANGED vars
  BY <1>0, <1>12 DEF vars
<1> QED  BY <1>1, <1>2, <1>3, <1>4, <1>5, <1>6, <1>7, <1>8, <1>9, <1>10, <1>11, <1>12, Steps

\* No more time in use is recorded than has passed.
THEOREM NoMoreTimeThanPassed == Spec => []TimeFits
<1>1. Init => Budget
  <2> SUFFICES ASSUME Init, NEW m \in Models PROVE active[m] + Ticked + Owed(m) + phase <= now
    BY DEF Budget
  <2>1. active[m] = 0 /\ Ticked = 0 /\ Owed(m) = 0 /\ phase = 0 /\ now = 1
    BY DEF Init, None, Owed, Ticked
  <2> QED  BY <2>1
<1>2. TypeOK /\ Budget => TimeFits
  <2> SUFFICES ASSUME TypeOK, Budget, NEW m \in Models PROVE active[m] <= now
    BY DEF TimeFits
  <2> QED  BY TrackerAssumption DEF Budget, TypeOK, Owed, Ticked
<1> QED  BY <1>1, <1>2, TypeCorrect, InHandHolds, BudgetKept, PTL DEF Spec
-----------------------------------------------------------------------------
(* Loads.                                                                  *)

\* A load the poll in progress may still record.
Recording(m) == IF pc = "list" /\ ~first /\ m \in todo /\ seen[m] = 0 THEN 1 ELSE 0

\* The models loaded at the last answer, if it counts.
KnownLoaded(m) == IF pc = "list" THEN next[m] # 0 ELSE first \/ seen[m] # 0

\* A load since then, which the next answer may tell of.
Unheard(m) == IF expires[m] # 0 /\ ~KnownLoaded(m) THEN 1 ELSE 0

\* Each load that is recorded, or may be, has happened.
LoadBudget == \A m \in Models : loads[m] + Recording(m) + Unheard(m) <= starts[m]

\* A step keeps within the loads there have been.
LEMMA LoadBudgetKept ==
    ASSUME TypeOK, InHand, LoadBudget, [Next]_vars PROVE LoadBudget'
<1> SUFFICES ASSUME NEW m \in Models
             PROVE  (loads[m] + Recording(m) + Unheard(m) <= starts[m])'
  BY DEF LoadBudget
<1> DEFINE l == loads[m]  s == starts[m]
           Goal == (loads[m] + Recording(m) + Unheard(m) <= starts[m])'
<1>0. /\ l + Recording(m) + Unheard(m) <= s
      /\ l \in Nat /\ s \in Nat
      /\ Recording(m) \in {0, 1} /\ Unheard(m) \in {0, 1}
  BY DEF LoadBudget, TypeOK, Recording, Unheard
<1> USE DEF Recording, Unheard, KnownLoaded
<1>1. CASE Pass
  BY <1>0, <1>1 DEF Pass, ollama, tables, poll
<1>2. CASE Tick
  BY <1>0, <1>2 DEF Tick, ollama, tables
<1>3. CASE Answer
  <2>1. next'[m] = 0 <=> expires[m] = 0
    <3>1. PICK late \in SUBSET Models :
            next' = [x \in Models |-> IF expires[x] # 0 /\ x \in late
                                      THEN expires[x] + Slack ELSE expires[x]]
      BY <1>3 DEF Answer
    <3>2. next'[m] = IF expires[m] # 0 /\ m \in late THEN expires[m] + Slack ELSE expires[m]
      BY <3>1
    <3>3. expires[m] \in Nat
      BY DEF TypeOK
    <3> QED  BY <3>2, <3>3, TrackerAssumption
  <2>2. /\ pc = "ask" /\ pc' = "list" /\ first' = first /\ seen' = seen
        /\ expires' = expires /\ loads' = loads /\ starts' = starts
        /\ m \in todo' <=> expires[m] # 0
    BY <1>3 DEF Answer, tables
  <2>3. Unheard(m)' = 0 /\ Recording(m) = 0 /\ Recording(m)' = Unheard(m)
    BY <2>1, <2>2
  <2> HIDE DEF Recording, Unheard
  <2> QED  BY <1>0, <2>2, <2>3
<1>4. CASE Fail
  BY <1>0, <1>4 DEF Fail, ollama, tables, poll
<1>5. CASE Done
  BY <1>0, <1>5 DEF Done, ollama, tables
<1>6. CASE Restart
  <2>1. Recording(m)' = 0 /\ Unheard(m)' = 0 /\ loads'[m] = l /\ starts'[m] = s
    BY <1>6 DEF Restart, ollama, tables
  <2> HIDE DEF Recording, Unheard
  <2> QED  BY <1>0, <2>1
<1>7. ASSUME NEW n \in Models, Skip(n) PROVE Goal
  BY <1>0, <1>7 DEF Skip, ollama, tables
<1>8. ASSUME NEW n \in Models, Mark(n) PROVE Goal
  BY <1>0, <1>8 DEF Mark, ollama
<1>9. ASSUME NEW n \in Models, Add(n) PROVE Goal
  <2>1. n \in todo /\ ~first /\ pc = "list"
    BY <1>9 DEF Add, InHand, Counted
  <2>2. Unheard(m)' = Unheard(m) /\ starts'[m] = s
    BY <1>9 DEF Add, ollama
  <2>3. CASE n = m
    <3>1. Recording(m)' = 0
      BY <1>9, <2>3 DEF Add
    <3>2. loads'[m] = l \/ (loads'[m] = l + 1 /\ seen[m] = 0)
      BY <1>9, <2>1, <2>3 DEF Add, TypeOK, WasLoaded
    <3>3. seen[m] = 0 => Recording(m) = 1
      BY <2>1, <2>3
    <3> HIDE DEF Recording, Unheard
    <3> QED  BY <1>0, <2>2, <3>1, <3>2, <3>3
  <2>4. CASE n # m
    <3>1. loads'[m] = l
      BY <1>9, <2>4 DEF Add, TypeOK
    <3>2. Recording(m)' = Recording(m)
      BY <1>9, <2>4 DEF Add
    <3> HIDE DEF Recording, Unheard
    <3> QED  BY <1>0, <2>2, <3>1, <3>2
  <2> QED  BY <2>3, <2>4
<1>10. ASSUME NEW n \in Models, Unload(n) PROVE Goal
  <2>1. Unheard(m)' = Unheard(m) \/ Unheard(m)' = 0
    BY <1>10 DEF Unload, TypeOK, poll
  <2>2. Recording(m)' = Recording(m) /\ loads'[m] = l /\ starts'[m] = s
    BY <1>10 DEF Unload, poll, tables
  <2> HIDE DEF Recording, Unheard
  <2> QED  BY <1>0, <2>1, <2>2
<1>11. ASSUME NEW n \in Models, NEW k \in KeepAlives, Use(n, k) PROVE Goal
  <2>1. Recording(m)' = Recording(m) /\ loads'[m] = l /\ KnownLoaded(m)' = KnownLoaded(m)
    BY <1>11 DEF Use, poll, tables
  <2>2. CASE n # m
    <3>1. expires'[m] = expires[m] /\ starts'[m] = s
      BY <1>11, <2>2 DEF Use, TypeOK
    <3>2. Unheard(m)' = Unheard(m)
      BY <2>1, <3>1
    <3> HIDE DEF Recording, Unheard
    <3> QED  BY <1>0, <2>1, <3>1, <3>2
  <2>3. CASE n = m
    <3>1. starts'[m] = IF expires[m] = 0 THEN s + 1 ELSE s
      BY <1>11, <2>3 DEF Use, TypeOK
    <3>2. expires'[m] = now + k /\ now + k # 0
      BY <1>11, <2>3, TrackerAssumption DEF Use, TypeOK
    <3>3. Unheard(m)' \in {0, 1}
      OBVIOUS
    <3>4. CASE expires[m] = 0
      <4>1. Unheard(m) = 0
        BY <3>4
      <4> HIDE DEF Recording, Unheard
      <4> QED  BY <1>0, <2>1, <3>1, <3>3, <3>4, <4>1
    <3>5. CASE expires[m] # 0
      <4>1. Unheard(m)' = Unheard(m)
        BY <2>1, <3>2, <3>5
      <4> HIDE DEF Recording, Unheard
      <4> QED  BY <1>0, <2>1, <3>1, <3>5, <4>1
    <3> QED  BY <3>4, <3>5
  <2> QED  BY <2>2, <2>3
<1>12. CASE UNCHANGED vars
  BY <1>0, <1>12 DEF vars
<1> HIDE DEF Goal
<1> QED  BY <1>1, <1>2, <1>3, <1>4, <1>5, <1>6, <1>7, <1>8, <1>9, <1>10, <1>11, <1>12, Steps DEF Goal

\* No more loads are recorded than there have been.
THEOREM LoadsHappened == Spec => []LoadsAreReal
<1>1. Init => LoadBudget
  <2> SUFFICES ASSUME Init, NEW m \in Models
               PROVE  loads[m] + Recording(m) + Unheard(m) <= starts[m]
    BY DEF LoadBudget
  <2>1. loads[m] = 0 /\ starts[m] = 0 /\ Recording(m) = 0 /\ Unheard(m) = 0
    BY DEF Init, None, Recording, Unheard, KnownLoaded
  <2> QED  BY <2>1
<1>2. TypeOK /\ LoadBudget => LoadsAreReal
  <2> SUFFICES ASSUME TypeOK, LoadBudget, NEW m \in Models PROVE loads[m] <= starts[m]
    BY DEF LoadsAreReal
  <2>1. Recording(m) \in {0, 1} /\ Unheard(m) \in {0, 1}
    BY DEF Recording, Unheard
  <2> QED  BY <2>1 DEF LoadBudget, TypeOK
<1> QED  BY <1>1, <1>2, TypeCorrect, InHandHolds, LoadBudgetKept, PTL DEF Spec
-----------------------------------------------------------------------------
(* Uses.                                                                   *)

\* There is an answer to compare the next one with, or being looked at.
Answered == pc = "list" \/ ~first

\* The unload time it gave for m.
Heard(m) == IF pc = "list" THEN next[m] ELSE seen[m]

\* Nothing is dated later than now, and the tracker knows whether it has an answer.
Dated == /\ now # 0
         /\ answered <= now
         /\ answered # 0 <=> Answered

\* A model is loaded until the last request asked for.
KeptAsAsked(m) == /\ usedAt[m] <= now
                  /\ expires[m] # 0 => expires[m] = usedAt[m] + keep[m]

\* What stayed loaded without being used has no later unload time.
NotLater(m) == Answered /\ expires[m] # 0 /\ usedAt[m] < answered => expires[m] <= Heard(m)

\* The unload time heard is at most what requests ask for now.
NotBeyond(m) == Answered /\ m \notin shortened => Heard(m) <= answered + keep[m] + Slack

\* IdleIsNotCounted of one model.
IdleOf(m) == pc = "list" /\ m \in todo /\ Counted(m) => m \in truth.touched

\* UseIsCaught of one model.
CaughtOf(m) == pc = "list" /\ m \in todo /\ m \in truth.sure => Counted(m)

\* What an answer gives for each model, and whom it takes for used.
LEMMA AnswerGives ==
    ASSUME TypeOK, Answer, NEW m \in Models
    PROVE  /\ next'[m] \in Nat
           /\ expires[m] = 0 => next'[m] = 0
           /\ expires[m] # 0 => expires[m] <= next'[m] /\ next'[m] <= expires[m] + Slack
           /\ m \in todo' <=> expires[m] # 0
           /\ m \in truth'.touched <=> answered # 0 /\ usedAt[m] >= answered
           /\ m \in truth'.sure <=> /\ answered # 0
                                    /\ usedAt[m] > answered + 2 * Slack
                                    /\ m \notin shortened
<1>1. PICK late \in SUBSET Models :
        next' = [x \in Models |-> IF expires[x] # 0 /\ x \in late
                                  THEN expires[x] + Slack ELSE expires[x]]
  BY DEF Answer
<1>2. next'[m] = IF expires[m] # 0 /\ m \in late THEN expires[m] + Slack ELSE expires[m]
  BY <1>1
<1>3. expires[m] \in Nat /\ Slack \in Nat
  BY TrackerAssumption DEF TypeOK
<1>4. /\ next'[m] \in Nat
      /\ expires[m] = 0 => next'[m] = 0
      /\ expires[m] # 0 => expires[m] <= next'[m] /\ next'[m] <= expires[m] + Slack
  BY <1>2, <1>3
<1>5. /\ m \in todo' <=> expires[m] # 0
      /\ m \in truth'.touched <=> answered # 0 /\ usedAt[m] >= answered
      /\ m \in truth'.sure <=> /\ answered # 0
                               /\ usedAt[m] > answered + 2 * Slack
                               /\ m \notin shortened
  BY DEF Answer
<1> QED  BY <1>4, <1>5

\* What a request changes.
LEMMA UseGives ==
    ASSUME TypeOK, NEW n \in Models, NEW k \in KeepAlives, Use(n, k), NEW m \in Models
    PROVE  /\ m = n => usedAt'[m] = now /\ keep'[m] = k /\ expires'[m] = now + k
           /\ m = n /\ m \notin shortened' => keep[m] <= k /\ m \notin shortened
           /\ m # n => /\ usedAt'[m] = usedAt[m] /\ keep'[m] = keep[m]
                       /\ expires'[m] = expires[m]
                       /\ m \in shortened' <=> m \in shortened
<1>1. k \in Nat /\ keep[n] \in Nat
  BY TrackerAssumption DEF TypeOK
<1>2. /\ usedAt' = [usedAt EXCEPT ![n] = now]
      /\ keep' = [keep EXCEPT ![n] = k]
      /\ expires' = [expires EXCEPT ![n] = now + k]
      /\ usedAt \in [Models -> Nat] /\ keep \in [Models -> Nat] /\ expires \in [Models -> Nat]
  BY DEF Use, TypeOK
<1>3. /\ m = n => usedAt'[m] = now /\ keep'[m] = k /\ expires'[m] = now + k
      /\ m # n => usedAt'[m] = usedAt[m] /\ keep'[m] = keep[m] /\ expires'[m] = expires[m]
  BY <1>2
<1>4. shortened' = IF k < keep[n] THEN shortened \cup {n} ELSE shortened
  BY DEF Use
<1> QED  BY <1>1, <1>3, <1>4

\* What unloading changes.
LEMMA UnloadGives ==
    ASSUME TypeOK, NEW n \in Models, Unload(n), NEW m \in Models
    PROVE  expires'[m] = 0 \/ expires'[m] = expires[m]
BY DEF Unload, TypeOK

\* Dates stay in the past.
LEMMA DatedKept ==
    ASSUME TypeOK, Dated, [Next]_vars PROVE Dated'
<1> DEFINE Goal == Dated'
<1>0. now \in Nat /\ answered \in Nat /\ Dated
  BY DEF TypeOK
<1> USE DEF Dated, Answered
<1>1. CASE Pass
  BY <1>0, <1>1 DEF Pass, ollama, tables, poll
<1>2. CASE Tick
  BY <1>0, <1>2 DEF Tick, ollama, tables
<1>3. CASE Answer
  BY <1>0, <1>3 DEF Answer, clock
<1>4. CASE Fail
  BY <1>0, <1>4 DEF Fail, ollama, tables, poll, clock
<1>5. CASE Done
  BY <1>0, <1>5 DEF Done, ollama, tables, clock
<1>6. CASE Restart
  BY <1>0, <1>6 DEF Restart, ollama, tables
<1>7. ASSUME NEW n \in Models, Skip(n) PROVE Goal
  BY <1>0, <1>7 DEF Skip, ollama, tables, clock
<1>8. ASSUME NEW n \in Models, Mark(n) PROVE Goal
  BY <1>0, <1>8 DEF Mark, ollama, clock
<1>9. ASSUME NEW n \in Models, Add(n) PROVE Goal
  BY <1>0, <1>9 DEF Add, ollama, clock
<1>10. ASSUME NEW n \in Models, Unload(n) PROVE Goal
  BY <1>0, <1>10 DEF Unload, tables, poll, clock
<1>11. ASSUME NEW n \in Models, NEW k \in KeepAlives, Use(n, k) PROVE Goal
  BY <1>0, <1>11 DEF Use, tables, poll, clock
<1>12. CASE UNCHANGED vars
  BY <1>0, <1>12 DEF vars
<1> HIDE DEF Goal
<1> QED  BY <1>1, <1>2, <1>3, <1>4, <1>5, <1>6, <1>7, <1>8, <1>9, <1>10, <1>11, <1>12, Steps DEF Goal

\* A model is kept as the last request asked.
LEMMA KeptAsAskedKept ==
    ASSUME TypeOK, NEW m \in Models, KeptAsAsked(m), [Next]_vars PROVE KeptAsAsked(m)'
<1> DEFINE Goal == KeptAsAsked(m)'
<1>0. /\ KeptAsAsked(m)
      /\ now \in Nat /\ usedAt[m] \in Nat /\ keep[m] \in Nat /\ expires[m] \in Nat
  BY DEF TypeOK
<1> USE DEF KeptAsAsked
<1>1. CASE Pass
  BY <1>0, <1>1 DEF Pass, ollama, tables, poll
<1>2. CASE Tick
  BY <1>0, <1>2 DEF Tick, ollama, tables
<1>3. CASE Answer
  BY <1>0, <1>3 DEF Answer, clock
<1>4. CASE Fail
  BY <1>0, <1>4 DEF Fail, ollama, tables, poll, clock
<1>5. CASE Done
  BY <1>0, <1>5 DEF Done, ollama, tables, clock
<1>6. CASE Restart
  BY <1>0, <1>6 DEF Restart, ollama, tables
<1>7. ASSUME NEW n \in Models, Skip(n) PROVE Goal
  BY <1>0, <1>7 DEF Skip, ollama, tables, clock
<1>8. ASSUME NEW n \in Models, Mark(n) PROVE Goal
  BY <1>0, <1>8 DEF Mark, ollama, clock
<1>9. ASSUME NEW n \in Models, Add(n) PROVE Goal
  BY <1>0, <1>9 DEF Add, ollama, clock
<1>10. ASSUME NEW n \in Models, Unload(n) PROVE Goal
  <2>1. usedAt' = usedAt /\ keep' = keep /\ now' = now
    BY <1>10 DEF Unload, clock
  <2> QED  BY <1>0, <1>10, <2>1, UnloadGives
<1>11. ASSUME NEW n \in Models, NEW k \in KeepAlives, Use(n, k) PROVE Goal
  <2>1. now' = now /\ k \in Nat
    BY <1>11, TrackerAssumption DEF Use, clock
  <2> QED  BY <1>0, <1>11, <2>1, UseGives
<1>12. CASE UNCHANGED vars
  BY <1>0, <1>12 DEF vars
<1> HIDE DEF Goal
<1> QED  BY <1>1, <1>2, <1>3, <1>4, <1>5, <1>6, <1>7, <1>8, <1>9, <1>10, <1>11, <1>12, Steps DEF Goal

\* What isn't used gets no later unload time.
LEMMA NotLaterKept ==
    ASSUME TypeOK, Dated, NEW m \in Models, NotLater(m), [Next]_vars PROVE NotLater(m)'
<1> DEFINE Goal == NotLater(m)'
<1>0. /\ NotLater(m) /\ answered <= now
      /\ now \in Nat /\ answered \in Nat /\ usedAt[m] \in Nat /\ expires[m] \in Nat
      /\ next[m] \in Nat /\ seen[m] \in Nat
  BY DEF TypeOK, Dated
<1> USE DEF NotLater, Answered, Heard
<1>1. CASE Pass
  BY <1>0, <1>1 DEF Pass, ollama, tables, poll
<1>2. CASE Tick
  BY <1>0, <1>2 DEF Tick, ollama, tables
<1>3. CASE Answer
  <2>1. pc' = "list" /\ expires' = expires
    BY <1>3 DEF Answer
  <2> QED  BY <1>0, <1>3, <2>1, AnswerGives
<1>4. CASE Fail
  BY <1>0, <1>4 DEF Fail, ollama, tables, poll, clock
<1>5. CASE Done
  BY <1>0, <1>5 DEF Done, ollama, tables, clock
<1>6. CASE Restart
  BY <1>0, <1>6 DEF Restart, ollama, tables
<1>7. ASSUME NEW n \in Models, Skip(n) PROVE Goal
  BY <1>0, <1>7 DEF Skip, ollama, tables, clock
<1>8. ASSUME NEW n \in Models, Mark(n) PROVE Goal
  BY <1>0, <1>8 DEF Mark, ollama, clock
<1>9. ASSUME NEW n \in Models, Add(n) PROVE Goal
  BY <1>0, <1>9 DEF Add, ollama, clock
<1>10. ASSUME NEW n \in Models, Unload(n) PROVE Goal
  <2>1. usedAt' = usedAt /\ pc' = pc /\ first' = first /\ next' = next /\ seen' = seen
        /\ answered' = answered
    BY <1>10 DEF Unload, poll
  <2> QED  BY <1>0, <1>10, <2>1, UnloadGives
<1>11. ASSUME NEW n \in Models, NEW k \in KeepAlives, Use(n, k) PROVE Goal
  <2>1. pc' = pc /\ first' = first /\ next' = next /\ seen' = seen /\ answered' = answered
    BY <1>11 DEF Use, poll
  <2> QED  BY <1>0, <1>11, <2>1, UseGives
<1>12. CASE UNCHANGED vars
  BY <1>0, <1>12 DEF vars
<1> HIDE DEF Goal
<1> QED  BY <1>1, <1>2, <1>3, <1>4, <1>5, <1>6, <1>7, <1>8, <1>9, <1>10, <1>11, <1>12, Steps DEF Goal

\* The unload time heard stays at most what requests ask for.
LEMMA NotBeyondKept ==
    ASSUME TypeOK, NEW m \in Models, KeptAsAsked(m), NotBeyond(m), [Next]_vars
    PROVE  NotBeyond(m)'
<1> DEFINE Goal == NotBeyond(m)'
<1>0. /\ NotBeyond(m)
      /\ now \in Nat /\ answered \in Nat /\ keep[m] \in Nat /\ Slack \in Nat
      /\ next[m] \in Nat /\ seen[m] \in Nat
  BY TrackerAssumption DEF TypeOK
<1> USE DEF NotBeyond, Answered, Heard
<1>1. CASE Pass
  BY <1>0, <1>1 DEF Pass, ollama, tables, poll
<1>2. CASE Tick
  BY <1>0, <1>2 DEF Tick, ollama, tables
<1>3. CASE Answer
  <2>1. pc' = "list" /\ keep' = keep /\ answered' = now
    BY <1>3 DEF Answer
  <2>2. usedAt[m] \in Nat /\ expires[m] \in Nat
    BY DEF TypeOK
  <2>3. next'[m] <= now + keep[m] + Slack
    BY <1>0, <1>3, <2>2, AnswerGives DEF KeptAsAsked
  <2> QED  BY <2>1, <2>3
<1>4. CASE Fail
  BY <1>0, <1>4 DEF Fail, ollama, tables, poll, clock
<1>5. CASE Done
  BY <1>0, <1>5 DEF Done, ollama, tables, clock
<1>6. CASE Restart
  BY <1>0, <1>6 DEF Restart, ollama, tables
<1>7. ASSUME NEW n \in Models, Skip(n) PROVE Goal
  BY <1>0, <1>7 DEF Skip, ollama, tables, clock
<1>8. ASSUME NEW n \in Models, Mark(n) PROVE Goal
  BY <1>0, <1>8 DEF Mark, ollama, clock
<1>9. ASSUME NEW n \in Models, Add(n) PROVE Goal
  BY <1>0, <1>9 DEF Add, ollama, clock
<1>10. ASSUME NEW n \in Models, Unload(n) PROVE Goal
  BY <1>0, <1>10 DEF Unload, poll
<1>11. ASSUME NEW n \in Models, NEW k \in KeepAlives, Use(n, k) PROVE Goal
  <2>1. pc' = pc /\ first' = first /\ next' = next /\ seen' = seen /\ answered' = answered
        /\ k \in Nat
    BY <1>11, TrackerAssumption DEF Use, poll
  <2> QED  BY <1>0, <1>11, <2>1, UseGives
<1>12. CASE UNCHANGED vars
  BY <1>0, <1>12 DEF vars
<1> HIDE DEF Goal
<1> QED  BY <1>1, <1>2, <1>3, <1>4, <1>5, <1>6, <1>7, <1>8, <1>9, <1>10, <1>11, <1>12, Steps DEF Goal

\* What isn't used isn't counted.
LEMMA IdleKept ==
    ASSUME TypeOK, Dated, NEW m \in Models, NotLater(m), [Next]_vars,
           IdleOf(m)
    PROVE  IdleOf(m)'
<1> DEFINE Goal == IdleOf(m)'
<1>0. IdleOf(m)
  OBVIOUS
<1> USE DEF IdleOf, Counted, WasLoaded
<1>1. CASE Pass
  BY <1>0, <1>1 DEF Pass, ollama, tables, poll
<1>2. CASE Tick
  BY <1>0, <1>2 DEF Tick, ollama, tables
<1>3. CASE Answer
  <2> SUFFICES ASSUME m \in todo', Counted(m)', m \notin truth'.touched PROVE FALSE
    OBVIOUS
  <2>1. pc = "ask" /\ first' = first /\ seen' = seen /\ ~first
    BY <1>3 DEF Answer
  <2>2. /\ seen[m] \in Nat /\ expires[m] \in Nat /\ usedAt[m] \in Nat /\ answered \in Nat
        /\ Slack \in Nat
    BY TrackerAssumption DEF TypeOK
  <2>3. expires[m] # 0 /\ next'[m] \in Nat /\ next'[m] <= expires[m] + Slack
    BY <1>3, AnswerGives
  <2>4. usedAt[m] < answered
    BY <1>3, <2>1, <2>2, AnswerGives DEF Dated, Answered
  <2>5. expires[m] <= seen[m]
    BY <2>1, <2>3, <2>4 DEF NotLater, Answered, Heard
  <2>6. seen[m] # 0 /\ ~(next'[m] > seen[m] + Slack)
    BY <2>2, <2>3, <2>5
  <2> QED  BY <2>1, <2>6
<1>4. CASE Fail
  BY <1>0, <1>4 DEF Fail, ollama, tables, poll, clock
<1>5. CASE Done
  BY <1>0, <1>5 DEF Done, ollama, tables, clock
<1>6. CASE Restart
  BY <1>0, <1>6 DEF Restart, ollama, tables
<1>7. ASSUME NEW n \in Models, Skip(n) PROVE Goal
  BY <1>0, <1>7 DEF Skip, ollama, tables, clock
<1>8. ASSUME NEW n \in Models, Mark(n) PROVE Goal
  BY <1>0, <1>8 DEF Mark, ollama, clock
<1>9. ASSUME NEW n \in Models, Add(n) PROVE Goal
  BY <1>0, <1>9 DEF Add, ollama, clock
<1>10. ASSUME NEW n \in Models, Unload(n) PROVE Goal
  BY <1>0, <1>10 DEF Unload, poll
<1>11. ASSUME NEW n \in Models, NEW k \in KeepAlives, Use(n, k) PROVE Goal
  BY <1>0, <1>11 DEF Use, poll
<1>12. CASE UNCHANGED vars
  BY <1>0, <1>12 DEF vars
<1> HIDE DEF Goal
<1> QED  BY <1>1, <1>2, <1>3, <1>4, <1>5, <1>6, <1>7, <1>8, <1>9, <1>10, <1>11, <1>12, Steps DEF Goal

\* What is surely used is counted.
LEMMA CaughtKept ==
    ASSUME TypeOK, Dated, NEW m \in Models, KeptAsAsked(m), NotBeyond(m), [Next]_vars,
           CaughtOf(m)
    PROVE  CaughtOf(m)'
<1> DEFINE Goal == CaughtOf(m)'
<1>0. CaughtOf(m)
  OBVIOUS
<1> USE DEF CaughtOf, Counted, WasLoaded
<1>1. CASE Pass
  BY <1>0, <1>1 DEF Pass, ollama, tables, poll
<1>2. CASE Tick
  BY <1>0, <1>2 DEF Tick, ollama, tables
<1>3. CASE Answer
  <2> SUFFICES ASSUME m \in todo', m \in truth'.sure PROVE Counted(m)'
    OBVIOUS
  <2>1. pc = "ask" /\ first' = first /\ seen' = seen
    BY <1>3 DEF Answer
  <2>2. /\ seen[m] \in Nat /\ expires[m] \in Nat /\ usedAt[m] \in Nat /\ answered \in Nat
        /\ keep[m] \in Nat /\ Slack \in Nat
    BY TrackerAssumption DEF TypeOK
  <2>3. /\ expires[m] # 0 /\ next'[m] \in Nat /\ expires[m] <= next'[m]
        /\ answered # 0 /\ usedAt[m] > answered + 2 * Slack /\ m \notin shortened
    BY <1>3, AnswerGives
  <2>4. ~first
    BY <2>1, <2>3 DEF Dated, Answered
  <2>5. seen[m] <= answered + keep[m] + Slack
    BY <2>1, <2>3, <2>4 DEF NotBeyond, Answered, Heard
  <2>6. expires[m] = usedAt[m] + keep[m]
    BY <2>3 DEF KeptAsAsked
  <2>7. next'[m] > seen[m] + Slack
    BY <2>2, <2>3, <2>5, <2>6
  <2> QED  BY <2>1, <2>4, <2>7
<1>4. CASE Fail
  BY <1>0, <1>4 DEF Fail, ollama, tables, poll, clock
<1>5. CASE Done
  BY <1>0, <1>5 DEF Done, ollama, tables, clock
<1>6. CASE Restart
  BY <1>0, <1>6 DEF Restart, ollama, tables
<1>7. ASSUME NEW n \in Models, Skip(n) PROVE Goal
  BY <1>0, <1>7 DEF Skip, ollama, tables, clock
<1>8. ASSUME NEW n \in Models, Mark(n) PROVE Goal
  BY <1>0, <1>8 DEF Mark, ollama, clock
<1>9. ASSUME NEW n \in Models, Add(n) PROVE Goal
  BY <1>0, <1>9 DEF Add, ollama, clock
<1>10. ASSUME NEW n \in Models, Unload(n) PROVE Goal
  BY <1>0, <1>10 DEF Unload, poll
<1>11. ASSUME NEW n \in Models, NEW k \in KeepAlives, Use(n, k) PROVE Goal
  BY <1>0, <1>11 DEF Use, poll
<1>12. CASE UNCHANGED vars
  BY <1>0, <1>12 DEF vars
<1> HIDE DEF Goal
<1> QED  BY <1>1, <1>2, <1>3, <1>4, <1>5, <1>6, <1>7, <1>8, <1>9, <1>10, <1>11, <1>12, Steps DEF Goal

\* What the two theorems below rest on.
Comparable == /\ Dated
              /\ \A m \in Models : KeptAsAsked(m) /\ NotLater(m) /\ NotBeyond(m)

\* The tracker's last answer is always comparable with what Ollama has now.
LEMMA ComparableHolds == Spec => []Comparable
<1>1. Init => Comparable
  <2> SUFFICES ASSUME Init PROVE Comparable
    OBVIOUS
  <2>1. Dated
    BY DEF Init, Dated, Answered
  <2>2. ASSUME NEW m \in Models PROVE KeptAsAsked(m)
    <3>1. PICK up \in SUBSET Models : expires = [x \in Models |-> IF x \in up THEN keep[x] ELSE 0]
      BY DEF Init
    <3>2. keep[m] \in Nat /\ usedAt[m] = 0 /\ now = 1
      BY TrackerAssumption DEF Init, None
    <3>3. expires[m] = keep[m] \/ expires[m] = 0
      BY <3>1
    <3> QED  BY <3>2, <3>3 DEF KeptAsAsked
  <2>3. ASSUME NEW m \in Models PROVE NotLater(m) /\ NotBeyond(m)
    BY DEF Init, NotLater, NotBeyond, Answered
  <2> QED  BY <2>1, <2>2, <2>3 DEF Comparable
<1>2. TypeOK /\ Comparable /\ [Next]_vars => Comparable'
  BY DatedKept, KeptAsAskedKept, NotLaterKept, NotBeyondKept DEF Comparable
<1> QED  BY <1>1, <1>2, TypeCorrect, PTL DEF Spec

\* A model that nobody used since the last answer is not recorded as used.
THEOREM IdleNotCounted == Spec => []IdleIsNotCounted
<1>1. Init => IdleIsNotCounted
  BY DEF Init, IdleIsNotCounted
<1>2. TypeOK /\ Comparable /\ IdleIsNotCounted /\ [Next]_vars => IdleIsNotCounted'
  <2> SUFFICES ASSUME TypeOK, Comparable, IdleIsNotCounted, [Next]_vars, NEW m \in Models
               PROVE  IdleOf(m)'
    BY NextTyped DEF IdleIsNotCounted, IdleOf, TypeOK
  <2>1. Dated /\ KeptAsAsked(m) /\ NotLater(m) /\ NotBeyond(m)
    BY DEF Comparable
  <2>2. IdleOf(m)
    BY DEF IdleIsNotCounted, IdleOf
  <2> QED  BY <2>1, <2>2, IdleKept
<1> QED  BY <1>1, <1>2, TypeCorrect, ComparableHolds, PTL DEF Spec

\* One that was, long enough after it and not to be kept for less, is.
THEOREM UseCaught == Spec => []UseIsCaught
<1>1. Init => UseIsCaught
  BY DEF Init, UseIsCaught
<1>2. TypeOK /\ Comparable /\ UseIsCaught /\ [Next]_vars => UseIsCaught'
  <2> SUFFICES ASSUME TypeOK, Comparable, UseIsCaught, [Next]_vars, NEW m \in Models
               PROVE  CaughtOf(m)'
    BY NextTyped DEF UseIsCaught, CaughtOf, TypeOK
  <2>1. Dated /\ KeptAsAsked(m) /\ NotLater(m) /\ NotBeyond(m)
    BY DEF Comparable
  <2>2. CaughtOf(m)
    BY DEF UseIsCaught, CaughtOf
  <2> QED  BY <2>1, <2>2, CaughtKept
<1> QED  BY <1>1, <1>2, TypeCorrect, ComparableHolds, PTL DEF Spec
=============================================================================
