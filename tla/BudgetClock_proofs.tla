------------------------- MODULE BudgetClock_proofs -------------------------
(***************************************************************************)
(* The clock of BudgetClock, for every budget and every stretch of time.   *)
(***************************************************************************)
EXTENDS BudgetClock, TLAPS

(* Stamps of a pause lie in the past and a wait has one, its own or an     *)
(* older one; in a cycle that began without one, only a wait has one.      *)
ClockInv ==
  /\ TypeOK
  /\ NoFalseAlarm
  /\ ClockMeasuresWork
  /\ pausedAt # None => pausedAt <= now
  /\ pc = "wait" => pausedAt # None
  /\ pc = "work" /\ ~stale => pausedAt = None

(* Every step keeps ClockInv; the tick after a crash in a wait is the step *)
(* where the clock falls behind the work.                                  *)
LEMMA ClockStep == ClockInv /\ [Next]_vars => ClockInv'
<1> USE ClockAssumption
<1> SUFFICES ASSUME ClockInv, [Next]_vars PROVE ClockInv'
  OBVIOUS
<1> USE DEF ClockInv, TypeOK, NoFalseAlarm, ClockMeasuresWork, InCycle, Elapsed
<1>1. CASE Launch   BY <1>1 DEF Launch
<1>2. CASE Tick
  <2>1. /\ now' = now /\ work' = 0 /\ cycle' = cycle + 1
        /\ stale' \in BOOLEAN /\ (~stale' => pausedAt = None)
    BY <1>2 DEF Tick
  <2>2. CASE pc' = "work" /\ startedAt' = now /\ pausedAt' = pausedAt
    BY <2>1, <2>2
  <2>3. CASE pc' = "down" /\ startedAt' = None /\ pausedAt' = None
    BY <2>1, <2>3
  <2> QED
    BY <1>2, <2>2, <2>3 DEF Tick
<1>3. CASE Pause    BY <1>3 DEF Pause
<1>4. CASE Resume
  <2>1. pc = "wait" /\ pausedAt # None /\ startedAt # None
    BY <1>4 DEF Resume
  <2>2. startedAt' = startedAt + (now - pausedAt)
    BY <1>4, <2>1 DEF Resume, Shifted
  <2>3. /\ pausedAt - startedAt <= work /\ pausedAt <= now
        /\ ~stale => pausedAt - startedAt = work
    BY <1>4, <2>1 DEF Resume
  <2>4. /\ startedAt' \in Nat /\ now - startedAt' <= work
        /\ ~stale => now - startedAt' = work
    BY <2>1, <2>2, <2>3
  <2>5. pc' = "work" /\ pausedAt' = None /\ UNCHANGED <<now, work, stale, cycle>>
    BY <1>4, <2>1 DEF Resume
  <2>6. TypeOK'
    BY <2>4, <2>5
  <2>7. Elapsed' = now - startedAt'
    BY <2>5
  <2>8. startedAt' # None
    BY <2>4
  <2>9. NoFalseAlarm' /\ ClockMeasuresWork'
    BY <2>4, <2>5, <2>7, <2>8
  <2> QED
    BY <2>5, <2>6, <2>9
<1>5. CASE EndBatch BY <1>5 DEF EndBatch
<1>6. CASE DropBatch BY <1>6 DEF DropBatch
<1>7. CASE Stop     BY <1>7 DEF Stop
<1>8. CASE Crash    BY <1>8 DEF Crash
<1>9. CASE Minute   BY <1>9 DEF Minute
<1>10. CASE Idle \/ UNCHANGED vars BY <1>10 DEF Idle, vars
<1> QED
  BY <1>1, <1>2, <1>3, <1>4, <1>5, <1>6, <1>7, <1>8, <1>9, <1>10 DEF Next

(* ClockInv holds of every reachable state.                                *)
LEMMA ClockInvariant == Spec => []ClockInv
<1>1. Init => ClockInv
  <2> SUFFICES ASSUME Init PROVE ClockInv
    OBVIOUS
  <2>1. TypeOK
    <3>1. stale \in BOOLEAN
      BY Zenon DEF Init
    <3> QED
      BY <3>1 DEF Init, TypeOK
  <2>2. pc = "down" /\ pausedAt = None
    BY DEF Init
  <2> QED
    BY <2>1, <2>2 DEF ClockInv, NoFalseAlarm, ClockMeasuresWork, InCycle
<1> QED
  BY <1>1, ClockStep, PTL DEF Spec

(* Whatever the budget and wherever the driver was killed before, the      *)
(* minute clock never shows more than the automatic work of the cycle.     *)
THEOREM ClockIsFair == Spec => []NoFalseAlarm
<1>1. ClockInv => NoFalseAlarm
  BY DEF ClockInv
<1> QED
  BY <1>1, ClockInvariant, PTL

(* In a cycle that did not begin with the stamp of a killed process the    *)
(* clock shows the automatic work to the minute: pauses, dropped batches   *)
(* and quits cost it nothing.                                              *)
THEOREM ClockIsExact == Spec => []ClockMeasuresWork
<1>1. ClockInv => ClockMeasuresWork
  BY DEF ClockInv
<1> QED
  BY <1>1, ClockInvariant, PTL

(* The verdict of check does not change in a wait, for the clock stands    *)
(* still: BUDGET_EXCEEDED begins during automatic work only.               *)
THEOREM WaitsAreFree == Spec => NothingExpiresInAWait
<1>1. ASSUME ClockInv, [Next]_vars, pc = "wait", pc' = "wait"
      PROVE  check' = check
  <2>1. Minute \/ UNCHANGED vars
    BY <1>1 DEF Next, Launch, Tick, Pause, Resume, EndBatch, DropBatch, Stop,
                Crash, Minute, Idle, vars
  <2>2. pausedAt # None /\ UNCHANGED <<cycle, startedAt, pausedAt>>
    BY <1>1, <2>1 DEF ClockInv, Minute, vars
  <2> QED
    BY <2>2 DEF check, Overtime, Elapsed
<1>2. ClockInv /\ [Next]_vars => [pc = "wait" /\ pc' = "wait" => check' = check]_vars
  BY <1>1
<1> QED
  BY <1>2, ClockInvariant, PTL DEF NothingExpiresInAWait, Spec
=============================================================================
