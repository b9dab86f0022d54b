-------------------------- MODULE CycleLoop_proofs --------------------------
(***************************************************************************)
(* Theorems about CycleLoop, for every plan, threshold and number of runs. *)
(* The inductive invariant is a conjunction of parts; a lemma for each     *)
(* says that a step keeps it, given the types and, for the types, that the *)
(* stall counter is below its threshold wherever a cycle may measure.      *)
(***************************************************************************)
EXTENDS CycleLoop, TLAPS

(* The stall counter counts measurements.  Between Dispatch and Measure     *)
(* there is no delta file; a cycle comes to measure only if it was not      *)
(* stalled, because the patcher asked G8.                                   *)
CounterInv ==
  /\ flats = zeroDelta
  /\ pc \in {"select", "generate", "apply", "measure"} => delta = "none" /\ measured = "none"
  /\ pc = "measure" => zeroDelta < MaxZeroDelta
  /\ pc \in {"mark", "return"} =>
       delta = measured /\ (delta # "none" => zeroDelta < MaxZeroDelta)
  /\ stop = "stall" => zeroDelta >= MaxZeroDelta
  /\ stop # "none" => pc = "off"

(* The target in work is the first one that is not in the record, so that   *)
(* adding it leaves the record a prefix of the plan.                        *)
RecordInv ==
  /\ RecordIsPrefix
  /\ pc \in {"generate", "apply", "measure", "mark"} =>
       \E i \in DOMAIN Plan : target = Plan[i] /\ IsNext(i)
  /\ pc = "return" /\ cmdRc = "ok" => target \in done
  /\ pc = "return" /\ cmdRc = "budget" => target \in Targets \ done
  /\ pc \in {"return", "evaluate"} /\ cmdRc = "noTargets" => Targets \subseteq done
  /\ stop = "done" => Targets \subseteq done
  /\ stop # "none" => pc = "off"

(* The cycle counter is ahead of the calls from Tick until the call.        *)
CallInv ==
  /\ calls <= cycle /\ calls <= MaxCycles
  /\ pc = "check" => calls < cycle
  /\ pc \in {"select", "generate"} => calls < cycle /\ cycle <= MaxCycles

ClockInv ==
  /\ CleanStop
  /\ stop # "none" => pc = "off"

LoopInv == TypeOK /\ CounterInv /\ RecordInv /\ CallInv /\ ClockInv
-----------------------------------------------------------------------------
(* Over budget or stalled, the patcher neither writes nor exits with 0.     *)
LEMMA PatcherObeys ==
  ASSUME NEW result \in PatcherResults, OverBudget \/ Stalled
  PROVE  result[2] = FALSE /\ result[1] # 0
<1>1. result \in {<<2, FALSE>>, <<3, FALSE>>}
  BY Zenon DEF PatcherResults
<1>2. CASE result = <<2, FALSE>>
  BY <1>2
<1>3. CASE result = <<3, FALSE>>
  BY <1>3
<1>4. QED
  BY <1>1, <1>2, <1>3

(* Types.  That a target is in work, where one is written or recorded, is
   part of RecordInv. *)
LEMMA TypeStep == TypeOK /\ CounterInv /\ RecordInv /\ [Next]_vars => TypeOK'
<1> SUFFICES ASSUME TypeOK, CounterInv, RecordInv, [Next]_vars PROVE TypeOK'
  OBVIOUS
<1> USE LoopAssumption DEF TypeOK, Levels, ExitCodes, Reasons
<1>1. CASE Start
  BY <1>1 DEF Start, vars, run, state, repo, history
<1>2. CASE Tick
  BY <1>2 DEF Tick, vars, run, state, repo, history
<1>3. CASE BudgetStop
  BY <1>3 DEF BudgetStop, Leave, vars, run, state, repo, history
<1>4. CASE BudgetUnreadable
  BY <1>4 DEF BudgetUnreadable, Leave, vars, run, state, repo, history
<1>5. CASE Dispatch
  BY <1>5 DEF Dispatch, vars, run, state, repo, history
<1>6. CASE NoTargets
  BY <1>6 DEF NoTargets, Work, vars, run, state, repo, history
<1>7. CASE Select
  BY <1>7 DEF Select, Work, vars, run, state, repo, history, Targets
<1>8. CASE Generate
  BY <1>8 DEF Generate, Work, vars, run, state, repo, history
<1>9. CASE ApplyPatch
  BY <1>9 DEF ApplyPatch, Work, vars, run, state, repo, history, RecordInv, Targets
<1>10. CASE Measure
  BY <1>10 DEF Measure, Work, vars, run, state, repo, history
<1>11. CASE MarkProcessed
  BY <1>11 DEF MarkProcessed, vars, run, state, repo, history, RecordInv, Targets
<1>12. CASE CycleError
  BY <1>12 DEF CycleError, Leave, vars, run, state, repo, history
<1>13. CASE CycleRaises
  BY <1>13 DEF CycleRaises, Leave, vars, run, state, repo, history
<1>14. CASE RecordOutcome
  BY <1>14 DEF RecordOutcome, vars, run, state, repo, history, CounterInv, CountDelta
<1>15. CASE Evaluate
  BY <1>15 DEF Evaluate, Leave, vars, run, state, repo, history
<1>16. CASE Crash
  BY <1>16 DEF Crash, Leave, vars, run, state, repo, history
<1>17. CASE TornWrite
  BY <1>17 DEF TornWrite, vars, run, state, repo, history
<1>18. CASE Idle
  BY <1>18 DEF Idle, vars, run, state, repo, history
<1>19. CASE UNCHANGED vars
  BY <1>19 DEF vars, run, state, repo, history
<1>20. QED
  BY <1>1, <1>2, <1>3, <1>4, <1>5, <1>6, <1>7, <1>8, <1>9, <1>10, <1>11, <1>12, <1>13, <1>14, <1>15, <1>16, <1>17, <1>18, <1>19 DEF Next, Loop, OneCycle

(* The stall counter and what was measured. *)
LEMMA CounterStep == TypeOK /\ CounterInv /\ [Next]_vars => CounterInv'
<1> SUFFICES ASSUME TypeOK, CounterInv, [Next]_vars PROVE CounterInv'
  OBVIOUS
<1> USE LoopAssumption DEF TypeOK, CounterInv, Levels
<1>1. CASE Start
  BY <1>1 DEF Start, vars, run, state, repo, history
<1>2. CASE Tick
  BY <1>2 DEF Tick, vars, run, state, repo, history
<1>3. CASE BudgetStop
  BY <1>3 DEF BudgetStop, Leave, vars, run, state, repo, history
<1>4. CASE BudgetUnreadable
  BY <1>4 DEF BudgetUnreadable, Leave, vars, run, state, repo, history
<1>5. CASE Dispatch
  BY <1>5 DEF Dispatch, vars, run, state, repo, history
<1>6. CASE NoTargets
  BY <1>6 DEF NoTargets, Work, vars, run, state, repo, history
<1>7. CASE Select
  BY <1>7 DEF Select, Work, vars, run, state, repo, history
<1>8. CASE Generate
  BY <1>8 DEF Generate, Work, vars, run, state, repo, history
<1>9. CASE ApplyPatch
  <2>1. PICK result \in PatcherResults :
          IF result[1] = 2
          THEN Work("return") /\ cmdRc' = "budget"
          ELSE Work(IF result[1] = 0 THEN "measure" ELSE "mark") /\ UNCHANGED cmdRc
    BY <1>9 DEF ApplyPatch
  <2>2. pc = "apply" /\ UNCHANGED <<delta, history>>
    BY <1>9 DEF ApplyPatch
  <2>3. pc' = "measure" => ~Stalled
    <3>1. ASSUME Stalled PROVE result[1] # 0
      BY <3>1, PatcherObeys
    <3>2. QED
      BY <2>1, <3>1 DEF Work
  <2>4. pc' \in {"return", "measure", "mark"} /\ UNCHANGED <<stop, zeroDelta>>
    BY <2>1 DEF Work, state
  <2>5. QED
    BY <2>2, <2>3, <2>4 DEF Stalled, history
<1>10. CASE Measure
  BY <1>10 DEF Measure, Work, vars, run, state, repo, history
<1>11. CASE MarkProcessed
  BY <1>11 DEF MarkProcessed, vars, run, state, repo, history
<1>12. CASE CycleError
  BY <1>12 DEF CycleError, Leave, vars, run, state, repo, history
<1>13. CASE CycleRaises
  BY <1>13 DEF CycleRaises, Leave, vars, run, state, repo, history
<1>14. CASE RecordOutcome
  BY <1>14 DEF RecordOutcome, vars, run, state, repo, history, CountDelta
<1>15. CASE Evaluate
  BY <1>15 DEF Evaluate, Leave, vars, run, state, repo, history, Stalled
<1>16. CASE Crash
  BY <1>16 DEF Crash, Leave, vars, run, state, repo, history
<1>17. CASE TornWrite
  BY <1>17 DEF TornWrite, vars, run, state, repo, history
<1>18. CASE Idle
  BY <1>18 DEF Idle, vars, run, state, repo, history
<1>19. CASE UNCHANGED vars
  BY <1>19 DEF vars, run, state, repo, history
<1>20. QED
  BY <1>1, <1>2, <1>3, <1>4, <1>5, <1>6, <1>7, <1>8, <1>9, <1>10, <1>11, <1>12, <1>13, <1>14, <1>15, <1>16, <1>17, <1>18, <1>19 DEF Next, Loop, OneCycle

(* The record and the exit codes. *)
LEMMA RecordStep == TypeOK /\ RecordInv /\ [Next]_vars => RecordInv'
<1> SUFFICES ASSUME TypeOK, RecordInv, [Next]_vars PROVE RecordInv'
  OBVIOUS
<1> USE LoopAssumption DEF TypeOK, RecordInv, RecordIsPrefix, IsNext, Targets
<1>1. CASE Start
  BY <1>1 DEF Start, vars, run, state, repo, history
<1>2. CASE Tick
  BY <1>2 DEF Tick, vars, run, state, repo, history
<1>3. CASE BudgetStop
  BY <1>3 DEF BudgetStop, Leave, vars, run, state, repo, history
<1>4. CASE BudgetUnreadable
  BY <1>4 DEF BudgetUnreadable, Leave, vars, run, state, repo, history
<1>5. CASE Dispatch
  BY <1>5 DEF Dispatch, vars, run, state, repo, history
<1>6. CASE NoTargets
  BY <1>6 DEF NoTargets, Work, vars, run, state, repo, history
<1>7. CASE Select
  BY <1>7 DEF Select, Work, vars, run, state, repo, history
<1>8. CASE Generate
  BY <1>8 DEF Generate, Work, vars, run, state, repo, history
<1>9. CASE ApplyPatch
  BY <1>9 DEF ApplyPatch, Work, vars, run, state, repo, history
<1>10. CASE Measure
  BY <1>10 DEF Measure, Work, vars, run, state, repo, history
<1>11. CASE MarkProcessed
  BY <1>11 DEF MarkProcessed, vars, run, state, repo, history
<1>12. CASE CycleError
  BY <1>12 DEF CycleError, Leave, vars, run, state, repo, history
<1>13. CASE CycleRaises
  BY <1>13 DEF CycleRaises, Leave, vars, run, state, repo, history
<1>14. CASE RecordOutcome
  BY <1>14 DEF RecordOutcome, vars, run, state, repo, history
<1>15. CASE Evaluate
  BY <1>15 DEF Evaluate, Leave, vars, run, state, repo, history
<1>16. CASE Crash
  BY <1>16 DEF Crash, Leave, vars, run, state, repo, history
<1>17. CASE TornWrite
  BY <1>17 DEF TornWrite, vars, run, state, repo, history
<1>18. CASE Idle
  BY <1>18 DEF Idle, vars, run, state, repo, history
<1>19. CASE UNCHANGED vars
  BY <1>19 DEF vars, run, state, repo, history
<1>20. QED
  BY <1>1, <1>2, <1>3, <1>4, <1>5, <1>6, <1>7, <1>8, <1>9, <1>10, <1>11, <1>12, <1>13, <1>14, <1>15, <1>16, <1>17, <1>18, <1>19 DEF Next, Loop, OneCycle

(* Calls of the model. *)
LEMMA CallStep == TypeOK /\ CallInv /\ [Next]_vars => CallInv'
<1> SUFFICES ASSUME TypeOK, CallInv, [Next]_vars PROVE CallInv'
  OBVIOUS
<1> USE LoopAssumption DEF TypeOK, CallInv, OverBudget
<1>1. CASE Start
  BY <1>1 DEF Start, vars, run, state, repo, history
<1>2. CASE Tick
  BY <1>2 DEF Tick, vars, run, state, repo, history
<1>3. CASE BudgetStop
  BY <1>3 DEF BudgetStop, Leave, vars, run, state, repo, history
<1>4. CASE BudgetUnreadable
  BY <1>4 DEF BudgetUnreadable, Leave, vars, run, state, repo, history
<1>5. CASE Dispatch
  BY <1>5 DEF Dispatch, vars, run, state, repo, history
<1>6. CASE NoTargets
  BY <1>6 DEF NoTargets, Work, vars, run, state, repo, history
<1>7. CASE Select
  BY <1>7 DEF Select, Work, vars, run, state, repo, history
<1>8. CASE Generate
  BY <1>8 DEF Generate, Work, vars, run, state, repo, history
<1>9. CASE ApplyPatch
  BY <1>9 DEF ApplyPatch, Work, vars, run, state, repo, history
<1>10. CASE Measure
  BY <1>10 DEF Measure, Work, vars, run, state, repo, history
<1>11. CASE MarkProcessed
  BY <1>11 DEF MarkProcessed, vars, run, state, repo, history
<1>12. CASE CycleError
  BY <1>12 DEF CycleError, Leave, vars, run, state, repo, history
<1>13. CASE CycleRaises
  BY <1>13 DEF CycleRaises, Leave, vars, run, state, repo, history
<1>14. CASE RecordOutcome
  BY <1>14 DEF RecordOutcome, vars, run, state, repo, history
<1>15. CASE Evaluate
  BY <1>15 DEF Evaluate, Leave, vars, run, state, repo, history
<1>16. CASE Crash
  BY <1>16 DEF Crash, Leave, vars, run, state, repo, history
<1>17. CASE TornWrite
  BY <1>17 DEF TornWrite, vars, run, state, repo, history
<1>18. CASE Idle
  BY <1>18 DEF Idle, vars, run, state, repo, history
<1>19. CASE UNCHANGED vars
  BY <1>19 DEF vars, run, state, repo, history
<1>20. QED
  BY <1>1, <1>2, <1>3, <1>4, <1>5, <1>6, <1>7, <1>8, <1>9, <1>10, <1>11, <1>12, <1>13, <1>14, <1>15, <1>16, <1>17, <1>18, <1>19 DEF Next, Loop, OneCycle

(* The stamp of the cycle. *)
LEMMA ClockStep == ClockInv /\ [Next]_vars => ClockInv'
<1> SUFFICES ASSUME ClockInv, [Next]_vars PROVE ClockInv'
  OBVIOUS
<1> USE LoopAssumption DEF ClockInv, CleanStop, Reasons
<1>1. CASE Start
  BY <1>1 DEF Start, vars, run, state, repo, history
<1>2. CASE Tick
  BY <1>2 DEF Tick, vars, run, state, repo, history
<1>3. CASE BudgetStop
  BY <1>3 DEF BudgetStop, Leave, vars, run, state, repo, history
<1>4. CASE BudgetUnreadable
  BY <1>4 DEF BudgetUnreadable, Leave, vars, run, state, repo, history
<1>5. CASE Dispatch
  BY <1>5 DEF Dispatch, vars, run, state, repo, history
<1>6. CASE NoTargets
  BY <1>6 DEF NoTargets, Work, vars, run, state, repo, history
<1>7. CASE Select
  BY <1>7 DEF Select, Work, vars, run, state, repo, history
<1>8. CASE Generate
  BY <1>8 DEF Generate, Work, vars, run, state, repo, history
<1>9. CASE ApplyPatch
  BY <1>9 DEF ApplyPatch, Work, vars, run, state, repo, history
<1>10. CASE Measure
  BY <1>10 DEF Measure, Work, vars, run, state, repo, history
<1>11. CASE MarkProcessed
  BY <1>11 DEF MarkProcessed, vars, run, state, repo, history
<1>12. CASE CycleError
  BY <1>12 DEF CycleError, Leave, vars, run, state, repo, history
<1>13. CASE CycleRaises
  BY <1>13 DEF CycleRaises, Leave, vars, run, state, repo, history
<1>14. CASE RecordOutcome
  BY <1>14 DEF RecordOutcome, vars, run, state, repo, history
<1>15. CASE Evaluate
  BY <1>15 DEF Evaluate, Leave, vars, run, state, repo, history
<1>16. CASE Crash
  BY <1>16 DEF Crash, Leave, vars, run, state, repo, history
<1>17. CASE TornWrite
  BY <1>17 DEF TornWrite, vars, run, state, repo, history
<1>18. CASE Idle
  BY <1>18 DEF Idle, vars, run, state, repo, history
<1>19. CASE UNCHANGED vars
  BY <1>19 DEF vars, run, state, repo, history
<1>20. QED
  BY <1>1, <1>2, <1>3, <1>4, <1>5, <1>6, <1>7, <1>8, <1>9, <1>10, <1>11, <1>12, <1>13, <1>14, <1>15, <1>16, <1>17, <1>18, <1>19 DEF Next, Loop, OneCycle

LEMMA LoopInvariant == Spec => []LoopInv
<1>1. Init => LoopInv
  <2> SUFFICES ASSUME Init PROVE LoopInv
    OBVIOUS
  <2>1. TypeOK
    <3>1. report \in Levels \union {"none"} /\ baselines \subseteq {"state", "repo"}
      BY DEF Init, Levels
    <3>2. {delta, report, measured} \subseteq Levels \union {"none"}
      BY <3>1 DEF Init
    <3>3. zeroDelta \in 0..MaxZeroDelta
      BY LoopAssumption DEF Init
    <3>4. QED
      BY <3>1, <3>2, <3>3 DEF Init, TypeOK, ExitCodes, Reasons
  <2>2. CounterInv /\ CallInv /\ ClockInv
    BY LoopAssumption DEF Init, CounterInv, CallInv, ClockInv, CleanStop, Reasons
  <2>3. RecordInv
    BY DEF Init, RecordInv, RecordIsPrefix
  <2>4. QED
    BY <2>1, <2>2, <2>3 DEF LoopInv
<1>2. LoopInv /\ [Next]_vars => LoopInv'
  BY TypeStep, CounterStep, RecordStep, CallStep, ClockStep DEF LoopInv
<1>3. QED
  BY <1>1, <1>2, PTL DEF Spec
-----------------------------------------------------------------------------
(* Types; in particular the stall counter stays within its threshold.       *)
THEOREM TypeCorrect == Spec => []TypeOK
<1>1. LoopInv => TypeOK
  BY DEF LoopInv
<1>2. QED
  BY LoopInvariant, <1>1, PTL

(* run_loop reports a stall (record_outcome, gate_g8) only after that many  *)
(* flat measurements in a row.                                              *)
THEOREM StallsAreMeasured == Spec => []StallIsMeasured
<1>1. LoopInv => StallIsMeasured
  BY DEF LoopInv, CounterInv, StallIsMeasured
<1>2. QED
  BY LoopInvariant, <1>1, PTL

(* The loop passes no target over (select_next_target, mark_processed).     *)
THEOREM NoTargetIsPassedOver == Spec => []RecordIsPrefix
<1>1. LoopInv => RecordIsPrefix
  BY DEF LoopInv, RecordInv
<1>2. QED
  BY LoopInvariant, <1>1, PTL

(* The exit codes of run_one_cycle and the end "done" tell the truth.       *)
THEOREM OutcomesAreTrue == Spec => []OutcomeIsTrue
<1>1. LoopInv => OutcomeIsTrue
  BY DEF LoopInv, RecordInv, OutcomeIsTrue
<1>2. QED
  BY LoopInvariant, <1>1, PTL

(* maxCycles bounds the calls of the model over all runs and kills.         *)
THEOREM FinitelyManyCalls == Spec => []CallsAreBounded
<1>1. LoopInv => CallsAreBounded
  BY DEF LoopInv, CallInv, CallsAreBounded
<1>2. QED
  BY LoopInvariant, <1>1, PTL

(* Every return of run_loop has called reset.                               *)
THEOREM StopsAreClean == Spec => []CleanStop
<1>1. LoopInv => CleanStop
  BY DEF LoopInv, ClockInv
<1>2. QED
  BY LoopInvariant, <1>1, PTL

(* Over budget or stalled, the patcher writes no Java.                      *)
THEOREM NothingIsWrittenInVain == Spec => BrakesStopWriting
<1>1. TypeOK /\ [Next]_vars =>
        [OverBudget \/ zeroDelta >= MaxZeroDelta => written' = written]_vars
  <2> SUFFICES ASSUME [Next]_vars, OverBudget \/ Stalled
               PROVE  written' = written
    BY DEF Stalled
  <2>1. CASE ApplyPatch
    BY <2>1, PatcherObeys DEF ApplyPatch
  <2>2. CASE Next /\ ~ApplyPatch
    BY <2>2 DEF Next, Loop, OneCycle, Start, Tick, BudgetStop, BudgetUnreadable, Dispatch,
       NoTargets, Select, Generate, Measure, MarkProcessed, CycleError, CycleRaises,
       RecordOutcome, Evaluate, Crash, TornWrite, Idle, Leave, Work, vars, repo
  <2>3. CASE UNCHANGED vars
    BY <2>3 DEF vars, repo
  <2>4. QED
    BY <2>1, <2>2, <2>3
<1>2. QED
  BY <1>1, TypeCorrect, PTL DEF Spec, BrakesStopWriting
=============================================================================
