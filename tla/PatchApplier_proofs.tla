------------------------ MODULE PatchApplier_proofs ------------------------
(***************************************************************************)
(* Theorems about PatchApplier, for every set of methods and of repair     *)
(* triplets, every limit of the gates and every number of patches.         *)
(***************************************************************************)
EXTENDS PatchApplier, TLAPS

Unwritten == {"perimeter", "budget", "gates", "prior", "write"}
Written == {"lint", "dispatch", "relint", "rollback", "report"}

(* Until the patcher writes, the file is what it was; what it will restore *)
(* is that, unless reading it failed.                                      *)
PriorInv ==
  /\ pc \in Unwritten => file = before
  /\ pc \in {"write"} \union Written /\ ~mishap => prior = before

(* After the write the file exists and holds every method it held before;  *)
(* the report step is reached with what the linter passed.                 *)
WrittenInv ==
  /\ pc \in Written => /\ file.exists
                       /\ \A m \in Methods : before.has[m] # 0 => file.has[m] = before.has[m]
  /\ pc = "report" => linted = file
  /\ pc = "idle" => before = NoFile

(* While a patch is at work, a class that is reported had a file before.   *)
ReportInv ==
  reported /\ ~mishap => IF pc = "idle" THEN file.exists ELSE before.exists

(* With a careful agent, nothing is owed while a patch is on its way to    *)
(* the disk; what is on disk is recorded or owed; a triplet that was tried *)
(* without success is remembered as failed; and the gate is passed before  *)
(* anything is written.                                                    *)
Owing(f) == IF f \in owed THEN 1 ELSE 0
Tried(f) ==
  /\ fails[f] <= memory[f].attempts + Owing(f)
  /\ Owing(f) < fails[f] => memory[f].failed
  /\ fails[f] <= MaxFailed
LoopInv ==
  ~careless =>
    /\ pc \in Unwritten => owed = {}
    /\ \A f \in Fixes : Tried(f)
    /\ pc \in {"prior", "write"} =>
         \A f \in patch.fixes : memory[f].failed => memory[f].attempts < MaxFailed

PatcherInv == TypeOK /\ PriorInv /\ WrittenInv /\ ReportInv /\ LoopInv

-----------------------------------------------------------------------------
(* No file is a file and no patch is a patch.                              *)
LEMMA Nones == NoFile \in Files /\ NoPatch \in Patches
  BY DEF NoFile, Files, NoPatch, Patches, Defects

(* A written file is a file, and one repaired is.                          *)
LEMMA WritesFiles ==
  ASSUME TypeOK
  PROVE  /\ Injected \in Files
         /\ [file EXCEPT !.fixes = @ + 1] \in Files
         /\ Injected.exists /\ \A m \in Methods : file.has[m] # 0 => Injected.has[m] = file.has[m]
  BY DEF TypeOK, Files, Injected

(* Every step keeps the types.                                             *)
LEMMA TypeStep == TypeOK /\ [Next]_vars => TypeOK'
<1> SUFFICES ASSUME TypeOK, [Next]_vars PROVE TypeOK'
  OBVIOUS
<1> USE PatcherAssumption, Nones, WritesFiles DEF TypeOK, past
<1>1. CASE \E p \in Patches : Start(p)
  BY <1>1 DEF Start
<1>2. CASE PerimeterRefuses
  BY <1>2 DEF PerimeterRefuses, Finish
<1>3. CASE PerimeterPasses
  BY <1>3 DEF PerimeterPasses, Goto
<1>4. CASE BudgetRefuses
  BY <1>4 DEF BudgetRefuses, Finish
<1>5. CASE BudgetPasses
  BY <1>5 DEF BudgetPasses, Goto
<1>6. CASE GatesRefuse
  <2> DEFINE code == IF patch.defect = "stalled" /\ ~LoopBlocked THEN "2" ELSE "3"
  <2>1. pc = "gates" /\ Finish(code) /\ UNCHANGED <<file, reported, mishap>> /\ code \in {"2", "3"}
    BY <1>6 DEF GatesRefuse
  <2> HIDE DEF code
  <2> QED
    BY <2>1 DEF Finish
<1>7. CASE GatesPass
  BY <1>7 DEF GatesPass, Goto
<1>8. CASE ReadPrior
  BY <1>8 DEF ReadPrior, Goto
<1>9. CASE WriteRefused
  BY <1>9 DEF WriteRefused, Finish
<1>10. CASE Write
  <2>1. patch \in Patches /\ owed' = patch.fixes /\ tries' \in Nat /\ fails' \in [Fixes -> Nat]
    BY <1>10 DEF Write
  <2>2. owed' \subseteq Fixes
    BY <2>1 DEF Patches
  <2> QED
    BY <1>10, <2>1, <2>2 DEF Write, Goto
<1>11. CASE Lint
  BY <1>11 DEF Lint, Goto
<1>12. CASE Repair
  BY <1>12 DEF Repair, Goto
<1>13. CASE DispatchEnds
  BY <1>13 DEF DispatchEnds, Goto
<1>14. CASE GatesRaise
  BY <1>14 DEF GatesRaise, Finish
<1>15. CASE Rollback
  BY <1>15 DEF Rollback, Finish
<1>16. CASE UpdateReport
  BY <1>16 DEF UpdateReport, Finish
<1>17. CASE Kill
  BY <1>17 DEF Kill, Finish
<1>18. CASE \E f \in Fixes, failed \in BOOLEAN : Remember(f, failed)
  <2> PICK f \in Fixes, failed \in BOOLEAN : Remember(f, failed)
    BY <1>18
  <2>1. memory' \in [Fixes -> [attempts : Nat, failed : BOOLEAN]]
    BY DEF Remember
  <2>2. fails' \in [Fixes -> Nat] /\ owed' \subseteq Fixes
    BY DEF Remember
  <2> QED
    BY <2>1, <2>2 DEF Remember, run
<1>19. CASE UNCHANGED vars
  BY <1>19 DEF vars, run
<1> QED
  BY <1>1, <1>2, <1>3, <1>4, <1>5, <1>6, <1>7, <1>8, <1>9, <1>10, <1>11, <1>12, <1>13,
     <1>14, <1>15, <1>16, <1>17, <1>18, <1>19 DEF Next

(* Every step keeps PriorInv.                                              *)
LEMMA PriorStep == TypeOK /\ PriorInv /\ [Next]_vars => PriorInv'
<1> SUFFICES ASSUME TypeOK, PriorInv, [Next]_vars PROVE PriorInv'
  OBVIOUS
<1> USE DEF PriorInv, Unwritten, Written, TypeOK
<1>1. CASE \E p \in Patches : Start(p)
  BY <1>1 DEF Start
<1>2. CASE PerimeterRefuses
  BY <1>2 DEF PerimeterRefuses, Finish
<1>3. CASE PerimeterPasses
  BY <1>3 DEF PerimeterPasses, Goto
<1>4. CASE BudgetRefuses
  BY <1>4 DEF BudgetRefuses, Finish
<1>5. CASE BudgetPasses
  BY <1>5 DEF BudgetPasses, Goto
<1>6. CASE GatesRefuse
  BY <1>6 DEF GatesRefuse, Finish
<1>7. CASE GatesPass
  BY <1>7 DEF GatesPass, Goto
<1>8. CASE ReadPrior
  BY <1>8 DEF ReadPrior, Goto
<1>9. CASE WriteRefused
  BY <1>9 DEF WriteRefused, Finish
<1>10. CASE Write
  BY <1>10 DEF Write, Goto
<1>11. CASE Lint
  BY <1>11 DEF Lint, Goto
<1>12. CASE Repair
  BY <1>12 DEF Repair, Goto
<1>13. CASE DispatchEnds
  BY <1>13 DEF DispatchEnds, Goto
<1>14. CASE GatesRaise
  BY <1>14 DEF GatesRaise, Finish
<1>15. CASE Rollback
  BY <1>15 DEF Rollback, Finish
<1>16. CASE UpdateReport
  BY <1>16 DEF UpdateReport, Finish
<1>17. CASE Kill
  BY <1>17 DEF Kill, Finish
<1>18. CASE \E f \in Fixes, failed \in BOOLEAN : Remember(f, failed)
  BY <1>18 DEF Remember, run
<1>19. CASE UNCHANGED vars
  BY <1>19 DEF vars, run
<1> QED
  BY <1>1, <1>2, <1>3, <1>4, <1>5, <1>6, <1>7, <1>8, <1>9, <1>10, <1>11, <1>12, <1>13,
     <1>14, <1>15, <1>16, <1>17, <1>18, <1>19 DEF Next

(* Every step keeps WrittenInv; the write is the step that matters.        *)
LEMMA WrittenStep == TypeOK /\ PriorInv /\ WrittenInv /\ [Next]_vars => WrittenInv'
<1> SUFFICES ASSUME TypeOK, PriorInv, WrittenInv, [Next]_vars PROVE WrittenInv'
  OBVIOUS
<1> USE DEF PriorInv, WrittenInv, Unwritten, Written, TypeOK
<1>1. CASE \E p \in Patches : Start(p)
  BY <1>1 DEF Start
<1>2. CASE PerimeterRefuses
  BY <1>2 DEF PerimeterRefuses, Finish
<1>3. CASE PerimeterPasses
  BY <1>3 DEF PerimeterPasses, Goto
<1>4. CASE BudgetRefuses
  BY <1>4 DEF BudgetRefuses, Finish
<1>5. CASE BudgetPasses
  BY <1>5 DEF BudgetPasses, Goto
<1>6. CASE GatesRefuse
  BY <1>6 DEF GatesRefuse, Finish
<1>7. CASE GatesPass
  BY <1>7 DEF GatesPass, Goto
<1>8. CASE ReadPrior
  BY <1>8 DEF ReadPrior, Goto
<1>9. CASE WriteRefused
  BY <1>9 DEF WriteRefused, Finish
<1>10. CASE Write
  <2>1. file = before /\ before' = before /\ file' = Injected /\ pc' = "lint"
    BY <1>10 DEF Write, Goto
  <2> QED
    BY <2>1, WritesFiles
<1>11. CASE Lint
  BY <1>11 DEF Lint, Goto
<1>12. CASE Repair
  <2>1. file'.exists = file.exists /\ file'.has = file.has
    BY <1>12 DEF Repair, Files
  <2> QED
    BY <1>12, <2>1 DEF Repair, Goto
<1>13. CASE DispatchEnds
  BY <1>13 DEF DispatchEnds, Goto
<1>14. CASE GatesRaise
  BY <1>14 DEF GatesRaise, Finish
<1>15. CASE Rollback
  BY <1>15 DEF Rollback, Finish
<1>16. CASE UpdateReport
  BY <1>16 DEF UpdateReport, Finish
<1>17. CASE Kill
  BY <1>17 DEF Kill, Finish
<1>18. CASE \E f \in Fixes, failed \in BOOLEAN : Remember(f, failed)
  BY <1>18 DEF Remember, run
<1>19. CASE UNCHANGED vars
  BY <1>19 DEF vars, run
<1> QED
  BY <1>1, <1>2, <1>3, <1>4, <1>5, <1>6, <1>7, <1>8, <1>9, <1>10, <1>11, <1>12, <1>13,
     <1>14, <1>15, <1>16, <1>17, <1>18, <1>19 DEF Next

(* Every step keeps ReportInv: a rollback puts back a file that was there. *)
LEMMA ReportStep == TypeOK /\ PriorInv /\ WrittenInv /\ ReportInv /\ [Next]_vars => ReportInv'
<1> SUFFICES ASSUME TypeOK, PriorInv, WrittenInv, ReportInv, [Next]_vars PROVE ReportInv'
  OBVIOUS
<1> USE DEF PriorInv, WrittenInv, ReportInv, Unwritten, Written, TypeOK
<1>1. CASE \E p \in Patches : Start(p)
  BY <1>1 DEF Start
<1>2. CASE PerimeterRefuses
  BY <1>2 DEF PerimeterRefuses, Finish
<1>3. CASE PerimeterPasses
  BY <1>3 DEF PerimeterPasses, Goto
<1>4. CASE BudgetRefuses
  BY <1>4 DEF BudgetRefuses, Finish
<1>5. CASE BudgetPasses
  BY <1>5 DEF BudgetPasses, Goto
<1>6. CASE GatesRefuse
  BY <1>6 DEF GatesRefuse, Finish
<1>7. CASE GatesPass
  BY <1>7 DEF GatesPass, Goto
<1>8. CASE ReadPrior
  BY <1>8 DEF ReadPrior, Goto
<1>9. CASE WriteRefused
  BY <1>9 DEF WriteRefused, Finish
<1>10. CASE Write
  BY <1>10 DEF Write, Goto
<1>11. CASE Lint
  BY <1>11 DEF Lint, Goto
<1>12. CASE Repair
  BY <1>12 DEF Repair, Goto
<1>13. CASE DispatchEnds
  BY <1>13 DEF DispatchEnds, Goto
<1>14. CASE GatesRaise
  BY <1>14 DEF GatesRaise, Finish
<1>15. CASE Rollback
  BY <1>15 DEF Rollback, Finish
<1>16. CASE UpdateReport
  BY <1>16 DEF UpdateReport, Finish
<1>17. CASE Kill
  BY <1>17 DEF Kill, Finish
<1>18. CASE \E f \in Fixes, failed \in BOOLEAN : Remember(f, failed)
  BY <1>18 DEF Remember, run
<1>19. CASE UNCHANGED vars
  BY <1>19 DEF vars, run
<1> QED
  BY <1>1, <1>2, <1>3, <1>4, <1>5, <1>6, <1>7, <1>8, <1>9, <1>10, <1>11, <1>12, <1>13,
     <1>14, <1>15, <1>16, <1>17, <1>18, <1>19 DEF Next

(* Every step keeps LoopInv: the patch is counted when it is written, and  *)
(* recorded when the patcher is over.                                      *)
LEMMA LoopStep == TypeOK /\ LoopInv /\ [Next]_vars => LoopInv'
<1> SUFFICES ASSUME TypeOK, LoopInv, [Next]_vars PROVE LoopInv'
  OBVIOUS
<1> USE PatcherAssumption DEF LoopInv, Tried, Owing, Unwritten, TypeOK, past
<1>1. CASE \E p \in Patches : Start(p)
  BY <1>1 DEF Start
<1>2. CASE PerimeterRefuses
  BY <1>2 DEF PerimeterRefuses, Finish
<1>3. CASE PerimeterPasses
  BY <1>3 DEF PerimeterPasses, Goto
<1>4. CASE BudgetRefuses
  BY <1>4 DEF BudgetRefuses, Finish
<1>5. CASE BudgetPasses
  BY <1>5 DEF BudgetPasses, Goto
<1>6. CASE GatesRefuse
  BY <1>6 DEF GatesRefuse, Finish
<1>7. CASE GatesPass
  <2>1. pc = "gates" /\ pc' = "prior" /\ UNCHANGED <<patch, memory, past>> /\ ~LoopBlocked
    BY <1>7 DEF GatesPass, GatesFail, Goto
  <2>2. \A f \in patch.fixes : ~(memory[f].failed /\ memory[f].attempts >= MaxFailed)
    BY <2>1 DEF LoopBlocked
  <2>3. \A f \in patch.fixes : memory[f].attempts \in Nat
    BY DEF Patches
  <2>4. \A f \in patch.fixes : memory[f].failed => memory[f].attempts < MaxFailed
    BY <2>2, <2>3
  <2> QED
    BY <2>1, <2>4
<1>8. CASE ReadPrior
  BY <1>8 DEF ReadPrior, Goto
<1>9. CASE WriteRefused
  BY <1>9 DEF WriteRefused, Finish
<1>10. CASE Write
  <2> SUFFICES ASSUME ~careless PROVE LoopInv'
    BY <1>10 DEF Write
  <2>1. /\ pc = "write" /\ pc' = "lint" /\ memory' = memory /\ owed' = patch.fixes
        /\ fails' = [f \in Fixes |-> fails[f] + (IF f \in patch.fixes THEN 1 ELSE 0)]
    BY <1>10 DEF Write, Goto
  <2>2. owed = {} /\ \A f \in patch.fixes : memory[f].failed => memory[f].attempts < MaxFailed
    BY <2>1
  <2>3. ASSUME NEW f \in Fixes PROVE Tried(f)'
    <3>1. fails[f] \in Nat /\ memory[f].attempts \in Nat /\ memory[f].failed \in BOOLEAN
      OBVIOUS
    <3>2. /\ fails[f] <= memory[f].attempts /\ (0 < fails[f] => memory[f].failed)
          /\ fails[f] <= MaxFailed
      BY <2>2, <3>1
    <3>3. CASE f \in patch.fixes
      <4>1. fails'[f] = fails[f] + 1 /\ f \in owed' /\ memory'[f] = memory[f]
        BY <2>1, <3>3
      <4>2. memory[f].failed => memory[f].attempts < MaxFailed
        BY <2>2, <3>3
      <4> QED
        BY <3>1, <3>2, <4>1, <4>2
    <3>4. CASE f \notin patch.fixes
      <4>1. fails'[f] = fails[f] /\ f \notin owed' /\ memory'[f] = memory[f]
        BY <2>1, <3>1, <3>4
      <4> QED
        BY <3>1, <3>2, <4>1
    <3> QED
      BY <3>3, <3>4
  <2> QED
    BY <2>1, <2>3
<1>11. CASE Lint
  BY <1>11 DEF Lint, Goto
<1>12. CASE Repair
  BY <1>12 DEF Repair, Goto
<1>13. CASE DispatchEnds
  BY <1>13 DEF DispatchEnds, Goto
<1>14. CASE GatesRaise
  BY <1>14 DEF GatesRaise, Finish
<1>15. CASE Rollback
  BY <1>15 DEF Rollback, Finish
<1>16. CASE UpdateReport
  BY <1>16 DEF UpdateReport, Finish
<1>17. CASE Kill
  BY <1>17 DEF Kill, Finish
<1>18. CASE \E f \in Fixes, failed \in BOOLEAN : Remember(f, failed)
  <2> PICK g \in Fixes, failed \in BOOLEAN : Remember(g, failed)
    BY <1>18
  <2> SUFFICES ASSUME ~careless PROVE LoopInv'
    BY DEF Remember
  <2>1. /\ pc = "idle" /\ pc' = "idle" /\ owed' = owed \ {g}
        /\ memory' = [memory EXCEPT ![g] = [attempts |-> @.attempts + 1, failed |-> failed]]
        /\ fails' = IF failed THEN fails ELSE [fails EXCEPT ![g] = 0]
    BY DEF Remember
  <2>2. ASSUME NEW f \in Fixes PROVE Tried(f)'
    <3>1. fails[f] \in Nat /\ memory[f].attempts \in Nat /\ memory[f].failed \in BOOLEAN /\ Tried(f)
      OBVIOUS
    <3>2. CASE f = g
      <4>1. /\ memory'[f].attempts = memory[f].attempts + 1 /\ memory'[f].failed = failed
            /\ f \notin owed' /\ fails'[f] = IF failed THEN fails[f] ELSE 0
        BY <2>1, <3>2
      <4> QED
        BY <3>1, <4>1
    <3>3. CASE f # g
      <4>1. memory'[f] = memory[f] /\ (f \in owed' <=> f \in owed) /\ fails'[f] = fails[f]
        BY <2>1, <3>3
      <4> QED
        BY <3>1, <4>1
    <3> QED
      BY <3>2, <3>3
  <2> QED
    BY <2>1, <2>2
<1>19. CASE UNCHANGED vars
  BY <1>19 DEF vars, run
<1> QED
  BY <1>1, <1>2, <1>3, <1>4, <1>5, <1>6, <1>7, <1>8, <1>9, <1>10, <1>11, <1>12, <1>13,
     <1>14, <1>15, <1>16, <1>17, <1>18, <1>19 DEF Next

-----------------------------------------------------------------------------
(* PatcherInv holds of every reachable state.                              *)
LEMMA PatcherInvariant == Spec => []PatcherInv
<1>1. Init => PatcherInv
  <2> SUFFICES ASSUME Init PROVE PatcherInv
    OBVIOUS
  <2>1. ASSUME file = NoFile PROVE file \in Files
    BY <2>1, Nones
  <2>2. ASSUME NEW h \in [Methods -> {0, 1}], file = [exists |-> TRUE, has |-> h, fixes |-> 0]
        PROVE  file \in Files
    <3>1. h \in [Methods -> Nat]
      OBVIOUS
    <3> QED
      BY <2>2, <3>1 DEF Files
  <2>3. file \in Files
    BY <2>1, <2>2, Nones DEF Init
  <2>4. TypeOK
    BY <2>3, Nones DEF Init, TypeOK
  <2>5. LoopInv
    BY PatcherAssumption DEF Init, LoopInv, Tried, Owing
  <2> QED
    BY <2>4, <2>5 DEF Init, PatcherInv, PriorInv, WrittenInv, ReportInv, Unwritten, Written
<1>2. PatcherInv /\ [Next]_vars => PatcherInv'
  BY TypeStep, PriorStep, WrittenStep, ReportStep, LoopStep DEF PatcherInv
<1> QED
  BY <1>1, <1>2, PTL DEF Spec

(* No method that was in the test file is changed or lost, at any moment   *)
(* of any patch, whichever way it ends (test_patch_applier.py:830-880).    *)
THEOREM MethodsSurvive == Spec => []OldMethodsSurvive
<1>1. PatcherInv => OldMethodsSurvive
  BY DEF PatcherInv, PriorInv, WrittenInv, TypeOK, OldMethodsSurvive, Unwritten, Written, NoFile
<1> QED
  BY <1>1, PatcherInvariant, PTL

(* What generated-tests.json lists is on disk (test_patch_applier.py:950). *)
THEOREM ReportBacked == Spec => []ReportIsBacked
<1>1. PatcherInv => ReportIsBacked
  BY DEF PatcherInv, PriorInv, WrittenInv, ReportInv, TypeOK, ReportIsBacked, Unwritten, Written
<1> QED
  BY <1>1, PatcherInvariant, PTL

(* The anti-loop over any number of patches, kills and rollbacks, for any  *)
(* limits: as long as the attempts are recorded, no fix that keeps failing *)
(* is put on disk more than MaxFailed times (gate_runner.py:394-417).      *)
THEOREM FixesBounded == Spec => []FixesAreBounded
<1>1. PatcherInv => FixesAreBounded
  BY DEF PatcherInv, LoopInv, Tried, FixesAreBounded
<1> QED
  BY <1>1, PatcherInvariant, PTL

(* A refusal leaves no trace in the test file, however late it comes       *)
(* (test_patch_applier.py:1285-1330).                                      *)
THEOREM RefusalLeavesFile == Spec => RefusedLeavesFile
<1>1. PatcherInv /\ [Next]_vars => [Ends({"2", "3"}) /\ ~mishap' => file' = before]_vars
  <2> SUFFICES ASSUME PatcherInv, Next, Ends({"2", "3"}), ~mishap' PROVE file' = before
    OBVIOUS
  <2> USE DEF PatcherInv, PriorInv, Unwritten, Written, Ends
  <2>1. CASE PerimeterRefuses \/ BudgetRefuses \/ GatesRefuse \/ WriteRefused
    BY <2>1 DEF PerimeterRefuses, BudgetRefuses, GatesRefuse, WriteRefused
  <2>2. CASE Rollback
    BY <2>2 DEF Rollback
  <2>3. CASE GatesRaise \/ UpdateReport \/ Kill
    BY <2>3 DEF GatesRaise, UpdateReport, Kill, Finish
  <2>4. CASE PerimeterPasses \/ BudgetPasses \/ GatesPass \/ ReadPrior \/ Write
             \/ Lint \/ Repair \/ DispatchEnds
    BY <2>4 DEF PerimeterPasses, BudgetPasses, GatesPass, ReadPrior, Write, Lint, Repair,
       DispatchEnds, Goto
  <2>5. CASE (\E p \in Patches : Start(p)) \/ (\E f \in Fixes, failed \in BOOLEAN : Remember(f, failed))
    BY <2>5 DEF Start, Remember
  <2> QED
    BY <2>1, <2>2, <2>3, <2>4, <2>5 DEF Next
<1> QED
  BY <1>1, PatcherInvariant, PTL DEF Spec, RefusedLeavesFile

(* What is accepted is what the linter passed, automatic repair included   *)
(* (test_patch_applier.py:1296-1345).                                      *)
THEOREM AcceptedIsLinted == Spec => KeptIsLinted
<1>1. PatcherInv /\ [Next]_vars => [Ends({"0"}) => file' = linted]_vars
  <2> SUFFICES ASSUME PatcherInv, Next, Ends({"0"}) PROVE file' = linted
    OBVIOUS
  <2> USE DEF PatcherInv, WrittenInv, Ends
  <2>1. CASE UpdateReport
    BY <2>1 DEF UpdateReport
  <2>2. CASE PerimeterRefuses \/ BudgetRefuses \/ WriteRefused \/ GatesRaise \/ Rollback \/ Kill
    BY <2>2 DEF PerimeterRefuses, BudgetRefuses, WriteRefused, GatesRaise, Rollback, Kill, Finish
  <2>3. CASE GatesRefuse
    BY <2>3 DEF GatesRefuse, Finish
  <2>4. CASE PerimeterPasses \/ BudgetPasses \/ GatesPass \/ ReadPrior \/ Write
             \/ Lint \/ Repair \/ DispatchEnds
    BY <2>4 DEF PerimeterPasses, BudgetPasses, GatesPass, ReadPrior, Write, Lint, Repair,
       DispatchEnds, Goto
  <2>5. CASE (\E p \in Patches : Start(p)) \/ (\E f \in Fixes, failed \in BOOLEAN : Remember(f, failed))
    BY <2>5 DEF Start, Remember
  <2> QED
    BY <2>1, <2>2, <2>3, <2>4, <2>5 DEF Next
<1> QED
  BY <1>1, PatcherInvariant, PTL DEF Spec, KeptIsLinted
=============================================================================
