-------------------------- MODULE BatchRun_proofs --------------------------
(***************************************************************************)
(* What holds of a batch run for every plan, batch size, number of repair  *)
(* rounds and number of runs.                                              *)
(***************************************************************************)
EXTENDS BatchProperties, FiniteSetTheorems, WellFoundedInduction, TLAPS

-----------------------------------------------------------------------------
(* The operators of BatchProtocol.                                         *)

(* The signature of a failed item has its type.                            *)
LEMMA SignatureType ==
  ASSUME TypeOK, NEW t \in Target
  PROVE  failure_signature(Item(t)) \in Signatures
<1> DEFINE item == Item(t)
<1>1. /\ item.failureKind \in {"COMPILATION_ERROR", "PATCH_REJECTED", "TEST_FAILURE"}
      /\ item.compilerError \in CompileErrors \cup {None}
      /\ item.patcherError \in Rejections \cup {None}
      /\ item.note \in Notes
  BY PlanAssumption DEF TypeOK, Item, FailedItem, FailureKind
<1>2. BlockedLine(item) \in Blocked \cup {None}
  BY DEF BlockedLine
<1>3. SummaryNote(item) \in Notes
  BY <1>1 DEF SummaryNote, Notes
<1> HIDE DEF item
<1> QED
  BY <1>1, <1>2, <1>3 DEF failure_signature, Signatures, item

(* A batch holds targets of the plan, none of them processed.              *)
LEMMA BatchIsPending ==
  /\ NextBatch \subseteq Target
  /\ NextBatch \cap seen = {}
BY PlanAssumption DEF NextBatch, select_batch, Listed

(* A batch without targets means that the plan is exhausted: the pending   *)
(* target that comes first in the plan would be in it.                     *)
LEMMA EmptyBatch ==
  ASSUME NextBatch = {}
  PROVE  Listed(Plan) \subseteq seen
<1> DEFINE pending == Listed(Plan) \ seen
           at == {i \in DOMAIN Plan : Plan[i] \in pending}
<1> SUFFICES ASSUME pending # {} PROVE FALSE
  OBVIOUS
<1>1. at # {} /\ at \subseteq Nat
  BY PlanAssumption DEF Listed
<1>2. PICK i \in at : \A j \in at : ~(<<j, i>> \in OpToRel(<, Nat))
  <2> HIDE DEF at
  <2> QED
    BY <1>1, NatLessThanWellFounded, WFMin
<1>3. \A j \in at : ~(j < i)
  BY <1>1, <1>2 DEF OpToRel
<1>4. {u \in pending : Before(Plan, u, Plan[i])} = {}
  BY <1>3, PlanAssumption DEF Before
<1>5. Cardinality({u \in pending : Before(Plan, u, Plan[i])}) < BatchSize
  BY <1>4, FS_EmptySet, BoundsAssumption
<1> QED
  BY <1>5 DEF NextBatch, select_batch

(* A verdict is one of three states.                                       *)
LEMMA VerdictType ==
  ASSUME NEW t, NEW green, NEW rep
  PROVE  Classify(t, green, rep) \in {"PASSED", "TEST_FAILED", "COMPILE_FAILED"}
BY DEF Classify

(* _classify_batch leaves a state and a note in every record.              *)
LEMMA ClassifyType ==
  ASSUME TypeOK, NEW A, NEW green, NEW rep, ClassifyAll(A, green, rep)
  PROVE  st' \in [Target -> Status] /\ note' \in [Target -> Notes]
<1>1. st' \in [Target -> Status]
  <2>1. \A t \in Target : Classify(t, green, rep) \in Status
    BY VerdictType DEF Status, TERMINAL_STATES, REPAIRABLE_STATES
  <2>2. \A t \in Target : st[t] \in Status
    BY DEF TypeOK
  <2> QED
    BY <2>1, <2>2 DEF ClassifyAll
<1>2. note' \in [Target -> Notes]
  BY DEF TypeOK, ClassifyAll, Notes
<1> QED
  BY <1>1, <1>2

(* It requests nothing and fails no patch: a target keeps its state or     *)
(* gets a verdict.                                                         *)
LEMMA ClassifiedStatus ==
  ASSUME NEW t \in Target, NEW A, NEW green, NEW rep, ClassifyAll(A, green, rep),
         st'[t] # st[t]
  PROVE  t \in A /\ st'[t] \in {"PASSED", "TEST_FAILED", "COMPILE_FAILED"}
<1>1. st'[t] = IF t \in A THEN Classify(t, green, rep) ELSE st[t]
  BY DEF ClassifyAll
<1> QED
  BY <1>1, VerdictType

(* What Maven and the patcher leave behind has its type.                   *)
LEMMA MavenType ==
  ASSUME TypeOK, NEW C, Maven(C)
  PROVE  /\ report' \in [Class -> {"none", "passed", "failed"}]
         /\ compErr' \in [Class -> CompileErrors \cup {None}]
         /\ buildLog' \in BOOLEAN
<1>1. report' \in [Class -> {"none", "passed", "failed"}]
  BY DEF TypeOK, Maven
<1>2. compErr' \in [Class -> CompileErrors \cup {None}]
  BY DEF TypeOK, Maven
<1>3. buildLog' \in BOOLEAN
  BY DEF Maven
<1> QED
  BY <1>1, <1>2, <1>3

(* An applied patch leaves every class a set of methods.                   *)
LEMMA InjectType ==
  ASSUME TypeOK, NEW c \in Class, Inject(c)
  PROVE  tests' \in [Class -> SUBSET Quality]
<1>1. CASE UNCHANGED tests
  BY <1>1 DEF TypeOK
<1>2. ASSUME NEW q \in Quality, tests' = [tests EXCEPT ![c] = @ \cup {q}]
      PROVE  tests' \in [Class -> SUBSET Quality]
  BY <1>2 DEF TypeOK
<1> QED
  BY <1>1, <1>2 DEF Inject

(* A rejected patch leaves every class at most one recorded output.        *)
LEMMA RejectionType ==
  ASSUME TypeOK, NEW c \in Class, RecordRejection(c)
  PROVE  rejection' \in [Class -> Rejections \cup {None}]
BY DEF TypeOK, RecordRejection

-----------------------------------------------------------------------------
(* Every step keeps the types.                                             *)
LEMMA TypeStep == TypeOK /\ [Next]_vars => TypeOK'
<1> SUFFICES ASSUME TypeOK, [Next]_vars PROVE TypeOK'
  OBVIOUS
<1> USE PlanAssumption, BoundsAssumption
    DEF vars, processVars, batchVars, repairVars, manifestVars, persistVars,
        repoVars, mavenVars
<1>1. CASE Start
  <2>1. runs' \in 0 .. MaxRuns
    BY <1>1 DEF Start, TypeOK
  <2>2. /\ st' \in [Target -> Status] /\ rounds' \in [Target -> Nat]
        /\ lastSig' \in [Target -> Signatures \cup {None}] /\ note' \in [Target -> Notes]
    BY <1>1 DEF Start, ForAll, Status, Notes
  <2>3. saved' \in [status : {"RUNNING", "STOPPED", "DONE"}, targets : [Target -> Status]]
    BY <1>1, <2>2 DEF Start, Save
  <2>4. batchNo' \in 0 .. MaxBatches /\ left' \in 0 .. MaxRepairItems
    BY <1>1 DEF Start
  <2> QED
    BY <1>1, <2>1, <2>2, <2>3, <2>4 DEF Start, TypeOK, Phase, ReadProcessed
<1>2. CASE FinishRun
  BY <1>2 DEF FinishRun, Leave, Save, TypeOK, Phase
<1>3. CASE OpenBatch
  <2>1. st' \in [Target -> Status]
    BY <1>3 DEF OpenBatch, TypeOK, Status
  <2>2. batchNo' \in 0 .. MaxBatches /\ cycle' \in Nat
    BY <1>3 DEF OpenBatch, TypeOK
  <2>3. batch' \subseteq Target /\ todo' \subseteq Target
    BY <1>3, BatchIsPending DEF OpenBatch, TypeOK
  <2>4. ASSUME Leave("budget", "STOPPED") PROVE TypeOK'
    <3>1. saved' \in [status : {"RUNNING", "STOPPED", "DONE"}, targets : [Target -> Status]]
      BY <2>1, <2>4 DEF Leave, Save
    <3>2. /\ exit' \in {"none", "done", "budget", "stopped", "crash"} /\ pc' \in Phase
          /\ runStatus' \in {"RUNNING", "STOPPED", "DONE"}
      BY <2>4 DEF Leave, Phase
    <3> QED
      BY <1>3, <2>1, <2>2, <2>3, <3>1, <3>2 DEF OpenBatch, TypeOK
  <2>5. ASSUME pc' = "preflight", UNCHANGED <<exit, runStatus, saved>> PROVE TypeOK'
    BY <1>3, <2>1, <2>2, <2>3, <2>5 DEF OpenBatch, TypeOK, Phase
  <2> QED
    BY <1>3, <2>4, <2>5 DEF OpenBatch
<1>4. ASSUME NEW t \in Target, PreflightSkip(t) PROVE TypeOK'
  BY <1>4 DEF PreflightSkip, Record, TypeOK, Status, TERMINAL_STATES
<1>5. ASSUME NEW t \in Target, PreflightPass(t) PROVE TypeOK'
  BY <1>5 DEF PreflightPass, TypeOK
<1>6. CASE PreflightEnd
  BY <1>6 DEF PreflightEnd, Save, TypeOK, Phase
<1>7. CASE GenerationAnswer
  BY <1>7 DEF GenerationAnswer, TypeOK, Phase
<1>8. ASSUME NEW t \in Target, SkipTarget(t) PROVE TypeOK'
  BY <1>8 DEF SkipTarget, DropTarget, Record, TypeOK, Status, TERMINAL_STATES
<1>9. ASSUME NEW t \in Target, RejectTarget(t) PROVE TypeOK'
  BY <1>9 DEF RejectTarget, DropTarget, Record, TypeOK, Status
<1>10. ASSUME NEW t \in Target, HydrateItem(t) PROVE TypeOK'
  <2>1. st' \in [Target -> Status]
    BY <1>10 DEF HydrateItem, TypeOK, Status, TERMINAL_STATES
  <2>2. pc' \in Phase /\ todo' \subseteq Target /\ needContext' \subseteq Target
    BY <1>10 DEF HydrateItem, TypeOK, Phase
  <2> QED
    BY <1>10, <2>1, <2>2 DEF HydrateItem, TypeOK
<1>11. ASSUME NEW t \in Target, PatchApplied(t) PROVE TypeOK'
  <2>1. tests' \in [Class -> SUBSET Quality]
    BY <1>11, InjectType DEF PatchApplied
  <2>2. st' \in [Target -> Status] /\ pc' \in Phase
    BY <1>11 DEF PatchApplied, ItemDone, TypeOK, Status, Phase
  <2> QED
    BY <1>11, <2>1, <2>2 DEF PatchApplied, ItemDone, TypeOK
<1>12. ASSUME NEW t \in Target, PatchRejected(t) PROVE TypeOK'
  BY <1>12 DEF PatchRejected, RecordRejection, ItemDone, TypeOK, Phase, Status,
               REPAIRABLE_STATES, Notes
<1>13. CASE DropEnd
  BY <1>13 DEF DropEnd, Save, TypeOK, Phase
<1>14. CASE HydrateEnd
  BY <1>14 DEF HydrateEnd, Save, TypeOK, Phase
<1>15. CASE Quit
  BY <1>15 DEF Quit, Leave, Save, TypeOK, Phase
<1>16. CASE TestsNotRun
  BY <1>16 DEF TestsNotRun, Leave, Save, TypeOK, Phase
<1>17. CASE RunTests
  <2>1. st' \in [Target -> Status] /\ note' \in [Target -> Notes]
    BY <1>17, ClassifyType DEF RunTests, TypeOK
  <2>2. /\ report' \in [Class -> {"none", "passed", "failed"}]
        /\ compErr' \in [Class -> CompileErrors \cup {None}]
        /\ buildLog' \in BOOLEAN
    BY <1>17, MavenType DEF RunTests, TypeOK
  <2>3. saved' \in [status : {"RUNNING", "STOPPED", "DONE"}, targets : [Target -> Status]]
    BY <1>17, <2>1 DEF RunTests, Save, TypeOK
  <2> QED
    BY <1>17, <2>1, <2>2, <2>3 DEF RunTests, TypeOK, Phase
<1>18. CASE RequestRepair
  <2>1. lastSig' \in [Target -> Signatures \cup {None}]
    BY <1>18, SignatureType DEF RequestRepair, TypeOK
  <2>2. st' \in [Target -> Status]
    BY <1>18 DEF RequestRepair, TypeOK, Status, TERMINAL_STATES
  <2>3. rounds' \in [Target -> Nat]
    <3>1. \A t \in Target : rounds[t] \in Nat /\ rounds[t] + 1 \in Nat
      BY DEF TypeOK
    <3>2. PICK ask : Bump(ask)
      BY <1>18 DEF RequestRepair
    <3> QED
      BY <3>1, <3>2 DEF Bump
  <2>4. requested' \subseteq Target /\ pc' \in Phase
    BY <1>18 DEF RequestRepair, failing_target_ids, TypeOK, Phase
  <2>5. saved' \in [status : {"RUNNING", "STOPPED", "DONE"}, targets : [Target -> Status]]
    BY <1>18, <2>2 DEF RequestRepair, Save, TypeOK
  <2> QED
    BY <1>18, <2>1, <2>2, <2>3, <2>4, <2>5 DEF RequestRepair, TypeOK
<1>19. CASE EndRepair
  BY <1>19 DEF EndRepair, TypeOK, Phase
<1>20. CASE RepairDropped
  BY <1>20 DEF RepairDropped, TypeOK, Phase
<1>21. CASE RepairAnswer
  BY <1>21 DEF RepairAnswer, TypeOK, Phase
<1>22. ASSUME NEW t \in Target, RepairAbandons(t) PROVE TypeOK'
  BY <1>22 DEF RepairAbandons, NextItem, TypeOK, Status, TERMINAL_STATES
<1>23. ASSUME NEW t \in Target, RepairDeclined(t) PROVE TypeOK'
  BY <1>23 DEF RepairDeclined, NextItem, TypeOK
<1>24. ASSUME NEW t \in Target, RepairApplied(t) PROVE TypeOK'
  <2>1. tests' \in [Class -> SUBSET Quality]
    BY <1>24, InjectType DEF RepairApplied
  <2>2. st' \in [Target -> Status] /\ left' \in 0 .. MaxRepairItems
    BY <1>24 DEF RepairApplied, NextItem, TypeOK, Status
  <2> QED
    BY <1>24, <2>1, <2>2 DEF RepairApplied, NextItem, TypeOK
<1>25. ASSUME NEW t \in Target, RepairRejected(t) PROVE TypeOK'
  <2>1. rejection' \in [Class -> Rejections \cup {None}]
    BY <1>25, RejectionType DEF RepairRejected
  <2>2. /\ st' \in [Target -> Status] /\ note' \in [Target -> Notes]
    BY <1>25 DEF RepairRejected, TypeOK, Status, REPAIRABLE_STATES, Notes
  <2>3. left' \in 0 .. MaxRepairItems
    <3>1. left \in 0 .. MaxRepairItems
      BY DEF TypeOK
    <3>2. left > 0 /\ left' = left - 1
      BY <1>25 DEF RepairRejected, NextItem
    <3> QED
      BY <3>1, <3>2
  <2> QED
    BY <1>25, <2>1, <2>2, <2>3 DEF RepairRejected, NextItem, TypeOK
<1>26. CASE Retest
  <2>1. st' \in [Target -> Status] /\ note' \in [Target -> Notes]
    BY <1>26, ClassifyType DEF Retest, TypeOK
  <2>2. /\ report' \in [Class -> {"none", "passed", "failed"}]
        /\ compErr' \in [Class -> CompileErrors \cup {None}]
        /\ buildLog' \in BOOLEAN
    BY <1>26, MavenType DEF Retest, TypeOK
  <2> QED
    BY <1>26, <2>1, <2>2 DEF Retest, TypeOK, Phase
<1>27. CASE RoundEnd
  <2>1. st' \in [Target -> Status]
    BY <1>27 DEF RoundEnd, TypeOK, Status, TERMINAL_STATES
  <2>2. rnd' \in Nat
    <3>1. rnd \in Nat
      BY DEF TypeOK
    <3>2. rnd' = rnd \/ rnd' = rnd + 1
      BY <1>27 DEF RoundEnd
    <3> QED
      BY <3>1, <3>2
  <2>4. pc' \in Phase
    BY <1>27 DEF RoundEnd, Phase
  <2>3. saved' \in [status : {"RUNNING", "STOPPED", "DONE"}, targets : [Target -> Status]]
    BY <1>27, <2>1 DEF RoundEnd, Save, TypeOK
  <2> QED
    BY <1>27, <2>1, <2>2, <2>3, <2>4 DEF RoundEnd, TypeOK
<1>28. CASE CloseBatch
  BY <1>28 DEF CloseBatch, TypeOK, Phase, Status, TERMINAL_STATES
<1>29. ASSUME NEW t \in Target, MarkProcessed(t) PROVE TypeOK'
  BY <1>29 DEF MarkProcessed, Record, TypeOK
<1>30. CASE Advance
  <2>1. st' \in [Target -> Status]
    BY <1>30 DEF Advance, TypeOK
  <2>2. ASSUME Leave("stopped", "STOPPED") PROVE TypeOK'
    BY <1>30, <2>1, <2>2 DEF Advance, Leave, Save, TypeOK, Phase
  <2>3. ASSUME pc' = "select", Save(runStatus, st), UNCHANGED <<exit, runStatus>>
        PROVE  TypeOK'
    BY <1>30, <2>1, <2>3 DEF Advance, Save, TypeOK, Phase
  <2> QED
    BY <1>30, <2>2, <2>3 DEF Advance
<1>31. CASE Crash \/ TornWrite
  BY <1>31 DEF Crash, TornWrite, Die, TypeOK, Phase
<1>32. CASE Idle \/ UNCHANGED vars
  BY <1>32 DEF Idle, TypeOK
<1> QED
  BY <1>1, <1>2, <1>3, <1>4, <1>5, <1>6, <1>7, <1>8, <1>9, <1>10, <1>11, <1>12, <1>13,
     <1>14, <1>15, <1>16, <1>17, <1>18, <1>19, <1>20, <1>21, <1>22, <1>23, <1>24, <1>25,
     <1>26, <1>27, <1>28, <1>29, <1>30, <1>31, <1>32
  DEF Next, Driver, Preflight, Generation, Repair, RepairItem, Closing

(* Type correctness, for every plan and every bound.                       *)
THEOREM TypeCorrect == Spec => []TypeOK
<1>1. Init => TypeOK
  <2> SUFFICES ASSUME Init PROVE TypeOK
    OBVIOUS
  <2> USE PlanAssumption, BoundsAssumption
  <2>1. /\ st \in [Target -> Status] /\ rounds \in [Target -> Nat]
        /\ lastSig \in [Target -> Signatures \cup {None}] /\ note \in [Target -> Notes]
    BY DEF Init, ForAll, Status, Notes
  <2>2. saved \in [status : {"RUNNING", "STOPPED", "DONE"}, targets : [Target -> Status]]
    BY <2>1 DEF Init
  <2>3. tests \in [Class -> SUBSET Quality]
    BY DEF Init, Quality
  <2>4. /\ report \in [Class -> {"none", "passed", "failed"}]
        /\ compErr \in [Class -> CompileErrors \cup {None}]
        /\ rejection \in [Class -> Rejections \cup {None}]
    BY DEF Init
  <2>5. runs \in 0 .. MaxRuns /\ batchNo \in 0 .. MaxBatches /\ left \in 0 .. MaxRepairItems
    BY DEF Init
  <2> QED
    BY <2>1, <2>2, <2>3, <2>4, <2>5 DEF Init, TypeOK, Phase
<1> QED
  BY <1>1, TypeStep, PTL DEF Spec

-----------------------------------------------------------------------------
(* Crash recovery: what a process remembers is what the next one reads.    *)

(* The actions that neither start a process nor touch the processed ids.   *)
LEMMA ProcessedUntouched ==
  ASSUME [Next]_vars,
         ~Start, ~TestsNotRun, ~Crash, ~TornWrite,
         \A t \in Target : /\ ~PreflightSkip(t) /\ ~SkipTarget(t)
                           /\ ~RejectTarget(t) /\ ~MarkProcessed(t)
  PROVE  UNCHANGED <<seen, done>> /\ (pc' # "off" => pc # "off")
<1> USE DEF vars, batchVars, persistVars
<1>1. CASE FinishRun \/ OpenBatch \/ Quit \/ RunTests \/ CloseBatch \/ Advance
  BY <1>1 DEF FinishRun, OpenBatch, Quit, RunTests, CloseBatch, Advance
<1>2. CASE PreflightEnd \/ \E t \in Target : PreflightPass(t)
  BY <1>2 DEF PreflightEnd, PreflightPass
<1>3. CASE GenerationAnswer \/ DropEnd \/ HydrateEnd
  BY <1>3 DEF GenerationAnswer, DropEnd, HydrateEnd
<1>4. CASE \E t \in Target : HydrateItem(t) \/ PatchApplied(t) \/ PatchRejected(t)
  BY <1>4 DEF HydrateItem, PatchApplied, PatchRejected
<1>5. CASE RequestRepair \/ EndRepair \/ RepairDropped \/ RepairAnswer \/ Retest \/ RoundEnd
  BY <1>5 DEF RequestRepair, EndRepair, RepairDropped, RepairAnswer, Retest, RoundEnd
<1>6. CASE \E t \in Target : RepairItem(t)
  BY <1>6 DEF RepairItem, RepairAbandons, RepairDeclined, RepairApplied, RepairRejected,
              NextItem
<1>7. CASE Idle \/ UNCHANGED vars
  BY <1>7 DEF Idle
<1> QED
  BY <1>1, <1>2, <1>3, <1>4, <1>5, <1>6, <1>7
  DEF Next, Driver, Preflight, Generation, Repair, Closing

(* Every step that adds an id to processed adds it to the file as well, or *)
(* ends the process.                                                       *)
LEMMA MemoryStep == MemoryMatchesDisk /\ [Next]_vars => MemoryMatchesDisk'
<1> SUFFICES ASSUME MemoryMatchesDisk, [Next]_vars PROVE MemoryMatchesDisk'
  OBVIOUS
<1> USE DEF MemoryMatchesDisk, Running
<1>1. CASE Start
  BY <1>1 DEF Start, ReadProcessed, persistVars
<1>2. CASE TestsNotRun \/ Crash \/ TornWrite
  BY <1>2 DEF TestsNotRun, Leave, Crash, TornWrite, Die
<1>3. ASSUME NEW t \in Target,
             PreflightSkip(t) \/ SkipTarget(t) \/ RejectTarget(t) \/ MarkProcessed(t)
      PROVE  MemoryMatchesDisk'
  BY <1>3 DEF PreflightSkip, SkipTarget, RejectTarget, DropTarget, MarkProcessed, Record
<1>4. CASE UNCHANGED <<seen, done>> /\ (pc' # "off" => pc # "off")
  BY <1>4
<1> QED
  BY <1>1, <1>2, <1>3, <1>4, ProcessedUntouched

(* A process never remembers more than it recorded: whenever it dies, the  *)
(* next one starts from the ids the dead one would have skipped.           *)
THEOREM MemoryIsOnDisk == Spec => []MemoryMatchesDisk
<1>1. Init => MemoryMatchesDisk
  BY DEF Init, MemoryMatchesDisk, Running
<1> QED
  BY <1>1, MemoryStep, PTL DEF Spec

-----------------------------------------------------------------------------
(* How a step may change the states of the targets.                        *)

(* Only an opened batch requests targets, and only a rejecting patcher     *)
(* fails a patch.                                                          *)
LEMMA StatusChanges ==
  ASSUME TypeOK, [Next]_vars, ~OpenBatch, NEW t \in Target, st'[t] # st[t],
         ~PatchRejected(t), ~RepairRejected(t)
  PROVE  st'[t] \notin {"GENERATION_REQUESTED", "PATCH_FAILED"}
<1> USE DEF TypeOK, vars, manifestVars
<1>1. CASE Start
  BY <1>1 DEF Start, ForAll
<1>2. CASE FinishRun \/ Quit \/ TestsNotRun \/ Advance
  BY <1>2 DEF FinishRun, Quit, TestsNotRun, Advance
<1>3. CASE PreflightEnd \/ \E u \in Target : PreflightPass(u)
  BY <1>3 DEF PreflightEnd, PreflightPass
<1>4. ASSUME NEW u \in Target, PreflightSkip(u) \/ SkipTarget(u) \/ RejectTarget(u)
      PROVE  st'[t] \notin {"GENERATION_REQUESTED", "PATCH_FAILED"}
  BY <1>4 DEF PreflightSkip, SkipTarget, RejectTarget, DropTarget
<1>5. CASE GenerationAnswer \/ DropEnd \/ HydrateEnd \/ EndRepair \/ RepairDropped \/ RepairAnswer
  BY <1>5 DEF GenerationAnswer, DropEnd, HydrateEnd, EndRepair, RepairDropped, RepairAnswer
<1>6. ASSUME NEW u \in Target, HydrateItem(u) \/ PatchApplied(u)
      PROVE  st'[t] \notin {"GENERATION_REQUESTED", "PATCH_FAILED"}
  BY <1>6 DEF HydrateItem, PatchApplied
<1>7. ASSUME NEW u \in Target, PatchRejected(u) \/ RepairRejected(u)
      PROVE  FALSE
  BY <1>7 DEF PatchRejected, RepairRejected
<1>8. ASSUME NEW u \in Target, RepairAbandons(u) \/ RepairDeclined(u) \/ RepairApplied(u)
      PROVE  st'[t] \notin {"GENERATION_REQUESTED", "PATCH_FAILED"}
  BY <1>8 DEF RepairAbandons, RepairDeclined, RepairApplied
<1>9. CASE RunTests
  BY <1>9, ClassifiedStatus DEF RunTests
<1>10. CASE Retest
  BY <1>10, ClassifiedStatus DEF Retest
<1>11. CASE RequestRepair
  BY <1>11 DEF RequestRepair
<1>12. CASE RoundEnd \/ CloseBatch
  BY <1>12 DEF RoundEnd, CloseBatch
<1>13. CASE \E u \in Target : MarkProcessed(u)
  BY <1>13 DEF MarkProcessed
<1>14. CASE Crash \/ TornWrite \/ Idle \/ UNCHANGED vars
  BY <1>14 DEF Crash, TornWrite, Die, Idle
<1> QED
  BY <1>1, <1>2, <1>3, <1>4, <1>5, <1>6, <1>7, <1>8, <1>9, <1>10, <1>11, <1>12, <1>13, <1>14
  DEF Next, Driver, Preflight, Generation, Repair, RepairItem, Closing

(* A recorded target is never requested again, by this process or by a     *)
(* later one: select_batch filters by what is on disk.                     *)
THEOREM RecordedIsNotRequested == Spec => NeverRequestedAgain
<1>1. ASSUME TypeOK, MemoryMatchesDisk, [Next]_vars, NEW t \in done,
             st'[t] = "GENERATION_REQUESTED"
      PROVE  st[t] = "GENERATION_REQUESTED"
  <2>1. t \in Target
    BY <1>1 DEF TypeOK
  <2>2. CASE OpenBatch
    <3>1. t \notin NextBatch
      BY <1>1, <2>2, BatchIsPending DEF OpenBatch, MemoryMatchesDisk, Running
    <3> QED
      BY <1>1, <2>1, <2>2, <3>1 DEF OpenBatch
  <2>3. CASE PatchRejected(t) \/ RepairRejected(t)
    BY <1>1, <2>1, <2>3 DEF PatchRejected, RepairRejected, TypeOK
  <2> QED
    BY <1>1, <2>1, <2>2, <2>3, StatusChanges
<1>2. TypeOK /\ MemoryMatchesDisk /\ [Next]_vars =>
        [\A t \in done : st'[t] = "GENERATION_REQUESTED" => st[t] = "GENERATION_REQUESTED"]_vars
  BY <1>1
<1> QED
  BY <1>2, TypeCorrect, MemoryIsOnDisk, PTL DEF Spec, NeverRequestedAgain

-----------------------------------------------------------------------------
(* Rejections are kept: a patch fails only when the patcher rejects it,    *)
(* and the output of a rejection is replaced by that of another one only.  *)
LEMMA RejectionKept ==
  ASSUME TypeOK, [Next]_vars, NEW c \in Class, rejection[c] # None
  PROVE  rejection'[c] # None
<1> USE NoneAssumption, PlanAssumption
    DEF TypeOK, vars, repoVars, RecordRejection
<1>1. ASSUME NEW t \in Target, PatchRejected(t) \/ RepairRejected(t)
      PROVE  rejection'[c] # None
  <2>1. PICK r \in Rejections : rejection' = [rejection EXCEPT ![ClassOf[t]] = r]
    BY <1>1 DEF PatchRejected, RepairRejected
  <2> QED
    BY <2>1
<1>2. CASE UNCHANGED rejection
  BY <1>2
<1>3. ASSUME NEW t \in Target, RepairAbandons(t) \/ RepairDeclined(t) \/ RepairApplied(t)
      PROVE  UNCHANGED rejection
  BY <1>3 DEF RepairAbandons, RepairDeclined, RepairApplied
<1>4. ASSUME NEW t \in Target,
             PreflightSkip(t) \/ PreflightPass(t) \/ SkipTarget(t) \/ RejectTarget(t)
               \/ HydrateItem(t) \/ PatchApplied(t) \/ MarkProcessed(t)
      PROVE  UNCHANGED rejection
  BY <1>4 DEF PreflightSkip, PreflightPass, SkipTarget, RejectTarget, DropTarget,
              HydrateItem, PatchApplied, MarkProcessed
<1>5. CASE Start \/ FinishRun \/ OpenBatch \/ PreflightEnd \/ GenerationAnswer \/ DropEnd
             \/ HydrateEnd \/ Quit \/ TestsNotRun \/ RunTests
  BY <1>5 DEF Start, FinishRun, OpenBatch, PreflightEnd, GenerationAnswer, DropEnd,
              HydrateEnd, Quit, TestsNotRun, RunTests
<1>6. CASE RequestRepair \/ EndRepair \/ RepairDropped \/ RepairAnswer \/ Retest \/ RoundEnd
             \/ CloseBatch \/ Advance \/ Crash \/ TornWrite \/ Idle
  BY <1>6 DEF RequestRepair, EndRepair, RepairDropped, RepairAnswer, Retest, RoundEnd,
              CloseBatch, Advance, Crash, TornWrite, Die, Idle
<1> QED
  BY <1>1, <1>2, <1>3, <1>4, <1>5, <1>6
  DEF Next, Driver, Preflight, Generation, Repair, RepairItem, Closing

(* A patch that failed always has a recorded rejection of its class, in    *)
(* every round and for every number of targets that share the class.       *)
THEOREM RejectionsAreExplained == Spec => []RejectionIsExplained
<1>1. Init => RejectionIsExplained
  BY DEF Init, ForAll, RejectionIsExplained
<1>2. ASSUME TypeOK, RejectionIsExplained, [Next]_vars PROVE RejectionIsExplained'
  <2> SUFFICES ASSUME NEW t \in Target, st'[t] = "PATCH_FAILED"
               PROVE  rejection'[ClassOf[t]] # None
    BY DEF RejectionIsExplained
  <2>1. CASE st[t] = "PATCH_FAILED"
    BY <1>2, <2>1, RejectionKept, PlanAssumption DEF RejectionIsExplained
  <2>2. CASE PatchRejected(t) \/ RepairRejected(t)
    <3>1. PICK r \in Rejections : rejection' = [rejection EXCEPT ![ClassOf[t]] = r]
      BY <2>2 DEF PatchRejected, RepairRejected, RecordRejection
    <3> QED
      BY <1>2, <3>1, NoneAssumption, PlanAssumption DEF TypeOK
  <2>3. CASE OpenBatch
    BY <1>2, <2>1, <2>3 DEF OpenBatch, TypeOK
  <2> QED
    BY <1>2, <2>1, <2>2, <2>3, StatusChanges
<1>3. TypeOK /\ RejectionIsExplained /\ [Next]_vars => RejectionIsExplained'
  BY <1>2
<1> QED
  BY <1>1, <1>3, TypeCorrect, PTL DEF Spec

-----------------------------------------------------------------------------
(* Completeness of a run that ends by itself.                              *)

(* While a process runs its exit is not known; the ids on disk change in a *)
(* running process only.                                                   *)
CompleteInv ==
  /\ exit = "done" => pc = "off"
  /\ DoneRunIsComplete

(* A run ends "done" only with an empty next batch, and nothing but a      *)
(* running process loses ids.                                              *)
LEMMA CompleteStep ==
  TypeOK /\ MemoryMatchesDisk /\ CompleteInv /\ [Next]_vars => CompleteInv'
<1> SUFFICES ASSUME TypeOK, MemoryMatchesDisk, CompleteInv, [Next]_vars PROVE CompleteInv'
  OBVIOUS
<1> USE DEF CompleteInv, DoneRunIsComplete, vars, processVars, batchVars, persistVars
<1>1. CASE FinishRun
  <2>1. pc # "off" /\ done' = done /\ batchNo' = batchNo /\ exit' = "done" /\ pc' = "off"
    BY <1>1 DEF FinishRun, Leave
  <2>2. batchNo < MaxBatches => Listed(Plan) \subseteq done
    <3>1. batchNo \in Nat /\ MaxBatches \in Nat
      BY BoundsAssumption DEF TypeOK
    <3>2. seen = done
      BY <2>1 DEF MemoryMatchesDisk, Running
    <3> QED
      BY <1>1, <3>1, <3>2, EmptyBatch DEF FinishRun
  <2> QED
    BY <2>1, <2>2
<1>2. CASE Start \/ Quit \/ TestsNotRun \/ Crash \/ TornWrite
  BY <1>2 DEF Start, Quit, TestsNotRun, Leave, Crash, TornWrite, Die
<1>3. CASE OpenBatch \/ Advance
  BY <1>3 DEF OpenBatch, Advance, Leave
<1>4. CASE UNCHANGED exit /\ pc # "off"
  BY <1>4
<1>5. ASSUME NEW t \in Target,
             PreflightSkip(t) \/ PreflightPass(t) \/ SkipTarget(t) \/ RejectTarget(t)
               \/ HydrateItem(t) \/ PatchApplied(t) \/ PatchRejected(t) \/ MarkProcessed(t)
      PROVE  UNCHANGED exit /\ pc # "off"
  BY <1>5 DEF PreflightSkip, PreflightPass, SkipTarget, RejectTarget, DropTarget,
              HydrateItem, PatchApplied, PatchRejected, MarkProcessed
<1>6. ASSUME NEW t \in Target, RepairItem(t)
      PROVE  UNCHANGED exit /\ pc # "off"
  BY <1>6 DEF RepairItem, RepairAbandons, RepairDeclined, RepairApplied, RepairRejected,
              NextItem
<1>7. CASE PreflightEnd \/ GenerationAnswer \/ DropEnd \/ HydrateEnd \/ RunTests \/ CloseBatch
  BY <1>7 DEF PreflightEnd, GenerationAnswer, DropEnd, HydrateEnd, RunTests, CloseBatch
<1>8. CASE RequestRepair \/ EndRepair \/ RepairDropped \/ RepairAnswer \/ Retest \/ RoundEnd
  BY <1>8 DEF RequestRepair, EndRepair, RepairDropped, RepairAnswer, Retest, RoundEnd
<1>9. CASE Idle \/ UNCHANGED vars
  BY <1>9 DEF Idle
<1> QED
  BY <1>1, <1>2, <1>3, <1>4, <1>5, <1>6, <1>7, <1>8, <1>9
  DEF Next, Driver, Preflight, Generation, Repair, Closing

(* A run that ends "done" before --max-batches has recorded every target   *)
(* of the plan, through any number of quits, budget stops, crashes and     *)
(* torn writes of the runs before it.                                      *)
THEOREM DoneMeansComplete == Spec => []DoneRunIsComplete
<1>1. Init => CompleteInv
  BY DEF Init, CompleteInv, DoneRunIsComplete
<1>2. CompleteInv => DoneRunIsComplete
  BY DEF CompleteInv
<1> QED
  BY <1>1, <1>2, CompleteStep, TypeCorrect, MemoryIsOnDisk, PTL DEF Spec

(* Every way out of a batch records it: what is not on disk yet is still   *)
(* to be sent, to be visited, or both.                                     *)
RecordedInv ==
  /\ exit = "done" => pc = "off" /\ batch \subseteq done
  /\ pc = "preflight" => batch \subseteq seen \cup sendable \cup todo
  /\ pc = "generation wait" => batch \subseteq seen \cup sendable
  /\ pc \in {"skip", "reject", "mark"} => batch \subseteq seen \cup todo
  /\ pc = "select" => batch \subseteq seen

LEMMA RecordedStep ==
  TypeOK /\ MemoryMatchesDisk /\ RecordedInv /\ [Next]_vars => RecordedInv'
<1> SUFFICES ASSUME TypeOK, MemoryMatchesDisk, RecordedInv, [Next]_vars PROVE RecordedInv'
  OBVIOUS
<1> USE DEF RecordedInv, vars, processVars, batchVars, persistVars
<1>1. CASE FinishRun
  BY <1>1 DEF FinishRun, Leave, MemoryMatchesDisk, Running
<1>2. CASE Start \/ Quit \/ TestsNotRun \/ Crash \/ TornWrite
  BY <1>2 DEF Start, Quit, TestsNotRun, Leave, Crash, TornWrite, Die
<1>3. CASE OpenBatch \/ Advance
  BY <1>3 DEF OpenBatch, Advance, Leave
<1>4. ASSUME NEW t \in Target, PreflightSkip(t) \/ PreflightPass(t)
      PROVE  RecordedInv'
  BY <1>4 DEF PreflightSkip, PreflightPass, Record, Turn
<1>5. ASSUME NEW t \in Target, SkipTarget(t) \/ RejectTarget(t) \/ MarkProcessed(t)
      PROVE  RecordedInv'
  BY <1>5 DEF SkipTarget, RejectTarget, DropTarget, MarkProcessed, Record, Turn
<1>6. CASE PreflightEnd \/ GenerationAnswer \/ DropEnd \/ CloseBatch
  BY <1>6 DEF PreflightEnd, GenerationAnswer, DropEnd, CloseBatch
<1>7. ASSUME NEW t \in Target,
             HydrateItem(t) \/ PatchApplied(t) \/ PatchRejected(t)
      PROVE  RecordedInv'
  BY <1>7 DEF HydrateItem, PatchApplied, PatchRejected, ItemDone
<1>8. ASSUME NEW t \in Target, RepairItem(t)
      PROVE  RecordedInv'
  BY <1>8 DEF RepairItem, RepairAbandons, RepairDeclined, RepairApplied, RepairRejected,
              NextItem
<1>9. CASE HydrateEnd \/ RunTests \/ RequestRepair \/ EndRepair
  BY <1>9 DEF HydrateEnd, RunTests, RequestRepair, EndRepair
<1>10. CASE RepairDropped \/ RepairAnswer \/ Retest \/ RoundEnd
  BY <1>10 DEF RepairDropped, RepairAnswer, Retest, RoundEnd
<1>11. CASE Idle \/ UNCHANGED vars
  BY <1>11 DEF Idle
<1> QED
  BY <1>1, <1>2, <1>3, <1>4, <1>5, <1>6, <1>7, <1>8, <1>9, <1>10, <1>11
  DEF Next, Driver, Preflight, Generation, Repair, Closing

(* A batch that is over is in processed-targets.json to the last target,   *)
(* whichever way it ended, so each batch takes targets off the plan.       *)
THEOREM BatchesAreRecorded == Spec => []BatchIsRecorded
<1>1. Init => RecordedInv
  BY DEF Init, RecordedInv
<1>2. RecordedInv /\ MemoryMatchesDisk => BatchIsRecorded
  BY DEF RecordedInv, MemoryMatchesDisk, Running, BatchIsRecorded, BetweenBatches
<1> QED
  BY <1>1, <1>2, RecordedStep, TypeCorrect, MemoryIsOnDisk, PTL DEF Spec
=============================================================================
