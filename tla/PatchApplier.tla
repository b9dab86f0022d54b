---------------------------- MODULE PatchApplier ----------------------------
(***************************************************************************)
(* tools/python/test_patch_applier.py, the only program that writes Java,  *)
(* with the gates of gate_runner.py and the automatic repair of            *)
(* repair_dispatch.py and ast_patcher.py that it calls.  Patches follow    *)
(* one another over one test file, killed anywhere.                        *)
(*                                                                         *)
(* A method is known by its name and by the patch that wrote it.  A patch  *)
(* has at most one defect, named for the step that refuses it: more of     *)
(* them only decide which refusal comes first.  The linter's verdict and   *)
(* what the repair rules change are free.  The variables before, linted,   *)
(* mishap and those of past are not in the program.                        *)
(***************************************************************************)
EXTENDS Integers, FiniteSets, Functions

CONSTANTS
  Methods,          (* names of test methods                                 *)
  Fixes,            (* (errorCode, symbolFQN, fixId) triplets of one test case *)
  MaxFailed,        (* _G7_MAX_FAILED_ATTEMPTS                               *)
  MaxTestcase,      (* _G7_MAX_TESTCASE_ATTEMPTS                             *)
  MaxAttempts,      (* bound: attempts recorded for a triplet                *)
  MaxPatches,       (* bound: invocations of the patcher                     *)
  MaxViolations     (* bound: violations one automatic repair changes        *)

ASSUME PatcherAssumption ==
  /\ MaxFailed \in Nat \ {0} /\ MaxTestcase \in Nat
  /\ MaxAttempts \in Nat /\ MaxPatches \in Nat /\ MaxViolations \in Nat

Defects == {"none", "unreadable", "foreign", "overBudget", "noEvidence", "stalled",
            "unplaced", "malformed"}

(* A version: 0 no such method, 1 a person's, n + 1 that of the nth patch.  *)
Files == [exists : BOOLEAN, has : [Methods -> Nat], fixes : Nat]
NoFile == [exists |-> FALSE, has |-> [m \in Methods |-> 0], fixes |-> 0]

(* named: the patch carries the testCaseId, which a repair that the batch   *)
(* driver hydrated never does.                                              *)
Patches == [repair : BOOLEAN, names : SUBSET Methods, defect : Defects,
            fixes : SUBSET Fixes, named : BOOLEAN]
NoPatch == [repair |-> FALSE, names |-> {}, defect |-> "none", fixes |-> {}, named |-> FALSE]

VARIABLES
  pc, patch, count,
  rc,           (* the exit code, "none" while the patcher runs              *)
  prior,        (* prior_text                                                *)
  file,         (* the test file                                             *)
  reported,     (* whether generated-tests.json has an entry for the class   *)
  memory,       (* failure-memory.json: attempts and last result per triplet *)
  before,       (* the file when the patcher started                         *)
  linted,       (* what the linter passed in this run                        *)
  mishap,       (* whether reading the prior text or the rollback has failed *)
  owed,         (* triplets of a patch on disk that nobody has recorded yet  *)
  fails,        (* patches on disk with a triplet since it was last FIXED    *)
  tries,        (* patches on disk that tried triplets and named the case    *)
  careless      (* whether the patcher was ever called with triplets owed    *)

run == <<patch, prior, before, linted>>
past == <<owed, fails, tries, careless>>
vars == <<pc, count, rc, file, reported, memory, run, mishap, past>>

TypeOK ==
  /\ pc \in {"idle", "perimeter", "budget", "gates", "prior", "write", "lint", "dispatch",
             "relint", "rollback", "report"}
  /\ patch \in Patches /\ count \in Nat
  /\ rc \in {"none", "0", "1", "2", "3", "killed"}
  /\ rc = "none" <=> pc # "idle" \/ count = 0
  /\ count = 0 => pc = "idle"
  /\ prior \in Files /\ file \in Files /\ before \in Files /\ linted \in Files
  /\ reported \in BOOLEAN /\ mishap \in BOOLEAN
  /\ memory \in [Fixes -> [attempts : Nat, failed : BOOLEAN]]
  /\ owed \subseteq Fixes /\ fails \in [Fixes -> Nat] /\ tries \in Nat /\ careless \in BOOLEAN
-----------------------------------------------------------------------------
(* The attempts of all triplets of the test case together.                  *)
Attempts == FoldFunction(LAMBDA entry, sum : entry.attempts + sum, 0, memory)

LoopBlocked_mutant ==
  \/ patch.repair /\ patch.fixes = {}
  \/ \E f \in patch.fixes : memory[f].failed /\ memory[f].attempts > MaxFailed
  \/ patch.fixes # {} /\ patch.named /\ Attempts > MaxTestcase


(* gate_g7: a repair has to declare its triplets.  None of those declared   *)
(* may have failed too often; nor, if the patch names the test case, may    *)
(* the case have been tried too often, whatever came of it.                 *)
LoopBlocked ==
  \/ patch.repair /\ patch.fixes = {}
  \/ \E f \in patch.fixes : memory[f].failed /\ memory[f].attempts >= MaxFailed
  \/ patch.fixes # {} /\ patch.named /\ Attempts > MaxTestcase

(* evaluate_gates without a file: G1, G2 and G5, G7, G8.                    *)
GatesFail == patch.defect \in {"noEvidence", "stalled"} \/ LoopBlocked

(* The process is over and forgets.                                         *)
Finish(code) ==
  /\ pc' = "idle" /\ rc' = code
  /\ patch' = NoPatch /\ prior' = NoFile /\ before' = NoFile /\ linted' = NoFile
  /\ UNCHANGED <<count, memory, past>>

Goto(from, to) ==
  /\ pc = from /\ pc' = to
  /\ UNCHANGED <<patch, count, rc, memory, before>>

(* apply_patch: into a file that is there, the methods it does not have;    *)
(* otherwise all of them into the template.                                 *)
Injected_mutant ==
  [exists |-> TRUE, fixes |-> file.fixes,
   has |-> [m \in Methods |-> IF m \in patch.names THEN count + 1 ELSE file.has[m]]]

Injected ==
  [exists |-> TRUE, fixes |-> file.fixes,
   has |-> [m \in Methods |-> IF file.has[m] # 0 THEN file.has[m]
                              ELSE IF m \in patch.names THEN count + 1 ELSE 0]]
-----------------------------------------------------------------------------
(* A class may have a test file that a person wrote.                        *)
Init ==
  /\ pc = "idle" /\ count = 0 /\ rc = "none"
  /\ patch = NoPatch /\ prior = NoFile /\ linted = NoFile
  /\ file \in {NoFile} \union
       {[exists |-> TRUE, has |-> h, fixes |-> 0] : h \in [Methods -> {0, 1}]}
  /\ before = NoFile /\ reported = FALSE /\ mishap = FALSE
  /\ memory = [f \in Fixes |-> [attempts |-> 0, failed |-> FALSE]]
  /\ owed = {} /\ fails = [f \in Fixes |-> 0] /\ tries = 0 /\ careless = FALSE

Start(p) ==
  /\ pc = "idle" /\ count < MaxPatches
  /\ pc' = "perimeter" /\ patch' = p /\ count' = count + 1 /\ rc' = "none"
  /\ before' = file /\ careless' = (careless \/ owed # {})
  /\ UNCHANGED <<prior, file, reported, memory, linted, mishap, owed, fails, tries>>

(* The inputs cannot be read; or the patch names another SUT or an import   *)
(* outside the pack and the whitelist, or there is neither of these.        *)
PerimeterRefuses ==
  /\ pc = "perimeter"
  /\ \/ patch.defect = "unreadable" /\ Finish("2")
     \/ patch.defect = "foreign" /\ Finish("3")
  /\ UNCHANGED <<file, reported, mishap>>

PerimeterPasses ==
  /\ patch.defect \notin {"unreadable", "foreign"}
  /\ Goto("perimeter", "budget")
  /\ UNCHANGED <<prior, file, reported, linted, mishap, past>>

(* The cycle budget is spent or execution-state.json cannot be read.        *)
BudgetRefuses ==
  /\ pc = "budget" /\ patch.defect = "overBudget"
  /\ Finish("2")
  /\ UNCHANGED <<file, reported, mishap>>

BudgetPasses ==
  /\ patch.defect # "overBudget"
  /\ Goto("budget", "gates")
  /\ UNCHANGED <<prior, file, reported, linted, mishap, past>>

(* The first gate that fails gives the answer: 2 for G8, the last of them.  *)
GatesRefuse ==
  /\ pc = "gates" /\ GatesFail
  /\ Finish(IF patch.defect = "stalled" /\ ~LoopBlocked THEN "2" ELSE "3")
  /\ UNCHANGED <<file, reported, mishap>>

GatesPass ==
  /\ ~GatesFail
  /\ Goto("gates", "prior")
  /\ UNCHANGED <<prior, file, reported, linted, mishap, past>>

(* The content to roll back to.  A read that fails looks like no file.      *)
ReadPrior ==
  /\ Goto("prior", "write")
  /\ \/ prior' = file /\ mishap' = mishap
     \/ file.exists /\ prior' = NoFile /\ mishap' = TRUE
  /\ UNCHANGED <<file, reported, linted, past>>

(* Production code or no test root; no template, a raw newline in a literal,*)
(* a file that is not UTF-8.  Any other error is 1.                         *)
WriteRefused ==
  /\ pc = "write"
  /\ \/ patch.defect = "unplaced" /\ Finish("3")
     \/ patch.defect = "malformed" /\ Finish("2")
     \/ Finish("1")
  /\ UNCHANGED <<file, reported, mishap>>

Write ==
  /\ patch.defect \notin {"unplaced", "malformed"}
  /\ Goto("write", "lint")
  /\ file' = Injected
  /\ owed' = patch.fixes
  /\ fails' = [f \in Fixes |-> fails[f] + (IF f \in patch.fixes THEN 1 ELSE 0)]
  /\ tries' = tries + (IF patch.fixes # {} /\ patch.named THEN 1 ELSE 0)
  /\ UNCHANGED <<prior, reported, linted, mishap, careless>>

(* gate_g6 on the file as written, and once more after a repair.            *)
Lint ==
  /\ \/ Goto("lint", "report") /\ linted' = file
     \/ Goto("lint", "dispatch") /\ UNCHANGED linted
     \/ Goto("relint", "report") /\ linted' = file
     \/ Goto("relint", "rollback") /\ UNCHANGED linted
  /\ UNCHANGED <<prior, file, reported, mishap, past>>

(* repair_dispatch changes the file for one violation after another.        *)
Repair ==
  /\ Goto("dispatch", "dispatch")
  /\ file.fixes < before.fixes + MaxViolations
  /\ file' = [file EXCEPT !.fixes = @ + 1]
  /\ UNCHANGED <<prior, reported, linted, mishap, past>>

DispatchEnds_mutant ==
  /\ \/ Goto("dispatch", "report") /\ linted' = [file EXCEPT !.fixes = before.fixes]
     \/ Goto("dispatch", "rollback") /\ UNCHANGED linted
  /\ UNCHANGED <<prior, file, reported, mishap, past>>

(* What counts is the report on disk: a dispatch that dies leaves the one   *)
(* of an earlier file, so either answer is possible whatever was changed.   *)
DispatchEnds ==
  /\ Goto("dispatch", "relint") \/ Goto("dispatch", "rollback")
  /\ UNCHANGED <<prior, file, reported, linted, mishap, past>>

(* evaluate_gates cannot write one of its files: a traceback, and what was  *)
(* written stays.                                                           *)
GatesRaise ==
  /\ pc \in {"gates", "lint", "relint"}
  /\ Finish("1")
  /\ UNCHANGED <<file, reported, mishap>>

Rollback_mutant ==
  /\ pc = "rollback"
  /\ file' = NoFile
  /\ Finish("3")
  /\ UNCHANGED <<reported, mishap>>

(* Restore the prior text, or remove the file.  An error is only a warning. *)
Rollback ==
  /\ pc = "rollback"
  /\ \/ file' = prior /\ UNCHANGED mishap
     \/ mishap' = TRUE /\ UNCHANGED file
  /\ Finish("3")
  /\ UNCHANGED reported

(* _update_report; an old report that does not validate raises after the    *)
(* write.                                                                   *)
UpdateReport ==
  /\ pc = "report"
  /\ \/ reported' = TRUE /\ Finish("0")
     \/ UNCHANGED reported /\ Finish("1")
  /\ UNCHANGED <<file, mishap>>

Kill ==
  /\ pc # "idle" /\ Finish("killed")
  /\ UNCHANGED <<file, reported, mishap>>

(* failure-memory.json is not written by any program here: the agents are   *)
(* told to record every attempt and what came of it.                        *)
Remember(f, failed) ==
  /\ pc = "idle" /\ count > 0 /\ memory[f].attempts < MaxAttempts
  /\ memory' = [memory EXCEPT ![f] = [attempts |-> @.attempts + 1, failed |-> failed]]
  /\ owed' = owed \ {f}
  /\ fails' = IF failed THEN fails ELSE [fails EXCEPT ![f] = 0]
  /\ UNCHANGED <<pc, count, rc, file, reported, run, mishap, tries, careless>>

Next ==
  \/ \E p \in Patches : Start(p)
  \/ PerimeterRefuses \/ PerimeterPasses \/ BudgetRefuses \/ BudgetPasses
  \/ GatesRefuse \/ GatesPass \/ ReadPrior \/ WriteRefused \/ Write
  \/ Lint \/ Repair \/ DispatchEnds \/ GatesRaise \/ Rollback \/ UpdateReport
  \/ Kill \/ \E f \in Fixes, failed \in BOOLEAN : Remember(f, failed)

Spec == Init /\ [][Next]_vars
-----------------------------------------------------------------------------
Ends(codes) == pc # "idle" /\ pc' = "idle" /\ rc' \in codes

(* A patch refused with 2 or 3, before or after it was written, leaves the  *)
(* test file as it was when the patcher started.                            *)
RefusedLeavesFile == [][Ends({"2", "3"}) /\ ~mishap' => file' = before]_vars

(* What an accepted patch leaves on disk is what the linter passed, the     *)
(* changes of the automatic repair included.                                *)
KeptIsLinted == [][Ends({"0"}) => file' = linted]_vars

(* No method that was in the file before the patcher ran is changed or lost *)
(* at any moment, a kill between two writes included.                       *)
OldMethodsSurvive ==
  ~mishap => \A m \in Methods : before.has[m] # 0 => file.has[m] = before.has[m]

(* A class that generated-tests.json lists has a test file, also after a    *)
(* later patch of the class was rolled back.                                *)
ReportIsBacked == reported /\ ~mishap => file.exists

(* As long as every attempt that reached the disk is recorded before the    *)
(* next patch, a fix that keeps failing is put on disk MaxFailed times and  *)
(* no more, alone or next to other fixes, killed or rolled back.            *)
FixesAreBounded == ~careless => \A f \in Fixes : fails[f] <= MaxFailed


(* agents/repair-agent.md: a repair replaces the method of the same name.   *)
RepairReachesDisk ==
  [][Ends({"0"}) /\ patch.repair => \A m \in patch.names : file'.has[m] = count + 1]_vars
=============================================================================
