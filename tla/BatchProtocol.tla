--------------------------- MODULE BatchProtocol ---------------------------
(***************************************************************************)
(* The pure decisions of orchestrator/batch_protocol.py: the per-target    *)
(* lifecycle states, which targets make up the next batch, whether a       *)
(* failure is worth another repair handoff, and whether the run may go on  *)
(* to the next batch.  The module has no state: BatchRun keeps the state   *)
(* and asks these operators.                                               *)
(*                                                                         *)
(* A target is one method of a class under test.  Texts are abstracted to  *)
(* what the decisions tell apart: a compiler diagnostic is a member of     *)
(* CompileErrors, the output of a rejecting patcher a member of            *)
(* Rejections, of which Blocked are those that print a "[BLOCKED]" line.   *)
(*                                                                         *)
(* Definitions named *_mutant, here and in BatchRun, are plausible bugs:   *)
(* each shows that some property of BatchProperties would notice it.       *)
(***************************************************************************)
EXTENDS Integers, Sequences, FiniteSets

CONSTANTS
  CompileErrors,  (* distinct compiler diagnostics of a test class          *)
  Rejections,     (* distinct outputs of a patcher that returned rc # 0     *)
  Blocked,        (* the rejections whose output holds a "[BLOCKED]" line   *)
  None            (* no diagnostic, no rejection, no signature              *)

ASSUME BlockedAssumption == Blocked \subseteq Rejections
ASSUME NoneAssumption == None \notin CompileErrors \cup Rejections

-----------------------------------------------------------------------------
(* Lifecycle of a target: manifest.targets[id].status.  "ABSENT" stands    *)
(* for a target that has no record yet in the manifest of this run.        *)

TERMINAL_STATES == {"PASSED", "SKIPPED", "ABANDONED"}
REPAIRABLE_STATES_mutant ==  (* whatever is called FAILED can be repaired *)
  {"COMPILE_FAILED", "TEST_FAILED", "PATCH_FAILED", "GENERATION_FAILED"}
REPAIRABLE_STATES == {"COMPILE_FAILED", "TEST_FAILED", "PATCH_FAILED"}
Status ==
  TERMINAL_STATES \cup REPAIRABLE_STATES \cup
  {"ABSENT", "GENERATION_REQUESTED", "GENERATED", "GENERATION_FAILED",
   "APPLIED", "REPAIR_REQUESTED", "REPAIRED"}

(* The free-text note kept in a target's record, by who wrote it.          *)
Notes == {"none", "patcher rc", "repair patcher rc", "no report"}

-----------------------------------------------------------------------------
(* The first size items of the plan that are not processed yet.            *)
Listed(plan) == {plan[i] : i \in DOMAIN plan}
Before(plan, t, u) == \E i, j \in DOMAIN plan : i < j /\ plan[i] = t /\ plan[j] = u

select_batch_mutant(plan, processed, size) ==  (* slices before it filters *)
  {t \in Listed(plan) : Cardinality({u \in Listed(plan) : Before(plan, u, t)}) < size}
    \ processed

select_batch(plan, processed, size) ==
  LET pending == Listed(plan) \ processed
  IN  {t \in pending : Cardinality({u \in pending : Before(plan, u, t)}) < size}

-----------------------------------------------------------------------------
(* A failed item: what _failed_items_for_repair collects about a target.   *)
(* patcherError and compilerError are read from files keyed by test class, *)
(* so an item may carry a text that an older failure of the class left.    *)

FailureKind(status) ==
  CASE status = "COMPILE_FAILED" -> "COMPILATION_ERROR"
    [] status = "PATCH_FAILED"   -> "PATCH_REJECTED"
    [] OTHER                     -> "TEST_FAILURE"

FailedItem(status, compilerError, patcherError, buildOutput, note) ==
  [failureKind   |-> FailureKind(status),
   compilerError |-> compilerError,
   patcherError  |-> patcherError,
   buildOutput   |-> buildOutput,
   note          |-> note]

BlockedLine(item) ==
  IF item.patcherError \in Blocked THEN item.patcherError ELSE None

(* errorSummary: the compiler line, else the [BLOCKED] line, else the note *)
(* (else the failure kind).  Only the last two are told apart here.        *)
SummaryNote(item) ==
  IF item.compilerError = None /\ BlockedLine(item) = None
  THEN item.note ELSE "none"

failure_signature_mutant(item) ==  (* hashes the whole patcher output *)
  [kind     |-> item.failureKind,
   compiler |-> item.compilerError,
   blocked  |-> item.patcherError,
   note     |-> SummaryNote(item)]

failure_signature(item) ==
  [kind     |-> item.failureKind,
   compiler |-> item.compilerError,
   blocked  |-> BlockedLine(item),
   note     |-> SummaryNote(item)]

Signatures ==
  [kind     : {"COMPILATION_ERROR", "PATCH_REJECTED", "TEST_FAILURE"},
   compiler : CompileErrors \cup {None},
   blocked  : Blocked \cup {None},
   note     : Notes]

HasActionableDiagnostics(item) ==
  \/ item.compilerError # None
  \/ item.patcherError # None
  \/ item.buildOutput

(* A summary that names no cause: the bare kind, or "patcher rc=<n>".      *)
GenericSummary(item) ==
  /\ item.compilerError = None
  /\ BlockedLine(item) = None
  /\ item.note \in {"none", "patcher rc"}

repair_admission(item, previous) ==
  /\ failure_signature(item) # previous
  /\ item.failureKind = "PATCH_REJECTED" =>
       item.patcherError # None \/ item.compilerError # None
  /\ \/ item.failureKind = "TEST_FAILURE"
     \/ HasActionableDiagnostics(item)
     \/ ~GenericSummary(item)

weak_diagnostics(item) == ~HasActionableDiagnostics(item)

should_abandon(rounds, maxRounds) == rounds >= maxRounds

-----------------------------------------------------------------------------
(* What to do after a batch: passed of total effective targets passed.  A  *)
(* batch without effective targets has passed = total = 0.                 *)
advance_decision_mutant(passed, total, hadCompile) ==  (* total // 2 *)
  CASE hadCompile                                        -> "repair-then-continue"
    [] ~hadCompile /\ passed = total                     -> "continue"
    [] ~hadCompile /\ passed # total /\ passed >= total \div 2
                                                         -> "repair-then-continue"
    [] OTHER                                             -> "stop"

advance_decision(passed, total, hadCompile) ==
  CASE hadCompile                             -> "repair-then-continue"
    [] ~hadCompile /\ passed = total          -> "continue"
    [] ~hadCompile /\ passed # total /\ 2 * passed >= total
                                              -> "repair-then-continue"
    [] OTHER                                  -> "stop"
=============================================================================
