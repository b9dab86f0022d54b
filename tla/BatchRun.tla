------------------------------ MODULE BatchRun ------------------------------
(***************************************************************************)
(* The batch handoff driver: orchestrator/batch_runner.py, run_batches.    *)
(*                                                                         *)
(* One run takes the targets of batch-plan.json batch by batch.  For each  *)
(* batch it drops the targets without evidence, writes a generation        *)
(* request and waits for an operator (a person, or a model at the IDE) to  *)
(* answer it, applies the answered patches one by one through the patcher, *)
(* runs the touched test classes in one Maven call, classifies every       *)
(* target, goes through repair rounds for the failed ones, notes the batch *)
(* in processed-targets.json and decides whether to go on.                 *)
(*                                                                         *)
(* Three kinds of state meet here, with three lifetimes.  The manifest and *)
(* the loop variables die with the process.  processed-targets.json and    *)
(* execution-state.json survive it and are read by the next run.  The      *)
(* repository under test and what Maven and the patcher left about it (the *)
(* surefire reports, the compile error index, the last rejection of each   *)
(* test class) also survive, and nothing cleans them.  A process may be    *)
(* killed between any two steps, and in the middle of a write.             *)
(***************************************************************************)
EXTENDS BatchProtocol

CONSTANTS
  Target,            (* targets of the plan                                  *)
  Class,             (* test classes                                         *)
  ClassOf,           (* the canonical test class of each target              *)
  Plan,              (* batch-plan.json: the targets by descending score     *)
  NoEvidence,        (* targets that the pre-flight evidence gate refuses    *)
  Existing,          (* classes with a test file and a report before any run *)
  BatchSize,         (* --batch-size                                         *)
  MaxRepairRounds,   (* --max-repair-rounds                                  *)
  MaxBatches,        (* --max-batches                                        *)
  MaxCycles,         (* budget.maxCycles of execution-state.json             *)
  MaxRuns,           (* bound: how often the driver is started               *)
  MaxRepairItems,    (* bound: items in one repair response                  *)
  RepeatedItems,     (* TRUE: a repair response may list a target twice      *)
  Crashes            (* TRUE: the process may be killed                      *)

ASSUME PlanAssumption ==
  /\ Plan \in Seq(Target)
  /\ \A i, j \in DOMAIN Plan : Plan[i] = Plan[j] => i = j
  /\ ClassOf \in [Target -> Class]
  /\ NoEvidence \subseteq Target
  /\ Existing \subseteq Class
ASSUME BoundsAssumption ==
  /\ BatchSize \in Nat \ {0}
  /\ {MaxRepairRounds, MaxBatches, MaxCycles, MaxRuns, MaxRepairItems} \subseteq Nat
  /\ {RepeatedItems, Crashes} \subseteq BOOLEAN

VARIABLES
  (* the process *)
  pc,           (* where run_batches is                                     *)
  exit,         (* how the last process ended                               *)
  runs,         (* processes started                                        *)
  seen,         (* processed: the ids this process will not select          *)
  batchNo,      (* batches opened by this process                           *)
  batch,        (* the targets of the current batch                         *)
  sendable,     (* its targets that passed the pre-flight gate              *)
  todo,         (* targets the current loop has still to visit, in plan order*)
  applied,      (* targets whose patch is to be tested                      *)
  requested,    (* targets of the current repair request                    *)
  answered,     (* those that the repair response was already seen to list  *)
  left,         (* items of the repair response not processed yet           *)
  rnd,          (* repair round                                             *)
  hadCompile,   (* the first test run of the batch had a compile failure    *)
  (* manifest.json of the run *)
  st,           (* targets[id].status                                       *)
  needContext,  (* targets skipped for MISSING_CONTEXT                      *)
  rounds,       (* targets[id].repairRounds                                 *)
  lastSig,      (* targets[id].lastFailureSignature                         *)
  note,         (* targets[id].note                                         *)
  runStatus,    (* status                                                   *)
  saved,        (* what the file says of status and of the targets          *)
  (* the state directory and the repository under test *)
  done,         (* processed-targets.json                                   *)
  cycle,        (* execution-state.json, cycle                              *)
  maven,        (* pom.xml is there and mvn or mvnd is on PATH              *)
  tests,        (* what the test methods of each class do                   *)
  report,       (* surefire report of each class                            *)
  compErr,      (* compile-error-index.json, by class                       *)
  rejection,    (* _summaries/patcher-decisions, by class                   *)
  buildLog      (* _summaries/build-output.log has text                     *)

batchVars    == <<seen, batchNo, batch, sendable, hadCompile>>
repairVars   == <<requested, answered, left, rnd>>
manifestVars == <<st, needContext, rounds, lastSig, note, runStatus>>
mavenVars    == <<report, compErr, buildLog>>
repoVars     == <<tests, rejection, mavenVars>>
processVars  == <<exit, runs, maven>>
persistVars  == <<done, cycle>>

vars == <<pc, processVars, batchVars, todo, applied, repairVars,
          manifestVars, saved, persistVars, repoVars>>

-----------------------------------------------------------------------------
Phase ==
  {"off", "select", "preflight", "generation wait", "skip", "reject",
   "hydrate", "patch", "test", "admission", "repair wait", "repair",
   "round end", "close", "mark"}

(* A class file holds methods that pass, that fail and that do not compile *)
(* ("broken").  The patcher adds methods and never removes or replaces one *)
(* (_inject_methods), so a class only accumulates.                         *)
Quality == {"passes", "fails", "broken"}

TypeOK ==
  /\ pc \in Phase
  /\ exit \in {"none", "done", "budget", "stopped", "crash"}
  /\ runs \in 0 .. MaxRuns
  /\ seen \subseteq Target
  /\ batchNo \in 0 .. MaxBatches
  /\ batch \subseteq Target
  /\ sendable \subseteq Target
  /\ todo \subseteq Target
  /\ applied \subseteq Target
  /\ requested \subseteq Target
  /\ answered \subseteq Target
  /\ left \in 0 .. MaxRepairItems
  /\ rnd \in Nat
  /\ hadCompile \in BOOLEAN
  /\ st \in [Target -> Status]
  /\ needContext \subseteq Target
  /\ rounds \in [Target -> Nat]
  /\ lastSig \in [Target -> Signatures \cup {None}]
  /\ note \in [Target -> Notes]
  /\ runStatus \in {"RUNNING", "STOPPED", "DONE"}
  /\ saved \in [status : {"RUNNING", "STOPPED", "DONE"}, targets : [Target -> Status]]
  /\ done \subseteq Target
  /\ cycle \in Nat
  /\ maven \in BOOLEAN
  /\ tests \in [Class -> SUBSET Quality]
  /\ report \in [Class -> {"none", "passed", "failed"}]
  /\ compErr \in [Class -> CompileErrors \cup {None}]
  /\ rejection \in [Class -> Rejections \cup {None}]
  /\ buildLog \in BOOLEAN

-----------------------------------------------------------------------------
(* Helpers.                                                                *)

failing_target_ids_mutant ==  (* forgets the rejected patches *)
  {t \in sendable : st[t] \in {"COMPILE_FAILED", "TEST_FAILED"}}
failing_target_ids == {t \in sendable : st[t] \in REPAIRABLE_STATES}

Save_mutant(status, targets) ==  (* saves before set_status *)
  saved' = [status |-> status, targets |-> st]
Save(status, targets) == saved' = [status |-> status, targets |-> targets]

(* The loops over targets visit them in the order of the plan.             *)
Turn(t) == t \in todo /\ \A u \in todo : ~Before(Plan, u, t)

(* processed-targets.json as a process reads it when it starts, and the    *)
(* pair processed.add, mark_processed.                                     *)
ReadProcessed_mutant == {}  (* starts afresh *)
ReadProcessed == done

Record_mutant(t) ==  (* processed.add alone *)
  /\ seen' = seen \cup {t}
  /\ UNCHANGED done

Record(t) ==
  /\ seen' = seen \cup {t}
  /\ done' = done \cup {t}

(* bump_repair_round, for the targets of a repair request.                 *)
Bump_mutant(ask) == UNCHANGED rounds  (* the round is never counted *)

Bump(ask) ==
  rounds' = [t \in Target |-> IF t \in ask THEN rounds[t] + 1 ELSE rounds[t]]

(* The patcher returned rc # 0; its output is kept for the test class.     *)
RecordRejection_mutant(c) == UNCHANGED rejection  (* the output is lost *)

RecordRejection(c) == \E r \in Rejections : rejection' = [rejection EXCEPT ![c] = r]

(* The process ends: the run status is written to the manifest.            *)
Leave(how, status) ==
  /\ pc' = "off"
  /\ exit' = how
  /\ runStatus' = status
  /\ Save(status, st')

Item(t) ==
  LET c == ClassOf[t]
  IN  FailedItem(st[t], compErr[c], rejection[c], buildLog, note[t])

(* What a Maven run of the classes C does.  One broken class keeps every   *)
(* class from running, and the reports of earlier runs stay where they are *)
Compiles == \A c \in Class : "broken" \notin tests[c]
Passes(c) == "fails" \notin tests[c]
RunIsGreen(C) == Compiles /\ \A c \in C : Passes(c)

Maven(C) ==
  /\ report' = [c \in Class |->
       IF ~(Compiles /\ c \in C) THEN report[c]
       ELSE IF Passes(c) THEN "passed" ELSE "failed"]
  /\ compErr' \in IF RunIsGreen(C) THEN {compErr} ELSE
       {e \in [Class -> CompileErrors \cup {None}] :
          \A c \in Class : (e[c] = None) <=> ("broken" \notin tests[c])}
  /\ buildLog' = TRUE

(* _classify_batch, for the applied target t.                              *)
Classify_mutant(t, green, rep) ==  (* reads the reports before Maven ran *)
  IF green \/ report[ClassOf[t]] = "passed" THEN "PASSED"
  ELSE IF report[ClassOf[t]] = "failed" THEN "TEST_FAILED" ELSE "COMPILE_FAILED"

Classify(t, green, rep) ==
  IF green \/ rep[ClassOf[t]] = "passed" THEN "PASSED"
  ELSE IF rep[ClassOf[t]] = "failed" THEN "TEST_FAILED" ELSE "COMPILE_FAILED"

ClassifyAll_mutant(A, green, rep) ==  (* classifies all targets of the classes *)
  LET B == {t \in Target : ClassOf[t] \in {ClassOf[a] : a \in A}}
  IN  /\ st' = [t \in Target |-> IF t \in B THEN Classify(t, green, rep) ELSE st[t]]
      /\ UNCHANGED note

ClassifyAll(A, green, rep) ==
  /\ st' = [t \in Target |-> IF t \in A THEN Classify(t, green, rep) ELSE st[t]]
  /\ note' = [t \in Target |->
       IF t \in A /\ Classify(t, green, rep) = "COMPILE_FAILED"
       THEN "no report" ELSE note[t]]

-----------------------------------------------------------------------------
(* Init: no process; the state directory is fresh and the repository holds *)
(* the tests its developers wrote, all of them passing.                    *)

ForAll(v) == [t \in Target |-> v]

Init ==
  /\ pc = "off" /\ exit = "none" /\ runs = 0 /\ maven = TRUE
  /\ seen = {} /\ batchNo = 0 /\ batch = {} /\ sendable = {}
  /\ hadCompile = FALSE
  /\ todo = {} /\ applied = {}
  /\ requested = {} /\ answered = {} /\ left = 0 /\ rnd = 0
  /\ st = ForAll("ABSENT") /\ needContext = {} /\ rounds = ForAll(0)
  /\ lastSig = ForAll(None) /\ note = ForAll("none") /\ runStatus = "RUNNING"
  /\ saved = [status |-> runStatus, targets |-> st]
  /\ done = {} /\ cycle = 0
  /\ tests = [c \in Class |-> IF c \in Existing THEN {"passes"} ELSE {}]
  /\ report = [c \in Class |-> IF c \in Existing THEN "passed" ELSE "none"]
  /\ compErr = [c \in Class |-> None]
  /\ rejection = [c \in Class |-> None]
  /\ buildLog = FALSE

-----------------------------------------------------------------------------
(* The loop over batches.                                                  *)

(* A process starts: new manifest, processed ids read from disk.  Whether  *)
(* Maven can be found is a matter of the machine it starts on.             *)
Start ==
  /\ pc = "off" /\ runs < MaxRuns
  /\ pc' = "select" /\ exit' = "none" /\ runs' = runs + 1
  /\ maven' \in BOOLEAN
  /\ seen' = ReadProcessed
  /\ batchNo' = 0 /\ batch' = {} /\ sendable' = {}
  /\ hadCompile' = FALSE
  /\ todo' = {} /\ applied' = {}
  /\ requested' = {} /\ answered' = {} /\ left' = 0 /\ rnd' = 0
  /\ st' = ForAll("ABSENT") /\ needContext' = {} /\ rounds' = ForAll(0)
  /\ lastSig' = ForAll(None) /\ note' = ForAll("none") /\ runStatus' = "RUNNING"
  /\ Save("RUNNING", st')
  /\ UNCHANGED <<persistVars, repoVars>>

NextBatch == select_batch(Plan, seen, BatchSize)

(* The plan is exhausted, or this process reached --max-batches.           *)
FinishRun ==
  /\ pc = "select"
  /\ batchNo >= MaxBatches \/ NextBatch = {}
  /\ UNCHANGED st
  /\ Leave("done", "DONE")
  /\ UNCHANGED <<runs, maven, batchVars, todo, applied, repairVars, needContext,
                 rounds, lastSig, note, persistVars, repoVars>>

(* A batch is opened: its targets are GENERATION_REQUESTED, the budget     *)
(* ticks and is checked.  Over budget, the run ends here.                  *)
OpenBatch ==
  /\ pc = "select"
  /\ batchNo < MaxBatches /\ NextBatch # {}
  /\ batch' = NextBatch /\ batchNo' = batchNo + 1
  /\ st' = [t \in Target |->
       IF t \in NextBatch THEN "GENERATION_REQUESTED" ELSE st[t]]
  /\ cycle' = cycle + 1
  /\ sendable' = {} /\ hadCompile' = FALSE
  /\ \/ /\ cycle' <= MaxCycles
        /\ pc' = "preflight" /\ todo' = NextBatch
        /\ UNCHANGED <<exit, runStatus, saved>>
     \/ /\ cycle' > MaxCycles
        /\ Leave("budget", "STOPPED")
        /\ UNCHANGED todo
  /\ UNCHANGED <<runs, maven, seen, applied, repairVars, needContext, rounds,
                 lastSig, note, done, repoVars>>

(* The evidence gate refuses a target or lets it through.                  *)
PreflightSkip(t) ==
  /\ pc = "preflight" /\ Turn(t) /\ t \in NoEvidence
  /\ st' = [st EXCEPT ![t] = "SKIPPED"]
  /\ Record(t)
  /\ todo' = todo \ {t}
  /\ UNCHANGED <<pc, processVars, batchNo, batch, sendable, hadCompile,
                 applied, repairVars, needContext, rounds, lastSig, note,
                 runStatus, saved, cycle, repoVars>>

PreflightPass(t) ==
  /\ pc = "preflight" /\ Turn(t) /\ t \notin NoEvidence
  /\ sendable' = sendable \cup {t}
  /\ todo' = todo \ {t}
  /\ UNCHANGED <<pc, processVars, seen, batchNo, batch, hadCompile,
                 applied, repairVars, manifestVars, saved, persistVars, repoVars>>

(* Nothing to send: the loop goes on; or the request is written and the    *)
(* operator's answer is awaited.                                           *)
PreflightEnd ==
  /\ pc = "preflight" /\ todo = {}
  /\ pc' = IF sendable = {} THEN "select" ELSE "generation wait"
  /\ Save(runStatus, st)
  /\ UNCHANGED <<processVars, seen, batchNo, batch, sendable, hadCompile, todo,
                 applied, repairVars, manifestVars, persistVars, repoVars>>

-----------------------------------------------------------------------------
(* The generation handoff.                                                 *)

(* The operator answers "quit", at either kind of handoff.                 *)
Quit ==
  /\ pc \in {"generation wait", "repair wait"}
  /\ UNCHANGED st
  /\ Leave("stopped", "STOPPED")
  /\ UNCHANGED <<runs, maven, batchVars, todo, applied, repairVars, needContext,
                 rounds, lastSig, note, persistVars, repoVars>>

(* "skip", or the polling wait runs into its timeout; an envelope that     *)
(* cannot be trusted; or a response whose items are looked at one by one.  *)
GenerationAnswer ==
  /\ pc = "generation wait"
  /\ pc' \in {"skip", "reject", "hydrate"}
  /\ todo' = sendable
  /\ applied' = {}
  /\ UNCHANGED <<processVars, batchVars, repairVars, manifestVars, saved,
                 persistVars, repoVars>>

(* The loops over a skipped batch and over one whose envelope is invalid.  *)
DropTarget(t, phase, status) ==
  /\ pc = phase /\ Turn(t)
  /\ st' = [st EXCEPT ![t] = status]
  /\ Record(t)
  /\ todo' = todo \ {t}
  /\ UNCHANGED <<pc, processVars, batchNo, batch, sendable, hadCompile,
                 applied, repairVars, needContext, rounds, lastSig, note,
                 runStatus, saved, cycle, repoVars>>

SkipTarget(t) == DropTarget(t, "skip", "SKIPPED")
RejectTarget(t) == DropTarget(t, "reject", "GENERATION_FAILED")

DropEnd ==
  /\ pc \in {"skip", "reject"} /\ todo = {}
  /\ pc' = "select"
  /\ Save(runStatus, st)
  /\ UNCHANGED <<processVars, seen, batchNo, batch, sendable, hadCompile, todo,
                 applied, repairVars, manifestVars, persistVars, repoVars>>

(* One item of the response, after hydration: NEED_MORE_CONTEXT, skipped,  *)
(* failed (or omitted, or not a valid descriptor), or generated.  A reason *)
(* of the model's own may also read as a missing context.                  *)
HydrateItem(t) ==
  /\ pc = "hydrate" /\ Turn(t)
  /\ \/ /\ st' = [st EXCEPT ![t] = "SKIPPED"]
        /\ needContext' \in {needContext, needContext \cup {t}}
        /\ todo' = todo \ {t} /\ UNCHANGED pc
     \/ /\ st' = [st EXCEPT ![t] = "GENERATION_FAILED"]
        /\ todo' = todo \ {t} /\ UNCHANGED <<pc, needContext>>
     \/ /\ st' = [st EXCEPT ![t] = "GENERATED"]
        /\ pc' = "patch" /\ UNCHANGED <<todo, needContext>>
  /\ UNCHANGED <<processVars, batchVars, applied, repairVars, rounds, lastSig,
                 note, runStatus, saved, persistVars, repoVars>>

(* The patcher writes a method of quality q into the class, or finds its   *)
(* name there already and leaves the file as it is; both return 0.         *)
Inject(c) ==
  \/ \E q \in Quality : tests' = [tests EXCEPT ![c] = @ \cup {q}]
  \/ tests[c] # {} /\ UNCHANGED tests

(* Either way the loop goes on to the next item.                           *)
ItemDone_mutant(t) ==  (* a rejected patch is generated once more *)
  /\ todo' = IF st'[t] = "PATCH_FAILED" THEN todo ELSE todo \ {t}
  /\ pc' = "hydrate"
ItemDone(t) == todo' = todo \ {t} /\ pc' = "hydrate"

PatchApplied(t) ==
  /\ pc = "patch" /\ Turn(t)
  /\ Inject(ClassOf[t])
  /\ st' = [st EXCEPT ![t] = "APPLIED"]
  /\ applied' = applied \cup {t}
  /\ ItemDone(t)
  /\ UNCHANGED <<processVars, batchVars, repairVars, needContext, rounds, lastSig,
                 note, runStatus, saved, persistVars, rejection, mavenVars>>

PatchRejected(t) ==
  /\ pc = "patch" /\ Turn(t)
  /\ RecordRejection(ClassOf[t])
  /\ st' = [st EXCEPT ![t] = "PATCH_FAILED"]
  /\ note' = [note EXCEPT ![t] = "patcher rc"]
  /\ ItemDone(t)
  /\ UNCHANGED <<processVars, batchVars, applied, repairVars, needContext, rounds,
                 lastSig, runStatus, saved, persistVars, tests, mavenVars>>

HydrateEnd ==
  /\ pc = "hydrate" /\ todo = {}
  /\ pc' = "test"
  /\ Save(runStatus, st)
  /\ UNCHANGED <<processVars, batchVars, todo, applied, repairVars, manifestVars,
                 persistVars, repoVars>>
-----------------------------------------------------------------------------
(* The first test run of the batch.                                        *)

(* The runner returns 2 because Maven cannot be run: nothing is classified *)
(* and the process stops, the batch noted in memory only.                  *)
TestsNotRun ==
  /\ pc = "test" /\ applied # {} /\ ~maven
  /\ seen' = seen \cup batch
  /\ UNCHANGED st
  /\ Leave("stopped", "STOPPED")
  /\ UNCHANGED <<runs, maven, batchNo, batch, sendable, hadCompile, todo,
                 applied, repairVars, needContext, rounds, lastSig, note,
                 persistVars, repoVars>>

RunTests ==
  /\ pc = "test"
  /\ \/ applied = {} /\ UNCHANGED <<st, note, mavenVars>>
     \/ /\ applied # {} /\ maven
        /\ Maven({ClassOf[t] : t \in applied})
        /\ ClassifyAll(applied, RunIsGreen({ClassOf[t] : t \in applied}), report')
  /\ hadCompile' = (\E t \in applied : st'[t] = "COMPILE_FAILED")
  /\ Save(runStatus, st')
  /\ rnd' = 1 /\ pc' = "admission"
  /\ UNCHANGED <<processVars, seen, batchNo, batch, sendable, todo, applied,
                 requested, answered, left, needContext, rounds, lastSig, runStatus,
                 persistVars, tests, rejection>>

-----------------------------------------------------------------------------
(* The repair rounds.                                                      *)

Admitted(t) ==
  /\ repair_admission(Item(t), lastSig[t])
  /\ ~(weak_diagnostics(Item(t)) /\ rounds[t] >= 1)

(* The failing targets worth a handoff are requested again, the others are *)
(* abandoned; every signature is remembered.                               *)
RequestRepair ==
  /\ pc = "admission" /\ rnd <= MaxRepairRounds /\ failing_target_ids # {}
  /\ LET ask == {t \in failing_target_ids : Admitted(t)}
     IN  /\ lastSig' = [t \in Target |->
              IF t \in failing_target_ids THEN failure_signature(Item(t)) ELSE lastSig[t]]
         /\ st' = [t \in Target |->
              IF t \in ask THEN "REPAIR_REQUESTED"
              ELSE IF t \in failing_target_ids THEN "ABANDONED" ELSE st[t]]
         /\ Bump(ask)
         /\ requested' = ask
         /\ pc' = IF ask = {} THEN "close" ELSE "repair wait"
  /\ Save(runStatus, st')
  /\ UNCHANGED <<processVars, batchVars, todo, applied, answered, left, rnd,
                 needContext, note, runStatus, persistVars, repoVars>>

(* Nothing fails any more, or the rounds are used up.                      *)
EndRepair ==
  /\ pc = "admission"
  /\ rnd > MaxRepairRounds \/ failing_target_ids = {}
  /\ pc' = "close"
  /\ UNCHANGED <<processVars, batchVars, todo, applied, repairVars, manifestVars,
                 saved, persistVars, repoVars>>

(* "skip" or timeout, or a response that is invalid as a whole.            *)
RepairDropped ==
  /\ pc = "repair wait"
  /\ pc' = "close"
  /\ UNCHANGED <<processVars, batchVars, todo, applied, repairVars, manifestVars,
                 saved, persistVars, repoVars>>

(* A valid response: any number of items, each of a requested target.      *)
RepairAnswer ==
  /\ pc = "repair wait"
  /\ left' \in 0 .. MaxRepairItems
  /\ ~RepeatedItems => left' <= Cardinality(requested)
  /\ answered' = {} /\ applied' = {} /\ pc' = "repair"
  /\ UNCHANGED <<processVars, batchVars, todo, requested, rnd, manifestVars, saved,
                 persistVars, repoVars>>

NextItem(t) ==
  /\ pc = "repair" /\ left > 0
  /\ t \in IF RepeatedItems THEN requested ELSE requested \ answered
  /\ left' = left - 1 /\ answered' = answered \cup {t}
  /\ UNCHANGED <<pc, processVars, batchVars, todo, requested, rnd, needContext,
                 rounds, lastSig, runStatus, saved, persistVars>>

(* "abandoned", or NEED_MORE_CONTEXT.                                      *)
RepairAbandons(t) ==
  /\ NextItem(t)
  /\ st' = [st EXCEPT ![t] = "ABANDONED"]
  /\ UNCHANGED <<applied, note, repoVars>>

(* "skipped" or "failed": the loop leaves the target as it is.             *)
RepairDeclined(t) ==
  /\ NextItem(t)
  /\ UNCHANGED <<applied, st, note, repoVars>>

RepairApplied(t) ==
  /\ NextItem(t)
  /\ Inject(ClassOf[t])
  /\ st' = [st EXCEPT ![t] = "REPAIRED"]
  /\ applied' = applied \cup {t}
  /\ UNCHANGED <<note, rejection, mavenVars>>

RepairRejected(t) ==
  /\ NextItem(t)
  /\ RecordRejection(ClassOf[t])
  /\ st' = [st EXCEPT ![t] = "PATCH_FAILED"]
  /\ note' = [note EXCEPT ![t] = "repair patcher rc"]
  /\ UNCHANGED <<applied, tests, mavenVars>>

(* The re-applied classes run.  Without Maven the runner's 2 is one more   *)
(* rc # 0: the reports that happen to lie there decide.                    *)
Retest ==
  /\ pc = "repair" /\ left = 0
  /\ \/ applied = {} /\ UNCHANGED <<st, note, mavenVars>>
     \/ /\ applied # {} /\ maven
        /\ Maven({ClassOf[t] : t \in applied})
        /\ ClassifyAll(applied, RunIsGreen({ClassOf[t] : t \in applied}), report')
     \/ /\ applied # {} /\ ~maven
        /\ ClassifyAll(applied, FALSE, report)
        /\ UNCHANGED mavenVars
  /\ pc' = "round end"
  /\ UNCHANGED <<processVars, batchVars, todo, applied, repairVars, needContext,
                 rounds, lastSig, runStatus, saved, persistVars, tests, rejection>>

(* Out of rounds: abandoned.  Nothing re-applied: what was requested and   *)
(* is not resolved is abandoned, and the rounds end.                       *)
RoundEnd ==
  /\ pc = "round end"
  /\ LET spent == {t \in failing_target_ids : should_abandon(rounds[t], MaxRepairRounds)}
         stuck == IF applied # {} THEN {}
                  ELSE {t \in requested : st[t] \notin TERMINAL_STATES}
     IN  st' = [t \in Target |-> IF t \in spent \cup stuck THEN "ABANDONED" ELSE st[t]]
  /\ Save(runStatus, st')
  /\ \/ applied = {} /\ pc' = "close" /\ UNCHANGED rnd
     \/ applied # {} /\ pc' = "admission" /\ rnd' = rnd + 1
  /\ UNCHANGED <<processVars, batchVars, todo, applied, requested, answered, left,
                 needContext, rounds, lastSig, note, runStatus, persistVars, repoVars>>

-----------------------------------------------------------------------------
(* The end of a batch.                                                     *)

CloseBatch_mutant ==  (* marks the targets that were tested only *)
  /\ pc = "close"
  /\ st' = [t \in Target |-> IF t \in failing_target_ids THEN "ABANDONED" ELSE st[t]]
  /\ todo' = applied /\ pc' = "mark"
  /\ UNCHANGED <<processVars, batchVars, applied, repairVars, needContext, rounds,
                 lastSig, note, runStatus, saved, persistVars, repoVars>>

CloseBatch ==
  /\ pc = "close"
  /\ st' = [t \in Target |-> IF t \in failing_target_ids THEN "ABANDONED" ELSE st[t]]
  /\ todo' = batch /\ pc' = "mark"
  /\ UNCHANGED <<processVars, batchVars, applied, repairVars, needContext, rounds,
                 lastSig, note, runStatus, saved, persistVars, repoVars>>

MarkProcessed(t) ==
  /\ pc = "mark" /\ Turn(t)
  /\ Record(t)
  /\ todo' = todo \ {t}
  /\ UNCHANGED <<pc, processVars, batchNo, batch, sendable, hadCompile,
                 applied, repairVars, manifestVars, saved, cycle, repoVars>>

Effective == sendable \ {t \in needContext : st[t] = "SKIPPED"}
PassedTargets == {t \in Effective : st[t] = "PASSED"}

Decision ==
  advance_decision(Cardinality(PassedTargets), Cardinality(Effective), hadCompile)

Advance ==
  /\ pc = "mark" /\ todo = {}
  /\ UNCHANGED st
  /\ \/ /\ Decision = "stop" /\ Leave("stopped", "STOPPED")
     \/ /\ Decision # "stop" /\ pc' = "select"
        /\ Save(runStatus, st) /\ UNCHANGED <<exit, runStatus>>
  /\ UNCHANGED <<runs, maven, batchVars, todo, applied, repairVars, needContext,
                 rounds, lastSig, note, persistVars, repoVars>>

-----------------------------------------------------------------------------
(* The process is killed; or killed while mark_processed rewrites its      *)
(* file in place, which leaves text that is no JSON, read as "no ids".     *)

Die ==
  /\ Crashes /\ pc # "off"
  /\ pc' = "off" /\ exit' = "crash"
  /\ UNCHANGED <<runs, maven, batchVars, todo, applied, repairVars, manifestVars,
                 saved, cycle, repoVars>>

Crash == Die /\ UNCHANGED done

WritesProcessed ==
  \E t \in Target :
    /\ Turn(t)
    /\ pc \in {"skip", "reject", "mark"} \/ (pc = "preflight" /\ t \in NoEvidence)

TornWrite == WritesProcessed /\ Die /\ done' = {}

(* The driver was started for the last time.                               *)
Idle == pc = "off" /\ runs = MaxRuns /\ UNCHANGED vars

-----------------------------------------------------------------------------
Preflight ==
  \/ \E t \in Target : PreflightSkip(t) \/ PreflightPass(t)
  \/ PreflightEnd

Generation ==
  \/ GenerationAnswer
  \/ \E t \in Target :
       SkipTarget(t) \/ RejectTarget(t) \/ HydrateItem(t) \/ PatchApplied(t) \/ PatchRejected(t)
  \/ DropEnd \/ HydrateEnd

RepairItem(t) ==
  \/ RepairAbandons(t) \/ RepairDeclined(t) \/ RepairApplied(t) \/ RepairRejected(t)

Repair ==
  \/ RequestRepair \/ EndRepair \/ RepairDropped \/ RepairAnswer
  \/ \E t \in Target : RepairItem(t)
  \/ Retest \/ RoundEnd

Closing == CloseBatch \/ (\E t \in Target : MarkProcessed(t)) \/ Advance

Driver ==
  \/ FinishRun \/ OpenBatch \/ Preflight \/ Generation \/ Quit
  \/ TestsNotRun \/ RunTests \/ Repair \/ Closing

Next == Start \/ Driver \/ Crash \/ TornWrite \/ Idle

Spec == Init /\ [][Next]_vars

(* A process that was started keeps running: every wait ends, because the  *)
(* operator answers or the polling wait times out.  Nothing is fair about  *)
(* starting a process or about crashes.                                    *)
FairSpec == Spec /\ WF_vars(Driver)
=============================================================================
