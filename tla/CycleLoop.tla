----------------------------- MODULE CycleLoop -----------------------------
(***************************************************************************)
(* The loop that treats one target per cycle: tools/python/cycle_loop.py   *)
(* with orchestrator/one_cycle.py as its child process, and the same loop  *)
(* as a graph in one process (orchestrator/graph.py).  A run ticks the     *)
(* budget, checks it, removes the delta of the cycle before, lets one      *)
(* cycle work, derives the stall counter from what that cycle measured and *)
(* asks gate G8.  Runs follow one another over one state directory.        *)
(*                                                                         *)
(* Coverage is a position relative to the baseline.  The texts of prompts, *)
(* answers and patches are not modelled, nor is compileFailRateWindow: the *)
(* loop only ever appends 0.0 to it.  The variables calls, measured and    *)
(* flats are not in the program.                                           *)
(***************************************************************************)
EXTENDS Integers, Sequences, FiniteSets

CONSTANTS
  Plan,          (* targetIds of batch-plan.json, in order                   *)
  Refused,       (* targets of generated classes or without a compact pack   *)
  NoTarget,
  MaxCycles,     (* budget.maxCycles                                         *)
  MaxZeroDelta,  (* _G8_MAX_ZERO_DELTA_CYCLES                                *)
  Cap,           (* min(--max-iterations, _ABSOLUTE_SAFETY_CAP)              *)
  BaselineSets,  (* where jacoco-baseline.xml may lie: sets of directories   *)
  MaxRuns        (* bound: runs over the state directory                     *)

Targets == {Plan[i] : i \in DOMAIN Plan}

ASSUME LoopAssumption ==
  /\ Plan \in Seq(Targets) /\ NoTarget \notin Targets
  /\ \A i, j \in DOMAIN Plan : Plan[i] = Plan[j] => i = j
  /\ Refused \subseteq Targets
  /\ MaxCycles \in Nat /\ MaxRuns \in Nat
  /\ MaxZeroDelta \in Nat \ {0} /\ Cap \in Nat \ {0}
  /\ BaselineSets \subseteq SUBSET {"state", "repo"}

Levels == {"less", "same", "more"}   (* line and branch coverage, against the baseline *)
ExitCodes == {"none", "ok", "budget", "noTargets", "crash"}   (* - 0 2 7 and any other *)
Reasons == {"none", "done", "cap", "budget", "error", "stall", "raised", "died"}

VARIABLES
  (* the run *)
  pc, driver, target, cmdRc, iterations, stop, runs,
  (* the state directory: execution-state.json, coverage-delta.json,         *)
  (* processed-targets.json, llm-budget.json                                 *)
  cycle, started, zeroDelta, delta, done, packs,
  (* the repository *)
  written,     (* targets whose test methods reached a Java file              *)
  report,      (* target/site/jacoco/jacoco.xml                              *)
  baselines,   (* directories that hold a jacoco-baseline.xml                *)
  (* what happened *)
  calls,       (* calls of the model so far                                  *)
  measured,    (* what this cycle measured                                   *)
  flats        (* recorded flat measurements since the last one that was not *)

run == <<driver, runs>>
state == <<cycle, started, zeroDelta, done>>
repo == <<written, report, baselines>>
history == <<calls, measured, flats>>
vars == <<pc, target, cmdRc, iterations, stop, delta, packs, run, state, repo, history>>
-----------------------------------------------------------------------------
(* The definitions named ..._mutant are plausible bugs, for checking that   *)
(* the properties notice them.                                             *)
OverBudget_mutant == cycle - 1 > MaxCycles

(* tick has run, so cycle is the number of the cycle that wants to begin.   *)
OverBudget == cycle > MaxCycles

(* gate_g8: the last entry of the compile window is always 0.0.             *)
Stalled == zeroDelta >= MaxZeroDelta

IsNext_mutant(i) == i \in DOMAIN Plan /\ Plan[i] \notin done

(* select_next_target: the first item that is not in the record.            *)
IsNext(i) ==
  /\ i \in DOMAIN Plan /\ Plan[i] \notin done
  /\ \A j \in DOMAIN Plan : j < i => Plan[j] \in done

(* The exit code of the patcher, and whether the file was written.  It may  *)
(* refuse any descriptor, with 3 at the perimeter or a gate, with 2 if it   *)
(* cannot read an input or the cycle has taken too many minutes.  Only      *)
(* within the budget and without a stall does it come to write: that        *)
(* succeeds (0), finds a bad literal (2), is linted and rolled back (3) or  *)
(* raises (1).  A rollback may fail, and an exception of the linter leaves  *)
(* the file as it is.                                                       *)
PatcherResults_mutant ==
  LET refused == {<<2, FALSE>>, <<3, FALSE>>}
  IN  IF OverBudget THEN refused
      ELSE refused \union {<<0, TRUE>>, <<1, FALSE>>, <<1, TRUE>>, <<3, TRUE>>}

PatcherResults ==
  LET refused == {<<2, FALSE>>, <<3, FALSE>>}
  IN  IF OverBudget \/ Stalled THEN refused
      ELSE refused \union {<<0, TRUE>>, <<1, FALSE>>, <<1, TRUE>>, <<3, TRUE>>}

(* _read_cycle_delta and record_outcome: a flat measurement counts, another *)
(* one clears, none preserves.                                              *)
CountDelta(d, n) == CASE d = "same" -> n + 1 [] d = "none" -> n [] OTHER -> 0
-----------------------------------------------------------------------------
Init ==
  /\ pc = "off" /\ driver = "loop" /\ target = NoTarget /\ cmdRc = "none"
  /\ iterations = 0 /\ stop = "none" /\ runs = 0
  /\ cycle = 0 /\ started = FALSE /\ zeroDelta = 0
  /\ delta = "none" /\ done = {} /\ packs = "ok"
  /\ written = {} /\ report \in {"none", "same"} /\ baselines = {}
  /\ calls = 0 /\ measured = "none" /\ flats = 0

(* A run begins.  Context packs may have been rebuilt and a baseline copied *)
(* since the last one.                                                      *)
Start ==
  /\ pc = "off" /\ runs < MaxRuns
  /\ pc' = "tick" /\ runs' = runs + 1
  /\ driver' \in {"loop", "graph"}
  /\ target' = NoTarget /\ cmdRc' = "none" /\ iterations' = 0 /\ stop' = "none"
  /\ packs' \in {"ok", "over", "unreadable"}
  /\ baselines' \in BaselineSets
  /\ UNCHANGED <<delta, state, written, report, history>>

Tick ==
  /\ pc = "tick"
  /\ pc' = "check" /\ iterations' = iterations + 1
  /\ cycle' = cycle + 1 /\ started' = TRUE
  /\ UNCHANGED <<target, cmdRc, stop, delta, packs, run, zeroDelta, done, repo, history>>

(* The end of a run.                                                        *)
Leave(why) ==
  /\ pc' = "off" /\ stop' = why
  /\ UNCHANGED <<target, cmdRc, iterations, delta, packs, run, cycle, zeroDelta, done,
                 repo, history>>

(* check and check_token_budget.  The minutes cannot be over here: tick has *)
(* just stamped the cycle.                                                  *)
BudgetStop ==
  /\ pc = "check" /\ (OverBudget \/ packs = "over")
  /\ started' = FALSE
  /\ Leave("budget")

(* json.loads in check_token_budget raises and nobody catches it.           *)
BudgetUnreadable ==
  /\ pc = "check" /\ ~OverBudget /\ packs = "unreadable"
  /\ UNCHANGED started
  /\ Leave("raised")

Dispatch_mutant ==
  /\ pc = "check" /\ ~OverBudget /\ packs = "ok"
  /\ pc' = "select" /\ measured' = "none"
  /\ UNCHANGED <<target, cmdRc, iterations, stop, delta, packs, run, state, repo, calls, flats>>

Dispatch ==
  /\ pc = "check" /\ ~OverBudget /\ packs = "ok"
  /\ pc' = "select" /\ delta' = "none" /\ measured' = "none"
  /\ UNCHANGED <<target, cmdRc, iterations, stop, packs, run, state, repo, calls, flats>>
-----------------------------------------------------------------------------
(* run_one_cycle.                                                           *)
Work(next) ==
  /\ pc' = next
  /\ UNCHANGED <<iterations, stop, packs, run, state>>

NoTargets ==
  /\ pc = "select" /\ Targets \subseteq done
  /\ Work("return") /\ cmdRc' = "noTargets"
  /\ UNCHANGED <<target, delta, repo, history>>

Select ==
  /\ pc = "select"
  /\ \E i \in DOMAIN Plan :
       /\ IsNext(i)
       /\ target' = Plan[i]
       /\ Work(IF Plan[i] \in Refused THEN "mark" ELSE "generate")
  /\ UNCHANGED <<cmdRc, delta, repo, history>>

(* generate_patch: an answer, a BLOCKED answer, or an exception (no valid   *)
(* descriptor, provider time-out, token budget).                            *)
Generate ==
  /\ pc = "generate"
  /\ calls' = calls + 1
  /\ \/ Work("apply") /\ UNCHANGED cmdRc
     \/ Work("mark") /\ UNCHANGED cmdRc
     \/ Work("return") /\ cmdRc' = "crash"
  /\ UNCHANGED <<target, delta, repo, measured, flats>>

ApplyPatch ==
  /\ pc = "apply"
  /\ \E result \in PatcherResults :
       LET rc == result[1] IN
       /\ written' = IF result[2] THEN written \union {target} ELSE written
       /\ IF rc = 2
          THEN Work("return") /\ cmdRc' = "budget"
          ELSE Work(IF rc = 0 THEN "measure" ELSE "mark") /\ UNCHANGED cmdRc
  /\ UNCHANGED <<target, delta, report, baselines, history>>

(* validate_and_score.  Maven may leave the JaCoCo report alone or write a  *)
(* new one; the delta is taken only if the baseline lies in the repository. *)
Measure ==
  /\ pc = "measure"
  /\ \E r \in Levels \union {report} :
       /\ report' = r
       /\ delta' = IF "repo" \in baselines THEN r ELSE delta
       /\ measured' = IF "repo" \in baselines THEN r ELSE "none"
  /\ Work("mark")
  /\ UNCHANGED <<target, cmdRc, written, baselines, calls, flats>>

MarkProcessed ==
  /\ pc = "mark"
  /\ pc' = "return" /\ cmdRc' = "ok" /\ done' = done \union {target}
  /\ UNCHANGED <<target, iterations, stop, delta, packs, run, cycle, started, zeroDelta,
                 repo, history>>
-----------------------------------------------------------------------------
CycleError_mutant ==
  /\ pc = "return" /\ cmdRc = "crash" /\ driver = "loop"
  /\ UNCHANGED started
  /\ Leave("error")

(* An abnormal end of the child stops the loop and leaves G8 alone.  In the *)
(* graph the same failure is an exception that nothing catches.             *)
CycleError ==
  /\ pc = "return" /\ cmdRc = "crash" /\ driver = "loop"
  /\ started' = FALSE
  /\ Leave("error")

CycleRaises ==
  /\ pc = "return" /\ cmdRc = "crash" /\ driver = "graph"
  /\ UNCHANGED started
  /\ Leave("raised")

RecordOutcome ==
  /\ pc = "return" /\ cmdRc # "crash"
  /\ pc' = "evaluate"
  /\ zeroDelta' = CountDelta(delta, zeroDelta)
  /\ flats' = CountDelta(measured, flats)
  /\ UNCHANGED <<target, cmdRc, iterations, stop, delta, packs, run, cycle, started, done,
                 repo, calls, measured>>

(* reset, then G8 before the signal of the child and the cap.               *)
Evaluate ==
  /\ pc = "evaluate"
  /\ started' = FALSE
  /\ CASE Stalled -> Leave("stall")
       [] ~Stalled /\ cmdRc = "noTargets" -> Leave("done")
       [] ~Stalled /\ cmdRc # "noTargets" /\ iterations >= Cap -> Leave("cap")
       [] OTHER ->
            /\ pc' = "tick" /\ target' = NoTarget /\ cmdRc' = "none"
            /\ UNCHANGED <<iterations, stop, delta, packs, run, cycle, zeroDelta, done,
                           repo, history>>
-----------------------------------------------------------------------------
(* A kill between two steps; and one inside mark_processed, which rewrites  *)
(* the record in place and leaves what reads as no ids.                     *)
Crash ==
  /\ pc # "off"
  /\ UNCHANGED started
  /\ Leave("died")

TornWrite ==
  /\ pc = "mark"
  /\ pc' = "off" /\ stop' = "died" /\ done' = {}
  /\ UNCHANGED <<target, cmdRc, iterations, delta, packs, run, cycle, started, zeroDelta,
                 repo, history>>

Idle == pc = "off" /\ runs = MaxRuns /\ UNCHANGED vars

OneCycle == NoTargets \/ Select \/ Generate \/ ApplyPatch \/ Measure \/ MarkProcessed
Loop ==
  \/ Tick \/ BudgetStop \/ BudgetUnreadable \/ Dispatch
  \/ CycleError \/ CycleRaises \/ RecordOutcome \/ Evaluate

Next == Start \/ Loop \/ OneCycle \/ Crash \/ TornWrite \/ Idle

Spec == Init /\ [][Next]_vars
-----------------------------------------------------------------------------
(* The type of the state.  The stall counter never passes its threshold:    *)
(* after a stall no run gets as far as a measurement.                       *)
TypeOK ==
  /\ pc \in {"off", "tick", "check", "select", "generate", "apply", "measure", "mark",
             "return", "evaluate"}
  /\ driver \in {"loop", "graph"} /\ target \in Targets \union {NoTarget}
  /\ cmdRc \in ExitCodes /\ stop \in Reasons
  /\ iterations \in Nat /\ runs \in Nat /\ cycle \in Nat /\ calls \in Nat
  /\ started \in BOOLEAN /\ packs \in {"ok", "over", "unreadable"}
  /\ zeroDelta \in 0..MaxZeroDelta /\ flats \in Nat
  /\ {delta, report, measured} \subseteq Levels \union {"none"}
  /\ done \subseteq Targets /\ written \subseteq Targets
  /\ baselines \subseteq {"state", "repo"}

(* A stall is reported only if that many cycles in a row, of those that     *)
(* were measured, were measured flat: a cycle that was refused or blocked   *)
(* does not count again what an earlier one left in coverage-delta.json,    *)
(* over any number of runs and kills.                                       *)
StallIsMeasured == stop = "stall" => flats >= MaxZeroDelta

(* Over the cycle budget or after a stall no Java is written, by whichever  *)
(* run and whatever the answer of the model: the patcher asks both again.   *)
BrakesStopWriting == [][OverBudget \/ zeroDelta >= MaxZeroDelta => written' = written]_vars

(* The record is a prefix of the plan: no target is passed over, although   *)
(* an exit code 2 leaves its target to the next cycle and kills come        *)
(* anywhere.                                                                *)
RecordIsPrefix ==
  \A i, j \in DOMAIN Plan : j < i /\ Plan[i] \in done => Plan[j] \in done

(* What the loop is told agrees with the record: 0 settles a target, 2      *)
(* leaves it open, 7 means that none is left, and so does the end "done".   *)
OutcomeIsTrue ==
  /\ pc = "return" =>
       /\ cmdRc = "ok" => target \in done
       /\ cmdRc = "budget" => target \in Targets \ done
       /\ cmdRc = "noTargets" => Targets \subseteq done
  /\ stop = "done" => Targets \subseteq done

(* The model is called at most maxCycles times over all runs, kills and     *)
(* restarts: the counter is on disk before a cycle is dispatched.           *)
CallsAreBounded == calls <= MaxCycles

(* A run that ends with a code leaves no cycle clock running, which a later *)
(* check would take for an overlong cycle.                                  *)
CleanStop == stop \in Reasons \ {"none", "raised", "died"} => ~started

(* graph.py:80-82, "Crash guard (paridad con cycle_loop)": a crash of the   *)
(* cycle is surfaced as a cycle error, by the loop and by the graph.        *)
CrashIsSurfaced ==
  pc = "off" /\ cmdRc = "crash" /\ stop # "died" => stop = "error" /\ ~started
=============================================================================
