---------------------------- MODULE BudgetClock ----------------------------
(***************************************************************************)
(* The minute budget of tools/python/budget_enforcer.py, as the batch      *)
(* driver uses it.  execution-state.json holds the stamp of the current    *)
(* cycle and, while the driver waits for a manual answer, the stamp of the *)
(* pause; the file outlives the process.  The driver ticks at the start of *)
(* a batch, pauses around every handoff, resets at the end of a tested     *)
(* batch and leaves the stamps alone when a batch is dropped, when it is   *)
(* told to quit and when it is killed.  The patcher asks check during the  *)
(* automatic work and refuses to write over budget.                        *)
(*                                                                         *)
(* Time is counted in minutes and the wall clock does not jump.  The       *)
(* variables work and stale are not in the program: work counts the        *)
(* minutes of automatic work since the last tick, which is what the clock  *)
(* is meant to measure, and stale says that this cycle began with a stamp  *)
(* of a pause, which only a process that was killed leaves behind.         *)
(***************************************************************************)
EXTENDS Integers

CONSTANTS
  MaxCycles,     (* budget.maxCycles                                        *)
  MaxMinutes,    (* budget.maxMinutesPerCycle                               *)
  MaxTime,       (* bound: minutes the model looks at                       *)
  None           (* an absent stamp                                         *)

ASSUME ClockAssumption ==
  /\ MaxCycles \in Nat /\ MaxMinutes \in Nat /\ MaxTime \in Nat
  /\ None \notin Int

VARIABLES
  pc,         (* "down", "select", "work" or "wait" (a manual handoff)       *)
  now,        (* time.time()                                                 *)
  work,       (* minutes of automatic work since the last tick               *)
  stale,      (* that tick found the stamp of a pause                        *)
  cycle,      (* execution-state.json: cycle                                 *)
  startedAt,  (* ... cycleStartedAt                                          *)
  pausedAt    (* ... cyclePausedAt                                           *)

vars == <<pc, now, work, stale, cycle, startedAt, pausedAt>>
-----------------------------------------------------------------------------
(* The minute half of check: the clock stands still during a pause.        *)
Elapsed == (IF pausedAt = None THEN now ELSE pausedAt) - startedAt

Overtime == startedAt # None /\ Elapsed > MaxMinutes

check == cycle <= MaxCycles /\ ~Overtime

Init ==
  /\ pc = "down" /\ now = 0 /\ work = 0 /\ stale = FALSE
  /\ cycle = 0 /\ startedAt = None /\ pausedAt = None

(* A later process would be stopped by its first tick again.               *)
Launch ==
  /\ pc = "down" /\ cycle <= MaxCycles
  /\ pc' = "select"
  /\ UNCHANGED <<now, work, stale, cycle, startedAt, pausedAt>>

(* tick and check at the start of a batch; over budget, reset and out.     *)
Tick ==
  /\ pc = "select"
  /\ cycle' = cycle + 1
  /\ work' = 0 /\ stale' = (pausedAt # None)
  /\ \/ /\ cycle' <= MaxCycles
        /\ pc' = "work" /\ startedAt' = now
        /\ UNCHANGED pausedAt
     \/ /\ cycle' > MaxCycles
        /\ pc' = "down" /\ startedAt' = None /\ pausedAt' = None
  /\ UNCHANGED now

(* A second pause keeps the first stamp.                                   *)
Pause_mutant ==  (* stamps nothing: the wait counts as work *)
  /\ pc = "work" /\ pc' = "wait"
  /\ UNCHANGED <<now, work, stale, cycle, startedAt, pausedAt>>

Pause ==
  /\ pc = "work" /\ pc' = "wait"
  /\ pausedAt' = IF startedAt # None /\ pausedAt = None THEN now ELSE pausedAt
  /\ UNCHANGED <<now, work, stale, cycle, startedAt>>

(* The start moves forward by the span of the pause.                       *)
Shifted_mutant ==  (* the start moves the wrong way *)
  IF startedAt = None THEN None ELSE startedAt - (now - pausedAt)

Shifted ==
  LET span == now - pausedAt
  IN  IF startedAt = None THEN None ELSE startedAt + (IF span > 0 THEN span ELSE 0)

Resume ==
  /\ pc = "wait" /\ pc' = "work"
  /\ \/ /\ pausedAt # None
        /\ startedAt' = Shifted /\ pausedAt' = None
     \/ /\ pausedAt = None
        /\ UNCHANGED <<startedAt, pausedAt>>
  /\ UNCHANGED <<now, work, stale, cycle>>

(* The end of a tested batch: reset clears both stamps.                    *)
EndBatch ==
  /\ pc = "work" /\ pc' = "select"
  /\ startedAt' = None /\ pausedAt' = None
  /\ UNCHANGED <<now, work, stale, cycle>>

(* A batch that was skipped or had nothing to send: no reset.              *)
DropBatch ==
  /\ pc = "work" /\ pc' = "select"
  /\ UNCHANGED <<now, work, stale, cycle, startedAt, pausedAt>>

(* The driver ends, or it was told to quit: no reset either.               *)
Stop ==
  /\ pc \in {"select", "work"} /\ pc' = "down"
  /\ UNCHANGED <<now, work, stale, cycle, startedAt, pausedAt>>

Crash ==
  /\ pc # "down" /\ pc' = "down"
  /\ UNCHANGED <<now, work, stale, cycle, startedAt, pausedAt>>

Minute ==
  /\ now < MaxTime
  /\ now' = now + 1
  /\ work' = IF pc = "work" THEN work + 1 ELSE work
  /\ UNCHANGED <<pc, stale, cycle, startedAt, pausedAt>>

(* The cycles are used up and the model looks no further.                  *)
Idle == pc = "down" /\ cycle > MaxCycles /\ now = MaxTime /\ UNCHANGED vars

Next ==
  \/ Launch \/ Tick \/ Pause \/ Resume \/ EndBatch \/ DropBatch \/ Stop
  \/ Crash \/ Minute \/ Idle

Spec == Init /\ [][Next]_vars
-----------------------------------------------------------------------------
TypeOK ==
  /\ pc \in {"down", "select", "work", "wait"}
  /\ now \in Nat /\ work \in Nat /\ cycle \in Nat
  /\ stale \in BOOLEAN
  /\ startedAt \in Nat \cup {None}
  /\ pausedAt \in Nat \cup {None}

InCycle == pc \in {"work", "wait"}

(* The clock never shows more than the automatic work of the cycle, so no  *)
(* patch is refused because a person was slow, and this even after crashes *)
(* that left stamps behind.                                                *)
NoFalseAlarm == InCycle => startedAt # None /\ Elapsed <= work

(* In a cycle that did not begin with the stamp of a killed process it     *)
(* shows exactly that work, so a cycle that works too long is caught.      *)
ClockMeasuresWork == InCycle /\ ~stale => startedAt # None /\ Elapsed = work

(* While the driver waits for an answer, time alone changes no verdict of  *)
(* check: BUDGET_EXCEEDED only ever begins during automatic work.          *)
NothingExpiresInAWait == [][pc = "wait" /\ pc' = "wait" => check' = check]_vars
=============================================================================
