-------------------------- MODULE HandoffService --------------------------
(***************************************************************************)
(* The HTTP service (app/main.py): one daemon thread per POST /runs, each  *)
(* driving the cycle graph over a state directory, and the file handoff of *)
(* orchestrator/providers.py through which a thread gets its answers.      *)
(*                                                                         *)
(* The grain is the access to a file: budget_enforcer and one_cycle read a *)
(* JSON file, change the value and write all of it back, so the read and   *)
(* the write are two steps.  What the budget, G8 and the patcher decide    *)
(* inside a cycle is in CycleLoop and PatchApplier; here a cycle that is   *)
(* over goes on or ends.  The agent in the IDE and the clock are external. *)
(***************************************************************************)
EXTENDS Integers, Sequences, FiniteSets

CONSTANTS
  Runs,        (* runIds that POST /runs may hand out                        *)
  Dirs,        (* state directories                                          *)
  Plan,        (* targetIds of batch-plan.json, in order                     *)
  NoTarget,
  MaxCycles,   (* budget.maxCycles                                           *)
  MaxSecond,   (* bound: the last second of the clock                        *)
  MaxRestarts, (* bound: restarts of uvicorn                                 *)
  IdeDir,      (* the directory in whose _llm the handoff of a directory is:
                  its own, or one for all that COVAGENT_IDE_DIR names        *)
  OneRunPerDir (* whether callers keep to one live run per directory         *)

Targets == {Plan[i] : i \in DOMAIN Plan}

ASSUME ServiceAssumption ==
  /\ Plan \in Seq(Targets) /\ NoTarget \notin Targets
  /\ \A i, j \in DOMAIN Plan : Plan[i] = Plan[j] => i = j
  /\ MaxCycles \in Nat /\ MaxSecond \in Nat /\ MaxRestarts \in Nat
  /\ IdeDir \in [Dirs -> Dirs] /\ OneRunPerDir \in BOOLEAN

VARIABLES
  (* the service: _runs, in memory, and the threads it started *)
  registry, dirOf, pc, target, rid, copy, doneCopy, answer,
  (* the state directories: execution-state.json, processed-targets.json,    *)
  (* _llm/request-*, _llm/response-*                                         *)
  exec, done, requests, responses,
  terminal,    (* whether uvicorn was started from a terminal                *)
  now,         (* int(time.time())                                           *)
  restarts

locals == <<target, rid, copy, doneCopy, answer>>
rest == <<dirOf, terminal, now, restarts>>
files == <<exec, done, requests, responses>>
vars == <<registry, pc, locals, files, rest>>

States == [cycle : Nat, paused : BOOLEAN]
Rids == Nat \X Nat                               (* second and cycle; the role is always generation *)
NoRid == <<0, 0>>
Fresh == [cycle |-> 0, paused |-> FALSE]
NoAnswer == [for |-> NoTarget, kind |-> "none"]
Answers == [for : Targets \union {NoTarget}, kind : {"none", "valid", "skip", "failed"}]
Steps == {"off", "tick", "ticked", "select", "ask", "pause", "pausing", "wait", "resume",
          "resuming", "apply", "mark", "marking", "reset", "resetting", "again"}

TypeOK ==
  /\ registry \in [Runs -> {"none", "running", "done", "error"}]
  /\ dirOf \in [Runs -> Dirs] /\ terminal \in BOOLEAN
  /\ pc \in [Runs -> Steps]
  /\ target \in [Runs -> Targets \union {NoTarget}]
  /\ \A r \in Runs : pc[r] \notin {"off", "tick", "ticked", "select"} => target[r] \in Targets
  /\ rid \in [Runs -> Rids]
  /\ copy \in [Runs -> States] /\ doneCopy \in [Runs -> SUBSET Targets]
  /\ answer \in [Runs -> Answers]
  /\ exec \in [Dirs -> States] /\ done \in [Dirs -> SUBSET Targets]
  /\ requests \in [Dirs -> SUBSET [id : Rids, for : Targets]]
  /\ responses \in [Dirs -> SUBSET [id : Rids, for : Targets, text : {"half", "valid", "invalid"}]]
  /\ now \in Nat /\ restarts \in Nat
-----------------------------------------------------------------------------
(* select_next_target: the items that are not in the record, of which it    *)
(* takes the first.                                                         *)
Left(d) == {i \in DOMAIN Plan : Plan[i] \notin done[d]}

Live(r) == pc[r] # "off"

(* config.ide_dir: where the handoff files of a thread are.                 *)
Folder(r) == IdeDir[dirOf[r]]

(* The step of a thread that only moves on.                                 *)
Goto(r, from, to) == pc[r] = from /\ pc' = [pc EXCEPT ![r] = to]

(* _load of budget_enforcer: the whole file, into the thread.               *)
Load(r, from, to) ==
  /\ Goto(r, from, to)
  /\ copy' = [copy EXCEPT ![r] = exec[dirOf[r]]]
  /\ UNCHANGED <<registry, target, rid, doneCopy, answer, files, rest>>

(* atomic_write_json: the whole file, from the thread.                      *)
Store(r, from, to, value) ==
  /\ Goto(r, from, to)
  /\ exec' = [exec EXCEPT ![dirOf[r]] = value]
  /\ UNCHANGED <<registry, locals, done, requests, responses, rest>>

(* run_graph returns or raises: the thread writes its status and is gone.   *)
End(r, status) ==
  /\ pc' = [pc EXCEPT ![r] = "off"]
  /\ registry' = [registry EXCEPT ![r] = status]
  /\ target' = [target EXCEPT ![r] = NoTarget] /\ rid' = [rid EXCEPT ![r] = NoRid]
  /\ copy' = [copy EXCEPT ![r] = Fresh] /\ doneCopy' = [doneCopy EXCEPT ![r] = {}]
  /\ answer' = [answer EXCEPT ![r] = NoAnswer]
  /\ UNCHANGED <<files, rest>>
-----------------------------------------------------------------------------
Init ==
  /\ registry = [r \in Runs |-> "none"] /\ pc = [r \in Runs |-> "off"]
  /\ target = [r \in Runs |-> NoTarget] /\ rid = [r \in Runs |-> NoRid]
  /\ copy = [r \in Runs |-> Fresh]
  /\ doneCopy = [r \in Runs |-> {}] /\ answer = [r \in Runs |-> NoAnswer]
  /\ exec = [d \in Dirs |-> Fresh]
  /\ done = [d \in Dirs |-> {}]
  /\ requests = [d \in Dirs |-> {}] /\ responses = [d \in Dirs |-> {}]
  /\ dirOf \in [Runs -> Dirs] /\ terminal \in BOOLEAN
  /\ now = 0 /\ restarts = 0

(* POST /runs.  Nothing in the code looks for another run of the directory. *)
StartRun(r) ==
  /\ registry[r] = "none" /\ pc[r] = "off"
  /\ registry' = [registry EXCEPT ![r] = "running"]
  /\ pc' = [pc EXCEPT ![r] = "tick"]
  /\ UNCHANGED <<locals, files, rest>>

(* The caller of POST /runs, who may know that a run of the directory lives. *)
Post(r) ==
  /\ OneRunPerDir => \A s \in Runs : dirOf[s] = dirOf[r] => ~Live(s)
  /\ StartRun(r)

(* uvicorn restarts: the registry and the daemon threads are lost.  One of  *)
(* them may have been inside mark_processed, which rewrites the record in   *)
(* place; half a record reads as none.                                      *)
Restart ==
  /\ restarts < MaxRestarts /\ restarts' = restarts + 1
  /\ registry' = [r \in Runs |-> "none"] /\ pc' = [r \in Runs |-> "off"]
  /\ target' = [r \in Runs |-> NoTarget] /\ rid' = [r \in Runs |-> NoRid]
  /\ copy' = [r \in Runs |-> Fresh] /\ doneCopy' = [r \in Runs |-> {}]
  /\ answer' = [r \in Runs |-> NoAnswer]
  /\ \E torn \in SUBSET {r \in Runs : pc[r] = "marking"} :
       done' = [d \in Dirs |-> IF \E r \in torn : dirOf[r] = d THEN {} ELSE done[d]]
  /\ UNCHANGED <<dirOf, terminal, exec, requests, responses, now>>

TickLoad(r) == Load(r, "tick", "ticked")
TickStore(r) == Store(r, "ticked", "select", [copy[r] EXCEPT !.cycle = @ + 1])

(* The budget check after the tick.                                         *)
BudgetStop(r) ==
  /\ pc[r] = "select" /\ exec[dirOf[r]].cycle > MaxCycles
  /\ End(r, "done")

NoTargets(r) ==
  /\ pc[r] = "select" /\ exec[dirOf[r]].cycle <= MaxCycles
  /\ Left(dirOf[r]) = {}
  /\ End(r, "done")

Select(r) ==
  /\ exec[dirOf[r]].cycle <= MaxCycles
  /\ Goto(r, "select", "ask")
  /\ \E i \in Left(dirOf[r]) : /\ \A j \in Left(dirOf[r]) : i <= j
                               /\ target' = [target EXCEPT ![r] = Plan[i]]
  /\ UNCHANGED <<registry, rid, copy, doneCopy, answer, files, rest>>

Ask_mutant(r) ==
  LET d == Folder(r)
      id == <<now, 0>>
  IN  /\ Goto(r, "ask", "pause")
      /\ rid' = [rid EXCEPT ![r] = id]
      /\ requests' = [requests EXCEPT ![d] = {q \in @ : q.id # id} \union {[id |-> id, for |-> target[r]]}]
      /\ UNCHANGED <<registry, target, copy, doneCopy, answer, exec, done, responses, rest>>

(* IDEProvider.complete writes the request under a name made of the second  *)
(* and the cycle; a request of that name is overwritten.                    *)
Ask(r) ==
  LET d == Folder(r)
      id == <<now, exec[dirOf[r]].cycle>>
  IN  /\ Goto(r, "ask", "pause")
      /\ rid' = [rid EXCEPT ![r] = id]
      /\ requests' = [requests EXCEPT ![d] = {q \in @ : q.id # id} \union {[id |-> id, for |-> target[r]]}]
      /\ UNCHANGED <<registry, target, copy, doneCopy, answer, exec, done, responses, rest>>

PauseLoad(r) == Load(r, "pause", "pausing")

PauseStore(r) == Store(r, "pausing", "wait", [copy[r] EXCEPT !.paused = TRUE])

(* The wait ends with a; the context manager resumes whatever it was.       *)
Leave(r, a) ==
  /\ Goto(r, "wait", "resume")
  /\ answer' = [answer EXCEPT ![r] = a]
  /\ UNCHANGED <<registry, target, rid, copy, doneCopy, exec, done, rest>>

(* _try_consume accepts the response and archives the three files.          *)
Consume(r) ==
  LET d == Folder(r) IN
  \E a \in responses[d] :
    /\ a.id = rid[r] /\ a.text = "valid"
    /\ requests' = [requests EXCEPT ![d] = {q \in @ : q.id # rid[r]}]
    /\ responses' = [responses EXCEPT ![d] = {b \in @ : b.id # rid[r]}]
    /\ Leave(r, [for |-> a.for, kind |-> "valid"])

(* Polling, a response that does not validate, which a half-written one     *)
(* does not, raises ProviderError; the interactive loop asks again.         *)
Refuse(r) ==
  /\ ~terminal
  /\ \E a \in responses[Folder(r)] : a.id = rid[r] /\ a.text # "valid"
  /\ Leave(r, [for |-> NoTarget, kind |-> "failed"])
  /\ UNCHANGED <<requests, responses>>

Timeout_mutant(r) ==
  /\ ~terminal /\ responses[Folder(r)] # {}
  /\ Leave(r, [for |-> NoTarget, kind |-> "failed"])
  /\ UNCHANGED <<requests, responses>>

(* Polling, the deadline passes: the last look at the folder was before.    *)
Timeout(r) ==
  /\ ~terminal
  /\ Leave(r, [for |-> NoTarget, kind |-> "failed"])
  /\ UNCHANGED <<requests, responses>>

(* On a terminal, the user types skip.                                      *)
Skip(r) ==
  /\ terminal
  /\ Leave(r, [for |-> target[r], kind |-> "skip"])
  /\ UNCHANGED <<requests, responses>>

ResumeLoad(r) == Load(r, "resume", "resuming")
ResumeStore(r) == Store(r, "resuming", "apply", [copy[r] EXCEPT !.paused = FALSE])

(* The exception of the provider leaves the graph.                          *)
ProviderFails(r) ==
  /\ pc[r] = "apply" /\ answer[r].kind = "failed"
  /\ End(r, "error")

(* The patcher has its say.  Exit code 2 ends the run, any other marks.     *)
Apply(r) ==
  /\ answer[r].kind # "failed"
  /\ \/ Goto(r, "apply", "mark")
     \/ answer[r].kind = "valid" /\ Goto(r, "apply", "reset")
  /\ UNCHANGED <<registry, locals, files, rest>>

(* mark_processed reads the record and writes it back with the target.      *)
MarkLoad(r) ==
  /\ Goto(r, "mark", "marking")
  /\ doneCopy' = [doneCopy EXCEPT ![r] = done[dirOf[r]]]
  /\ UNCHANGED <<registry, target, rid, copy, answer, files, rest>>

MarkStore(r) ==
  /\ Goto(r, "marking", "reset")
  /\ done' = [done EXCEPT ![dirOf[r]] = doneCopy[r] \union {target[r]}]
  /\ UNCHANGED <<registry, locals, exec, requests, responses, rest>>

(* record_outcome and reset: both write the state they read, reset without  *)
(* the stamps.                                                              *)
ResetLoad(r) == Load(r, "reset", "resetting")
ResetStore(r) == Store(r, "resetting", "again", [copy[r] EXCEPT !.paused = FALSE])

(* The graph goes round, or stops for G8, for the patcher's 2, at its cap.  *)
Again(r) ==
  \/ /\ Goto(r, "again", "tick")
     /\ UNCHANGED <<registry, locals, files, rest>>
  \/ pc[r] = "again" /\ End(r, "done")

Thread(r) ==
  \/ TickLoad(r) \/ TickStore(r) \/ BudgetStop(r) \/ NoTargets(r) \/ Select(r) \/ Ask(r)
  \/ PauseLoad(r) \/ PauseStore(r) \/ Consume(r) \/ Refuse(r) \/ Timeout(r)
  \/ ResumeLoad(r) \/ ResumeStore(r) \/ ProviderFails(r) \/ Apply(r)
  \/ MarkLoad(r) \/ MarkStore(r) \/ ResetLoad(r) \/ ResetStore(r) \/ Again(r)

(* The agent reads a request and writes its response, seen half-written at  *)
(* first and perhaps wrong at the end.  It may be late: a request whose run *)
(* is gone still lies there.                                                *)
BeginAnswer(d) ==
  \E q \in requests[d] :
    /\ \A a \in responses[d] : a.id # q.id
    /\ responses' = [responses EXCEPT ![d] = @ \union {[id |-> q.id, for |-> q.for, text |-> "half"]}]
    /\ UNCHANGED <<registry, pc, locals, exec, done, requests, rest>>

FinishAnswer(d) ==
  \E a \in responses[d], text \in {"valid", "invalid"} :
    /\ a.text # "valid" /\ a.text # text
    /\ responses' = [responses EXCEPT ![d] = (@ \ {a}) \union {[a EXCEPT !.text = text]}]
    /\ UNCHANGED <<registry, pc, locals, exec, done, requests, rest>>

(* The order of file names.  A second always has ten digits; a cycle is not *)
(* padded and a hyphen follows it, so 10 comes before 2: Place is the rank  *)
(* of a cycle below 100 among these texts.                                  *)
Place(n) == IF n < 10 THEN 11 * n ELSE 11 * (n \div 10) + 1 + (n % 10)
NameBefore(a, b) == a[1] < b[1] \/ (a[1] = b[1] /\ Place(a[2]) < Place(b[2]))

Pending_mutant(d) ==
  {q.id : q \in {p \in requests[IdeDir[d]] : \A o \in requests[IdeDir[d]] : ~NameBefore(o.id, p.id)}}

(* _pending_ide_request: the last name of the folder is what GET /runs/{id} *)
(* tells the user to answer, for whatever run.                              *)
Pending(d) ==
  {q.id : q \in {p \in requests[IdeDir[d]] : \A o \in requests[IdeDir[d]] : ~NameBefore(p.id, o.id)}}

Second ==
  /\ now < MaxSecond /\ now' = now + 1
  /\ UNCHANGED <<registry, pc, locals, files, dirOf, terminal, restarts>>

Next ==
  \/ \E r \in Runs : Post(r) \/ Thread(r) \/ Skip(r)
  \/ \E d \in Dirs : BeginAnswer(d) \/ FinishAnswer(d)
  \/ Restart \/ Second

(* A thread is scheduled; nobody has to answer, type, post or restart.      *)
Fairness == \A r \in Runs : WF_vars(Thread(r))

Spec == Init /\ [][Next]_vars /\ Fairness
-----------------------------------------------------------------------------
(* Never two agents on one state file (skills/00-runtime/04-state-and-      *)
(* recovery.md:38): while a thread of the service is between the read and   *)
(* the write of execution-state.json or of processed-targets.json, nobody   *)
(* else writes it, so no tick, no stamp and no processed target is lost.    *)
NoLostUpdate ==
  \A r \in Runs :
    /\ pc[r] \in {"ticked", "pausing", "resuming", "resetting"} => copy[r] = exec[dirOf[r]]
    /\ pc[r] = "marking" => doneCopy[r] = done[dirOf[r]]

(* The answer a thread applies was written for the target it works on, also *)
(* when earlier requests of the directory were given up, timed out or were  *)
(* left by a restart and are answered late.                                 *)
AnswerIsForTarget ==
  \A r \in Runs : pc[r] = "apply" /\ answer[r].kind = "valid" => answer[r].for = target[r]

(* While a run waits, the request that GET /runs/{id} shows is the one it   *)
(* waits for, whatever earlier runs and cycles left in the folder: given    *)
(* up, timed out, answered too late or orphaned by a restart.  Claimed for  *)
(* the cycles whose numbers have one digit.                                 *)
PendingIsMine ==
  \A r \in Runs :
    pc[r] \in {"pause", "pausing", "wait"} /\ exec[dirOf[r]].cycle < 10 => Pending(dirOf[r]) = {rid[r]}

(* A run that was posted comes to an end without anybody's help, when the   *)
(* service has no terminal: the agent may answer, wrongly or never.         *)
PolledRunEnds ==
  \A r \in Runs : registry[r] = "running" /\ ~terminal ~> registry[r] # "running"
=============================================================================
