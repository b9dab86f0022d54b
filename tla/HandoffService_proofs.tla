----------------------- MODULE HandoffService_proofs -----------------------
(***************************************************************************)
(* Theorems about HandoffService, for any runs, directories, plan and      *)
(* bounds, as long as nobody posts a second run for a state directory and  *)
(* no two directories share a handoff folder.                              *)
(***************************************************************************)
EXTENDS HandoffService, TLAPS

(* Of two threads that live, no two work on the same directory.            *)
Exclusive ==
  \A r, s \in Runs : Live(r) /\ Live(s) /\ dirOf[r] = dirOf[s] => r = s

(* COVAGENT_IDE_DIR does not lead two state directories to one folder.     *)
OwnFolder == \A d, e \in Dirs : IdeDir[d] = IdeDir[e] => d = e

(* A request has the number of a cycle that began; while a thread has not  *)
(* asked, its cycle has none.                                              *)
Numbered ==
  /\ \A d \in Dirs : \A x \in requests[IdeDir[d]] \union responses[IdeDir[d]] : x.id[2] <= exec[d].cycle
  /\ \A r \in Runs : pc[r] \in {"select", "ask"} =>
       \A x \in requests[Folder(r)] \union responses[Folder(r)] : x.id[2] < exec[dirOf[r]].cycle

(* What lies in the directory under the name a thread waits for is about   *)
(* the target of the thread, and so is what it took away.                  *)
Addressed ==
  \A r \in Runs :
    /\ pc[r] \in {"pause", "pausing", "wait"} =>
         \A x \in requests[Folder(r)] \union responses[Folder(r)] : x.id = rid[r] => x.for = target[r]
    /\ pc[r] \in {"resume", "resuming", "apply"} /\ answer[r].kind = "valid" =>
         answer[r].for = target[r]

(* While a thread asks and waits, its request lies there and no other is   *)
(* younger.                                                                *)
Newest ==
  /\ \A d \in Dirs : \A q \in requests[d] : q.id[1] <= now
  /\ \A r \in Runs : pc[r] \in {"pause", "pausing", "wait"} =>
       /\ \E q \in requests[Folder(r)] : q.id = rid[r]
       /\ \A q \in requests[Folder(r)] :
            q.id # rid[r] => q.id[1] <= rid[r][1] /\ q.id[2] < rid[r][2]

ServiceInv == TypeOK /\ Exclusive /\ NoLostUpdate /\ Numbered /\ Addressed /\ Newest

-----------------------------------------------------------------------------
(* The constants that stand for nothing have the types of what they are not.*)
LEMMA Nothings ==
  /\ NoRid \in Rids /\ Fresh \in States /\ NoAnswer \in Answers
  BY DEF NoRid, Rids, Fresh, States, NoAnswer, Answers

(* What is left of the plan is of the plan.                                *)
LEMMA LeftIsPlanned == ASSUME NEW d, NEW i \in Left(d) PROVE Plan[i] \in Targets
  BY DEF Left, Targets

(* What is written back to execution-state.json is a state.                *)
LEMMA StateWrites ==
  ASSUME NEW s \in States
  PROVE  /\ s.cycle \in Nat
         /\ [s EXCEPT !.cycle = @ + 1] \in States
         /\ [s EXCEPT !.paused = TRUE] \in States /\ [s EXCEPT !.paused = FALSE] \in States
<1>1. s.cycle \in Nat
  BY DEF States
<1>2. [s EXCEPT !.cycle = @ + 1] \in States
  BY <1>1 DEF States
<1>3. [s EXCEPT !.paused = TRUE] \in States /\ [s EXCEPT !.paused = FALSE] \in States
  BY DEF States
<1> QED
  BY <1>1, <1>2, <1>3

(* What a thread takes from its wait is an answer.                         *)
LEMMA AnswerTypes ==
  ASSUME NEW x \in Targets \union {NoTarget}, NEW k \in {"none", "valid", "skip", "failed"}
  PROVE  [for |-> x, kind |-> k] \in Answers
  BY DEF Answers

(* Every step keeps the types.                                             *)
LEMMA TypeStep == TypeOK /\ [Next]_vars => TypeOK'
<1> SUFFICES ASSUME TypeOK, [Next]_vars PROVE TypeOK'
  OBVIOUS
<1> USE ServiceAssumption, Nothings, LeftIsPlanned DEF TypeOK, Steps, Folder, locals, files, rest
<1>1. ASSUME NEW t \in Runs, Post(t) PROVE TypeOK'
  BY <1>1 DEF Post, StartRun
<1>2. ASSUME NEW t \in Runs, TickLoad(t) PROVE TypeOK'
  BY <1>2 DEF TickLoad, Load, Goto
<1>3. ASSUME NEW t \in Runs, TickStore(t) PROVE TypeOK'
  BY <1>3, copy[t] \in States, StateWrites DEF TickStore, Store, Goto
<1>4. ASSUME NEW t \in Runs, BudgetStop(t) PROVE TypeOK'
  BY <1>4 DEF BudgetStop, End
<1>5. ASSUME NEW t \in Runs, NoTargets(t) PROVE TypeOK'
  BY <1>5 DEF NoTargets, End
<1>6. ASSUME NEW t \in Runs, Select(t) PROVE TypeOK'
  BY <1>6 DEF Select, Goto
<1>7. ASSUME NEW t \in Runs, Ask(t) PROVE TypeOK'
  <2> exec[dirOf[t]].cycle \in Nat
    BY StateWrites
  <2> <<now, exec[dirOf[t]].cycle>> \in Rids
    BY DEF Rids
  <2> target[t] \in Targets
    BY <1>7 DEF Ask, Goto
  <2> DEFINE new == [id |-> <<now, exec[dirOf[t]].cycle>>, for |-> target[t]]
  <2>0. /\ Folder(t) \in Dirs /\ new \in [id : Rids, for : Targets]
        /\ requests' = [requests EXCEPT ![Folder(t)] = {q \in @ : q.id # new.id} \union {new}]
    BY <1>7 DEF Ask
  <2> HIDE DEF new, Folder
  <2>1. requests' \in [Dirs -> SUBSET [id : Rids, for : Targets]]
    BY <2>0
  <2> QED
    BY <1>7, <2>1 DEF Ask, Goto
<1>8. ASSUME NEW t \in Runs, PauseLoad(t) PROVE TypeOK'
  BY <1>8 DEF PauseLoad, Load, Goto
<1>9. ASSUME NEW t \in Runs, PauseStore(t) PROVE TypeOK'
  BY <1>9, copy[t] \in States, StateWrites DEF PauseStore, Store, Goto
<1>10. ASSUME NEW t \in Runs, Consume(t) PROVE TypeOK'
  <2>1. PICK a \in responses[Folder(t)] :
          /\ requests' = [requests EXCEPT ![Folder(t)] = {q \in @ : q.id # rid[t]}]
          /\ responses' = [responses EXCEPT ![Folder(t)] = {b \in @ : b.id # rid[t]}]
          /\ Leave(t, [for |-> a.for, kind |-> "valid"])
    BY <1>10 DEF Consume
  <2>0. a.for \in Targets \union {NoTarget}
    BY <2>1
  <2>2. [for |-> a.for, kind |-> "valid"] \in Answers
    BY <2>0, AnswerTypes
  <2> QED
    BY <2>1, <2>2 DEF Leave, Goto
<1>11. ASSUME NEW t \in Runs, Refuse(t) PROVE TypeOK'
  <2>1. [for |-> NoTarget, kind |-> "failed"] \in Answers
    BY AnswerTypes
  <2> QED
    BY <1>11, <2>1 DEF Refuse, Leave, Goto
<1>12. ASSUME NEW t \in Runs, Timeout(t) PROVE TypeOK'
  <2>1. [for |-> NoTarget, kind |-> "failed"] \in Answers
    BY AnswerTypes
  <2> QED
    BY <1>12, <2>1 DEF Timeout, Leave, Goto
<1>13. ASSUME NEW t \in Runs, ResumeLoad(t) PROVE TypeOK'
  BY <1>13 DEF ResumeLoad, Load, Goto
<1>14. ASSUME NEW t \in Runs, ResumeStore(t) PROVE TypeOK'
  BY <1>14, copy[t] \in States, StateWrites DEF ResumeStore, Store, Goto
<1>15. ASSUME NEW t \in Runs, ProviderFails(t) PROVE TypeOK'
  BY <1>15 DEF ProviderFails, End
<1>16. ASSUME NEW t \in Runs, Apply(t) PROVE TypeOK'
  BY <1>16 DEF Apply, Goto
<1>17. ASSUME NEW t \in Runs, MarkLoad(t) PROVE TypeOK'
  BY <1>17 DEF MarkLoad, Goto
<1>18. ASSUME NEW t \in Runs, MarkStore(t) PROVE TypeOK'
  <2>1. target[t] \in Targets
    BY <1>18 DEF MarkStore, Goto
  <2>2. doneCopy[t] \union {target[t]} \in SUBSET Targets
    BY <2>1
  <2> QED
    BY <1>18, <2>2 DEF MarkStore, Goto
<1>19. ASSUME NEW t \in Runs, ResetLoad(t) PROVE TypeOK'
  BY <1>19 DEF ResetLoad, Load, Goto
<1>20. ASSUME NEW t \in Runs, ResetStore(t) PROVE TypeOK'
  BY <1>20, copy[t] \in States, StateWrites DEF ResetStore, Store, Goto
<1>21. ASSUME NEW t \in Runs, Again(t) PROVE TypeOK'
  <2>1. CASE Goto(t, "again", "tick") /\ UNCHANGED <<registry, locals, files, rest>>
    BY <2>1 DEF Goto
  <2>2. CASE End(t, "done")
    BY <2>2 DEF End
  <2> QED
    BY <1>21, <2>1, <2>2 DEF Again
<1>22. ASSUME NEW t \in Runs, Skip(t) PROVE TypeOK'
  <2>1. [for |-> target[t], kind |-> "skip"] \in Answers
    BY AnswerTypes
  <2> QED
    BY <1>22, <2>1 DEF Skip, Leave, Goto
<1>23. ASSUME NEW d \in Dirs, BeginAnswer(d) PROVE TypeOK'
  BY <1>23 DEF BeginAnswer
<1>24. ASSUME NEW d \in Dirs, FinishAnswer(d) PROVE TypeOK'
  <2>1. PICK a \in responses[d], text \in {"valid", "invalid"} :
          responses' = [responses EXCEPT ![d] = (@ \ {a}) \union {[a EXCEPT !.text = text]}]
    BY <1>24 DEF FinishAnswer
  <2>2. [a EXCEPT !.text = text] \in [id : Rids, for : Targets, text : {"half", "valid", "invalid"}]
    OBVIOUS
  <2> QED
    BY <1>24, <2>1, <2>2 DEF FinishAnswer
<1>25. CASE Restart
  BY <1>25 DEF Restart
<1>26. CASE Second
  BY <1>26 DEF Second
<1>27. CASE UNCHANGED vars
  BY <1>27 DEF vars
<1> QED
  BY <1>1, <1>2, <1>3, <1>4, <1>5, <1>6, <1>7, <1>8, <1>9, <1>10, <1>11, <1>12,
     <1>13, <1>14, <1>15, <1>16, <1>17, <1>18, <1>19, <1>20, <1>21, <1>22, <1>23, <1>24, <1>25, <1>26, <1>27 DEF Next, Thread

(* Nobody posts a second run for a directory.                              *)
LEMMA ExclusiveStep == TypeOK /\ OneRunPerDir /\ Exclusive /\ [Next]_vars => Exclusive'
<1> SUFFICES ASSUME TypeOK, OneRunPerDir, Exclusive, [Next]_vars PROVE Exclusive'
  OBVIOUS
<1> USE DEF Exclusive, Live, TypeOK, locals, files, rest
<1>1. ASSUME NEW t \in Runs, Post(t) PROVE Exclusive'
  BY <1>1 DEF Post, StartRun
<1>2. ASSUME NEW t \in Runs, TickLoad(t) PROVE Exclusive'
  BY <1>2 DEF TickLoad, Load, Goto
<1>3. ASSUME NEW t \in Runs, TickStore(t) PROVE Exclusive'
  BY <1>3 DEF TickStore, Store, Goto
<1>4. ASSUME NEW t \in Runs, BudgetStop(t) PROVE Exclusive'
  BY <1>4 DEF BudgetStop, End
<1>5. ASSUME NEW t \in Runs, NoTargets(t) PROVE Exclusive'
  BY <1>5 DEF NoTargets, End
<1>6. ASSUME NEW t \in Runs, Select(t) PROVE Exclusive'
  BY <1>6 DEF Select, Goto
<1>7. ASSUME NEW t \in Runs, Ask(t) PROVE Exclusive'
  BY <1>7 DEF Ask, Goto
<1>8. ASSUME NEW t \in Runs, PauseLoad(t) PROVE Exclusive'
  BY <1>8 DEF PauseLoad, Load, Goto
<1>9. ASSUME NEW t \in Runs, PauseStore(t) PROVE Exclusive'
  BY <1>9 DEF PauseStore, Store, Goto
<1>10. ASSUME NEW t \in Runs, Consume(t) PROVE Exclusive'
  BY <1>10 DEF Consume, Leave, Goto
<1>11. ASSUME NEW t \in Runs, Refuse(t) PROVE Exclusive'
  BY <1>11 DEF Refuse, Leave, Goto
<1>12. ASSUME NEW t \in Runs, Timeout(t) PROVE Exclusive'
  BY <1>12 DEF Timeout, Leave, Goto
<1>13. ASSUME NEW t \in Runs, ResumeLoad(t) PROVE Exclusive'
  BY <1>13 DEF ResumeLoad, Load, Goto
<1>14. ASSUME NEW t \in Runs, ResumeStore(t) PROVE Exclusive'
  BY <1>14 DEF ResumeStore, Store, Goto
<1>15. ASSUME NEW t \in Runs, ProviderFails(t) PROVE Exclusive'
  BY <1>15 DEF ProviderFails, End
<1>16. ASSUME NEW t \in Runs, Apply(t) PROVE Exclusive'
  BY <1>16 DEF Apply, Goto
<1>17. ASSUME NEW t \in Runs, MarkLoad(t) PROVE Exclusive'
  BY <1>17 DEF MarkLoad, Goto
<1>18. ASSUME NEW t \in Runs, MarkStore(t) PROVE Exclusive'
  BY <1>18 DEF MarkStore, Goto
<1>19. ASSUME NEW t \in Runs, ResetLoad(t) PROVE Exclusive'
  BY <1>19 DEF ResetLoad, Load, Goto
<1>20. ASSUME NEW t \in Runs, ResetStore(t) PROVE Exclusive'
  BY <1>20 DEF ResetStore, Store, Goto
<1>21. ASSUME NEW t \in Runs, Again(t) PROVE Exclusive'
  BY <1>21 DEF Again, Goto, End
<1>22. ASSUME NEW t \in Runs, Skip(t) PROVE Exclusive'
  BY <1>22 DEF Skip, Leave, Goto
<1>23. ASSUME NEW d \in Dirs, BeginAnswer(d) PROVE Exclusive'
  BY <1>23 DEF BeginAnswer
<1>24. ASSUME NEW d \in Dirs, FinishAnswer(d) PROVE Exclusive'
  BY <1>24 DEF FinishAnswer
<1>25. CASE Restart
  BY <1>25 DEF Restart
<1>26. CASE Second
  BY <1>26 DEF Second
<1>27. CASE UNCHANGED vars
  BY <1>27 DEF vars
<1> QED
  BY <1>1, <1>2, <1>3, <1>4, <1>5, <1>6, <1>7, <1>8, <1>9, <1>10, <1>11, <1>12,
     <1>13, <1>14, <1>15, <1>16, <1>17, <1>18, <1>19, <1>20, <1>21, <1>22, <1>23, <1>24, <1>25, <1>26, <1>27 DEF Next, Thread

(* The thread alone writes the files of its directory.                     *)
LEMMA UpdateStep == TypeOK /\ Exclusive /\ NoLostUpdate /\ [Next]_vars => NoLostUpdate'
<1> SUFFICES ASSUME TypeOK, Exclusive, NoLostUpdate, [Next]_vars PROVE NoLostUpdate'
  OBVIOUS
<1> USE DEF TypeOK, Exclusive, NoLostUpdate, Live, locals, files, rest
<1>1. ASSUME NEW t \in Runs, Post(t) PROVE NoLostUpdate'
  BY <1>1 DEF Post, StartRun
<1>2. ASSUME NEW t \in Runs, TickLoad(t) PROVE NoLostUpdate'
  BY <1>2 DEF TickLoad, Load, Goto
<1>3. ASSUME NEW t \in Runs, TickStore(t) PROVE NoLostUpdate'
  BY <1>3 DEF TickStore, Store, Goto
<1>4. ASSUME NEW t \in Runs, BudgetStop(t) PROVE NoLostUpdate'
  BY <1>4 DEF BudgetStop, End
<1>5. ASSUME NEW t \in Runs, NoTargets(t) PROVE NoLostUpdate'
  BY <1>5 DEF NoTargets, End
<1>6. ASSUME NEW t \in Runs, Select(t) PROVE NoLostUpdate'
  BY <1>6 DEF Select, Goto
<1>7. ASSUME NEW t \in Runs, Ask(t) PROVE NoLostUpdate'
  BY <1>7 DEF Ask, Goto
<1>8. ASSUME NEW t \in Runs, PauseLoad(t) PROVE NoLostUpdate'
  BY <1>8 DEF PauseLoad, Load, Goto
<1>9. ASSUME NEW t \in Runs, PauseStore(t) PROVE NoLostUpdate'
  BY <1>9 DEF PauseStore, Store, Goto
<1>10. ASSUME NEW t \in Runs, Consume(t) PROVE NoLostUpdate'
  BY <1>10 DEF Consume, Leave, Goto
<1>11. ASSUME NEW t \in Runs, Refuse(t) PROVE NoLostUpdate'
  BY <1>11 DEF Refuse, Leave, Goto
<1>12. ASSUME NEW t \in Runs, Timeout(t) PROVE NoLostUpdate'
  BY <1>12 DEF Timeout, Leave, Goto
<1>13. ASSUME NEW t \in Runs, ResumeLoad(t) PROVE NoLostUpdate'
  BY <1>13 DEF ResumeLoad, Load, Goto
<1>14. ASSUME NEW t \in Runs, ResumeStore(t) PROVE NoLostUpdate'
  BY <1>14 DEF ResumeStore, Store, Goto
<1>15. ASSUME NEW t \in Runs, ProviderFails(t) PROVE NoLostUpdate'
  BY <1>15 DEF ProviderFails, End
<1>16. ASSUME NEW t \in Runs, Apply(t) PROVE NoLostUpdate'
  BY <1>16 DEF Apply, Goto
<1>17. ASSUME NEW t \in Runs, MarkLoad(t) PROVE NoLostUpdate'
  BY <1>17 DEF MarkLoad, Goto
<1>18. ASSUME NEW t \in Runs, MarkStore(t) PROVE NoLostUpdate'
  BY <1>18 DEF MarkStore, Goto
<1>19. ASSUME NEW t \in Runs, ResetLoad(t) PROVE NoLostUpdate'
  BY <1>19 DEF ResetLoad, Load, Goto
<1>20. ASSUME NEW t \in Runs, ResetStore(t) PROVE NoLostUpdate'
  BY <1>20 DEF ResetStore, Store, Goto
<1>21. ASSUME NEW t \in Runs, Again(t) PROVE NoLostUpdate'
  BY <1>21 DEF Again, Goto, End
<1>22. ASSUME NEW t \in Runs, Skip(t) PROVE NoLostUpdate'
  BY <1>22 DEF Skip, Leave, Goto
<1>23. ASSUME NEW d \in Dirs, BeginAnswer(d) PROVE NoLostUpdate'
  BY <1>23 DEF BeginAnswer
<1>24. ASSUME NEW d \in Dirs, FinishAnswer(d) PROVE NoLostUpdate'
  BY <1>24 DEF FinishAnswer
<1>25. CASE Restart
  BY <1>25 DEF Restart
<1>26. CASE Second
  BY <1>26 DEF Second
<1>27. CASE UNCHANGED vars
  BY <1>27 DEF vars
<1> QED
  BY <1>1, <1>2, <1>3, <1>4, <1>5, <1>6, <1>7, <1>8, <1>9, <1>10, <1>11, <1>12,
     <1>13, <1>14, <1>15, <1>16, <1>17, <1>18, <1>19, <1>20, <1>21, <1>22, <1>23, <1>24, <1>25, <1>26, <1>27 DEF Next, Thread

(* A tick leaves behind every request there is.                            *)
LEMMA NumberStep == OwnFolder /\ TypeOK /\ Exclusive /\ NoLostUpdate /\ Numbered /\ [Next]_vars => Numbered'
<1> SUFFICES ASSUME OwnFolder, TypeOK, Exclusive, NoLostUpdate, Numbered, [Next]_vars PROVE Numbered'
  OBVIOUS
<1> USE ServiceAssumption DEF OwnFolder, TypeOK, Exclusive, NoLostUpdate, Numbered, Folder, Live, States, locals, files, rest
<1>1. ASSUME NEW t \in Runs, Post(t) PROVE Numbered'
  BY <1>1 DEF Post, StartRun
<1>2. ASSUME NEW t \in Runs, TickLoad(t) PROVE Numbered'
  BY <1>2 DEF TickLoad, Load, Goto
<1>3. ASSUME NEW t \in Runs, TickStore(t) PROVE Numbered'
  <2>1. /\ Goto(t, "ticked", "select")
        /\ exec' = [exec EXCEPT ![dirOf[t]] = [copy[t] EXCEPT !.cycle = @ + 1]]
        /\ UNCHANGED <<registry, locals, done, requests, responses, rest>>
    BY <1>3 DEF TickStore, Store
  <2>2. pc[t] = "ticked" /\ copy[t] = exec[dirOf[t]] /\ exec[dirOf[t]].cycle \in Nat
    BY <2>1 DEF Goto
  <2>3. exec'[dirOf[t]].cycle = exec[dirOf[t]].cycle + 1
    BY <2>1, <2>2
  <2>c. \A d \in Dirs : exec[d].cycle \in Nat /\ \A x \in requests[IdeDir[d]] \union responses[IdeDir[d]] : x.id[2] \in Nat
    BY DEF Rids
  <2>4. \A d \in Dirs : d # dirOf[t] => exec'[d] = exec[d]
    BY <2>1
  <2>5. \A d \in Dirs : \A x \in requests'[IdeDir[d]] \union responses'[IdeDir[d]] : x.id[2] <= exec'[d].cycle
    BY <2>1, <2>3, <2>4, <2>c
  <2>6. ASSUME NEW r \in Runs, pc'[r] \in {"select", "ask"}
        PROVE  \A x \in requests'[IdeDir[dirOf'[r]]] \union responses'[IdeDir[dirOf'[r]]] : x.id[2] < exec'[dirOf'[r]].cycle
    <3>1. CASE r = t
      BY <2>1, <2>3, <2>c, <3>1
    <3>2. CASE r # t
      <4>1. pc'[r] = pc[r] /\ dirOf' = dirOf
        BY <2>1, <3>2 DEF Goto
      <4>2. dirOf[r] # dirOf[t]
        BY <2>2, <2>6, <3>2, <4>1
      <4> QED
        BY <2>1, <2>4, <2>6, <4>1, <4>2
    <3> QED
      BY <3>1, <3>2
  <2> QED
    BY <2>5, <2>6
<1>4. ASSUME NEW t \in Runs, BudgetStop(t) PROVE Numbered'
  BY <1>4 DEF BudgetStop, End
<1>5. ASSUME NEW t \in Runs, NoTargets(t) PROVE Numbered'
  BY <1>5 DEF NoTargets, End
<1>6. ASSUME NEW t \in Runs, Select(t) PROVE Numbered'
  BY <1>6 DEF Select, Goto
<1>7. ASSUME NEW t \in Runs, Ask(t) PROVE Numbered'
  <2> DEFINE new == [id |-> <<now, exec[dirOf[t]].cycle>>, for |-> target[t]]
  <2>1. /\ Goto(t, "ask", "pause")
        /\ requests' = [requests EXCEPT ![Folder(t)] = {q \in @ : q.id # new.id} \union {new}]
        /\ rid' = [rid EXCEPT ![t] = new.id]
        /\ UNCHANGED <<registry, target, copy, doneCopy, answer, exec, done, responses, rest>>
    BY <1>7 DEF Ask
  <2>2. new.id[2] = exec[dirOf[t]].cycle /\ new.for = target[t]
    OBVIOUS
  <2>3. \A d \in Dirs : requests'[IdeDir[d]] \subseteq
                           requests[IdeDir[d]] \union (IF d = dirOf[t] THEN {new} ELSE {})
    BY <2>1
  <2>c. \A d \in Dirs : exec[d].cycle \in Nat
    OBVIOUS
  <2> HIDE DEF new
  <2>4. \A d \in Dirs : \A x \in requests'[IdeDir[d]] \union responses'[IdeDir[d]] : x.id[2] <= exec'[d].cycle
    BY <2>1, <2>2, <2>3, <2>c
  <2>5. ASSUME NEW r \in Runs, pc'[r] \in {"select", "ask"}
        PROVE  \A x \in requests'[IdeDir[dirOf'[r]]] \union responses'[IdeDir[dirOf'[r]]] : x.id[2] < exec'[dirOf'[r]].cycle
    <3>1. r # t /\ pc[r] = pc'[r] /\ pc[t] = "ask"
      BY <2>1, <2>5 DEF Goto
    <3>2. dirOf[r] # dirOf[t] /\ dirOf' = dirOf
      BY <2>1, <2>5, <3>1
    <3> QED
      BY <2>1, <2>3, <2>5, <3>1, <3>2
  <2> QED
    BY <2>4, <2>5
<1>8. ASSUME NEW t \in Runs, PauseLoad(t) PROVE Numbered'
  BY <1>8 DEF PauseLoad, Load, Goto
<1>9. ASSUME NEW t \in Runs, PauseStore(t) PROVE Numbered'
  BY <1>9 DEF PauseStore, Store, Goto
<1>10. ASSUME NEW t \in Runs, Consume(t) PROVE Numbered'
  BY <1>10 DEF Consume, Leave, Goto
<1>11. ASSUME NEW t \in Runs, Refuse(t) PROVE Numbered'
  BY <1>11 DEF Refuse, Leave, Goto
<1>12. ASSUME NEW t \in Runs, Timeout(t) PROVE Numbered'
  BY <1>12 DEF Timeout, Leave, Goto
<1>13. ASSUME NEW t \in Runs, ResumeLoad(t) PROVE Numbered'
  BY <1>13 DEF ResumeLoad, Load, Goto
<1>14. ASSUME NEW t \in Runs, ResumeStore(t) PROVE Numbered'
  BY <1>14 DEF ResumeStore, Store, Goto
<1>15. ASSUME NEW t \in Runs, ProviderFails(t) PROVE Numbered'
  BY <1>15 DEF ProviderFails, End
<1>16. ASSUME NEW t \in Runs, Apply(t) PROVE Numbered'
  BY <1>16 DEF Apply, Goto
<1>17. ASSUME NEW t \in Runs, MarkLoad(t) PROVE Numbered'
  BY <1>17 DEF MarkLoad, Goto
<1>18. ASSUME NEW t \in Runs, MarkStore(t) PROVE Numbered'
  BY <1>18 DEF MarkStore, Goto
<1>19. ASSUME NEW t \in Runs, ResetLoad(t) PROVE Numbered'
  BY <1>19 DEF ResetLoad, Load, Goto
<1>20. ASSUME NEW t \in Runs, ResetStore(t) PROVE Numbered'
  BY <1>20 DEF ResetStore, Store, Goto
<1>21. ASSUME NEW t \in Runs, Again(t) PROVE Numbered'
  <2>1. CASE Goto(t, "again", "tick") /\ UNCHANGED <<registry, locals, files, rest>>
    BY <2>1 DEF Goto
  <2>2. CASE End(t, "done")
    BY <2>2 DEF End
  <2> QED
    BY <1>21, <2>1, <2>2 DEF Again
<1>22. ASSUME NEW t \in Runs, Skip(t) PROVE Numbered'
  BY <1>22 DEF Skip, Leave, Goto
<1>23. ASSUME NEW d \in Dirs, BeginAnswer(d) PROVE Numbered'
  BY <1>23 DEF BeginAnswer
<1>24. ASSUME NEW d \in Dirs, FinishAnswer(d) PROVE Numbered'
  <2>1. PICK a \in responses[d], text \in {"valid", "invalid"} :
          responses' = [responses EXCEPT ![d] = (@ \ {a}) \union {[a EXCEPT !.text = text]}]
    BY <1>24 DEF FinishAnswer
  <2>2. [a EXCEPT !.text = text].id = a.id /\ [a EXCEPT !.text = text].for = a.for
    OBVIOUS
  <2>3. \A e \in Dirs : \A x \in responses'[e] :
          \E y \in responses[e] : y.id = x.id /\ y.for = x.for
    BY <2>1, <2>2
  <2>4. UNCHANGED <<registry, pc, locals, exec, done, requests, rest>>
    BY <1>24 DEF FinishAnswer
  <2> QED
    BY <2>3, <2>4
<1>25. CASE Restart
  BY <1>25 DEF Restart
<1>26. CASE Second
  BY <1>26 DEF Second
<1>27. CASE UNCHANGED vars
  BY <1>27 DEF vars
<1> QED
  BY <1>1, <1>2, <1>3, <1>4, <1>5, <1>6, <1>7, <1>8, <1>9, <1>10, <1>11, <1>12,
     <1>13, <1>14, <1>15, <1>16, <1>17, <1>18, <1>19, <1>20, <1>21, <1>22, <1>23, <1>24, <1>25, <1>26, <1>27 DEF Next, Thread

(* The name of a request is new to its directory.                          *)
LEMMA AddressStep == OwnFolder /\ TypeOK /\ Exclusive /\ NoLostUpdate /\ Numbered /\ Addressed /\ [Next]_vars => Addressed'
<1> SUFFICES ASSUME OwnFolder, TypeOK, Exclusive, NoLostUpdate, Numbered, Addressed, [Next]_vars PROVE Addressed'
  OBVIOUS
<1> USE ServiceAssumption DEF OwnFolder, TypeOK, Exclusive, Numbered, Addressed, Folder, Live, States, Rids, locals, files, rest
<1>1. ASSUME NEW t \in Runs, Post(t) PROVE Addressed'
  BY <1>1 DEF Post, StartRun
<1>2. ASSUME NEW t \in Runs, TickLoad(t) PROVE Addressed'
  BY <1>2 DEF TickLoad, Load, Goto
<1>3. ASSUME NEW t \in Runs, TickStore(t) PROVE Addressed'
  BY <1>3 DEF TickStore, Store, Goto
<1>4. ASSUME NEW t \in Runs, BudgetStop(t) PROVE Addressed'
  BY <1>4 DEF BudgetStop, End
<1>5. ASSUME NEW t \in Runs, NoTargets(t) PROVE Addressed'
  BY <1>5 DEF NoTargets, End
<1>6. ASSUME NEW t \in Runs, Select(t) PROVE Addressed'
  BY <1>6 DEF Select, Goto
<1>7. ASSUME NEW t \in Runs, Ask(t) PROVE Addressed'
  <2> DEFINE new == [id |-> <<now, exec[dirOf[t]].cycle>>, for |-> target[t]]
  <2>1. /\ Goto(t, "ask", "pause")
        /\ requests' = [requests EXCEPT ![Folder(t)] = {q \in @ : q.id # new.id} \union {new}]
        /\ rid' = [rid EXCEPT ![t] = new.id]
        /\ UNCHANGED <<registry, target, copy, doneCopy, answer, exec, done, responses, rest>>
    BY <1>7 DEF Ask
  <2>2. new.id[2] = exec[dirOf[t]].cycle /\ new.for = target[t] /\ exec[dirOf[t]].cycle \in Nat
    OBVIOUS
  <2> HIDE DEF new
  <2>3. pc[t] = "ask" /\ \A x \in responses[Folder(t)] : x.id # new.id
    BY <2>1, <2>2 DEF Goto
  <2>4. ASSUME NEW r \in Runs, pc'[r] \in {"pause", "pausing", "wait"}
        PROVE  \A x \in requests'[IdeDir[dirOf'[r]]] \union responses'[IdeDir[dirOf'[r]]] :
                  x.id = rid'[r] => x.for = target'[r]
    <3>1. CASE r = t
      BY <2>1, <2>2, <2>3, <3>1
    <3>2. CASE r # t
      <4>1. pc'[r] = pc[r] /\ rid'[r] = rid[r] /\ target'[r] = target[r] /\ dirOf' = dirOf
        BY <2>1, <3>2 DEF Goto
      <4>2. dirOf[r] # dirOf[t]
        BY <2>3, <2>4, <3>2, <4>1
      <4>3. requests'[Folder(r)] = requests[Folder(r)] /\ responses' = responses
        BY <2>1, <4>2
      <4> QED
        BY <2>4, <4>1, <4>3
    <3> QED
      BY <3>1, <3>2
  <2>5. ASSUME NEW r \in Runs, pc'[r] \in {"resume", "resuming", "apply"}, answer'[r].kind = "valid"
        PROVE  answer'[r].for = target'[r]
    BY <2>1, <2>5 DEF Goto
  <2> QED
    BY <2>4, <2>5
<1>8. ASSUME NEW t \in Runs, PauseLoad(t) PROVE Addressed'
  BY <1>8 DEF PauseLoad, Load, Goto
<1>9. ASSUME NEW t \in Runs, PauseStore(t) PROVE Addressed'
  BY <1>9 DEF PauseStore, Store, Goto
<1>10. ASSUME NEW t \in Runs, Consume(t) PROVE Addressed'
  BY <1>10 DEF Consume, Leave, Goto
<1>11. ASSUME NEW t \in Runs, Refuse(t) PROVE Addressed'
  BY <1>11 DEF Refuse, Leave, Goto
<1>12. ASSUME NEW t \in Runs, Timeout(t) PROVE Addressed'
  BY <1>12 DEF Timeout, Leave, Goto
<1>13. ASSUME NEW t \in Runs, ResumeLoad(t) PROVE Addressed'
  BY <1>13 DEF ResumeLoad, Load, Goto
<1>14. ASSUME NEW t \in Runs, ResumeStore(t) PROVE Addressed'
  BY <1>14 DEF ResumeStore, Store, Goto
<1>15. ASSUME NEW t \in Runs, ProviderFails(t) PROVE Addressed'
  BY <1>15 DEF ProviderFails, End
<1>16. ASSUME NEW t \in Runs, Apply(t) PROVE Addressed'
  BY <1>16 DEF Apply, Goto
<1>17. ASSUME NEW t \in Runs, MarkLoad(t) PROVE Addressed'
  BY <1>17 DEF MarkLoad, Goto
<1>18. ASSUME NEW t \in Runs, MarkStore(t) PROVE Addressed'
  BY <1>18 DEF MarkStore, Goto
<1>19. ASSUME NEW t \in Runs, ResetLoad(t) PROVE Addressed'
  BY <1>19 DEF ResetLoad, Load, Goto
<1>20. ASSUME NEW t \in Runs, ResetStore(t) PROVE Addressed'
  BY <1>20 DEF ResetStore, Store, Goto
<1>21. ASSUME NEW t \in Runs, Again(t) PROVE Addressed'
  BY <1>21 DEF Again, Goto, End
<1>22. ASSUME NEW t \in Runs, Skip(t) PROVE Addressed'
  BY <1>22 DEF Skip, Leave, Goto
<1>23. ASSUME NEW d \in Dirs, BeginAnswer(d) PROVE Addressed'
  BY <1>23 DEF BeginAnswer
<1>24. ASSUME NEW d \in Dirs, FinishAnswer(d) PROVE Addressed'
  <2>1. PICK a \in responses[d], text \in {"valid", "invalid"} :
          responses' = [responses EXCEPT ![d] = (@ \ {a}) \union {[a EXCEPT !.text = text]}]
    BY <1>24 DEF FinishAnswer
  <2>2. [a EXCEPT !.text = text].id = a.id /\ [a EXCEPT !.text = text].for = a.for
    OBVIOUS
  <2>3. \A e \in Dirs : \A x \in responses'[e] :
          \E y \in responses[e] : y.id = x.id /\ y.for = x.for
    BY <2>1, <2>2
  <2>4. UNCHANGED <<registry, pc, locals, exec, done, requests, rest>>
    BY <1>24 DEF FinishAnswer
  <2> QED
    BY <2>3, <2>4
<1>25. CASE Restart
  BY <1>25 DEF Restart
<1>26. CASE Second
  BY <1>26 DEF Second
<1>27. CASE UNCHANGED vars
  BY <1>27 DEF vars
<1> QED
  BY <1>1, <1>2, <1>3, <1>4, <1>5, <1>6, <1>7, <1>8, <1>9, <1>10, <1>11, <1>12,
     <1>13, <1>14, <1>15, <1>16, <1>17, <1>18, <1>19, <1>20, <1>21, <1>22, <1>23, <1>24, <1>25, <1>26, <1>27 DEF Next, Thread

(* A thread asks with the number of the present cycle, at the present      *)
(* second; whoever else asks does so in another folder.                    *)
LEMMA NewestStep ==
  OwnFolder /\ TypeOK /\ Exclusive /\ Numbered /\ Newest /\ [Next]_vars => Newest'
<1> SUFFICES ASSUME OwnFolder, TypeOK, Exclusive, Numbered, Newest, [Next]_vars PROVE Newest'
  OBVIOUS
<1> USE ServiceAssumption DEF OwnFolder, TypeOK, Exclusive, Numbered, Newest, Folder, Live, States, Rids, locals, files, rest
<1>1. ASSUME NEW t \in Runs, Post(t) PROVE Newest'
  BY <1>1 DEF Post, StartRun
<1>2. ASSUME NEW t \in Runs, TickLoad(t) PROVE Newest'
  BY <1>2 DEF TickLoad, Load, Goto
<1>3. ASSUME NEW t \in Runs, TickStore(t) PROVE Newest'
  BY <1>3 DEF TickStore, Store, Goto
<1>4. ASSUME NEW t \in Runs, BudgetStop(t) PROVE Newest'
  BY <1>4 DEF BudgetStop, End
<1>5. ASSUME NEW t \in Runs, NoTargets(t) PROVE Newest'
  BY <1>5 DEF NoTargets, End
<1>6. ASSUME NEW t \in Runs, Select(t) PROVE Newest'
  BY <1>6 DEF Select, Goto
<1>7. ASSUME NEW t \in Runs, Ask(t) PROVE Newest'
  <2> DEFINE new == [id |-> <<now, exec[dirOf[t]].cycle>>, for |-> target[t]]
  <2>1. /\ Goto(t, "ask", "pause")
        /\ requests' = [requests EXCEPT ![Folder(t)] = {q \in @ : q.id # new.id} \union {new}]
        /\ rid' = [rid EXCEPT ![t] = new.id]
        /\ UNCHANGED <<registry, target, copy, doneCopy, answer, exec, done, responses, rest>>
    BY <1>7 DEF Ask
  <2>2. new.id[1] = now /\ new.id[2] = exec[dirOf[t]].cycle
    OBVIOUS
  <2> HIDE DEF new
  <2>3. pc[t] = "ask" /\ \A q \in requests[Folder(t)] : q.id[1] <= now /\ q.id[2] < new.id[2]
    BY <2>1, <2>2 DEF Goto
  <2>4. \A d \in Dirs : \A q \in requests'[d] : q.id[1] <= now'
    BY <2>1, <2>2
  <2>5. ASSUME NEW r \in Runs, pc'[r] \in {"pause", "pausing", "wait"}
        PROVE  /\ \E q \in requests'[IdeDir[dirOf'[r]]] : q.id = rid'[r]
               /\ \A q \in requests'[IdeDir[dirOf'[r]]] :
                    q.id # rid'[r] => q.id[1] <= rid'[r][1] /\ q.id[2] < rid'[r][2]
    <3>1. CASE r = t
      <4>1. rid'[r] = new.id /\ requests'[IdeDir[dirOf'[r]]] = {q \in requests[Folder(t)] : q.id # new.id} \union {new}
        BY <2>1, <3>1
      <4> QED
        BY <2>2, <2>3, <4>1
    <3>2. CASE r # t
      <4>1. pc'[r] = pc[r] /\ rid'[r] = rid[r] /\ dirOf' = dirOf
        BY <2>1, <3>2 DEF Goto
      <4>2. dirOf[r] # dirOf[t]
        BY <2>3, <2>5, <3>2, <4>1
      <4>3. requests'[Folder(r)] = requests[Folder(r)]
        BY <2>1, <4>2
      <4> QED
        BY <2>5, <4>1, <4>3
    <3> QED
      BY <3>1, <3>2
  <2> QED
    BY <2>4, <2>5
<1>8. ASSUME NEW t \in Runs, PauseLoad(t) PROVE Newest'
  BY <1>8 DEF PauseLoad, Load, Goto
<1>9. ASSUME NEW t \in Runs, PauseStore(t) PROVE Newest'
  BY <1>9 DEF PauseStore, Store, Goto
<1>10. ASSUME NEW t \in Runs, Consume(t) PROVE Newest'
  <2>1. /\ Goto(t, "wait", "resume") /\ rid' = rid /\ dirOf' = dirOf /\ now' = now
        /\ requests' = [requests EXCEPT ![Folder(t)] = {q \in @ : q.id # rid[t]}]
    BY <1>10 DEF Consume, Leave
  <2>2. \A d \in Dirs : \A q \in requests'[d] : q.id[1] <= now'
    BY <2>1
  <2>3. ASSUME NEW r \in Runs, pc'[r] \in {"pause", "pausing", "wait"}
        PROVE  requests'[Folder(r)] = requests[Folder(r)] /\ pc[r] = pc'[r]
    <3>1. r # t /\ pc[r] = pc'[r] /\ pc[t] = "wait"
      BY <2>1, <2>3 DEF Goto
    <3>2. dirOf[r] # dirOf[t]
      BY <2>3, <3>1
    <3> QED
      BY <2>1, <3>1, <3>2
  <2>4. ASSUME NEW r \in Runs, pc'[r] \in {"pause", "pausing", "wait"}
        PROVE  /\ \E q \in requests'[IdeDir[dirOf'[r]]] : q.id = rid'[r]
               /\ \A q \in requests'[IdeDir[dirOf'[r]]] :
                    q.id # rid'[r] => q.id[1] <= rid'[r][1] /\ q.id[2] < rid'[r][2]
    <3>1. requests'[IdeDir[dirOf'[r]]] = requests[Folder(r)] /\ pc[r] \in {"pause", "pausing", "wait"} /\ rid' = rid
      BY <2>1, <2>3, <2>4
    <3> QED
      BY <3>1
  <2> QED
    BY <2>2, <2>4
<1>11. ASSUME NEW t \in Runs, Refuse(t) PROVE Newest'
  BY <1>11 DEF Refuse, Leave, Goto
<1>12. ASSUME NEW t \in Runs, Timeout(t) PROVE Newest'
  BY <1>12 DEF Timeout, Leave, Goto
<1>13. ASSUME NEW t \in Runs, ResumeLoad(t) PROVE Newest'
  BY <1>13 DEF ResumeLoad, Load, Goto
<1>14. ASSUME NEW t \in Runs, ResumeStore(t) PROVE Newest'
  BY <1>14 DEF ResumeStore, Store, Goto
<1>15. ASSUME NEW t \in Runs, ProviderFails(t) PROVE Newest'
  BY <1>15 DEF ProviderFails, End
<1>16. ASSUME NEW t \in Runs, Apply(t) PROVE Newest'
  BY <1>16 DEF Apply, Goto
<1>17. ASSUME NEW t \in Runs, MarkLoad(t) PROVE Newest'
  BY <1>17 DEF MarkLoad, Goto
<1>18. ASSUME NEW t \in Runs, MarkStore(t) PROVE Newest'
  BY <1>18 DEF MarkStore, Goto
<1>19. ASSUME NEW t \in Runs, ResetLoad(t) PROVE Newest'
  BY <1>19 DEF ResetLoad, Load, Goto
<1>20. ASSUME NEW t \in Runs, ResetStore(t) PROVE Newest'
  BY <1>20 DEF ResetStore, Store, Goto
<1>21. ASSUME NEW t \in Runs, Again(t) PROVE Newest'
  <2>1. CASE Goto(t, "again", "tick") /\ UNCHANGED <<registry, locals, files, rest>>
    BY <2>1 DEF Goto
  <2>2. CASE End(t, "done")
    BY <2>2 DEF End
  <2> QED
    BY <1>21, <2>1, <2>2 DEF Again
<1>22. ASSUME NEW t \in Runs, Skip(t) PROVE Newest'
  BY <1>22 DEF Skip, Leave, Goto
<1>23. ASSUME NEW d \in Dirs, BeginAnswer(d) PROVE Newest'
  BY <1>23 DEF BeginAnswer
<1>24. ASSUME NEW d \in Dirs, FinishAnswer(d) PROVE Newest'
  BY <1>24 DEF FinishAnswer
<1>25. CASE Restart
  BY <1>25 DEF Restart
<1>26. CASE Second
  BY <1>26 DEF Second
<1>27. CASE UNCHANGED vars
  BY <1>27 DEF vars
<1> QED
  BY <1>1, <1>2, <1>3, <1>4, <1>5, <1>6, <1>7, <1>8, <1>9, <1>10, <1>11, <1>12,
     <1>13, <1>14, <1>15, <1>16, <1>17, <1>18, <1>19, <1>20, <1>21, <1>22, <1>23, <1>24, <1>25, <1>26, <1>27 DEF Next, Thread

(* What the steps preserve together.                                       *)
LEMMA ServiceInvariant == OneRunPerDir /\ OwnFolder => (Spec => []ServiceInv)
<1> SUFFICES ASSUME OneRunPerDir, OwnFolder PROVE Spec => []ServiceInv
  OBVIOUS
<1>1. Init => ServiceInv
  BY ServiceAssumption, Nothings
     DEF Init, ServiceInv, TypeOK, Steps, Exclusive, Live, NoLostUpdate, Numbered, Addressed, Newest, Folder
<1>2. ServiceInv /\ [Next]_vars => ServiceInv'
  BY TypeStep, ExclusiveStep, UpdateStep, NumberStep, AddressStep, NewestStep DEF ServiceInv
<1> QED
  BY <1>1, <1>2, PTL DEF Spec

(* The state and the record keep their types, whoever runs.                *)
THEOREM TypeCorrect == Spec => []TypeOK
<1>1. Init => TypeOK
  BY ServiceAssumption, Nothings DEF Init, TypeOK, Steps
<1> QED
  BY <1>1, TypeStep, PTL DEF Spec

(* While callers keep to one live run per state directory and directories  *)
(* do not share a folder, a late answer never passes for the answer of     *)
(* another target, although names of requests are made of a second and a   *)
(* cycle.                                                                  *)
THEOREM AnswersMatch == OneRunPerDir /\ OwnFolder => (Spec => []AnswerIsForTarget)
<1> SUFFICES ASSUME OneRunPerDir, OwnFolder PROVE Spec => []AnswerIsForTarget
  OBVIOUS
<1>1. ServiceInv => AnswerIsForTarget
  BY DEF ServiceInv, Addressed, AnswerIsForTarget
<1> QED
  BY <1>1, ServiceInvariant, PTL

(* Under the same conditions the status of a run that waits shows its own  *)
(* request, up to the ninth cycle, whatever lies in the folder.            *)
THEOREM PendingShown == OneRunPerDir /\ OwnFolder => (Spec => []PendingIsMine)
<1> SUFFICES ASSUME OneRunPerDir, OwnFolder PROVE Spec => []PendingIsMine
  OBVIOUS
<1>1. ASSUME ServiceInv, NEW r \in Runs, pc[r] \in {"pause", "pausing", "wait"}, exec[dirOf[r]].cycle < 10
      PROVE  Pending(dirOf[r]) = {rid[r]}
  <2> DEFINE R == requests[IdeDir[dirOf[r]]]
  <2>1. /\ \A q \in R : q.id \in Nat \X Nat /\ q.id[2] < 10
        /\ \E q \in R : q.id = rid[r]
        /\ \A q \in R : q.id # rid[r] => q.id[1] <= rid[r][1] /\ q.id[2] < rid[r][2]
    <3>1. \A q \in R : q.id \in Nat \X Nat
      BY <1>1, ServiceAssumption DEF ServiceInv, TypeOK, Rids
    <3>2. exec[dirOf[r]].cycle \in Nat /\ \A q \in R : q.id[2] <= exec[dirOf[r]].cycle
      BY <1>1, ServiceAssumption DEF ServiceInv, TypeOK, States, Numbered
    <3>3. \A q \in R : q.id[2] < 10
      BY <1>1, <3>1, <3>2
    <3> QED
      BY <1>1, <3>1, <3>3 DEF ServiceInv, Newest, Folder
  <2> HIDE DEF R
  <2>2. \A q, o \in R : q.id = rid[r] => ~NameBefore(q.id, o.id)
    BY <2>1 DEF NameBefore, Place
  <2>3. \A q \in R : q.id # rid[r] => NameBefore(q.id, rid[r])
    BY <2>1 DEF NameBefore, Place
  <2>4. Pending(dirOf[r]) = {q.id : q \in {p \in R : \A o \in R : ~NameBefore(p.id, o.id)}}
    BY DEF Pending, R
  <2> QED
    BY <2>1, <2>2, <2>3, <2>4
<1>2. ServiceInv => PendingIsMine
  BY <1>1 DEF PendingIsMine
<1> QED
  BY <1>2, ServiceInvariant, PTL
=============================================================================
