--------------------------- MODULE Pipeline_proofs ---------------------------
(***************************************************************************)
(* Theorems about Pipeline, for any classes, arguments, failures, kills    *)
(* and changes of the repository.                                          *)
(***************************************************************************)
EXTENDS Pipeline, TLAPS

Signatures == [classes : [Classes -> Nat], sut : Classes \union {None}]

(* The part of the types the argument needs.                               *)
Types ==
  /\ sources \in [Classes -> Versions] /\ classfiles \in [Classes -> Versions]
  /\ contracts \in [Classes -> Contract \union {None}]
  /\ cache["bytecode"] \in Signatures \union {None}
  /\ DOMAIN cache = Cacheable /\ DOMAIN entries = Cacheable /\ request.sut \in Classes \union {None}

(* A stamp names a version: what was compiled is older than the source or   *)
(* the same.                                                               *)
Stamped ==
  \A c \in Classes : /\ classfiles[c].stamp <= sources[c].stamp
                     /\ classfiles[c].stamp = sources[c].stamp => classfiles[c] = sources[c]

(* What a process remembers of the cache is what the file says, or nothing. *)
Remembered == entries["bytecode"] \in {None, cache["bytecode"]}

(* The signature taken before the scanner ran is of the arguments the       *)
(* scanner got.                                                            *)
Scanning == step = "bytecode" /\ phase \in {"run", "commit"}
PendingScan == Scanning => pending \in Signatures /\ pending.sut = request.sut

(* No signature is of files that are not there yet.                        *)
Past(s) == s # None => \A c \in Classes : s.classes[c] <= classfiles[c].stamp
PastOnly == Past(cache["bytecode"]) /\ (Scanning => Past(pending))

(* A full signature of the files as they are vouches for the contracts; so  *)
(* does the one about to be committed; what the scanner left out is         *)
(* excepted.                                                               *)
Current == \A c \in Classes \ skipped : contracts[c] # None /\ contracts[c].api = classfiles[c].api
Vouched ==
  /\ cache["bytecode"] = BytecodeSignature(None) => Current
  /\ step = "bytecode" /\ phase = "commit" /\ pending = BytecodeSignature(None) => Current

ScanInv == Types /\ Stamped /\ Remembered /\ PendingScan /\ PastOnly /\ Vouched
-----------------------------------------------------------------------------
(* What becomes of the process when a step is over: it goes to the next     *)
(* one, where a cacheable step begins with a look, or it is gone.          *)
MovesOn ==
  /\ step' \in Cacheable => phase' = "look"
  /\ entries' \in {entries, [s \in Cacheable |-> None]}
  /\ request' \in {request, NoRequest}

LEMMA EndMoves == ASSUME NEW how, End(how) PROVE MovesOn
  BY DEF End, MovesOn

LEMMA GoOnMoves == ASSUME NEW code, GoOn(code) PROVE MovesOn
<1>1. CASE Following(step) = "idle"
  BY <1>1, EndMoves DEF GoOn
<1>2. CASE Following(step) # "idle"
  BY <1>2 DEF GoOn, MovesOn, Cacheable
<1> QED
  BY <1>1, <1>2

(* A step that returned moves on, or goes to its commit with what it knew.  *)
LEMMA ReturnMoves ==
  ASSUME NEW ok \in BOOLEAN, Leave(ok)
  PROVE  MovesOn \/ (ok /\ phase' = "commit" /\ UNCHANGED <<step, request, entries, pending>>)
<1>1. CASE ok /\ step \in Cacheable
  BY <1>1 DEF Leave
<1>2. CASE ok /\ step \notin Cacheable
  BY <1>2, GoOnMoves DEF Leave
<1>3. CASE ~ok
  BY <1>3, GoOnMoves, EndMoves DEF Leave
<1> QED
  BY <1>1, <1>2, <1>3

(* A step that leaves alone what the argument is about keeps it, however    *)
(* its process moves on.                                                   *)
LEMMA Elsewhere ==
  ASSUME ScanInv, UNCHANGED <<repository, contracts, cache, skipped>>,
         \/ MovesOn
         \/ step # "bytecode" /\ UNCHANGED <<step, request, entries>>
  PROVE  ScanInv'
<1> USE DEF ScanInv, repository
<1>1. Types'
  BY PipelineAssumption DEF Types, MovesOn, NoRequest
<1>2. Stamped' /\ Remembered' /\ ~Scanning'
  BY DEF Types, Stamped, Remembered, MovesOn, Scanning, Cacheable
<1>3. PendingScan' /\ PastOnly' /\ Vouched'
  BY <1>2 DEF PendingScan, PastOnly, Past, Vouched, Scanning, Current, BytecodeSignature, Stamps
<1> QED
  BY <1>1, <1>2, <1>3

(* The steps that leave the contracts alone.                               *)
OtherTool ==
  \/ Jacoco \/ Snapshot \/ Index \/ Classify \/ Deps \/ Incremental \/ Planning \/ Context
  \/ Validate \/ Handoff

LEMMA OtherTools == ScanInv /\ OtherTool => ScanInv'
<1> SUFFICES ASSUME ScanInv, OtherTool PROVE ScanInv'
  OBVIOUS
<1>1. UNCHANGED <<repository, contracts, cache, skipped>> /\ step # "bytecode"
  BY DEF OtherTool, Jacoco, Snapshot, Index, Classify, Deps, Incremental, Planning, Context,
         Validate, Handoff, At, products, Running, Return
<1>2. (\E ok \in BOOLEAN : Leave(ok)) \/ (\E code : GoOn(code)) \/ (\E how : End(how))
  BY DEF OtherTool, Jacoco, Snapshot, Index, Classify, Deps, Incremental, Planning, Context,
         Validate, Handoff, Running, Return
<1> QED
  BY <1>1, <1>2, ReturnMoves, GoOnMoves, EndMoves, Elsewhere

(* The scanner writes what the class files show at that time, so a full     *)
(* signature of these files goes on vouching.                              *)
LEMMA BytecodeStep == ScanInv /\ Bytecode => ScanInv'
<1> SUFFICES ASSUME ScanInv, Bytecode PROVE ScanInv'
  OBVIOUS
<1> USE DEF ScanInv
<1>1. PICK ok \in BOOLEAN, done \in SUBSET Scanned :
        /\ Leave(ok)
        /\ contracts' = [c \in Classes |-> IF c \in done THEN ScannedContract(c)
                                           ELSE contracts[c]]
        /\ skipped' = (skipped \union (IF ok THEN Scanned ELSE {})) \ done
  BY DEF Bytecode, Running
<1>2. step = "bytecode" /\ phase = "run" /\ UNCHANGED <<sources, classfiles, cache>>
  BY DEF Bytecode, At, Running, repository
<1>3. ASSUME NEW c \in Classes
      PROVE  ScannedContract(c) \in Contract /\ ScannedContract(c) # None
             /\ ScannedContract(c).api = classfiles[c].api
  <2>1. classfiles[c].api \in Nat
    BY DEF Types, Versions
  <2>2. ScannedContract(c) \in [api : Nat, enriched : BOOLEAN]
    BY <2>1 DEF ScannedContract
  <2> QED
    BY <2>2, PipelineAssumption DEF ScannedContract, Contract
<1>4. contracts' \in [Classes -> Contract \union {None}] /\ (Current => Current')
  BY <1>1, <1>2, <1>3 DEF Types, Current
<1>5. MovesOn \/ (ok /\ phase' = "commit" /\ UNCHANGED <<step, request, entries, pending>>)
  BY <1>1, ReturnMoves
<1>6. Types' /\ Stamped' /\ Remembered'
  BY <1>2, <1>4, <1>5, PipelineAssumption
     DEF Types, Stamped, Remembered, MovesOn, NoRequest, Cacheable
<1>7. PendingScan' /\ PastOnly'
  BY <1>2, <1>5 DEF PendingScan, PastOnly, Past, Scanning, MovesOn, Cacheable
<1>8. cache'["bytecode"] = BytecodeSignature(None)' => Current'
  BY <1>2, <1>4 DEF Vouched, BytecodeSignature, Stamps
<1>9. ASSUME step' = "bytecode", phase' = "commit", pending' = BytecodeSignature(None)'
      PROVE  Current'
  <2>1. ok /\ pending' = pending
    BY <1>5, <1>9 DEF MovesOn, Cacheable
  <2>2. pending.sut = None /\ request.sut = None
    BY <1>2, <1>9, <2>1 DEF PendingScan, Scanning, BytecodeSignature
  <2>3. Classes \ skipped' \subseteq done
    BY <1>1, <2>1, <2>2 DEF Scanned
  <2> QED
    BY <1>1, <1>2, <1>3, <2>3 DEF Current
<1> QED
  BY <1>6, <1>7, <1>8, <1>9 DEF Vouched

(* The source extractor adds annotations and no declarations.              *)
LEMMA SourceStep == ScanInv /\ Source => ScanInv'
<1> SUFFICES ASSUME ScanInv, Source PROVE ScanInv'
  OBVIOUS
<1> USE DEF ScanInv
<1>1. PICK ok \in BOOLEAN, done \in SUBSET Known :
        /\ Leave(ok)
        /\ contracts' = [c \in Classes |-> IF c \in done \intersect Annotated
                                           THEN [contracts[c] EXCEPT !.enriched = TRUE]
                                           ELSE contracts[c]]
  BY DEF Source, Return
<1>2. step = "source" /\ UNCHANGED <<sources, classfiles, cache, skipped>>
  BY DEF Source, At, Running, repository
<1>3. ASSUME NEW c \in Known
      PROVE  /\ contracts[c] \in Contract
             /\ [contracts[c] EXCEPT !.enriched = TRUE] \in Contract
             /\ [contracts[c] EXCEPT !.enriched = TRUE].api = contracts[c].api
  BY DEF Known, Types, Contract
<1>4. contracts' \in [Classes -> Contract \union {None}] /\ (Current => Current')
  BY <1>1, <1>2, <1>3, PipelineAssumption DEF Types, Current, Contract
<1>5. MovesOn \/ UNCHANGED <<step, request, entries>>
  BY <1>1, ReturnMoves
<1>6. Types' /\ Stamped' /\ Remembered' /\ ~Scanning'
  BY <1>2, <1>4, <1>5, PipelineAssumption
     DEF Types, Stamped, Remembered, MovesOn, NoRequest, Cacheable, Scanning
<1>7. PendingScan' /\ PastOnly' /\ Vouched'
  BY <1>2, <1>4, <1>6
     DEF PendingScan, PastOnly, Past, Vouched, Scanning, BytecodeSignature, Stamps
<1> QED
  BY <1>6, <1>7

(* A run takes over what the file says, and begins with a look.             *)
LEMMA StartStep == ScanInv /\ Start => ScanInv'
<1> SUFFICES ASSUME ScanInv, Start PROVE ScanInv'
  OBVIOUS
<1> USE DEF ScanInv
<1>1. UNCHANGED <<sources, classfiles, contracts, cache, skipped>> /\ entries' = cache
  BY DEF Start, products, repository, past
<1>2. request'.sut \in Classes \union {None}
  BY PipelineAssumption DEF Start
<1>3. ~Scanning'
  BY DEF Start, Scanning, Cacheable
<1>4. Types' /\ Stamped' /\ Remembered'
  BY <1>1, <1>2 DEF Types, Stamped, Remembered
<1>5. PendingScan' /\ PastOnly' /\ Vouched'
  BY <1>1, <1>3 DEF PendingScan, PastOnly, Past, Vouched, Scanning, Current, BytecodeSignature,
         Stamps
<1> QED
  BY <1>4, <1>5

(* A look takes the signature of the files as they are, or moves on.        *)
LEMMA LookStep == ScanInv /\ Look => ScanInv'
<1> SUFFICES ASSUME ScanInv, Look PROVE ScanInv'
  OBVIOUS
<1>1. UNCHANGED <<repository, contracts, cache, skipped>> /\ phase = "look"
  BY DEF Look, products, past
<1>2. CASE entries[step] # None /\ entries[step] = Signature(step)
  BY <1>1, <1>2, GoOnMoves, Elsewhere DEF Look
<1>3. CASE ~(entries[step] # None /\ entries[step] = Signature(step))
  <2>1. /\ entries' = [entries EXCEPT ![step] = None]
        /\ pending' = Signature(step) /\ phase' = "run" /\ UNCHANGED <<step, request>>
    BY <1>3 DEF Look
  <2> USE DEF ScanInv
  <2>2. UNCHANGED <<sources, classfiles>>
    BY <1>1 DEF repository
  <2>3. Types' /\ Stamped' /\ Remembered'
    BY <1>1, <2>1, <2>2 DEF Types, Stamped, Remembered, Cacheable
  <2>4. ASSUME step = "bytecode"
        PROVE  pending' \in Signatures /\ pending'.sut = request.sut /\ Past(pending)'
    <3>1. pending' = [classes |-> Stamps(classfiles), sut |-> request.sut]
      BY <2>1, <2>4 DEF Signature, BytecodeSignature
    <3>2. Stamps(classfiles) \in [Classes -> Nat]
      BY DEF Types, Versions, Stamps
    <3>3. \A c \in Classes : pending'.classes[c] = classfiles'[c].stamp /\ classfiles'[c].stamp \in Nat
      BY <2>2, <3>1 DEF Stamps, Types, Versions
    <3> QED
      BY <3>1, <3>2, <3>3 DEF Types, Signatures, Past
  <2>5. PendingScan' /\ PastOnly' /\ Vouched'
    BY <1>1, <2>1, <2>2, <2>4
       DEF PendingScan, PastOnly, Past, Vouched, Scanning, Current, BytecodeSignature, Stamps
  <2> QED
    BY <2>3, <2>5
<1> QED
  BY <1>2, <1>3

(* A commit writes the entry of its step and, for the others, what the      *)
(* process remembers.                                                      *)
LEMMA CommitStep == ScanInv /\ Commit => ScanInv'
<1> SUFFICES ASSUME ScanInv, Commit PROVE ScanInv'
  OBVIOUS
<1> USE DEF ScanInv
<1>1. /\ phase = "commit" /\ cache' = [entries EXCEPT ![step] = pending] /\ entries' = cache'
      /\ UNCHANGED <<request, sources, classfiles, contracts, skipped>>
  BY DEF Commit, repository, products, past
<1>2. ~Scanning'
  BY DEF Commit, Scanning, Cacheable, past
<1>3. cache'["bytecode"] = IF step = "bytecode" THEN pending ELSE entries["bytecode"]
  BY <1>1 DEF Types, Cacheable
<1>4. cache'["bytecode"] \in Signatures \union {None} /\ Past(cache'["bytecode"])
  BY <1>1, <1>3 DEF Types, Remembered, PendingScan, PastOnly, Scanning, Past
<1>5. cache'["bytecode"] = BytecodeSignature(None) => Current
  <2>1. None # BytecodeSignature(None)
    BY PipelineAssumption DEF BytecodeSignature, Stamps, Types, Versions
  <2> QED
    BY <1>1, <1>3, <2>1 DEF Vouched, Remembered
<1>6. Types' /\ Stamped' /\ Remembered'
  BY <1>1, <1>4 DEF Types, Stamped, Remembered
<1>7. PendingScan' /\ PastOnly' /\ Vouched'
  BY <1>1, <1>2, <1>4, <1>5
     DEF PendingScan, PastOnly, Past, Vouched, Scanning, Current, BytecodeSignature, Stamps
<1> QED
  BY <1>6, <1>7

(* New class files have new stamps where they differ, and the signatures    *)
(* of the old ones no longer match; an edit or a measurement is not seen.   *)
LEMMA RepositoryStep == ScanInv /\ (Edit \/ Compile \/ Measure) => ScanInv'
<1> SUFFICES ASSUME ScanInv, Edit \/ Compile \/ Measure PROVE ScanInv'
  OBVIOUS
<1> USE DEF ScanInv
<1>1. UNCHANGED <<contracts, cache, step, phase, request, entries, pending, skipped>>
  BY DEF Edit, Compile, Measure, Change, products, process, past
<1>2. /\ sources' \in [Classes -> Versions] /\ classfiles' \in [Classes -> Versions] /\ Stamped'
      /\ \A c \in Classes : /\ classfiles[c].stamp <= classfiles'[c].stamp
                            /\ classfiles'[c].stamp = classfiles[c].stamp => classfiles'[c] = classfiles[c]
  <2>1. CASE Edit
    <3>1. PICK c \in Classes, a \in Nat :
            sources' = [sources EXCEPT ![c] = [stamp |-> sources[c].stamp + 1, api |-> a]]
      <4>1. PICK c \in Classes, declares \in BOOLEAN :
              sources' = [sources EXCEPT ![c] =
                            [stamp |-> sources[c].stamp + 1,
                             api |-> IF declares THEN sources[c].stamp + 1 ELSE sources[c].api]]
        BY <2>1 DEF Edit
      <4>2. (IF declares THEN sources[c].stamp + 1 ELSE sources[c].api) \in Nat
        BY DEF Types, Versions
      <4> QED
        BY <4>1, <4>2
    <3>2. classfiles' = classfiles
      BY <2>1 DEF Edit
    <3> QED
      BY <3>1, <3>2 DEF Types, Versions, Stamped
  <2>2. CASE Compile
    BY <2>2 DEF Compile, Types, Versions, Stamped
  <2>3. CASE Measure
    BY <2>3 DEF Measure, Types, Versions, Stamped
  <2> QED
    BY <2>1, <2>2, <2>3
<1>3. Types' /\ Remembered' /\ PendingScan'
  BY <1>1, <1>2 DEF Types, Remembered, PendingScan, Scanning
<1>4. ASSUME NEW s \in Signatures, Past(s) PROVE Past(s)'
  BY <1>2, <1>4 DEF Past, Signatures, Types, Versions
<1>5. PastOnly'
  BY <1>1, <1>4 DEF PastOnly, Past, Types, PendingScan, Scanning
<1>6. ASSUME NEW s \in Signatures, Past(s), s # None, s = BytecodeSignature(None)'
      PROVE  s = BytecodeSignature(None) /\ (Current => Current')
  <2>1. \A c \in Classes : s.classes[c] = classfiles'[c].stamp
    BY <1>6 DEF BytecodeSignature, Stamps
  <2>2. ASSUME NEW c \in Classes PROVE classfiles'[c].stamp = classfiles[c].stamp
    <3>1. classfiles'[c].stamp <= classfiles[c].stamp
      BY <1>6, <2>1 DEF Past
    <3>2. classfiles[c].stamp \in Nat /\ classfiles'[c].stamp \in Nat
      BY <1>2 DEF Types, Versions
    <3> QED
      BY <1>2, <3>1, <3>2
  <2>3. Stamps(classfiles') = Stamps(classfiles)
    BY <2>2 DEF Stamps
  <2> QED
    BY <1>1, <1>2, <1>6, <2>2, <2>3 DEF BytecodeSignature, Current
<1>7. BytecodeSignature(None)' # None
  BY <1>2, PipelineAssumption DEF BytecodeSignature, Stamps, Versions
<1>8. Vouched'
  BY <1>1, <1>6, <1>7 DEF Vouched, Types, PendingScan, Scanning, PastOnly
<1> QED
  BY <1>2, <1>3, <1>5, <1>8

-----------------------------------------------------------------------------
LEMMA InitScan == Init => ScanInv
<1> SUFFICES ASSUME Init PROVE ScanInv
  OBVIOUS
<1>1. classfiles \in [Classes -> Versions] /\ sources = classfiles
  BY DEF Init, Versions
<1>2. BytecodeSignature(None) # None
  BY <1>1, PipelineAssumption DEF BytecodeSignature, Stamps, Versions
<1>3. cache["bytecode"] = None /\ entries["bytecode"] = None
  BY DEF Init, Cacheable
<1>4. Types /\ Stamped /\ Remembered
  BY <1>1, <1>3 DEF Init, Types, Stamped, Remembered, NoRequest, Versions
<1>5. PendingScan /\ PastOnly /\ Vouched
  BY <1>2, <1>3 DEF Init, PendingScan, PastOnly, Past, Vouched, Scanning
<1> QED
  BY <1>4, <1>5 DEF ScanInv

LEMMA ScanInvariant == Spec => []ScanInv
<1>1. ScanInv /\ [Next]_vars => ScanInv'
  <2> SUFFICES ASSUME ScanInv, [Next]_vars PROVE ScanInv'
    OBVIOUS
  <2>1. CASE OtherTool
    BY <2>1, OtherTools
  <2>2. CASE Start \/ Look \/ Commit \/ Bytecode \/ Source \/ Edit \/ Compile \/ Measure
    BY <2>2, StartStep, LookStep, CommitStep, BytecodeStep, SourceStep, RepositoryStep
  <2>3. CASE Kill
    <3>1. UNCHANGED <<repository, contracts, cache, skipped>>
      BY <2>3 DEF Kill, products
    <3>2. MovesOn
      BY <2>3, EndMoves DEF Kill
    <3> QED
      BY <3>1, <3>2, Elsewhere
  <2>4. CASE UNCHANGED vars
    BY <2>4 DEF vars, repository, products, process, ScanInv, Types, Stamped, Remembered,
           PendingScan, PastOnly, Past, Vouched, Scanning, Current, BytecodeSignature, Stamps,
           past
  <2> QED
    BY <2>1, <2>2, <2>3, <2>4 DEF Next, OtherTool
<1> QED
  BY <1>1, InitScan, PTL DEF Spec

(* When the cache vouches for a full scan of the class files as they are,   *)
(* there is a contract for every class and it shows what the class          *)
(* declares, after any history of edits, builds, failed, partial and killed *)
(* runs.                                                                   *)
THEOREM ContractsVouched == Spec => []ContractsAreCurrent
<1>1. ScanInv => ContractsAreCurrent
  BY DEF ScanInv, Vouched, Current, ContractsAreCurrent
<1> QED
  BY <1>1, ScanInvariant, PTL

-----------------------------------------------------------------------------
(* The other two properties follow the plan and the packs through a run,  *)
(* so they need the place of the process.                                  *)
Steps == {Order[i] : i \in DOMAIN Order}

Placed ==
  /\ step \in Steps \union {"idle"} /\ phase \in {"look", "run", "commit"}
  /\ step \notin Cacheable => phase = IF step = "idle" THEN "look" ELSE "run"
  /\ DOMAIN cache = Cacheable /\ DOMAIN entries = Cacheable
  /\ \A s \in Cacheable : entries[s] \in {None, cache[s]}

(* The run has passed the planning, the making of packs, without an error;  *)
(* this is the class it was asked for.                                     *)
Succeeded == step = "idle" /\ last.ended = "ok"
PlanningDone == (step \in {"validate", "context", "handoff"} /\ rc = 0) \/ Succeeded
PackingDone == (step = "handoff" /\ rc = 0) \/ Succeeded
Asked == IF step = "idle" THEN last.request.sut ELSE request.sut

LEMMA Place ==
  ASSUME NEW i \in 1 .. 14 PROVE (CHOOSE j \in DOMAIN Order : Order[j] = Order[i]) = i
<1>1. DOMAIN Order = 1 .. 14
  BY DEF Order
<1>2. \A j \in 1 .. 14 : Order[j] = Order[i] => j = i
  BY DEF Order
<1> QED
  BY <1>1, <1>2

LEMMA FollowingStep ==
  /\ Following("planning") = "validate" /\ Following("validate") = "context"
  /\ Following("context") = "handoff" /\ Following("handoff") = "idle"
  /\ \A s \in Steps \ {"planning", "validate", "context", "handoff"} :
        Following(s) \in Steps \ {"validate", "context", "handoff"}
<1>1. DOMAIN Order = 1 .. 14 /\ Len(Order) = 14
  BY DEF Order
<1>2. ASSUME NEW i \in 1 .. 14
      PROVE  Following(Order[i]) =
               IF i = 14 THEN "idle"
               ELSE IF Order[i + 1] = "incremental" /\ ~request.since THEN Order[i + 2]
               ELSE Order[i + 1]
  BY <1>1, Place DEF Following
<1>3. /\ Order[11] = "planning" /\ Order[12] = "validate" /\ Order[13] = "context"
      /\ Order[14] = "handoff"
  BY DEF Order
<1>4. /\ Following("planning") = "validate" /\ Following("validate") = "context"
      /\ Following("context") = "handoff" /\ Following("handoff") = "idle"
  BY <1>2, <1>3
<1>5. ASSUME NEW i \in 1 .. 10
      PROVE  Following(Order[i]) \in Steps \ {"validate", "context", "handoff"}
  BY <1>1, <1>2, <1>5 DEF Steps, Order
<1>6. \A s \in Steps \ {"planning", "validate", "context", "handoff"} :
        \E i \in 1 .. 10 : s = Order[i]
  BY <1>1, <1>3 DEF Steps
<1> QED
  BY <1>4, <1>5, <1>6

LEMMA StepNames ==
  /\ "idle" \notin Steps /\ Cacheable \subseteq Steps
  /\ {"jacoco", "bytecode", "planning", "validate", "context", "handoff"} \subseteq Steps
<1>1. DOMAIN Order = 1 .. 14
  BY DEF Order
<1>2. "idle" \notin Steps
  BY <1>1 DEF Steps, Order
<1>3. /\ Order[1] = "jacoco" /\ Order[3] = "bytecode" /\ Order[5] = "source" /\ Order[6] = "index"
      /\ Order[8] = "classification" /\ Order[11] = "planning" /\ Order[12] = "validate"
      /\ Order[13] = "context" /\ Order[14] = "handoff"
  BY DEF Order
<1> QED
  BY <1>1, <1>2, <1>3 DEF Steps, Cacheable

(* Nothing is done that was not done before the step.                      *)
Quiet ==
  /\ PlanningDone' => PlanningDone
  /\ PackingDone' => PackingDone /\ Asked' = Asked

(* Passing a step with a code: what is done then was done before, but for   *)
(* what the step itself stands for.                                        *)
LEMMA Passing ==
  ASSUME Placed, step # "idle", NEW code,
         \/ GoOn(code)
         \/ step \in Cacheable /\ step' = Following(step) /\ code = rc
              /\ UNCHANGED <<request, rc, last>>
  PROVE  /\ PlanningDone' => code = 0 /\ step \in {"planning", "validate", "context", "handoff"}
         /\ PackingDone' => code = 0 /\ step \in {"context", "handoff"} /\ Asked' = request.sut
<1>1. step \in Steps
  BY DEF Placed
<1>2. CASE GoOn(code) /\ Following(step) = "idle"
  <2>1. step = "handoff" /\ step' = "idle"
        /\ last' = [request |-> request, ended |-> IF code = 0 THEN "ok" ELSE "failed"]
    BY <1>1, <1>2, FollowingStep, StepNames DEF GoOn, End
  <2> QED
    BY <2>1 DEF PlanningDone, PackingDone, Succeeded, Asked
<1>3. CASE (GoOn(code) /\ Following(step) # "idle") \/ ~GoOn(code)
  <2>1. step' = Following(step) /\ rc' = code /\ UNCHANGED <<request, last>>
    BY <1>3 DEF GoOn
  <2>2. step' # "idle"
    BY <1>1, <1>3, <2>1, FollowingStep, StepNames DEF Cacheable
  <2>3. step' = "handoff" => step = "context"
    BY <1>1, <2>1, FollowingStep
  <2>4. step' \in {"validate", "context", "handoff"} => step \in {"planning", "validate", "context"}
    BY <1>1, <2>1, FollowingStep
  <2> QED
    BY <2>1, <2>2, <2>3, <2>4 DEF PlanningDone, PackingDone, Succeeded, Asked
<1> QED
  BY <1>2, <1>3

(* Nor does a tool that returns: a success is only counted at the commit.   *)
LEMMA ReturnQuiet ==
  ASSUME Placed, step # "idle", NEW ok \in BOOLEAN, Leave(ok)
  PROVE  Quiet
<1>1. CASE ok /\ step \in Cacheable
  BY <1>1 DEF Leave, Quiet, PlanningDone, PackingDone, Succeeded, Asked
<1>2. CASE ok /\ step \notin Cacheable
  <2>1. GoOn(rc)
    BY <1>2 DEF Leave
  <2>2. /\ PlanningDone' => rc = 0 /\ step \in {"planning", "validate", "context", "handoff"}
        /\ PackingDone' => rc = 0 /\ step \in {"context", "handoff"} /\ Asked' = request.sut
    BY <2>1, Passing
  <2> QED
    BY <1>2, <2>2 DEF Quiet, PlanningDone, PackingDone, Asked, Cacheable
<1>3. CASE ~ok
  <2>1. CASE GoOn(1)
    BY <2>1, Passing DEF Quiet
  <2>2. CASE End("failed")
    BY <2>2 DEF End, Quiet, PlanningDone, PackingDone, Succeeded
  <2> QED
    BY <1>3, <2>1, <2>2 DEF Leave
<1> QED
  BY <1>1, <1>2, <1>3

LEMMA EndQuiet == ASSUME NEW how, how # "ok", End(how) PROVE Quiet
  BY DEF End, Quiet, PlanningDone, PackingDone, Succeeded

-----------------------------------------------------------------------------
(* The place of the process.                                               *)
LEMMA PlacedGoOn == ASSUME Placed, step # "idle", NEW code, GoOn(code), UNCHANGED cache PROVE Placed'
<1>1. step \in Steps /\ Following(step) \in Steps \union {"idle"}
  BY FollowingStep, StepNames DEF Placed
<1>2. CASE Following(step) = "idle"
  BY <1>2, StepNames DEF GoOn, End, Placed, Cacheable
<1>3. CASE Following(step) # "idle"
  BY <1>1, <1>3 DEF GoOn, Placed
<1> QED
  BY <1>2, <1>3

LEMMA PlacedEnd == ASSUME Placed, NEW how, End(how), UNCHANGED cache PROVE Placed'
  BY StepNames DEF End, Placed, Cacheable

LEMMA PlacedReturn ==
  ASSUME Placed, step # "idle", NEW ok \in BOOLEAN, Leave(ok), UNCHANGED cache PROVE Placed'
<1>1. CASE ok /\ step \in Cacheable
  BY <1>1 DEF Leave, Placed
<1>2. CASE ok /\ step \notin Cacheable
  BY <1>2, PlacedGoOn DEF Leave
<1>3. CASE ~ok
  BY <1>3, PlacedGoOn, PlacedEnd DEF Leave
<1> QED
  BY <1>1, <1>2, <1>3

Tool == OtherTool \/ Bytecode \/ Source

LEMMA ToolMoves ==
  ASSUME Placed, Tool
  PROVE  /\ step # "idle" /\ phase = "run" /\ UNCHANGED <<cache, killed>>
         /\ (\E ok \in BOOLEAN : Leave(ok)) \/ (\E code : GoOn(code))
            \/ (\E how \in {"empty", "failed"} : End(how))
  BY DEF Tool, OtherTool, Jacoco, Snapshot, Bytecode, Source, Index, Classify, Deps, Incremental,
         Planning, Context, Validate, Handoff, At, Running, Return

LEMMA PlacedStep == Placed /\ [Next]_vars => Placed'
<1> SUFFICES ASSUME Placed, [Next]_vars PROVE Placed'
  OBVIOUS
<1>1. CASE Tool
  BY <1>1, ToolMoves, PlacedReturn, PlacedGoOn, PlacedEnd
<1>2. CASE Start
  <2>1. step' \in {"jacoco", "bytecode"}
        /\ phase' = (IF step' \in Cacheable THEN "look" ELSE "run")
        /\ entries' = cache /\ UNCHANGED cache
    BY <1>2 DEF Start, past
  <2> QED
    BY <2>1, StepNames DEF Placed
<1>3. CASE Look
  <2>1. CASE entries[step] # None /\ entries[step] = Signature(step)
    BY <1>3, <2>1, PlacedGoOn DEF Look, past
  <2>2. CASE ~(entries[step] # None /\ entries[step] = Signature(step))
    BY <1>3, <2>2 DEF Look, Placed, past
  <2> QED
    BY <2>1, <2>2
<1>4. CASE Commit
  <2>1. step \in Steps /\ Following(step) \in Steps
    BY <1>4, FollowingStep, StepNames DEF Commit, Placed, Cacheable, past
  <2> QED
    BY <1>4, <2>1, StepNames DEF Commit, Placed, past
<1>5. CASE Kill
  BY <1>5, PlacedEnd DEF Kill
<1>6. CASE Edit \/ Compile \/ Measure \/ UNCHANGED vars
  BY <1>6 DEF Edit, Compile, Measure, Change, process, vars, Placed, past
<1> QED
  BY <1>1, <1>2, <1>3, <1>4, <1>5, <1>6 DEF Next, Tool, OtherTool

LEMMA PlacedInit == Init => Placed
  BY DEF Init, Placed, Cacheable

-----------------------------------------------------------------------------
(* How a tool leaves its step.                                             *)
(* A tool that returns with success from a step with a cache entry goes to  *)
(* its commit and nowhere else; every other way out begins a new step.      *)
LEMMA ReturnCommits ==
  ASSUME Placed, step # "idle", NEW ok \in BOOLEAN, Leave(ok)
  PROVE  \/ ok /\ step \in Cacheable /\ phase' = "commit" /\ UNCHANGED <<step, request, pending>>
         \/ (ok => step \notin Cacheable) /\ (step' \in Cacheable => phase' = "look")
<1>1. CASE ok /\ step \in Cacheable
  BY <1>1 DEF Leave
<1>2. CASE ~(ok /\ step \in Cacheable)
  <2>1. (\E code : GoOn(code)) \/ End("failed")
    BY <1>2 DEF Leave
  <2> QED
    BY <1>2, <2>1, GoOnMoves, EndMoves DEF MovesOn
<1> QED
  BY <1>1, <1>2

(* However a tool leaves its step, it has committed nothing.               *)
LEMMA ToolLeaves ==
  ASSUME Placed, Tool
  PROVE  \/ step \in Cacheable /\ phase' = "commit" /\ UNCHANGED <<step, request, pending>>
         \/ step' \in Cacheable => phase' = "look"
  BY ToolMoves, ReturnCommits, GoOnMoves, EndMoves DEF MovesOn

(* The entries of the other steps are what the file said, or nothing.       *)
LEMMA Committed ==
  ASSUME Placed, Commit, NEW s \in Cacheable
  PROVE  /\ step \in Cacheable
         /\ cache'[s] = (IF s = step THEN pending ELSE entries[s])
         /\ s # step => cache'[s] \in {None, cache[s]}
<1>1. step \in Cacheable /\ cache' = [entries EXCEPT ![step] = pending]
  BY DEF Commit, Placed, past
<1> QED
  BY <1>1 DEF Placed

-----------------------------------------------------------------------------
(* The plan.  While it is made its signature is that of the targets it is    *)
(* made from; afterwards the cache says so, up to the end of the run that   *)
(* made or kept it.                                                        *)
MadeFrom(t) == plan.items = {} \/ plan.targets = t

PlanInv ==
  /\ step = "planning" /\ phase \in {"run", "commit"} => pending.targets = targets
  /\ step = "planning" /\ phase = "commit" => plan.targets = targets
  /\ ~killed /\ cache["planning"] # None /\ ~(step = "planning" /\ phase = "commit") =>
       MadeFrom(cache["planning"].targets)
  /\ ~killed /\ PlanningDone => MadeFrom(targets)

(* What does not touch targets, plan and cache and finishes nothing.       *)
LEMMA PlanAside ==
  ASSUME PlanInv, UNCHANGED <<cache, targets, plan>>, killed => killed', Quiet,
         step' = "planning" => phase' = "look",
         ~(step = "planning" /\ phase = "commit")
  PROVE  PlanInv'
  BY DEF PlanInv, MadeFrom, Quiet

LEMMA ToolQuiet ==
  ASSUME Placed, Tool, ~Handoff, ~Snapshot
  PROVE  \E ok \in BOOLEAN : Leave(ok)
  BY DEF Tool, OtherTool, Jacoco, Bytecode, Source, Index, Classify, Deps, Incremental, Planning,
         Context, Validate, Running, Return

(* The two tools that end otherwise are quiet as well.                     *)
LEMMA AnyToolQuiet == ASSUME Placed, Tool PROVE Quiet
<1>1. CASE Handoff
  <2>1. PICK code \in {1, rc} : GoOn(code) /\ step = "handoff"
    BY <1>1 DEF Handoff, At, Running, Return
  <2> QED
    BY <2>1, Passing DEF Quiet, PlanningDone, PackingDone, Asked
<1>2. CASE Snapshot
  <2>1. step = "snapshot"
    BY <1>2 DEF Snapshot, Running
  <2>2. GoOn(rc) \/ \E how \in {"empty", "failed"} : End(how)
    BY <1>2 DEF Snapshot, Running
  <2>3. CASE GoOn(rc)
    BY <2>1, <2>3, Passing DEF Quiet
  <2> QED
    BY <2>2, <2>3, EndQuiet
<1>3. CASE ~Handoff /\ ~Snapshot
  BY <1>3, ToolQuiet, ToolMoves, ReturnQuiet
<1> QED
  BY <1>1, <1>2, <1>3

LEMMA PlanStep == Placed /\ PlanInv /\ [Next]_vars => PlanInv'
<1> SUFFICES ASSUME Placed, PlanInv, [Next]_vars PROVE PlanInv'
  OBVIOUS
<1>1. CASE Planning
  <2>1. PICK ok \in BOOLEAN : Leave(ok) /\ plan' = IF ok THEN PlanOf ELSE plan
    BY <1>1 DEF Planning, Return
  <2>2. step = "planning" /\ phase = "run" /\ UNCHANGED <<cache, killed, targets>>
    BY <1>1 DEF Planning, At, Running, Return
  <2>3. Quiet
    BY <1>1, AnyToolQuiet DEF Tool, OtherTool
  <2>4. CASE ok
    <3>1. phase' = "commit" /\ UNCHANGED <<step, pending>>
      BY <2>1, <2>2, <2>4, ReturnCommits DEF Cacheable
    <3>2. plan'.targets = targets
      BY <2>1, <2>4 DEF PlanOf
    <3>3. ~PlanningDone'
      BY <2>2, <3>1 DEF PlanningDone, Succeeded
    <3> QED
      BY <2>2, <3>1, <3>2, <3>3 DEF PlanInv
  <2>5. CASE ~ok
    <3>1. step' = "planning" => phase' = "look"
      BY <2>1, <2>2, <2>5, ReturnCommits DEF Cacheable
    <3> QED
      BY <2>1, <2>2, <2>3, <2>5, <3>1, PlanAside
  <2> QED
    BY <2>4, <2>5
<1>2. CASE Jacoco \/ Snapshot
  <2>1. step \in {"jacoco", "snapshot"} /\ UNCHANGED <<cache, killed>>
    BY <1>2 DEF Jacoco, Snapshot, At, Running, Return
  <2>2. ~PlanningDone'
    BY <1>2, <2>1, AnyToolQuiet DEF Tool, OtherTool, Quiet, PlanningDone, Succeeded
  <2>3. plan' = plan \/ plan' = EmptyPlan
    BY <1>2 DEF Jacoco, Snapshot, Running, Return
  <2>4. step' = "planning" => phase' = "look"
    BY <1>2, <2>1, ToolLeaves DEF Tool, OtherTool, Cacheable
  <2> QED
    BY <2>1, <2>2, <2>3, <2>4 DEF PlanInv, MadeFrom, EmptyPlan
<1>3. CASE Tool /\ ~Planning /\ ~Jacoco /\ ~Snapshot
  <2>1. step # "planning" /\ UNCHANGED <<cache, killed, targets, plan>>
    BY <1>3 DEF Tool, OtherTool, Bytecode, Source, Index, Classify, Deps, Incremental, Context,
           Validate, Handoff, At, products, Running, Return
  <2>2. step' = "planning" => phase' = "look"
    BY <1>3, <2>1, ToolLeaves DEF Cacheable
  <2> QED
    BY <1>3, <2>1, <2>2, AnyToolQuiet, PlanAside
<1>4. CASE Look
  <2>1. UNCHANGED <<cache, killed, targets, plan>> /\ phase = "look" /\ step \in Cacheable
    BY <1>4 DEF Look, products, Placed, past
  <2>2. CASE entries[step] # None /\ entries[step] = Signature(step)
    <3>1. GoOn(rc)
      BY <1>4, <2>2 DEF Look, past
    <3>2. step' = "planning" => phase' = "look"
      BY <3>1, GoOnMoves DEF MovesOn, Cacheable
    <3>3. CASE step = "planning"
      <4>1. cache["planning"] # None /\ cache["planning"].targets = targets
        BY <2>1, <2>2, <3>3 DEF Placed, Signature, PlanInputs
      <4> QED
        BY <2>1, <3>2, <4>1 DEF PlanInv, MadeFrom
    <3>4. CASE step # "planning"
      <4>1. PlanningDone' => PlanningDone
        BY <2>1, <3>1, <3>4, Passing DEF PlanningDone, Cacheable
      <4> QED
        BY <2>1, <3>2, <3>4, <4>1 DEF PlanInv, MadeFrom
    <3> QED
      BY <3>3, <3>4
  <2>3. CASE ~(entries[step] # None /\ entries[step] = Signature(step))
    <3>1. pending' = Signature(step) /\ phase' = "run" /\ UNCHANGED <<step, rc, last>>
      BY <1>4, <2>3 DEF Look, past
    <3>2. step = "planning" => pending'.targets = targets
      BY <3>1 DEF Signature, PlanInputs
    <3>3. PlanningDone' => PlanningDone
      BY <3>1 DEF PlanningDone, Succeeded
    <3> QED
      BY <2>1, <3>1, <3>2, <3>3 DEF PlanInv, MadeFrom
  <2> QED
    BY <2>2, <2>3
<1>5. CASE Commit
  <2>1. UNCHANGED <<killed, targets, plan>> /\ phase = "commit"
    BY <1>5 DEF Commit, products, past
  <2>2. step' = "planning" => phase' = "look"
    BY <1>5 DEF Commit, Cacheable, past
  <2>3. CASE step = "planning"
    <3>1. cache'["planning"].targets = targets
      BY <1>5, <2>1, <2>3, Committed DEF PlanInv, Cacheable
    <3> QED
      BY <2>1, <2>2, <2>3, <3>1 DEF PlanInv, MadeFrom
  <2>4. CASE step # "planning"
    <3>1. cache'["planning"] \in {None, cache["planning"]} /\ step \in Cacheable /\ step # "idle"
      BY <1>5, <2>4, Committed DEF Cacheable
    <3>2. PlanningDone' => PlanningDone
      BY <1>5, <2>4, <3>1, Passing DEF Commit, PlanningDone, Cacheable, past
    <3> QED
      BY <2>1, <2>2, <2>4, <3>1, <3>2 DEF PlanInv, MadeFrom
  <2> QED
    BY <2>3, <2>4
<1>6. CASE Start
  BY <1>6 DEF Start, products, PlanInv, MadeFrom, Cacheable, PlanningDone, Succeeded, past
<1>7. CASE Kill
  BY <1>7 DEF Kill, End, PlanInv
<1>8. CASE Edit \/ Compile \/ Measure \/ UNCHANGED vars
  BY <1>8 DEF Edit, Compile, Measure, Change, products, process, vars, PlanInv, MadeFrom,
         PlanningDone, Succeeded, past
<1> QED
  BY <1>1, <1>2, <1>3, <1>4, <1>5, <1>6, <1>7, <1>8 DEF Next, Tool, OtherTool

(* A run that ends well, by whatever mixture of work and cache hits, leaves *)
(* a plan chosen from the coverage targets on disk, as long as no run was   *)
(* killed.                                                                 *)
THEOREM PlanVouched == Spec => []PlanIsFromReport
<1>1. Init => PlanInv
  BY DEF Init, PlanInv, Cacheable, PlanningDone, Succeeded
<1>2. PlanInv => PlanIsFromReport
  BY DEF PlanInv, PlanIsFromReport, PlanningDone, Succeeded, MadeFrom
<1> QED
  BY <1>1, <1>2, PlacedInit, PlacedStep, PlanStep, PTL DEF Spec

-----------------------------------------------------------------------------
(* The packs.  Plans are told apart by their cycle as long as no early exit *)
(* begins the count anew.                                                  *)
PackTypes ==
  /\ report \subseteq Classes /\ targets \in {None} \union SUBSET Classes
  /\ plan.cycle \in Nat /\ plan.items \subseteq Classes
  /\ request.sut \in Classes \union {None}

Served(sut) == \A c \in IF sut = None THEN plan.items ELSE {sut} : packs[c].plan = plan

(* A signature of the context step is of a plan that is not younger than    *)
(* the one on disk, and vouches for the packs if it is that one.           *)
Older(s) == /\ s.plan.cycle \in Nat /\ s.plan.cycle <= plan.cycle
            /\ s.plan.cycle = plan.cycle => s.plan = plan
            /\ s.sut \in Classes \union {None}
Vouches(s) == s.plan = plan => Served(s.sut)

PackInv ==
  /\ step = "context" /\ phase \in {"run", "commit"} => pending.plan = plan /\ pending.sut = request.sut
  /\ step = "context" /\ phase = "commit" => Served(request.sut)
  /\ ~emptied /\ cache["context"] # None => Older(cache["context"]) /\ Vouches(cache["context"])
  /\ ~emptied /\ PackingDone => Served(Asked)

LEMMA PackTypesStep == PackTypes /\ [Next]_vars => PackTypes'
<1> SUFFICES ASSUME PackTypes, [Next]_vars PROVE PackTypes'
  OBVIOUS
<1>1. report' \subseteq Classes
  BY DEF PackTypes, Next, Start, Look, Commit, Jacoco, Snapshot, Bytecode, Source, Index,
         Classify, Deps, Incremental, Planning, Context, Validate, Handoff, Kill, Edit, Compile,
         Measure, At, repository, vars, Change, Running, Return, past
<1>2. targets' \in {None} \union SUBSET Classes
  BY DEF PackTypes, Next, Start, Look, Commit, Jacoco, Snapshot, Bytecode, Source, Index,
         Classify, Deps, Incremental, Planning, Context, Validate, Handoff, Kill, Edit, Compile,
         Measure, products, vars, Change, Running, past
<1>3. plan' \in {plan, EmptyPlan, PlanOf}
  BY DEF Next, Start, Look, Commit, Jacoco, Snapshot, Bytecode, Source, Index, Classify, Deps,
         Incremental, Planning, Context, Validate, Handoff, Kill, Edit, Compile, Measure,
         products, vars, Change, Running, past
<1>4. ItemsOf \subseteq Classes
  BY DEF PackTypes, ItemsOf
<1>5. plan'.cycle \in Nat /\ plan'.items \subseteq Classes
  BY <1>3, <1>4 DEF PackTypes, PlanOf, EmptyPlan
<1>6. request' \in Requests \union {request, NoRequest}
  <2>1. CASE OtherTool \/ Bytecode \/ Source
    <3>1. (\E ok \in BOOLEAN : Leave(ok)) \/ (\E code : GoOn(code)) \/ (\E how : End(how))
      BY <2>1 DEF OtherTool, Jacoco, Snapshot, Bytecode, Source, Index, Classify, Deps,
             Incremental, Planning, Context, Validate, Handoff, Running, Return
    <3> QED
      BY <3>1, ReturnMoves, GoOnMoves, EndMoves DEF MovesOn
  <2>2. CASE Look \/ Kill
    BY <2>2, GoOnMoves, EndMoves DEF Look, Kill, MovesOn, past
  <2>3. CASE Start \/ Commit \/ Edit \/ Compile \/ Measure \/ UNCHANGED vars
    BY <2>3 DEF Start, Commit, Edit, Compile, Measure, Change, process, vars, past
  <2> QED
    BY <2>1, <2>2, <2>3 DEF Next, OtherTool
<1>7. request'.sut \in Classes \union {None}
  BY <1>6, PipelineAssumption DEF PackTypes, NoRequest
<1> QED
  BY <1>1, <1>2, <1>5, <1>7 DEF PackTypes

LEMMA PackAside ==
  ASSUME PackInv, UNCHANGED <<cache, plan, packs>>, emptied => emptied', Quiet,
         step' = "context" => phase' = "look"
  PROVE  PackInv'
  BY DEF PackInv, Served, Older, Vouches, Quiet

(* Packs that are written again for the same plan go on serving it.        *)
LEMMA ContextPacks ==
  ASSUME Placed, PackTypes, PackInv, Context
  PROVE  PackInv'
<1>1. PICK ok \in BOOLEAN, done \in SUBSET (IF plan = NoPlan THEN {} ELSE Packed) :
        /\ Leave(ok) /\ (ok => plan # NoPlan /\ done = Packed)
        /\ packs' = [c \in Classes |-> IF c \in done THEN PackOf(c) ELSE packs[c]]
  BY DEF Context, Return
<1>2. step = "context" /\ phase = "run" /\ UNCHANGED <<cache, plan, emptied>>
  BY DEF Context, At, Running, Return
<1>3. ASSUME NEW c \in Classes, packs[c].plan = plan PROVE packs'[c].plan = plan
  BY <1>1, <1>3 DEF PackOf
<1>4. ASSUME NEW sut \in Classes \union {None}, Served(sut) PROVE Served(sut)'
  BY <1>2, <1>3, <1>4 DEF Served, PackTypes
<1>5. ASSUME NEW s, Older(s), Vouches(s) PROVE Older(s)' /\ Vouches(s)'
  BY <1>2, <1>4, <1>5 DEF Older, Vouches
<1>6. ~PackingDone
  BY <1>2 DEF PackingDone, Succeeded
<1>7. ~PackingDone'
  BY <1>1, <1>2, <1>6, ReturnQuiet DEF Quiet
<1>8. CASE ok
  <2>1. phase' = "commit" /\ UNCHANGED <<step, request, pending>>
    BY <1>1, <1>2, <1>8, ReturnCommits DEF Cacheable
  <2>2. Served(request.sut)'
    BY <1>1, <1>2, <1>8, <2>1 DEF Served, Packed, PackOf, PackTypes
  <2> QED
    BY <1>2, <1>5, <1>7, <2>1, <2>2 DEF PackInv
<1>9. CASE ~ok
  <2>1. step' = "context" => phase' = "look"
    BY <1>1, <1>2, <1>9, ReturnCommits DEF Cacheable
  <2> QED
    BY <1>2, <1>5, <1>7, <2>1 DEF PackInv
<1> QED
  BY <1>8, <1>9

(* A new plan is younger than every signature.                             *)
LEMMA NewPlan ==
  ASSUME PackTypes, PackInv, UNCHANGED cache, emptied => emptied', ~PackingDone',
         plan'.cycle = plan.cycle + 1, step' = "context" => phase' = "look"
  PROVE  PackInv'
<1>1. ASSUME NEW s, Older(s) PROVE Older(s)' /\ Vouches(s)'
  BY <1>1 DEF Older, Vouches, PackTypes
<1> QED
  BY <1>1 DEF PackInv

LEMMA PackStep == Placed /\ PackTypes /\ PackInv /\ [Next]_vars => PackInv'
<1> SUFFICES ASSUME Placed, PackTypes, PackInv, [Next]_vars PROVE PackInv'
  OBVIOUS
<1>1. CASE Context
  BY <1>1, ContextPacks
<1>2. CASE Planning
  <2>1. PICK ok \in BOOLEAN : Leave(ok) /\ plan' = IF ok THEN PlanOf ELSE plan
    BY <1>2 DEF Planning, Return
  <2>2. step = "planning" /\ UNCHANGED <<cache, emptied, packs>>
    BY <1>2 DEF Planning, At, Running, Return
  <2>3. Quiet
    BY <1>2, AnyToolQuiet DEF Tool, OtherTool
  <2>4. ~PackingDone'
    BY <2>2, <2>3 DEF Quiet, PackingDone, Succeeded
  <2>5. step' = "context" => phase' = "look"
    BY <1>2, <2>2, ToolLeaves DEF Tool, OtherTool, Cacheable
  <2>6. CASE ok
    BY <2>1, <2>2, <2>4, <2>5, <2>6, NewPlan DEF PlanOf
  <2>7. CASE ~ok
    BY <2>1, <2>2, <2>3, <2>5, <2>7, PackAside
  <2> QED
    BY <2>6, <2>7
<1>3. CASE Snapshot
  <2>1. step = "snapshot" /\ UNCHANGED <<cache, packs>>
    BY <1>3 DEF Snapshot, Running
  <2>2. Quiet
    BY <1>3, AnyToolQuiet DEF Tool, OtherTool
  <2>3. step' = "context" => phase' = "look"
    BY <1>3, <2>1, ToolLeaves DEF Tool, OtherTool, Cacheable
  <2>4. CASE targets = {}
    <3>1. plan' = EmptyPlan /\ emptied' = (emptied \/ plan # NoPlan)
      BY <1>3, <2>4 DEF Snapshot, Running
    <3>2. ~PackingDone'
      BY <2>1, <2>2 DEF Quiet, PackingDone, Succeeded
    <3>3. CASE emptied'
      BY <2>3, <3>2, <3>3 DEF PackInv
    <3>4. CASE ~emptied'
      <4>1. plan = NoPlan /\ ~emptied
        BY <3>1, <3>4, Zenon
      <4>2. plan'.cycle = plan.cycle + 1
        BY <3>1, <4>1 DEF EmptyPlan, NoPlan
      <4> QED
        BY <2>1, <2>3, <3>2, <4>1, <4>2, NewPlan
    <3> QED
      BY <3>3, <3>4
  <2>5. CASE targets # {}
    <3>1. plan' = plan /\ UNCHANGED emptied
      BY <1>3, <2>5 DEF Snapshot, Running
    <3> QED
      BY <2>1, <2>2, <2>3, <3>1, PackAside
  <2> QED
    BY <2>4, <2>5
<1>4. CASE Tool /\ ~Context /\ ~Planning /\ ~Snapshot
  <2>1. step # "context" /\ UNCHANGED <<cache, emptied, plan, packs>>
    BY <1>4 DEF Tool, OtherTool, Jacoco, Bytecode, Source, Index, Classify, Deps, Incremental,
           Validate, Handoff, At, products, Running, Return
  <2>2. step' = "context" => phase' = "look"
    BY <1>4, <2>1, ToolLeaves DEF Cacheable
  <2> QED
    BY <1>4, <2>1, <2>2, AnyToolQuiet, PackAside
<1>5. CASE Look
  <2>1. UNCHANGED <<cache, emptied, plan, packs>> /\ phase = "look" /\ step \in Cacheable
    BY <1>5 DEF Look, products, Placed, past
  <2>2. CASE entries[step] # None /\ entries[step] = Signature(step)
    <3>1. GoOn(rc)
      BY <1>5, <2>2 DEF Look, past
    <3>2. step' = "context" => phase' = "look"
      BY <3>1, GoOnMoves DEF MovesOn, Cacheable
    <3>3. PackingDone' => step = "context" /\ Asked' = request.sut
      BY <2>1, <3>1, Passing DEF Cacheable
    <3>4. step = "context" /\ ~emptied => Served(request.sut)
      <4> SUFFICES ASSUME step = "context", ~emptied PROVE Served(request.sut)
        OBVIOUS
      <4>1. /\ cache["context"] # None
            /\ cache["context"].plan = plan /\ cache["context"].sut = request.sut
        BY <2>1, <2>2 DEF Placed, Signature
      <4> QED
        BY <4>1 DEF PackInv, Vouches
    <3> QED
      BY <2>1, <3>2, <3>3, <3>4 DEF PackInv, Served, Older, Vouches
  <2>3. CASE ~(entries[step] # None /\ entries[step] = Signature(step))
    <3>1. pending' = Signature(step) /\ phase' = "run" /\ UNCHANGED <<step, request, rc, last>>
      BY <1>5, <2>3 DEF Look, past
    <3>2. step = "context" => pending'.plan = plan /\ pending'.sut = request.sut
      BY <3>1 DEF Signature
    <3>3. (PackingDone' => PackingDone) /\ Asked' = Asked
      BY <3>1 DEF PackingDone, Succeeded, Asked
    <3> QED
      BY <2>1, <3>1, <3>2, <3>3 DEF PackInv, Served, Older, Vouches
  <2> QED
    BY <2>2, <2>3
<1>6. CASE Commit
  <2>1. UNCHANGED <<emptied, plan, packs, request>> /\ phase = "commit"
    BY <1>6 DEF Commit, products, past
  <2>2. step' = "context" => phase' = "look"
    BY <1>6 DEF Commit, Cacheable, past
  <2>3. step \in Cacheable /\ step # "idle"
    BY <1>6, Committed DEF Cacheable
  <2>4. PackingDone' => step = "context" /\ Asked' = request.sut
    BY <1>6, <2>3, Passing DEF Commit, Cacheable, past
  <2>5. CASE step = "context"
    <3>1. cache'["context"] = pending /\ pending.plan = plan /\ pending.sut = request.sut
          /\ Served(request.sut)
      BY <1>6, <2>1, <2>5, Committed DEF PackInv, Cacheable
    <3>2. Older(pending) /\ Vouches(pending)
      BY <3>1 DEF Older, Vouches, PackTypes
    <3> QED
      BY <2>1, <2>2, <2>4, <2>5, <3>1, <3>2 DEF PackInv, Served, Older, Vouches
  <2>6. CASE step # "context"
    <3>1. cache'["context"] \in {None, cache["context"]}
      BY <1>6, <2>6, Committed DEF Cacheable
    <3> QED
      BY <2>1, <2>2, <2>4, <2>6, <3>1 DEF PackInv, Served, Older, Vouches
  <2> QED
    BY <2>5, <2>6
<1>7. CASE Start
  BY <1>7 DEF Start, products, PackInv, Served, Older, Vouches, Cacheable, PackingDone, Succeeded,
         past
<1>8. CASE Kill
  <2>1. UNCHANGED <<cache, emptied, plan, packs>> /\ step' = "idle" /\ End("killed")
    BY <1>8 DEF Kill, End, products
  <2> QED
    BY <2>1, EndQuiet, PackAside
<1>9. CASE Edit \/ Compile \/ Measure \/ UNCHANGED vars
  BY <1>9 DEF Edit, Compile, Measure, Change, products, process, vars, PackInv, Served, Older,
         Vouches, PackingDone, Succeeded, Asked, past
<1> QED
  BY <1>1, <1>2, <1>3, <1>4, <1>5, <1>6, <1>7, <1>8, <1>9 DEF Next, Tool, OtherTool

(* A run that ends well leaves a pack of the plan on disk for every class   *)
(* it was asked for, after any history of partial, failed, killed and       *)
(* restricted runs in which no early exit replaced a plan.                 *)
THEOREM PacksVouched == Spec => []PlannedHavePacks
<1>1. Init => PackTypes /\ PackInv
  BY DEF Init, PackTypes, PackInv, Cacheable, PackingDone, Succeeded, NoPlan, NoRequest
<1>2. PackInv => PlannedHavePacks
  BY DEF PackInv, PlannedHavePacks, PackingDone, Succeeded, Asked, Served
<1> QED
  BY <1>1, <1>2, PlacedInit, PlacedStep, PackTypesStep, PackStep, PTL DEF Spec
=============================================================================
