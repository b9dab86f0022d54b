---------------------------- MODULE Tools_proofs ----------------------------
(***************************************************************************)
(* What the tools promise, for every input that fits the assumptions of    *)
(* Tools.  The order of the lists comes first.                             *)
(***************************************************************************)
EXTENDS Tools, FiniteSetTheorems, SequenceTheorems, TLAPS

-----------------------------------------------------------------------------
(* Filtered and sorted lists.                                              *)

(* A set of natural numbers has a least element, which is its Min.         *)
LEMMA LeastPlace ==
  ASSUME NEW K \in SUBSET Nat, K # {}
  PROVE  Min(K) \in K /\ \A i \in K : Min(K) <= i
<1>1. PICK m \in K : \A i \in K : ~(<<i, m>> \in OpToRel(<, Nat))
  BY NatLessThanWellFounded, WFMin
<1>2. \A i \in K : ~(i < m)
  BY <1>1 DEF OpToRel
<1>3. \A i \in K : m <= i
  BY <1>2
<1> QED
  BY <1>3 DEF Min

IsKey(K, key) == \A i \in K : key[i] \in Int \X Int

LEMMA PrecedesIsTotal ==
  ASSUME NEW K \in SUBSET Int, NEW key, IsKey(K, key)
  PROVE  /\ \A i \in K : ~Precedes(key, i, i)
         /\ \A i, j \in K : i # j => Precedes(key, i, j) \/ Precedes(key, j, i)
         /\ \A i, j, k \in K :
              Precedes(key, i, j) /\ Precedes(key, j, k) => Precedes(key, i, k)
<1>1. \A i \in K : key[i] = <<key[i][1], key[i][2]>> /\ key[i][1] \in Int /\ key[i][2] \in Int
  BY DEF IsKey
<1> QED
  BY <1>1 DEF Precedes

(* The rank of a place tells how many come before it and grows with it.    *)
LEMMA RankGrows ==
  ASSUME NEW K \in SUBSET Int, IsFiniteSet(K), NEW key, IsKey(K, key)
  PROVE  /\ \A i \in K : Rank(K, key, i) \in 0 .. Cardinality(K) - 1
         /\ \A i, j \in K : Precedes(key, i, j) <=> Rank(K, key, i) < Rank(K, key, j)
<1> DEFINE Ahead(i) == {j \in K : Precedes(key, j, i)}
<1>1. \A i \in K : /\ IsFiniteSet(Ahead(i)) /\ Cardinality(Ahead(i)) \in Nat
                   /\ Cardinality(Ahead(i)) < Cardinality(K)
  <2> TAKE i \in K
  <2>1. Ahead(i) \in SUBSET (K \ {i})
    BY PrecedesIsTotal
  <2>2. IsFiniteSet(K \ {i}) /\ Cardinality(K \ {i}) = Cardinality(K) - 1
    BY FS_RemoveElement
  <2>3. Cardinality(K) \in Nat
    BY FS_CardinalityType
  <2> HIDE DEF Ahead
  <2>4. IsFiniteSet(Ahead(i)) /\ Cardinality(Ahead(i)) <= Cardinality(K) - 1
    BY <2>1, <2>2, FS_Subset
  <2> QED
    BY <2>3, <2>4, FS_CardinalityType
<1>2. ASSUME NEW i \in K, NEW j \in K, Precedes(key, i, j)
      PROVE  Cardinality(Ahead(i)) < Cardinality(Ahead(j))
  <2>1. Ahead(i) \subseteq Ahead(j) /\ i \in Ahead(j) /\ i \notin Ahead(i)
    BY <1>2, PrecedesIsTotal
  <2>2. Ahead(i) \in SUBSET (Ahead(j) \ {i})
    BY <2>1
  <2> HIDE DEF Ahead
  <2>3. IsFiniteSet(Ahead(j) \ {i}) /\ Cardinality(Ahead(j) \ {i}) = Cardinality(Ahead(j)) - 1
    BY <1>1, <2>1, FS_RemoveElement
  <2>4. Cardinality(Ahead(i)) <= Cardinality(Ahead(j)) - 1
    BY <2>2, <2>3, FS_Subset
  <2> QED
    BY <1>1, <2>4
<1>3. \A i \in K : Rank(K, key, i) = Cardinality(Ahead(i))
  BY DEF Rank
<1> HIDE DEF Ahead
<1>4. Cardinality(K) \in Nat
  BY FS_CardinalityType
<1>5. \A i \in K : Rank(K, key, i) \in 0 .. Cardinality(K) - 1
  BY <1>1, <1>3, <1>4
<1>6. ASSUME NEW i \in K, NEW j \in K, Rank(K, key, i) < Rank(K, key, j)
      PROVE  Precedes(key, i, j)
  <2>1. i # j
    BY <1>5, <1>6
  <2>2. CASE Precedes(key, j, i)
    BY <1>1, <1>2, <1>3, <1>6, <2>2
  <2> QED
    BY <2>1, <2>2, PrecedesIsTotal
<1> QED
  BY <1>2, <1>3, <1>5, <1>6

(* Places lists every place of K once, in the order of the keys.           *)
LEMMA PlacesInOrder ==
  ASSUME NEW K \in SUBSET Int, IsFiniteSet(K), NEW key, IsKey(K, key)
  PROVE  LET at == Places(K, key)
         IN  /\ at \in [1 .. Cardinality(K) -> K]
             /\ Cardinality(K) \in Nat
             /\ \A i \in K : \E n \in DOMAIN at : at[n] = i
             /\ \A m, n \in DOMAIN at : Precedes(key, at[m], at[n]) <=> m < n
             /\ \A m, n \in DOMAIN at : at[m] = at[n] => m = n
<1> DEFINE at == Places(K, key)
           rank == [i \in K |-> Rank(K, key, i)]
           range == 0 .. Cardinality(K) - 1
<1>0. Cardinality(K) \in Nat
  BY FS_CardinalityType
<1>1. rank \in [K -> range] /\ \A i, j \in K : Precedes(key, i, j) <=> rank[i] < rank[j]
  BY RankGrows
<1>2. \A i, j \in K : rank[i] = rank[j] => i = j
  <2> SUFFICES ASSUME NEW i \in K, NEW j \in K, rank[i] = rank[j], i # j PROVE FALSE
    OBVIOUS
  <2>1. rank[i] \in Int
    BY <1>0, <1>1
  <2> QED
    BY <1>1, <2>1, PrecedesIsTotal
<1>3. IsFiniteSet(range) /\ Cardinality(range) = Cardinality(K)
  BY <1>0, FS_Interval
<1>4. rank \in Surjection(K, range)
  <2>1. rank \in Injection(K, range)
    BY <1>1, <1>2 DEF Injection, IsInjective
  <2> HIDE DEF rank, range
  <2> QED
    BY <1>3, <2>1, FS_Injection
<1>5. \A r \in range : \E i \in K : rank[i] = r
  <2> HIDE DEF rank, range
  <2> QED
    BY <1>4 DEF Surjection
<1>6. \A n \in 1 .. Cardinality(K) : at[n] \in K /\ rank[at[n]] = n - 1
  <2> TAKE n \in 1 .. Cardinality(K)
  <2>1. n - 1 \in range
    BY <1>0
  <2>2. PICK i \in K : Rank(K, key, i) = n - 1
    BY <1>5, <2>1
  <2>3. at[n] = CHOOSE j \in K : Rank(K, key, j) = n - 1
    BY DEF Places
  <2> QED
    BY <2>2, <2>3
<1>7. DOMAIN at = 1 .. Cardinality(K) /\ at \in [1 .. Cardinality(K) -> K]
  BY <1>6 DEF Places
<1>8. ASSUME NEW i \in K
      PROVE  \E n \in DOMAIN at : at[n] = i
  <2> DEFINE n == rank[i] + 1
  <2>1. n \in 1 .. Cardinality(K) /\ n - 1 = rank[i]
    BY <1>0, <1>1
  <2>2. at[n] \in K /\ rank[at[n]] = rank[i]
    BY <1>6, <2>1
  <2> HIDE DEF rank, n, at
  <2>3. at[n] = i
    BY <1>2, <2>2
  <2> QED
    BY <1>7, <2>1, <2>3
<1> HIDE DEF rank, at
<1>9. \A m, n \in DOMAIN at : Precedes(key, at[m], at[n]) <=> m < n
  <2> TAKE m, n \in DOMAIN at
  <2>1. rank[at[m]] = m - 1 /\ rank[at[n]] = n - 1 /\ at[m] \in K /\ at[n] \in K
    BY <1>6, <1>7
  <2>2. m \in Int /\ n \in Int
    BY <1>7
  <2>3. Precedes(key, at[m], at[n]) <=> rank[at[m]] < rank[at[n]]
    BY <1>1, <2>1
  <2> QED
    BY <2>1, <2>2, <2>3
<1>10. \A m, n \in DOMAIN at : at[m] = at[n] => m = n
  <2> TAKE m, n \in DOMAIN at
  <2>1. rank[at[m]] = m - 1 /\ rank[at[n]] = n - 1
    BY <1>6, <1>7
  <2>2. m \in Int /\ n \in Int
    BY <1>7
  <2> QED
    BY <2>1, <2>2
<1> QED
  BY <1>0, <1>7, <1>8, <1>9, <1>10 DEF at

(* A filtered list has the elements asked for, in their order.             *)
LEMMA PickedInOrder ==
  ASSUME NEW s, NEW K \in SUBSET Int, IsFiniteSet(K)
  PROVE  LET at == InOrder(K)
         IN  /\ at \in [1 .. Cardinality(K) -> K] /\ Cardinality(K) \in Nat
             /\ \A i \in K : \E n \in DOMAIN at : at[n] = i
             /\ \A m, n \in DOMAIN at : at[m] < at[n] <=> m < n
             /\ \A m, n \in DOMAIN at : at[m] = at[n] => m = n
             /\ DOMAIN Pick(s, K) = DOMAIN at
             /\ \A n \in DOMAIN at : Pick(s, K)[n] = s[at[n]]
<1> DEFINE key == [i \in K |-> <<0, 0>>]
           at == InOrder(K)
<1>1. IsKey(K, key)
  BY DEF IsKey
<1>2. \A i, j \in K : Precedes(key, i, j) <=> i < j
  BY DEF Precedes
<1>3. at = Places(K, key)
  BY DEF InOrder
<1> HIDE DEF key, at
<1>4. /\ at \in [1 .. Cardinality(K) -> K] /\ Cardinality(K) \in Nat
      /\ \A i \in K : \E n \in DOMAIN at : at[n] = i
      /\ \A m, n \in DOMAIN at : Precedes(key, at[m], at[n]) <=> m < n
      /\ \A m, n \in DOMAIN at : at[m] = at[n] => m = n
  BY <1>1, <1>3, PlacesInOrder
<1>5. \A m, n \in DOMAIN at : at[m] < at[n] <=> m < n
  BY <1>2, <1>4
<1>6. Pick(s, K) = [n \in DOMAIN at |-> s[at[n]]]
  BY DEF Pick, at
<1> QED
  BY <1>4, <1>5, <1>6 DEF at

LEMMA Picked ==
  ASSUME NEW s, NEW K \in SUBSET Int, IsFiniteSet(K)
  PROVE  ToSet(Pick(s, K)) = {s[i] : i \in K}
<1> DEFINE at == InOrder(K)
<1>1. /\ at \in [1 .. Cardinality(K) -> K]
      /\ \A i \in K : \E n \in DOMAIN at : at[n] = i
      /\ DOMAIN Pick(s, K) = DOMAIN at
      /\ \A n \in DOMAIN at : Pick(s, K)[n] = s[at[n]]
  BY PickedInOrder
<1> HIDE DEF at
<1> QED
  BY <1>1 DEF ToSet

-----------------------------------------------------------------------------
(* Lists of checks.                                                        *)

LEMMA FirstPlaces ==
  \A n \in Nat : IsFiniteSet(1 .. n) /\ Cardinality(1 .. n) = n
BY FS_Interval

LEMMA EarliestIsNone ==
  ASSUME NEW checks, IsList(checks)
  PROVE  /\ Earliest(checks) = None <=> \A i \in DOMAIN checks : checks[i] = None
         /\ Earliest(checks) # None => \E i \in DOMAIN checks : Earliest(checks) = checks[i]
<1> DEFINE failed == {i \in DOMAIN checks : checks[i] # None}
<1>1. failed \in SUBSET Nat
  BY DEF IsList
<1>2. failed # {} => Min(failed) \in failed
  BY <1>1, LeastPlace
<1> QED
  BY <1>2 DEF Earliest


LEMMA EarliestOfTwo ==
  ASSUME NEW a, NEW b
  PROVE  /\ Earliest(<<a, b>>) = None <=> a = None /\ b = None
         /\ Earliest(<<a, b>>) \in {None, a, b}
<1>1. DOMAIN <<a, b>> = 1 .. 2
  OBVIOUS
<1>2. IsFiniteSet(1 .. 2)
  BY FirstPlaces
<1>3. IsList(<<a, b>>)
  BY <1>1, <1>2 DEF IsList
<1> QED
  BY <1>1, <1>3, EarliestIsNone

LEMMA EarliestOfFour ==
  ASSUME NEW a, NEW b, NEW c, NEW d
  PROVE  /\ Earliest(<<a, b, c, d>>) = None <=> a = None /\ b = None /\ c = None /\ d = None
         /\ Earliest(<<a, b, c, d>>) \in {None, a, b, c, d}
<1>1. DOMAIN <<a, b, c, d>> = 1 .. 4
  OBVIOUS
<1>2. IsFiniteSet(1 .. 4)
  BY FirstPlaces
<1>3. IsList(<<a, b, c, d>>)
  BY <1>1, <1>2 DEF IsList
<1> QED
  BY <1>1, <1>3, EarliestIsNone

LEMMA EarliestOfFive ==
  ASSUME NEW a, NEW b, NEW c, NEW d, NEW e
  PROVE  Earliest(<<a, b, c, d, e>>) = None
           <=> a = None /\ b = None /\ c = None /\ d = None /\ e = None
<1>1. DOMAIN <<a, b, c, d, e>> = 1 .. 5
  OBVIOUS
<1>2. IsFiniteSet(1 .. 5)
  BY FirstPlaces
<1>3. IsList(<<a, b, c, d, e>>)
  BY <1>1, <1>2 DEF IsList
<1> QED
  BY <1>1, <1>3, EarliestIsNone

-----------------------------------------------------------------------------
(* What makes a descriptor valid.                                          *)

(* A test method that cites what the request offers, of its own method if  *)
(* it must, and calls nothing else.                                        *)
Sound(m, t) ==
  /\ m.object /\ m.named /\ m.body
  /\ m.evidence # Scalar /\ m.evidence # {} /\ m.evidence \subseteq t.allowedEvidenceIds
  /\ t.targetEvidenceRequired => m.evidence \intersect t.targetEvidenceIds # {}
  /\ m.calls \subseteq Methods(t)

LEMMA SoundMethods ==
  ASSUME NEW m, NEW t
  PROVE  /\ MethodEvidence(m, t) = None /\ MethodShape(m, t) = None <=> Sound(m, t)
         /\ MethodEvidence(m, t) \in {None, "evidence", "target evidence"}
         /\ MethodShape(m, t) \in {None, "descriptor"}
<1> DEFINE cited == IF m.object /\ m.evidence # Scalar THEN m.evidence ELSE {}
           a == Check(m.object => cited # {} /\ cited \subseteq t.allowedEvidenceIds, "evidence")
           b == Check(m.object /\ t.targetEvidenceRequired =>
                        cited \intersect t.targetEvidenceIds # {}, "target evidence")
<1>1. MethodEvidence(m, t) = Earliest(<<a, b>>)
  BY DEF MethodEvidence
<1>2. /\ MethodEvidence(m, t) = None <=> a = None /\ b = None
      /\ MethodEvidence(m, t) \in {None, a, b}
  <2> HIDE DEF a, b
  <2> QED
    BY <1>1, EarliestOfTwo
<1>3. /\ a = None <=> (m.object => cited # {} /\ cited \subseteq t.allowedEvidenceIds)
      /\ a \in {None, "evidence"}
  BY NoneIsNoName DEF Check
<1>4. /\ b = None <=> (m.object /\ t.targetEvidenceRequired =>
                         cited \intersect t.targetEvidenceIds # {})
      /\ b \in {None, "target evidence"}
  BY NoneIsNoName DEF Check
<1>5. /\ MethodShape(m, t) = None <=> m.object /\ m.named /\ m.body /\ m.calls \subseteq Methods(t)
      /\ MethodShape(m, t) \in {None, "descriptor"}
  BY NoneIsNoName DEF Check, MethodShape
<1> HIDE DEF a, b
<1> QED
  BY <1>2, <1>3, <1>4, <1>5 DEF Sound

LEMMA ValidDescriptor ==
  ASSUME NEW p, NEW t, NEW prefix,
         p.methods \notin {None, Scalar} => IsList(p.methods)
  PROVE  /\ ValidatePatch(p, t, prefix) = None
              <=> /\ Structure(p, t, prefix) = None
                  /\ p.methods \notin {None, Scalar, <<>>}
                  /\ Imports(p, t) = None
                  /\ t.targetEvidenceRequired => t.targetEvidenceIds # {}
                  /\ \A i \in DOMAIN p.methods : Sound(p.methods[i], t)
         /\ ValidatePatch(p, t, prefix)
              \in {None, "descriptor", "no methods", "evidence", "target evidence"}
<1> DEFINE a == Imports(p, t)
           b == Check(t.targetEvidenceRequired => t.targetEvidenceIds # {}, "target evidence")
           cs == [i \in DOMAIN p.methods |-> MethodEvidence(p.methods[i], t)]
           ds == [i \in DOMAIN p.methods |-> MethodShape(p.methods[i], t)]
           c == Earliest(cs)
           d == Earliest(ds)
<1>1. CASE Structure(p, t, prefix) # None
  BY <1>1, NoneIsNoName DEF ValidatePatch
<1>2. CASE Structure(p, t, prefix) = None /\ p.methods \in {None, Scalar, <<>>}
  BY <1>2, NoneIsNoName DEF ValidatePatch
<1>3. CASE Structure(p, t, prefix) = None /\ p.methods \notin {None, Scalar, <<>>}
  <2>1. ValidatePatch(p, t, prefix) = Earliest(<<a, b, c, d>>)
    BY <1>3 DEF ValidatePatch
  <2>2. /\ ValidatePatch(p, t, prefix) = None <=> a = None /\ b = None /\ c = None /\ d = None
        /\ ValidatePatch(p, t, prefix) \in {None, a, b, c, d}
    <3> HIDE DEF a, b, c, d
    <3> QED
      BY <2>1, EarliestOfFour
  <2>3. IsList(cs) /\ IsList(ds)
    BY <1>3 DEF IsList
  <2>4. /\ c = None <=> \A i \in DOMAIN p.methods : MethodEvidence(p.methods[i], t) = None
        /\ c \in {None, "evidence", "target evidence"}
    <3>1. DOMAIN cs = DOMAIN p.methods
      OBVIOUS
    <3>2. \A i \in DOMAIN p.methods : /\ cs[i] = MethodEvidence(p.methods[i], t)
                                     /\ cs[i] \in {None, "evidence", "target evidence"}
      BY SoundMethods
    <3> HIDE DEF cs
    <3> QED
      BY <2>3, <3>1, <3>2, EarliestIsNone
  <2>5. /\ d = None <=> \A i \in DOMAIN p.methods : MethodShape(p.methods[i], t) = None
        /\ d \in {None, "descriptor"}
    <3>1. DOMAIN ds = DOMAIN p.methods
      OBVIOUS
    <3>2. \A i \in DOMAIN p.methods : /\ ds[i] = MethodShape(p.methods[i], t)
                                     /\ ds[i] \in {None, "descriptor"}
      BY SoundMethods
    <3> HIDE DEF ds
    <3> QED
      BY <2>3, <3>1, <3>2, EarliestIsNone
  <2>6. a \in {None, "descriptor"}
    BY DEF Imports, Check
  <2>7. /\ b = None <=> (t.targetEvidenceRequired => t.targetEvidenceIds # {})
        /\ b \in {None, "target evidence"}
    BY NoneIsNoName DEF Check
  <2> HIDE DEF b, c, d, cs, ds
  <2>8. c = None /\ d = None <=> \A i \in DOMAIN p.methods : Sound(p.methods[i], t)
    BY <2>4, <2>5, SoundMethods
  <2> QED
    BY <1>3, <2>2, <2>4, <2>5, <2>6, <2>7, <2>8
<1> QED
  BY <1>1, <1>2, <1>3

-----------------------------------------------------------------------------
(* What becomes of the items of an answer.                                 *)

LEMMA HydratedItem ==
  ASSUME NEW t, NEW item,
         CompletionMethods(item) \notin {None, Scalar} => IsList(CompletionMethods(item))
  PROVE  LET methods == CompletionMethods(item)
             out     == HydrateItem(t, item)
             patch   == Canonical(t, methods)
         IN  /\ out.status = "generated"
                  <=> /\ item.status = "generated"
                      /\ methods \notin {None, Scalar, <<>>}
                      /\ \A i \in DOMAIN methods : methods[i].object
                      /\ ValidatePatch(patch, t, "patch:") = None
             /\ out.status = "generated" => out.patch = patch
             /\ out.status \in {"generated", "skipped", "NEED_MORE_CONTEXT", "failed"}
             /\ out.reason # "omitted"
<1> DEFINE methods == CompletionMethods(item)
           patch == Canonical(t, methods)
           why == ValidatePatch(patch, t, "patch:")
           out == HydrateItem(t, item)
<1>1. patch.methods = methods
  BY DEF Canonical
<1>2. why \in {None, "descriptor", "no methods", "evidence", "target evidence"}
  BY <1>1, ValidDescriptor
<1>3. CASE item.status \in {"skipped", "NEED_MORE_CONTEXT"}
  <2>1. out = [status |-> item.status, reason |-> None, patch |-> None]
    BY <1>3 DEF HydrateItem
  <2> HIDE DEF out
  <2>2. out.status = item.status /\ out.reason = None
    BY <2>1
  <2>3. None # "omitted" /\ item.status # "generated"
    BY <1>3, NoneIsNoName
  <2> HIDE DEF methods, patch, why
  <2>4. out.status # "generated" /\ out.reason # "omitted"
        /\ out.status \in {"generated", "skipped", "NEED_MORE_CONTEXT", "failed"}
    BY <1>3, <2>2, <2>3
  <2> QED
    BY <2>3, <2>4 DEF methods, patch, out
<1>4. CASE item.status = "failed"
  BY <1>4 DEF HydrateItem, Failed
<1>5. CASE item.status \notin {"skipped", "NEED_MORE_CONTEXT", "failed", "generated"}
  BY <1>5 DEF HydrateItem, Failed
<1>6. CASE item.status = "generated"
  <2> HIDE DEF why
  <2>1. out = IF methods \in {None, Scalar, <<>>} THEN Failed("no methods")
              ELSE IF \E i \in DOMAIN methods : ~methods[i].object THEN Failed("schema")
              ELSE IF why # None THEN Failed(why)
              ELSE [status |-> "generated", reason |-> None, patch |-> patch]
    BY <1>6 DEF HydrateItem, why
  <2> HIDE DEF methods, patch, out
  <2>2. \A w : Failed(w).status = "failed" /\ Failed(w).reason = w
    BY DEF Failed
  <2>3. CASE methods \in {None, Scalar, <<>>} \/ \E i \in DOMAIN methods : ~methods[i].object
    BY <1>6, <2>1, <2>2, <2>3 DEF why, methods, patch, out
  <2>4. CASE /\ methods \notin {None, Scalar, <<>>} /\ why # None
             /\ \A i \in DOMAIN methods : methods[i].object
    BY <1>2, <1>6, <2>1, <2>2, <2>4 DEF why, methods, patch, out
  <2>5. CASE /\ methods \notin {None, Scalar, <<>>} /\ why = None
             /\ \A i \in DOMAIN methods : methods[i].object
    <3>1. out.status = "generated" /\ out.reason = None /\ out.patch = patch
      BY <2>1, <2>5
    <3>2. None # "omitted"
      BY NoneIsNoName
    <3>3. out.reason # "omitted"
      BY <3>1, <3>2
    <3> QED
      BY <1>6, <2>5, <3>1, <3>3 DEF why, methods, patch, out
  <2> QED
    BY <2>3, <2>4, <2>5
<1> QED
  BY <1>3, <1>4, <1>5, <1>6

(* A target gets what its first item gets, or is omitted.                  *)
LEMMA FirstItemAnswers ==
  ASSUME NEW t, NEW answer, \A i \in DOMAIN answer : i \in Nat
  PROVE  LET mine == Answering(answer, t.targetId)
         IN  /\ mine = {} => HydrateTarget(t, answer) = Failed("omitted")
             /\ mine # {} =>
                  /\ Min(mine) \in mine /\ \A i \in mine : Min(mine) <= i
                  /\ HydrateTarget(t, answer) = HydrateItem(t, answer[Min(mine)])
<1> DEFINE mine == Answering(answer, t.targetId)
<1>1. mine \in SUBSET Nat
  BY DEF Answering
<1>2. mine # {} => Min(mine) \in mine /\ \A i \in mine : Min(mine) <= i
  <2> HIDE DEF mine
  <2> QED
    BY <1>1, LeastPlace
<1> QED
  BY <1>2 DEF HydrateTarget

-----------------------------------------------------------------------------
(* What is sent can be answered.                                           *)

LEMMA SentOffersEvidence ==
  ASSUME NEW pack \in Packs, NEW item \in Items, NEW source \in Sources,
         Preflight(Enriched(item, pack, source), Getters) = None
  PROVE  LET t == Enriched(item, pack, source)
         IN  /\ t.allowedEvidenceIds = IdsOf(t.evidenceRefs) /\ t.allowedEvidenceIds # {}
             /\ t.targetEvidenceIds \subseteq t.allowedEvidenceIds
             /\ t.targetEvidenceRequired <=> t.method \notin Anonymous
             /\ t.targetEvidenceRequired => t.targetEvidenceIds # {}
             /\ t.targetEvidenceRequired /\ t.method # "<init>" => t.method \in Methods(t)
<1> DEFINE t == Enriched(item, pack, source)
           refs == Evidence(pack)
<1>1. /\ t.evidenceRefs = refs /\ t.allowedEvidenceIds = IdsOf(refs)
      /\ t.method = item.method
      /\ t.targetEvidenceRequired = (item.method \notin Anonymous)
      /\ t.targetEvidenceIds = IF item.method \notin Anonymous
                               THEN TargetEvidence(item.method, refs) ELSE {}
  BY DEF Enriched
<1> HIDE DEF t, refs
<1>2. /\ t.allowedEvidenceIds # {} \/ t.evidenceRefs # {}
      /\ t.targetEvidenceRequired => t.targetEvidenceIds # {}
  <2> DEFINE a == Check(t.allowedEvidenceIds # {} \/ t.evidenceRefs # {}, "no evidence")
             b == Check(t.targetEvidenceRequired => t.targetEvidenceIds # {}, "no evidence")
             c == Check(t.method = "<clinit>" \/ IsEnumSurface(t) => HasEnumConstants(t), "no constants")
             d == Check(t.method = "<init>" /\ HasEnumConstants(t) =>
                          Methods(t) \intersect ({"values", "valueOf"} \cup Getters) # {},
                        "no constants")
             e == Check(~BodyMissing(t), "no body")
  <2>1. Earliest(<<a, b, c, d, e>>) = None
    BY DEF Preflight, t
  <2>2. a = None /\ b = None
    <3> HIDE DEF a, b, c, d, e
    <3> QED
      BY <2>1, EarliestOfFive
  <2> QED
    BY <2>2, NoneIsNoName DEF Check
<1>3. TargetEvidence(item.method, refs) \subseteq IdsOf(refs)
  BY DEF TargetEvidence, IdsOf
<1>4. IdsOf({}) = {}
  BY DEF IdsOf
<1>5. ASSUME t.method \notin Anonymous, t.method # "<init>"
      PROVE  t.method \in Methods(t)
  <2>1. TargetEvidence(t.method, refs) # {}
    BY <1>1, <1>2, <1>5
  <2>2. PICK r \in refs : r.kind = "method" /\ r.name = t.method
    BY <1>5, <2>1 DEF TargetEvidence, IdsOf
  <2> QED
    BY <1>1, <2>2 DEF Methods
<1> QED
  BY <1>1, <1>2, <1>3, <1>4, <1>5 DEF t, IdsOf

LEMMA SentCanBeAnswered ==
  ASSUME NEW pack \in Packs, NEW item \in Items, NEW source \in Sources
  PROVE  CanBeAnswered(Enriched(item, pack, source))
<1> DEFINE t == Enriched(item, pack, source)
           r == Request(t)
           test == BestTest(t)
           answer == <<Best(t)>>
           patch == Canonical(r, <<test>>)
<1> SUFFICES ASSUME Preflight(t, Getters) = None
             PROVE  Hydrate({r}, answer)[r].status = "generated"
  BY DEF CanBeAnswered
<1>1. /\ t.allowedEvidenceIds # {} /\ t.targetEvidenceIds \subseteq t.allowedEvidenceIds
      /\ t.targetEvidenceRequired => t.targetEvidenceIds # {}
      /\ t.targetEvidenceRequired /\ t.method # "<init>" => t.method \in Methods(t)
      /\ t.targetEvidenceRequired <=> t.method \notin Anonymous
  BY SentOffersEvidence
<1>2. /\ t.targetId # Scalar /\ test.evidence # Scalar
      /\ <<test>> \notin {None, Scalar} /\ patch # None
  <2>1. test.evidence \in SUBSET t.allowedEvidenceIds
    BY <1>1 DEF BestTest
  <2> QED
    BY <2>1, OnTargets
<1>3. /\ r.targetId = t.targetId /\ r.sut = t.sut /\ r.canonicalTestClass = t.sut
      /\ r.allowedImports = t.allowedImports /\ r.allowedEvidenceIds = t.allowedEvidenceIds
      /\ r.evidenceRefs = t.evidenceRefs /\ r.targetEvidenceIds = t.targetEvidenceIds
      /\ r.targetEvidenceRequired = t.targetEvidenceRequired
  BY DEF Request
<1>4. Methods(r) = Methods(t)
  BY <1>3 DEF Methods
<1>5. Sound(test, r)
  <2> HIDE DEF t, r
  <2>1. test.calls \subseteq Methods(t)
    BY <1>1 DEF BestTest
  <2> QED
    BY <1>1, <1>2, <1>3, <1>4, <2>1 DEF Sound, BestTest
<1>6. /\ ~patch.full /\ patch.schemaVersion = 1 /\ patch.patchId = "patch:"
      /\ patch.sut = r.sut /\ patch.testClass = r.canonicalTestClass
      /\ patch.allowedImports = Concrete(r.allowedImports) /\ patch.methods = <<test>>
      /\ patch.requires = {}
  BY DEF Canonical
<1>7. /\ answer[1].object /\ answer[1].targetId = t.targetId /\ answer[1].status = "generated"
      /\ answer[1].methods = <<test>> /\ DOMAIN answer = {1}
  BY DEF Best
<1> HIDE DEF t, r, test, answer, patch
<1>8. IsList(<<test>>) /\ DOMAIN <<test>> = {1} /\ <<test>>[1] = test /\ <<test>> # <<>>
  <2>1. DOMAIN <<test>> = 1 .. 1 /\ <<test>>[1] = test /\ <<test>> # <<>>
    OBVIOUS
  <2>2. IsFiniteSet(1 .. 1)
    BY FirstPlaces
  <2> QED
    BY <2>1, <2>2 DEF IsList
<1>9. CompletionMethods(answer[1]) = <<test>>
  BY <1>2, <1>7 DEF CompletionMethods
<1>10. ValidatePatch(patch, r, "patch:") = None
  <2>1. Structure(patch, r, "patch:") = None
    BY <1>2, <1>6 DEF Structure, Check
  <2>2. Imports(patch, r) = None
    <3>1. test.requires = {}
      BY DEF test, BestTest
    <3> QED
      BY <1>6, <1>8, <3>1 DEF Imports, Check, Concrete
  <2>3. \A i \in DOMAIN patch.methods : Sound(patch.methods[i], r)
    BY <1>5, <1>6, <1>8
  <2>4. IsList(patch.methods) /\ patch.methods \notin {None, Scalar, <<>>}
    BY <1>2, <1>6, <1>8
  <2>5. r.targetEvidenceRequired => r.targetEvidenceIds # {}
    BY <1>1, <1>3
  <2> QED
    BY <2>1, <2>2, <2>3, <2>4, <2>5, ValidDescriptor
<1>11. HydrateItem(r, answer[1]).status = "generated"
  <2>1. test.object
    BY <1>5 DEF Sound
  <2> DEFINE methods == CompletionMethods(answer[1])
  <2>2. IsList(methods) /\ methods \notin {None, Scalar, <<>>}
    BY <1>2, <1>8, <1>9
  <2>3. \A i \in DOMAIN methods : methods[i].object
    BY <1>8, <1>9, <2>1
  <2>4. ValidatePatch(Canonical(r, methods), r, "patch:") = None
    BY <1>9, <1>10 DEF patch
  <2> HIDE DEF methods
  <2> QED
    BY <1>7, <2>2, <2>3, <2>4, HydratedItem DEF methods
<1>12. Answering(answer, r.targetId) = {1} /\ Min({1}) = 1
  <2>1. Answering(answer, r.targetId) = {1}
    BY <1>3, <1>7 DEF Answering
  <2>2. Min({1}) \in {1}
    BY LeastPlace
  <2> QED
    BY <2>1, <2>2
<1>13. ~Raises({r}, answer)
  BY <1>2, <1>5, <1>7, <1>8, <1>9, <1>12 DEF Raises
<1>14. Hydrate({r}, answer)[r] = HydrateTarget(r, answer)
  BY <1>13 DEF Hydrate
<1> QED
  BY <1>11, <1>12, <1>14 DEF HydrateTarget

-----------------------------------------------------------------------------
(* The counts of an answer add up.                                         *)

LEMMA InTwo ==
  ASSUME NEW S, IsFiniteSet(S), NEW P \in SUBSET S
  PROVE  /\ IsFiniteSet(P) /\ IsFiniteSet(S \ P)
         /\ Cardinality(S) \in Nat /\ Cardinality(P) \in Nat /\ Cardinality(S \ P) \in Nat
         /\ Cardinality(S) = Cardinality(P) + Cardinality(S \ P)
<1>1. IsFiniteSet(P)
  BY FS_Subset
<1>2. IsFiniteSet(S \ P) /\ Cardinality(S \ P) = Cardinality(S) - Cardinality(S \cap P)
  BY FS_Difference
<1>3. S \cap P = P
  OBVIOUS
<1>4. Cardinality(S) \in Nat /\ Cardinality(P) \in Nat /\ Cardinality(S \ P) \in Nat
  BY <1>1, <1>2, FS_CardinalityType
<1> QED
  BY <1>1, <1>2, <1>3, <1>4

Counters == {"omitted", "skipped", "NEED_MORE_CONTEXT", "model", "generated", "invalid"}

LEMMA InSix ==
  ASSUME NEW S, IsFiniteSet(S), NEW c \in [S -> Counters]
  PROVE  LET Number(k) == Cardinality({x \in S : c[x] = k})
         IN  /\ Cardinality(S) = Number("skipped") + Number("NEED_MORE_CONTEXT") + Number("model")
                                   + Number("generated") + Number("invalid") + Number("omitted")
             /\ Cardinality(S) \in Nat /\ Number("omitted") \in Nat
<1> DEFINE Part(k) == {x \in S : c[x] = k}
           Rest(ks) == {x \in S : c[x] \in ks}
<1>1. ASSUME NEW ks, NEW k \in ks
      PROVE  /\ Cardinality(Rest(ks)) = Cardinality(Part(k)) + Cardinality(Rest(ks \ {k}))
             /\ Cardinality(Part(k)) \in Nat
  <2>1. Rest(ks) \in SUBSET S
    OBVIOUS
  <2>2. IsFiniteSet(Rest(ks))
    BY <2>1, FS_Subset
  <2>3. Part(k) \in SUBSET Rest(ks)
    OBVIOUS
  <2>4. Rest(ks) \ Part(k) = Rest(ks \ {k})
    OBVIOUS
  <2> HIDE DEF Rest, Part
  <2>5. /\ Cardinality(Rest(ks)) = Cardinality(Part(k)) + Cardinality(Rest(ks) \ Part(k))
        /\ Cardinality(Part(k)) \in Nat
    BY <2>2, <2>3, InTwo
  <2> QED
    BY <2>4, <2>5
<1>2. Rest(Counters) = S
  OBVIOUS
<1>3. Rest({"omitted"}) = Part("omitted")
  OBVIOUS
<1> DEFINE k1 == Counters \ {"skipped"}
           k2 == k1 \ {"NEED_MORE_CONTEXT"}
           k3 == k2 \ {"model"}
           k4 == k3 \ {"generated"}
           k5 == k4 \ {"invalid"}
<1>4. /\ "skipped" \in Counters /\ "NEED_MORE_CONTEXT" \in k1 /\ "model" \in k2
      /\ "generated" \in k3 /\ "invalid" \in k4 /\ k5 = {"omitted"} /\ "omitted" \in k5
  BY DEF Counters
<1>5. Cardinality(S) \in Nat
  BY FS_CardinalityType
<1> HIDE DEF Rest, Part, k1, k2, k3, k4, k5
<1>6. /\ Cardinality(S) = Cardinality(Part("skipped")) + Cardinality(Rest(k1))
      /\ Cardinality(Part("skipped")) \in Nat
  BY <1>1, <1>2, <1>4 DEF k1
<1>7. /\ Cardinality(Rest(k1)) = Cardinality(Part("NEED_MORE_CONTEXT")) + Cardinality(Rest(k2))
      /\ Cardinality(Part("NEED_MORE_CONTEXT")) \in Nat
  BY <1>1, <1>4 DEF k2
<1>8. /\ Cardinality(Rest(k2)) = Cardinality(Part("model")) + Cardinality(Rest(k3))
      /\ Cardinality(Part("model")) \in Nat
  BY <1>1, <1>4 DEF k3
<1>9. /\ Cardinality(Rest(k3)) = Cardinality(Part("generated")) + Cardinality(Rest(k4))
      /\ Cardinality(Part("generated")) \in Nat
  BY <1>1, <1>4 DEF k4
<1>10. /\ Cardinality(Rest(k4)) = Cardinality(Part("invalid")) + Cardinality(Part("omitted"))
       /\ Cardinality(Part("invalid")) \in Nat /\ Cardinality(Part("omitted")) \in Nat
  <2>1. /\ Cardinality(Rest(k4)) = Cardinality(Part("invalid")) + Cardinality(Rest(k5))
        /\ Cardinality(Part("invalid")) \in Nat
    BY <1>1, <1>4 DEF k5
  <2>2. Rest(k5) = Part("omitted")
    BY <1>3, <1>4
  <2>3. Cardinality(Part("omitted")) \in Nat
    BY <1>1, <1>4
  <2> QED
    BY <2>1, <2>2, <2>3
<1>11. Cardinality(S) = Cardinality(Part("skipped")) + Cardinality(Part("NEED_MORE_CONTEXT"))
                         + Cardinality(Part("model")) + Cardinality(Part("generated"))
                         + Cardinality(Part("invalid")) + Cardinality(Part("omitted"))
  BY <1>6, <1>7, <1>8, <1>9, <1>10
<1> QED
  BY <1>5, <1>10, <1>11 DEF Part

LEMMA AnswerIsList ==
  ASSUME NEW answer \in Answers
  PROVE  /\ Len(answer) \in Nat /\ DOMAIN answer = 1 .. Len(answer)
         /\ IsFiniteSet(DOMAIN answer) /\ Cardinality(DOMAIN answer) = Len(answer)
         /\ \A i \in DOMAIN answer : i \in Nat /\ answer[i] \in AnswerItems
<1>1. answer \in Seq(AnswerItems)
  BY OnAnswers
<1>2. /\ Len(answer) \in Nat /\ DOMAIN answer = 1 .. Len(answer)
      /\ \A i \in 1 .. Len(answer) : i \in Nat /\ answer[i] \in AnswerItems
  BY <1>1
<1> QED
  BY <1>2, FirstPlaces

(* An outcome has a counter of its own, "omitted" if no item answers.      *)
LEMMA OutcomeIsCounted ==
  ASSUME NEW t, NEW answer \in Answers
  PROVE  LET counter == Counter(HydrateTarget(t, answer))
         IN  /\ counter \in Counters
             /\ counter = "omitted" <=> Answering(answer, t.targetId) = {}
<1> DEFINE mine == Answering(answer, t.targetId)
           out == HydrateTarget(t, answer)
<1>1. /\ mine = {} => out = Failed("omitted")
      /\ mine # {} => Min(mine) \in mine /\ out = HydrateItem(t, answer[Min(mine)])
  BY AnswerIsList, FirstItemAnswers
<1>2. CASE mine = {}
  BY <1>1, <1>2 DEF Failed, Counter, Counters
<1>3. CASE mine # {}
  <2> DEFINE item == answer[Min(mine)]
  <2>1. item \in AnswerItems /\ item.object
    BY <1>1, <1>3, AnswerIsList DEF Answering
  <2>2. CompletionMethods(item) \notin {None, Scalar} => IsList(CompletionMethods(item))
    BY <2>1, OnAnswers
  <2>3. out = HydrateItem(t, item)
    BY <1>1, <1>3
  <2> HIDE DEF item, mine, out
  <2>4. /\ out.status \in {"generated", "skipped", "NEED_MORE_CONTEXT", "failed"}
        /\ out.reason # "omitted"
    BY <2>2, <2>3, HydratedItem
  <2> QED
    BY <1>3, <2>4 DEF Counter, Counters, mine, out
<1> QED
  BY <1>2, <1>3

LEMMA CountsAgree ==
  ASSUME NEW request \in Requests, NEW answer \in Answers, ~Raises(request, answer)
  PROVE  CountsAddUp(request, answer)
<1> DEFINE ids      == {t.targetId : t \in request}
           objects  == {i \in DOMAIN answer : answer[i].object}
           known    == {i \in objects : answer[i].targetId \in ids}
           answered == {answer[i].targetId : i \in known}
           out      == Hydrate(request, answer)
           counter  == [t \in request |-> Counter(out[t])]
           omitted  == {t \in request : counter[t] = "omitted"}
           settled  == request \ omitted
           Number(k) == Cardinality({t \in request : Counter(out[t]) = k})
<1>1. IsFiniteSet(request) /\ \A t, u \in request : t.targetId = u.targetId => t = u
  BY OnRequests
<1>2. \A t \in request : out[t] = HydrateTarget(t, answer)
  BY DEF Hydrate
<1>3. /\ counter \in [request -> Counters]
      /\ \A t \in request : counter[t] = "omitted" <=> Answering(answer, t.targetId) = {}
  BY <1>2, OutcomeIsCounted
<1>4. /\ Cardinality(request) = Number("skipped") + Number("NEED_MORE_CONTEXT") + Number("model")
                                   + Number("generated") + Number("invalid") + Number("omitted")
      /\ Cardinality(request) \in Nat /\ Number("omitted") \in Nat
  <2> DEFINE Part(k) == {t \in request : counter[t] = k}
  <2>1. \A k : Part(k) = {t \in request : Counter(out[t]) = k}
    OBVIOUS
  <2>2. \A k : Cardinality(Part(k)) = Number(k)
    BY <2>1
  <2> HIDE DEF counter, out, Number
  <2>3. /\ Cardinality(request) = Cardinality(Part("skipped")) + Cardinality(Part("NEED_MORE_CONTEXT"))
                                   + Cardinality(Part("model")) + Cardinality(Part("generated"))
                                   + Cardinality(Part("invalid")) + Cardinality(Part("omitted"))
        /\ Cardinality(request) \in Nat /\ Cardinality(Part("omitted")) \in Nat
    BY <1>1, <1>3, InSix
  <2> HIDE DEF Part
  <2> QED
    BY <2>2, <2>3
<1>5. Cardinality(settled) = Cardinality(request) - Number("omitted")
  <2>1. omitted = {t \in request : Counter(out[t]) = "omitted"}
    OBVIOUS
  <2>2. omitted \in SUBSET request
    OBVIOUS
  <2>3. Cardinality(omitted) = Number("omitted")
    BY <2>1
  <2> HIDE DEF omitted, counter, out, Number
  <2>4. /\ Cardinality(request) = Cardinality(omitted) + Cardinality(request \ omitted)
        /\ Cardinality(request \ omitted) \in Nat
    BY <1>1, <2>2, InTwo
  <2> QED
    BY <1>4, <2>3, <2>4
<1>6. Cardinality(answered) = Cardinality(settled)
  <2> DEFINE id == [t \in settled |-> t.targetId]
  <2>1. \A t \in settled : t.targetId \in answered
    BY <1>3 DEF Answering
  <2>2. \A a \in answered : \E t \in settled : t.targetId = a
    BY <1>3 DEF Answering
  <2>3. id \in Surjection(settled, answered) /\ id \in Injection(settled, answered)
    BY <1>1, <2>1, <2>2 DEF Surjection, Injection, IsInjective
  <2>4. IsFiniteSet(settled)
    BY <1>1, FS_Difference
  <2> HIDE DEF id, settled, answered
  <2> QED
    BY <2>3, <2>4, FS_Surjection
<1>7. /\ Len(answer) = Cardinality(objects) + Cardinality(DOMAIN answer \ objects)
      /\ Cardinality(objects) = Cardinality(known) + Cardinality(objects \ known)
      /\ Cardinality(objects) \in Nat /\ Cardinality(known) \in Nat
      /\ Cardinality(objects \ known) \in Nat /\ Cardinality(DOMAIN answer \ objects) \in Nat
  <2>1. objects \in SUBSET DOMAIN answer /\ known \in SUBSET objects
    OBVIOUS
  <2>2. IsFiniteSet(DOMAIN answer) /\ Cardinality(DOMAIN answer) = Len(answer)
    BY AnswerIsList
  <2> HIDE DEF objects, known
  <2>3. /\ IsFiniteSet(objects) /\ Cardinality(objects) \in Nat
        /\ Cardinality(DOMAIN answer) = Cardinality(objects) + Cardinality(DOMAIN answer \ objects)
        /\ Cardinality(DOMAIN answer \ objects) \in Nat
    BY <2>1, <2>2, InTwo
  <2> QED
    BY <2>1, <2>2, <2>3, InTwo
<1>8. DOMAIN answer \ objects = {i \in DOMAIN answer : ~answer[i].object}
  OBVIOUS
<1>9. Counts(request, answer) =
        [received |-> Len(answer), unknown |-> Cardinality(objects \ known),
         duplicated |-> Cardinality(known) - Cardinality(answered),
         omitted |-> Number("omitted"), skipped |-> Number("skipped"),
         needMoreContext |-> Number("NEED_MORE_CONTEXT"), failed |-> Number("model"),
         generatedValid |-> Number("generated"), generatedInvalid |-> Number("invalid")]
  BY DEF Counts
<1> DEFINE counts == Counts(request, answer)
           c1 == Number("skipped")
           c2 == Number("NEED_MORE_CONTEXT")
           c3 == Number("model")
           c4 == Number("generated")
           c5 == Number("invalid")
           c6 == Number("omitted")
           none == Cardinality({i \in DOMAIN answer : ~answer[i].object})
<1>10. /\ counts.received = Len(answer) /\ counts.unknown = Cardinality(objects \ known)
       /\ counts.duplicated = Cardinality(known) - Cardinality(answered)
       /\ counts.omitted = c6 /\ counts.skipped = c1 /\ counts.needMoreContext = c2
       /\ counts.failed = c3 /\ counts.generatedValid = c4 /\ counts.generatedInvalid = c5
  BY <1>9
<1>11. Cardinality(request) = c1 + c2 + c3 + c4 + c5 + c6
  BY <1>4
<1>12. /\ Len(answer) = Cardinality(objects) + none /\ none \in Nat
       /\ Cardinality(answered) = Cardinality(request) - c6
       /\ c6 \in Nat /\ Cardinality(request) \in Nat
  BY <1>4, <1>5, <1>6, <1>7, <1>8
<1> HIDE DEF Number, c1, c2, c3, c4, c5, c6, none, counts, objects, known, answered, out, counter,
             omitted, settled, ids
<1>13. Total(counts) = Cardinality(request)
  BY <1>10, <1>11 DEF Total
<1>14. counts.received - counts.unknown - counts.duplicated =
         Cardinality(request) - counts.omitted + none
  <2> DEFINE n == Cardinality(request)
             o == Cardinality(objects)
             k == Cardinality(known)
             u == Cardinality(objects \ known)
  <2>1. /\ n \in Nat /\ o \in Nat /\ k \in Nat /\ u \in Nat /\ c6 \in Nat /\ none \in Nat
        /\ o = k + u
        /\ counts.received = o + none /\ counts.unknown = u /\ counts.duplicated = k - (n - c6)
        /\ counts.omitted = c6
    BY <1>7, <1>10, <1>12
  <2> HIDE DEF n, o, k, u
  <2>2. counts.received - counts.unknown - counts.duplicated = n - counts.omitted + none
    BY <2>1
  <2> QED
    BY <2>2 DEF n
<1> QED
  BY <1>13, <1>14 DEF CountsAddUp, counts, none

-----------------------------------------------------------------------------
(* Each target gets what the first item about it alone would get.          *)

LEMMA FirstItemAlone ==
  ASSUME NEW request \in Requests, NEW answer \in Answers, ~Raises(request, answer),
         NEW t \in request, NEW n \in 0 .. Len(answer),
         Answering(SubSeq(answer, 1, n), t.targetId) # {}
  PROVE  Hydrate(request, answer)[t] = Hydrate({t}, SubSeq(answer, 1, n))[t]
<1> DEFINE prefix == SubSeq(answer, 1, n)
           mine == Answering(answer, t.targetId)
           few == Answering(prefix, t.targetId)
<1>1. /\ Len(answer) \in Nat /\ n \in Nat /\ n <= Len(answer)
      /\ DOMAIN answer = 1 .. Len(answer)
      /\ \A i \in DOMAIN answer : i \in Nat
  BY AnswerIsList
<1>2. DOMAIN prefix = 1 .. n /\ \A i \in 1 .. n : prefix[i] = answer[i]
  <2>1. prefix = [i \in 1 .. n |-> answer[i]]
    <3>1. answer \in Seq(AnswerItems)
      BY OnAnswers
    <3> QED
      BY <1>1, <3>1
  <2> QED
    BY <2>1
<1> HIDE DEF prefix
<1>3. few = mine \cap (1 .. n)
  BY <1>1, <1>2 DEF Answering
<1>4. few # {} /\ mine # {}
  BY <1>3 DEF prefix
<1>5. /\ Min(mine) \in mine /\ \A i \in mine : Min(mine) <= i
      /\ Min(few) \in few /\ \A i \in few : Min(few) <= i
  <2>1. mine \in SUBSET Nat /\ few \in SUBSET Nat
    BY <1>1, <1>3 DEF Answering
  <2> HIDE DEF mine, few
  <2> QED
    BY <1>4, <2>1, LeastPlace
<1>6. Min(mine) = Min(few) /\ Min(mine) \in 1 .. n
  <2>1. Min(mine) \in Nat /\ Min(few) \in Nat
    BY <1>1, <1>3, <1>5 DEF Answering
  <2> DEFINE a == Min(mine)
             b == Min(few)
  <2>2. a <= b /\ b <= n /\ a \in Nat /\ b \in Nat
    BY <1>1, <1>3, <1>5, <2>1
  <2>3. a >= 1
    BY <1>1, <1>5 DEF Answering
  <2>4. a \in few
    BY <1>1, <1>3, <1>5, <2>2, <2>3
  <2>5. b <= a
    BY <1>5, <2>4
  <2> HIDE DEF a, b
  <2>6. a = b /\ a \in 1 .. n
    BY <1>1, <2>2, <2>3, <2>5
  <2> QED
    BY <2>6 DEF a, b
<1>7. prefix[Min(few)] = answer[Min(mine)]
  BY <1>2, <1>6
<1>8. HydrateTarget(t, answer) = HydrateTarget(t, prefix)
  BY <1>4, <1>7 DEF HydrateTarget
<1>9. ~Raises({t}, prefix)
  <2>1. \A i \in DOMAIN prefix : ~(prefix[i].object /\ prefix[i].targetId = Scalar)
    BY <1>1, <1>2 DEF Raises
  <2> QED
    BY <1>4, <1>7, <2>1 DEF Raises
<1>10. /\ Hydrate(request, answer)[t] = HydrateTarget(t, answer)
       /\ Hydrate({t}, prefix)[t] = HydrateTarget(t, prefix)
  BY <1>9 DEF Hydrate
<1> QED
  BY <1>8, <1>10 DEF prefix

(* A valid descriptor with the imports of the request is backed by it.     *)
LEMMA ValidIsBacked ==
  ASSUME NEW p, NEW t, NEW prefix,
         p.methods \notin {None, Scalar} => IsList(p.methods),
         p.allowedImports = Concrete(t.allowedImports),
         ValidatePatch(p, t, prefix) = None
  PROVE  /\ Backed(p, t)
         /\ ~p.full /\ p.schemaVersion = 1 /\ p.patchId = prefix /\ p # None
<1>1. Structure(p, t, prefix) = None /\ \A i \in DOMAIN p.methods : Sound(p.methods[i], t)
  BY ValidDescriptor
<1>2. /\ p # None /\ ~p.full /\ p.schemaVersion = 1 /\ p.patchId = prefix
      /\ p.sut = t.sut /\ p.testClass = t.canonicalTestClass
  BY <1>1, NoneIsNoName DEF Structure, Check
<1>3. p.allowedImports \subseteq t.allowedImports \ Wildcards
  BY DEF Concrete
<1>4. p.requires \subseteq t.allowedImports
  BY ValidDescriptor, NoneIsNoName DEF Imports, Check
<1> QED
  BY <1>1, <1>2, <1>3, <1>4 DEF Backed, Sound

LEMMA GeneratedIsBacked ==
  ASSUME NEW request \in Requests, NEW answer \in Answers, ~Raises(request, answer),
         NEW t \in request, Hydrate(request, answer)[t].status = "generated"
  PROVE  LET patch == Hydrate(request, answer)[t].patch
         IN  /\ Backed(patch, t)
             /\ ValidateGeneration(request, <<Item(t.targetId, "generated", None, patch)>>)
<1> DEFINE mine == Answering(answer, t.targetId)
           item == answer[Min(mine)]
           out == HydrateTarget(t, answer)
           patch == Canonical(t, CompletionMethods(item))
           answers == <<Item(t.targetId, "generated", None, patch)>>
<1>1. Hydrate(request, answer)[t] = out
  BY DEF Hydrate
<1>2. mine # {} /\ Min(mine) \in mine /\ out = HydrateItem(t, item)
  <2>1. mine = {} => out.status = "failed"
    BY AnswerIsList, FirstItemAnswers DEF Failed
  <2> QED
    BY <1>1, <2>1, AnswerIsList, FirstItemAnswers
<1>3. item \in AnswerItems /\ item.object
  BY <1>2, AnswerIsList DEF Answering
<1>4. CompletionMethods(item) \notin {None, Scalar} => IsList(CompletionMethods(item))
  BY <1>3, OnAnswers
<1>5. ValidatePatch(patch, t, "patch:") = None /\ out.patch = patch
  <2> HIDE DEF item, out
  <2> QED
    BY <1>1, <1>2, <1>4, HydratedItem
<1>6. patch.methods = CompletionMethods(item) /\ patch.allowedImports = Concrete(t.allowedImports)
  BY DEF Canonical
<1> HIDE DEF patch, out, item
<1>7. Backed(patch, t)
  BY <1>4, <1>5, <1>6, ValidIsBacked
<1>8. /\ DOMAIN answers = {1} /\ answers[1].object /\ answers[1].targetId = t.targetId
      /\ answers[1].status = "generated" /\ answers[1].legacy = patch
  BY DEF Item
<1> HIDE DEF answers
<1>9. ValidateGeneration(request, answers)
  BY <1>5, <1>8 DEF ValidateGeneration
<1> QED
  BY <1>1, <1>5, <1>7, <1>9 DEF answers

LEMMA GenerationSettled ==
  ASSUME NEW request \in Requests, NEW answer \in Answers, ~Raises(request, answer)
  PROVE  GenerationIsSettled(request, answer)
BY CountsAgree, FirstItemAlone, GeneratedIsBacked DEF GenerationIsSettled

-----------------------------------------------------------------------------
(* A repair that is accepted does without what Python fills in.            *)

LEMMA HydratedRepair ==
  ASSUME NEW p, p # None, NEW t
  PROVE  HydrateRepair(p, t) =
           [full |-> p.full, schemaVersion |-> 1, patchId |-> Filled(p.patchId, "repair:"),
            sut |-> Filled(p.sut, t.sut), testClass |-> Filled(p.testClass, t.canonicalTestClass),
            allowedImports |-> Concrete(t.allowedImports), requires |-> p.requires,
            methods |-> p.methods]
BY DEF HydrateRepair, Filled

LEMMA FilledInAnyway ==
  ASSUME NEW item \in RepairItems, item.object, item.status = "repaired", NEW t,
         ValidatePatch(HydrateRepair(item.legacy, t), t, "repair:") = None
  PROVE  /\ Backed(HydrateRepair(item.legacy, t), t)
         /\ HydrateRepair(Omit(item).legacy, t) = HydrateRepair(item.legacy, t)
         /\ Omit(item).object /\ Omit(item).targetId = item.targetId
         /\ Omit(item).status = "repaired"
<1> DEFINE p == item.legacy
           h == HydrateRepair(p, t)
           o == Omit(item).legacy
<1>1. /\ h.methods = Filled(p, Empty).methods
      /\ h.allowedImports = Concrete(t.allowedImports)
  BY DEF HydrateRepair
<1>2. h.methods \notin {None, Scalar} => IsList(h.methods)
  BY <1>1, OnRepairs DEF Filled, Empty
<1>3. /\ Backed(h, t) /\ h.patchId = "repair:" /\ h.methods # None
  <2> HIDE DEF h
  <2> QED
    BY <1>1, <1>2, ValidIsBacked, ValidDescriptor DEF h
<1>4. p # None
  BY <1>1, <1>3 DEF Filled, Empty
<1>5. /\ item = Item(item.targetId, item.status, item.methods, p) /\ o # None
      /\ p = [full |-> p.full, schemaVersion |-> p.schemaVersion, patchId |-> p.patchId,
              sut |-> p.sut, testClass |-> p.testClass, allowedImports |-> p.allowedImports,
              requires |-> p.requires, methods |-> p.methods]
  BY <1>4, OnRepairs DEF IsDescriptor
<1>6. /\ o = [full |-> p.full, schemaVersion |-> None, patchId |-> None, sut |-> None,
              testClass |-> None, allowedImports |-> p.allowedImports, requires |-> p.requires,
              methods |-> p.methods]
      /\ Omit(item).object /\ Omit(item).targetId = item.targetId
      /\ Omit(item).status = "repaired"
  BY <1>5 DEF Omit, Item
<1>7. h = [full |-> p.full, schemaVersion |-> 1, patchId |-> Filled(p.patchId, "repair:"),
          sut |-> Filled(p.sut, t.sut), testClass |-> Filled(p.testClass, t.canonicalTestClass),
          allowedImports |-> Concrete(t.allowedImports), requires |-> p.requires,
          methods |-> p.methods]
  <2> HIDE DEF p
  <2> QED
    BY <1>4, <1>5, HydratedRepair
<1>8. HydrateRepair(o, t) =
        [full |-> p.full, schemaVersion |-> 1, patchId |-> "repair:", sut |-> t.sut,
         testClass |-> t.canonicalTestClass, allowedImports |-> Concrete(t.allowedImports),
         requires |-> p.requires, methods |-> p.methods]
  <2>1. \A x : Filled(None, x) = x
    BY DEF Filled
  <2> HIDE DEF o, p
  <2>2. HydrateRepair(o, t) =
          [full |-> p.full, schemaVersion |-> 1, patchId |-> Filled(None, "repair:"),
           sut |-> Filled(None, t.sut), testClass |-> Filled(None, t.canonicalTestClass),
           allowedImports |-> Concrete(t.allowedImports),
           requires |-> p.requires, methods |-> p.methods]
    BY <1>5, <1>6, HydratedRepair
  <2> QED
    BY <2>1, <2>2
<1>9. /\ h.patchId = "repair:" /\ h.sut = t.sut /\ h.testClass = t.canonicalTestClass
  BY <1>3 DEF Backed
<1>10. h = HydrateRepair(o, t)
  BY <1>7, <1>8, <1>9
<1> QED
  BY <1>3, <1>6, <1>10

LEMMA RepairSettled ==
  ASSUME NEW request \in Requests, NEW answer \in Repairs
  PROVE  RepairIsSettled(request, answer)
<1> SUFFICES ASSUME ValidateRepair(request, answer),
                    NEW i \in DOMAIN answer, answer[i].status = "repaired"
             PROVE  /\ \A t \in request : t.targetId = answer[i].targetId =>
                         Backed(HydrateRepair(answer[i].legacy, t), t)
                    /\ ValidateRepair(request, [answer EXCEPT ![i] = Omit(@)])
  BY DEF RepairIsSettled
<1> DEFINE item == answer[i]
           less == [answer EXCEPT ![i] = Omit(@)]
<1>1. item \in RepairItems
  <2>1. answer \in Seq(RepairItems)
    BY OnRepairs
  <2> QED
    BY <2>1
<1>2. PICK u \in request :
        /\ u.targetId = item.targetId
        /\ ValidatePatch(HydrateRepair(item.legacy, u), u, "repair:") = None
  BY DEF ValidateRepair
<1>3. item.object
  BY DEF ValidateRepair
<1>4. /\ Backed(HydrateRepair(item.legacy, u), u)
      /\ HydrateRepair(Omit(item).legacy, u) = HydrateRepair(item.legacy, u)
      /\ Omit(item).object /\ Omit(item).targetId = item.targetId
      /\ Omit(item).status = "repaired"
  <2> HIDE DEF item
  <2> QED
    BY <1>1, <1>2, <1>3, FilledInAnyway DEF item
<1>5. \A t \in request : t.targetId = item.targetId => t = u
  BY <1>2, OnRequests
<1>6. /\ DOMAIN less = DOMAIN answer /\ less[i] = Omit(item)
      /\ \A j \in DOMAIN answer : j # i => less[j] = answer[j]
  OBVIOUS
<1> HIDE DEF item, less
<1>7. ValidateRepair(request, less)
  <2> SUFFICES ASSUME NEW j \in DOMAIN answer
               PROVE  /\ less[j].object
                      /\ \E t \in request :
                           /\ t.targetId = less[j].targetId
                           /\ \/ less[j].status \in {"skipped", "abandoned", "failed", "NEED_MORE_CONTEXT"}
                              \/ /\ less[j].status = "repaired"
                                 /\ ValidatePatch(HydrateRepair(less[j].legacy, t), t, "repair:") = None
    BY <1>6 DEF ValidateRepair
  <2>1. CASE j = i
    BY <1>2, <1>4, <1>6, <2>1
  <2>2. CASE j # i
    BY <1>6, <2>2 DEF ValidateRepair
  <2> QED
    BY <2>1, <2>2
<1> QED
  BY <1>4, <1>5, <1>7 DEF item, less

-----------------------------------------------------------------------------
(* The gates take what the validation lets through.                        *)

(* A detected stack names its frameworks.                                  *)
LEMMA DetectedStack ==
  ASSUME NEW profile \in Profiles, profile # None
  PROVE  LET stack == Stack(profile)
         IN  /\ ~Blocked(stack)
             /\ "unknown" \notin {stack.test, stack.mock, stack.assert}
<1> DEFINE stack == Stack(profile)
<1>1. PICK root \in Roots, modules \in ModuleLists : profile \in Detect(root, modules)
  BY DEF Profiles
<1>2. PICK m : profile.modules # <<>> /\ profile.modules[1] = Written(m)
  <2> DEFINE top == FillVersions(Absorb(root), root.classpath)
             own(pom) == IF DOMAIN pom.classpath = {} THEN root.classpath ELSE pom.classpath
             inherited(i) == Inherit(FillVersions(Absorb(modules[i]), own(modules[i])), top)
             written == IF modules = <<>> THEN <<Written(top)>>
                        ELSE [i \in DOMAIN modules |-> Written(inherited(i))]
  <2>1. profile.modules = written
    BY <1>1 DEF Detect
  <2>2. CASE modules = <<>>
    BY <2>1, <2>2
  <2>3. CASE modules # <<>>
    <3>1. 1 \in DOMAIN modules
      BY <2>3, OnGates
    <3> HIDE DEF inherited
    <3>2. profile.modules[1] = Written(inherited(1)) /\ 1 \in DOMAIN profile.modules
      BY <2>1, <2>3, <3>1
    <3> QED
      BY <3>2
  <2> QED
    BY <2>2, <2>3
<1> DEFINE first == Written(m)
<1>3. /\ first.test \in {"junit4", "junit5"} /\ first.mock = "mockito"
      /\ first.assert \in {"assertj", "hamcrest", "junit-builtin"}
  BY DEF Written
<1>4. None \notin {first.test, first.mock}
  BY <1>3, NoneIsNoName
<1> HIDE DEF first
<1>5. stack = [test |-> first.test, mock |-> first.mock, assert |-> first.assert,
               spring |-> first.spring]
  BY <1>2, <1>4 DEF Stack, first
<1>6. stack.test = first.test /\ stack.mock = first.mock /\ stack.assert = first.assert
  BY <1>5
<1>7. Unknown.test = "unknown"
  BY DEF Unknown
<1> HIDE DEF stack
<1> QED
  BY <1>3, <1>6, <1>7 DEF Blocked, stack

(* The methods in a pack are methods of the contract.                      *)
LEMMA UsableMethods ==
  ASSUME NEW contract, IsList(contract.methods)
  PROVE  ToSet(Usable(contract)) \subseteq ToSet(contract.methods)
<1> DEFINE K == {i \in DOMAIN contract.methods : contract.methods[i].usable}
<1>1. K \in SUBSET Int /\ IsFiniteSet(K)
  BY FS_Subset DEF IsList
<1>2. ToSet(Pick(contract.methods, K)) = {contract.methods[i] : i \in K}
  <2> HIDE DEF K
  <2> QED
    BY <1>1, Picked
<1> QED
  BY <1>2 DEF Usable, ToSet

(* What a pack offers as evidence is in the contracts, or is inherited.    *)
LEMMA OfferedEvidence ==
  ASSUME NEW project \in Projects, NEW class \in DOMAIN project.contracts
  PROVE  LET pack == Pack(project, class, <<>>, <<>>)
         IN  IdsOf(Evidence(View(pack)))
               \subseteq ContractEvidence(project.contracts)
                           \cup IF IsThrowable(pack.sut, pack.type) THEN InheritedIds ELSE {}
<1> DEFINE contract == project.contracts[class]
           pack == Pack(project, class, <<>>, <<>>)
           view == View(pack)
           known == ContractEvidence(project.contracts)
<1>1. /\ pack.constructors = contract.constructors /\ pack.methods = Usable(contract)
  BY DEF Pack
<1>2. /\ view.constructors = {c.id : c \in ToSet(contract.constructors)}
      /\ view.methods = {[name |-> m.name, id |-> m.id] : m \in ToSet(Usable(contract))}
      /\ view.throwable = IsThrowable(pack.sut, pack.type)
  BY <1>1 DEF View
<1> HIDE DEF pack, view
<1>3. /\ \A i \in DOMAIN contract.constructors : contract.constructors[i].id \in known
      /\ \A i \in DOMAIN contract.methods : contract.methods[i].id \in known
  BY DEF ContractEvidence
<1>4. view.constructors \subseteq known
  BY <1>2, <1>3 DEF ToSet
<1>5. IsList(contract.methods)
  BY OnGates
<1>6. \A m \in view.methods : m.id \in known
  <2>1. \A m \in ToSet(contract.methods) : m.id \in known
    BY <1>3 DEF ToSet
  <2>2. \A m \in ToSet(Usable(contract)) : m.id \in known
    BY <1>5, <2>1, UsableMethods
  <2> HIDE DEF contract, known
  <2> QED
    BY <1>2, <2>2
<1>7. IdsOf(Inherited) \subseteq InheritedIds
  BY OnGates
<1> HIDE DEF contract, known
<1>8. ASSUME NEW r \in Evidence(view)
      PROVE  r.id \in known \cup IF view.throwable THEN InheritedIds ELSE {}
  BY <1>4, <1>6, <1>7 DEF Evidence, IdsOf
<1>9. IdsOf(Evidence(view)) \subseteq known \cup IF view.throwable THEN InheritedIds ELSE {}
  BY <1>8 DEF IdsOf
<1> QED
  BY <1>2, <1>9 DEF pack, view, known

LEMMA GatesAreAgreed ==
  ASSUME NEW project \in Projects, NEW class \in DOMAIN project.contracts,
         NEW method \in MethodNames, NEW completion \in Completions
  PROVE  Agreed(project, class, method, completion)
<1> DEFINE pack    == Pack(project, class, <<>>, <<>>)
           target  == [targetId |-> class, sut |-> class, method |-> method]
           request == Request(Enriched(target, View(pack), NoSource))
           item    == Item(class, "generated", completion, None)
           out     == HydrateItem(request, item)
           type    == IF class \in DOMAIN project.classes THEN project.classes[class] ELSE None
<1> SUFFICES ASSUME out.status = "generated"
             PROVE  /\ G1(out.patch, ToSet(pack.imports)) /\ G2(out.patch, project)
                    /\ G5(pack) <=> project.profile # None
  BY DEF Agreed
<1>1. /\ request.allowedImports = ToSet(pack.imports) /\ request.sut = class
      /\ request.allowedEvidenceIds = IdsOf(Evidence(View(pack)))
  BY DEF Request, Enriched, View
<1>2. /\ pack.sut = class /\ pack.type = type
      /\ pack.stack = Stack(project.profile) /\ pack.blocked = Blocked(Stack(project.profile))
  BY DEF Pack
<1>3. item.methods = completion /\ item.legacy = None
  BY DEF Item
<1> HIDE DEF pack, request, item, out
<1>4. CompletionMethods(item) = completion
  BY <1>3 DEF CompletionMethods
<1>5. completion \in {None, Scalar} \/ IsList(completion)
  BY OnGates
<1> DEFINE patch == Canonical(request, completion)
<1>6. /\ out.patch = patch /\ ValidatePatch(patch, request, "patch:") = None
      /\ completion \notin {None, Scalar}
  <2> HIDE DEF patch
  <2> QED
    BY <1>4, <1>5, HydratedItem DEF out, patch
<1>7. /\ patch.methods = completion /\ patch.sut = class
      /\ patch.allowedImports = Concrete(request.allowedImports)
  BY <1>1 DEF Canonical
<1> HIDE DEF patch
<1>8. G1(out.patch, ToSet(pack.imports))
  BY <1>1, <1>6, <1>7 DEF G1, Concrete
<1>9. \A i \in DOMAIN completion : Sound(completion[i], request)
  BY <1>5, <1>6, <1>7, ValidDescriptor
<1>10. IdsOf(Evidence(View(pack)))
         \subseteq ContractEvidence(project.contracts)
                     \cup IF IsThrowable(class, type) THEN InheritedIds ELSE {}
  BY <1>2, OfferedEvidence DEF pack
<1>11. G2(out.patch, project)
  BY <1>1, <1>6, <1>7, <1>9, <1>10 DEF G2, Sound
<1>12. G5(pack) <=> project.profile # None
  <2>1. project.profile \in Profiles
    BY OnGates
  <2>2. CASE project.profile = None
    BY <1>2, <2>2 DEF G5, Stack, Blocked
  <2>3. CASE project.profile # None
    BY <1>2, <2>1, <2>3, DetectedStack DEF G5
  <2> QED
    BY <2>2, <2>3
<1> QED
  BY <1>8, <1>11, <1>12 DEF pack, out

-----------------------------------------------------------------------------
(* Recursive functions.                                                    *)

(* Induction over the numbers, for a set of them.                          *)
LEMMA AllNumbers ==
  ASSUME NEW K \in SUBSET Nat,
         \A n \in Nat : (\A k \in Nat : k < n => k \in K) => n \in K
  PROVE  K = Nat
<1> DEFINE rest == Nat \ K
<1> SUFFICES ASSUME rest # {} PROVE FALSE
  OBVIOUS
<1>1. Min(rest) \in rest /\ \A i \in rest : Min(rest) <= i
  <2>1. rest \in SUBSET Nat
    OBVIOUS
  <2> HIDE DEF rest
  <2> QED
    BY <2>1, LeastPlace
<1> DEFINE n == Min(rest)
<1>2. n \in Nat /\ n \notin K /\ \A k \in Nat : k \notin K => n <= k
  BY <1>1
<1> HIDE DEF n
<1>3. \A k \in Nat : k < n => k \in K
  BY <1>2
<1> QED
  BY <1>2, <1>3

(* F takes functions on D to functions on D, and F[h][d] depends on what h *)
(* is for arguments smaller than d only: F defines a function recursively. *)
LooksDown(F, D, V, size) ==
  \A g, h \in [D -> V], d \in D :
    (\A e \in D : size[e] < size[d] => g[e] = h[e]) => F[g][d] = F[h][d]

IsRecursion(F, D, V, size, bound) ==
  /\ V # {} /\ bound \in Nat /\ size \in [D -> 0 .. bound]
  /\ F \in [[D -> V] -> [D -> V]] /\ LooksDown(F, D, V, size)

LEMMA RecursionIsDefined ==
  ASSUME NEW F, NEW D, NEW V, NEW size, NEW bound, IsRecursion(F, D, V, size, bound)
  PROVE  \E h \in [D -> V] : F[h] = h
<1> USE DEF IsRecursion
<1>0. PICK start \in [D -> V] : TRUE
  <2>1. PICK v \in V : TRUE
    OBVIOUS
  <2>2. [d \in D |-> v] \in [D -> V]
    OBVIOUS
  <2> QED
    BY <2>2
<1> DEFINE Good(n) == \E h \in [D -> V] : \A d \in D : size[d] < n => F[h][d] = h[d]
           K == {n \in Nat : Good(n)}
<1>1. \A d \in D : size[d] \in Nat /\ size[d] <= bound
  OBVIOUS
<1>2. ASSUME NEW n \in Nat, \A k \in Nat : k < n => k \in K
      PROVE  Good(n)
  <2>1. CASE n = 0
    <3>1. \A d \in D : ~(size[d] < 0)
      BY <1>1
    <3> QED
      BY <2>1, <3>1
  <2>2. CASE n # 0
    <3>1. n - 1 \in Nat /\ n - 1 < n
      BY <2>2
    <3>2. PICK h \in [D -> V] : \A d \in D : size[d] < n - 1 => F[h][d] = h[d]
      BY <1>2, <3>1
    <3>3. F[h] \in [D -> V]
      OBVIOUS
    <3>4. \A d \in D : size[d] < n => F[F[h]][d] = F[h][d]
      <4> SUFFICES ASSUME NEW d \in D, size[d] < n PROVE F[F[h]][d] = F[h][d]
        OBVIOUS
      <4>1. \A e \in D : size[e] < size[d] => F[h][e] = h[e]
        BY <1>1, <3>2
      <4> QED
        BY <3>3, <4>1 DEF LooksDown
    <3> QED
      BY <3>3, <3>4
  <2> QED
    BY <2>1, <2>2
<1>3. K = Nat
  <2>1. K \in SUBSET Nat /\ \A n \in Nat : (\A k \in Nat : k < n => k \in K) => n \in K
    BY <1>2
  <2> HIDE DEF K
  <2> QED
    BY <2>1, AllNumbers
<1>4. PICK h \in [D -> V] : \A d \in D : size[d] < bound + 1 => F[h][d] = h[d]
  <2>1. bound + 1 \in K
    <3> HIDE DEF K
    <3> QED
      BY <1>3
  <2> QED
    BY <2>1
<1>5. \A d \in D : F[h][d] = h[d]
  BY <1>1, <1>4
<1> QED
  BY <1>5

-----------------------------------------------------------------------------
(* Sums.                                                                   *)

SumStep(f, h, s) == IF s = {} THEN 0 ELSE LET x == CHOOSE x \in s : TRUE IN f[x] + h[s \ {x}]
IsSum(f, S, h) == h = [s \in SUBSET S |-> SumStep(f, h, s)]

LEMMA SumIsDefined ==
  ASSUME NEW S, IsFiniteSet(S), NEW f, \A x \in S : f[x] \in Int
  PROVE  \E h : IsSum(f, S, h) /\ SumOver(f, S) = h[S]
<1> DEFINE D == SUBSET S
           size == [s \in D |-> Cardinality(s)]
           F == [h \in [D -> Int] |-> [s \in D |-> SumStep(f, h, s)]]
<1>1. \A s \in D : IsFiniteSet(s) /\ Cardinality(s) \in 0 .. Cardinality(S)
  BY FS_Subset, FS_CardinalityType
<1>2. Cardinality(S) \in Nat
  BY FS_CardinalityType
<1>3. \A s \in D : s # {} => LET x == CHOOSE x \in s : TRUE
                             IN  x \in s /\ x \in S /\ s \ {x} \in D /\ size[s \ {x}] < size[s]
  <2> TAKE s \in D
  <2> SUFFICES ASSUME s # {} PROVE LET x == CHOOSE x \in s : TRUE
                             IN  x \in s /\ x \in S /\ s \ {x} \in D /\ size[s \ {x}] < size[s]
    OBVIOUS
  <2> DEFINE x == CHOOSE x \in s : TRUE
  <2>1. x \in s
    OBVIOUS
  <2> HIDE DEF x
  <2>2. IsFiniteSet(s) /\ Cardinality(s) \in Nat
    BY <1>1
  <2>3. Cardinality(s \ {x}) = Cardinality(s) - 1 /\ s \ {x} \in D
    BY <2>1, <2>2, FS_RemoveElement
  <2>4. size[s \ {x}] < size[s]
    BY <2>2, <2>3
  <2> QED
    BY <2>1, <2>3, <2>4 DEF x
<1>4. F \in [[D -> Int] -> [D -> Int]]
  <2>1. ASSUME NEW h \in [D -> Int], NEW s \in D PROVE SumStep(f, h, s) \in Int
    BY <1>3 DEF SumStep
  <2> QED
    BY <2>1
<1>5. LooksDown(F, D, Int, size)
  <2> SUFFICES ASSUME NEW g \in [D -> Int], NEW h \in [D -> Int], NEW d \in D,
                      \A e \in D : size[e] < size[d] => g[e] = h[e]
               PROVE  F[g][d] = F[h][d]
    BY DEF LooksDown
  <2> DEFINE x == CHOOSE x \in d : TRUE
  <2>1. CASE d = {}
    BY <2>1 DEF SumStep
  <2>2. CASE d # {}
    <3>1. g[d \ {x}] = h[d \ {x}]
      BY <1>3, <2>2
    <3> QED
      BY <2>2, <3>1 DEF SumStep
  <2> QED
    BY <2>1, <2>2
<1>6. size \in [D -> 0 .. Cardinality(S)]
  BY <1>1
<1>7. IsRecursion(F, D, Int, size, Cardinality(S))
  BY <1>2, <1>4, <1>5, <1>6 DEF IsRecursion
<1>8. PICK k \in [D -> Int] : F[k] = k
  <2> HIDE DEF D, size, F
  <2> QED
    BY <1>7, RecursionIsDefined
<1>9. IsSum(f, S, k)
  BY <1>8 DEF IsSum
<1> DEFINE iter == CHOOSE h : IsSum(f, S, h)
<1>10. IsSum(f, S, iter)
  BY <1>9
<1>11. SumOver(f, S) = iter[S]
  BY DEF SumOver, MapThenSumSet, MapThenFoldSet, IsSum, SumStep
<1> QED
  BY <1>10, <1>11

(* Induction over the subsets of a finite set, for a set of them.          *)
LEMMA AllSubsets ==
  ASSUME NEW S, IsFiniteSet(S), NEW K \in SUBSET SUBSET S,
         \A s \in SUBSET S : (\A x \in s : s \ {x} \in K) => s \in K
  PROVE  K = SUBSET S
<1> DEFINE Good(n) == \A s \in SUBSET S : Cardinality(s) = n => s \in K
           N == {n \in Nat : Good(n)}
<1>0. \A s \in SUBSET S : IsFiniteSet(s) /\ Cardinality(s) \in Nat
  BY FS_Subset, FS_CardinalityType
<1>1. ASSUME NEW n \in Nat, \A k \in Nat : k < n => Good(k), NEW s \in SUBSET S, Cardinality(s) = n
      PROVE  s \in K
  <2> SUFFICES ASSUME NEW x \in s PROVE s \ {x} \in K
    OBVIOUS
  <2> DEFINE u == s \ {x}
  <2>1. u \in SUBSET S /\ Cardinality(u) = n - 1
    BY <1>0, <1>1, FS_RemoveElement
  <2> HIDE DEF u
  <2>2. n - 1 \in Nat /\ n - 1 < n
    <3>1. Cardinality(u) \in Nat
      BY <1>0, <2>1
    <3> QED
      BY <2>1, <3>1
  <2>3. u \in K
    BY <1>1, <2>1, <2>2
  <2> QED
    BY <2>3 DEF u
<1>2. N = Nat
  <2>1. N \in SUBSET Nat /\ \A n \in Nat : (\A k \in Nat : k < n => k \in N) => n \in N
    <3>1. \A n \in Nat : (\A k \in Nat : k < n => Good(k)) => Good(n)
      BY <1>1
    <3> HIDE DEF Good
    <3> QED
      BY <3>1
  <2> HIDE DEF N
  <2> QED
    BY <2>1, AllNumbers
<1>3. \A s \in SUBSET S : Cardinality(s) \in N
  <2> HIDE DEF N
  <2> QED
    BY <1>0, <1>2
<1> QED
  BY <1>3

LEMMA OneStep ==
  ASSUME NEW f, NEW S, NEW h, IsSum(f, S, h), NEW s \in SUBSET S
  PROVE  /\ s = {} => h[s] = 0
         /\ s # {} => (CHOOSE x \in s : TRUE) \in s
         /\ s # {} => h[s] = f[CHOOSE x \in s : TRUE] + h[s \ {CHOOSE x \in s : TRUE}]
BY DEF IsSum, SumStep

LEMMA SumsAreInt ==
  ASSUME NEW f, NEW S, IsFiniteSet(S), \A x \in S : f[x] \in Int, NEW h, IsSum(f, S, h)
  PROVE  \A s \in SUBSET S : h[s] \in Int
<1> DEFINE K == {s \in SUBSET S : h[s] \in Int}
<1>1. ASSUME NEW s \in SUBSET S, \A x \in s : s \ {x} \in K
      PROVE  s \in K
  <2>1. CASE s = {}
    <3>1. h[s] = 0
      <4> HIDE DEF K
      <4> QED
        BY <2>1, OneStep
    <3> QED
      BY <3>1
  <2>2. CASE s # {}
    <3> DEFINE c == CHOOSE x \in s : TRUE
    <3>1. c \in s /\ h[s] = f[c] + h[s \ {c}]
      BY <2>2, OneStep
    <3> HIDE DEF c
    <3> QED
      BY <1>1, <3>1
  <2> QED
    BY <2>1, <2>2
<1>2. K = SUBSET S
  <2>1. K \in SUBSET SUBSET S
    OBVIOUS
  <2> HIDE DEF K
  <2> QED
    BY <1>1, <2>1, AllSubsets
<1> QED
  BY <1>2

(* The order in which a sum is taken does not matter.                      *)
LEMMA SumsGrow ==
  ASSUME NEW f, NEW S, IsFiniteSet(S), \A x \in S : f[x] \in Int, NEW h, IsSum(f, S, h)
  PROVE  \A s \in SUBSET S : \A x \in S \ s : h[s \cup {x}] = f[x] + h[s]
<1> DEFINE K == {s \in SUBSET S : \A x \in S \ s : h[s \cup {x}] = f[x] + h[s]}
<1>1. ASSUME NEW s \in SUBSET S, \A x \in s : s \ {x} \in K
      PROVE  s \in K
  <2> SUFFICES ASSUME NEW x \in S \ s PROVE h[s \cup {x}] = f[x] + h[s]
    OBVIOUS
  <2> DEFINE u == s \cup {x}
             c == CHOOSE y \in u : TRUE
  <2>1. u \in SUBSET S /\ u # {}
    OBVIOUS
  <2>2. c \in u /\ h[u] = f[c] + h[u \ {c}]
    <3> HIDE DEF u
    <3> QED
      BY <2>1, OneStep
  <2>3. CASE c = x
    <3>1. u \ {c} = s
      BY <2>3
    <3> QED
      BY <2>2, <2>3, <3>1
  <2>4. CASE c # x
    <3> HIDE DEF c
    <3>1. c \in s
      BY <2>2, <2>4
    <3> DEFINE r == s \ {c}
    <3>2. /\ r \in K /\ r \in SUBSET S /\ x \in S \ r /\ c \in S \ r
          /\ u \ {c} = r \cup {x} /\ s = r \cup {c}
      BY <1>1, <2>4, <3>1
    <3>3. h[u \ {c}] = f[x] + h[r] /\ h[s] = f[c] + h[r]
      <4> HIDE DEF r, u
      <4> QED
        BY <3>2
    <3>4. f[c] \in Int /\ f[x] \in Int /\ h[r] \in Int
      <4> HIDE DEF r
      <4> QED
        BY <3>1, <3>2, SumsAreInt
    <3> HIDE DEF r, u
    <3> QED
      BY <2>2, <3>3, <3>4 DEF u
  <2> QED
    BY <2>3, <2>4
<1>2. K = SUBSET S
  <2>1. K \in SUBSET SUBSET S
    OBVIOUS
  <2> HIDE DEF K
  <2> QED
    BY <1>1, <2>1, AllSubsets
<1> QED
  BY <1>2

LEMMA SumsAgree ==
  ASSUME NEW S, IsFiniteSet(S), NEW T \in SUBSET S, NEW f, NEW g, \A x \in T : f[x] = g[x],
         NEW h, IsSum(f, T, h), NEW k, IsSum(g, S, k)
  PROVE  \A s \in SUBSET T : h[s] = k[s]
<1> DEFINE K == {s \in SUBSET T : h[s] = k[s]}
<1>1. ASSUME NEW s \in SUBSET T, \A x \in s : s \ {x} \in K
      PROVE  s \in K
  <2>1. CASE s = {}
    BY <2>1, OneStep
  <2>2. CASE s # {}
    <3> DEFINE c == CHOOSE x \in s : TRUE
    <3>1. c \in s /\ h[s] = f[c] + h[s \ {c}] /\ k[s] = g[c] + k[s \ {c}]
      BY <2>2, OneStep
    <3> HIDE DEF c
    <3> QED
      BY <1>1, <3>1
  <2> QED
    BY <2>1, <2>2
<1>2. K = SUBSET T
  <2>1. K \in SUBSET SUBSET T /\ IsFiniteSet(T)
    BY FS_Subset
  <2> HIDE DEF K
  <2> QED
    BY <1>1, <2>1, AllSubsets
<1> QED
  BY <1>2

LEMMA SumOfNone == ASSUME NEW f PROVE SumOver(f, {}) = 0
<1>1. IsFiniteSet({}) /\ \A x \in {} : f[x] \in Int
  BY FS_EmptySet
<1>2. PICK h : IsSum(f, {}, h) /\ SumOver(f, {}) = h[{}]
  BY <1>1, SumIsDefined
<1> QED
  BY <1>2, OneStep

LEMMA SumIsInt ==
  ASSUME NEW S, IsFiniteSet(S), NEW f, \A x \in S : f[x] \in Int
  PROVE  SumOver(f, S) \in Int
<1>1. PICK h : IsSum(f, S, h) /\ SumOver(f, S) = h[S]
  BY SumIsDefined
<1> QED
  BY <1>1, SumsAreInt

LEMMA SumWithOneMore ==
  ASSUME NEW S, IsFiniteSet(S), NEW x, x \notin S, NEW f, NEW g,
         g[x] \in Int, \A y \in S : f[y] \in Int /\ f[y] = g[y]
  PROVE  SumOver(g, S \cup {x}) = g[x] + SumOver(f, S)
<1> DEFINE U == S \cup {x}
<1>1. IsFiniteSet(U) /\ \A y \in U : g[y] \in Int
  BY FS_AddElement
<1>2. S \in SUBSET U /\ x \in U \ S
  OBVIOUS
<1>3. PICK h : IsSum(f, S, h) /\ SumOver(f, S) = h[S]
  BY SumIsDefined
<1> HIDE DEF U
<1>4. PICK k : IsSum(g, U, k) /\ SumOver(g, U) = k[U]
  BY <1>1, SumIsDefined
<1>5. h[S] = k[S]
  BY <1>1, <1>2, <1>3, <1>4, SumsAgree
<1>6. k[S \cup {x}] = g[x] + k[S]
  BY <1>1, <1>2, <1>4, SumsGrow
<1> QED
  BY <1>3, <1>4, <1>5, <1>6 DEF U

-----------------------------------------------------------------------------
(* Sorted lists.                                                           *)

IsArray(s) == \E n \in Nat : DOMAIN s = 1 .. n

LEMMA ArraysAreLists ==
  ASSUME NEW s, IsArray(s)
  PROVE  /\ IsList(s) /\ DOMAIN s \in SUBSET Int
         /\ \A K \in SUBSET DOMAIN s : K \in SUBSET Int /\ IsFiniteSet(K)
<1>1. PICK n \in Nat : DOMAIN s = 1 .. n
  BY DEF IsArray
<1>2. IsFiniteSet(DOMAIN s)
  BY <1>1, FirstPlaces
<1> QED
  BY <1>1, <1>2, FS_Subset DEF IsList

LEMMA PickIsArray ==
  ASSUME NEW s, NEW K \in SUBSET Int, IsFiniteSet(K)
  PROVE  IsArray(Pick(s, K))
<1>1. InOrder(K) \in [1 .. Cardinality(K) -> K] /\ Cardinality(K) \in Nat
      /\ DOMAIN Pick(s, K) = DOMAIN InOrder(K)
  BY PickedInOrder
<1> QED
  BY <1>1 DEF IsArray

LEMMA SortedInOrder ==
  ASSUME NEW s, IsArray(s), NEW key, IsKey(DOMAIN s, key)
  PROVE  LET at == Places(DOMAIN s, key)
         IN  /\ at \in [DOMAIN s -> DOMAIN s]
             /\ \A i \in DOMAIN s : \E n \in DOMAIN s : at[n] = i
             /\ \A m, n \in DOMAIN s : Precedes(key, at[m], at[n]) <=> m < n
             /\ \A m, n \in DOMAIN s : at[m] = at[n] => m = n
             /\ DOMAIN Sorted(s, key) = DOMAIN s
             /\ \A n \in DOMAIN s : Sorted(s, key)[n] = s[at[n]]
<1> DEFINE at == Places(DOMAIN s, key)
<1>1. PICK k \in Nat : DOMAIN s = 1 .. k
  BY DEF IsArray
<1>2. Cardinality(DOMAIN s) = k /\ IsFiniteSet(DOMAIN s) /\ DOMAIN s \in SUBSET Int
  BY <1>1, FirstPlaces
<1>3. /\ at \in [DOMAIN s -> DOMAIN s]
      /\ \A i \in DOMAIN s : \E n \in DOMAIN at : at[n] = i
      /\ \A m, n \in DOMAIN at : Precedes(key, at[m], at[n]) <=> m < n
      /\ \A m, n \in DOMAIN at : at[m] = at[n] => m = n
  BY <1>1, <1>2, PlacesInOrder
<1>4. Sorted(s, key) = [n \in DOMAIN at |-> s[at[n]]]
  BY DEF Sorted
<1> HIDE DEF at
<1>5. DOMAIN at = DOMAIN s
  BY <1>3
<1> QED
  BY <1>3, <1>4, <1>5 DEF at

(* A set of places has a last one, which is its Max.                       *)
LEMMA GreatestPlace ==
  ASSUME NEW k \in Nat, NEW K \in SUBSET (1 .. k), K # {}
  PROVE  Max(K) \in K
<1> DEFINE B == {k - i : i \in K}
<1>1. B \in SUBSET Nat /\ B # {}
  <2>1. \A i \in K : k - i \in Nat
    OBVIOUS
  <2>2. PICK i \in K : TRUE
    OBVIOUS
  <2>3. k - i \in B
    BY <2>2
  <2> QED
    BY <2>1, <2>3
<1>2. Min(B) \in B /\ \A b \in B : Min(B) <= b
  <2> HIDE DEF B
  <2> QED
    BY <1>1, LeastPlace
<1>3. PICK m \in K : Min(B) = k - m
  BY <1>2
<1>4. \A i \in K : k - m <= k - i
  BY <1>2, <1>3
<1>5. \A i \in K : m >= i
  BY <1>4
<1> QED
  BY <1>5 DEF Max

(* Two lists of the same places in the same order are the same.            *)
Enumerates(u, p, K, B) ==
  /\ u \in [1 .. p -> K] /\ \A x \in K : \E i \in 1 .. p : u[i] = x
  /\ \A i, j \in 1 .. p : <<u[i], u[j]>> \in B <=> i < j

LEMMA SameOrder ==
  ASSUME NEW K, NEW B, NEW p \in Nat, NEW q \in Nat, NEW u, Enumerates(u, p, K, B),
         NEW v, Enumerates(v, q, K, B)
  PROVE  p = q /\ u = v
<1> USE DEF Enumerates
<1>1. \A i, j \in 1 .. p : u[i] = u[j] => i = j
  <2> SUFFICES ASSUME NEW i \in 1 .. p, NEW j \in 1 .. p, u[i] = u[j], i # j PROVE FALSE
    OBVIOUS
  <2>1. i < j \/ j < i
    OBVIOUS
  <2>2. ~(<<u[i], u[j]>> \in B /\ <<u[j], u[i]>> \in B) /\ (<<u[i], u[j]>> \in B \/ <<u[j], u[i]>> \in B)
    BY <2>1
  <2> QED
    BY <2>2
<1>2. \A i, j \in 1 .. q : v[i] = v[j] => i = j
  <2> SUFFICES ASSUME NEW i \in 1 .. q, NEW j \in 1 .. q, v[i] = v[j], i # j PROVE FALSE
    OBVIOUS
  <2>1. i < j \/ j < i
    OBVIOUS
  <2>2. ~(<<v[i], v[j]>> \in B /\ <<v[j], v[i]>> \in B) /\ (<<v[i], v[j]>> \in B \/ <<v[j], v[i]>> \in B)
    BY <2>1
  <2> QED
    BY <2>2
<1> DEFINE odd == {i \in Nat : i \in 1 .. p /\ i \in 1 .. q /\ u[i] # v[i]}
<1>3. odd = {}
  <2> SUFFICES ASSUME odd # {} PROVE FALSE
    OBVIOUS
  <2> DEFINE d == Min(odd)
  <2>1. d \in odd /\ \A i \in odd : d <= i
    <3>1. odd \in SUBSET Nat
      OBVIOUS
    <3> HIDE DEF odd
    <3> QED
      BY <3>1, LeastPlace
  <2> HIDE DEF d
  <2>2. d \in 1 .. p /\ d \in 1 .. q /\ u[d] # v[d]
    BY <2>1
  <2>3. PICK i \in 1 .. p : u[i] = v[d]
    BY <2>2
  <2>4. PICK j \in 1 .. q : v[j] = u[d]
    BY <2>2
  <2>5. d < i
    <3>1. i # d
      BY <2>2, <2>3
    <3>2. CASE i < d
      <4>1. i \in 1 .. q /\ i \notin odd
        BY <2>1, <2>2, <3>2
      <4>2. v[i] = v[d]
        BY <2>3, <4>1
      <4> QED
        BY <1>2, <2>2, <3>1, <4>1, <4>2
    <3> QED
      BY <2>2, <3>1, <3>2
  <2>6. d < j
    <3>1. j # d
      BY <2>2, <2>4
    <3>2. CASE j < d
      <4>1. j \in 1 .. p /\ j \notin odd
        BY <2>1, <2>2, <3>2
      <4>2. u[j] = u[d]
        BY <2>4, <4>1
      <4> QED
        BY <1>1, <2>2, <3>1, <4>1, <4>2
    <3> QED
      BY <2>2, <3>1, <3>2
  <2>7. <<u[d], v[d]>> \in B
    BY <2>2, <2>3, <2>5
  <2>8. <<v[d], u[d]>> \in B
    BY <2>2, <2>4, <2>6
  <2>9. ~(<<u[i], u[d]>> \in B)
    BY <2>2, <2>5
  <2> QED
    BY <2>3, <2>8, <2>9
<1>4. \A i \in 1 .. p : i \in 1 .. q => u[i] = v[i]
  <2> SUFFICES ASSUME NEW i \in 1 .. p, i \in 1 .. q, u[i] # v[i] PROVE i \in odd
    BY <1>3
  <2>1. i \in Nat
    OBVIOUS
  <2> QED
    BY <2>1
<1>5. ~(p < q)
  <2> SUFFICES ASSUME p < q PROVE FALSE
    OBVIOUS
  <2>1. p + 1 \in 1 .. q /\ v[p + 1] \in K
    OBVIOUS
  <2>2. PICK j \in 1 .. p : u[j] = v[p + 1]
    BY <2>1
  <2>3. j \in 1 .. q /\ j # p + 1
    OBVIOUS
  <2>4. v[j] = v[p + 1]
    BY <1>4, <2>2, <2>3
  <2> QED
    BY <1>2, <2>1, <2>3, <2>4
<1>6. ~(q < p)
  <2> SUFFICES ASSUME q < p PROVE FALSE
    OBVIOUS
  <2>1. q + 1 \in 1 .. p /\ u[q + 1] \in K
    OBVIOUS
  <2>2. PICK j \in 1 .. q : v[j] = u[q + 1]
    BY <2>1
  <2>3. j \in 1 .. p /\ j # q + 1
    OBVIOUS
  <2>4. u[j] = u[q + 1]
    BY <1>4, <2>2, <2>3
  <2> QED
    BY <1>1, <2>1, <2>3, <2>4
<1>7. p = q
  BY <1>5, <1>6
<1> QED
  BY <1>4, <1>7

-----------------------------------------------------------------------------
(* The gaps of a plan.                                                     *)

IsGap(t) ==
  /\ t = [sut |-> t.sut, method |-> t.method, parent |-> t.parent, lines |-> t.lines,
          branches |-> t.branches, id |-> t.id, synthetic |-> {}]
  /\ t.sut \in Int /\ t.lines \in Nat /\ t.branches \in Nat
  /\ (IF t.parent = None THEN t.method ELSE t.parent) \notin Lambdas

AreGaps(gaps) ==
  /\ IsArray(gaps)
  /\ \A i \in DOMAIN gaps : IsGap(gaps[i])
  /\ \A i, j \in DOMAIN gaps : gaps[i].id = gaps[j].id => i = j

AllModes == {"coverage", "branch-coverage", "mutation-hardening"}

LEMMA EmittedGaps ==
  ASSUME NEW report \in Reports, NEW mode \in AllModes
  PROVE  LET emitted == Emit(report, mode)
         IN  /\ AreGaps(emitted)
             /\ mode # "mutation-hardening" =>
                  \A i \in DOMAIN emitted : emitted[i].lines > 0 \/ emitted[i].branches > 0
<1> DEFINE missing == {i \in DOMAIN report : /\ mode = "coverage" => report[i].lines > 0
                                             /\ mode = "branch-coverage" => report[i].branches > 0}
           from == InOrder(missing)
           missed == Missed(report, mode)
           targets == AsTargets(missed)
           key == [i \in DOMAIN targets |-> <<-(targets[i].lines * 2 + targets[i].branches * 3), 0>>]
           at == Places(DOMAIN targets, key)
           emitted == Emit(report, mode)
<1>1. missing \in SUBSET Int /\ IsFiniteSet(missing)
  BY OnReports, FS_Subset DEF IsList
<1>2. missed = Pick(report, missing)
  BY DEF Missed
<1>3. /\ from \in [1 .. Cardinality(missing) -> missing]
      /\ DOMAIN missed = DOMAIN from /\ \A i \in DOMAIN from : missed[i] = report[from[i]]
      /\ IsArray(missed)
  <2> HIDE DEF missing, missed
  <2> QED
    BY <1>1, <1>2, PickedInOrder, PickIsArray
<1>4. DOMAIN targets = DOMAIN missed /\ IsArray(targets)
  BY <1>3 DEF AsTargets, IsArray
<1>5. \A i \in DOMAIN targets :
        targets[i] = [sut |-> missed[i].sut, method |-> missed[i].method,
                      parent |-> missed[i].parent, lines |-> missed[i].lines,
                      branches |-> missed[i].branches, id |-> i, synthetic |-> {}]
  <2> HIDE DEF missed
  <2> QED
    BY DEF AsTargets
<1>6. \A i \in DOMAIN missed :
        /\ missed[i].sut \in Int /\ missed[i].lines \in Nat /\ missed[i].branches \in Nat
        /\ (IF missed[i].parent = None THEN missed[i].method ELSE missed[i].parent) \notin Lambdas
        /\ mode # "mutation-hardening" => missed[i].lines > 0 \/ missed[i].branches > 0
  <2> TAKE i \in DOMAIN missed
  <2>1. from[i] \in missing /\ missed[i] = report[from[i]]
    BY <1>3
  <2>2. from[i] \in DOMAIN report
    BY <2>1
  <2>3. /\ mode = "coverage" => report[from[i]].lines > 0
        /\ mode = "branch-coverage" => report[from[i]].branches > 0
    BY <2>1
  <2> HIDE DEF missing, missed, from
  <2> QED
    BY <2>1, <2>2, <2>3, OnReports DEF AllModes
<1> HIDE DEF missing, missed, from
<1>7. \A i \in DOMAIN targets :
        /\ IsGap(targets[i]) /\ targets[i].id = i
        /\ mode # "mutation-hardening" => targets[i].lines > 0 \/ targets[i].branches > 0
  <2> TAKE i \in DOMAIN targets
  <2>1. i \in DOMAIN missed
    BY <1>4
  <2> DEFINE t == targets[i]
  <2>2. /\ t = [sut |-> missed[i].sut, method |-> missed[i].method,
                parent |-> missed[i].parent, lines |-> missed[i].lines,
                branches |-> missed[i].branches, id |-> i, synthetic |-> {}]
    BY <1>5
  <2> HIDE DEF t, targets
  <2>3. /\ t.sut = missed[i].sut /\ t.method = missed[i].method /\ t.parent = missed[i].parent
        /\ t.lines = missed[i].lines /\ t.branches = missed[i].branches /\ t.id = i
    BY <2>2
  <2>4. IsGap(t)
    BY <1>6, <2>1, <2>2, <2>3 DEF IsGap
  <2> QED
    BY <1>6, <2>1, <2>3, <2>4 DEF t
<1>8. IsKey(DOMAIN targets, key)
  <2>1. \A i \in DOMAIN targets : targets[i].lines \in Int /\ targets[i].branches \in Int
    BY <1>7 DEF IsGap
  <2> HIDE DEF targets
  <2>2. \A i \in DOMAIN targets : -(targets[i].lines * 2 + targets[i].branches * 3) \in Int
    BY <2>1
  <2> QED
    BY <2>2 DEF IsKey
<1>9. emitted = Sorted(targets, key)
  BY DEF Emit, ByWeight, missed
<1>10. /\ at \in [DOMAIN targets -> DOMAIN targets]
       /\ \A m, n \in DOMAIN targets : at[m] = at[n] => m = n
       /\ DOMAIN emitted = DOMAIN targets
       /\ \A n \in DOMAIN targets : emitted[n] = targets[at[n]]
  <2> HIDE DEF targets, key, emitted
  <2> QED
    BY <1>4, <1>8, <1>9, SortedInOrder
<1> HIDE DEF targets, key, at, emitted
<1>11. IsArray(emitted)
  BY <1>4, <1>10 DEF IsArray
<1>12. \A n \in DOMAIN emitted :
         /\ IsGap(emitted[n]) /\ emitted[n].id = at[n]
         /\ mode # "mutation-hardening" => emitted[n].lines > 0 \/ emitted[n].branches > 0
  BY <1>7, <1>10
<1> QED
  BY <1>10, <1>11, <1>12 DEF AreGaps, emitted

LEMMA EligibleGaps ==
  ASSUME NEW emitted, AreGaps(emitted), NEW context
  PROVE  LET targets == EligibleOnes(emitted, context)
         IN  /\ AreGaps(targets)
             /\ \A i \in DOMAIN targets :
                  Eligible(targets[i].sut, context) /\ \E e \in DOMAIN emitted : targets[i] = emitted[e]
             /\ \A e \in DOMAIN emitted : Eligible(emitted[e].sut, context) =>
                  \E i \in DOMAIN targets : targets[i] = emitted[e]
<1> DEFINE K == {i \in DOMAIN emitted : Eligible(emitted[i].sut, context)}
           at == InOrder(K)
           targets == EligibleOnes(emitted, context)
<1>1. K \in SUBSET Int /\ IsFiniteSet(K)
  BY ArraysAreLists DEF AreGaps
<1>2. targets = Pick(emitted, K)
  BY DEF EligibleOnes
<1>3. \A i \in K : i \in DOMAIN emitted /\ Eligible(emitted[i].sut, context)
  OBVIOUS
<1>4. \A i \in DOMAIN emitted : Eligible(emitted[i].sut, context) => i \in K
  OBVIOUS
<1> HIDE DEF K, targets
<1>5. /\ at \in [1 .. Cardinality(K) -> K]
      /\ \A i \in K : \E n \in DOMAIN at : at[n] = i
      /\ \A m, n \in DOMAIN at : at[m] = at[n] => m = n
      /\ DOMAIN targets = DOMAIN at /\ \A n \in DOMAIN at : targets[n] = emitted[at[n]]
      /\ IsArray(targets)
  <2>1. IsArray(targets)
    BY <1>1, <1>2, PickIsArray
  <2>2. /\ at \in [1 .. Cardinality(K) -> K]
        /\ \A i \in K : \E n \in DOMAIN at : at[n] = i
        /\ \A m, n \in DOMAIN at : at[m] = at[n] => m = n
        /\ DOMAIN Pick(emitted, K) = DOMAIN at
        /\ \A n \in DOMAIN at : Pick(emitted, K)[n] = emitted[at[n]]
    BY <1>1, PickedInOrder
  <2> HIDE DEF at
  <2> QED
    BY <1>2, <2>1, <2>2
<1> HIDE DEF at
<1>6. \A n \in DOMAIN targets : at[n] \in K /\ at[n] \in DOMAIN emitted /\ targets[n] = emitted[at[n]]
  BY <1>3, <1>5
<1>7. AreGaps(targets)
  BY <1>5, <1>6 DEF AreGaps
<1> QED
  BY <1>3, <1>4, <1>5, <1>6, <1>7 DEF targets

(* A lambda's gap goes to a target of its class that is no lambda.         *)
LEMMA OwnersAreKept ==
  ASSUME NEW targets, AreGaps(targets), NEW i \in DOMAIN targets, Owner(targets, i) # None
  PROVE  LET o == Owner(targets, i)
         IN  /\ o \in DOMAIN targets
             /\ targets[o].parent = None /\ targets[o].sut = targets[i].sut
<1> DEFINE same == {j \in DOMAIN targets : /\ targets[j].parent = None
                                           /\ targets[j].sut = targets[i].sut
                                           /\ targets[j].method = targets[i].parent}
<1>1. PICK k \in Nat : DOMAIN targets = 1 .. k
  BY DEF AreGaps, IsArray
<1>2. same # {} /\ Owner(targets, i) = Max(same)
  BY DEF Owner
<1>3. same \in SUBSET (1 .. k)
  BY <1>1
<1>4. Max(same) \in same
  <2> HIDE DEF same
  <2> QED
    BY <1>2, <1>3, GreatestPlace
<1> QED
  BY <1>2, <1>4

Kept(targets) == {i \in DOMAIN targets : targets[i].parent = None \/ Owner(targets, i) = None}

(* What is left of the targets.                                            *)
LEMMA Collapsed ==
  ASSUME NEW targets, AreGaps(targets)
  PROVE  LET at == InOrder(Kept(targets))
             left == Collapse(targets)
         IN  /\ at \in [DOMAIN left -> DOMAIN targets]
             /\ \A i \in DOMAIN left : at[i] \in Kept(targets)
             /\ \A k \in Kept(targets) : \E i \in DOMAIN left : at[i] = k
             /\ \A i, j \in DOMAIN left : at[i] = at[j] => i = j
             /\ IsArray(left)
             /\ \A i \in DOMAIN left :
                  LET t == targets[at[i]]
                      u == left[i]
                  IN  /\ u.sut = t.sut /\ u.id = t.id /\ u.lines = t.lines /\ u.branches = t.branches
                      /\ u.parent = t.parent /\ u.method \notin Lambdas
                      /\ u.synthetic = IF t.parent # None THEN {t} ELSE TakenOver(targets, at[i])
<1> DEFINE K == Kept(targets)
           at == InOrder(K)
           left == Collapse(targets)
<1>1. K \in SUBSET Int /\ IsFiniteSet(K) /\ K \in SUBSET DOMAIN targets
  BY ArraysAreLists DEF AreGaps, Kept
<1> HIDE DEF K
<1>2. /\ at \in [1 .. Cardinality(K) -> K] /\ Cardinality(K) \in Nat
      /\ \A i \in K : \E n \in DOMAIN at : at[n] = i
      /\ \A m, n \in DOMAIN at : at[m] = at[n] => m = n
  BY <1>1, PickedInOrder
<1>3. left = [k \in DOMAIN at |->
                LET t == targets[at[k]]
                IN  IF t.parent # None
                    THEN [t EXCEPT !.method = t.parent, !.synthetic = {t}]
                    ELSE [t EXCEPT !.synthetic = TakenOver(targets, at[k])]]
  BY DEF Collapse, K, Kept
<1> HIDE DEF at, left
<1>4. DOMAIN left = DOMAIN at /\ IsArray(left)
  BY <1>2, <1>3 DEF IsArray
<1>5. ASSUME NEW i \in DOMAIN left
      PROVE  LET t == targets[at[i]]
                 u == left[i]
             IN  /\ u.sut = t.sut /\ u.id = t.id /\ u.lines = t.lines /\ u.branches = t.branches
                 /\ u.parent = t.parent /\ u.method \notin Lambdas
                 /\ u.synthetic = IF t.parent # None THEN {t} ELSE TakenOver(targets, at[i])
  <2> DEFINE t == targets[at[i]]
             u == left[i]
             taken == TakenOver(targets, at[i])
  <2>1. at[i] \in DOMAIN targets
    BY <1>1, <1>2, <1>4
  <2>2. IsGap(t)
    BY <2>1 DEF AreGaps
  <2>3. u = IF t.parent # None
            THEN [t EXCEPT !.method = t.parent, !.synthetic = {t}]
            ELSE [t EXCEPT !.synthetic = taken]
    BY <1>3, <1>4
  <2> HIDE DEF t, u, taken
  <2>4. t = [sut |-> t.sut, method |-> t.method, parent |-> t.parent, lines |-> t.lines,
             branches |-> t.branches, id |-> t.id, synthetic |-> {}]
        /\ (IF t.parent = None THEN t.method ELSE t.parent) \notin Lambdas
    BY <2>2 DEF IsGap
  <2>5. CASE t.parent # None
    <3>1. u = [sut |-> t.sut, method |-> t.parent, parent |-> t.parent, lines |-> t.lines,
               branches |-> t.branches, id |-> t.id, synthetic |-> {t}]
      BY <2>3, <2>4, <2>5
    <3> QED
      BY <2>4, <2>5, <3>1 DEF t, u, taken
  <2>6. CASE t.parent = None
    <3>1. u = [sut |-> t.sut, method |-> t.method, parent |-> t.parent, lines |-> t.lines,
               branches |-> t.branches, id |-> t.id, synthetic |-> taken]
      BY <2>3, <2>4, <2>6
    <3> QED
      BY <2>4, <2>6, <3>1 DEF t, u, taken
  <2> QED
    BY <2>5, <2>6
<1> QED
  BY <1>1, <1>2, <1>4, <1>5 DEF at, left, K

(* Which gaps an item speaks of: its own and those of the lambdas given to *)
(* it.                                                                     *)
LEMMA Speaking ==
  ASSUME NEW targets, AreGaps(targets), NEW k \in DOMAIN Collapse(targets)
  PROVE  LET at == InOrder(Kept(targets))
             left == Collapse(targets)
         IN  /\ \A l \in DOMAIN targets : targets[l].id \in Speaks(left[k])
                  <=> l = at[k] \/ (targets[l].parent # None /\ Owner(targets, l) = at[k])
             /\ \A id \in Speaks(left[k]) : \E l \in DOMAIN targets : targets[l].id = id
<1> DEFINE at == InOrder(Kept(targets))
           left == Collapse(targets)
           u == left[k]
           t == targets[at[k]]
           Given(l) == targets[l].parent # None /\ Owner(targets, l) = at[k]
<1>1. /\ at[k] \in DOMAIN targets /\ u.id = t.id
      /\ u.synthetic = IF t.parent # None THEN {t} ELSE TakenOver(targets, at[k])
  BY Collapsed
<1>2. at[k] # None
  BY <1>1, ArraysAreLists, OnReports DEF AreGaps
<1>3. \A l \in DOMAIN targets : targets[l].id = t.id <=> l = at[k]
  BY <1>1 DEF AreGaps
<1>4. Speaks(u) = {t.id} \cup {l.id : l \in u.synthetic}
  BY <1>1 DEF Speaks
<1>5. CASE t.parent # None
  <2>1. Speaks(u) = {t.id}
    BY <1>1, <1>4, <1>5
  <2>2. \A l \in DOMAIN targets : ~Given(l)
    BY <1>2, <1>5, OwnersAreKept
  <2> HIDE DEF u, Given, left
  <2> QED
    BY <1>1, <1>3, <2>1, <2>2 DEF Given, u, left
<1>6. CASE t.parent = None
  <2> DEFINE given == {l \in DOMAIN targets : Given(l)}
  <2>1. TakenOver(targets, at[k]) = {targets[l] : l \in given}
    BY DEF TakenOver
  <2>2. u.synthetic = {targets[l] : l \in given}
    BY <1>1, <1>6, <2>1
  <2> HIDE DEF u, left
  <2>3. Speaks(u) = {t.id} \cup {targets[l].id : l \in given}
    BY <1>4, <2>2
  <2>4. ASSUME NEW l \in DOMAIN targets
        PROVE  targets[l].id \in Speaks(u) <=> l = at[k] \/ Given(l)
    <3>1. ASSUME targets[l].id \in Speaks(u) PROVE l = at[k] \/ Given(l)
      <4>1. CASE targets[l].id = t.id
        BY <1>3, <4>1
      <4>2. CASE targets[l].id # t.id
        <5>1. PICK j \in given : targets[l].id = targets[j].id
          BY <2>3, <3>1, <4>2
        <5>2. j \in DOMAIN targets /\ Given(j)
          BY <5>1
        <5> HIDE DEF Given
        <5>3. l = j
          BY <5>1, <5>2 DEF AreGaps
        <5> QED
          BY <5>2, <5>3
      <4> QED
        BY <4>1, <4>2
    <3>2. ASSUME l = at[k] \/ Given(l) PROVE targets[l].id \in Speaks(u)
      <4>1. Given(l) => l \in given
        OBVIOUS
      <4> HIDE DEF given, Given
      <4> QED
        BY <2>3, <3>2, <4>1 DEF t
    <3> QED
      BY <3>1, <3>2
  <2>5. \A id \in Speaks(u) : \E l \in DOMAIN targets : targets[l].id = id
    <3>1. given \subseteq DOMAIN targets
      OBVIOUS
    <3> HIDE DEF given
    <3> QED
      BY <1>1, <2>3, <3>1
  <2> QED
    BY <2>4, <2>5 DEF u, left
<1> QED
  BY <1>5, <1>6

LEMMA InOneItem ==
  ASSUME NEW targets, AreGaps(targets), NEW l \in DOMAIN targets
  PROVE  \E k \in DOMAIN Collapse(targets) :
           /\ Collapse(targets)[k].sut = targets[l].sut
           /\ \A j \in DOMAIN Collapse(targets) :
                targets[l].id \in Speaks(Collapse(targets)[j]) <=> j = k
<1> DEFINE at == InOrder(Kept(targets))
           left == Collapse(targets)
<1>1. /\ \A i \in DOMAIN left : at[i] \in DOMAIN targets /\ at[i] \in Kept(targets)
      /\ \A k \in Kept(targets) : \E i \in DOMAIN left : at[i] = k
      /\ \A i, j \in DOMAIN left : at[i] = at[j] => i = j
      /\ \A i \in DOMAIN left : left[i].sut = targets[at[i]].sut
  BY Collapsed
<1>2. \A k \in DOMAIN left : targets[l].id \in Speaks(left[k])
        <=> l = at[k] \/ (targets[l].parent # None /\ Owner(targets, l) = at[k])
  BY Speaking
<1>3. \A k \in DOMAIN left : at[k] # None
  BY <1>1, ArraysAreLists, OnReports DEF AreGaps
<1> HIDE DEF at, left
<1>4. CASE l \in Kept(targets)
  <2>1. PICK k \in DOMAIN left : at[k] = l
    BY <1>1, <1>4
  <2>2. \A j \in DOMAIN left : ~(targets[l].parent # None /\ Owner(targets, l) = at[j])
    BY <1>3, <1>4 DEF Kept
  <2>3. \A j \in DOMAIN left : targets[l].id \in Speaks(left[j]) <=> j = k
    BY <1>1, <1>2, <2>1, <2>2
  <2> QED
    BY <1>1, <2>1, <2>3 DEF left
<1>5. CASE l \notin Kept(targets)
  <2> DEFINE o == Owner(targets, l)
  <2>1. targets[l].parent # None /\ o # None
    BY <1>5 DEF Kept
  <2>2. o \in DOMAIN targets /\ targets[o].parent = None /\ targets[o].sut = targets[l].sut
    BY <2>1, OwnersAreKept
  <2>3. o \in Kept(targets)
    BY <2>2 DEF Kept
  <2>4. PICK k \in DOMAIN left : at[k] = o
    BY <1>1, <2>3
  <2>5. \A j \in DOMAIN left : targets[l].id \in Speaks(left[j]) <=> j = k
    <3>1. \A j \in DOMAIN left : l # at[j]
      BY <1>1, <1>5
    <3> QED
      BY <1>1, <1>2, <2>1, <2>4, <3>1
  <2> QED
    BY <1>1, <2>2, <2>4, <2>5 DEF left
<1> QED
  BY <1>4, <1>5

-----------------------------------------------------------------------------
(* What an item is said to miss.                                           *)

LEMMA ListedIsFinite ==
  ASSUME NEW s, NEW K, IsFiniteSet(K)
  PROVE  IsFiniteSet({s[i] : i \in K})
<1> DEFINE T == {s[i] : i \in K}
           f == [i \in K |-> s[i]]
<1>1. f \in Surjection(K, T)
  BY DEF Surjection
<1> HIDE DEF f, T
<1>2. IsFiniteSet(T)
  BY <1>1, FS_Surjection
<1> QED
  BY <1>2 DEF T

LEMMA LinesOfBoth ==
  ASSUME NEW S, IsFiniteSet(S), NEW t, t \notin S, \A g \in S \cup {t} : g.lines \in Nat
  PROVE  SumOver([g \in S \cup {t} |-> g.lines], S \cup {t})
           = t.lines + SumOver([g \in S |-> g.lines], S)
<1> DEFINE f == [g \in S |-> g.lines]
           h == [g \in S \cup {t} |-> g.lines]
<1>1. h[t] \in Int /\ h[t] = t.lines /\ \A y \in S : f[y] \in Int /\ f[y] = h[y]
  OBVIOUS
<1> HIDE DEF f, h
<1>2. SumOver(h, S \cup {t}) = h[t] + SumOver(f, S)
  BY <1>1, SumWithOneMore
<1> QED
  BY <1>1, <1>2 DEF f, h

LEMMA BranchesOfBoth ==
  ASSUME NEW S, IsFiniteSet(S), NEW t, t \notin S, \A g \in S \cup {t} : g.branches \in Nat
  PROVE  SumOver([g \in S \cup {t} |-> g.branches], S \cup {t})
           = t.branches + SumOver([g \in S |-> g.branches], S)
<1> DEFINE f == [g \in S |-> g.branches]
           h == [g \in S \cup {t} |-> g.branches]
<1>1. h[t] \in Int /\ h[t] = t.branches /\ \A y \in S : f[y] \in Int /\ f[y] = h[y]
  OBVIOUS
<1> HIDE DEF f, h
<1>2. SumOver(h, S \cup {t}) = h[t] + SumOver(f, S)
  BY <1>1, SumWithOneMore
<1> QED
  BY <1>1, <1>2 DEF f, h

(* The lambdas an owner takes over are targets, and not the owner.         *)
LEMMA TakenAreTargets ==
  ASSUME NEW targets, AreGaps(targets), NEW o \in DOMAIN targets
  PROVE  /\ IsFiniteSet(TakenOver(targets, o))
         /\ TakenOver(targets, o) = {targets[l] : l \in {j \in DOMAIN targets :
                targets[j].parent # None /\ Owner(targets, j) = o}}
         /\ \A g \in TakenOver(targets, o) : g.parent # None /\ IsGap(g)
         /\ TakenOver(targets, o) # {} => targets[o].parent = None
<1> DEFINE given == {j \in DOMAIN targets : targets[j].parent # None /\ Owner(targets, j) = o}
<1>1. TakenOver(targets, o) = {targets[l] : l \in given}
  BY DEF TakenOver
<1>2. IsFiniteSet(given)
  BY ArraysAreLists DEF AreGaps
<1>3. \A l \in given : targets[l].parent # None /\ IsGap(targets[l]) /\ targets[o].parent = None
  <2> TAKE l \in given
  <2>1. l \in DOMAIN targets /\ targets[l].parent # None /\ Owner(targets, l) = o
    OBVIOUS
  <2>2. o # None
    BY ArraysAreLists, OnReports DEF AreGaps
  <2> HIDE DEF given
  <2> QED
    BY <2>1, <2>2, OwnersAreKept DEF AreGaps
<1>4. IsFiniteSet({targets[l] : l \in given})
  <2> HIDE DEF given
  <2> QED
    BY <1>2, ListedIsFinite
<1>5. /\ \A g \in TakenOver(targets, o) : g.parent # None /\ IsGap(g)
      /\ TakenOver(targets, o) # {} => targets[o].parent = None
  <2> HIDE DEF given
  <2> QED
    BY <1>1, <1>3
<1> QED
  BY <1>1, <1>4, <1>5

LEMMA WhatIsMissed ==
  ASSUME NEW emitted, AreGaps(emitted), NEW targets, AreGaps(targets),
         \A i \in DOMAIN targets : \E e \in DOMAIN emitted : targets[i] = emitted[e],
         NEW k \in DOMAIN Collapse(targets)
  PROVE  LET item == Collapse(targets)[k]
         IN  /\ Misses(emitted, item)
             /\ Lines(item) \in Int /\ Branches(item) \in Int
<1> DEFINE at == InOrder(Kept(targets))
           item == Collapse(targets)[k]
           t == targets[at[k]]
           taken == TakenOver(targets, at[k])
           more == IF t.parent # None THEN {} ELSE taken
           gaps == {gap \in ToSet(emitted) : gap.id \in Speaks(item)}
<1>1. /\ at[k] \in DOMAIN targets /\ item.lines = t.lines /\ item.branches = t.branches
      /\ item.parent = t.parent
      /\ item.synthetic = IF t.parent # None THEN {t} ELSE taken
  BY Collapsed
<1>2. /\ \A l \in DOMAIN targets : targets[l].id \in Speaks(item)
           <=> l = at[k] \/ (targets[l].parent # None /\ Owner(targets, l) = at[k])
      /\ \A id \in Speaks(item) : \E l \in DOMAIN targets : targets[l].id = id
  BY Speaking
<1>3. /\ IsFiniteSet(taken)
      /\ taken = {targets[l] : l \in {j \in DOMAIN targets :
                    targets[j].parent # None /\ Owner(targets, j) = at[k]}}
      /\ \A g \in taken : g.parent # None /\ IsGap(g)
      /\ taken # {} => t.parent = None
  BY <1>1, TakenAreTargets
<1> HIDE DEF item, at, taken
<1>4. t \notin more /\ IsFiniteSet(more) /\ taken = more
  BY <1>3, FS_EmptySet
<1>5. gaps = more \cup {t}
  <2>1. ASSUME NEW gap \in gaps PROVE gap \in more \cup {t}
    <3>1. PICK e \in DOMAIN emitted : gap = emitted[e]
      BY DEF ToSet
    <3>2. PICK l \in DOMAIN targets : targets[l].id = gap.id
      BY <1>2
    <3>3. PICK d \in DOMAIN emitted : targets[l] = emitted[d]
      OBVIOUS
    <3>4. targets[l] = gap
      BY <3>1, <3>2, <3>3 DEF AreGaps
    <3>5. gap.id \in Speaks(item)
      OBVIOUS
    <3> HIDE DEF gaps, more
    <3>6. l = at[k] \/ (targets[l].parent # None /\ Owner(targets, l) = at[k])
      BY <1>2, <3>2, <3>5
    <3> QED
      BY <1>3, <1>4, <3>4, <3>6
  <2>2. ASSUME NEW l \in DOMAIN targets, targets[l].id \in Speaks(item) PROVE targets[l] \in gaps
    <3>1. PICK d \in DOMAIN emitted : targets[l] = emitted[d]
      OBVIOUS
    <3> QED
      BY <2>2, <3>1 DEF ToSet
  <2> HIDE DEF gaps, more
  <2>3. t \in gaps
    BY <1>1, <1>2, <2>2 DEF t
  <2>4. taken \subseteq gaps
    BY <1>2, <1>3, <2>2
  <2> QED
    BY <1>4, <2>1, <2>3, <2>4
<1>6. IsGap(t)
  BY <1>1 DEF AreGaps
<1>7. \A g \in more \cup {t} : g.lines \in Nat /\ g.branches \in Nat
  BY <1>3, <1>4, <1>6 DEF IsGap
<1>8. /\ Lines(item) = t.lines + SumOver([g \in more |-> g.lines], more)
      /\ Branches(item) = t.branches + SumOver([g \in more |-> g.branches], more)
  <2>1. CASE t.parent # None
    <3>1. more = {}
      BY <2>1
    <3>2. Lines(item) = t.lines + 0 /\ Branches(item) = t.branches + 0
      BY <1>1, <2>1 DEF Lines, Branches
    <3> HIDE DEF more
    <3>3. SumOver([g \in more |-> g.lines], more) = 0
      BY <3>1, SumOfNone
    <3>4. SumOver([g \in more |-> g.branches], more) = 0
      BY <3>1, SumOfNone
    <3> QED
      BY <3>2, <3>3, <3>4
  <2>2. CASE t.parent = None
    <3>1. item.synthetic = more /\ item.parent = None
      BY <1>1, <2>2
    <3> HIDE DEF more
    <3> QED
      BY <1>1, <3>1 DEF Lines, Branches
  <2> QED
    BY <2>1, <2>2
<1> HIDE DEF more, t
<1>9. /\ Lines(item) = SumOver([g \in more \cup {t} |-> g.lines], more \cup {t})
  BY <1>4, <1>7, <1>8, LinesOfBoth
<1>10. Branches(item) = SumOver([g \in more \cup {t} |-> g.branches], more \cup {t})
  BY <1>4, <1>7, <1>8, BranchesOfBoth
<1>11. Misses(emitted, item)
  BY <1>5, <1>9, <1>10 DEF Misses
<1>12. Lines(item) \in Int
  <2> DEFINE f == [g \in more |-> g.lines]
  <2>1. \A x \in more : f[x] \in Int
    BY <1>7
  <2>2. Lines(item) = t.lines + SumOver(f, more) /\ t.lines \in Int
    BY <1>7, <1>8
  <2> HIDE DEF f
  <2>3. SumOver(f, more) \in Int
    BY <1>4, <2>1, SumIsInt
  <2> QED
    BY <2>2, <2>3
<1>13. Branches(item) \in Int
  <2> DEFINE f == [g \in more |-> g.branches]
  <2>1. \A x \in more : f[x] \in Int
    BY <1>7
  <2>2. Branches(item) = t.branches + SumOver(f, more) /\ t.branches \in Int
    BY <1>7, <1>8
  <2> HIDE DEF f
  <2>3. SumOver(f, more) \in Int
    BY <1>4, <2>1, SumIsInt
  <2> QED
    BY <2>2, <2>3
<1> QED
  BY <1>11, <1>12, <1>13 DEF item

-----------------------------------------------------------------------------
(* Scores and the ranking.                                                 *)

Calm(context) == [context EXCEPT !.failures = <<>>]

LEMMA PenaltyIsInt ==
  ASSUME NEW context \in Contexts, NEW class
  PROVE  /\ FailurePenalty(class, context) \in Int
         /\ FailurePenalty(class, Calm(context)) = 0
<1> DEFINE f(c) == [i \in DOMAIN c.failures |-> c.failures[i].attempts]
           K(c) == {i \in DOMAIN c.failures :
                      c.failures[i].sut = class /\ c.failures[i].result = "FAILED"}
<1>1. IsFiniteSet(K(context)) /\ \A i \in K(context) : f(context)[i] \in Int
  BY OnContexts, FS_Subset DEF IsList
<1>2. SumOver(f(context), K(context)) \in Int
  <2> HIDE DEF f, K
  <2> QED
    BY <1>1, SumIsInt
<1>3. FailurePenalty(class, context) = 5 * SumOver(f(context), K(context))
  BY DEF FailurePenalty
<1>4. K(Calm(context)) = {}
  <2>1. Calm(context).failures = <<>>
    BY OnContexts DEF Calm
  <2> QED
    BY <2>1
<1>5. FailurePenalty(class, Calm(context)) = 5 * SumOver(f(Calm(context)), K(Calm(context)))
  BY DEF FailurePenalty
<1>6. SumOver(f(Calm(context)), K(Calm(context))) = 0
  <2> HIDE DEF f, K
  <2> QED
    BY <1>4, SumOfNone
<1> HIDE DEF f, K
<1> QED
  BY <1>2, <1>3, <1>5, <1>6

LEMMA CalmIsAlike ==
  ASSUME NEW context \in Contexts, NEW class
  PROVE  /\ Eligible(class, Calm(context)) <=> Eligible(class, context)
         /\ RiskPenalty(class, Calm(context)) = RiskPenalty(class, context)
         /\ RiskPenalty(class, context) \in Int
         /\ Boost(class, Calm(context)) = Boost(class, context)
         /\ Boost(class, context) \in Int
<1> DEFINE calm == Calm(context)
<1>1. /\ calm.classes = context.classes /\ calm.index = context.index
      /\ calm.allow = context.allow /\ calm.affected = context.affected
      /\ calm.affectedOnly = context.affectedOnly
  BY OnContexts DEF Calm
<1> HIDE DEF calm
<1>2. TypeOf(class, calm) = TypeOf(class, context)
  BY <1>1 DEF TypeOf
<1>3. Eligible(class, calm) <=> Eligible(class, context)
  BY <1>1, <1>2 DEF Eligible
<1>4. RiskPenalty(class, calm) = RiskPenalty(class, context)
  BY <1>1, <1>2 DEF RiskPenalty
<1>5. RiskPenalty(class, context) \in Int
  BY DEF RiskPenalty, Risk
<1>6. Boost(class, calm) = Boost(class, context) /\ Boost(class, context) \in Int
  BY <1>1 DEF Boost
<1> QED
  BY <1>3, <1>4, <1>5, <1>6 DEF calm

(* Failures take the same off the score of every item of a class.          *)
LEMMA ScoresAreInt ==
  ASSUME NEW context \in Contexts, NEW t, Lines(t) \in Int, Branches(t) \in Int
  PROVE  /\ Score(t, context) \in Int /\ Score(t, Calm(context)) \in Int
         /\ Score(t, Calm(context)) = Score(t, context) + FailurePenalty(t.sut, context)
<1>1. /\ FailurePenalty(t.sut, context) \in Int /\ FailurePenalty(t.sut, Calm(context)) = 0
  BY PenaltyIsInt
<1>2. /\ RiskPenalty(t.sut, Calm(context)) = RiskPenalty(t.sut, context)
      /\ RiskPenalty(t.sut, context) \in Int
      /\ Boost(t.sut, Calm(context)) = Boost(t.sut, context)
      /\ Boost(t.sut, context) \in Int
  BY CalmIsAlike
<1> DEFINE bonus == IF Lines(t) + Branches(t) > 0 THEN 2 ELSE 0
<1>3. bonus \in Int
  OBVIOUS
<1>4. \A c : Score(t, c) = Lines(t) * 3 + Branches(t) * 5 + bonus - RiskPenalty(t.sut, c)
                             - FailurePenalty(t.sut, c) + Boost(t.sut, c)
  BY DEF Score
<1> HIDE DEF bonus
<1> QED
  BY <1>1, <1>2, <1>3, <1>4

LEMMA ArrayIsSeq ==
  ASSUME NEW s, IsArray(s), s = [i \in DOMAIN s |-> s[i]]
  PROVE  s \in Seq(ToSet(s)) /\ Len(s) \in Nat /\ DOMAIN s = 1 .. Len(s)
<1>1. PICK n \in Nat : DOMAIN s = 1 .. n
  BY DEF IsArray
<1>2. s \in [1 .. n -> ToSet(s)]
  <2>1. \A i \in DOMAIN s : s[i] \in ToSet(s)
    BY DEF ToSet
  <2> QED
    BY <1>1, <2>1
<1>3. s \in Seq(ToSet(s))
  BY <1>2, SeqDef
<1> QED
  BY <1>3, LenProperties

ScoreKey(left, context) == [i \in DOMAIN left |-> <<-Score(left[i], context), left[i].sut>>]
Worthy(left, context) ==
  {i \in DOMAIN left : Score(left[i], context) > 0 \/ left[i].lines > 0 \/ left[i].branches > 0}

(* w has K in the order of key, and s has the targets of left there.     *)
Arranges(s, w, left, K, key) ==
  /\ w \in [DOMAIN s -> K]
  /\ \A k \in K : \E i \in DOMAIN s : w[i] = k
  /\ \A i, j \in DOMAIN s : Precedes(key, w[i], w[j]) <=> i < j
  /\ \A i \in DOMAIN s : s[i].target = left[w[i]]

LEMMA Ranking ==
  ASSUME NEW left, IsArray(left), NEW context,
         \A i \in DOMAIN left : left[i].sut \in Int /\ Score(left[i], context) \in Int
  PROVE  LET ranked == ByScore(WorthATest(Scored(left, context)))
         IN  /\ ranked \in Seq(ToSet(ranked)) /\ Len(ranked) \in Nat
             /\ DOMAIN ranked = 1 .. Len(ranked)
             /\ \E w : Arranges(ranked, w, left, Worthy(left, context), ScoreKey(left, context))
<1> DEFINE scored == Scored(left, context)
           K == Worthy(left, context)
           from == InOrder(K)
           worth == WorthATest(scored)
           key == [i \in DOMAIN worth |-> <<-worth[i].score, worth[i].target.sut>>]
           at == Places(DOMAIN worth, key)
           ranked == ByScore(worth)
           w == [i \in DOMAIN worth |-> from[at[i]]]
           whole == ScoreKey(left, context)
<1>1. /\ DOMAIN scored = DOMAIN left
      /\ \A i \in DOMAIN left : scored[i].target = left[i] /\ scored[i].score = Score(left[i], context)
  BY DEF Scored
<1>2. K \in SUBSET DOMAIN left /\ K \in SUBSET Int /\ IsFiniteSet(K)
  BY ArraysAreLists DEF Worthy
<1>3. worth = Pick(scored, K)
  <2>1. K = {i \in DOMAIN scored : \/ scored[i].score > 0
                                   \/ scored[i].target.lines > 0 \/ scored[i].target.branches > 0}
    <3> HIDE DEF scored
    <3> QED
      BY <1>1 DEF Worthy
  <2> HIDE DEF K
  <2> QED
    BY <2>1 DEF WorthATest
<1> HIDE DEF scored, K, worth
<1>4. /\ from \in [1 .. Cardinality(K) -> K]
      /\ \A i \in K : \E n \in DOMAIN from : from[n] = i
      /\ \A m, n \in DOMAIN from : from[m] < from[n] <=> m < n
      /\ \A m, n \in DOMAIN from : from[m] = from[n] => m = n
      /\ DOMAIN worth = DOMAIN from
      /\ \A n \in DOMAIN from : worth[n] = scored[from[n]]
  BY <1>2, <1>3, PickedInOrder
<1>5. IsArray(worth)
  BY <1>2, <1>3, PickIsArray
<1> HIDE DEF from
<1>6. \A n \in DOMAIN worth :
        /\ from[n] \in K /\ from[n] \in DOMAIN left
        /\ worth[n].target = left[from[n]] /\ worth[n].score = Score(left[from[n]], context)
  BY <1>1, <1>2, <1>4
<1>7. \A n \in DOMAIN worth : key[n] = whole[from[n]]
  BY <1>6 DEF ScoreKey
<1>8. IsKey(DOMAIN worth, key)
  <2>1. \A n \in DOMAIN worth : left[from[n]].sut \in Int /\ -Score(left[from[n]], context) \in Int
    BY <1>6
  <2>2. \A n \in DOMAIN worth : key[n] = <<-Score(left[from[n]], context), left[from[n]].sut>>
    BY <1>6
  <2> HIDE DEF key
  <2> QED
    BY <2>1, <2>2 DEF IsKey
<1>9. ranked = Sorted(worth, key)
  BY DEF ByScore
<1> HIDE DEF key, whole
<1>10. /\ at \in [DOMAIN worth -> DOMAIN worth]
       /\ \A i \in DOMAIN worth : \E n \in DOMAIN worth : at[n] = i
       /\ \A m, n \in DOMAIN worth : Precedes(key, at[m], at[n]) <=> m < n
       /\ DOMAIN ranked = DOMAIN worth
       /\ \A n \in DOMAIN worth : ranked[n] = worth[at[n]]
  <2> HIDE DEF ranked
  <2> QED
    BY <1>5, <1>8, <1>9, SortedInOrder
<1>11. ranked = [i \in DOMAIN ranked |-> ranked[i]]
  BY <1>9 DEF Sorted
<1> HIDE DEF at, ranked
<1>12. IsArray(ranked)
  BY <1>5, <1>10 DEF IsArray
<1>13. w \in [DOMAIN ranked -> K]
  BY <1>6, <1>10
<1>14. \A k \in K : \E i \in DOMAIN ranked : w[i] = k
  <2> TAKE k \in K
  <2>1. PICK n \in DOMAIN worth : from[n] = k
    BY <1>4
  <2>2. PICK i \in DOMAIN worth : at[i] = n
    BY <1>10
  <2> QED
    BY <1>10, <2>1, <2>2
<1>15. \A m, n \in DOMAIN worth : Precedes(whole, from[m], from[n]) <=> Precedes(key, m, n)
  BY <1>4, <1>7 DEF Precedes
<1>16. \A i, j \in DOMAIN ranked : Precedes(whole, w[i], w[j]) <=> i < j
  BY <1>10, <1>15
<1>17. \A i \in DOMAIN ranked : ranked[i].target = left[w[i]]
  BY <1>6, <1>10
<1> HIDE DEF w
<1>18. Arranges(ranked, w, left, K, whole)
  BY <1>13, <1>14, <1>16, <1>17 DEF Arranges
<1> QED
  BY <1>11, <1>12, <1>18, ArrayIsSeq DEF ranked, worth, scored, K, whole

(* The items of a class.                                                   *)
LEMMA OfOneClass ==
  ASSUME NEW s, IsArray(s), NEW w, NEW left, NEW K, NEW key, Arranges(s, w, left, K, key), NEW class,
         NEW Q, Q = {k \in K : left[k].sut = class}
  PROVE  LET items == OfClass(s, class)
         IN  /\ Len(items) \in Nat /\ DOMAIN items = 1 .. Len(items)
             /\ \E u : Arranges(items, u, left, Q, key)
<1> DEFINE P == {i \in DOMAIN s : s[i].target.sut = class}
           at == InOrder(P)
           items == OfClass(s, class)
           u == [i \in DOMAIN items |-> w[at[i]]]
<1>1. P \in SUBSET DOMAIN s /\ P \in SUBSET Int /\ IsFiniteSet(P)
  BY ArraysAreLists
<1>2. items = Pick(s, P)
  BY DEF OfClass
<1>3. \A i \in DOMAIN s : i \in P <=> w[i] \in Q
  BY DEF Arranges
<1>4. Q \subseteq K
  OBVIOUS
<1> HIDE DEF P, items
<1>5. /\ at \in [1 .. Cardinality(P) -> P]
      /\ \A i \in P : \E n \in DOMAIN at : at[n] = i
      /\ \A m, n \in DOMAIN at : at[m] < at[n] <=> m < n
      /\ DOMAIN Pick(s, P) = DOMAIN at
      /\ \A n \in DOMAIN at : Pick(s, P)[n] = s[at[n]]
  BY <1>1, PickedInOrder
<1>6. IsArray(items) /\ items = [i \in DOMAIN items |-> items[i]]
  BY <1>1, <1>2, PickIsArray DEF Pick
<1> HIDE DEF at
<1>7. /\ DOMAIN items = DOMAIN at
      /\ \A n \in DOMAIN items : at[n] \in P /\ at[n] \in DOMAIN s /\ items[n] = s[at[n]]
  BY <1>1, <1>2, <1>5
<1>8. u \in [DOMAIN items -> Q]
  BY <1>3, <1>7
<1>9. \A k \in Q : \E i \in DOMAIN items : u[i] = k
  <2> TAKE k \in Q
  <2>1. PICK i \in DOMAIN s : w[i] = k
    BY <1>4 DEF Arranges
  <2>2. PICK n \in DOMAIN at : at[n] = i
    BY <1>3, <1>5, <2>1
  <2> QED
    BY <1>7, <2>1, <2>2
<1>10. \A i, j \in DOMAIN items : Precedes(key, u[i], u[j]) <=> i < j
  <2> TAKE i, j \in DOMAIN items
  <2>1. Precedes(key, w[at[i]], w[at[j]]) <=> at[i] < at[j]
    BY <1>7 DEF Arranges
  <2> QED
    BY <1>5, <1>7, <2>1
<1>11. \A i \in DOMAIN items : items[i].target = left[u[i]]
  BY <1>7 DEF Arranges
<1> HIDE DEF u
<1>12. Arranges(items, u, left, Q, key)
  BY <1>8, <1>9, <1>10, <1>11 DEF Arranges
<1> QED
  BY <1>6, <1>12, ArrayIsSeq DEF items

LEMMA SameTargets ==
  ASSUME NEW context \in Contexts, NEW left,
         \A i \in DOMAIN left : /\ left[i].sut \in Int /\ Lines(left[i]) \in Int /\ Branches(left[i]) \in Int
                                /\ left[i].lines > 0 \/ left[i].branches > 0,
         NEW s, IsArray(s), NEW w,
         Arranges(s, w, left, Worthy(left, context), ScoreKey(left, context)),
         NEW f, IsArray(f), NEW v,
         Arranges(f, v, left, Worthy(left, Calm(context)), ScoreKey(left, Calm(context))),
         NEW class
  PROVE  LET m == OfClass(s, class)
             n == OfClass(f, class)
         IN  Len(m) = Len(n) /\ \A i \in DOMAIN m : m[i].target = n[i].target
<1> DEFINE m == OfClass(s, class)
           n == OfClass(f, class)
           K == {k \in DOMAIN left : left[k].sut = class}
           key == ScoreKey(left, context)
           calm == ScoreKey(left, Calm(context))
           B == {p \in K \X K : Precedes(key, p[1], p[2])}
<1>1. Worthy(left, context) = DOMAIN left /\ Worthy(left, Calm(context)) = DOMAIN left
  BY DEF Worthy
<1>11. Arranges(s, w, left, DOMAIN left, key) /\ Arranges(f, v, left, DOMAIN left, calm)
  BY <1>1
<1>12. K = {k \in DOMAIN left : left[k].sut = class}
  OBVIOUS
<1> HIDE DEF key, calm, K
<1>2. /\ Len(m) \in Nat /\ DOMAIN m = 1 .. Len(m)
      /\ \E u : Arranges(m, u, left, K, key)
  BY <1>11, <1>12, OfOneClass
<1>3. /\ Len(n) \in Nat /\ DOMAIN n = 1 .. Len(n)
      /\ \E u : Arranges(n, u, left, K, calm)
  BY <1>11, <1>12, OfOneClass
<1> HIDE DEF m, n
<1>4. PICK u : Arranges(m, u, left, K, key)
  BY <1>2
<1>5. PICK x : Arranges(n, x, left, K, calm)
  BY <1>3
<1>6. \A k, l \in K : Precedes(key, k, l) <=> Precedes(calm, k, l)
  <2> TAKE k, l \in K
  <2> DEFINE penalty == FailurePenalty(class, context)
             a == Score(left[k], context)
             b == Score(left[l], context)
  <2>1. k \in DOMAIN left /\ l \in DOMAIN left /\ left[k].sut = class /\ left[l].sut = class
    BY <1>12
  <2>2. /\ a \in Int /\ Score(left[k], Calm(context)) = a + penalty
        /\ b \in Int /\ Score(left[l], Calm(context)) = b + penalty
    BY <2>1, ScoresAreInt
  <2>3. penalty \in Int
    BY PenaltyIsInt
  <2> HIDE DEF a, b, penalty
  <2>4. key[k] = <<-a, class>> /\ key[l] = <<-b, class>>
    BY <2>1 DEF key, ScoreKey, a, b
  <2>5. calm[k] = <<-(a + penalty), class>> /\ calm[l] = <<-(b + penalty), class>>
    BY <2>1, <2>2 DEF calm, ScoreKey
  <2>6. class \in Int
    BY <2>1
  <2>7. /\ -a < -b <=> -(a + penalty) < -(b + penalty)
        /\ -a = -b <=> -(a + penalty) = -(b + penalty)
        /\ ~(class < class)
    BY <2>2, <2>3, <2>6
  <2>8. /\ Precedes(key, k, l) <=> -a < -b \/ (-a = -b /\ k < l)
    BY <2>4, <2>7 DEF Precedes
  <2>9. /\ Precedes(calm, k, l)
             <=> -(a + penalty) < -(b + penalty) \/ (-(a + penalty) = -(b + penalty) /\ k < l)
    BY <2>5, <2>7 DEF Precedes
  <2> QED
    BY <2>7, <2>8, <2>9
<1>7. Enumerates(u, Len(m), K, B)
  BY <1>2, <1>4 DEF Arranges, Enumerates
<1>8. Enumerates(x, Len(n), K, B)
  BY <1>3, <1>5, <1>6 DEF Arranges, Enumerates
<1> HIDE DEF B
<1>9. Len(m) = Len(n) /\ u = x
  BY <1>2, <1>3, <1>7, <1>8, SameOrder
<1>10. \A i \in DOMAIN m : m[i].target = n[i].target
  BY <1>2, <1>3, <1>4, <1>5, <1>9 DEF Arranges
<1> QED
  BY <1>9, <1>10 DEF m, n

(* A limit takes the head of the ranking.                                  *)
LEMMA LimitTakesTheHead ==
  ASSUME NEW ranked, ranked \in Seq(ToSet(ranked)), NEW limit \in Limits
  PROVE  LET plan == BatchPlan(ranked, PlanLimit(limit, None))
         IN  /\ IsPrefix(plan.items, ranked) /\ plan.totalEligibleTargets = Len(ranked)
             /\ Len(plan.items) = IF limit < 1 THEN Len(ranked) ELSE Min({limit, Len(ranked)})
<1> DEFINE S == ToSet(ranked)
           items == IF limit > 0 /\ limit < Len(ranked) THEN SubSeq(ranked, 1, limit) ELSE ranked
           plan == BatchPlan(ranked, PlanLimit(limit, None))
<1>1. limit \in Int /\ limit # None
  BY OnLimits, OnReports
<1>2. PlanLimit(limit, None) = limit
  BY <1>1 DEF PlanLimit
<1>3. plan.items = items /\ plan.totalEligibleTargets = Len(ranked)
  BY <1>2 DEF BatchPlan
<1> HIDE DEF plan, S
<1>4. ranked \in Seq(S) /\ Len(ranked) \in Nat /\ DOMAIN ranked = 1 .. Len(ranked)
  BY LenProperties DEF S
<1>5. CASE limit > 0 /\ limit < Len(ranked)
  <2> DEFINE head == SubSeq(ranked, 1, limit)
  <2>1. items = head
    BY <1>5
  <2>2. \A i \in 1 .. limit : ranked[i] \in S
    BY <1>1, <1>4, <1>5, ElementOfSeq
  <2>3. /\ head \in Seq(S) /\ Len(head) = limit
    BY <1>1, <1>5, <2>2, SubSeqProperties
  <2> HIDE DEF head
  <2>4. SubSeq(head, 1, Len(head)) = head
    BY <2>3, SubSeqFull
  <2>5. IsPrefix(head, ranked)
    BY <1>5, <2>3, <2>4 DEF IsPrefix, head
  <2>6. Min({limit, Len(ranked)}) = limit
    <3>1. {limit, Len(ranked)} \in SUBSET Nat /\ {limit, Len(ranked)} # {}
      BY <1>1, <1>4, <1>5
    <3>2. /\ Min({limit, Len(ranked)}) \in {limit, Len(ranked)}
          /\ \A i \in {limit, Len(ranked)} : Min({limit, Len(ranked)}) <= i
      BY <3>1, LeastPlace
    <3> QED
      BY <1>1, <1>4, <1>5, <3>2
  <2> HIDE DEF items
  <2> QED
    BY <1>1, <1>3, <1>5, <2>1, <2>3, <2>5, <2>6 DEF plan
<1>6. CASE ~(limit > 0 /\ limit < Len(ranked))
  <2>1. items = ranked
    BY <1>6
  <2>2. IsPrefix(ranked, ranked)
    BY <1>4 DEF IsPrefix
  <2>3. limit < 1 \/ Min({limit, Len(ranked)}) = Len(ranked)
    <3> SUFFICES ASSUME limit > 0 PROVE Min({limit, Len(ranked)}) = Len(ranked)
      BY <1>1
    <3>1. {limit, Len(ranked)} \in SUBSET Nat /\ {limit, Len(ranked)} # {}
      BY <1>1, <1>4
    <3>2. /\ Min({limit, Len(ranked)}) \in {limit, Len(ranked)}
          /\ \A i \in {limit, Len(ranked)} : Min({limit, Len(ranked)}) <= i
      BY <3>1, LeastPlace
    <3> QED
      BY <1>1, <1>4, <1>6, <3>2
  <2> HIDE DEF items
  <2> QED
    BY <1>3, <2>1, <2>2, <2>3 DEF plan
<1> QED
  BY <1>5, <1>6

LEMMA PlannedWell ==
  ASSUME NEW report \in Reports, NEW mode \in AllModes, NEW context \in Contexts
  PROVE  RankedWell(Emit(report, mode), Ranked(report, mode, context),
                    Ranked(report, mode, Calm(context)), mode, context)
<1> DEFINE emitted == Emit(report, mode)
           chosen == EligibleOnes(emitted, context)
           left == Collapse(chosen)
           at == InOrder(Kept(chosen))
           ranked == Ranked(report, mode, context)
           first == Ranked(report, mode, Calm(context))
           targets == [i \in DOMAIN ranked |-> ranked[i].target]
<1>1. /\ AreGaps(emitted)
      /\ mode # "mutation-hardening" =>
           \A i \in DOMAIN emitted : emitted[i].lines > 0 \/ emitted[i].branches > 0
  BY EmittedGaps
<1> HIDE DEF emitted
<1>2. /\ AreGaps(chosen)
      /\ \A i \in DOMAIN chosen :
           Eligible(chosen[i].sut, context) /\ \E e \in DOMAIN emitted : chosen[i] = emitted[e]
      /\ \A e \in DOMAIN emitted : Eligible(emitted[e].sut, context) =>
           \E i \in DOMAIN chosen : chosen[i] = emitted[e]
  BY <1>1, EligibleGaps
<1>3. EligibleOnes(emitted, Calm(context)) = chosen
  <2>1. \A class : Eligible(class, Calm(context)) <=> Eligible(class, context)
    BY CalmIsAlike
  <2>2. {i \in DOMAIN emitted : Eligible(emitted[i].sut, Calm(context))}
          = {i \in DOMAIN emitted : Eligible(emitted[i].sut, context)}
    BY <2>1
  <2> QED
    BY <2>2 DEF EligibleOnes
<1> HIDE DEF chosen
<1>4. /\ \A i \in DOMAIN left : at[i] \in DOMAIN chosen
      /\ IsArray(left)
      /\ \A i \in DOMAIN left :
           /\ left[i].sut = chosen[at[i]].sut /\ left[i].lines = chosen[at[i]].lines
           /\ left[i].branches = chosen[at[i]].branches /\ left[i].method \notin Lambdas
  BY <1>2, Collapsed
<1>5. \A i \in DOMAIN left :
        /\ Misses(emitted, left[i])
        /\ Lines(left[i]) \in Int /\ Branches(left[i]) \in Int
  BY <1>1, <1>2, WhatIsMissed
<1>6. \A i \in DOMAIN left :
        /\ left[i].sut \in Int
        /\ mode # "mutation-hardening" => left[i].lines > 0 \/ left[i].branches > 0
  <2> TAKE i \in DOMAIN left
  <2>1. PICK e \in DOMAIN emitted : chosen[at[i]] = emitted[e]
    BY <1>2, <1>4
  <2>2. IsGap(emitted[e])
    BY <1>1 DEF AreGaps
  <2> HIDE DEF left, at
  <2> QED
    BY <1>1, <1>4, <2>1, <2>2 DEF IsGap
<1>7. ranked = ByScore(WorthATest(Scored(left, context)))
  BY DEF Ranked, chosen, emitted
<1>8. first = ByScore(WorthATest(Scored(left, Calm(context))))
  BY <1>3 DEF Ranked, emitted
<1>9. \A l \in DOMAIN chosen : \E k \in DOMAIN left :
        /\ left[k].sut = chosen[l].sut
        /\ \A j \in DOMAIN left : chosen[l].id \in Speaks(left[j]) <=> j = k
  BY <1>2, InOneItem
<1>10. \A k \in DOMAIN left : \A id \in Speaks(left[k]) : \E l \in DOMAIN chosen : chosen[l].id = id
  BY <1>2, Speaking
<1> HIDE DEF left, at, ranked, first
<1>11. \A i \in DOMAIN left : Score(left[i], context) \in Int /\ Score(left[i], Calm(context)) \in Int
  BY <1>5, ScoresAreInt
<1>12. /\ ranked \in Seq(ToSet(ranked)) /\ Len(ranked) \in Nat /\ DOMAIN ranked = 1 .. Len(ranked)
       /\ \E w : Arranges(ranked, w, left, Worthy(left, context), ScoreKey(left, context))
  BY <1>4, <1>6, <1>7, <1>11, Ranking
<1>13. /\ Len(first) \in Nat /\ DOMAIN first = 1 .. Len(first)
       /\ \E w : Arranges(first, w, left, Worthy(left, Calm(context)), ScoreKey(left, Calm(context)))
  BY <1>4, <1>6, <1>8, <1>11, Ranking
<1>14. PICK w : Arranges(ranked, w, left, Worthy(left, context), ScoreKey(left, context))
  BY <1>12
<1>15. PICK v : Arranges(first, v, left, Worthy(left, Calm(context)), ScoreKey(left, Calm(context)))
  BY <1>13
<1>16. \A i \in DOMAIN ranked : w[i] \in DOMAIN left /\ targets[i] = left[w[i]]
  BY <1>14 DEF Arranges, Worthy
<1>17. DOMAIN targets = DOMAIN ranked
  OBVIOUS
<1> HIDE DEF targets
<1>18. \A i \in DOMAIN targets : targets[i].method \notin Lambdas
  BY <1>4, <1>16, <1>17
<1>19. \A limit \in Limits :
         LET plan == BatchPlan(ranked, PlanLimit(limit, None))
         IN  /\ IsPrefix(plan.items, ranked) /\ plan.totalEligibleTargets = Len(ranked)
             /\ Len(plan.items) = IF limit < 1 THEN Len(ranked) ELSE Min({limit, Len(ranked)})
  BY <1>12, LimitTakesTheHead
<1>20. ASSUME mode # "mutation-hardening"
       PROVE  /\ EveryGapOnce(emitted, targets, context)
              /\ \A i \in DOMAIN targets : Misses(emitted, targets[i])
              /\ \A class \in {gap.sut : gap \in ToSet(emitted)} :
                   LET m == OfClass(ranked, class)
                       f == OfClass(first, class)
                   IN  Len(m) = Len(f) /\ \A i \in DOMAIN m : m[i].target = f[i].target
  <2>1. Worthy(left, context) = DOMAIN left
    BY <1>6, <1>20 DEF Worthy
  <2>2. /\ \A k \in DOMAIN left : \E i \in DOMAIN targets : w[i] = k
        /\ \A i, j \in DOMAIN targets : w[i] = w[j] => i = j
    <3>1. /\ \A k \in DOMAIN left : \E i \in DOMAIN ranked : w[i] = k
          /\ \A i, j \in DOMAIN ranked : Precedes(ScoreKey(left, context), w[i], w[j]) <=> i < j
      BY <1>14, <2>1 DEF Arranges
    <3>2. ASSUME NEW i \in DOMAIN ranked, NEW j \in DOMAIN ranked, w[i] = w[j] PROVE i = j
      <4>1. (i < j <=> j < i) /\ (i < j <=> i < i)
        BY <3>1, <3>2
      <4> QED
        BY <1>12, <4>1
    <3> QED
      BY <1>17, <3>1, <3>2
  <2>3. EveryGapOnce(emitted, targets, context)
    <3> SUFFICES ASSUME NEW gap \in ToSet(emitted)
                 PROVE  LET spoken == {i \in DOMAIN targets : gap.id \in Speaks(targets[i])}
                        IN  IF Eligible(gap.sut, context)
                            THEN \E i \in DOMAIN targets : spoken = {i} /\ targets[i].sut = gap.sut
                            ELSE spoken = {}
      BY DEF EveryGapOnce
    <3> DEFINE spoken == {i \in DOMAIN targets : gap.id \in Speaks(targets[i])}
    <3>1. PICK e \in DOMAIN emitted : gap = emitted[e]
      BY DEF ToSet
    <3>2. CASE Eligible(gap.sut, context)
      <4>1. PICK l \in DOMAIN chosen : chosen[l] = gap
        BY <1>2, <3>1, <3>2
      <4>2. PICK k \in DOMAIN left :
              /\ left[k].sut = chosen[l].sut
              /\ \A j \in DOMAIN left : chosen[l].id \in Speaks(left[j]) <=> j = k
        BY <1>9
      <4>3. PICK i \in DOMAIN targets : w[i] = k
        BY <2>2
      <4>4. \A j \in DOMAIN targets : gap.id \in Speaks(targets[j]) <=> j = i
        BY <1>16, <1>17, <2>2, <4>1, <4>2, <4>3
      <4>5. spoken = {i}
        BY <4>4
      <4>6. targets[i].sut = gap.sut
        BY <1>16, <1>17, <4>1, <4>2, <4>3
      <4> QED
        BY <3>2, <4>5, <4>6
    <3>3. CASE ~Eligible(gap.sut, context)
      <4>1. ASSUME NEW i \in DOMAIN targets, gap.id \in Speaks(targets[i])
            PROVE  FALSE
        <5>1. PICK l \in DOMAIN chosen : chosen[l].id = gap.id
          BY <1>10, <1>16, <1>17, <4>1
        <5>2. PICK d \in DOMAIN emitted : chosen[l] = emitted[d]
          BY <1>2
        <5>3. chosen[l] = gap
          BY <1>1, <3>1, <5>1, <5>2 DEF AreGaps
        <5> QED
          BY <1>2, <3>3, <5>3
      <4> QED
        BY <3>3, <4>1
    <3> QED
      BY <3>2, <3>3
  <2>4. \A i \in DOMAIN targets : Misses(emitted, targets[i])
    BY <1>5, <1>16, <1>17
  <2>5. IsArray(ranked) /\ IsArray(first)
    BY <1>12, <1>13 DEF IsArray
  <2>6. \A i \in DOMAIN left : /\ left[i].sut \in Int /\ Lines(left[i]) \in Int /\ Branches(left[i]) \in Int
                               /\ left[i].lines > 0 \/ left[i].branches > 0
    BY <1>5, <1>6, <1>20
  <2>7. \A class : LET m == OfClass(ranked, class)
                       f == OfClass(first, class)
                   IN  Len(m) = Len(f) /\ \A i \in DOMAIN m : m[i].target = f[i].target
    BY <1>14, <1>15, <2>5, <2>6, SameTargets
  <2> QED
    BY <2>3, <2>4, <2>7
<1> QED
  BY <1>18, <1>19, <1>20 DEF RankedWell, targets, ranked, first, emitted

-----------------------------------------------------------------------------
(* The pack of a class.                                                    *)

IsOf(t, gap) ==
  t.id = gap.id /\ t.sut = gap.sut /\ t.lines = gap.lines /\ t.branches = gap.branches

(* An item of the ranking has the identifier and the class of a gap, and   *)
(* what the gap misses.                                                    *)
LEMMA RankedAreGaps ==
  ASSUME NEW report \in Reports, NEW mode \in AllModes, NEW context \in Contexts
  PROVE  LET emitted == Emit(report, mode)
             ranked == Ranked(report, mode, context)
         IN  /\ AreGaps(emitted)
             /\ ranked \in Seq(ToSet(ranked))
             /\ \A i \in DOMAIN ranked : \E e \in DOMAIN emitted : IsOf(ranked[i].target, emitted[e])
<1> DEFINE emitted == Emit(report, mode)
           chosen == EligibleOnes(emitted, context)
           left == Collapse(chosen)
           at == InOrder(Kept(chosen))
           ranked == Ranked(report, mode, context)
<1>1. AreGaps(emitted)
  BY EmittedGaps
<1> HIDE DEF emitted
<1>2. /\ AreGaps(chosen)
      /\ \A i \in DOMAIN chosen : \E e \in DOMAIN emitted : chosen[i] = emitted[e]
  BY <1>1, EligibleGaps
<1> HIDE DEF chosen
<1>3. /\ IsArray(left)
      /\ \A i \in DOMAIN left :
           /\ at[i] \in DOMAIN chosen
           /\ left[i].sut = chosen[at[i]].sut /\ left[i].lines = chosen[at[i]].lines
           /\ left[i].branches = chosen[at[i]].branches /\ left[i].id = chosen[at[i]].id
  BY <1>2, Collapsed
<1>4. \A i \in DOMAIN left : Lines(left[i]) \in Int /\ Branches(left[i]) \in Int
  BY <1>1, <1>2, WhatIsMissed
<1>5. ranked = ByScore(WorthATest(Scored(left, context)))
  BY DEF Ranked, chosen, emitted
<1> HIDE DEF left, at, ranked
<1>6. ASSUME NEW i \in DOMAIN left
      PROVE  left[i].sut \in Int /\ \E e \in DOMAIN emitted : IsOf(left[i], emitted[e])
  <2>1. PICK e \in DOMAIN emitted : chosen[at[i]] = emitted[e]
    BY <1>2, <1>3
  <2>2. IsGap(emitted[e])
    BY <1>1 DEF AreGaps
  <2> QED
    BY <1>3, <2>1, <2>2 DEF IsGap, IsOf
<1>7. \A i \in DOMAIN left : Score(left[i], context) \in Int
  BY <1>4, ScoresAreInt
<1>8. /\ ranked \in Seq(ToSet(ranked))
      /\ \E w : Arranges(ranked, w, left, Worthy(left, context), ScoreKey(left, context))
  BY <1>3, <1>5, <1>6, <1>7, Ranking
<1>9. PICK w : Arranges(ranked, w, left, Worthy(left, context), ScoreKey(left, context))
  BY <1>8
<1>10. \A i \in DOMAIN ranked : w[i] \in DOMAIN left /\ ranked[i].target = left[w[i]]
  BY <1>9 DEF Arranges, Worthy
<1> QED
  BY <1>1, <1>6, <1>8, <1>10 DEF emitted, ranked

(* The items of a plan are items of the ranking.                           *)
LEMMA PlannedAreRanked ==
  ASSUME NEW ranked, ranked \in Seq(ToSet(ranked)), NEW limit \in Limits
  PROVE  LET items == BatchPlan(ranked, PlanLimit(limit, None)).items
         IN  \A i \in DOMAIN items : i \in DOMAIN ranked /\ items[i] = ranked[i]
<1> DEFINE S == ToSet(ranked)
           items == BatchPlan(ranked, PlanLimit(limit, None)).items
           head == SubSeq(ranked, 1, limit)
<1>1. limit \in Int /\ PlanLimit(limit, None) = limit
  BY OnLimits, OnReports DEF PlanLimit
<1>2. items = IF limit > 0 /\ limit < Len(ranked) THEN head ELSE ranked
  BY <1>1 DEF BatchPlan
<1> HIDE DEF S, items
<1>3. ranked \in Seq(S) /\ Len(ranked) \in Nat /\ DOMAIN ranked = 1 .. Len(ranked)
  BY LenProperties DEF S
<1>4. CASE limit > 0 /\ limit < Len(ranked)
  <2>1. \A i \in 1 .. limit : ranked[i] \in S
    BY <1>1, <1>3, <1>4, ElementOfSeq
  <2>2. head \in Seq(S) /\ Len(head) = limit /\ \A i \in 1 .. limit : head[i] = ranked[i]
    BY <1>1, <1>4, <2>1, SubSeqProperties
  <2> HIDE DEF head
  <2>3. DOMAIN head = 1 .. limit
    BY <2>2, LenProperties
  <2> QED
    BY <1>1, <1>2, <1>3, <1>4, <2>2, <2>3 DEF items
<1> QED
  BY <1>2, <1>4 DEF items

LEMMA CoverageIsOfItems ==
  ASSUME NEW emitted, AreGaps(emitted), NEW items, NEW class,
         \A i \in DOMAIN items : \E e \in DOMAIN emitted : IsOf(items[i].target, emitted[e])
  PROVE  LET mine == {items[i].target : i \in {j \in DOMAIN items : items[j].target.sut = class}}
         IN  {<<t.id, t.lines, t.branches>> : t \in Coverage(class, emitted, items)}
               = {<<t.id, t.lines, t.branches>> : t \in mine}
<1> DEFINE P == {j \in DOMAIN items : items[j].target.sut = class}
           mine == {items[i].target : i \in P}
           asked == {item.target.id : item \in {i \in ToSet(items) : i.target.sut = class}}
           covered == Coverage(class, emitted, items)
<1>1. covered = {t \in ToSet(emitted) : t.sut = class /\ t.id \in asked}
  BY DEF Coverage
<1>2. \A id : id \in asked <=> \E j \in P : items[j].target.id = id
  BY DEF ToSet
<1> HIDE DEF asked, covered
<1>3. ASSUME NEW t \in covered
      PROVE  \E u \in mine : <<t.id, t.lines, t.branches>> = <<u.id, u.lines, u.branches>>
  <2>1. PICK e \in DOMAIN emitted : t = emitted[e]
    BY <1>1 DEF ToSet
  <2>2. PICK j \in P : items[j].target.id = t.id
    BY <1>1, <1>2
  <2>3. j \in DOMAIN items
    OBVIOUS
  <2>4. PICK d \in DOMAIN emitted : IsOf(items[j].target, emitted[d])
    BY <2>3
  <2>5. d = e
    BY <2>1, <2>2, <2>4 DEF AreGaps, IsOf
  <2>6. items[j].target \in mine
    OBVIOUS
  <2> HIDE DEF mine, P
  <2> QED
    BY <2>1, <2>4, <2>5, <2>6 DEF IsOf
<1>4. ASSUME NEW u \in mine
      PROVE  \E t \in covered : <<t.id, t.lines, t.branches>> = <<u.id, u.lines, u.branches>>
  <2>1. PICK j \in P : u = items[j].target
    OBVIOUS
  <2>2. j \in DOMAIN items /\ u.sut = class
    BY <2>1
  <2>3. PICK e \in DOMAIN emitted : IsOf(u, emitted[e])
    BY <2>1, <2>2
  <2> HIDE DEF mine, P
  <2>4. emitted[e] \in covered
    BY <1>1, <1>2, <2>1, <2>2, <2>3 DEF IsOf, ToSet
  <2> QED
    BY <2>3, <2>4 DEF IsOf
<1> HIDE DEF mine
<1>5. {<<t.id, t.lines, t.branches>> : t \in covered} = {<<t.id, t.lines, t.branches>> : t \in mine}
  BY <1>3, <1>4
<1> QED
  BY <1>5 DEF covered, mine

(* The first k of a list are the members of T, each of them once.          *)
CountsOut(s, k, T) ==
  /\ \A i, j \in 1 .. k : s[i] = s[j] => i = j
  /\ \A i \in 1 .. k : s[i] \in T
  /\ \A t \in T : \E i \in 1 .. k : t = s[i]

LEMMA CountOfDistinct ==
  ASSUME NEW s, NEW k \in Nat, NEW T, CountsOut(s, k, T)
  PROVE  Cardinality(T) = k
<1> DEFINE f == [i \in 1 .. k |-> s[i]]
<1>1. f \in Surjection(1 .. k, T) /\ f \in Injection(1 .. k, T)
  BY DEF Surjection, Injection, IsInjective, CountsOut
<1>2. IsFiniteSet(1 .. k) /\ Cardinality(1 .. k) = k
  BY FirstPlaces
<1> HIDE DEF f
<1> QED
  BY <1>1, <1>2, FS_Surjection

-----------------------------------------------------------------------------
(* Failure memory.                                                         *)

(* The failures of a class that are left, the latest first.                *)
LEMMA LatestFirst ==
  ASSUME NEW failures, IsList(failures), \A i \in DOMAIN failures : failures[i].cycle \in Int,
         NEW class
  PROVE  LET rows == Latest(failures, class)
         IN  /\ rows \in Seq(ToSet(rows)) /\ Len(rows) \in Nat /\ DOMAIN rows = 1 .. Len(rows)
             /\ ToSet(rows) = {g \in ToSet(failures) : g.sut = class /\ g.result = "FAILED"}
             /\ \A i, j \in DOMAIN rows : i <= j => rows[i].cycle >= rows[j].cycle
             /\ \A i \in DOMAIN rows : rows[i].cycle \in Int
<1> DEFINE P == {i \in DOMAIN failures : failures[i].sut = class /\ failures[i].result = "FAILED"}
           mine == Pick(failures, P)
           key == [i \in DOMAIN mine |-> <<-mine[i].cycle, 0>>]
           at == Places(DOMAIN mine, key)
           rows == Latest(failures, class)
<1>1. P \in SUBSET Int /\ IsFiniteSet(P)
  BY FS_Subset DEF IsList
<1>2. {failures[i] : i \in P} = {g \in ToSet(failures) : g.sut = class /\ g.result = "FAILED"}
  BY DEF ToSet
<1>3. \A i \in P : failures[i].cycle \in Int
  OBVIOUS
<1>4. rows = Sorted(mine, key)
  BY DEF Latest
<1> HIDE DEF P
<1>5. IsArray(mine) /\ ToSet(mine) = {failures[i] : i \in P}
  BY <1>1, PickIsArray, Picked
<1> HIDE DEF mine
<1>6. \A i \in DOMAIN mine : mine[i].cycle \in Int
  <2>1. \A i \in DOMAIN mine : mine[i] \in {failures[j] : j \in P}
    BY <1>5 DEF ToSet
  <2> QED
    BY <1>3, <2>1
<1>7. IsKey(DOMAIN mine, key)
  <2>1. \A i \in DOMAIN mine : -mine[i].cycle \in Int
    BY <1>6
  <2> QED
    BY <2>1 DEF IsKey
<1>8. \A i, j \in DOMAIN mine : mine[i].cycle < mine[j].cycle => Precedes(key, j, i)
  <2> TAKE i, j \in DOMAIN mine
  <2>1. key[i] = <<-mine[i].cycle, 0>> /\ key[j] = <<-mine[j].cycle, 0>>
    OBVIOUS
  <2>2. mine[i].cycle < mine[j].cycle => -mine[j].cycle < -mine[i].cycle
    BY <1>6
  <2> HIDE DEF key
  <2> QED
    BY <2>1, <2>2 DEF Precedes
<1> HIDE DEF key
<1>9. /\ at \in [DOMAIN mine -> DOMAIN mine]
      /\ \A i \in DOMAIN mine : \E n \in DOMAIN mine : at[n] = i
      /\ \A m, n \in DOMAIN mine : Precedes(key, at[m], at[n]) <=> m < n
      /\ DOMAIN Sorted(mine, key) = DOMAIN mine
      /\ \A n \in DOMAIN mine : Sorted(mine, key)[n] = mine[at[n]]
  BY <1>5, <1>7, SortedInOrder
<1>10. rows = [i \in DOMAIN rows |-> rows[i]]
  BY <1>4 DEF Sorted
<1> HIDE DEF at, rows
<1>11. DOMAIN rows = DOMAIN mine /\ \A n \in DOMAIN rows : at[n] \in DOMAIN mine /\ rows[n] = mine[at[n]]
  BY <1>4, <1>9
<1>12. IsArray(rows)
  BY <1>5, <1>11 DEF IsArray
<1>13. ToSet(rows) = ToSet(mine)
  BY <1>9, <1>11 DEF ToSet
<1>14. \A i \in DOMAIN rows : rows[i].cycle \in Int
  BY <1>6, <1>11
<1>15. rows \in Seq(ToSet(rows)) /\ Len(rows) \in Nat /\ DOMAIN rows = 1 .. Len(rows)
  BY <1>10, <1>12, ArrayIsSeq
<1>16. \A i, j \in DOMAIN rows : i <= j => rows[i].cycle >= rows[j].cycle
  <2> SUFFICES ASSUME NEW i \in DOMAIN rows, NEW j \in DOMAIN rows, i <= j, rows[i].cycle < rows[j].cycle
               PROVE  FALSE
    BY <1>14
  <2>1. Precedes(key, at[j], at[i])
    BY <1>8, <1>11
  <2>2. j < i
    BY <1>9, <1>11, <2>1
  <2> QED
    BY <1>15, <2>2
<1> QED
  BY <1>2, <1>5, <1>13, <1>14, <1>15, <1>16 DEF rows

Pair(row) == <<row.code, row.fix>>

LEMMA RowsAreShown ==
  ASSUME NEW failures, IsList(failures), \A i \in DOMAIN failures : failures[i].cycle \in Int,
         NEW class, MaxRows \in Nat
  PROVE  FailuresAreShown(failures, class, FailureRows(failures, class))
<1> DEFINE rows == Latest(failures, class)
           S == ToSet(rows)
           Same(i, j) == rows[i].code = rows[j].code /\ rows[i].fix = rows[j].fix
           first == {i \in DOMAIN rows : \A j \in 1 .. i - 1 : ~Same(i, j)}
           rest == DOMAIN rows \ first
           at == InOrder(first)
           F == Pick(rows, first)
           R == Pick(rows, rest)
           most == Min({MaxRows, Len(rows)})
           shown == FailureRows(failures, class)
           keys == {Pair(row) : row \in ToSet(shown)}
<1>1. /\ rows \in Seq(S) /\ Len(rows) \in Nat /\ DOMAIN rows = 1 .. Len(rows)
      /\ S = {g \in ToSet(failures) : g.sut = class /\ g.result = "FAILED"}
      /\ \A i, j \in DOMAIN rows : i <= j => rows[i].cycle >= rows[j].cycle
  BY LatestFirst
<1>2. shown = SubSeq(F \o R, 1, most)
  BY DEF FailureRows
<1> HIDE DEF rows, S, shown
<1>3. /\ first \in SUBSET DOMAIN rows /\ rest \in SUBSET DOMAIN rows
      /\ first \in SUBSET Int /\ rest \in SUBSET Int
      /\ IsFiniteSet(first) /\ IsFiniteSet(rest) /\ IsFiniteSet(DOMAIN rows)
  <2>1. IsFiniteSet(DOMAIN rows) /\ DOMAIN rows \in SUBSET Int
    BY <1>1, FirstPlaces
  <2>2. first \in SUBSET DOMAIN rows /\ rest \in SUBSET DOMAIN rows
    OBVIOUS
  <2> HIDE DEF first, rest
  <2> QED
    BY <2>1, <2>2, FS_Subset
<1>4. Cardinality(first) + Cardinality(rest) = Len(rows) /\ Cardinality(first) \in Nat /\ Cardinality(rest) \in Nat
  <2>1. DOMAIN rows = first \cup rest /\ first \cap rest = {}
    OBVIOUS
  <2>2. Cardinality(DOMAIN rows) = Len(rows)
    BY <1>1, FirstPlaces
  <2>3. Cardinality({}) = 0
    BY FS_EmptySet
  <2> HIDE DEF first, rest
  <2>4. Cardinality(first \cup rest) = Cardinality(first) + Cardinality(rest) - Cardinality(first \cap rest)
    BY <1>3, FS_Union
  <2>5. Cardinality(first) \in Nat /\ Cardinality(rest) \in Nat
    BY <1>3, FS_CardinalityType
  <2>6. Cardinality(first \cup rest) = Len(rows) /\ Cardinality(first \cap rest) = 0
    BY <2>1, <2>2, <2>3
  <2> QED
    BY <1>1, <2>4, <2>5, <2>6
<1>5. \A i \in DOMAIN rows : rows[i] \in S
  BY <1>1, ElementOfSeq
<1>6. \A i, j \in first : Same(i, j) => i = j
  <2> SUFFICES ASSUME NEW i \in first, NEW j \in first, Same(i, j), j < i PROVE FALSE
    BY <1>3
  <2>1. j \in 1 .. i - 1
    BY <1>1, <1>3
  <2> QED
    BY <2>1
<1>7. \A j \in DOMAIN rows : \E i \in first : Same(i, j) /\ i <= j
  <2> TAKE j \in DOMAIN rows
  <2> DEFINE T == {i \in Nat : i \in DOMAIN rows /\ Same(i, j)}
             i == Min(T)
  <2>1. j \in T /\ T \in SUBSET Nat /\ T # {}
    BY <1>1
  <2>2. i \in T /\ \A k \in T : i <= k
    <3> HIDE DEF T
    <3> QED
      BY <2>1, LeastPlace
  <2> HIDE DEF i
  <2>3. i \in DOMAIN rows /\ Same(i, j)
    BY <2>2
  <2>4. \A k \in 1 .. i - 1 : ~Same(i, k)
    <3> SUFFICES ASSUME NEW k \in 1 .. i - 1, Same(i, k) PROVE FALSE
      OBVIOUS
    <3>1. k \in DOMAIN rows /\ k \in Nat /\ k < i
      BY <1>1, <2>3
    <3>2. Same(k, j)
      BY <2>3
    <3>3. k \in T
      BY <3>1, <3>2
    <3>4. i <= k /\ i \in Nat
      BY <2>2, <3>3
    <3> QED
      BY <3>1, <3>4
  <2>5. i \in first
    BY <2>3, <2>4
  <2> QED
    BY <2>1, <2>2, <2>3, <2>5
<1> HIDE DEF first, rest
<1>8. /\ at \in [1 .. Cardinality(first) -> first]
      /\ \A i \in first : \E n \in DOMAIN at : at[n] = i
      /\ \A m, n \in DOMAIN at : at[m] = at[n] => m = n
      /\ DOMAIN F = DOMAIN at /\ \A n \in DOMAIN at : F[n] = rows[at[n]]
  BY <1>3, PickedInOrder
<1>9. F \in Seq(S) /\ Len(F) = Cardinality(first)
  <2>1. F = [n \in DOMAIN F |-> F[n]]
    BY DEF Pick
  <2> HIDE DEF F, at
  <2>2. DOMAIN F = 1 .. Cardinality(first) /\ \A n \in DOMAIN F : F[n] \in S
    BY <1>3, <1>5, <1>8
  <2>3. F \in [1 .. Cardinality(first) -> S]
    BY <2>1, <2>2
  <2> QED
    BY <1>4, <2>3, SeqDef, LenProperties
<1>10. R \in Seq(S) /\ Len(R) = Cardinality(rest)
  <2> DEFINE to == InOrder(rest)
  <2>1. R = [n \in DOMAIN R |-> R[n]]
    BY DEF Pick
  <2>2. /\ to \in [1 .. Cardinality(rest) -> rest]
        /\ DOMAIN R = DOMAIN to /\ \A n \in DOMAIN to : R[n] = rows[to[n]]
    BY <1>3, PickedInOrder
  <2> HIDE DEF R, to
  <2>3. DOMAIN R = 1 .. Cardinality(rest) /\ \A n \in DOMAIN R : R[n] \in S
    BY <1>3, <1>5, <2>2
  <2>4. R \in [1 .. Cardinality(rest) -> S]
    BY <2>1, <2>3
  <2> QED
    BY <1>4, <2>4, SeqDef, LenProperties
<1> HIDE DEF F, R, at
<1>11. /\ F \o R \in Seq(S) /\ Len(F \o R) = Len(rows)
       /\ \A i \in 1 .. Len(F) : (F \o R)[i] = F[i]
  <2>1. /\ F \o R \in Seq(S) /\ Len(F \o R) = Len(F) + Len(R)
        /\ \A i \in 1 .. Len(F) + Len(R) : (F \o R)[i] = IF i <= Len(F) THEN F[i] ELSE R[i - Len(F)]
    BY <1>9, <1>10, ConcatProperties
  <2> QED
    BY <1>4, <1>9, <1>10, <2>1
<1>12. most \in Nat /\ most <= Len(rows) /\ (most < Len(rows) => most = MaxRows)
  <2>1. {MaxRows, Len(rows)} \in SUBSET Nat /\ {MaxRows, Len(rows)} # {}
    BY <1>1
  <2>2. most \in {MaxRows, Len(rows)} /\ \A i \in {MaxRows, Len(rows)} : most <= i
    BY <2>1, LeastPlace
  <2>3. most = MaxRows \/ most = Len(rows)
    BY <2>2
  <2>4. most <= MaxRows /\ most <= Len(rows)
    BY <2>2
  <2> HIDE DEF most
  <2> QED
    BY <1>1, <2>3, <2>4
<1> HIDE DEF most
<1>13. /\ shown \in Seq(S) /\ Len(shown) = most /\ DOMAIN shown = 1 .. most
       /\ \A i \in 1 .. most : shown[i] = (F \o R)[i]
  <2> DEFINE all == F \o R
  <2>1. \A i \in 1 .. most : all[i] \in S
    <3> HIDE DEF all
    <3> QED
      BY <1>1, <1>11, <1>12, ElementOfSeq DEF all
  <2> HIDE DEF all
  <2>2. /\ SubSeq(all, 1, most) \in Seq(S)
        /\ Len(SubSeq(all, 1, most)) = IF 1 <= most THEN most - 1 + 1 ELSE 0
        /\ \A i \in 1 .. most - 1 + 1 : SubSeq(all, 1, most)[i] = all[1 + i - 1]
    BY <1>12, <2>1, SubSeqProperties
  <2>3. Len(SubSeq(all, 1, most)) = most /\ \A i \in 1 .. most : SubSeq(all, 1, most)[i] = all[i]
    BY <1>12, <2>2
  <2>4. shown = SubSeq(all, 1, most)
    BY <1>2 DEF all
  <2> QED
    BY <2>2, <2>3, <2>4, LenProperties DEF all
<1>14. SUFFICES ASSUME NEW f \in S
               PROVE  IF Pair(f) \in keys
                      THEN \E row \in ToSet(shown) : Pair(row) = Pair(f) /\ row.cycle >= f.cycle
                      ELSE Cardinality(keys) = Len(shown) /\ Len(shown) = MaxRows
  BY <1>1 DEF FailuresAreShown, Pair, shown, keys
<1>15. PICK j \in DOMAIN rows : f = rows[j]
  BY DEF S, ToSet
<1>16. PICK i \in first : Same(i, j) /\ i <= j
  BY <1>7
<1>17. PICK q \in DOMAIN at : at[q] = i
  BY <1>8
<1>18. /\ i \in DOMAIN rows /\ F[q] = rows[i] /\ q \in 1 .. Len(F) /\ q \in Int
       /\ Pair(F[q]) = Pair(f) /\ F[q].cycle >= f.cycle
  <2>1. i \in DOMAIN rows /\ F[q] = rows[i] /\ q \in 1 .. Len(F)
    BY <1>3, <1>8, <1>9, <1>17
  <2>2. rows[i].cycle >= rows[j].cycle
    BY <1>1, <1>16, <2>1
  <2> QED
    BY <1>4, <1>9, <1>15, <1>16, <2>1, <2>2 DEF Pair
<1>19. CASE q <= most
  <2>1. shown[q] = F[q] /\ q \in DOMAIN shown
    BY <1>11, <1>12, <1>13, <1>18, <1>19
  <2>2. F[q] \in ToSet(shown)
    BY <2>1 DEF ToSet
  <2> QED
    BY <1>18, <2>2
<1>20. CASE most < q
  <2>1. most < Len(F) /\ Len(F) \in Nat /\ Len(F) <= Len(rows)
    BY <1>4, <1>9, <1>12, <1>18, <1>20
  <2>2. most = MaxRows
    BY <1>1, <1>12, <2>1
  <2>3. \A k \in 1 .. most : k \in 1 .. Len(F) /\ shown[k] = F[k] /\ k \in DOMAIN at /\ k < q /\ k \in Int
    BY <1>8, <1>9, <1>11, <1>12, <1>13, <1>20, <2>1, <1>18
  <2>4. \A k, l \in DOMAIN at : Pair(F[k]) = Pair(F[l]) => k = l
    <3> TAKE k, l \in DOMAIN at
    <3>1. at[k] \in first /\ at[l] \in first /\ F[k] = rows[at[k]] /\ F[l] = rows[at[l]]
      BY <1>8
    <3>2. Pair(F[k]) = Pair(F[l]) => Same(at[k], at[l])
      BY <3>1 DEF Pair
    <3> QED
      BY <1>6, <1>8, <3>1, <3>2
  <2>5. Pair(f) \notin keys
    <3> SUFFICES ASSUME NEW k \in 1 .. most, Pair(shown[k]) = Pair(f) PROVE FALSE
      BY <1>13 DEF ToSet
    <3>1. Pair(F[k]) = Pair(F[q]) /\ k \in DOMAIN at /\ k < q /\ k \in Int
      BY <1>18, <2>3
    <3>2. k = q
      BY <2>4, <3>1
    <3> QED
      BY <3>1, <3>2
  <2>6. Cardinality(keys) = most
    <3> DEFINE g == [k \in 1 .. most |-> Pair(shown[k])]
    <3>1. /\ \A k \in 1 .. most : g[k] \in keys
          /\ \A y \in keys : \E k \in 1 .. most : y = g[k]
      BY <1>13 DEF ToSet
    <3>2. \A k, l \in 1 .. most : g[k] = g[l] => k = l
      BY <2>3, <2>4
    <3> HIDE DEF g, keys
    <3>3. CountsOut(g, most, keys)
      BY <3>1, <3>2 DEF CountsOut
    <3> QED
      BY <1>12, <3>3, CountOfDistinct
  <2> HIDE DEF keys
  <2> QED
    BY <1>13, <2>2, <2>5, <2>6
<1> QED
  BY <1>12, <1>18, <1>19, <1>20

-----------------------------------------------------------------------------
(* The compact pack.                                                       *)

LEMMA ImportsAreDistinct ==
  ASSUME NEW K \in SUBSET DOMAIN Alphabet
  PROVE  LET imports == Pick(Alphabet, K)
         IN  /\ imports \in Seq(ToSet(imports))
             /\ \A i, j \in DOMAIN imports : imports[i] = imports[j] => i = j
<1> DEFINE at == InOrder(K)
           imports == Pick(Alphabet, K)
<1>1. K \in SUBSET Int /\ IsFiniteSet(K)
  BY OnPackings, FS_Subset DEF IsList
<1>2. /\ at \in [1 .. Cardinality(K) -> K]
      /\ \A m, n \in DOMAIN at : at[m] = at[n] => m = n
      /\ DOMAIN imports = DOMAIN at /\ \A n \in DOMAIN at : imports[n] = Alphabet[at[n]]
  BY <1>1, PickedInOrder
<1>3. IsArray(imports)
  BY <1>1, PickIsArray
<1>4. imports = [i \in DOMAIN imports |-> imports[i]]
  BY DEF Pick
<1> HIDE DEF at, imports
<1>5. \A i, j \in DOMAIN imports : imports[i] = imports[j] => i = j
  <2> TAKE i, j \in DOMAIN imports
  <2>1. at[i] \in DOMAIN Alphabet /\ at[j] \in DOMAIN Alphabet
    BY <1>2
  <2>2. Alphabet[at[i]] = Alphabet[at[j]] => at[i] = at[j]
    BY <2>1, OnPackings DEF IsInjective
  <2> QED
    BY <1>2, <2>2
<1> QED
  BY <1>3, <1>4, <1>5, ArrayIsSeq DEF imports

(* What the compact imports say; the imports up to a cap.                  *)
ReadBack(c) == (UNION {ToSet(c.leaves[p]) : p \in DOMAIN c.leaves}) \cup ToSet(c.rest)
UpTo(imports, max) == SubSeq(imports, 1, Min({max, Len(imports)}))

(* Written by package or singly, every import that is kept can be read.    *)
LEMMA ImportsAreRead ==
  ASSUME NEW imports, imports \in Seq(ToSet(imports)), NEW max \in Nat
  PROVE  LET c == CompactImports(imports, max)
             kept == UpTo(imports, max)
         IN  /\ ReadBack(c) = {kept[i] : i \in DOMAIN kept}
             /\ c.truncated = (Len(imports) > max)
             /\ Len(kept) = Min({max, Len(imports)}) /\ DOMAIN kept = 1 .. Len(kept)
             /\ Len(kept) \in Nat /\ Len(kept) <= Len(imports)
             /\ \A i \in DOMAIN kept : i \in DOMAIN imports /\ kept[i] = imports[i]
<1> DEFINE S == ToSet(imports)
           most == Min({max, Len(imports)})
           kept == SubSeq(imports, 1, most)
           Of(p) == {i \in DOMAIN kept : Package(kept[i]) = p}
           In(p) == Pick(kept, Of(p))
           prefixes == {p \in {Package(i) : i \in ToSet(kept)} \ {None} : Len(In(p)) >= 3}
           single == {i \in DOMAIN kept : Package(kept[i]) \notin prefixes}
           c == CompactImports(imports, max)
<1>1. Len(imports) \in Nat /\ DOMAIN imports = 1 .. Len(imports) /\ \A i \in DOMAIN imports : imports[i] \in S
  BY LenProperties, ElementOfSeq
<1>2. most \in Nat /\ most <= Len(imports)
  <2>1. {max, Len(imports)} \in SUBSET Nat /\ {max, Len(imports)} # {}
    BY <1>1
  <2>2. most \in {max, Len(imports)} /\ \A i \in {max, Len(imports)} : most <= i
    BY <2>1, LeastPlace
  <2>3. most = max \/ most = Len(imports)
    BY <2>2
  <2>4. most <= Len(imports)
    BY <2>2
  <2> HIDE DEF most
  <2> QED
    BY <1>1, <2>3, <2>4
<1>3. /\ c.leaves = [p \in prefixes |-> In(p)] /\ c.rest = Pick(kept, single)
      /\ c.truncated = (Len(imports) > max)
  BY DEF CompactImports
<1> HIDE DEF c, most, S
<1>4. /\ Len(kept) = most /\ DOMAIN kept = 1 .. most
      /\ \A i \in 1 .. most : kept[i] = imports[i] /\ i \in DOMAIN imports
  <2>1. \A i \in 1 .. most : imports[i] \in S /\ i \in DOMAIN imports
    BY <1>1, <1>2
  <2>2. /\ kept \in Seq(S)
        /\ Len(kept) = IF 1 <= most THEN most - 1 + 1 ELSE 0
        /\ \A i \in 1 .. most - 1 + 1 : kept[i] = imports[1 + i - 1]
    BY <1>2, <2>1, SubSeqProperties
  <2> HIDE DEF kept
  <2>3. Len(kept) = most /\ \A i \in 1 .. most : kept[i] = imports[i]
    BY <1>2, <2>2
  <2> QED
    BY <2>1, <2>2, <2>3, LenProperties
<1> HIDE DEF kept
<1>5. \A K \in SUBSET DOMAIN kept : ToSet(Pick(kept, K)) = {kept[i] : i \in K}
  <2> TAKE K \in SUBSET DOMAIN kept
  <2>1. K \in SUBSET Int /\ IsFiniteSet(K)
    BY <1>2, <1>4, FirstPlaces, FS_Subset
  <2> QED
    BY <2>1, Picked
<1>6. \A p : ToSet(In(p)) = {kept[i] : i \in Of(p)}
  <2> TAKE p
  <2>1. Of(p) \in SUBSET DOMAIN kept
    OBVIOUS
  <2> HIDE DEF Of
  <2> QED
    BY <1>5, <2>1
<1>7. ToSet(c.rest) = {kept[i] : i \in single}
  <2>1. single \in SUBSET DOMAIN kept
    OBVIOUS
  <2> HIDE DEF single
  <2> QED
    BY <1>3, <1>5, <2>1
<1> DEFINE read == ReadBack(c)
<1>8. read = (UNION {ToSet(c.leaves[p]) : p \in DOMAIN c.leaves}) \cup ToSet(c.rest)
  BY DEF ReadBack
<1> HIDE DEF read
<1>9. \A i \in DOMAIN kept : Package(kept[i]) \in prefixes \/ i \in single
  <2> HIDE DEF prefixes
  <2> QED
    OBVIOUS
<1>10. \A p : Of(p) \subseteq DOMAIN kept
  OBVIOUS
<1>11. single \subseteq DOMAIN kept
  OBVIOUS
<1>12. \A i \in DOMAIN kept : i \in Of(Package(kept[i]))
  OBVIOUS
<1> HIDE DEF In, prefixes, single, Of
<1>13. DOMAIN c.leaves = prefixes /\ \A p \in prefixes : ToSet(c.leaves[p]) = {kept[i] : i \in Of(p)}
  BY <1>3, <1>6
<1>14. ASSUME NEW x \in read PROVE \E i \in DOMAIN kept : x = kept[i]
  <2>1. CASE x \in ToSet(c.rest)
    BY <1>7, <1>11, <2>1
  <2>2. CASE x \notin ToSet(c.rest)
    <3>1. PICK p \in DOMAIN c.leaves : x \in ToSet(c.leaves[p])
      BY <1>8, <2>2
    <3>2. x \in {kept[i] : i \in Of(p)}
      BY <1>13, <3>1
    <3> QED
      BY <1>10, <3>2
  <2> QED
    BY <2>1, <2>2
<1>15. ASSUME NEW i \in DOMAIN kept PROVE kept[i] \in read
  <2>1. CASE Package(kept[i]) \in prefixes
    <3>1. kept[i] \in ToSet(c.leaves[Package(kept[i])])
      BY <1>12, <1>13, <2>1
    <3> QED
      BY <1>13, <1>8, <2>1, <3>1
  <2>2. CASE i \in single
    BY <1>7, <1>8, <2>2
  <2> QED
    BY <1>9, <2>1, <2>2
<1>16. read = {kept[i] : i \in DOMAIN kept}
  BY <1>14, <1>15
<1> QED
  BY <1>2, <1>3, <1>4, <1>16 DEF c, kept, most, read, UpTo

LEMMA CompactSaysThePack ==
  ASSUME NEW pack, NEW K \in SUBSET DOMAIN Alphabet, pack.imports = Pick(Alphabet, K)
  PROVE  CompactIsFaithful(Compact(pack, MaxImports), pack)
<1> DEFINE imports == pack.imports
           c == CompactImports(imports, MaxImports)
           kept == UpTo(imports, MaxImports)
           read == ReadBack(c)
<1>1. /\ imports \in Seq(ToSet(imports))
      /\ \A i, j \in DOMAIN imports : imports[i] = imports[j] => i = j
  BY ImportsAreDistinct
<1>2. MaxImports \in Nat
  BY OnPackings
<1> HIDE DEF imports
<1>3. /\ read = {kept[i] : i \in DOMAIN kept}
      /\ c.truncated = (Len(imports) > MaxImports)
      /\ Len(kept) = Min({MaxImports, Len(imports)}) /\ DOMAIN kept = 1 .. Len(kept)
      /\ Len(kept) \in Nat /\ Len(kept) <= Len(imports)
      /\ \A i \in DOMAIN kept : i \in DOMAIN imports /\ kept[i] = imports[i]
  BY <1>1, <1>2, ImportsAreRead
<1>4. Compact(pack, MaxImports).imports = c
  BY DEF Compact, imports
<1> HIDE DEF c, kept, read
<1>5. read \subseteq ToSet(imports)
  BY <1>3 DEF ToSet
<1>6. Cardinality(read) = Len(kept)
  <2>1. \A i, j \in 1 .. Len(kept) : kept[i] = kept[j] => i = j
    BY <1>1, <1>3
  <2>2. /\ \A i \in 1 .. Len(kept) : kept[i] \in read
        /\ \A t \in read : \E i \in 1 .. Len(kept) : t = kept[i]
    BY <1>3
  <2>3. CountsOut(kept, Len(kept), read)
    BY <2>1, <2>2 DEF CountsOut
  <2>4. Len(kept) \in Nat
    BY <1>3
  <2> QED
    BY <2>3, <2>4, CountOfDistinct
<1> QED
  BY <1>3, <1>4, <1>5, <1>6 DEF CompactIsFaithful, ReadBack, read, imports

LEMMA PacksAreFaithful ==
  ASSUME NEW packing \in Packings, NEW class
  PROVE  PackedWell(packing.project, class, Emit(packing.report, "coverage"),
                    BatchPlan(Ranked(packing.report, "coverage", packing.context),
                              PlanLimit(packing.limit, None)).items)
<1> DEFINE project == packing.project
           emitted == Emit(packing.report, "coverage")
           ranked == Ranked(packing.report, "coverage", packing.context)
           items == BatchPlan(ranked, PlanLimit(packing.limit, None)).items
           pack == Pack(project, class, emitted, items)
           mine == {items[i].target : i \in {j \in DOMAIN items : items[j].target.sut = class}}
<1>1. /\ packing.report \in Reports /\ packing.context \in Contexts /\ packing.limit \in Limits
      /\ IsList(project.failures) /\ \A i \in DOMAIN project.failures : project.failures[i].cycle \in Int
      /\ MaxRows \in Nat
  BY OnPackings
<1>2. "coverage" \in AllModes
  BY DEF AllModes
<1> HIDE DEF project
<1>3. /\ AreGaps(emitted)
      /\ ranked \in Seq(ToSet(ranked))
      /\ \A i \in DOMAIN ranked : \E e \in DOMAIN emitted : IsOf(ranked[i].target, emitted[e])
  BY <1>1, <1>2, RankedAreGaps
<1> HIDE DEF ranked, emitted
<1>4. \A i \in DOMAIN items : i \in DOMAIN ranked /\ items[i] = ranked[i]
  BY <1>1, <1>3, PlannedAreRanked
<1> HIDE DEF items
<1>5. \A i \in DOMAIN items : \E e \in DOMAIN emitted : IsOf(items[i].target, emitted[e])
  BY <1>3, <1>4
<1>6. {<<t.id, t.lines, t.branches>> : t \in Coverage(class, emitted, items)}
        = {<<t.id, t.lines, t.branches>> : t \in mine}
  BY <1>3, <1>5, CoverageIsOfItems
<1>7. FailuresAreShown(project.failures, class, FailureRows(project.failures, class))
  BY <1>1, RowsAreShown
<1>8. PICK K \in SUBSET DOMAIN Alphabet : pack.imports = Pick(Alphabet, K)
  <2> DEFINE contract == IF class \in DOMAIN project.contracts THEN project.contracts[class] ELSE Nothing
             graph == IF class \in DOMAIN project.graph THEN project.graph[class] ELSE Alone
             allowed == FrameworkImports(Stack(project.profile))
                         \cup (IF project.profile = None THEN {} ELSE project.profile.presets)
                         \cup project.sources \cup {class} \cup ReferencedTypes(contract, graph)
  <2>1. pack.imports = AllowedImports(project, class, contract, graph)
    BY DEF Pack
  <2> HIDE DEF pack, contract, graph
  <2>2. pack.imports = Pick(Alphabet, {i \in DOMAIN Alphabet : Alphabet[i] \in allowed})
    BY <2>1 DEF AllowedImports
  <2> QED
    BY <2>2
<1>9. pack.coverage = Coverage(class, emitted, items)
      /\ pack.failures = FailureRows(project.failures, class)
  BY DEF Pack
<1> HIDE DEF pack, mine
<1>10. CompactIsFaithful(Compact(pack, MaxImports), pack)
  BY <1>8, CompactSaysThePack
<1> QED
  BY <1>6, <1>7, <1>9, <1>10 DEF PackedWell, pack, mine, items, emitted, ranked, project

-----------------------------------------------------------------------------
(* The construction of a class.                                            *)

(* The packs of a build are these.                                         *)
Types(packs) == Literals \cup DOMAIN packs

IsPack(pack, types) ==
  /\ \A type \in DOMAIN pack.fixtures :
       /\ pack.fixtures[type].strategy \in {"constructor", "builder", "factory", "mock"}
       /\ pack.fixtures[type].nulls \in BOOLEAN
  /\ IsList(pack.constructors)
  /\ Public(pack.constructors) # {} =>
       LET params == Smallest(pack.constructors).params
       IN  /\ params \in Seq(ToSet(params))
           /\ \A p \in ToSet(params) :
                /\ p.type \in types
                /\ IsInjective([n \in 2 .. Len(params) + 1 |-> Numbered(NameOf(p), n)])

ArePacks(packs) ==
  /\ IsFiniteSet(DOMAIN packs)
  /\ None \notin Expressions(Types(packs)) /\ None \notin Recipes(Types(packs))
  /\ \A class \in DOMAIN packs : packs[class] # None => IsPack(packs[class], Types(packs))

(* The shortest constructor is one of them.                                *)
LEMMA SmallestIsPublic ==
  ASSUME NEW ctors, IsList(ctors), Public(ctors) # {},
         \A i \in Public(ctors) : Len(ctors[i].params) \in Nat
  PROVE  \E i \in Public(ctors) : Smallest(ctors) = ctors[i]
<1> DEFINE P == Public(ctors)
           size == {Len(ctors[i].params) : i \in P}
           least == {i \in P : Len(ctors[i].params) = Min(size)}
           Shortest(i) == \A j \in P :
             \/ Len(ctors[i].params) < Len(ctors[j].params)
             \/ Len(ctors[i].params) = Len(ctors[j].params) /\ i <= j
<1>1. P \in SUBSET Nat
  BY DEF Public, IsList
<1>2. size \in SUBSET Nat /\ size # {}
  OBVIOUS
<1>3. Min(size) \in size /\ \A n \in size : Min(size) <= n
  <2> HIDE DEF size
  <2> QED
    BY <1>2, LeastPlace
<1>4. least \in SUBSET Nat /\ least # {}
  BY <1>1, <1>3
<1>5. Min(least) \in least /\ \A i \in least : Min(least) <= i
  <2> HIDE DEF least
  <2> QED
    BY <1>4, LeastPlace
<1> DEFINE m == Min(least)
<1>6. m \in P /\ Len(ctors[m].params) = Min(size) /\ \A i \in least : m <= i
  BY <1>5
<1> HIDE DEF m
<1>7. Shortest(m)
  <2> SUFFICES ASSUME NEW j \in P
               PROVE  \/ Len(ctors[m].params) < Len(ctors[j].params)
                      \/ Len(ctors[m].params) = Len(ctors[j].params) /\ m <= j
    OBVIOUS
  <2>1. Len(ctors[j].params) \in size
    OBVIOUS
  <2>2. Len(ctors[j].params) \in Nat /\ Len(ctors[m].params) \in Nat
    BY <1>6
  <2>3. Len(ctors[m].params) <= Len(ctors[j].params)
    BY <1>3, <1>6, <2>1
  <2>4. Len(ctors[j].params) = Len(ctors[m].params) => m <= j
    BY <1>6
  <2> QED
    BY <2>2, <2>3, <2>4
<1>8. Smallest(ctors) = ctors[CHOOSE i \in P : Shortest(i)]
  BY DEF Smallest
<1> HIDE DEF Shortest
<1>9. (CHOOSE i \in P : Shortest(i)) \in P
  BY <1>6, <1>7
<1> QED
  BY <1>8, <1>9

(* One step of the recursion through the packs.                            *)
Deriving(packs, h, ctx, type, seen) ==
  LET fixture == FromCatalog(packs[ctx], type)
      params  == Smallest(packs[type].constructors).params
  IN  IF fixture # None THEN fixture
      ELSE IF type \in seen \/ packs[type] = None THEN None
      ELSE IF Public(packs[type].constructors) = {} THEN None
      ELSE FromConstructor(type, [i \in DOMAIN params |->
             IF params[i].type \in Literals THEN Literal(params[i].type)
             ELSE h[<<type, params[i].type, seen \cup {type}>>]])

Asked(packs) == (DOMAIN packs) \X (DOMAIN packs) \X SUBSET (DOMAIN packs)

IsDerivation(packs, h) ==
  h = [asked \in Asked(packs) |-> Deriving(packs, h, asked[1], asked[2], asked[3])]

Given(packs) == Recipes(Types(packs)) \cup {None}

LEMMA NestedTypes ==
  ASSUME NEW packs, ArePacks(packs), NEW type \in DOMAIN packs, packs[type] # None,
         Public(packs[type].constructors) # {}
  PROVE  LET params == Smallest(packs[type].constructors).params
         IN  /\ \A i \in DOMAIN params : params[i].type \in Types(packs) /\ params[i] \in ToSet(params)
             /\ \A p \in ToSet(params) : p.type \in Types(packs) /\ \E i \in DOMAIN params : p = params[i]
<1>1. IsPack(packs[type], Types(packs))
  BY DEF ArePacks
<1> DEFINE params == Smallest(packs[type].constructors).params
<1>2. \A p \in ToSet(params) : p.type \in Types(packs)
  BY <1>1 DEF IsPack
<1> QED
  BY <1>2 DEF ToSet

(* A recipe with an expression.                                            *)
Expressed(r) == r # None /\ r.expression # None

LEMMA FromConstructorIsGiven ==
  ASSUME NEW packs, ArePacks(packs), NEW type \in Types(packs), NEW nested,
         \A i \in DOMAIN nested : nested[i] \in Given(packs)
  PROVE  /\ FromConstructor(type, nested) \in Given(packs)
         /\ Expressed(FromConstructor(type, nested)) <=> \A i \in DOMAIN nested : Expressed(nested[i])
<1> DEFINE r == FromConstructor(type, nested)
<1>1. CASE \E i \in DOMAIN nested : nested[i] = None \/ nested[i].expression = None
  <2>1. r = None
    BY <1>1 DEF FromConstructor
  <2> QED
    BY <1>1, <2>1 DEF Given, Expressed
<1>2. CASE ~ \E i \in DOMAIN nested : nested[i] = None \/ nested[i].expression = None
  <2> DEFINE nulls == \E i \in DOMAIN nested : nested[i].expression.nulls
             e == [of |-> type, nulls |-> nulls]
  <2>1. nulls \in BOOLEAN
    OBVIOUS
  <2>3. r = [expression |-> e]
    BY <1>2 DEF FromConstructor
  <2> HIDE DEF nulls, r
  <2>4. e \in Expressions(Types(packs))
    BY <2>1 DEF Expressions
  <2> HIDE DEF e
  <2>5. r \in Recipes(Types(packs)) /\ r.expression = e
    BY <2>3, <2>4 DEF Recipes
  <2>6. e # None /\ r # None
    BY <2>4, <2>5 DEF ArePacks
  <2>7. \A i \in DOMAIN nested : Expressed(nested[i])
    BY <1>2 DEF Expressed
  <2>8. r \in Given(packs) /\ Expressed(r)
    BY <2>5, <2>6 DEF Given, Expressed
  <2> QED
    BY <2>7, <2>8 DEF r
<1> QED
  BY <1>1, <1>2

LEMMA LiteralIsGiven ==
  ASSUME NEW packs, NEW type \in Types(packs)
  PROVE  Literal(type) \in Given(packs)
<1>1. [of |-> type, nulls |-> FALSE] \in Expressions(Types(packs))
  BY DEF Expressions
<1> QED
  BY <1>1 DEF Literal, Given, Recipes

LEMMA FixtureIsGiven ==
  ASSUME NEW packs, NEW type \in Types(packs), NEW fixture,
         fixture.nulls \in BOOLEAN
  PROVE  RecipeFromFixture(fixture, type) \in Given(packs)
<1>1. [of |-> type, nulls |-> fixture.nulls] \in Expressions(Types(packs))
  BY DEF Expressions
<1>2. \A e \in Expressions(Types(packs)) \cup {None} : [expression |-> e] \in Recipes(Types(packs))
  BY DEF Recipes
<1> QED
  BY <1>1, <1>2 DEF RecipeFromFixture, Given

LEMMA DerivingIsGiven ==
  ASSUME NEW packs, ArePacks(packs), NEW h \in [Asked(packs) -> Given(packs)],
         NEW ctx \in DOMAIN packs, NEW type \in DOMAIN packs, NEW seen \in SUBSET DOMAIN packs
  PROVE  Deriving(packs, h, ctx, type, seen) \in Given(packs)
<1> DEFINE fixture == FromCatalog(packs[ctx], type)
           params  == Smallest(packs[type].constructors).params
           nested == [i \in DOMAIN params |->
             IF params[i].type \in Literals THEN Literal(params[i].type)
             ELSE h[<<type, params[i].type, seen \cup {type}>>]]
<1>0. type \in Types(packs) /\ None \in Given(packs)
  BY DEF Types, Given
<1>1. fixture \in Given(packs)
  <2>1. packs[ctx] # None /\ type \in DOMAIN packs[ctx].fixtures =>
          packs[ctx].fixtures[type].nulls \in BOOLEAN
    BY DEF ArePacks, IsPack
  <2> QED
    BY <1>0, <2>1, FixtureIsGiven DEF FromCatalog
<1>2. ASSUME packs[type] # None, Public(packs[type].constructors) # {}
      PROVE  FromConstructor(type, nested) \in Given(packs)
  <2>1. \A i \in DOMAIN params : params[i].type \in Types(packs)
    BY <1>2, NestedTypes
  <2> HIDE DEF params
  <2>2. ASSUME NEW i \in DOMAIN params PROVE nested[i] \in Given(packs)
    <3>1. CASE params[i].type \in Literals
      BY <2>1, <3>1, LiteralIsGiven
    <3>2. CASE params[i].type \notin Literals
      <4>1. params[i].type \in DOMAIN packs
        BY <2>1, <3>2 DEF Types
      <4>2. <<type, params[i].type, seen \cup {type}>> \in Asked(packs)
        BY <4>1 DEF Asked
      <4> QED
        BY <3>2, <4>2
    <3> QED
      BY <3>1, <3>2
  <2>3. DOMAIN nested = DOMAIN params
    OBVIOUS
  <2> HIDE DEF nested
  <2> QED
    BY <1>0, <2>2, <2>3, FromConstructorIsGiven
<1>3. Deriving(packs, h, ctx, type, seen) =
        IF fixture # None THEN fixture
        ELSE IF type \in seen \/ packs[type] = None THEN None
        ELSE IF Public(packs[type].constructors) = {} THEN None
        ELSE FromConstructor(type, nested)
  BY DEF Deriving
<1> HIDE DEF fixture, nested
<1> QED
  BY <1>0, <1>1, <1>2, <1>3

AgreeBelow(packs, g, h, type, seen) ==
  type \notin seen => \A next \in DOMAIN packs :
    g[<<type, next, seen \cup {type}>>] = h[<<type, next, seen \cup {type}>>]

LEMMA DerivingLooksDown ==
  ASSUME NEW packs, ArePacks(packs),
         NEW g, NEW h,
         NEW ctx \in DOMAIN packs, NEW type \in DOMAIN packs, NEW seen \in SUBSET DOMAIN packs,
         AgreeBelow(packs, g, h, type, seen)
  PROVE  Deriving(packs, g, ctx, type, seen) = Deriving(packs, h, ctx, type, seen)
<1> DEFINE fixture == FromCatalog(packs[ctx], type)
           params  == Smallest(packs[type].constructors).params
           nested(f) == [i \in DOMAIN params |->
             IF params[i].type \in Literals THEN Literal(params[i].type)
             ELSE f[<<type, params[i].type, seen \cup {type}>>]]
           Down(f) == IF fixture # None THEN fixture
             ELSE IF type \in seen \/ packs[type] = None THEN None
             ELSE IF Public(packs[type].constructors) = {} THEN None
             ELSE FromConstructor(type, nested(f))
<1>1. Deriving(packs, g, ctx, type, seen) = Down(g) /\ Deriving(packs, h, ctx, type, seen) = Down(h)
  BY DEF Deriving
<1>2. ASSUME type \notin seen, packs[type] # None, Public(packs[type].constructors) # {}
      PROVE  nested(g) = nested(h)
  <2>1. \A i \in DOMAIN params : params[i].type \in Literals \/ params[i].type \in DOMAIN packs
    BY <1>2, NestedTypes DEF Types
  <2> HIDE DEF params
  <2>2. \A i \in DOMAIN params : params[i].type \notin Literals =>
          g[<<type, params[i].type, seen \cup {type}>>] = h[<<type, params[i].type, seen \cup {type}>>]
    BY <1>2, <2>1 DEF AgreeBelow
  <2> QED
    BY <2>2
<1> HIDE DEF fixture, nested
<1>3. Down(g) = Down(h)
  BY <1>2
<1> HIDE DEF Down
<1> QED
  BY <1>1, <1>3

LEMMA LeftToSee ==
  ASSUME NEW C, IsFiniteSet(C), NEW s \in SUBSET C
  PROVE  /\ IsFiniteSet(C \ s) /\ Cardinality(C \ s) \in 0 .. Cardinality(C)
         /\ \A t \in C : t \notin s => Cardinality(C \ (s \cup {t})) < Cardinality(C \ s)
<1> DEFINE rest == C \ s
<1>1. rest \in SUBSET C
  OBVIOUS
<1> HIDE DEF rest
<1>2. /\ IsFiniteSet(rest) /\ Cardinality(rest) <= Cardinality(C)
      /\ Cardinality(rest) \in Nat /\ Cardinality(C) \in Nat
  BY <1>1, FS_Subset, FS_CardinalityType
<1>3. ASSUME NEW t \in C, t \notin s PROVE Cardinality(C \ (s \cup {t})) < Cardinality(rest)
  <2>1. t \in rest /\ C \ (s \cup {t}) = rest \ {t}
    BY <1>3 DEF rest
  <2>2. Cardinality(rest \ {t}) = Cardinality(rest) - 1
    BY <1>2, <2>1, FS_RemoveElement
  <2>3. Cardinality(C \ (s \cup {t})) = Cardinality(rest) - 1
    BY <2>1, <2>2
  <2> QED
    BY <1>2, <2>3
<1> QED
  BY <1>2, <1>3 DEF rest

LEMMA DerivationIsDefined ==
  ASSUME NEW packs, ArePacks(packs)
  PROVE  /\ IsDerivation(packs, Derivation(packs))
         /\ \A ctx, type \in DOMAIN packs, seen \in SUBSET DOMAIN packs :
              Derivation(packs)[<<ctx, type, seen>>] \in Given(packs)
<1> DEFINE C == DOMAIN packs
           D == Asked(packs)
           V == Given(packs)
           F == [h \in [D -> V] |->
                  [asked \in D |-> Deriving(packs, h, asked[1], asked[2], asked[3])]]
           size == [asked \in D |-> Cardinality(C \ asked[3])]
<1>0. /\ \A d \in D : /\ d[1] \in C /\ d[2] \in C /\ d[3] \in SUBSET C
                      /\ d = <<d[1], d[2], d[3]>>
      /\ \A c, t \in C, s \in SUBSET C : <<c, t, s>> \in D
  BY DEF Asked
<1>1. IsFiniteSet(C) /\ Cardinality(C) \in Nat
  BY FS_CardinalityType DEF ArePacks
<1>2. \A s \in SUBSET C : /\ IsFiniteSet(C \ s) /\ Cardinality(C \ s) \in 0 .. Cardinality(C)
                          /\ \A t \in C : t \notin s =>
                               Cardinality(C \ (s \cup {t})) < Cardinality(C \ s)
  <2> HIDE DEF C
  <2> QED
    BY <1>1, LeftToSee
<1>3. size \in [D -> 0 .. Cardinality(C)]
  BY <1>0, <1>2
<1>4. F \in [[D -> V] -> [D -> V]]
  <2>1. ASSUME NEW h \in [D -> V], NEW d \in D
        PROVE  Deriving(packs, h, d[1], d[2], d[3]) \in V
    BY <1>0, DerivingIsGiven
  <2> HIDE DEF D, V
  <2> QED
    BY <2>1
<1>14. ASSUME NEW d \in D, d[2] \notin d[3], NEW next \in C
       PROVE  /\ <<d[2], next, d[3] \cup {d[2]}>> \in D
              /\ size[<<d[2], next, d[3] \cup {d[2]}>>] < size[d]
  <2> DEFINE e == <<d[2], next, d[3] \cup {d[2]}>>
  <2>1. d[1] \in C /\ d[2] \in C /\ d[3] \in SUBSET C
    BY <1>0
  <2>2. e \in D /\ e[3] = d[3] \cup {d[2]}
    BY <1>0, <2>1
  <2> HIDE DEF e
  <2>3. size[e] = Cardinality(C \ (d[3] \cup {d[2]})) /\ size[d] = Cardinality(C \ d[3])
    BY <2>2
  <2>4. size[e] < size[d]
    BY <1>2, <1>14, <2>1, <2>3
  <2> QED
    BY <2>2, <2>4 DEF e
<1>5. LooksDown(F, D, V, size)
  <2> SUFFICES ASSUME NEW g \in [D -> V], NEW h \in [D -> V], NEW d \in D,
                      \A e \in D : size[e] < size[d] => g[e] = h[e]
               PROVE  F[g][d] = F[h][d]
    BY DEF LooksDown
  <2>1. d[1] \in C /\ d[2] \in C /\ d[3] \in SUBSET C
    BY <1>0
  <2>2. AgreeBelow(packs, g, h, d[2], d[3])
    BY <1>14 DEF AgreeBelow
  <2>3. Deriving(packs, g, d[1], d[2], d[3]) = Deriving(packs, h, d[1], d[2], d[3])
    BY <2>1, <2>2, DerivingLooksDown
  <2> QED
    BY <2>3
<1>6. V # {}
  BY DEF Given
<1>7. IsRecursion(F, D, V, size, Cardinality(C))
  <2> HIDE DEF F, D, V, size, C
  <2> QED
    BY <1>1, <1>3, <1>4, <1>5, <1>6 DEF IsRecursion
<1>8. PICK k \in [D -> V] : F[k] = k
  <2> HIDE DEF D, size, F, V, C
  <2> QED
    BY <1>7, RecursionIsDefined
<1>9. IsDerivation(packs, k)
  BY <1>8 DEF IsDerivation
<1> DEFINE derive == CHOOSE h : IsDerivation(packs, h)
<1>10. IsDerivation(packs, derive)
  BY <1>9
<1>11. Derivation(packs) = derive
  BY DEF Derivation, IsDerivation, Deriving, Asked
<1> HIDE DEF derive, F
<1>12. IsDerivation(packs, k)
  BY <1>9
<1> DEFINE Same(n) == \A d \in D : size[d] < n => derive[d] = k[d]
           N == {n \in Nat : Same(n)}
<1>13. ASSUME NEW n \in Nat, \A m \in Nat : m < n => Same(m) PROVE Same(n)
  <2> SUFFICES ASSUME NEW d \in D, size[d] < n PROVE derive[d] = k[d]
    OBVIOUS
  <2>1. d[1] \in C /\ d[2] \in C /\ d[3] \in SUBSET C
    BY <1>0
  <2>2. size[d] \in Nat
    BY <1>1, <1>3
  <2>3. Same(size[d])
    BY <1>13, <2>2
  <2>4. AgreeBelow(packs, derive, k, d[2], d[3])
    BY <1>14, <2>1, <2>3 DEF AgreeBelow
  <2>5. Deriving(packs, derive, d[1], d[2], d[3]) = Deriving(packs, k, d[1], d[2], d[3])
    BY <2>1, <2>4, DerivingLooksDown
  <2> QED
    BY <1>10, <1>12, <2>5 DEF IsDerivation
<1> HIDE DEF Same
<1>15. N = Nat
  <2>1. N \in SUBSET Nat /\ \A n \in Nat : (\A m \in Nat : m < n => m \in N) => n \in N
    BY <1>13
  <2> HIDE DEF N
  <2> QED
    BY <2>1, AllNumbers
<1>16. Same(Cardinality(C) + 1)
  <2>1. Cardinality(C) + 1 \in N
    <3> HIDE DEF N, C
    <3> QED
      BY <1>1, <1>15
  <2> QED
    BY <2>1
<1>17. \A d \in D : derive[d] \in V
  <2> SUFFICES ASSUME NEW d \in D PROVE derive[d] \in V
    OBVIOUS
  <2>1. size[d] < Cardinality(C) + 1
    <3> HIDE DEF size, C
    <3> QED
      BY <1>1, <1>3
  <2>2. derive[d] = k[d]
    BY <1>16, <2>1 DEF Same
  <2> QED
    BY <2>2
<1> QED
  BY <1>0, <1>10, <1>11, <1>17

(* Where class ctx is built there is an expression for the type.           *)
Has(packs, ctx, type, seen) == Expressed(Derivation(packs)[<<ctx, type, seen>>])

Reaches(packs, ctx, type, seen) ==
  IF ByCatalog(packs, ctx, type)
  THEN packs[ctx].fixtures[type].strategy = "constructor" /\ packs[ctx].fixtures[type].values
  ELSE /\ type \notin seen /\ packs[type] # None
       /\ Public(packs[type].constructors) # {}
       /\ \A p \in ToSet(Smallest(packs[type].constructors).params) :
            p.type \in Literals \/ Has(packs, type, p.type, seen \cup {type})

LEMMA LiteralIsExpressed ==
  ASSUME NEW packs, ArePacks(packs), NEW type \in Types(packs)
  PROVE  Expressed(Literal(type))
<1> DEFINE e == [of |-> type, nulls |-> FALSE]
<1>1. e \in Expressions(Types(packs)) /\ Literal(type) = [expression |-> e]
  BY DEF Expressions, Literal
<1> HIDE DEF e
<1>2. Literal(type) \in Recipes(Types(packs)) /\ Literal(type).expression = e
  BY <1>1 DEF Recipes
<1> QED
  BY <1>1, <1>2 DEF ArePacks, Expressed

LEMMA FixtureIsExpressed ==
  ASSUME NEW packs, ArePacks(packs), NEW type \in Types(packs), NEW fixture,
         fixture.strategy \in {"constructor", "builder", "factory", "mock"},
         fixture.nulls \in BOOLEAN
  PROVE  LET r == RecipeFromFixture(fixture, type)
         IN  /\ fixture.strategy = "mock" => r = None
             /\ fixture.strategy # "mock" =>
                  /\ r # None
                  /\ Expressed(r) <=> fixture.strategy = "constructor" /\ fixture.values
<1> DEFINE r == RecipeFromFixture(fixture, type)
           e == [of |-> type, nulls |-> fixture.nulls]
           x == IF fixture.strategy = "constructor" /\ fixture.values THEN e ELSE None
<1>1. e \in Expressions(Types(packs))
  BY DEF Expressions
<1>2. e # None
  <2> HIDE DEF e
  <2> QED
    BY <1>1 DEF ArePacks
<1>3. CASE fixture.strategy = "mock"
  BY <1>3 DEF RecipeFromFixture
<1>4. CASE fixture.strategy # "mock"
  <2>1. r = [expression |-> x]
    BY <1>4 DEF RecipeFromFixture
  <2> HIDE DEF e, r
  <2>2. x \in Expressions(Types(packs)) \cup {None}
    BY <1>1
  <2>3. x = None <=> ~(fixture.strategy = "constructor" /\ fixture.values)
    BY <1>2
  <2> HIDE DEF x
  <2>4. r \in Recipes(Types(packs)) /\ r.expression = x
    BY <2>1, <2>2 DEF Recipes
  <2>5. r # None
    BY <2>4 DEF ArePacks
  <2> QED
    BY <1>4, <2>3, <2>4, <2>5 DEF r, Expressed
<1> QED
  BY <1>3, <1>4

LEMMA HasIfReaches ==
  ASSUME NEW packs, ArePacks(packs), NEW ctx \in DOMAIN packs, packs[ctx] # None,
         NEW type \in DOMAIN packs, NEW seen \in SUBSET DOMAIN packs
  PROVE  Has(packs, ctx, type, seen) <=> Reaches(packs, ctx, type, seen)
<1> DEFINE h == Derivation(packs)
           fixture == FromCatalog(packs[ctx], type)
           params  == Smallest(packs[type].constructors).params
           nested == [i \in DOMAIN params |->
             IF params[i].type \in Literals THEN Literal(params[i].type)
             ELSE h[<<type, params[i].type, seen \cup {type}>>]]
           r == h[<<ctx, type, seen>>]
<1>0. type \in Types(packs) /\ Expressed(None) = FALSE
  BY DEF Types, Expressed
<1>1. r = Deriving(packs, h, ctx, type, seen)
  <2>1. IsDerivation(packs, h) /\ <<ctx, type, seen>> \in Asked(packs)
    BY DerivationIsDefined DEF Asked
  <2> HIDE DEF h
  <2> QED
    BY <2>1 DEF IsDerivation
<1>2. r = IF fixture # None THEN fixture
          ELSE IF type \in seen \/ packs[type] = None THEN None
          ELSE IF Public(packs[type].constructors) = {} THEN None
          ELSE FromConstructor(type, nested)
  BY <1>1 DEF Deriving
<1>3. ByCatalog(packs, ctx, type) => Reaches(packs, ctx, type, seen) =
        (packs[ctx].fixtures[type].strategy = "constructor" /\ packs[ctx].fixtures[type].values)
  BY DEF Reaches
<1>4. Has(packs, ctx, type, seen) = Expressed(r)
  BY DEF Has
<1>5. type \in DOMAIN packs[ctx].fixtures =>
        /\ packs[ctx].fixtures[type].strategy \in {"constructor", "builder", "factory", "mock"}
        /\ packs[ctx].fixtures[type].nulls \in BOOLEAN
  BY DEF ArePacks, IsPack
<1> HIDE DEF r, nested, h
<1>6. CASE ByCatalog(packs, ctx, type)
  <2>1. /\ fixture # None
        /\ Expressed(fixture) <=> /\ packs[ctx].fixtures[type].strategy = "constructor"
                                 /\ packs[ctx].fixtures[type].values
    BY <1>0, <1>5, <1>6, FixtureIsExpressed DEF ByCatalog, FromCatalog
  <2> HIDE DEF fixture
  <2> QED
    BY <1>2, <1>3, <1>4, <1>6, <2>1
<1>7. CASE ~ ByCatalog(packs, ctx, type)
  <2>1. fixture = None
    BY <1>0, <1>5, <1>7, FixtureIsExpressed DEF ByCatalog, FromCatalog
  <2> HIDE DEF fixture
  <2>2. CASE type \in seen \/ packs[type] = None \/ Public(packs[type].constructors) = {}
    BY <1>0, <1>2, <1>4, <1>7, <2>1, <2>2 DEF Reaches
  <2>3. CASE ~(type \in seen \/ packs[type] = None \/ Public(packs[type].constructors) = {})
    <3>1. r = FromConstructor(type, nested)
      BY <1>2, <2>1, <2>3
    <3>2. /\ \A i \in DOMAIN params : params[i].type \in Types(packs) /\ params[i] \in ToSet(params)
          /\ \A p \in ToSet(params) : p.type \in Types(packs) /\ \E i \in DOMAIN params : p = params[i]
      BY <2>3, NestedTypes
    <3> HIDE DEF params
    <3>3. \A i \in DOMAIN params :
            /\ nested[i] \in Given(packs)
            /\ Expressed(nested[i]) <=> \/ params[i].type \in Literals
                                       \/ Has(packs, type, params[i].type, seen \cup {type})
      <4> SUFFICES ASSUME NEW i \in DOMAIN params
                   PROVE  /\ nested[i] \in Given(packs)
                          /\ Expressed(nested[i]) <=> \/ params[i].type \in Literals
                                       \/ Has(packs, type, params[i].type, seen \cup {type})
        OBVIOUS
      <4>1. CASE params[i].type \in Literals
        <5>1. nested[i] = Literal(params[i].type)
          BY <4>1 DEF nested
        <5> QED
          BY <3>2, <4>1, <5>1, LiteralIsGiven, LiteralIsExpressed
      <4>2. CASE params[i].type \notin Literals
        <5>1. nested[i] = Derivation(packs)[<<type, params[i].type, seen \cup {type}>>]
          BY <4>2 DEF nested, h
        <5>2. params[i].type \in DOMAIN packs
          BY <3>2, <4>2 DEF Types
        <5> QED
          BY <4>2, <5>1, <5>2, DerivationIsDefined DEF Has
      <4> QED
        BY <4>1, <4>2
    <3>4. DOMAIN nested = DOMAIN params
      BY DEF nested
    <3>5. Expressed(r) <=> \A i \in DOMAIN params : Expressed(nested[i])
      BY <1>0, <3>1, <3>3, <3>4, FromConstructorIsGiven
    <3>6. Expressed(r) <=> \A p \in ToSet(params) :
            p.type \in Literals \/ Has(packs, type, p.type, seen \cup {type})
      BY <3>2, <3>3, <3>5
    <3> QED
      BY <1>4, <1>7, <2>3, <3>6 DEF Reaches, params
  <2> QED
    BY <2>2, <2>3
<1> QED
  BY <1>6, <1>7

(* What can be built from what is known.                                   *)
Pairs(packs) == (DOMAIN packs) \X (DOMAIN packs)

NextRound(packs, sut, known) ==
  {q \in Pairs(packs) : CanBuild(packs, sut, known, q[1], q[2])}

AreRounds(packs, sut, after) ==
  after = [n \in 0 .. Cardinality(Pairs(packs)) |->
             IF n = 0 THEN {}
             ELSE {q \in Pairs(packs) : CanBuild(packs, sut, after[n - 1], q[1], q[2])}]

Rounds(packs, sut, after) ==
  LET last == Cardinality(Pairs(packs))
  IN  /\ after[0] = {}
      /\ \A n \in 0 .. last : after[n] \in SUBSET Pairs(packs)
      /\ \A n \in 0 .. last : n # 0 => after[n] = NextRound(packs, sut, after[n - 1])
      /\ Buildable(packs, sut) = after[last]

LEMMA BuildableIsDefined ==
  ASSUME NEW packs, ArePacks(packs), NEW sut
  PROVE  /\ IsFiniteSet(Pairs(packs)) /\ Cardinality(Pairs(packs)) \in Nat
         /\ \E after : Rounds(packs, sut, after)
<1> DEFINE P == Pairs(packs)
           last == Cardinality(P)
           D == 0 .. last
           V == SUBSET P
           G(h, n) == IF n = 0 THEN {}
                      ELSE {q \in P : CanBuild(packs, sut, h[n - 1], q[1], q[2])}
           F == [h \in [D -> V] |-> [n \in D |-> G(h, n)]]
           size == [n \in D |-> n]
<1>1. IsFiniteSet(P)
  BY FS_Product DEF ArePacks, Pairs
<1> HIDE DEF P
<1>2. last \in Nat
  BY <1>1, FS_CardinalityType
<1>3. \A h, n : G(h, n) \in V
  OBVIOUS
<1> HIDE DEF last
<1>4. \A n \in D : n # 0 => n - 1 \in D /\ size[n - 1] < size[n]
  BY <1>2
<1>5. LooksDown(F, D, V, size)
  <2> SUFFICES ASSUME NEW g \in [D -> V], NEW h \in [D -> V], NEW n \in D,
                      \A e \in D : size[e] < size[n] => g[e] = h[e]
               PROVE  F[g][n] = F[h][n]
    BY DEF LooksDown
  <2>1. n # 0 => g[n - 1] = h[n - 1]
    BY <1>4
  <2>2. G(g, n) = G(h, n)
    BY <2>1
  <2> HIDE DEF G
  <2> QED
    BY <2>2
<1> HIDE DEF G
<1>6. F \in [[D -> V] -> [D -> V]]
  BY <1>3
<1>7. size \in [D -> 0 .. last]
  OBVIOUS
<1>8. IsRecursion(F, D, V, size, last)
  <2>1. V # {}
    OBVIOUS
  <2> HIDE DEF F, D, V, size
  <2> QED
    BY <1>2, <1>5, <1>6, <1>7, <2>1 DEF IsRecursion
<1>9. PICK k \in [D -> V] : F[k] = k
  <2> HIDE DEF D, size, F, V
  <2> QED
    BY <1>8, RecursionIsDefined
<1>10. AreRounds(packs, sut, k)
  <2>1. k = [n \in D |-> G(k, n)]
    BY <1>9
  <2> QED
    BY <2>1 DEF AreRounds, G, P, last
<1> DEFINE after == CHOOSE h : AreRounds(packs, sut, h)
<1>11. AreRounds(packs, sut, after)
  BY <1>10
<1>12. Buildable(packs, sut) = after[last]
  BY DEF Buildable, AreRounds, Pairs, P, last
<1> HIDE DEF after
<1>13. \A n \in D : after[n] = G(after, n)
  BY <1>11 DEF AreRounds, G, P, last
<1>14. after[0] = {}
  <2>1. 0 \in D
    BY <1>2
  <2>2. after[0] = G(after, 0)
    BY <1>13, <2>1
  <2> QED
    BY <2>2 DEF G
<1>15. \A n \in D : n # 0 => after[n] = NextRound(packs, sut, after[n - 1])
  BY <1>13 DEF G, NextRound, P
<1>16. Rounds(packs, sut, after)
  BY <1>3, <1>12, <1>13, <1>14, <1>15 DEF Rounds, P, last
<1> QED
  BY <1>1, <1>2, <1>16 DEF P, last

(* More known, more built.                                                 *)
LEMMA MoreIsBuilt ==
  ASSUME NEW packs, NEW sut, NEW known, NEW more, known \subseteq more
  PROVE  NextRound(packs, sut, known) \subseteq NextRound(packs, sut, more)
<1> SUFFICES ASSUME NEW q \in Pairs(packs), CanBuild(packs, sut, known, q[1], q[2])
             PROVE  CanBuild(packs, sut, more, q[1], q[2])
  BY DEF NextRound
<1> QED
  BY DEF CanBuild

LEMMA RoundsGrow ==
  ASSUME NEW packs, ArePacks(packs), NEW sut, NEW after, Rounds(packs, sut, after)
  PROVE  \A n \in 0 .. Cardinality(Pairs(packs)) : after[n] \subseteq NextRound(packs, sut, after[n])
<1> DEFINE last == Cardinality(Pairs(packs))
           Grows(n) == n \in 0 .. last => after[n] \subseteq NextRound(packs, sut, after[n])
           N == {n \in Nat : Grows(n)}
<1>0. last \in Nat
  BY BuildableIsDefined
<1>1. ASSUME NEW n \in Nat, \A m \in Nat : m < n => Grows(m) PROVE Grows(n)
  <2> SUFFICES ASSUME n \in 0 .. last PROVE after[n] \subseteq NextRound(packs, sut, after[n])
    OBVIOUS
  <2>1. CASE n = 0
    BY <2>1 DEF Rounds
  <2>2. CASE n # 0
    <3>1. n - 1 \in Nat /\ n - 1 < n /\ n - 1 \in 0 .. last
      BY <1>0, <2>2
    <3>2. after[n - 1] \subseteq NextRound(packs, sut, after[n - 1])
      BY <1>1, <3>1
    <3>3. after[n] = NextRound(packs, sut, after[n - 1])
      BY <2>2 DEF Rounds
    <3>4. NextRound(packs, sut, after[n - 1]) \subseteq NextRound(packs, sut, after[n])
      BY <3>2, <3>3, MoreIsBuilt
    <3> QED
      BY <3>3, <3>4
  <2> QED
    BY <2>1, <2>2
<1> HIDE DEF Grows
<1>2. N = Nat
  <2>1. N \in SUBSET Nat /\ \A n \in Nat : (\A m \in Nat : m < n => m \in N) => n \in N
    BY <1>1
  <2> HIDE DEF N
  <2> QED
    BY <2>1, AllNumbers
<1>3. \A n \in 0 .. last : n \in N
  <2> HIDE DEF N
  <2> QED
    BY <1>0, <1>2
<1> QED
  BY <1>3 DEF Grows

(* After as many rounds as there are pairs, nothing more can be built.     *)
LEMMA BuildableIsClosed ==
  ASSUME NEW packs, ArePacks(packs), NEW sut
  PROVE  NextRound(packs, sut, Buildable(packs, sut)) = Buildable(packs, sut)
<1> DEFINE last == Cardinality(Pairs(packs))
           P == Pairs(packs)
<1>0. IsFiniteSet(P) /\ last \in Nat
  BY BuildableIsDefined
<1>1. PICK after : Rounds(packs, sut, after)
  BY BuildableIsDefined
<1> DEFINE Closed(n) == NextRound(packs, sut, after[n]) = after[n]
           Good(n) == n \in 0 .. last => Closed(n) \/ Cardinality(after[n]) >= n
           N == {n \in Nat : Good(n)}
<1>2. \A n \in 0 .. last : /\ after[n] \in SUBSET P /\ IsFiniteSet(after[n])
                           /\ Cardinality(after[n]) \in Nat
  <2> SUFFICES ASSUME NEW n \in 0 .. last
               PROVE  /\ after[n] \in SUBSET P /\ IsFiniteSet(after[n])
                      /\ Cardinality(after[n]) \in Nat
    OBVIOUS
  <2>1. after[n] \in SUBSET P
    BY <1>1 DEF Rounds
  <2> HIDE DEF P
  <2> QED
    BY <1>0, <2>1, FS_Subset, FS_CardinalityType
<1>3. ASSUME NEW n \in Nat, \A m \in Nat : m < n => Good(m) PROVE Good(n)
  <2> SUFFICES ASSUME n \in 0 .. last, ~ Closed(n) PROVE Cardinality(after[n]) >= n
    OBVIOUS
  <2>1. CASE n = 0
    BY <1>2, <2>1
  <2>2. CASE n # 0
    <3>1. n - 1 \in Nat /\ n - 1 < n /\ n - 1 \in 0 .. last
      BY <1>0, <2>2
    <3>2. after[n] = NextRound(packs, sut, after[n - 1])
      BY <1>1, <2>2 DEF Rounds
    <3>3. after[n - 1] \subseteq after[n]
      BY <1>1, <3>1, <3>2, RoundsGrow
    <3>4. after[n - 1] # after[n]
      BY <3>2
    <3>5. Cardinality(after[n - 1]) >= n - 1
      <4>1. ~ Closed(n - 1)
        BY <3>2, <3>4
      <4> QED
        BY <1>3, <3>1, <4>1
    <3>6. Cardinality(after[n - 1]) < Cardinality(after[n])
      <4> DEFINE a == after[n - 1]
                 b == after[n]
      <4>1. IsFiniteSet(b) /\ a \in SUBSET b /\ a # b
        BY <1>2, <3>3, <3>4
      <4> HIDE DEF a, b
      <4>2. Cardinality(a) <= Cardinality(b) /\ (Cardinality(a) = Cardinality(b) => a = b)
            /\ Cardinality(a) \in Nat /\ Cardinality(b) \in Nat
        BY <4>1, FS_Subset, FS_CardinalityType
      <4> QED
        BY <4>1, <4>2 DEF a, b
    <3> QED
      BY <1>2, <3>1, <3>5, <3>6
  <2> QED
    BY <2>1, <2>2
<1> HIDE DEF Good
<1>4. N = Nat
  <2>1. N \in SUBSET Nat /\ \A n \in Nat : (\A m \in Nat : m < n => m \in N) => n \in N
    BY <1>3
  <2> HIDE DEF N
  <2> QED
    BY <2>1, AllNumbers
<1>5. last \in N /\ last \in 0 .. last
  <2> HIDE DEF N, last
  <2> QED
    BY <1>0, <1>4
<1>6. Closed(last) \/ Cardinality(after[last]) >= last
  BY <1>5 DEF Good
<1>7. CASE Cardinality(after[last]) >= last
  <2> DEFINE b == after[last]
  <2>1. b \in SUBSET P /\ Cardinality(b) >= Cardinality(P) /\ Cardinality(b) \in Nat
    BY <1>2, <1>5, <1>7
  <2> HIDE DEF b, P
  <2>2. b = P
    BY <1>0, <2>1, FS_Subset, FS_CardinalityType
  <2>3. b \subseteq NextRound(packs, sut, b)
    BY <1>1, <1>5, RoundsGrow DEF b
  <2>4. NextRound(packs, sut, b) \subseteq P
    BY DEF NextRound, P
  <2>5. Closed(last)
    BY <2>2, <2>3, <2>4 DEF b
  <2> QED
    BY <1>1, <2>5 DEF Rounds
<1>8. CASE Closed(last)
  BY <1>1, <1>8 DEF Rounds
<1> QED
  BY <1>6, <1>7, <1>8

LEMMA RoundsAscend ==
  ASSUME NEW packs, ArePacks(packs), NEW sut, NEW after, Rounds(packs, sut, after)
  PROVE  \A n \in 0 .. Cardinality(Pairs(packs)) : \A j \in 0 .. n : after[j] \subseteq after[n]
<1> DEFINE last == Cardinality(Pairs(packs))
           Above(n) == n \in 0 .. last => \A j \in 0 .. n : after[j] \subseteq after[n]
           N == {n \in Nat : Above(n)}
<1>0. last \in Nat
  BY BuildableIsDefined
<1>1. ASSUME NEW n \in Nat, \A m \in Nat : m < n => Above(m) PROVE Above(n)
  <2> SUFFICES ASSUME n \in 0 .. last, NEW j \in 0 .. n PROVE after[j] \subseteq after[n]
    OBVIOUS
  <2>1. CASE j = n
    BY <2>1
  <2>2. CASE j # n
    <3>1. n - 1 \in Nat /\ n - 1 < n /\ n - 1 \in 0 .. last /\ j \in 0 .. n - 1 /\ n # 0
      BY <1>0, <2>2
    <3>2. after[j] \subseteq after[n - 1]
      BY <1>1, <3>1
    <3>3. after[n] = NextRound(packs, sut, after[n - 1])
      BY <3>1 DEF Rounds
    <3>4. after[n - 1] \subseteq NextRound(packs, sut, after[n - 1])
      BY <3>1, RoundsGrow
    <3> QED
      BY <3>2, <3>3, <3>4
  <2> QED
    BY <2>1, <2>2
<1> HIDE DEF Above
<1>2. N = Nat
  <2>1. N \in SUBSET Nat /\ \A n \in Nat : (\A m \in Nat : m < n => m \in N) => n \in N
    BY <1>1
  <2> HIDE DEF N
  <2> QED
    BY <2>1, AllNumbers
<1>3. \A n \in 0 .. last : n \in N
  <2> HIDE DEF N
  <2> QED
    BY <1>0, <1>2
<1> QED
  BY <1>3 DEF Above

(* What is no matter of the catalog: a constructor made of known things.   *)
Follows(packs, sut, known, type) ==
  /\ type # sut /\ packs[type] # None
  /\ Public(packs[type].constructors) # {}
  /\ \A p \in ToSet(Smallest(packs[type].constructors).params) :
       p.type \in Literals \/ <<type, p.type>> \in known

LEMMA ByCatalogOrFollowing ==
  ASSUME NEW packs, NEW sut, NEW known, NEW ctx \in DOMAIN packs, NEW type \in DOMAIN packs
  PROVE  <<ctx, type>> \in NextRound(packs, sut, known) <=>
           /\ packs[ctx] # None
           /\ IF ByCatalog(packs, ctx, type)
              THEN packs[ctx].fixtures[type].strategy = "constructor" /\ packs[ctx].fixtures[type].values
              ELSE Follows(packs, sut, known, type)
<1>1. <<ctx, type>> \in NextRound(packs, sut, known) <=> CanBuild(packs, sut, known, ctx, type)
  BY DEF NextRound, Pairs
<1> QED
  BY <1>1 DEF CanBuild, Follows

(* What the recursion builds can be built: it never follows the class      *)
(* under test, nor a class twice.                                          *)
LEMMA HasIsBuildable ==
  ASSUME NEW packs, ArePacks(packs), NEW sut \in DOMAIN packs
  PROVE  \A ctx, type \in DOMAIN packs, seen \in SUBSET DOMAIN packs :
           packs[ctx] # None /\ sut \in seen /\ Has(packs, ctx, type, seen)
             => <<ctx, type>> \in Buildable(packs, sut)
<1> DEFINE C == DOMAIN packs
           can == Buildable(packs, sut)
           Good(n) == \A ctx, type \in C, seen \in SUBSET C :
             Cardinality(C \ seen) = n /\ packs[ctx] # None /\ sut \in seen
               /\ Has(packs, ctx, type, seen) => <<ctx, type>> \in can
           N == {n \in Nat : Good(n)}
<1>0. NextRound(packs, sut, can) = can
  BY BuildableIsClosed
<1>1. \A s \in SUBSET C : /\ Cardinality(C \ s) \in Nat
                          /\ \A t \in C : t \notin s =>
                               /\ Cardinality(C \ (s \cup {t})) \in Nat
                               /\ Cardinality(C \ (s \cup {t})) < Cardinality(C \ s)
  <2>1. IsFiniteSet(C) /\ Cardinality(C) \in Nat
    BY FS_CardinalityType DEF ArePacks
  <2>2. \A s \in SUBSET C, t \in C : s \cup {t} \in SUBSET C
    OBVIOUS
  <2> HIDE DEF C
  <2>3. \A s \in SUBSET C : Cardinality(C \ s) \in Nat
    <3>1. \A s \in SUBSET C : Cardinality(C \ s) \in 0 .. Cardinality(C)
      BY <2>1, LeftToSee
    <3> QED
      BY <2>1, <3>1
  <2>4. \A s \in SUBSET C, t \in C : t \notin s => Cardinality(C \ (s \cup {t})) < Cardinality(C \ s)
    BY <2>1, LeftToSee
  <2> QED
    BY <2>2, <2>3, <2>4
<1> HIDE DEF can
<1>2. ASSUME NEW n \in Nat, \A m \in Nat : m < n => Good(m) PROVE Good(n)
  <2> SUFFICES ASSUME NEW ctx \in C, NEW type \in C, NEW seen \in SUBSET C,
                      Cardinality(C \ seen) = n, packs[ctx] # None, sut \in seen,
                      Has(packs, ctx, type, seen)
               PROVE  <<ctx, type>> \in can
    OBVIOUS
  <2>1. Reaches(packs, ctx, type, seen)
    BY HasIfReaches
  <2>2. CASE ByCatalog(packs, ctx, type)
    <3>1. <<ctx, type>> \in NextRound(packs, sut, can)
      BY <2>1, <2>2, ByCatalogOrFollowing DEF Reaches
    <3> QED
      BY <1>0, <3>1
  <2>3. CASE ~ ByCatalog(packs, ctx, type)
    <3> DEFINE params == Smallest(packs[type].constructors).params
    <3>1. /\ type \notin seen /\ packs[type] # None /\ Public(packs[type].constructors) # {}
          /\ \A p \in ToSet(params) :
               p.type \in Literals \/ Has(packs, type, p.type, seen \cup {type})
      BY <2>1, <2>3 DEF Reaches
    <3>2. \A p \in ToSet(params) : p.type \in Literals \/ p.type \in C
      BY <3>1, NestedTypes DEF Types
    <3> HIDE DEF params
    <3>3. \A p \in ToSet(params) : p.type \in Literals \/ <<type, p.type>> \in can
      <4> SUFFICES ASSUME NEW p \in ToSet(params), p.type \notin Literals
                   PROVE  <<type, p.type>> \in can
        OBVIOUS
      <4> DEFINE more == seen \cup {type}
                 m == Cardinality(C \ more)
      <4>1. more \in SUBSET C /\ sut \in more /\ m \in Nat /\ m < n
        BY <1>1, <3>1
      <4>2. Has(packs, type, p.type, more) /\ p.type \in C
        BY <3>1, <3>2
      <4>3. Good(m)
        <5> HIDE DEF Good, m
        <5> QED
          BY <1>2, <4>1
      <4> HIDE DEF more
      <4> QED
        BY <3>1, <4>1, <4>2, <4>3
    <3>4. Follows(packs, sut, can, type)
      BY <3>1, <3>3 DEF Follows, params
    <3>5. <<ctx, type>> \in NextRound(packs, sut, can)
      BY <2>3, <3>4, ByCatalogOrFollowing
    <3> QED
      BY <1>0, <3>5
  <2> QED
    BY <2>2, <2>3
<1>3. N = Nat
  <2> HIDE DEF Good
  <2>1. N \in SUBSET Nat /\ \A n \in Nat : (\A m \in Nat : m < n => m \in N) => n \in N
    BY <1>2
  <2> HIDE DEF N
  <2> QED
    BY <2>1, AllNumbers
<1>4. \A seen \in SUBSET C : Good(Cardinality(C \ seen))
  <2> SUFFICES ASSUME NEW seen \in SUBSET C PROVE Good(Cardinality(C \ seen))
    OBVIOUS
  <2> DEFINE n == Cardinality(C \ seen)
  <2>1. n \in Nat
    BY <1>1
  <2> HIDE DEF n
  <2>2. n \in N
    <3> HIDE DEF N
    <3> QED
      BY <1>3, <2>1
  <2>3. Good(n)
    BY <2>2
  <2> QED
    BY <2>3 DEF n
<1> QED
  BY <1>4 DEF can

(* What can be built the recursion builds: a class that could be built in  *)
(* a round was not on the path in an earlier one.                          *)
LEMMA BuildableHas ==
  ASSUME NEW packs, ArePacks(packs), NEW sut, NEW after, Rounds(packs, sut, after)
  PROVE  \A n \in Nat : n + 1 \in 0 .. Cardinality(Pairs(packs)) =>
           \A ctx, type \in DOMAIN packs, seen \in SUBSET DOMAIN packs :
             /\ <<ctx, type>> \in after[n + 1]
             /\ \A s \in seen : ~ Follows(packs, sut, after[n], s)
             => Has(packs, ctx, type, seen)
<1> DEFINE C == DOMAIN packs
           last == Cardinality(Pairs(packs))
           Good(n) == n + 1 \in 0 .. last =>
             \A ctx, type \in C, seen \in SUBSET C :
               (<<ctx, type>> \in after[n + 1]
                  /\ \A s \in seen : ~ Follows(packs, sut, after[n], s))
               => Has(packs, ctx, type, seen)
           N == {n \in Nat : Good(n)}
<1>0. last \in Nat
  BY BuildableIsDefined
<1>1. ASSUME NEW n \in Nat, \A m \in Nat : m < n => Good(m) PROVE Good(n)
  <2> SUFFICES ASSUME n + 1 \in 0 .. last, NEW ctx \in C, NEW type \in C, NEW seen \in SUBSET C,
                      <<ctx, type>> \in after[n + 1],
                      \A s \in seen : ~ Follows(packs, sut, after[n], s)
               PROVE  Has(packs, ctx, type, seen)
    OBVIOUS
  <2>0. n \in 0 .. last /\ n + 1 # 0 /\ (n + 1) - 1 = n
    BY <1>0
  <2>1. <<ctx, type>> \in NextRound(packs, sut, after[n])
    BY <2>0 DEF Rounds
  <2>2. packs[ctx] # None
    BY <2>1, ByCatalogOrFollowing
  <2>3. CASE ByCatalog(packs, ctx, type)
    <3>1. Reaches(packs, ctx, type, seen)
      BY <2>1, <2>3, ByCatalogOrFollowing DEF Reaches
    <3> QED
      BY <2>2, <3>1, HasIfReaches
  <2>4. CASE ~ ByCatalog(packs, ctx, type)
    <3> DEFINE params == Smallest(packs[type].constructors).params
               K == {k \in Nat : k <= n /\ Follows(packs, sut, after[k], type)}
               m == Min(K)
    <3>1. Follows(packs, sut, after[n], type)
      BY <2>1, <2>4, ByCatalogOrFollowing
    <3>2. K \in SUBSET Nat /\ K # {}
      BY <3>1
    <3>3. m \in K /\ \A k \in K : m <= k
      <4> HIDE DEF K
      <4> QED
        BY <3>2, LeastPlace
    <3> HIDE DEF m
    <3>4. /\ m \in Nat /\ m <= n /\ Follows(packs, sut, after[m], type)
          /\ \A k \in Nat : k < m => ~ Follows(packs, sut, after[k], type)
      <4>1. m \in Nat /\ m <= n /\ Follows(packs, sut, after[m], type)
        BY <3>3
      <4>2. ASSUME NEW k \in Nat, k < m, Follows(packs, sut, after[k], type) PROVE FALSE
        <5>1. k \in K
          BY <4>1, <4>2
        <5> QED
          BY <3>3, <4>1, <4>2, <5>1
      <4> QED
        BY <4>1, <4>2
    <3> HIDE DEF K
    <3>5. packs[type] # None /\ Public(packs[type].constructors) # {} /\ type \notin seen
      BY <3>1 DEF Follows
    <3>6. \A p \in ToSet(params) : p.type \in Literals \/ p.type \in C
      BY <3>5, NestedTypes DEF Types
    <3>7. \A p \in ToSet(params) : p.type \in Literals \/ <<type, p.type>> \in after[m]
      BY <3>4 DEF Follows
    <3> HIDE DEF params
    <3>8. \A p \in ToSet(params) :
            p.type \in Literals \/ Has(packs, type, p.type, seen \cup {type})
      <4> SUFFICES ASSUME NEW p \in ToSet(params), p.type \notin Literals
                   PROVE  Has(packs, type, p.type, seen \cup {type})
        OBVIOUS
      <4>1. <<type, p.type>> \in after[m] /\ p.type \in C
        BY <3>6, <3>7
      <4>2. m # 0
        <5>1. after[0] = {}
          BY DEF Rounds
        <5> QED
          BY <4>1, <5>1
      <4> DEFINE k == m - 1
                 more == seen \cup {type}
      <4>3. k \in Nat /\ k < n /\ k < m /\ k + 1 = m /\ k + 1 \in 0 .. last /\ k \in 0 .. n
        BY <1>0, <2>0, <3>4, <4>2
      <4> HIDE DEF k
      <4>4. after[k] \subseteq after[n]
        BY <2>0, <4>3, RoundsAscend
      <4>5. \A s \in more : ~ Follows(packs, sut, after[k], s)
        <5> SUFFICES ASSUME NEW s \in seen, Follows(packs, sut, after[k], s) PROVE FALSE
          BY <3>4, <4>3
        <5>1. Follows(packs, sut, after[n], s)
          BY <4>4 DEF Follows
        <5> QED
          BY <5>1
      <4>6. Good(k)
        <5> HIDE DEF Good
        <5> QED
          BY <1>1, <4>3
      <4>7. more \in SUBSET C /\ <<type, p.type>> \in after[k + 1]
        BY <4>1, <4>3
      <4> HIDE DEF more
      <4>8. Has(packs, type, p.type, more)
        BY <4>1, <4>3, <4>5, <4>6, <4>7
      <4> QED
        BY <4>8 DEF more
    <3>9. Reaches(packs, ctx, type, seen)
      BY <2>4, <3>5, <3>8 DEF Reaches, params
    <3> QED
      BY <2>2, <3>9, HasIfReaches
  <2> QED
    BY <2>3, <2>4
<1>2. N = Nat
  <2> HIDE DEF Good
  <2>1. N \in SUBSET Nat /\ \A n \in Nat : (\A m \in Nat : m < n => m \in N) => n \in N
    BY <1>1
  <2> HIDE DEF N
  <2> QED
    BY <2>1, AllNumbers
<1>3. \A n \in Nat : Good(n)
  <2> HIDE DEF Good
  <2>1. \A n \in N : Good(n)
    OBVIOUS
  <2> HIDE DEF N
  <2> QED
    BY <1>2, <2>1
<1> QED
  BY <1>3

(* From the class under test, the recursion builds what can be built.      *)
LEMMA DerivationIsComplete ==
  ASSUME NEW packs, ArePacks(packs), NEW sut \in DOMAIN packs, packs[sut] # None,
         NEW type \in DOMAIN packs
  PROVE  Has(packs, sut, type, {sut}) <=> <<sut, type>> \in Buildable(packs, sut)
<1> DEFINE last == Cardinality(Pairs(packs))
<1>1. last \in Nat
  BY BuildableIsDefined
<1>2. PICK after : Rounds(packs, sut, after)
  BY BuildableIsDefined
<1>3. Buildable(packs, sut) = after[last] /\ after[0] = {}
  BY <1>2 DEF Rounds
<1>4. ASSUME <<sut, type>> \in after[last] PROVE Has(packs, sut, type, {sut})
  <2>1. last # 0
    BY <1>3, <1>4
  <2> DEFINE n == last - 1
  <2>2. n \in Nat /\ n + 1 = last /\ n + 1 \in 0 .. last
    BY <1>1, <2>1
  <2> HIDE DEF n
  <2>3. <<sut, type>> \in after[n + 1]
    BY <1>4, <2>2
  <2>4. \A s \in {sut} : ~ Follows(packs, sut, after[n], s)
    BY DEF Follows
  <2>5. {sut} \in SUBSET DOMAIN packs
    OBVIOUS
  <2> HIDE DEF last
  <2> QED
    BY <1>2, <2>2, <2>3, <2>4, <2>5, BuildableHas DEF last
<1> HIDE DEF last
<1>5. Has(packs, sut, type, {sut}) => <<sut, type>> \in Buildable(packs, sut)
  BY HasIsBuildable
<1> QED
  BY <1>3, <1>4, <1>5

-----------------------------------------------------------------------------
(* The names of the arguments.                                             *)

NumbersAreNames(param, k) == IsInjective([n \in 2 .. k + 2 |-> Numbered(NameOf(param), n)])

LEMMA NameIsNew ==
  ASSUME NEW param, NEW used, IsFiniteSet(used), NEW k \in Nat, Cardinality(used) <= k,
         NumbersAreNames(param, k)
  PROVE  /\ NameFor(param, used) \notin used
         /\ \/ NameFor(param, used) = NameOf(param)
            \/ \E n \in 2 .. k + 2 : NameFor(param, used) = Numbered(NameOf(param), n)
<1> DEFINE c == Cardinality(used)
           name == NameOf(param)
           R == 2 .. c + 2
           free == {n \in R : Numbered(name, n) \notin used}
           f == [n \in R |-> Numbered(name, n)]
           least == CHOOSE n \in free : \A m \in free : n <= m
<1>1. c \in Nat /\ c <= k
  BY FS_CardinalityType
<1>2. IsFiniteSet(R) /\ Cardinality(R) = c + 1
  <2> HIDE DEF c
  <2>1. IsFiniteSet(R) /\ Cardinality(R) = IF 2 > c + 2 THEN 0 ELSE (c + 2) - 2 + 1
    BY <1>1, FS_Interval
  <2> QED
    BY <1>1, <2>1
<1> HIDE DEF c
<1>3. \A m, n \in R : f[m] = f[n] => m = n
  <2>1. \A n \in R : n \in 2 .. k + 2
    BY <1>1
  <2>2. \A m, n \in 2 .. k + 2 : Numbered(name, m) = Numbered(name, n) => m = n
    BY DEF NumbersAreNames, IsInjective
  <2> HIDE DEF R, name
  <2> QED
    BY <2>1, <2>2
<1>4. free # {}
  <2> SUFFICES ASSUME free = {} PROVE FALSE
    OBVIOUS
  <2>1. \A n \in R : f[n] \in used
    OBVIOUS
  <2> HIDE DEF R
  <2>2. f \in Injection(R, used)
    BY <1>3, <2>1 DEF Injection, IsInjective
  <2> HIDE DEF f
  <2>3. Cardinality(R) <= c
    BY <1>2, <2>2, FS_Injection DEF c
  <2> QED
    BY <1>1, <1>2, <2>3
<1>5. free \in SUBSET Nat
  BY <1>1
<1>6. least \in free
  <2> HIDE DEF free
  <2>1. Min(free) \in free /\ \A m \in free : Min(free) <= m
    BY <1>4, <1>5, LeastPlace
  <2> QED
    BY <2>1
<1> HIDE DEF least
<1>7. NameFor(param, used) = IF name \notin used THEN name ELSE Numbered(name, least)
  BY DEF NameFor, least, free, R, c, name
<1>8. least \in 2 .. k + 2 /\ Numbered(name, least) \notin used
  BY <1>1, <1>6
<1> QED
  BY <1>7, <1>8

NextNames(params, h, i) ==
  IF i = 0 THEN <<>>
  ELSE Append(h[i - 1], NameFor(params[i], {h[i - 1][j] : j \in 1 .. i - 1}))

AreNames(params, h) == h = [i \in 0 .. Len(params) |-> NextNames(params, h, i)]

LEMMA FewInFront ==
  ASSUME NEW s, NEW k \in Nat, NEW Q, Q = {s[j] : j \in 1 .. k}
  PROVE  IsFiniteSet(Q) /\ Cardinality(Q) \in Nat /\ Cardinality(Q) <= k
<1> DEFINE f == [j \in 1 .. k |-> s[j]]
<1>1. f \in Surjection(1 .. k, Q)
  BY DEF Surjection
<1>2. IsFiniteSet(1 .. k) /\ Cardinality(1 .. k) = k
  BY FirstPlaces
<1> HIDE DEF f
<1>3. IsFiniteSet(Q) /\ Cardinality(Q) <= Cardinality(1 .. k)
  BY <1>1, <1>2, FS_Surjection
<1> QED
  BY <1>2, <1>3, FS_CardinalityType

Nameable(params) ==
  /\ params \in Seq(ToSet(params))
  /\ \A p \in ToSet(params) :
       IsInjective([n \in 2 .. Len(params) + 1 |-> Numbered(NameOf(p), n)])

PossibleNames(params) ==
  {NameOf(p) : p \in ToSet(params)} \cup
  {Numbered(NameOf(p), n) : p \in ToSet(params), n \in 2 .. Len(params) + 1}

IsFront(used, h, i) == used = {h[i - 1][j] : j \in 1 .. i - 1}

(* A name for parameter i that none of the i - 1 earlier ones has.         *)
LEMMA NextNameIsNew ==
  ASSUME NEW params, Nameable(params), NEW h, NEW i \in 1 .. Len(params),
         NEW used, IsFront(used, h, i)
  PROVE  NameFor(params[i], used) \in PossibleNames(params) \ used
<1> DEFINE p == params[i]
           k == Len(params) - 1
<1>1. Len(params) \in Nat /\ k \in Nat /\ k + 2 = Len(params) + 1 /\ i - 1 \in Nat /\ i - 1 <= k
  BY DEF Nameable
<1>2. p \in ToSet(params)
  BY DEF Nameable, ToSet
<1>3. NumbersAreNames(p, k)
  <2> HIDE DEF k, p
  <2> QED
    BY <1>1, <1>2 DEF Nameable, NumbersAreNames
<1> DEFINE s == h[i - 1]
           m == i - 1
<1>4. IsFiniteSet(used) /\ Cardinality(used) \in Nat /\ Cardinality(used) <= i - 1
  <2>1. m \in Nat /\ used = {s[j] : j \in 1 .. m}
    BY <1>1 DEF IsFront
  <2> HIDE DEF s, m
  <2>2. IsFiniteSet(used) /\ Cardinality(used) \in Nat /\ Cardinality(used) <= m
    BY <2>1, FewInFront
  <2> QED
    BY <2>2 DEF m
<1>5. Cardinality(used) <= k
  BY <1>1, <1>4
<1> HIDE DEF p, k
<1>6. /\ NameFor(p, used) \notin used
      /\ \/ NameFor(p, used) = NameOf(p)
         \/ \E n \in 2 .. k + 2 : NameFor(p, used) = Numbered(NameOf(p), n)
  BY <1>1, <1>3, <1>4, <1>5, NameIsNew
<1>7. NameFor(p, used) \in PossibleNames(params)
  <2>1. \A n \in 2 .. k + 2 : n \in 2 .. Len(params) + 1
    BY <1>1
  <2>2. NameOf(p) \in PossibleNames(params)
    BY <1>2 DEF PossibleNames
  <2>3. ASSUME NEW n \in 2 .. Len(params) + 1 PROVE Numbered(NameOf(p), n) \in PossibleNames(params)
    BY <1>2 DEF PossibleNames
  <2> QED
    BY <1>6, <2>1, <2>2, <2>3
<1> QED
  BY <1>6, <1>7 DEF p

(* As many arguments as parameters, and no two of the same name.           *)
LEMMA NamesAreDistinct ==
  ASSUME NEW params, Nameable(params)
  PROVE  Len(NamesOf(params)) = Len(params) /\ IsInjective(NamesOf(params))
<1> DEFINE k == Len(params)
           D == 0 .. k
           W == PossibleNames(params)
           V == Seq(W)
           F == [h \in [D -> V] |-> [i \in D |-> NextNames(params, h, i)]]
           size == [i \in D |-> i]
<1>0. k \in Nat
  BY DEF Nameable
<1>1. \A i \in D : i # 0 => i - 1 \in D /\ i \in 1 .. k /\ size[i - 1] < size[i]
  BY <1>0
<1>2. F \in [[D -> V] -> [D -> V]]
  <2>1. ASSUME NEW h \in [D -> V], NEW i \in D PROVE NextNames(params, h, i) \in V
    <3>1. CASE i = 0
      BY <3>1 DEF NextNames
    <3>2. CASE i # 0
      <4> DEFINE used == {h[i - 1][j] : j \in 1 .. i - 1}
      <4>1. i \in 1 .. Len(params)
        BY <1>1, <3>2
      <4>5. IsFront(used, h, i)
        BY DEF IsFront
      <4>2. NameFor(params[i], used) \in W
        <5> HIDE DEF used
        <5> QED
          BY <4>1, <4>5, NextNameIsNew
      <4>3. h[i - 1] \in V
        BY <1>1, <3>2
      <4>4. NextNames(params, h, i) = Append(h[i - 1], NameFor(params[i], used))
        BY <3>2 DEF NextNames
      <4> HIDE DEF used, W
      <4> QED
        BY <4>2, <4>3, <4>4
    <3> QED
      BY <3>1, <3>2
  <2> HIDE DEF D, V
  <2> QED
    BY <2>1
<1>3. LooksDown(F, D, V, size)
  <2> SUFFICES ASSUME NEW g \in [D -> V], NEW h \in [D -> V], NEW i \in D,
                      \A e \in D : size[e] < size[i] => g[e] = h[e]
               PROVE  F[g][i] = F[h][i]
    BY DEF LooksDown
  <2>1. i # 0 => g[i - 1] = h[i - 1]
    BY <1>1
  <2>2. NextNames(params, g, i) = NextNames(params, h, i)
    BY <2>1 DEF NextNames
  <2> QED
    BY <2>2
<1>4. IsRecursion(F, D, V, size, k)
  <2>1. size \in [D -> 0 .. k] /\ V # {}
    BY EmptySeq
  <2> HIDE DEF F, D, V, size, k
  <2> QED
    BY <1>0, <1>2, <1>3, <2>1 DEF IsRecursion
<1>5. PICK g \in [D -> V] : F[g] = g
  <2> HIDE DEF D, size, F, V, k
  <2> QED
    BY <1>4, RecursionIsDefined
<1>6. AreNames(params, g)
  BY <1>5 DEF AreNames
<1> DEFINE names == CHOOSE h : AreNames(params, h)
<1>7. AreNames(params, names)
  BY <1>6
<1>8. NamesOf(params) = names[k]
  BY DEF NamesOf, AreNames, NextNames
<1> HIDE DEF names
<1> DEFINE Good(i) == i \in D => names[i] \in V /\ Len(names[i]) = i /\ IsInjective(names[i])
           N == {i \in Nat : Good(i)}
<1>9. ASSUME NEW i \in Nat, \A j \in Nat : j < i => Good(j) PROVE Good(i)
  <2> SUFFICES ASSUME i \in D
               PROVE  names[i] \in V /\ Len(names[i]) = i /\ IsInjective(names[i])
    OBVIOUS
  <2>1. names[i] = NextNames(params, names, i)
    BY <1>7 DEF AreNames
  <2>2. CASE i = 0
    BY <2>1, <2>2, EmptySeq DEF NextNames, IsInjective
  <2>3. CASE i # 0
    <3> DEFINE s == names[i - 1]
               used == {s[j] : j \in 1 .. i - 1}
               x == NameFor(params[i], used)
    <3>1. i - 1 \in Nat /\ i - 1 < i /\ i - 1 \in D /\ i \in 1 .. Len(params)
      BY <1>1, <2>3
    <3>2. s \in V /\ Len(s) = i - 1 /\ IsInjective(s)
      BY <1>9, <3>1
    <3>3. x \in W /\ x \notin used
      <4>1. IsFront(used, names, i)
        BY DEF IsFront
      <4> HIDE DEF used
      <4> QED
        BY <3>1, <4>1, NextNameIsNew
    <3>4. names[i] = Append(s, x)
      BY <2>1, <2>3 DEF NextNames
    <3> HIDE DEF x, s, W
    <3>5. \A j \in 1 .. i - 1 : s[j] # x
      BY <3>3
    <3> HIDE DEF used
    <3>6. names[i] \in V /\ Len(names[i]) = i
      BY <3>1, <3>2, <3>3, <3>4
    <3>7. IsInjective(names[i])
      <4> SUFFICES ASSUME NEW a \in DOMAIN names[i], NEW b \in DOMAIN names[i],
                          names[i][a] = names[i][b]
                   PROVE  a = b
        BY DEF IsInjective
      <4>1. DOMAIN names[i] = 1 .. i /\ DOMAIN s = 1 .. i - 1
        BY <3>1, <3>2, <3>6
      <4>2. \A c \in 1 .. i - 1 : names[i][c] = s[c]
        BY <3>1, <3>2, <3>3, <3>4
      <4>3. names[i][i] = x
        BY <3>1, <3>2, <3>3, <3>4
      <4>4. \A c \in 1 .. i : c = i \/ c \in 1 .. i - 1
        BY <3>1
      <4>5. \A c, d \in 1 .. i - 1 : s[c] = s[d] => c = d
        BY <3>2, <4>1 DEF IsInjective
      <4> HIDE DEF V
      <4> QED
        BY <3>5, <4>1, <4>2, <4>3, <4>4, <4>5
    <3> QED
      BY <3>6, <3>7
  <2> QED
    BY <2>2, <2>3
<1> HIDE DEF Good
<1>10. N = Nat
  <2>1. N \in SUBSET Nat /\ \A n \in Nat : (\A m \in Nat : m < n => m \in N) => n \in N
    BY <1>9
  <2> HIDE DEF N
  <2> QED
    BY <2>1, AllNumbers
<1>11. Good(k)
  <2>1. k \in N
    <3> HIDE DEF N, k
    <3> QED
      BY <1>0, <1>10
  <2> QED
    BY <2>1
<1>12. k \in D
  BY <1>0
<1> QED
  BY <1>8, <1>11, <1>12 DEF Good

(* A null in an expression stands in some fixture: the recursion passes it *)
(* on and never makes one.                                                 *)
LEMMA NullsComeFromFixtures ==
  ASSUME NEW packs, ArePacks(packs), ~NullsAreGiven(packs)
  PROVE  \A ctx, type \in DOMAIN packs, seen \in SUBSET DOMAIN packs :
           packs[ctx] # None => ~HasNull(Derivation(packs)[<<ctx, type, seen>>])
<1> DEFINE C == DOMAIN packs
           derive == Derivation(packs)
           Good(n) == \A ctx, type \in C, seen \in SUBSET C :
             Cardinality(C \ seen) = n /\ packs[ctx] # None => ~HasNull(derive[<<ctx, type, seen>>])
           N == {n \in Nat : Good(n)}
<1>1. \A s \in SUBSET C : /\ Cardinality(C \ s) \in Nat
                          /\ \A t \in C : t \notin s => Cardinality(C \ (s \cup {t})) < Cardinality(C \ s)
  <2>1. IsFiniteSet(C) /\ Cardinality(C) \in Nat
    BY FS_CardinalityType DEF ArePacks
  <2> HIDE DEF C
  <2>2. \A s \in SUBSET C : Cardinality(C \ s) \in 0 .. Cardinality(C)
    BY <2>1, LeftToSee
  <2> QED
    BY <2>1, <2>2, LeftToSee
<1>2. \A ctx, type \in C, seen \in SUBSET C :
        derive[<<ctx, type, seen>>] = Deriving(packs, derive, ctx, type, seen)
  <2>1. IsDerivation(packs, derive)
    BY DerivationIsDefined
  <2> HIDE DEF derive
  <2> QED
    BY <2>1 DEF IsDerivation, Asked
<1> HIDE DEF derive
<1>3. ASSUME NEW n \in Nat, \A m \in Nat : m < n => Good(m) PROVE Good(n)
  <2> SUFFICES ASSUME NEW ctx \in C, NEW type \in C, NEW seen \in SUBSET C,
                      Cardinality(C \ seen) = n, packs[ctx] # None
               PROVE  ~HasNull(derive[<<ctx, type, seen>>])
    OBVIOUS
  <2> DEFINE fixture == FromCatalog(packs[ctx], type)
             params  == Smallest(packs[type].constructors).params
             nested  == [i \in DOMAIN params |->
               IF params[i].type \in Literals THEN Literal(params[i].type)
               ELSE derive[<<type, params[i].type, seen \cup {type}>>]]
  <2>1. derive[<<ctx, type, seen>>] =
          IF fixture # None THEN fixture
          ELSE IF type \in seen \/ packs[type] = None THEN None
          ELSE IF Public(packs[type].constructors) = {} THEN None
          ELSE FromConstructor(type, nested)
    <3>1. derive[<<ctx, type, seen>>] = Deriving(packs, derive, ctx, type, seen)
      BY <1>2
    <3>2. Deriving(packs, derive, ctx, type, seen) =
            IF fixture # None THEN fixture
            ELSE IF type \in seen \/ packs[type] = None THEN None
            ELSE IF Public(packs[type].constructors) = {} THEN None
            ELSE FromConstructor(type, nested)
      BY DEF Deriving
    <3> HIDE DEF fixture, nested
    <3> QED
      BY <3>1, <3>2
  <2>2. ~HasNull(fixture)
    <3>1. type \in DOMAIN packs[ctx].fixtures => ~packs[ctx].fixtures[type].nulls
      BY DEF NullsAreGiven
    <3> QED
      BY <3>1 DEF HasNull, FromCatalog, RecipeFromFixture
  <2>3. ASSUME type \notin seen, packs[type] # None, Public(packs[type].constructors) # {}
        PROVE  ~HasNull(FromConstructor(type, nested))
    <3> DEFINE more == seen \cup {type}
               m == Cardinality(C \ more)
    <3>1. more \in SUBSET C /\ m \in Nat /\ m < n
      BY <1>1, <2>3
    <3>2. Good(m)
      <4> HIDE DEF Good, m
      <4> QED
        BY <1>3, <3>1
    <3>3. \A i \in DOMAIN params : params[i].type \in Literals \/ params[i].type \in C
      BY <2>3, NestedTypes DEF Types
    <3> HIDE DEF params
    <3>4. ASSUME NEW i \in DOMAIN params PROVE ~HasNull(nested[i])
      <4>1. CASE params[i].type \in Literals
        BY <4>1 DEF Literal, HasNull
      <4>2. CASE params[i].type \notin Literals
        BY <2>3, <3>1, <3>2, <3>3, <4>2
      <4> QED
        BY <4>1, <4>2
    <3>5. DOMAIN nested = DOMAIN params
      OBVIOUS
    <3> HIDE DEF nested
    <3> QED
      BY <3>4, <3>5 DEF FromConstructor, HasNull
  <2>4. ~HasNull(None)
    BY DEF HasNull
  <2> HIDE DEF fixture, nested
  <2> QED
    BY <2>1, <2>2, <2>3, <2>4
<1>4. N = Nat
  <2> HIDE DEF Good
  <2>1. N \in SUBSET Nat /\ \A n \in Nat : (\A m \in Nat : m < n => m \in N) => n \in N
    BY <1>3
  <2> HIDE DEF N
  <2> QED
    BY <2>1, AllNumbers
<1>5. \A seen \in SUBSET C : Good(Cardinality(C \ seen))
  <2> SUFFICES ASSUME NEW seen \in SUBSET C PROVE Good(Cardinality(C \ seen))
    OBVIOUS
  <2> DEFINE n == Cardinality(C \ seen)
  <2>1. n \in Nat
    BY <1>1
  <2> HIDE DEF n
  <2>2. n \in N
    <3> HIDE DEF N
    <3> QED
      BY <1>4, <2>1
  <2>3. Good(n)
    BY <2>2
  <2> QED
    BY <2>3 DEF n
<1> QED
  BY <1>5 DEF derive

-----------------------------------------------------------------------------
(* The plan.                                                               *)

LEMMA FixtureStrategies ==
  ASSUME NEW contract, NEW mockito
  PROVE  /\ Fixture(contract, mockito).strategy \in {"constructor", "builder", "factory", "mock"}
         /\ Fixture(contract, mockito).nulls \in BOOLEAN
BY DEF Fixture, Made, Degraded

LEMMA PacksOfABuild ==
  ASSUME NEW build \in Builds
  PROVE  /\ ArePacks(PacksOf(build))
         /\ \A sut \in build.packed : sut \in DOMAIN PacksOf(build) /\ PacksOf(build)[sut] # None
<1> DEFINE packs == PacksOf(build)
           C == DOMAIN build.contracts
           types == Literals \cup C
<1>1. DOMAIN packs = C /\ Types(packs) = types
  BY DEF PacksOf, Types
<1>2. /\ IsFiniteSet(C) /\ build.packed \subseteq C
      /\ None \notin Expressions(types) /\ None \notin Recipes(types)
  BY OnBuilds
<1>3. \A class \in C : packs[class] = PackOf(build, class)
  BY DEF PacksOf
<1>4. \A class \in C : class \notin build.packed => packs[class] = None
  BY <1>3 DEF PackOf
<1>5. ASSUME NEW class \in build.packed
      PROVE  packs[class] # None /\ IsPack(packs[class], types)
  <2> DEFINE ctors == build.contracts[class].constructors
             pack == packs[class]
             catalog == Catalog(build.contracts, build.mockito)
  <2>1. /\ PackOf(build, class) # None /\ IsList(ctors)
        /\ \A i \in Public(ctors) :
             /\ ctors[i].params \in Seq(ToSet(ctors[i].params))
             /\ \A p \in ToSet(ctors[i].params) :
                  /\ p.type \in types
                  /\ IsInjective([n \in 2 .. Len(ctors[i].params) + 1 |-> Numbered(NameOf(p), n)])
    BY OnBuilds
  <2>2. /\ pack = PackOf(build, class)
        /\ pack.constructors = ctors
        /\ \A type \in DOMAIN pack.fixtures : type \in DOMAIN catalog /\ pack.fixtures[type] = catalog[type]
    <3>1. pack = PackOf(build, class)
      BY <1>2, <1>3
    <3> QED
      BY <3>1 DEF PackOf
  <2>3. \A type \in DOMAIN catalog :
          /\ catalog[type].strategy \in {"constructor", "builder", "factory", "mock"}
          /\ catalog[type].nulls \in BOOLEAN
    BY FixtureStrategies DEF Catalog
  <2> HIDE DEF ctors, pack, catalog, types
  <2>4. ASSUME Public(ctors) # {}
        PROVE  LET params == Smallest(ctors).params
               IN  /\ params \in Seq(ToSet(params))
                   /\ \A p \in ToSet(params) :
                        /\ p.type \in types
                        /\ IsInjective([n \in 2 .. Len(params) + 1 |-> Numbered(NameOf(p), n)])
    <3>1. \A i \in Public(ctors) : Len(ctors[i].params) \in Nat
      <4> SUFFICES ASSUME NEW i \in Public(ctors) PROVE Len(ctors[i].params) \in Nat
        OBVIOUS
      <4>1. ctors[i].params \in Seq(ToSet(ctors[i].params))
        BY <2>1
      <4> QED
        BY <4>1
    <3>2. PICK i \in Public(ctors) : Smallest(ctors) = ctors[i]
      BY <2>1, <2>4, <3>1, SmallestIsPublic
    <3> QED
      BY <2>1, <3>2
  <2>5. IsPack(pack, types)
    BY <2>1, <2>2, <2>3, <2>4 DEF IsPack
  <2> QED
    BY <2>1, <2>2, <2>5 DEF pack
<1> HIDE DEF packs, C, types
<1>6. ArePacks(packs)
  BY <1>1, <1>2, <1>4, <1>5 DEF ArePacks
<1> QED
  BY <1>1, <1>2, <1>5, <1>6 DEF packs

LEMMA CollaboratorIsDerived ==
  ASSUME NEW packs, ArePacks(packs), NEW sut \in DOMAIN packs, packs[sut] # None,
         NEW type \in Types(packs), NEW mockito
  PROVE  LET built == Collaborator(sut, type, packs, mockito)
             can   == Buildable(packs, sut)
             strategy == StrategyIn(packs[sut], type)
         IN  /\ HasNull(built.recipe) => NullsAreGiven(packs)
             /\ built.strategy # "unresolved" <=>
                  \/ type \in Literals \/ <<sut, type>> \in can
                  \/ strategy \in Constructible
                  \/ strategy = "mock" /\ mockito
             /\ built.strategy = "new" =>
                  (built.recipe # None /\ built.recipe.expression # None <=> <<sut, type>> \in can)
<1> DEFINE built == Collaborator(sut, type, packs, mockito)
           can   == Buildable(packs, sut)
           first == CreationStrategy(type, packs[sut], mockito)
           strategy == StrategyIn(packs[sut], type)
           r == Derivation(packs)[<<sut, type, {sut}>>]
           recipe == IF first \in {"new", "unresolved"} THEN r ELSE None
           rescued == recipe # None /\ recipe.expression # None
<1>0. HasNull(built.recipe) => NullsAreGiven(packs)
  <2>1. type \notin Literals => type \in DOMAIN packs /\ {sut} \in SUBSET DOMAIN packs
    BY DEF Types
  <2>2. type \notin Literals /\ HasNull(r) => NullsAreGiven(packs)
    BY <2>1, NullsComeFromFixtures
  <2>3. type \in Literals => first = "literal"
    BY DEF CreationStrategy
  <2> HIDE DEF r, first
  <2>4. built.recipe \in {None, recipe} /\ recipe \in {None, r} /\ (type \in Literals => recipe = None)
    BY <2>3 DEF Collaborator, r, first
  <2> QED
    BY <2>2, <2>4 DEF HasNull
<1>1. built = [strategy |-> IF first = "unresolved" /\ rescued THEN "new" ELSE first,
               recipe |-> IF first = "new" \/ rescued THEN recipe ELSE None]
  BY DEF Collaborator
<1>2. type \notin Literals => (Expressed(r) <=> <<sut, type>> \in can)
  BY DerivationIsComplete DEF Types, Has
<1>3. /\ type \in Literals => first = "literal"
      /\ type \notin Literals /\ strategy \in Constructible => first = "new"
      /\ type \notin Literals /\ strategy \notin Constructible /\ strategy = "mock" /\ mockito
           => first = "mock"
      /\ type \notin Literals /\ strategy \notin Constructible /\ ~(strategy = "mock" /\ mockito)
           => first = "unresolved"
  BY DEF CreationStrategy, Constructible
<1> HIDE DEF built, can, first, strategy, r
<1>4. CASE type \in Literals
  BY <1>0, <1>1, <1>3, <1>4 DEF Collaborator, built, can, strategy
<1>5. CASE type \notin Literals /\ strategy \in Constructible
  <2>1. first = "new" /\ recipe = r
    BY <1>3, <1>5
  <2>2. built.strategy = "new" /\ built.recipe = r
    BY <1>1, <2>1
  <2> QED
    BY <1>0, <1>2, <1>5, <2>2 DEF Expressed, built, can, strategy
<1>6. CASE type \notin Literals /\ strategy \notin Constructible /\ strategy = "mock" /\ mockito
  <2>1. first = "mock"
    BY <1>3, <1>6
  <2>2. built.strategy = "mock"
    BY <1>1, <2>1
  <2> QED
    BY <1>0, <1>6, <2>2 DEF built, can, strategy
<1>7. CASE type \notin Literals /\ strategy \notin Constructible /\ ~(strategy = "mock" /\ mockito)
  <2>1. first = "unresolved" /\ recipe = r
    BY <1>3, <1>7
  <2>2. CASE Expressed(r)
    <3>1. built.strategy = "new" /\ built.recipe = r
      BY <1>1, <2>1, <2>2 DEF Expressed
    <3> QED
      BY <1>0, <1>2, <1>7, <2>2, <3>1 DEF Expressed, built, can, strategy
  <2>3. CASE ~ Expressed(r)
    <3>1. built.strategy = "unresolved"
      BY <1>1, <2>1, <2>3 DEF Expressed
    <3> QED
      BY <1>0, <1>2, <1>7, <2>3, <3>1 DEF built, can, strategy
  <2> QED
    BY <2>2, <2>3
<1> QED
  BY <1>0, <1>4, <1>5, <1>6, <1>7 DEF built

LEMMA PlansAreDerived ==
  ASSUME NEW packs, ArePacks(packs), NEW sut \in DOMAIN packs, packs[sut] # None, NEW mockito
  PROVE  Derived(sut, packs, mockito)
<1> DEFINE plan   == Plan(sut, packs, mockito)
           can    == Buildable(packs, sut)
           ctors  == packs[sut].constructors
           params == IF Public(ctors) = {} THEN <<>> ELSE Smallest(ctors).params
           strategy(type) == StrategyIn(packs[sut], type)
           HasValue(type) == \/ type \in Literals \/ <<sut, type>> \in can
                             \/ strategy(type) \in Constructible
                             \/ strategy(type) = "mock" /\ mockito
           built(i) == Collaborator(sut, params[i].type, packs, mockito)
<1>1. params \in Seq(ToSet(params)) /\ Nameable(params)
      /\ \A p \in ToSet(params) : p.type \in Types(packs)
  <2>1. IsPack(packs[sut], Types(packs))
    BY DEF ArePacks
  <2>2. CASE Public(ctors) = {}
    <3>1. params = <<>>
      BY <2>2
    <3> HIDE DEF params
    <3>2. ToSet(params) = {} /\ params \in Seq({})
      BY <3>1, EmptySeq DEF ToSet
    <3> QED
      BY <3>2 DEF Nameable
  <2>3. CASE Public(ctors) # {}
    <3>1. params = Smallest(ctors).params
      BY <2>3
    <3> QED
      BY <2>1, <2>3, <3>1 DEF IsPack, Nameable
  <2> QED
    BY <2>2, <2>3
<1>2. /\ plan.arguments = NamesOf(params)
      /\ \A i \in DOMAIN params : plan.collaborators[i] = built(i)
      /\ plan.complete <=> /\ Public(ctors) # {} \/ ctors = <<>>
                           /\ \A i \in DOMAIN params : built(i).strategy # "unresolved"
  BY DEF Plan
<1> HIDE DEF plan, params
<1>3. Len(plan.arguments) = Len(params) /\ IsInjective(plan.arguments)
  BY <1>1, <1>2, NamesAreDistinct
<1>4. ASSUME NEW i \in DOMAIN params
      PROVE  /\ HasNull(built(i).recipe) => NullsAreGiven(packs)
             /\ built(i).strategy # "unresolved" <=> HasValue(params[i].type)
             /\ built(i).strategy = "new" =>
                  (built(i).recipe # None /\ built(i).recipe.expression # None
                     <=> <<sut, params[i].type>> \in can)
  <2>1. params[i].type \in Types(packs)
    BY <1>1 DEF ToSet
  <2> QED
    BY <2>1, CollaboratorIsDerived
<1>5. (\A p \in ToSet(params) : HasValue(p.type)) <=> \A i \in DOMAIN params : HasValue(params[i].type)
  BY DEF ToSet
<1>6. plan.complete <=> /\ Public(ctors) = {} => ctors = <<>>
                        /\ \A p \in ToSet(params) : HasValue(p.type)
  <2> HIDE DEF HasValue, built
  <2> QED
    BY <1>2, <1>4, <1>5
<1>7. \A i \in DOMAIN params :
        /\ HasNull(plan.collaborators[i].recipe) => NullsAreGiven(packs)
        /\ plan.collaborators[i].strategy = "new" =>
             (plan.collaborators[i].recipe # None /\ plan.collaborators[i].recipe.expression # None
                <=> <<sut, params[i].type>> \in can)
  <2> HIDE DEF HasValue, built, can
  <2> QED
    BY <1>2, <1>4
<1> QED
  BY <1>3, <1>6, <1>7 DEF Derived, plan, params

-----------------------------------------------------------------------------
(* The invariants.  What is presented to a tool is one of its inputs.      *)

Presented ==
  \/ probe = None
  \/ \E pack \in Packs, item \in Items, source \in Sources :
       probe = [tool |-> "preflight", pack |-> pack, item |-> item, source |-> source]
  \/ \E request \in Requests, answer \in Answers :
       probe = [tool |-> "generation", request |-> request, answer |-> answer]
  \/ \E request \in Requests, answer \in Repairs :
       probe = [tool |-> "repair", request |-> request, answer |-> answer]
  \/ \E build \in Builds : probe = [tool |-> "fixtures", build |-> build]
  \/ \E report \in Reports, context \in Contexts, mode \in Modes :
       probe = [tool |-> "planner", report |-> report, context |-> context, mode |-> mode]
  \/ \E packing \in Packings : probe = [tool |-> "pack", packing |-> packing]
  \/ \E project \in Projects, method \in MethodNames, completion \in Completions :
       probe = [tool |-> "gates", project |-> project, method |-> method,
                completion |-> completion]

LEMMA AlwaysPresented == Spec => []Presented
<1>1. Init => Presented
  BY DEF Init, Presented
<1>2. Presented /\ [Next]_probe => Presented'
  <2> SUFFICES ASSUME Presented, [Next]_probe PROVE Presented'
    OBVIOUS
  <2>1. CASE Preflighted
    BY <2>1 DEF Preflighted, Presented
  <2>2. CASE Answered
    BY <2>2 DEF Answered, Presented
  <2>3. CASE Built
    BY <2>3 DEF Built, Presented
  <2>4. CASE Planned
    BY <2>4 DEF Planned, Presented
  <2>5. CASE Packed
    BY <2>5 DEF Packed, Presented
  <2>6. CASE Gated
    BY <2>6 DEF Gated, Presented
  <2>7. CASE UNCHANGED probe
    BY <2>7 DEF Presented
  <2> QED
    BY <2>1, <2>2, <2>3, <2>4, <2>5, <2>6, <2>7 DEF Next
<1> QED
  BY <1>1, <1>2, PTL DEF Spec

(* No handoff is spent in vain: whatever classes, plan items and sources   *)
(* there are, a target that passes _preflight_target can be answered.      *)
THEOREM PreflightSpares == Spec => []SentIsAnswerable
<1>1. Presented => SentIsAnswerable
  <2> SUFFICES ASSUME Presented, Probed("preflight")
               PROVE  CanBeAnswered(Enriched(probe.item, probe.pack, probe.source))
    BY DEF SentIsAnswerable
  <2>1. PICK pack \in Packs, item \in Items, source \in Sources :
          probe = [tool |-> "preflight", pack |-> pack, item |-> item, source |-> source]
    BY DEF Presented, Probed
  <2>2. probe.pack = pack /\ probe.item = item /\ probe.source = source
    BY <2>1
  <2> QED
    BY <2>2, SentCanBeAnswered
<1> QED
  BY <1>1, AlwaysPresented, PTL

(* Whatever an answer lists twice, leaves out, makes up or gets wrong:     *)
(* one outcome for each target, of the first item about it and backed by   *)
(* its request, and counts that add up (hydrate_generation_items,          *)
(* validate_repair_response).                                              *)
THEOREM AnswersSettle == Spec => []AnswersAreSettled
<1>1. Presented => AnswersAreSettled
  <2> SUFFICES ASSUME Presented PROVE AnswersAreSettled
    OBVIOUS
  <2>1. ASSUME Probed("generation"), ~Raises(probe.request, probe.answer)
        PROVE  GenerationIsSettled(probe.request, probe.answer)
    <3>1. PICK request \in Requests, answer \in Answers :
            probe = [tool |-> "generation", request |-> request, answer |-> answer]
      BY <2>1 DEF Presented, Probed
    <3>2. probe.request = request /\ probe.answer = answer
      BY <3>1
    <3> QED
      BY <2>1, <3>2, GenerationSettled
  <2>2. ASSUME Probed("repair")
        PROVE  RepairIsSettled(probe.request, probe.answer)
    <3>1. PICK request \in Requests, answer \in Repairs :
            probe = [tool |-> "repair", request |-> request, answer |-> answer]
      BY <2>2 DEF Presented, Probed
    <3>2. probe.request = request /\ probe.answer = answer
      BY <3>1
    <3> QED
      BY <3>2, RepairSettled
  <2> QED
    BY <2>1, <2>2 DEF AnswersAreSettled
<1> QED
  BY <1>1, AlwaysPresented, PTL

(* No gate refuses what the hydration lets through for what the full pack  *)
(* offers, and the only pack without a stack is one without a profile      *)
(* (gate_runner.py, stack_profile_detector.py).                            *)
THEOREM GatesAgreeAlways == Spec => []GatesAgree
<1>1. Presented => GatesAgree
  <2> SUFFICES ASSUME Presented, Probed("gates"), NEW class \in DOMAIN probe.project.contracts
               PROVE  Agreed(probe.project, class, probe.method, probe.completion)
    BY DEF GatesAgree
  <2>1. PICK project \in Projects, method \in MethodNames, completion \in Completions :
          probe = [tool |-> "gates", project |-> project, method |-> method,
                   completion |-> completion]
    BY DEF Presented, Probed
  <2>2. probe.project = project /\ probe.method = method /\ probe.completion = completion
    BY <2>1
  <2> QED
    BY <2>2, GatesAreAgreed
<1> QED
  BY <1>1, AlwaysPresented, PTL

(* The plan of a run speaks of every gap of every class it is allowed to   *)
(* touch, once, and penalties move gaps without dropping them              *)
(* (coverage_planner.py).                                                  *)
THEOREM PlanRanks == Spec => []PlanIsRanked
<1>1. Presented => PlanIsRanked
  <2> SUFFICES ASSUME Presented, Probed("planner")
               PROVE  RankedWell(Emit(probe.report, probe.mode),
                                 Ranked(probe.report, probe.mode, probe.context),
                                 Ranked(probe.report, probe.mode, Calm(probe.context)),
                                 probe.mode, probe.context)
    BY DEF PlanIsRanked, Calm
  <2>1. PICK report \in Reports, context \in Contexts, mode \in Modes :
          probe = [tool |-> "planner", report |-> report, context |-> context, mode |-> mode]
    BY DEF Presented, Probed
  <2>2. probe.report = report /\ probe.context = context /\ probe.mode = mode
    BY <2>1
  <2>3. mode \in AllModes
    BY OnReports DEF AllModes
  <2> QED
    BY <2>2, <2>3, PlannedWell
<1> QED
  BY <1>1, AlwaysPresented, PTL

(* What a pack says of a class is what the plan asks for and what the      *)
(* project has: the gaps of its items, the failures in their order, the    *)
(* imports up to the cap (context_pack_builder.py).                        *)
THEOREM PackFaithful == Spec => []PackIsFaithful
<1>1. Presented => PackIsFaithful
  <2> SUFFICES ASSUME Presented, Probed("pack"), NEW class
               PROVE  PackedWell(probe.packing.project, class,
                        Emit(probe.packing.report, "coverage"),
                        BatchPlan(Ranked(probe.packing.report, "coverage", probe.packing.context),
                                  PlanLimit(probe.packing.limit, None)).items)
    BY DEF PackIsFaithful
  <2>1. PICK packing \in Packings : probe = [tool |-> "pack", packing |-> packing]
    BY DEF Presented, Probed
  <2>2. probe.packing = packing
    BY <2>1
  <2> QED
    BY <2>2, PacksAreFaithful
<1> QED
  BY <1>1, AlwaysPresented, PTL

(* How to build the class under test is derived, all of it: the recursion  *)
(* through the packs, which cuts cycles by the path it took, gives an      *)
(* expression to exactly what can be built; the plan is complete exactly   *)
(* if every parameter has a value, and its arguments have different names  *)
(* (_build_fixture_plan, batch_runner.py).                                 *)
THEOREM PlanDerives == Spec => []PlanIsDerived
<1>1. Presented => PlanIsDerived
  <2> SUFFICES ASSUME Presented, Probed("fixtures"), NEW sut \in probe.build.packed
               PROVE  Derived(sut, PacksOf(probe.build), probe.build.mockito)
    BY DEF PlanIsDerived
  <2>1. PICK build \in Builds : probe = [tool |-> "fixtures", build |-> build]
    BY DEF Presented, Probed
  <2>2. probe.build = build
    BY <2>1
  <2> QED
    BY <2>2, PacksOfABuild, PlansAreDerived
<1> QED
  BY <1>1, AlwaysPresented, PTL

=============================================================================
