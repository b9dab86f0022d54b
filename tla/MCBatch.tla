------------------------------ MODULE MCBatch ------------------------------
EXTENDS BatchProperties, TLC
CONSTANTS t1, t2, t3, c1, c2, e1, e2, g1, f1

TwoTargets == {t1, t2}
TwoPlan == <<t1, t2>>
TwoClassOf == (t1 :> c1) @@ (t2 :> c2)

ThreeTargets == {t1, t2, t3}
ThreePlan == <<t1, t2, t3>>
ThreeClassOf == (t1 :> c1) @@ (t2 :> c2) @@ (t3 :> c2)
=============================================================================
