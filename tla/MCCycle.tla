------------------------------ MODULE MCCycle ------------------------------
EXTENDS CycleLoop
CONSTANTS t1, t2, t3, t4

FourPlan == <<t1, t2, t3, t4>>
SecondTarget == {t2}
BothPlaces == {{"state"}, {"state", "repo"}}
=============================================================================
