------------------------------ MODULE MCService ------------------------------
(* Instances of HandoffService for TLC.                                     *)
EXTENDS HandoffService

CONSTANTS t1, t2

MCPlan == <<t1, t2>>
MCIdeDir == [d \in Dirs |-> d]
=============================================================================
