----------------------------- MODULE MCPipeline -----------------------------
EXTENDS Pipeline
CONSTANTS a, b

FullRun == [sut |-> None, since |-> FALSE, xml |-> TRUE, coe |-> FALSE]
AllRequests == {FullRun, [FullRun EXCEPT !.sut = a], [FullRun EXCEPT !.since = TRUE],
                [FullRun EXCEPT !.xml = FALSE, !.coe = TRUE]}
AnalysisRequests == {FullRun, [FullRun EXCEPT !.sut = a]}
BTakesA == [c \in Classes |-> IF c = b THEN {a} ELSE {}]
=============================================================================
