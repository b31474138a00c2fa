------------------------- MODULE MCUtterancePipeline -------------------------
\* Instances of UtterancePipeline for TLC.
EXTENDS UtterancePipeline, TLC

CONSTANTS s1, s2, u1, u2

OneSession      == {s1}
TwoSessions     == {s1, s2}
TwoUtterances   == {u1, u2}
Symmetry == Permutations(TwoSessions) \cup Permutations(TwoUtterances)
=============================================================================
