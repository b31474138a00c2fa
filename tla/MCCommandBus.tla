---------------------------- MODULE MCCommandBus ----------------------------
\* Instances of CommandBus for TLC.
EXTENDS CommandBus, TLC

CONSTANTS p1, p2, t1, t2

TwoPublishers == {p1, p2}
TwoTasks      == {t1, t2}
Symmetry      == Permutations(TwoPublishers) \cup Permutations(TwoTasks)
=============================================================================
