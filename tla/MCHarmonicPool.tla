--------------------------- MODULE MCHarmonicPool ---------------------------
EXTENDS HarmonicPool

HTask(i, g, o) == [id |-> i, group |-> g, order |-> o]

\* two phases, two channels in the first, a task on the coordinates of another,
\* and one AssignH refuses
MCTasks == {HTask(1, 1, 0), HTask(1, 1, 1), HTask(2, 1, 1), HTask(1, 2, 0), HTask(1, -1, 0)}
=============================================================================
