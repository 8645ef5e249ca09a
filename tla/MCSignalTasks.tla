--------------------------- MODULE MCSignalTasks ---------------------------
\* TLC instances of SignalTasks.
EXTENDS SignalTasks

CONSTANTS p1, c1, c2
=============================================================================
