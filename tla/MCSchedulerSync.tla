--------------------------- MODULE MCSchedulerSync ---------------------------
\* What may be exchanged in the checks of SchedulerSync.
EXTENDS SchedulerSync, TLC

Symmetric == UNION {Permutations(s) : s \in {Auths, Callers, Pickers}}
==============================================================================
