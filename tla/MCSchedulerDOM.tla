--------------------------- MODULE MCSchedulerDOM ---------------------------
(* SchedulerDOM on small instances: the inputs of the callers, scaled.     *)
EXTENDS SchedulerDOM

SomeDelays == {0, 1, 2}

\* Immediate has expired when it is scheduled (-1), as in the code; the other
\* timeout expires within the run.
SomeTimeouts == {-1, 2}
=============================================================================
