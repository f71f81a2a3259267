-------------------------- MODULE MCSchedulerNoDOM --------------------------
(* SchedulerNoDOM on small instances: the inputs of the callers, scaled.   *)
EXTENDS SchedulerNoDOM

SomeDelays == {0, 1}

SomeTimeouts == {-1, 2}
=============================================================================
