---------------------------- MODULE HostTimeouts ----------------------------
(***************************************************************************)
(* The timeouts of the two host forks that use setTimeout.  The scheduler  *)
(* can clear only the timeout whose id it kept last; setting another one   *)
(* overwrites the id, and the earlier timeout, if still outstanding, goes  *)
(* on unnamed: a stray.                                                    *)
(***************************************************************************)
EXTENDS SchedulerCore

VARIABLES
    taskTimeout,              \* due time of the timeout taskTimeoutID names
    strays                    \* other outstanding timeouts, counted by due time

timeouts == <<taskTimeout, strays>>

NoTimeout == -1

TimeoutsInit == taskTimeout = NoTimeout /\ strays = [d \in Time |-> 0]

\* Times past the end of the clock are cut to it.
Capped(t) == IF t > MaxTime THEN MaxTime ELSE t

Overwritten(named, others) ==
    IF named = NoTimeout THEN others ELSE [others EXCEPT ![named] = @ + 1]

\* Mutant: setTimeout is not called.
setTimeout_never(due, named, others) ==
    due \in Int /\ taskTimeout' = named /\ strays' = others

\* setTimeout, when `named` is the timeout the id names and `others` are the
\* others that are outstanding.
setTimeout(due, named, others) ==
    /\ taskTimeout' = Capped(due)
    /\ strays' = Overwritten(named, others)

\* cancelHostTimeout leaves the strays alone.
cancelHostTimeout == taskTimeout' = NoTimeout /\ UNCHANGED strays

\* Mutant: keeps the timeout that is outstanding.
replaceHostTimeout_not(due) == due \in Int /\ UNCHANGED timeouts

\* cancelHostTimeout of the timeout that is outstanding, then requestHostTimeout.
replaceHostTimeout(due) == taskTimeout' = Capped(due) /\ UNCHANGED strays

\* The timeouts the host has yet to deliver.
Outstanding == {d \in Time : d = taskTimeout \/ strays[d] > 0}

TimeoutsTypeOK ==
    /\ taskTimeout \in Time \cup {NoTimeout}
    /\ strays \in [Time -> Nat]
=============================================================================
