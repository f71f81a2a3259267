------------------------------ MODULE MCQueues ------------------------------
(***************************************************************************)
(* Three places where things wait in line, each by itself: the array heap  *)
(* of the scheduler, with heaps of up to three levels; the queue of        *)
(* synchronous callbacks, each of which may push others, flush or throw;   *)
(* and the rows of a Flight response, written to a stream that is full     *)
(* with one of them.  `part` says which of them a behaviour is about.      *)
(***************************************************************************)
EXTENDS SchedulerMinHeap, SyncQueue, Flight

VARIABLE part      \* "heap", "sync" or "flight"

SomeIds  == 1..5
SomeKeys == {0, 1}

allVars == <<part, heapVars, vars, flightVars>>

\* All start empty; the keys matter to the heap only.
PartInit ==
    /\ part \in {"heap", "sync", "flight"}
    /\ HeapInit /\ sortIndex = [t \in Ids |-> 0]
    /\ Init
    /\ FlightInit

PushOrPop == part = "heap" /\ HeapNext /\ UNCHANGED <<part, vars, flightVars>>
Schedule  == part = "sync" /\ scheduleSyncCallback /\ UNCHANGED <<part, heapVars, flightVars>>
Flush     == part = "sync" /\ flushSyncCallbackQueue /\ UNCHANGED <<part, heapVars, flightVars>>
TaskRuns  == part = "sync" /\ RunTask /\ UNCHANGED <<part, heapVars, flightVars>>
TaskEnds  == part = "sync" /\ CallbackEnds /\ UNCHANGED <<part, heapVars, flightVars>>

Others      == UNCHANGED <<part, heapVars, vars>>
Ping(id)    == part = "flight" /\ pingSegment(id) /\ Others
ServerWorks == part = "flight" /\ Work /\ Others
Drains      == part = "flight" /\ startFlowing /\ Others
ClientReads == part = "flight" /\ Read /\ Others
Lost        == part = "flight" /\ loseConnection /\ Others

PartNext ==
    \/ PushOrPop
    \/ Schedule \/ Flush \/ TaskRuns \/ TaskEnds
    \/ (\E id \in RowIds : Ping(id)) \/ ServerWorks \/ Drains \/ ClientReads \/ Lost

\* The fairness of SyncQueue and of Flight; nobody has to use the heap.
PartSpec ==
    /\ PartInit /\ [][PartNext]_allVars
    /\ WF_allVars(TaskRuns) /\ WF_allVars(TaskEnds)
    /\ \A id \in RowIds : WF_allVars(Ping(id))
    /\ WF_allVars(ServerWorks) /\ WF_allVars(Drains) /\ WF_allVars(ClientReads)
=============================================================================
