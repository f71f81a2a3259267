-------------------------------- MODULE Flight --------------------------------
(***************************************************************************)
(* The Flight renderer from end to end: the server that turns a model into *)
(* rows (ReactFlightServer.js), the stream it writes to, which may be full *)
(* (ReactServerHostConfig*.js), and the client that reads the rows into    *)
(* chunks (ReactFlightClient.js).  A row is a chunk of the model: it       *)
(* refers to the rows of its components that suspended or threw.           *)
(*                                                                         *)
(* Scheduled work waits, as in Node; in the browser it runs at once, which *)
(* is one of the orders here.  A request to write more that comes while    *)
(* the server writes is ignored by it (reentrant) and left out.  Rows are  *)
(* read whole: the client keeps the start of a row until its end arrives.  *)
(***************************************************************************)
EXTENDS Integers, Sequences, FiniteSets, FiniteSetsExt, SequencesExt

CONSTANTS
    Capacity,          \* rows the stream takes before it is full
    MaxRows,           \* bound: rows of the model
    MaxSuspensions     \* bound: how often a segment suspends again, in all

ASSUME CapacityAssumption == Capacity \in Nat \ {0}
ASSUME RowsAssumption == MaxRows \in Nat \ {0} /\ MaxSuspensions \in Nat

VARIABLES
    segment,           \* what became of each row's segment: see Segments
    nextChunkId, pendingChunks,
    pingedSegments,    \* segments to attempt again
    attempted,         \* those performWork has taken and not got to
    working,           \* is performWork running?
    scheduled,         \* calls of performWork that are scheduled
    completedJSONChunks, completedErrorChunks,
    flowing,
    destination,       \* the rows in the stream
    closed,            \* how often the stream was closed
    chunks,            \* the chunks of the client
    connection,        \* "open", "complete" or "lost", as the client knows it
    written,           \* history: the rows written so far
    suspensions        \* bound: see MaxSuspensions

unwritten  == <<pendingChunks, completedJSONChunks, completedErrorChunks>>
server     == <<segment, nextChunkId, pingedSegments, attempted, working, scheduled, unwritten,
                suspensions>>
stream     == <<flowing, destination, closed, written>>
client     == <<chunks, connection>>
flightVars == <<server, stream, client>>

RowIds   == 0..(MaxRows - 1)
Segments == {"unused", "suspended", "pinged", "model", "error"}

\* "J" for a model with references to other rows, "E" for an error.
Row(id, tag, refs) == [id |-> id, tag |-> tag, refs |-> refs]

\* createRequest and startWork: the root segment is to be attempted.  The client
\* waits for the root chunk.
FlightInit ==
    /\ segment = [id \in RowIds |-> IF id = 0 THEN "pinged" ELSE "unused"]
    /\ nextChunkId = 1 /\ pendingChunks = 1
    /\ pingedSegments = <<0>> /\ attempted = <<>>
    /\ working = FALSE /\ scheduled = 1
    /\ completedJSONChunks = <<>> /\ completedErrorChunks = <<>>
    /\ flowing = TRUE
    /\ destination = <<>> /\ closed = 0
    /\ chunks = [id \in RowIds |-> IF id = 0 THEN "pending" ELSE "absent"]
    /\ connection = "open"
    /\ written = <<>> /\ suspensions = 0

-----------------------------------------------------------------------------
(* The server *)

\* pingSegment: the promise a segment waits for is settled.
pingSegment(id) ==
    /\ ~working /\ segment[id] = "suspended"
    /\ segment' = [segment EXCEPT ![id] = "pinged"]
    /\ pingedSegments' = Append(pingedSegments, id)
    /\ scheduled' = IF Len(pingedSegments') = 1 THEN scheduled + 1 ELSE scheduled
    /\ UNCHANGED <<nextChunkId, attempted, working, unwritten, suspensions, stream, client>>

\* performWork is called, and takes the pinged segments.
performWork ==
    /\ ~working /\ scheduled > 0
    /\ working' = TRUE /\ scheduled' = scheduled - 1
    /\ attempted' = pingedSegments /\ pingedSegments' = <<>>
    /\ UNCHANGED <<segment, nextChunkId, unwritten, suspensions, stream, client>>

\* Mutant: an error needs no waiting, so it is not counted.
NewChunks_suspended(parts) == Cardinality({i \in DOMAIN parts : parts[i] = "suspended"})

\* resolveModelToJSON counts each part that becomes a row of its own.
NewChunks(parts) == Len(parts)

\* The parts of a segment that do not render at once, in the order they are met.
Parts == UNION {[1..n -> {"suspended", "error"}] : n \in 0..(MaxRows - nextChunkId)}

NewIds(parts) == nextChunkId .. (nextChunkId + Len(parts) - 1)

\* The ids of the parts that threw.
Thrown(parts) == {id \in NewIds(parts) : parts[id - nextChunkId + 1] = "error"}

\* emitErrorChunk is called for one after the other.
Ascending(ids) ==
    {s \in [1..Cardinality(ids) -> ids] : \A i, j \in DOMAIN s : i < j => s[i] < s[j]}

\* retrySegment: the segment becomes a row, an error or suspends again, after
\* some of its parts were given rows of their own.
retrySegment(result, parts) ==
    /\ working /\ attempted # <<>>
    /\ \E thrown \in Ascending(Thrown(parts)) :
         LET id     == Head(attempted)
             errors == IF result = "error" THEN Append(thrown, id) ELSE thrown
         IN  /\ segment' = [s \in RowIds |->
                              IF s = id THEN result
                              ELSE IF s \in NewIds(parts) THEN parts[s - nextChunkId + 1]
                              ELSE segment[s]]
             /\ completedErrorChunks' =
                  completedErrorChunks \o [i \in DOMAIN errors |-> Row(errors[i], "E", {})]
             /\ completedJSONChunks' =
                  IF result = "model"
                  THEN Append(completedJSONChunks, Row(id, "J", NewIds(parts)))
                  ELSE completedJSONChunks
    /\ nextChunkId' = nextChunkId + Len(parts)
    /\ pendingChunks' = pendingChunks + NewChunks(parts)
    /\ attempted' = Tail(attempted)
    /\ suspensions' = IF result = "suspended" THEN suspensions + 1 ELSE suspensions
    /\ suspensions' <= MaxSuspensions
    /\ UNCHANGED <<pingedSegments, working, scheduled, stream, client>>

\* How many rows a loop writes: up to the one after which the stream is full.
Taken(rows, buffer) ==
    LET room == IF Len(buffer) < Capacity THEN Capacity - Len(buffer) ELSE 1
    IN  IF Len(rows) < room THEN Len(rows) ELSE room

IdsOf(rows) == [i \in DOMAIN rows |-> rows[i].id]

\* flushCompletedChunks: models, then errors, which are tried even if the models
\* have filled the stream.  The stream is closed once nothing is pending.
flushCompletedChunks ==
    LET models == SubSeq(completedJSONChunks, 1, Taken(completedJSONChunks, destination))
        buffer == destination \o models
        errors == SubSeq(completedErrorChunks, 1, Taken(completedErrorChunks, buffer))
        full   == \/ models # <<>> /\ Len(buffer) >= Capacity
                  \/ errors # <<>> /\ Len(buffer) + Len(errors) >= Capacity
    IN  /\ destination' = buffer \o errors
        /\ completedJSONChunks' =
             SubSeq(completedJSONChunks, Len(models) + 1, Len(completedJSONChunks))
        /\ completedErrorChunks' =
             SubSeq(completedErrorChunks, Len(errors) + 1, Len(completedErrorChunks))
        /\ pendingChunks' = pendingChunks - Len(models) - Len(errors)
        /\ flowing' = ~full
        /\ closed' = IF pendingChunks' = 0 THEN closed + 1 ELSE closed
        /\ written' = written \o IdsOf(models) \o IdsOf(errors)

\* The rest of performWork.
endWork ==
    /\ working /\ attempted = <<>>
    /\ working' = FALSE
    /\ IF flowing THEN flushCompletedChunks
       ELSE UNCHANGED <<stream, unwritten>>
    /\ UNCHANGED <<segment, nextChunkId, pingedSegments, attempted, scheduled, suspensions, client>>

\* Mutant: leaves the rows that wait to the next performWork.
FlowAgain_later == flowing' = TRUE /\ UNCHANGED <<destination, closed, written, unwritten>>

FlowAgain == flushCompletedChunks

\* startFlowing: a stream that was full has room again.  While the flow is on
\* nothing waits to be written, and a stream that asks for more gets nothing.
startFlowing ==
    /\ ~working /\ closed = 0 /\ ~flowing
    /\ Len(destination) < Capacity
    /\ FlowAgain
    /\ UNCHANGED <<segment, nextChunkId, pingedSegments, attempted, working, scheduled,
                   suspensions, client>>

-----------------------------------------------------------------------------
(* The client *)

\* Mutant: an error for which nothing waits yet is dropped.
processErrorRow_dropped(row) ==
    chunks' = [chunks EXCEPT ![row.id] = IF @ = "pending" THEN "errored" ELSE @]

\* The row of an error.
processErrorRow(row) ==
    chunks' = [chunks EXCEPT ![row.id] = IF @ \in {"pending", "absent"} THEN "errored" ELSE @]

\* The row of a model: the chunks it refers to exist from now on.
resolveJSONRow(row) ==
    chunks' = [id \in RowIds |->
                 IF id = row.id /\ chunks[id] \in {"pending", "absent"} THEN "resolved"
                 ELSE IF id \in row.refs /\ chunks[id] = "absent" THEN "pending"
                 ELSE chunks[id]]

\* processFullRow, for the next row of the stream.
processFullRow ==
    /\ connection = "open" /\ destination # <<>>
    /\ destination' = Tail(destination)
    /\ LET row == Head(destination)
       IN  IF row.tag = "E" THEN processErrorRow(row) ELSE resolveJSONRow(row)
    /\ UNCHANGED <<server, flowing, closed, written, connection>>

\* reportGlobalError: what is still pending will never come.
reportGlobalError == chunks' = [id \in RowIds |-> IF chunks[id] = "pending" THEN "failed" ELSE chunks[id]]

\* complete: the stream has ended.
complete ==
    /\ connection = "open" /\ closed > 0 /\ destination = <<>>
    /\ connection' = "complete"
    /\ reportGlobalError
    /\ UNCHANGED <<server, stream>>

loseConnection ==
    /\ connection = "open"
    /\ connection' = "lost"
    /\ reportGlobalError
    /\ UNCHANGED <<server, stream>>

-----------------------------------------------------------------------------
Attempt == \E result \in {"model", "error", "suspended"}, parts \in Parts : retrySegment(result, parts)

Work == performWork \/ Attempt \/ endWork
Read == processFullRow \/ complete

FlightNext ==
    \/ \E id \in RowIds : pingSegment(id)
    \/ Work
    \/ startFlowing
    \/ Read \/ loseConnection

FlightSpec == FlightInit /\ [][FlightNext]_flightVars

\* Every promise is settled, scheduled work runs, a stream that was full drains
\* when it is read, and the client reads; it may lose the connection or not.
FairFlightSpec ==
    /\ FlightSpec
    /\ \A id \in RowIds : WF_flightVars(pingSegment(id))
    /\ WF_flightVars(Work)
    /\ WF_flightVars(startFlowing)
    /\ WF_flightVars(Read)

-----------------------------------------------------------------------------
(* Properties *)

Finished == {id \in RowIds : segment[id] \in {"model", "error"}}

ModelsWaiting == ToSet(IdsOf(completedJSONChunks))
ErrorsWaiting == ToSet(IdsOf(completedErrorChunks))

\* Every segment that is finished is the row of one chunk that is written or
\* waits to be, and of no second one; pendingChunks counts what is not written;
\* and the stream is closed once, when nothing is left to write.
RowsAreAccounted ==
    /\ IsInjective(written) /\ IsInjective(IdsOf(completedJSONChunks))
    /\ IsInjective(IdsOf(completedErrorChunks))
    /\ ToSet(written) \cap ModelsWaiting = {} /\ ToSet(written) \cap ErrorsWaiting = {}
    /\ ModelsWaiting \cap ErrorsWaiting = {}
    /\ ToSet(written) \cup ModelsWaiting \cup ErrorsWaiting = Finished
    /\ pendingChunks = nextChunkId - Len(written)
    /\ closed = IF pendingChunks = 0 THEN 1 ELSE 0

\* When the stream is complete the client has each row as the server made it,
\* and until then nothing that the server did not make.
ClientSeesModel ==
    connection # "lost" =>
      \A id \in RowIds :
        /\ chunks[id] = "resolved" => segment[id] = "model"
        /\ chunks[id] = "errored" => segment[id] = "error"
        /\ chunks[id] # "failed"
        /\ connection = "complete" /\ id < nextChunkId => chunks[id] \in {"resolved", "errored"}

\* A response that the server has begun comes to an end, after which nobody waits
\* for a chunk.
EveryResponseEnds ==
    scheduled = 0 ~> (connection # "open" /\ \A id \in RowIds : chunks[id] # "pending")
===============================================================================
