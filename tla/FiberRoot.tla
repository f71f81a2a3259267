------------------------------ MODULE FiberRoot ------------------------------
(***************************************************************************)
(* ReactFiberRoot.js and getNextRootExpirationTimeToWorkOn: what a root    *)
(* remembers about the levels (expiration times) it has work at, as        *)
(* functions on records.  Larger levels are more urgent.                   *)
(***************************************************************************)
EXTENDS Naturals

NoWork == 0
Never  == 1
Idle   == 2

\* The fields of a root that this module is about.
NewRoot == [firstPendingTime |-> NoWork, firstSuspendedTime |-> NoWork,
            lastSuspendedTime |-> NoWork, nextKnownPendingLevel |-> NoWork,
            lastPingedTime |-> NoWork, lastExpiredTime |-> NoWork]

Higher(s, t) == IF s > t THEN s ELSE t

\* A mark that time t, or anything above it, is done with.
ClearedBy(mark, t) == IF t <= mark THEN NoWork ELSE mark

isRootSuspendedAtTime(r, t) ==
    /\ r.firstSuspendedTime # NoWork
    /\ r.firstSuspendedTime >= t
    /\ r.lastSuspendedTime <= t

markRootSuspendedAtTime(r, t) ==
    [r EXCEPT !.firstSuspendedTime = Higher(@, t),
              !.lastSuspendedTime =
                  IF @ > t \/ r.firstSuspendedTime = NoWork THEN t ELSE @,
              !.lastPingedTime = ClearedBy(@, t),
              !.lastExpiredTime = ClearedBy(@, t)]

\* Everything suspended becomes unsuspended.
Unsuspended(r) ==
    [r EXCEPT !.firstSuspendedTime = NoWork, !.lastSuspendedTime = NoWork,
              !.nextKnownPendingLevel = NoWork]

\* Mutant: an update does not unsuspend what it may have resolved.
markRootUpdatedAtTime_staysSuspended(r, t) ==
    [r EXCEPT !.firstPendingTime = Higher(@, t),
              !.nextKnownPendingLevel =
                  IF r.firstSuspendedTime # NoWork THEN Higher(@, t) ELSE @]

\* Mutant: a less urgent update hides that a more urgent one is pending.
markRootUpdatedAtTime_last(r, t) ==
    LET u == IF t >= r.firstSuspendedTime THEN Unsuspended(r)
             ELSE IF t >= r.lastSuspendedTime THEN [r EXCEPT !.lastSuspendedTime = t + 1]
             ELSE r
    IN  IF r.firstSuspendedTime = NoWork THEN [r EXCEPT !.firstPendingTime = t]
        ELSE [u EXCEPT !.firstPendingTime = t, !.nextKnownPendingLevel = Higher(@, t)]

markRootUpdatedAtTime(r, t) ==
    LET p == [r EXCEPT !.firstPendingTime = Higher(@, t)]
        u == IF t >= p.firstSuspendedTime THEN Unsuspended(p)
             ELSE IF t >= p.lastSuspendedTime THEN [p EXCEPT !.lastSuspendedTime = t + 1]
             ELSE p
    IN  IF r.firstSuspendedTime = NoWork THEN p
        ELSE [u EXCEPT !.nextKnownPendingLevel = Higher(@, t)]

\* Mutant: the range is narrowed even if nothing is left of it.
markRootFinishedAtTime_narrows(r, finished, remaining) ==
    LET s == IF finished <= r.firstSuspendedTime
             THEN [r EXCEPT !.firstSuspendedTime = finished - 1] ELSE r
    IN  [s EXCEPT !.firstPendingTime = remaining,
                  !.lastPingedTime = ClearedBy(@, finished),
                  !.lastExpiredTime = ClearedBy(@, finished)]

markRootFinishedAtTime(r, finished, remaining) ==
    LET s == IF finished <= r.lastSuspendedTime THEN Unsuspended(r)
             ELSE IF finished <= r.firstSuspendedTime
                  THEN [r EXCEPT !.firstSuspendedTime = finished - 1]
             ELSE r
    IN  [s EXCEPT !.firstPendingTime = remaining,
                  !.lastPingedTime = ClearedBy(@, finished),
                  !.lastExpiredTime = ClearedBy(@, finished)]

markRootExpiredAtTime(r, t) ==
    IF r.lastExpiredTime = NoWork \/ r.lastExpiredTime > t
    THEN [r EXCEPT !.lastExpiredTime = t] ELSE r

\* What to work on when the first pending level is suspended: a level that was
\* pinged, or a lower one that is known to be pending; but Idle and Never work
\* only when everything else is committed.
NextWhenSuspended(r) ==
    LET next == Higher(r.lastPingedTime, r.nextKnownPendingLevel)
    IN  IF next <= Idle /\ r.firstPendingTime # next THEN NoWork ELSE next

getNextRootExpirationTimeToWorkOn(r) ==
    IF r.lastExpiredTime # NoWork THEN r.lastExpiredTime
    ELSE IF ~isRootSuspendedAtTime(r, r.firstPendingTime) THEN r.firstPendingTime
    ELSE NextWhenSuspended(r)

-----------------------------------------------------------------------------
\* Roots with their marks in M.
Roots(M) ==
    [firstPendingTime : M, firstSuspendedTime : M, lastSuspendedTime : M,
     nextKnownPendingLevel : M, lastPingedTime : M, lastExpiredTime : M]

\* The suspended levels are a range, or there are none.
RangeOK(r) ==
    /\ r.lastSuspendedTime <= r.firstSuspendedTime
    /\ r.lastSuspendedTime = NoWork => r.firstSuspendedTime = NoWork
=============================================================================
