---------------------------- MODULE MCUpdateQueue ----------------------------
(* Three expiration times, of which the largest is Sync.                    *)
EXTENDS UpdateQueue

MCTimes  == 1..3
=============================================================================
