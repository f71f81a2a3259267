------------------------------ MODULE UpdateLog ------------------------------
(***************************************************************************)
(* What an update queue promises to the component it belongs to.  Updates  *)
(* are numbered in the order they are made; each one appends its number to *)
(* the state.  A commit may show the effect of some updates before that of *)
(* others, but each shows at most once, in the order they were made, and   *)
(* what was shown once stays.                                              *)
(***************************************************************************)
EXTENDS Naturals, SequencesExt

VARIABLES
    inserted,      \* how many updates have been made
    committed      \* the state on the screen

logVars == <<inserted, committed>>

LogInit == inserted = 0 /\ committed = <<>>

Insert == inserted' = inserted + 1 /\ UNCHANGED committed

InOrder(updates) == \A i, j \in DOMAIN updates : i < j => updates[i] < updates[j]

Commit ==
    /\ committed' \in Seq(1..inserted) /\ InOrder(committed')
    /\ ToSet(committed) \subseteq ToSet(committed')
    /\ UNCHANGED inserted

LogSpec == LogInit /\ [][Insert \/ Commit]_logVars
=============================================================================
