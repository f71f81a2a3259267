--------------------------- MODULE MCRootScheduling ---------------------------
(***************************************************************************)
(* Small instances of RootScheduling for TLC.  Levels leave gaps, so that  *)
(* an update made while its level renders has a level of its own below.    *)
(***************************************************************************)
EXTENDS RootScheduling

CONSTANTS a, b, c

OneWaits == {a}
TwoLevels == {4, 6}
ThreeLevels == {4, 6, 8}
===============================================================================
