--------------------------- MODULE MCCycleSearch ----------------------------
(***************************************************************************)
(* CycleSearch on every graph of four groups.                              *)
(***************************************************************************)
EXTENDS CycleSearch

FourKeys == 1..4
=============================================================================
