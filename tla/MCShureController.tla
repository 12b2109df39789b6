------------------------- MODULE MCShureController --------------------------
(***************************************************************************)
(* Instances of ShureController for TLC.                                   *)
(***************************************************************************)
EXTENDS ShureController
=============================================================================
