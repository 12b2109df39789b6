--------------------------- MODULE MCIs07Events -----------------------------
(***************************************************************************)
(* Is07Events for TLC: two clients of one source, so that one client's     *)
(* failure meets the other's broadcast (the safety run), and one client    *)
(* with two events, the least that can be cached and received in different *)
(* orders (the live run); see the .cfg files.                              *)
(***************************************************************************)
EXTENDS Is07Events, TLC

\* The clients are interchangeable; used only in the run without liveness.
ClientSymmetry == Permutations(Clients)
=============================================================================
