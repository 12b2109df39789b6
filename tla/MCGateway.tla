----------------------------- MODULE MCGateway ------------------------------
(***************************************************************************)
(* Gateway for TLC: two device addresses, one of them the manual one, so   *)
(* that Start and handleDiscovery meet on the same device and handle       *)
(* different devices too; see the .cfg files for the bounds.               *)
(***************************************************************************)
EXTENDS Gateway
=============================================================================
