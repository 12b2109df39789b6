----------------------------- MODULE MCControl ------------------------------
(***************************************************************************)
(* The two control interfaces of the node, IS-12 (NcpServer) and IS-05     *)
(* (Connection).  They share no state, so that a behaviour exercises one   *)
(* or the other: their interleavings would only multiply the states.       *)
(***************************************************************************)
EXTENDS NcpServer, Connection

ControlInit == NcpInit /\ ConnectionInit

ControlNext ==
  \/ NcpNext /\ ConnectionInit /\ UNCHANGED connectionVars
  \/ ConnectionNext /\ NcpInit /\ UNCHANGED vars

ControlSpec == ControlInit /\ [][ControlNext]_<<vars, connectionVars>> /\ NcpFairness
=============================================================================
