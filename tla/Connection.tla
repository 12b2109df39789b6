----------------------------- MODULE Connection -----------------------------
(***************************************************************************)
(* IS-05 connection management of the senders                              *)
(* (internal/infrastructure/nmos_controller.go:                            *)
(* handleConnectionSenderActive, handleConnectionSenderStaged;             *)
(* nmos_connection_types.go).  Each request is handled under c.mu.         *)
(***************************************************************************)
EXTENDS Integers

CONSTANTS
  SenderIDs,       \* the senders that requests name
  TransportParams  \* values of transport_params

VARIABLES
  stagedConnections,
  activeConnections,
  requested   \* history: the mode that the last PATCH asked for

connectionVars == <<stagedConnections, activeConnections, requested>>

Modes == {"", "activate_immediate", "activate_scheduled_absolute",
          "activate_scheduled_relative"}
NoParams == "none"   \* an empty list
Default == "default" \* getSenderTransportParams

\* Staged and active parameters: the zero value of the two types.
Zero == [masterEnable |-> FALSE, mode |-> "", params |-> NoParams]
Absent == [Zero EXCEPT !.mode = "absent"]   \* no entry in the map

ConnectionInit ==
  /\ stagedConnections = [s \in SenderIDs |-> Absent]
  /\ activeConnections = [s \in SenderIDs |-> Absent]
  /\ requested = ""

(***************************************************************************)
(* What GET answers.                                                       *)
(***************************************************************************)
GetActive(s) ==
  IF activeConnections[s] # Absent THEN activeConnections[s]
  ELSE [masterEnable |-> TRUE, mode |-> "activate_immediate", params |-> Default]

GetStaged(s) ==
  IF stagedConnections[s] # Absent THEN stagedConnections[s]
  ELSE IF activeConnections[s] # Absent THEN activeConnections[s]
  ELSE Zero

\* What a patch makes of the staged parameters: master_enable is taken even
\* when the body leaves it out (false), the others only when given.
Patched(s, p) ==
  [masterEnable |-> p.masterEnable,
   mode |-> IF p.mode = "" THEN GetStaged(s).mode ELSE p.mode,
   params |-> IF p.params = NoParams THEN GetStaged(s).params ELSE p.params]

\* Mutant: the staged mode is not reset after an activation.
PatchNotReset(s, p) ==
  LET current == Patched(s, p) IN
  /\ stagedConnections' = [stagedConnections EXCEPT ![s] = current]
  /\ activeConnections' =
       IF current.mode = "activate_immediate"
       THEN [activeConnections EXCEPT ![s] = current]
       ELSE activeConnections
  /\ requested' = p.mode

(***************************************************************************)
(* PATCH: an immediate activation happens at once; a scheduled one is      *)
(* stored, and nothing ever performs it.                                   *)
(***************************************************************************)
Patch(s, p) ==
  LET current == Patched(s, p)
      immediate == current.mode = "activate_immediate" IN
  /\ stagedConnections' =
       [stagedConnections EXCEPT ![s] = IF immediate THEN [current EXCEPT !.mode = ""] ELSE current]
  /\ activeConnections' =
       IF immediate THEN [activeConnections EXCEPT ![s] = current] ELSE activeConnections
  /\ requested' = p.mode

Patches == [masterEnable : BOOLEAN, mode : Modes, params : TransportParams \cup {NoParams}]

ConnectionNext == \E s \in SenderIDs, p \in Patches : Patch(s, p)

ConnectionSpec == ConnectionInit /\ [][ConnectionNext]_connectionVars

-----------------------------------------------------------------------------
(***************************************************************************)
(* A controller prepares a sender with several patches and activates it    *)
(* with the last one.  What the sender does (GET active) changes only by a *)
(* patch that asks for an immediate activation itself, never because of a  *)
(* mode that an earlier patch left in the staged parameters.               *)
(***************************************************************************)
OnlyImmediateActivates ==
  [][UNCHANGED activeConnections \/ requested' = "activate_immediate"]_connectionVars
=============================================================================
