-------------------------- MODULE MCRegistration ----------------------------
(***************************************************************************)
(* Registration for TLC: two registries that the node can move between,    *)
(* one of them the default, a device and one child; see the .cfg files.    *)
(***************************************************************************)
EXTENDS Registration
=============================================================================
