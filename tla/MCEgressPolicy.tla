--------------------------- MODULE MCEgressPolicy ---------------------------
(***************************************************************************)
(* Instances of EgressPolicy: policies that may target a container server, *)
(* a remote one, or the group both may join.                               *)
(***************************************************************************)
EXTENDS EgressPolicy

=============================================================================
