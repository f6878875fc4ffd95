---------------------------- MODULE MCReplicaSet ----------------------------
(***************************************************************************)
(* Instances of ReplicaSet for TLC, with values given by the configuration.*)
(***************************************************************************)
EXTENDS ReplicaSet
=============================================================================
