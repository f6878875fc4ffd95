----------------------- MODULE MCServiceAccountToken -----------------------
(***************************************************************************)
(* Instances of ServiceAccountToken for TLC, with values given by the      *)
(* configuration.                                                          *)
(***************************************************************************)
EXTENDS ServiceAccountToken
=============================================================================
