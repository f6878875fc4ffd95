----------------------------- MODULE MCPeering -----------------------------
(***************************************************************************)
(* Instances of Peering for TLC: one place for each cloud provider whose   *)
(* metadata differ, in one of which the name may be changed, and in one of *)
(* which the provider may be misnamed.                                     *)
(***************************************************************************)
EXTENDS Peering, TLC

MCProviderOf ==
  ("vpc" :> "aws") @@ ("VPC" :> "aws") @@ ("project" :> "gcp") @@ ("tenant" :> "azure")

MCAsCreated == [p \in Places |-> IF p = "VPC" THEN "vpc" ELSE p]

MCConfigs ==
  {[place |-> "vpc", name |-> "n1"], [place |-> "VPC", name |-> "n1"],
   [place |-> "project", name |-> "n1"], [place |-> "project", name |-> "n2"],
   [place |-> "tenant", name |-> "n1"]}
=============================================================================
