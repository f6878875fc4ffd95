----------------------------- MODULE MCNetwork -----------------------------
(***************************************************************************)
(* Instances of Network for TLC.                                           *)
(***************************************************************************)
EXTENDS Network

Private == [public |-> FALSE, cidr |-> "c1", name |-> "n1"]
Public == [public |-> TRUE, cidr |-> Unset, name |-> "n1"]

\* Another address space, another name, and both combinations that Create refuses.
MCConfigs ==
  {Private, Public, [Private EXCEPT !.cidr = "c2"], [Private EXCEPT !.name = "n2"],
   [Private EXCEPT !.cidr = Unset], [Public EXCEPT !.cidr = "c1"]}
=============================================================================
