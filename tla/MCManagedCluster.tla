-------------------------- MODULE MCManagedCluster --------------------------
(***************************************************************************)
(* Instances of ManagedCluster for TLC.                                    *)
(***************************************************************************)
EXTENDS ManagedCluster, TLC

MCVersionOf == ("v1a" :> "v1") @@ ("v2a" :> "v2") @@ ("v2b" :> "v2")
MCLowerCase == ("p1" :> "p1") @@ ("P1" :> "p1") @@ ("p2" :> "p2")
MCDefaultTag == ("v1" :> "v1a") @@ ("v2" :> "v2a")

Base ==
  [place |-> "p1", name |-> "n1", protected |-> FALSE, projection |-> "off",
   instance |-> "f1", version |-> "v1", tag |-> None, size |-> 1, perf |-> "low"]

Capital == [Base EXCEPT !.place = "P1"]
Moved == [Base EXCEPT !.place = "p2"]
Renamed == [Base EXCEPT !.name = "n2", !.protected = TRUE]
Resized == [Base EXCEPT !.instance = "m8"]
Larger == [Resized EXCEPT !.size = 2, !.perf = "high"]
Upgraded == [Base EXCEPT !.projection = "user", !.version = "v2", !.tag = "v2b"]
WrongTag == [Base EXCEPT !.instance = "m8", !.tag = "v2b"]

\* What replaces the cluster, once or at every apply, and what makes an update wait.
LifecycleConfigs == {Base, Capital, Moved, Resized}
SpellingConfigs == {Base, Capital}

\* What makes an update issue one command, several commands, or none: from Larger
\* to the others the disk shrinks, from Upgraded the version changes without its tag.
UpdateConfigs == {Base, Renamed, Larger, Upgraded, WrongTag}
=============================================================================
