---------------------------- MODULE MCInstallFlow ----------------------------
(***************************************************************************)
(* Instances of InstallFlow for TLC: two packages that ask for an oauth    *)
(* token, one of them not in its first version.                            *)
(***************************************************************************)
EXTENDS InstallFlow

MCAsks ==
  [n \in Names |-> [v \in Versions |-> IF n = "notes" /\ v = 1 THEN "nothing" ELSE "oauth"]]
=============================================================================
