---------------------------- MODULE MCExposition --------------------------
(* Instances of Exposition for TLC. *)
EXTENDS Exposition, TLC

CONSTANTS u1, u2   \* a configured address and a pod's

MCUrls == {u1, u2}
MCStatic == <<[url |-> u1, pool |-> "both"]>>

MCSymmetry == Permutations(Scrapes)
===========================================================================
