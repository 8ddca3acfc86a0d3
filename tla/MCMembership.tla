--------------------------- MODULE MCMembership ---------------------------
(* Instances of Membership for TLC. *)
EXTENDS Membership, TLC

CONSTANTS u1, u2, s0   \* two pod addresses and the configured worker's

MCPods == {u1, u2}
MCPodAndStatic == {u1, s0}
MCStatic == <<[url |-> s0, pool |-> "prefill"]>>
MCNoStatic == <<>>

Ep(u, ready) == [url |-> u, ready |-> ready]

\* Slices that share, hand over, drop and hold back addresses.
MCHandOver == {{Ep(u1, "unconditioned")}, {Ep(u1, "false"), Ep(u2, "true")}}

\* One address that comes and goes.
MCFlapping == {{Ep(u1, "true")}, {Ep(u1, "false")}}

MCSymmetry == Permutations(Requests)
===========================================================================
