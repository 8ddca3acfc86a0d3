---------------------------- MODULE MCSelection ---------------------------
(* Instances of Selection for TLC. *)
EXTENDS Selection, TLC

\* A worker for whole requests beside two for one phase of a request; while it
\* is down, whole requests fall back to any healthy worker.
MCPools == [w \in Workers |-> IF w = 1 THEN "both" ELSE "decode"]

\* A round-robin selection is two steps, a scan many.
MCSelections == [p \in Policies |-> IF p = "round_robin" THEN 4 ELSE 2]

MCSymmetry == Permutations(Requests)
===========================================================================
