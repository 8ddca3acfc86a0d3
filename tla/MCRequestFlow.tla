--------------------------- MODULE MCRequestFlow --------------------------
(* Instances of RequestFlow for TLC. *)
EXTENDS RequestFlow

\* One token, with and without the upstream's own [DONE], and no body.
MCBodies == {<<"c1", "c2", "d1", "d2">>, <<"c1", "c2">>, <<>>}

\* One worker for each phase.
MCPools == [w \in Workers |-> IF w = 0 THEN "prefill" ELSE "decode"]
===========================================================================
