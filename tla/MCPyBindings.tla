---------------------------- MODULE MCPyBindings --------------------------
(* Instances of PyBindings for TLC. *)
EXTENDS PyBindings, TLC

\* A prompt, and one that extends it.
MCPrompts == {<<"a">>, <<"a", "b">>}

\* The defaults scaled to integers, a negative weight, and weights that are not finite.
MCWeights == {[cache |-> 2, load |-> 1], [cache |-> -2, load |-> 1],
              [cache |-> Inf, load |-> 1], [cache |-> 2, load |-> Inf],
              [cache |-> NaN, load |-> 1]}

MCSymmetry == Permutations(Threads)
===========================================================================
