---------------------------- MODULE PrefixBelief --------------------------
(***************************************************************************)
(* What the prefix index promises its users (the type comment of           *)
(* PrefixIndex in crates/router-core/src/prefix.rs): a belief about which  *)
(* worker holds which block. A credit appears only when a record of that   *)
(* worker and block is under way, one block at a time; any credit may be   *)
(* forgotten at any time; nothing else happens.                            *)
(***************************************************************************)
CONSTANTS Workers, Blocks, Callers

VARIABLES belief,    \* the <<worker, block>> pairs the index credits
          learning   \* caller -> the pairs its record has still to write

beliefVars == <<belief, learning>>

Begin(t) ==
    /\ learning[t] = {}
    /\ \E w \in Workers : \E S \in SUBSET ({w} \X Blocks) :
         learning' = [learning EXCEPT ![t] = S]
    /\ UNCHANGED belief

Learn(t) ==
    /\ \E pair \in learning[t] : belief' = belief \cup {pair}
    /\ \E S \in SUBSET learning[t] : learning' = [learning EXCEPT ![t] = S]

Forget ==
    /\ \E S \in SUBSET belief : belief' = belief \ S
    /\ UNCHANGED learning

BeliefInit ==
    /\ belief = {}
    /\ learning = [t \in Callers |-> {}]

BeliefNext == (\E t \in Callers : Begin(t) \/ Learn(t)) \/ Forget

BeliefSpec == BeliefInit /\ [][BeliefNext]_beliefVars
===========================================================================
