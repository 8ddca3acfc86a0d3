----------------------------- MODULE MockEngine ---------------------------
(***************************************************************************)
(* The KV cache of the mock engines (mocks/mock_vllm.py): an LRU of block  *)
(* hashes, oldest first. A handler of the mock runs without interruption   *)
(* from the parsed request to its first sleep, so looking the prompt up    *)
(* and recording it are one step.                                          *)
(***************************************************************************)
EXTENDS Prompt, FiniteSetsExt

CONSTANTS Workers,           \* worker ids; engine and worker share one
          PrefixCacheCap     \* PREFIX_CACHE_CAP, in blocks

ASSUME MockEngineAssumption == PrefixCacheCap \in Nat

VARIABLES up,       \* engines that answer
          cache     \* engine -> its prefix_cache

engineVars == <<up, cache>>

MatchedSkipsLast(held, hashes) ==
    Max({0} \cup {i \in DOMAIN hashes : i < Len(hashes) /\ hashes[i] \in Range(held)})

\* The longest prefix of the prompt whose last block is cached.
Matched(held, hashes) == Max({0} \cup {i \in DOMAIN hashes : hashes[i] \in Range(held)})

\* Every hash moves to the young end, ...
Recorded(held, hashes) ==
    LET kept[i \in 0 .. Len(held)] ==
            IF i = 0 THEN <<>>
            ELSE IF held[i] \in Range(hashes) THEN kept[i - 1]
            ELSE Append(kept[i - 1], held[i])
    IN kept[Len(held)] \o hashes

\* ... and the old end is cut off.
Trimmed(held) ==
    SubSeq(held, Len(held) - Smaller(Len(held), PrefixCacheCap) + 1, Len(held))

\* record_and_match's effect on the cache; its result is Matched.
record_and_match(w, hashes) ==
    cache' = [cache EXCEPT ![w] = Trimmed(Recorded(@, hashes))]

\* The process dies and its cache with it.
EngineCrashes(w) ==
    /\ w \in up
    /\ up' = up \ {w}
    /\ cache' = [cache EXCEPT ![w] = <<>>]

EngineStarts(w) ==
    /\ w \notin up
    /\ up' = up \cup {w}
    /\ UNCHANGED cache

EngineInit ==
    /\ up = Workers
    /\ cache = [w \in Workers |-> <<>>]
===========================================================================
