-------------------------- MODULE MCCacheAffinity -------------------------
(* Instances of CacheAffinity for TLC. *)
EXTENDS CacheAffinity

Says(role, content) == [role |-> role, content |-> content]

\* No message, and prompts whose blocks recur behind other blocks: u:/a, s:/b and,
\* over two messages, u:/b/s:.
MCPrompts == {<<>>, <<Says("u", <<"a">>)>>, <<Says("s", <<"b">>)>>,
              <<Says("u", <<"b">>), Says("s", <<>>)>>}

Series(kind, value) == [name |-> MetricName, kind |-> kind, value |-> value]

\* Two series and an unreadable one between them; a series without a value.
MCExpositions == {<<Series("number", 1), Series("text", 0), Series("number", 0)>>,
                  <<Series("number", 1), Series("bare", 0)>>}

MCSymmetry == Permutations(Requests)
===========================================================================
