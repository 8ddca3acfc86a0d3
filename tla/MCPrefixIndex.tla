--------------------------- MODULE MCPrefixIndex --------------------------
(* Instances of PrefixIndex for TLC: three blocks in two shards. *)
EXTENDS PrefixIndex

CONSTANTS b1, b2, b3

MCBlocks == {b1, b2, b3}
MCShardOf == [b \in MCBlocks |-> IF b = b2 THEN 1 ELSE 0]

\* A prompt of two blocks over both shards, and one of a single block.
MCChains == {<<b1, b2>>, <<b3>>}
===========================================================================
