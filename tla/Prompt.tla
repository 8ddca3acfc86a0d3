------------------------------- MODULE Prompt -----------------------------
(***************************************************************************)
(* From messages to block hashes, on both sides of the wire: the router's  *)
(* canonical_prompt and chain_hash (crates/router-core/src/request.rs and  *)
(* hashing.rs), and the mock engine's mirror of them                       *)
(* (mocks/mock_vllm.py). A text is a sequence of characters; a role is one *)
(* character, and so is the ": " after it.                                 *)
(*                                                                         *)
(* A hash is what was fed to the hasher: collisions are left out. The      *)
(* router feeds the previous hash and one block, the engine keeps feeding  *)
(* one hasher, so their hashes are different things.                       *)
(***************************************************************************)
EXTENDS Integers, Sequences, SequencesExt

CONSTANTS PromptBlockChars,   \* the router's prompt_block_chars
          PrefixBlockChars    \* the engine's PREFIX_BLOCK_CHARS

ASSUME PromptAssumption ==
    /\ PromptBlockChars \in Nat
    /\ PrefixBlockChars \in Nat \ {0}

Smaller(m, n) == IF m < n THEN m ELSE n
Ceil(m, n) == (m + n - 1) \div n

\* One `role: content` line.
Line(message) == <<message.role, ":">> \o message.content

\* The router's canonical_prompt: a newline before every line but the first.
canonical_prompt(messages) ==
    FlattenSeq([i \in DOMAIN messages |->
        IF i > 1 THEN <<"newline">> \o Line(messages[i]) ELSE Line(messages[i])])

\* The mock's canonical_prompt joins the lines. It drops contents that are not
\* strings; the router has refused those.
mock_canonical_prompt(messages) ==
    FlattenSeq([i \in DOMAIN messages |->
        IF i < Len(messages) THEN Line(messages[i]) \o <<"newline">> ELSE Line(messages[i])])

\* chain_hash clamps the block size.
block_size == IF PromptBlockChars = 0 THEN 1 ELSE PromptBlockChars

ChunksExact(text, size) ==
    [i \in 1 .. Len(text) \div size |-> SubSeq(text, (i - 1) * size + 1, i * size)]

\* chars.chunks(size): the last block may be partial.
Chunks(text, size) ==
    [i \in 1 .. Ceil(Len(text), size) |->
        SubSeq(text, (i - 1) * size + 1, Smaller(i * size, Len(text)))]

HashOfBlockAlone(previous, block) == <<block>>

\* One DefaultHasher: the previous hash, if any, then the block.
Hash(previous, block) == Append(previous, block)

\* h_0 = hash(block_0), h_i = hash(h_(i-1) || block_i)
chain_hash(text) ==
    LET block == Chunks(text, block_size)
        h[i \in 0 .. Len(block)] == IF i = 0 THEN <<>> ELSE Hash(h[i - 1], block[i])
    IN [i \in 1 .. Len(block) |-> h[i]]

\* The engine's digests after each block of one running SHA-256.
block_prefix_hashes(text) ==
    [i \in 1 .. Ceil(Len(text), PrefixBlockChars) |->
        SubSeq(text, 1, Smaller(i * PrefixBlockChars, Len(text)))]

\* What both stand for: how many leading blocks two texts share.
SharedBlocks(s, t) ==
    LET Shared(k) ==
            /\ k <= Ceil(Len(s), block_size) /\ k <= Ceil(Len(t), block_size)
            /\ SubSeq(s, 1, Smaller(k * block_size, Len(s)))
                 = SubSeq(t, 1, Smaller(k * block_size, Len(t)))
    IN CHOOSE k \in 0 .. Len(s) : Shared(k) /\ \A j \in k + 1 .. Len(s) : ~Shared(j)
===========================================================================
