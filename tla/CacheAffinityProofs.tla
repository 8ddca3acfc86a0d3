------------------------- MODULE CacheAffinityProofs ----------------------
(***************************************************************************)
(* Theorems about CacheAffinity, for any workers, requests and prompts,    *)
(* any block sizes and any capacity of the engines' caches.                *)
(***************************************************************************)
EXTENDS CacheAffinity, Extrema, FiniteSetTheorems, SequenceTheorems, TLAPS

(***************************************************************************)
(* Blocks of a text                                                        *)
(***************************************************************************)
\* block_size is a positive number.
LEMMA BlockSize == block_size \in Nat /\ block_size > 0
  BY PromptAssumption DEF block_size

\* What is needed of products with a block size.
LEMMA Times ==
    ASSUME NEW i \in Nat, NEW j \in Nat, NEW b \in Nat, b > 0
    PROVE  /\ i * b \in Nat
           /\ i <= j => i * b <= j * b
           /\ i < j => i * b + b <= j * b
           /\ i * b <= j * b => i <= j
           /\ i > 0 => (i - 1) * b = i * b - b
  OBVIOUS

\* Block i of a text is there iff a character is behind the blocks before it.
LEMMA CeilIs ==
    ASSUME NEW L \in Nat, NEW b \in Nat, b > 0
    PROVE  /\ Ceil(L, b) \in Nat
           /\ \A i \in Nat : i > 0 => (i <= Ceil(L, b) <=> i * b - b < L)
           /\ Ceil(L, b) <= L
           /\ L <= Ceil(L, b) * b
  <1>1. PICK c \in Int : c = Ceil(L, b) /\ c * b <= L + b - 1 /\ L + b - 1 < c * b + b
    BY DEF Ceil
  <1>2. c \in Nat
    <2>1. c < 0 => c * b + b <= 0
      OBVIOUS
    <2> QED
      BY <1>1, <2>1
  <1>3. ASSUME NEW i \in Nat, i > 0 PROVE i <= c <=> i * b - b < L
    <2>1. i <= c => i * b <= c * b
      BY <1>2, Times
    <2>2. c < i => c * b + b <= i * b
      BY <1>2, Times
    <2>3. i * b \in Nat /\ c * b \in Nat
      BY <1>2, Times
    <2> QED
      BY <1>1, <1>2, <1>3, <2>1, <2>2, <2>3
  <1>4. c <= L
    <2>1. CASE c = 0
      BY <2>1
    <2>2. CASE c > 0
      <3>1. c * b - b < L
        BY <1>2, <1>3, <2>2
      <3>2. PICK d \in Nat : c = d + 1
        <4>1. c - 1 \in Nat /\ c = (c - 1) + 1
          BY <1>2, <2>2
        <4> QED
          BY <4>1
      <3>3. c * b = d * b + b /\ d <= d * b /\ d * b \in Nat
        BY <3>2
      <3> QED
        BY <3>1, <3>2, <3>3
    <2> QED
      BY <1>2, <2>1, <2>2
  <1>5. L <= c * b
    <2>1. c * b \in Nat
      BY <1>2, Times
    <2> QED
      BY <1>1, <2>1
  <1> QED
    BY <1>1, <1>2, <1>3, <1>4, <1>5

\* Smaller is one of its arguments and at most both.
LEMMA SmallerIs ==
    ASSUME NEW m \in Nat, NEW n \in Nat
    PROVE  Smaller(m, n) \in Nat /\ Smaller(m, n) <= m /\ Smaller(m, n) <= n
           /\ (Smaller(m, n) = m \/ Smaller(m, n) = n)
  BY DEF Smaller

\* Block i of a text of length L: the characters behind the i - 1 blocks before it.
BlocksOf(C, t, L, b) ==
    /\ Len(C) = Ceil(L, b)
    /\ \A i \in 1 .. Ceil(L, b) :
         /\ Len(C[i]) = Smaller(i * b, L) - (i * b - b)
         /\ \A o \in 1 .. Smaller(i * b, L) - (i * b - b) : C[i][o] = t[i * b - b + o]

\* Chunks cuts a text into its blocks, the last of which may be short.
LEMMA ChunksAre ==
    ASSUME NEW A, NEW t \in Seq(A), NEW b \in Nat, b > 0
    PROVE  Chunks(t, b) \in Seq(Seq(A)) /\ BlocksOf(Chunks(t, b), t, Len(t), b)
  <1> DEFINE L == Len(t)
             n == Ceil(L, b)
             Block(i) == SubSeq(t, (i - 1) * b + 1, Smaller(i * b, L))
  <1>1. L \in Nat /\ n \in Nat
    BY CeilIs
  <1>2. ASSUME NEW i \in 1 .. n
        PROVE  /\ Block(i) \in Seq(A)
               /\ Len(Block(i)) = Smaller(i * b, L) - (i * b - b)
               /\ \A o \in 1 .. Smaller(i * b, L) - (i * b - b) : Block(i)[o] = t[i * b - b + o]
    <2>0. i \in Nat /\ i > 0 /\ i <= n
      BY <1>1
    <2>1. i * b \in Nat /\ (i - 1) * b = i * b - b /\ i * b >= b
      BY <2>0, Times
    <2>2. i * b - b < L
      BY <1>1, <2>0, CeilIs
    <2>3. PICK lo \in Nat : lo = i * b - b
      BY <2>1
    <2>4. PICK hi \in Nat : hi = Smaller(i * b, L)
      BY <1>1, <2>1, SmallerIs
    <2>5. lo < hi /\ hi <= L
      BY <1>1, <2>1, <2>2, <2>3, <2>4 DEF Smaller
    <2>6. Block(i) = SubSeq(t, lo + 1, hi)
      BY <2>1, <2>3, <2>4
    <2>7. \A o \in lo + 1 .. hi : t[o] \in A
      BY <1>1, <2>5
    <2>8. /\ SubSeq(t, lo + 1, hi) \in Seq(A)
          /\ Len(SubSeq(t, lo + 1, hi)) = hi - lo
          /\ \A o \in 1 .. hi - lo : SubSeq(t, lo + 1, hi)[o] = t[lo + o]
      <3> HIDE DEF L
      <3>1. lo + 1 \in Int /\ hi \in Int
        OBVIOUS
      <3>2. /\ SubSeq(t, lo + 1, hi) \in Seq(A)
            /\ Len(SubSeq(t, lo + 1, hi)) = IF lo + 1 <= hi THEN hi - (lo + 1) + 1 ELSE 0
            /\ \A o \in 1 .. hi - (lo + 1) + 1 : SubSeq(t, lo + 1, hi)[o] = t[(lo + 1) + o - 1]
        BY <2>7, <3>1, SubSeqProperties
      <3> QED
        BY <2>5, <3>2
    <2> QED
      BY <2>3, <2>4, <2>6, <2>8
  <1>3. Chunks(t, b) = [i \in 1 .. n |-> Block(i)]
    BY DEF Chunks
  <1> HIDE DEF L, n, Block
  <1>4. Chunks(t, b) \in Seq(Seq(A)) /\ Len(Chunks(t, b)) = n
    <2>1. Chunks(t, b) \in [1 .. n -> Seq(A)]
      BY <1>2, <1>3
    <2> QED
      BY <1>1, <2>1
  <1>5. \A i \in 1 .. n : Chunks(t, b)[i] = Block(i)
    BY <1>3
  <1> QED
    BY <1>2, <1>4, <1>5 DEF L, n, BlocksOf

(***************************************************************************)
(* The chain of hashes                                                     *)
(***************************************************************************)
\* The recursive function of chain_hash.
ChainOf(C) == CHOOSE h : h = [i \in 0 .. Len(C) |-> IF i = 0 THEN <<>> ELSE Hash(h[i - 1], C[i])]

\* The recursive function of chain_hash exists.
LEMMA ChainExists ==
    ASSUME NEW B, NEW C \in Seq(B), NEW h, h = ChainOf(C), NEW n, n = Len(C)
    PROVE  \A i \in 0 .. n : h[i] = IF i = 0 THEN <<>> ELSE Hash(h[i - 1], C[i])
  <1>1. PICK f : f = [i \in 0 .. n |-> SubSeq(C, 1, i)]
    OBVIOUS
  <1>2. ASSUME NEW i \in 0 .. n PROVE f[i] = IF i = 0 THEN <<>> ELSE Hash(f[i - 1], C[i])
    <2>1. CASE i = 0
      BY <1>1, <2>1
    <2>2. CASE i # 0
      <3>1. i \in 1 .. n /\ i - 1 \in 0 .. n /\ n \in Nat
        BY <2>2
      <3>2. SubSeq(C, 1, i) = Append(SubSeq(C, 1, i - 1), C[i])
        BY <3>1
      <3> QED
        BY <1>1, <2>2, <3>1, <3>2 DEF Hash
    <2> QED
      BY <2>1, <2>2
  <1>3. f = [i \in 0 .. n |-> IF i = 0 THEN <<>> ELSE Hash(f[i - 1], C[i])]
    BY <1>1, <1>2
  <1>4. \E g : g = [i \in 0 .. Len(C) |-> IF i = 0 THEN <<>> ELSE Hash(g[i - 1], C[i])]
    BY <1>3, Zenon
  <1>5. ChainOf(C) = [i \in 0 .. Len(C) |-> IF i = 0 THEN <<>> ELSE Hash(ChainOf(C)[i - 1], C[i])]
    BY <1>4, Zenon DEF ChainOf
  <1> QED
    BY <1>5

\* chain_hash is that function, from its first block on.
LEMMA ChainHashIs ==
    ASSUME NEW text, NEW C, C = Chunks(text, block_size)
    PROVE  chain_hash(text) = [j \in 1 .. Len(C) |-> ChainOf(C)[j]]
  <1>1. chain_hash(text) = [i \in 1 .. Len(Chunks(text, block_size)) |->
                              ChainOf(Chunks(text, block_size))[i]]
    BY DEF chain_hash, ChainOf
  <1> QED
    BY <1>1

\* The hash of block i stands for the first i blocks.
LEMMA ChainIs ==
    ASSUME NEW A, NEW t \in Seq(A), NEW C, C = Chunks(t, block_size)
    PROVE  /\ C \in Seq(Seq(A)) /\ Len(C) = Ceil(Len(t), block_size)
           /\ chain_hash(t) = [i \in 1 .. Len(C) |-> SubSeq(C, 1, i)]
  <1>1. C \in Seq(Seq(A)) /\ Len(C) = Ceil(Len(t), block_size)
    BY BlockSize, ChunksAre DEF BlocksOf
  <1>2. PICK n \in Nat : n = Len(C)
    BY <1>1
  <1>3. PICK h : h = ChainOf(C)
    OBVIOUS
  <1>4. \A i \in 0 .. n : h[i] = IF i = 0 THEN <<>> ELSE Hash(h[i - 1], C[i])
    BY <1>1, <1>2, <1>3, ChainExists
  <1>5. \A i \in 0 .. n : h[i] = SubSeq(C, 1, i)
    <2> DEFINE Bad == {i \in 0 .. n : h[i] # SubSeq(C, 1, i)}
    <2> SUFFICES ASSUME Bad # {} PROVE FALSE
      OBVIOUS
    <2>1. PICK i \in Bad : \A j \in Bad : i <= j
      <3>1. Bad \subseteq Nat
        OBVIOUS
      <3> QED
        BY <3>1, SmallestNat
    <2>2. i # 0
      <3>1. i = 0 => h[i] = <<>> /\ SubSeq(C, 1, i) = <<>>
        BY <1>4
      <3> QED
        BY <3>1
    <2>3. i - 1 \in 0 .. n /\ i \in 1 .. n
      BY <2>2
    <2>4. h[i - 1] = SubSeq(C, 1, i - 1)
      BY <2>1, <2>3
    <2>5. h[i] = Append(h[i - 1], C[i])
      BY <1>4, <2>2, <2>3 DEF Hash
    <2>6. SubSeq(C, 1, i) = Append(SubSeq(C, 1, i - 1), C[i])
      BY <1>1, <1>2, <2>3
    <2> QED
      BY <2>4, <2>5, <2>6
  <1>6. chain_hash(t) = [j \in 1 .. n |-> h[j]]
    <2>1. chain_hash(t) = [j \in 1 .. Len(C) |-> h[j]]
      BY <1>3, ChainHashIs
    <2> QED
      BY <1>2, <2>1
  <1> QED
    BY <1>1, <1>2, <1>5, <1>6

(***************************************************************************)
(* Blocks two texts share                                                  *)
(***************************************************************************)
\* What a prefix of a text is.
LEMMA CutIs ==
    ASSUME NEW A, NEW t \in Seq(A), NEW e \in 0 .. Len(t)
    PROVE  /\ SubSeq(t, 1, e) \in Seq(A) /\ Len(SubSeq(t, 1, e)) = e
           /\ \A c \in 1 .. e : SubSeq(t, 1, e)[c] = t[c]
  <1>1. \A c \in 1 .. e : t[c] \in A
    OBVIOUS
  <1>2. e \in Int /\ 1 \in Int /\ e >= 0
    OBVIOUS
  <1>3. /\ SubSeq(t, 1, e) \in Seq(A)
        /\ Len(SubSeq(t, 1, e)) = IF 1 <= e THEN e - 1 + 1 ELSE 0
        /\ \A c \in 1 .. e - 1 + 1 : SubSeq(t, 1, e)[c] = t[1 + c - 1]
    BY <1>1, <1>2, SubSeqProperties
  <1> QED
    BY <1>2, <1>3

\* Two prefixes are equal iff they are as long and agree place by place.
LEMMA CutEqual ==
    ASSUME NEW A, NEW s \in Seq(A), NEW t \in Seq(A), NEW e \in 0 .. Len(s), NEW f \in 0 .. Len(t)
    PROVE  SubSeq(s, 1, e) = SubSeq(t, 1, f) <=> e = f /\ \A c \in 1 .. e : s[c] = t[c]
  <1>1. /\ SubSeq(s, 1, e) \in Seq(A) /\ Len(SubSeq(s, 1, e)) = e
        /\ \A c \in 1 .. e : SubSeq(s, 1, e)[c] = s[c]
    BY CutIs
  <1>2. /\ SubSeq(t, 1, f) \in Seq(A) /\ Len(SubSeq(t, 1, f)) = f
        /\ \A c \in 1 .. f : SubSeq(t, 1, f)[c] = t[c]
    BY CutIs
  <1>3. PICK p, q : p = SubSeq(s, 1, e) /\ q = SubSeq(t, 1, f)
    OBVIOUS
  <1>4. ASSUME e = f, \A c \in 1 .. e : s[c] = t[c] PROVE p = q
    <2>1. Len(p) = Len(q) /\ \A c \in 1 .. Len(p) : p[c] = q[c]
      BY <1>1, <1>2, <1>3, <1>4
    <2>2. p \in Seq(A) /\ q \in Seq(A)
      BY <1>1, <1>2, <1>3
    <2> QED
      BY <2>1, <2>2, SeqEqual
  <1>5. ASSUME p = q PROVE e = f /\ \A c \in 1 .. e : s[c] = t[c]
    BY <1>1, <1>2, <1>3, <1>5
  <1> QED
    BY <1>3, <1>4, <1>5

BlocksAgree(s, t, i, b) == \A j \in 1 .. i : Chunks(s, b)[j] = Chunks(t, b)[j]
CutsAgree(s, t, i, b) ==
    SubSeq(s, 1, Smaller(i * b, Len(s))) = SubSeq(t, 1, Smaller(i * b, Len(t)))

\* Two texts that agree on their first i blocks agree on the characters in them.
LEMMA BlocksShared ==
    ASSUME NEW A, NEW s \in Seq(A), NEW t \in Seq(A), NEW b \in Nat, b > 0,
           NEW i \in Nat, i > 0, i <= Ceil(Len(s), b), i <= Ceil(Len(t), b)
    PROVE  BlocksAgree(s, t, i, b) <=> CutsAgree(s, t, i, b)
  <1>1. PICK Ls \in Nat, Lt \in Nat : Ls = Len(s) /\ Lt = Len(t)
    OBVIOUS
  <1>2. i * b \in Nat /\ i * b >= b
    BY Times
  <1>3. PICK e \in Nat, f \in Nat : /\ e = Smaller(i * b, Ls) /\ f = Smaller(i * b, Lt)
                                    /\ e <= Ls /\ f <= Lt /\ e <= i * b
    BY <1>1, <1>2, SmallerIs
  <1>4. SubSeq(s, 1, e) = SubSeq(t, 1, f) <=> e = f /\ \A c \in 1 .. e : s[c] = t[c]
    <2>1. e \in 0 .. Len(s) /\ f \in 0 .. Len(t)
      BY <1>1, <1>3
    <2> QED
      BY <2>1, CutEqual
  <1>5a. PICK C \in Seq(Seq(A)), D \in Seq(Seq(A)) :
            /\ C = Chunks(s, b) /\ D = Chunks(t, b) /\ BlocksOf(C, s, Ls, b) /\ BlocksOf(D, t, Lt, b)
    BY <1>1, ChunksAre
  <1>5. /\ Len(C) = Ceil(Ls, b) /\ Len(D) = Ceil(Lt, b)
        /\ \A j \in 1 .. Ceil(Ls, b) :
             /\ Len(C[j]) = Smaller(j * b, Ls) - (j * b - b)
             /\ \A o \in 1 .. Smaller(j * b, Ls) - (j * b - b) : C[j][o] = s[j * b - b + o]
        /\ \A j \in 1 .. Ceil(Lt, b) :
             /\ Len(D[j]) = Smaller(j * b, Lt) - (j * b - b)
             /\ \A o \in 1 .. Smaller(j * b, Lt) - (j * b - b) : D[j][o] = t[j * b - b + o]
    BY <1>5a DEF BlocksOf
  <1>6. Ceil(Ls, b) \in Nat /\ Ceil(Lt, b) \in Nat
    BY CeilIs
  <1>7. \A j \in 1 .. i : j \in 1 .. Ceil(Ls, b) /\ j \in 1 .. Ceil(Lt, b) /\ j \in Nat /\ j > 0
    BY <1>1, <1>6
  <1>8. ASSUME \A j \in 1 .. i : C[j] = D[j] PROVE e = f /\ \A c \in 1 .. e : s[c] = t[c]
    <2>1. e = f
      <3>1. C[i] = D[i] /\ i \in 1 .. i
        BY <1>8
      <3>2. Len(C[i]) = e - (i * b - b) /\ Len(D[i]) = f - (i * b - b)
        BY <1>3, <1>5, <1>7, <3>1
      <3>3. PICK m \in Int : m = i * b - b
        BY <1>2
      <3>4. e - m = f - m
        BY <3>1, <3>2, <3>3
      <3> QED
        BY <3>4
    <2>2. ASSUME NEW c \in 1 .. e PROVE s[c] = t[c]
      <3>0. c \in Nat
        OBVIOUS
      <3>1. PICK j \in Nat : j = Ceil(c, b)
        BY <3>0, CeilIs
      <3>2. c \in Nat /\ c > 0 /\ c <= Ls /\ c <= Lt /\ c <= i * b
        BY <1>3, <2>1
      <3>3. c <= j * b
        BY <3>1, <3>2, CeilIs
      <3>4. j > 0
        <4>1. j = 0 => j * b = 0
          OBVIOUS
        <4> QED
          BY <3>2, <3>3, <4>1
      <3>5. j * b - b < c
        BY <3>1, <3>2, <3>4, CeilIs
      <3>6. j * b \in Nat /\ j * b >= b
        BY <3>4, Times
      <3>7. j <= i
        <4>1. i < j => i * b + b <= j * b
          BY Times
        <4>2. PICK m \in Nat, n \in Nat : m = i * b /\ n = j * b
          BY <1>2, <3>6
        <4>3. /\ i < j => m + b <= n
              /\ c <= m /\ n - b < c
          BY <3>2, <3>5, <4>1, <4>2
        <4> QED
          BY <3>0, <4>3
      <3>8. PICK o \in Nat : o = c - (j * b - b)
        BY <3>2, <3>5, <3>6
      <3>9. o > 0 /\ j * b - b + o = c
        BY <3>2, <3>5, <3>6, <3>8
      <3>10. o \in 1 .. Smaller(j * b, Ls) - (j * b - b) /\ o \in 1 .. Smaller(j * b, Lt) - (j * b - b)
        BY <3>2, <3>3, <3>5, <3>6, <3>8, <3>9 DEF Smaller
      <3>11. j \in 1 .. i
        BY <3>4, <3>7
      <3>12. C[j][o] = s[c]
        BY <1>5, <1>7, <3>9, <3>10, <3>11
      <3>13. D[j][o] = t[c]
        BY <1>5, <1>7, <3>9, <3>10, <3>11
      <3> QED
        BY <1>8, <3>11, <3>12, <3>13
    <2> QED
      BY <2>1, <2>2
  <1>9. ASSUME e = f, \A c \in 1 .. e : s[c] = t[c], NEW j \in 1 .. i PROVE C[j] = D[j]
    <2>1. j * b \in Nat /\ j * b >= b /\ j * b <= i * b
      BY <1>7, Times
    <2>2. PICK lo \in Nat : lo = j * b - b
      BY <2>1
    <2>3. PICK hi \in Nat : hi = Smaller(j * b, Ls)
      BY <2>1, SmallerIs
    <2>4. hi = Smaller(j * b, Lt) /\ hi <= e
      <3>1. PICK m \in Nat, n \in Nat : m = i * b /\ n = j * b
        BY <1>2, <2>1
      <3>2. n <= m /\ e = Smaller(m, Ls) /\ e = Smaller(m, Lt) /\ hi = Smaller(n, Ls)
        BY <1>3, <1>9, <2>1, <2>3, <3>1
      <3>3. hi = Smaller(n, Lt) /\ hi <= e
        BY <3>2 DEF Smaller
      <3> QED
        BY <3>1, <3>3
    <2>5. /\ Len(C[j]) = hi - lo /\ \A o \in 1 .. hi - lo : C[j][o] = s[lo + o]
          /\ Len(D[j]) = hi - lo /\ \A o \in 1 .. hi - lo : D[j][o] = t[lo + o]
      BY <1>5, <1>7, <2>2, <2>3, <2>4
    <2>6. \A o \in 1 .. hi - lo : s[lo + o] = t[lo + o]
      <3> TAKE o \in 1 .. hi - lo
      <3>1. lo + o \in 1 .. e
        BY <2>4
      <3> QED
        BY <1>9, <3>1
    <2>7. C[j] \in Seq(A) /\ D[j] \in Seq(A)
      <3>1. j \in 1 .. Len(C) /\ j \in 1 .. Len(D)
        BY <1>5, <1>7
      <3> QED
        BY <3>1, ElementOfSeq
    <2>8. PICK x \in Seq(A), y \in Seq(A) : x = C[j] /\ y = D[j]
      BY <2>7
    <2>9. Len(x) = Len(y) /\ \A o \in 1 .. Len(x) : x[o] = y[o]
      BY <2>5, <2>6, <2>8
    <2> QED
      BY <2>8, <2>9, SeqEqual
  <1> QED
    BY <1>1, <1>3, <1>4, <1>5a, <1>8, <1>9 DEF BlocksAgree, CutsAgree

\* How many blocks a text has.
Blocks(t) == Ceil(Len(t), block_size)

\* A text has one chain hash per block.
LEMMA ChainType ==
    ASSUME NEW A, NEW t \in Seq(A)
    PROVE  /\ Blocks(t) \in Nat /\ Blocks(t) <= Len(t)
           /\ DOMAIN chain_hash(t) = 1 .. Blocks(t)
           /\ Len(chain_hash(t)) = Blocks(t)
  <1>1. Blocks(t) \in Nat /\ Blocks(t) <= Len(t)
    <2>1. Len(t) \in Nat
      OBVIOUS
    <2> QED
      BY <2>1, BlockSize, CeilIs DEF Blocks
  <1>2. PICK C : C = Chunks(t, block_size)
    OBVIOUS
  <1>3. Len(C) = Blocks(t) /\ chain_hash(t) = [i \in 1 .. Len(C) |-> SubSeq(C, 1, i)]
    BY <1>2, ChainIs DEF Blocks
  <1> QED
    BY <1>1, <1>3

\* Equal hashes stand for equal prefixes of equally many blocks.
LEMMA ChainsMeet ==
    ASSUME NEW A, NEW s \in Seq(A), NEW t \in Seq(A),
           NEW i \in 1 .. Blocks(s), NEW j \in 1 .. Blocks(t)
    PROVE  chain_hash(s)[i] = chain_hash(t)[j] <=> i = j /\ CutsAgree(s, t, i, block_size)
  <1>1. PICK C, D : C = Chunks(s, block_size) /\ D = Chunks(t, block_size)
    OBVIOUS
  <1>2. /\ C \in Seq(Seq(A)) /\ Len(C) = Blocks(s)
        /\ chain_hash(s) = [k \in 1 .. Len(C) |-> SubSeq(C, 1, k)]
    BY <1>1, ChainIs DEF Blocks
  <1>3. /\ D \in Seq(Seq(A)) /\ Len(D) = Blocks(t)
        /\ chain_hash(t) = [k \in 1 .. Len(D) |-> SubSeq(D, 1, k)]
    BY <1>1, ChainIs DEF Blocks
  <1>4. Blocks(s) \in Nat /\ Blocks(t) \in Nat /\ i \in Nat /\ j \in Nat /\ i > 0
    BY ChainType
  <1>5. chain_hash(s)[i] = SubSeq(C, 1, i) /\ chain_hash(t)[j] = SubSeq(D, 1, j)
    BY <1>2, <1>3
  <1>6. i \in 0 .. Len(C) /\ j \in 0 .. Len(D)
    BY <1>2, <1>3, <1>4
  <1>7. SubSeq(C, 1, i) = SubSeq(D, 1, j) <=> i = j /\ \A k \in 1 .. i : C[k] = D[k]
    <2>1. PICK B : B = Seq(A)
      OBVIOUS
    <2>2. C \in Seq(B) /\ D \in Seq(B)
      BY <1>2, <1>3, <2>1
    <2> QED
      BY <1>6, <2>2, CutEqual
  <1>8. ASSUME i = j
        PROVE  (\A k \in 1 .. i : C[k] = D[k]) <=> CutsAgree(s, t, i, block_size)
    <2>1. i <= Ceil(Len(s), block_size) /\ i <= Ceil(Len(t), block_size)
      BY <1>4, <1>8 DEF Blocks
    <2>2. PICK b \in Nat : b = block_size /\ b > 0
      BY BlockSize
    <2>3. BlocksAgree(s, t, i, b) <=> CutsAgree(s, t, i, b)
      BY <1>4, <2>1, <2>2, BlocksShared
    <2> QED
      BY <1>1, <2>2, <2>3 DEF BlocksAgree
  <1> QED
    BY <1>5, <1>7, <1>8

\* Texts that agree on their first i blocks agree on fewer.
LEMMA CutsDown ==
    ASSUME NEW A, NEW s \in Seq(A), NEW t \in Seq(A), NEW b \in Nat, b > 0,
           NEW i \in Nat, NEW j \in Nat, j <= i, CutsAgree(s, t, i, b)
    PROVE  CutsAgree(s, t, j, b)
  <1>1. PICK m \in Nat, n \in Nat : m = i * b /\ n = j * b /\ n <= m
    BY Times
  <1>2. PICK Ls \in Nat, Lt \in Nat : Ls = Len(s) /\ Lt = Len(t)
    OBVIOUS
  <1>3. PICK e \in Nat, f \in Nat : e = Smaller(m, Ls) /\ f = Smaller(m, Lt) /\ e <= Ls /\ f <= Lt
    BY SmallerIs
  <1>4. PICK g \in Nat, h \in Nat : g = Smaller(n, Ls) /\ h = Smaller(n, Lt) /\ g <= Ls /\ h <= Lt
    BY SmallerIs
  <1>5. e = f /\ \A c \in 1 .. e : s[c] = t[c]
    <2>1. e \in 0 .. Len(s) /\ f \in 0 .. Len(t)
      BY <1>2, <1>3
    <2>2. SubSeq(s, 1, e) = SubSeq(t, 1, f)
      BY <1>1, <1>2, <1>3 DEF CutsAgree
    <2> QED
      BY <2>1, <2>2, CutEqual
  <1>6. g = h /\ g <= e
    BY <1>1, <1>3, <1>4, <1>5 DEF Smaller
  <1>7. SubSeq(s, 1, g) = SubSeq(t, 1, h)
    <2>1. g \in 0 .. Len(s) /\ h \in 0 .. Len(t)
      BY <1>2, <1>4
    <2>2. \A c \in 1 .. g : s[c] = t[c]
      BY <1>5, <1>6
    <2> QED
      BY <1>6, <2>1, <2>2, CutEqual
  <1> QED
    BY <1>1, <1>2, <1>4, <1>7 DEF CutsAgree

\* A text has the hash of another's block i iff they share i blocks.
LEMMA SharedIs ==
    ASSUME NEW A, NEW s \in Seq(A), NEW t \in Seq(A)
    PROVE  /\ SharedBlocks(s, t) \in 0 .. Blocks(s)
           /\ \A i \in 1 .. Blocks(s) :
                i <= SharedBlocks(s, t) <=> chain_hash(s)[i] \in Range(chain_hash(t))
  <1> DEFINE Sh(k) == k <= Blocks(s) /\ k <= Blocks(t) /\ CutsAgree(s, t, k, block_size)
             S == {k \in 0 .. Len(s) : Sh(k)}
  <1>1. /\ Blocks(s) \in Nat /\ Blocks(t) \in Nat /\ Len(s) \in Nat /\ Blocks(s) <= Len(s)
        /\ DOMAIN chain_hash(t) = 1 .. Blocks(t)
    BY ChainType
  <1>2. SharedBlocks(s, t) = CHOOSE k \in 0 .. Len(s) : Sh(k) /\ \A j \in k + 1 .. Len(s) : ~Sh(j)
    BY DEF SharedBlocks, Blocks, CutsAgree
  <1>3. Sh(0)
    <2>1. Smaller(0 * block_size, Len(s)) = 0 /\ Smaller(0 * block_size, Len(t)) = 0
      BY BlockSize DEF Smaller
    <2>2. SubSeq(s, 1, 0) = SubSeq(t, 1, 0)
      OBVIOUS
    <2>3. CutsAgree(s, t, 0, block_size)
      BY <2>1, <2>2 DEF CutsAgree
    <2> QED
      BY <1>1, <2>3
  <1>4. ASSUME NEW i \in Nat, NEW j \in Nat, j <= i, Sh(i) PROVE Sh(j)
    <2>1. CutsAgree(s, t, j, block_size)
      BY <1>4, BlockSize, CutsDown
    <2> QED
      BY <1>1, <1>4, <2>1
  <1>5. ASSUME NEW i \in 1 .. Blocks(s)
        PROVE  Sh(i) <=> chain_hash(s)[i] \in Range(chain_hash(t))
    <2>1. i <= Blocks(s)
      BY <1>1
    <2>2. ASSUME Sh(i) PROVE chain_hash(s)[i] \in Range(chain_hash(t))
      <3>1. i \in 1 .. Blocks(t)
        BY <1>1, <2>2
      <3>2. chain_hash(s)[i] = chain_hash(t)[i]
        BY <2>2, <3>1, ChainsMeet
      <3> QED
        BY <1>1, <3>1, <3>2 DEF Range
    <2>3. ASSUME chain_hash(s)[i] \in Range(chain_hash(t)) PROVE Sh(i)
      <3>1. PICK j \in 1 .. Blocks(t) : chain_hash(s)[i] = chain_hash(t)[j]
        BY <1>1, <2>3 DEF Range
      <3>2. i = j /\ CutsAgree(s, t, i, block_size)
        BY <3>1, ChainsMeet
      <3> QED
        BY <1>1, <2>1, <3>1, <3>2
    <2> QED
      BY <2>2, <2>3
  <1> HIDE DEF Sh
  <1>6. PICK m \in S : \A k \in S : m >= k
    <2>1. S \subseteq 0 .. Len(s) /\ S # {}
      BY <1>1, <1>3
    <2> QED
      BY <1>1, <2>1, LargestNat
  <1>7. m \in 0 .. Len(s) /\ Sh(m) /\ \A j \in m + 1 .. Len(s) : ~Sh(j)
    BY <1>1, <1>6
  <1>8. PICK k \in 0 .. Len(s) : k = SharedBlocks(s, t) /\ Sh(k) /\ \A j \in k + 1 .. Len(s) : ~Sh(j)
    BY <1>2, <1>7
  <1>9. k \in 0 .. Blocks(s)
    BY <1>1, <1>8 DEF Sh
  <1>10. ASSUME NEW i \in 1 .. Blocks(s) PROVE i <= k <=> Sh(i)
    <2>1. i \in Nat /\ i <= Len(s) /\ k \in Nat
      BY <1>1
    <2>2. i <= k => Sh(i)
      BY <1>4, <1>8, <2>1
    <2>3. k < i => ~Sh(i)
      BY <1>1, <1>8, <2>1
    <2> QED
      BY <2>1, <2>2, <2>3
  <1> QED
    BY <1>5, <1>8, <1>9, <1>10

(***************************************************************************)
(* Texts                                                                   *)
(***************************************************************************)
\* The recursive function of FlattenSeq, and what its values up to k are.
FlattenOf(s) == CHOOSE f : f = [i \in 1 .. Len(s) |-> IF i = 1 THEN s[i] ELSE f[i - 1] \o s[i]]
Flattens(f, s, A, k) ==
    /\ f \in [1 .. k -> Seq(A)]
    /\ \A i \in 1 .. k : f[i] = IF i = 1 THEN s[i] ELSE f[i - 1] \o s[i]

\* The recursive function of Flatten exists, and keeps types and lengths.
LEMMA FlattenExists ==
    ASSUME NEW A, NEW s \in Seq(Seq(A)), NEW k \in 1 .. Len(s)
    PROVE  \E f : Flattens(f, s, A, k)
  <1> DEFINE Bad == {j \in 1 .. Len(s) : ~\E f : Flattens(f, s, A, j)}
  <1> SUFFICES ASSUME Bad # {} PROVE FALSE
    OBVIOUS
  <1>1. PICK j \in Bad : \A l \in Bad : j <= l
    <2>1. Bad \subseteq Nat
      OBVIOUS
    <2> QED
      BY <2>1, SmallestNat
  <1>2. j \in 1 .. Len(s) /\ ~\E f : Flattens(f, s, A, j)
    OBVIOUS
  <1>3. s[j] \in Seq(A) /\ j \in Nat
    BY <1>2, ElementOfSeq
  <1>4. CASE j = 1
    <2>1. PICK f : f = [i \in 1 .. 1 |-> s[1]]
      OBVIOUS
    <2>2. Flattens(f, s, A, j)
      BY <1>3, <1>4, <2>1 DEF Flattens
    <2> QED
      BY <1>2, <2>2
  <1>5. CASE j # 1
    <2>0. Len(s) \in Nat
      OBVIOUS
    <2> HIDE DEF Bad
    <2>1. j - 1 \in 1 .. Len(s) /\ j - 1 \notin Bad
      BY <1>1, <1>2, <1>5, <2>0
    <2>2. PICK g : Flattens(g, s, A, j - 1)
      BY <2>1 DEF Bad
    <2>3. g \in [1 .. j - 1 -> Seq(A)] /\ \A i \in 1 .. j - 1 : g[i] = IF i = 1 THEN s[i] ELSE g[i - 1] \o s[i]
      BY <2>2 DEF Flattens
    <2>4. g[j - 1] \in Seq(A)
      BY <1>3, <2>1, <2>3
    <2>5. PICK x \in Seq(A) : x = g[j - 1] \o s[j]
      BY <1>3, <2>4, ConcatProperties
    <2>6. PICK f : f = [i \in 1 .. j |-> IF i = j THEN x ELSE g[i]]
      OBVIOUS
    <2>7. f \in [1 .. j -> Seq(A)]
      BY <1>3, <2>3, <2>6
    <2>8. ASSUME NEW i \in 1 .. j PROVE f[i] = IF i = 1 THEN s[i] ELSE f[i - 1] \o s[i]
      <3>1. CASE i = j
        <4>1. f[i] = x /\ f[i - 1] = g[j - 1] /\ i # 1
          BY <1>3, <1>5, <2>1, <2>6, <3>1
        <4> QED
          BY <2>5, <3>1, <4>1
      <3>2. CASE i # j
        <4>1. i \in 1 .. j - 1 /\ f[i] = g[i]
          BY <1>3, <2>6, <3>2
        <4>2. i # 1 => i - 1 \in 1 .. j /\ i - 1 # j
          BY <1>3, <4>1
        <4>3. i # 1 => f[i - 1] = g[i - 1]
          BY <2>6, <4>2
        <4> QED
          BY <2>3, <4>1, <4>3
      <3> QED
        BY <3>1, <3>2
    <2>9. Flattens(f, s, A, j)
      BY <2>7, <2>8 DEF Flattens
    <2> QED
      BY <1>2, <2>9
  <1> QED
    BY <1>4, <1>5

\* Flatten computes what its function says.
LEMMA FlattenIs ==
    ASSUME NEW A, NEW s \in Seq(Seq(A)), Len(s) # 0
    PROVE  Flattens(FlattenOf(s), s, A, Len(s)) /\ FlattenSeq(s) = FlattenOf(s)[Len(s)]
  <1>0. PICK n \in Nat : n = Len(s) /\ n \in 1 .. Len(s)
    OBVIOUS
  <1>1. PICK f : Flattens(f, s, A, n)
    BY <1>0, FlattenExists
  <1>2. f = [i \in 1 .. Len(s) |-> IF i = 1 THEN s[i] ELSE f[i - 1] \o s[i]]
    BY <1>0, <1>1 DEF Flattens
  <1>3. \E g : g = [i \in 1 .. Len(s) |-> IF i = 1 THEN s[i] ELSE g[i - 1] \o s[i]]
    BY <1>2, Zenon
  <1>4. FlattenOf(s) = [i \in 1 .. Len(s) |-> IF i = 1 THEN s[i] ELSE FlattenOf(s)[i - 1] \o s[i]]
    BY <1>3, Zenon DEF FlattenOf
  <1>5. PICK h : h = FlattenOf(s)
    OBVIOUS
  <1>6. DOMAIN h = 1 .. n /\ \A i \in 1 .. n : h[i] = IF i = 1 THEN s[i] ELSE h[i - 1] \o s[i]
    BY <1>0, <1>4, <1>5
  <1>7. \A i \in 1 .. n : h[i] \in Seq(A)
    <2> DEFINE Bad == {i \in 1 .. n : h[i] \notin Seq(A)}
    <2> SUFFICES ASSUME Bad # {} PROVE FALSE
      OBVIOUS
    <2>1. PICK j \in Bad : \A l \in Bad : j <= l
      <3>1. Bad \subseteq Nat
        OBVIOUS
      <3> QED
        BY <3>1, SmallestNat
    <2>2. j \in 1 .. n /\ h[j] \notin Seq(A)
      OBVIOUS
    <2>3. s[j] \in Seq(A)
      BY <1>0, <2>2, ElementOfSeq
    <2>4. j # 1
      BY <1>6, <2>2, <2>3
    <2>5. j - 1 \in 1 .. n /\ j - 1 \notin Bad
      BY <2>1, <2>2, <2>4
    <2>6. h[j - 1] \in Seq(A)
      BY <2>5
    <2>7. h[j] = h[j - 1] \o s[j]
      BY <1>6, <2>2, <2>4
    <2>8. h[j - 1] \o s[j] \in Seq(A)
      BY <2>3, <2>6, ConcatProperties
    <2> QED
      BY <2>2, <2>7, <2>8
  <1>8. h \in [1 .. n -> Seq(A)]
    <2>1. h = [i \in 1 .. n |-> h[i]]
      BY <1>0, <1>4, <1>5
    <2> QED
      BY <1>7, <2>1
  <1>9. FlattenSeq(s) = FlattenOf(s)[Len(s)]
    BY DEF FlattenSeq, FlattenOf
  <1> QED
    BY <1>0, <1>5, <1>6, <1>8, <1>9 DEF Flattens

Char == STRING \cup {"newline", ":"}
Message == [role : STRING, content : Seq(STRING)]
Newline == <<"newline">>

\* The pieces the router and the engine put together.
RouterPart(p, i) == IF i > 1 THEN Newline \o Line(p[i]) ELSE Line(p[i])
EnginePart(p, i) == IF i < Len(p) THEN Line(p[i]) \o Newline ELSE Line(p[i])
RouterParts(p) == [i \in DOMAIN p |-> RouterPart(p, i)]
EngineParts(p) == [i \in DOMAIN p |-> EnginePart(p, i)]

Regroup(s, t, u) == (s \o t) \o u = s \o (t \o u)

\* Concatenation is associative.
LEMMA Regroups ==
    ASSUME NEW A, NEW s \in Seq(A), NEW t \in Seq(A), NEW u \in Seq(A)
    PROVE  Regroup(s, t, u)
  BY ConcatAssociative DEF Regroup

\* The separators are texts.
LEMMA ShortSeqs ==
    ASSUME NEW A, NEW c \in A, NEW d \in A
    PROVE  <<c>> \in Seq(A) /\ <<c, d>> \in Seq(A)
  OBVIOUS

\* The pieces of a prompt, as router and engine join them, are texts.
LEMMA PartsAre ==
    ASSUME NEW p \in Seq(Message)
    PROVE  /\ Newline \in Seq(Char)
           /\ \A i \in 1 .. Len(p) : Line(p[i]) \in Seq(Char)
           /\ RouterParts(p) \in Seq(Seq(Char)) /\ Len(RouterParts(p)) = Len(p)
           /\ EngineParts(p) \in Seq(Seq(Char)) /\ Len(EngineParts(p)) = Len(p)
           /\ canonical_prompt(p) = FlattenSeq(RouterParts(p))
           /\ mock_canonical_prompt(p) = FlattenSeq(EngineParts(p))
  <1>1. Newline \in Seq(Char)
    <2>1. "newline" \in Char
      BY DEF Char
    <2> QED
      BY <2>1, ShortSeqs DEF Newline
  <1>2. ASSUME NEW i \in 1 .. Len(p) PROVE Line(p[i]) \in Seq(Char)
    <2>1. p[i] \in Message
      BY ElementOfSeq
    <2>2. p[i].role \in Char /\ p[i].content \in Seq(Char)
      <3>1. p[i].role \in STRING /\ p[i].content \in Seq(STRING)
        BY <2>1 DEF Message
      <3>2. STRING \subseteq Char
        BY DEF Char
      <3> QED
        BY <3>1, <3>2, SeqMonotonic
    <2>3. <<p[i].role, ":">> \in Seq(Char)
      <3>1. ":" \in Char
        BY DEF Char
      <3> QED
        BY <2>2, <3>1, ShortSeqs
    <2> QED
      BY <2>2, <2>3, ConcatProperties DEF Line
  <1>3. DOMAIN p = 1 .. Len(p) /\ Len(p) \in Nat
    OBVIOUS
  <1>4. ASSUME NEW i \in 1 .. Len(p)
        PROVE  RouterPart(p, i) \in Seq(Char) /\ EnginePart(p, i) \in Seq(Char)
    <2>1. Newline \o Line(p[i]) \in Seq(Char) /\ Line(p[i]) \o Newline \in Seq(Char)
      BY <1>1, <1>2, ConcatProperties
    <2> QED
      BY <1>2, <2>1 DEF RouterPart, EnginePart
  <1>5. PICK n \in Nat : n = Len(p)
    BY <1>3
  <1>6. RouterParts(p) \in [1 .. n -> Seq(Char)] /\ EngineParts(p) \in [1 .. n -> Seq(Char)]
    BY <1>3, <1>4, <1>5 DEF RouterParts, EngineParts
  <1>7. /\ RouterParts(p) \in Seq(Seq(Char)) /\ Len(RouterParts(p)) = n
        /\ EngineParts(p) \in Seq(Seq(Char)) /\ Len(EngineParts(p)) = n
    <2>1. \A B, f : f \in [1 .. n -> B] => f \in Seq(B) /\ Len(f) = n
      OBVIOUS
    <2> QED
      BY <1>6, <2>1
  <1>8. canonical_prompt(p) = FlattenSeq(RouterParts(p))
    BY DEF canonical_prompt, RouterParts, RouterPart, Newline
  <1>9. mock_canonical_prompt(p) = FlattenSeq(EngineParts(p))
    BY DEF mock_canonical_prompt, EngineParts, EnginePart, Newline
  <1> QED
    BY <1>1, <1>2, <1>5, <1>7, <1>8, <1>9

\* A canonical prompt is a text.
LEMMA TextType ==
    ASSUME NEW p \in Seq(Message)
    PROVE  canonical_prompt(p) \in Seq(Char)
  <1>1. PICK s \in Seq(Seq(Char)) : s = RouterParts(p) /\ canonical_prompt(p) = FlattenSeq(s)
    BY PartsAre
  <1>2. CASE Len(s) = 0
    <2>1. s = <<>> /\ FlattenSeq(s) = s
      BY <1>2 DEF FlattenSeq
    <2>2. <<>> \in Seq(Char)
      BY EmptySeq
    <2> QED
      BY <1>1, <2>1, <2>2
  <1>3. CASE Len(s) # 0
    <2>1. Flattens(FlattenOf(s), s, Char, Len(s)) /\ FlattenSeq(s) = FlattenOf(s)[Len(s)]
      BY <1>3, FlattenIs
    <2>2. Len(s) \in 1 .. Len(s)
      BY <1>3
    <2> QED
      BY <1>1, <2>1, <2>2 DEF Flattens
  <1> QED
    BY <1>2, <1>3

\* The router puts a newline before every line but the first, the engine after every
\* line but the last: they hash the same text (mock_vllm.py's canonical_prompt
\* mirrors request.rs's), for every list of messages, none and empty ones included.
THEOREM SameText ==
    ASSUME NEW p \in Seq(Message)
    PROVE  mock_canonical_prompt(p) = canonical_prompt(p)
  <1>1. PICK s \in Seq(Seq(Char)), t \in Seq(Seq(Char)) :
            /\ s = RouterParts(p) /\ t = EngineParts(p) /\ Len(s) = Len(p) /\ Len(t) = Len(p)
    BY PartsAre
  <1>2. canonical_prompt(p) = FlattenSeq(s) /\ mock_canonical_prompt(p) = FlattenSeq(t)
    BY <1>1, PartsAre
  <1>3. CASE Len(p) = 0
    <2>1. s = <<>> /\ t = <<>>
      BY <1>1, <1>3
    <2> QED
      BY <1>2, <2>1
  <1>4. CASE Len(p) # 0
    <2>1. PICK n \in Nat : n = Len(p) /\ n > 0
      BY <1>4
    <2>2. PICK f, g : /\ f = FlattenOf(s) /\ g = FlattenOf(t)
                      /\ Flattens(f, s, Char, n) /\ FlattenSeq(s) = f[n]
                      /\ Flattens(g, t, Char, n) /\ FlattenSeq(t) = g[n]
      BY <1>1, <1>4, <2>1, FlattenIs
    <2>3. PICK nl \in Seq(Char) : nl = Newline
      BY PartsAre
    <2>4. \A i \in 1 .. n : /\ Line(p[i]) \in Seq(Char)
                            /\ s[i] = IF i > 1 THEN nl \o Line(p[i]) ELSE Line(p[i])
                            /\ t[i] = IF i < n THEN Line(p[i]) \o nl ELSE Line(p[i])
      <3>1. DOMAIN p = 1 .. n
        BY <2>1
      <3>2. \A i \in 1 .. n : Line(p[i]) \in Seq(Char)
        BY <2>1, PartsAre
      <3> QED
        BY <1>1, <2>1, <2>3, <3>1, <3>2 DEF RouterParts, EngineParts, RouterPart, EnginePart
    <2>5. \A i \in 1 .. n : f[i] \in Seq(Char) /\ g[i] \in Seq(Char)
      BY <2>2 DEF Flattens
    <2> DEFINE Same(i) == g[i] = IF i < n THEN f[i] \o nl ELSE f[i]
    <2>6. ASSUME NEW i \in 1 .. n, i = 1 PROVE Same(i)
      <3>1. f[1] = s[1] /\ g[1] = t[1] /\ 1 \in 1 .. n
        <4>1. 1 \in 1 .. n
          BY <2>1
        <4> QED
          BY <2>2, <4>1 DEF Flattens
      <3>2. s[1] = Line(p[1]) /\ t[1] = IF 1 < n THEN Line(p[1]) \o nl ELSE Line(p[1])
        BY <2>4, <3>1
      <3> QED
        BY <2>6, <3>1, <3>2
    <2>7. ASSUME NEW i \in 1 .. n, i # 1, Same(i - 1) PROVE Same(i)
      <3>1. i - 1 \in 1 .. n /\ i - 1 < n /\ i > 1
        BY <2>7
      <3>2. PICK x \in Seq(Char), l \in Seq(Char) : x = f[i - 1] /\ l = Line(p[i])
        BY <2>4, <2>5, <3>1
      <3>3. g[i - 1] = x \o nl
        BY <2>7, <3>1, <3>2
      <3>4. f[i] = x \o (nl \o l)
        BY <2>2, <2>4, <2>7, <3>1, <3>2 DEF Flattens
      <3>5. g[i] = (x \o nl) \o (IF i < n THEN l \o nl ELSE l)
        <4>1. g[i] = g[i - 1] \o t[i]
          BY <2>2, <2>7, <3>1 DEF Flattens
        <4>2. t[i] = IF i < n THEN l \o nl ELSE l
          BY <2>4, <2>7, <3>2
        <4> QED
          BY <3>3, <4>1, <4>2
      <3>6. (x \o nl) \o l = x \o (nl \o l)
        <4>1. Regroup(x, nl, l)
          BY Regroups
        <4> QED
          BY <4>1 DEF Regroup
      <3>7. (x \o nl) \o (l \o nl) = (x \o (nl \o l)) \o nl
        <4>1. x \o nl \in Seq(Char)
          BY ConcatProperties
        <4>2. PICK y \in Seq(Char) : y = x \o nl
          BY <4>1
        <4>3. Regroup(y, l, nl)
          BY Regroups
        <4> QED
          BY <3>6, <4>2, <4>3 DEF Regroup
      <3> QED
        BY <3>4, <3>5, <3>6, <3>7
    <2>8. \A i \in 1 .. n : Same(i)
      <3> DEFINE Bad == {i \in 1 .. n : ~Same(i)}
      <3> HIDE DEF Same
      <3> SUFFICES ASSUME Bad # {} PROVE FALSE
        OBVIOUS
      <3>1. PICK j \in Bad : \A l \in Bad : j <= l
        <4>1. Bad \subseteq Nat
          OBVIOUS
        <4> QED
          BY <4>1, SmallestNat
      <3>2. j \in 1 .. n /\ ~Same(j)
        OBVIOUS
      <3>3. j # 1
        BY <2>6, <3>2
      <3>4. j - 1 \in 1 .. n /\ j - 1 \notin Bad
        BY <3>1, <3>2, <3>3
      <3>5. Same(j - 1)
        BY <3>4
      <3> QED
        BY <2>7, <3>2, <3>3, <3>5
    <2>9. Same(n)
      BY <2>1, <2>8
    <2> QED
      BY <1>2, <2>1, <2>2, <2>9
  <1> QED
    BY <1>3, <1>4

(***************************************************************************)
(* Sums of a field                                                         *)
(***************************************************************************)
\* MapThenSumSet over a field of the records of a function.
FieldSum(F, n, S) == CHOOSE it : it = [s \in SUBSET S |->
    IF s = {} THEN 0 ELSE F[CHOOSE x \in s : TRUE][n] + it[s \ {CHOOSE x \in s : TRUE}]]

\* The sum of a field is the total of its values.
LEMMA FieldSumIs ==
    ASSUME NEW S, IsFiniteSet(S), NEW F, NEW n, NEW f, \A w \in S : f[w] = F[w][n]
    PROVE  FieldSum(F, n, S)[S] = Total(f, S)
  <1>1. PICK it : it = [s \in SUBSET S |-> it[s]] /\ Iterates(it, f, SUBSET S)
    BY IterExists
  <1>2. ASSUME NEW s \in SUBSET S
        PROVE  it[s] = IF s = {} THEN 0
                       ELSE F[CHOOSE x \in s : TRUE][n] + it[s \ {CHOOSE x \in s : TRUE}]
    <2>1. s # {} => Pick(s) \in S
      BY PickIs
    <2>2. it[s] = IF s = {} THEN 0 ELSE F[Pick(s)][n] + it[s \ {Pick(s)}]
      BY <1>1, <2>1 DEF Iterates
    <2> QED
      BY <2>2 DEF Pick
  <1>3. it = [s \in SUBSET S |->
                IF s = {} THEN 0 ELSE F[CHOOSE x \in s : TRUE][n] + it[s \ {CHOOSE x \in s : TRUE}]]
    BY <1>1, <1>2
  <1>4. FieldSum(F, n, S) = [s \in SUBSET S |-> IF s = {} THEN 0
            ELSE F[CHOOSE x \in s : TRUE][n] + FieldSum(F, n, S)[s \ {CHOOSE x \in s : TRUE}]]
    BY <1>3, Zenon DEF FieldSum
  <1>5. PICK j : j = FieldSum(F, n, S)
    OBVIOUS
  <1>6. \A s \in SUBSET S : j[s] = IF s = {} THEN 0
            ELSE F[CHOOSE x \in s : TRUE][n] + j[s \ {CHOOSE x \in s : TRUE}]
    BY <1>4, <1>5
  <1>7. ASSUME NEW s \in SUBSET S PROVE j[s] = IF s = {} THEN 0 ELSE f[Pick(s)] + j[s \ {Pick(s)}]
    <2>1. s # {} => Pick(s) \in S
      BY PickIs
    <2>2. j[s] = IF s = {} THEN 0 ELSE F[Pick(s)][n] + j[s \ {Pick(s)}]
      BY <1>6 DEF Pick
    <2> QED
      BY <2>1, <2>2
  <1>8. Iterates(j, f, SUBSET S)
    BY <1>7 DEF Iterates
  <1> QED
    BY <1>5, <1>8, TotalIs

\* The four sums of CountersAgree are sums of a field.
LEMMA SumsAre ==
    ASSUME NEW S, NEW F
    PROVE  /\ MapThenSumSet(LAMBDA w : F[w].hits, S) = FieldSum(F, "hits", S)[S]
           /\ MapThenSumSet(LAMBDA w : F[w].prompts, S) = FieldSum(F, "prompts", S)[S]
           /\ MapThenSumSet(LAMBDA w : F[w].matched, S) = FieldSum(F, "matched", S)[S]
           /\ MapThenSumSet(LAMBDA w : F[w].blocks, S) = FieldSum(F, "blocks", S)[S]
  BY Zenon DEF MapThenSumSet, MapThenFoldSet, FieldSum

(***************************************************************************)
(* The inductive invariant                                                 *)
(***************************************************************************)
Hashes == UNION {Range(Chain[p]) : p \in Prompts}
Held == UNION {Range(EngineHashes[p]) : p \in Prompts}
Stats == [hits : Nat, prompts : Nat]
Rates == {None} \cup {find_metric(text) : text \in Expositions}
Predictions == {None} \cup Stats
Gauges == [engine : Rates, predicted : Predictions, error : {None} \cup (Predictions \X Rates)]
Scraper == [pc : {"next", "answer", "predict", "error"}, left : SUBSET Workers,
            worker : Workers \cup {None}, rate : Rates]
LocalRecord == [pc : {"idle", "record", "send", "body", "prompts", "stats"},
                prompt : Prompts \cup {<<>>}, worker : Workers \cup {None},
                matched : Nat, blocks : Nat, hit : Nat, excused : BOOLEAN, alone : BOOLEAN]

\* A request past its match has a worker, and until it is delivered its prompt; what
\* it was told is at most the whole prompt.
Local ==
    {x \in LocalRecord :
        /\ x.pc # "idle" => x.worker \in Workers
        /\ x.pc \in {"record", "send"} => x.prompt \in Prompts /\ x.blocks = Len(Chain[x.prompt])
        /\ x.matched <= x.blocks}

ReqType == req \in [Requests -> Local]

IndexType ==
    /\ healthy \subseteq Workers
    /\ purging # None => purging \in Workers
    /\ credit \in [Workers -> SUBSET Hashes]
    /\ forgotten \in [Workers -> SUBSET Hashes]
    /\ sent \in [Workers -> SUBSET Prompts]

EngineType == cache \in [Workers -> Seq(Held)]

StatsType ==
    /\ hit_stats \in [Workers -> Stats]
    /\ gauges \in [Workers -> Gauges]
    /\ scraper \in Scraper
    /\ scraper.pc # "next" => scraper.worker \in Workers

TypeOK == ReqType /\ IndexType /\ EngineType /\ StatsType

\* The credit of a worker comes from the prompts it was sent since its last purge,
\* and what it was sent is credited or was forgotten.
Sent(w) == UNION {Range(Chain[p]) : p \in sent[w]}
Known(w) == credit[w] \cup forgotten[w]

CreditInv ==
    \A w \in Workers : credit[w] \subseteq Sent(w) /\ Sent(w) \subseteq Known(w)

\* What is on its way to an engine, or in its cache, was once credited.
KnownInv ==
    /\ \A r \in Requests : req[r].pc = "send" => Range(Chain[req[r].prompt]) \subseteq Known(req[r].worker)
    /\ \A w \in Workers : \A h \in Range(cache[w]) :
         \E p \in Prompts : h \in Range(EngineHashes[p]) /\ Range(Chain[p]) \subseteq Known(w)

\* A request on its way that has no excuse: the block it was told is missing has not
\* been credited before its own record, is not on its way with another request, and
\* neither it nor a later block is in the engine's cache.
Unexcused(r) ==
    /\ req[r].pc \in {"record", "send"} /\ ~req[r].excused
    /\ req[r].matched < Len(Chain[req[r].prompt])

MissedInv ==
    \A r \in Requests :
        /\ Unexcused(r) =>
             LET chain == Chain[req[r].prompt]
                 m == req[r].matched + 1
                 w == req[r].worker
             IN /\ req[r].pc = "record" => chain[m] \notin Known(w)
                /\ \A q \in Requests : q # r /\ req[q].pc = "send" /\ req[q].worker = w
                                       => chain[m] \notin Range(Chain[req[q].prompt])
                /\ \A i \in m .. Len(chain) : EngineHashes[req[r].prompt][i] \notin Range(cache[w])
        /\ req[r].pc = "body" /\ ~req[r].excused => req[r].hit <= req[r].matched

\* While nothing is lost, the credit is what the engine holds and what is on its way.
OnItsWay(w, h) ==
    \E r \in Requests : req[r].pc = "send" /\ req[r].worker = w /\ h \in Range(Chain[req[r].prompt])

ExactInv ==
    \A w \in Workers : exact[w] =>
        \A p \in Prompts : \A i \in 1 .. Len(Chain[p]) :
            /\ Chain[p][i] \in credit[w] <=>
                 EngineHashes[p][i] \in Range(cache[w]) \/ OnItsWay(w, Chain[p][i])
            /\ Chain[p][i] \in credit[w] => \A j \in 1 .. i : Chain[p][j] \in credit[w]

\* A request nobody overtakes is the only one on its way, and was told exactly what
\* the engine holds.
AloneInv ==
    \A r \in Requests :
        /\ req[r].pc \in {"record", "send"} /\ req[r].alone =>
             /\ Travelling(req[r].worker) = {r}
             /\ exact[req[r].worker] =>
                  \A i \in 1 .. Len(Chain[req[r].prompt]) :
                      i <= req[r].matched <=>
                        EngineHashes[req[r].prompt][i] \in Range(cache[req[r].worker])
        /\ req[r].pc = "body" /\ req[r].alone => req[r].hit = req[r].matched

\* The scraper's local rate is the one it has set, an error is there only after
\* traffic, and goes with its rates unless the scraper is between setting them.
GaugeInv ==
    /\ scraper.pc \in {"predict", "error"} => gauges[scraper.worker].engine = scraper.rate
    /\ scraper.pc = "error" => hit_stats[scraper.worker].prompts > 0
    /\ \A w \in Workers : gauges[w].error # None =>
         /\ hit_stats[w].prompts > 0
         /\ scraper.pc \notin {"predict", "error"} \/ scraper.worker # w
            => gauges[w].error = <<gauges[w].predicted, gauges[w].engine>>

\* The counters are the statistics and what the requests in finish have still to add.
Hits == [w \in Workers |-> hit_stats[w].hits]
PromptCounts == [w \in Workers |-> hit_stats[w].prompts]
Matches == [r \in Requests |-> req[r].matched]
BlockCounts == [r \in Requests |-> req[r].blocks]
Counting(pcs) == {r \in Requests : req[r].pc \in pcs}

CountInv ==
    /\ hit_blocks = Total(Hits, Workers) + Total(Matches, Counting({"prompts", "stats"}))
    /\ prompt_blocks = Total(PromptCounts, Workers) + Total(BlockCounts, Counting({"stats"}))
    /\ \A w \in Workers : hit_stats[w].hits <= hit_stats[w].prompts

(***************************************************************************)
(* What the operators of the model return                                  *)
(***************************************************************************)
\* Router and engine hash the same text of a prompt.
LEMMA PromptText ==
    ASSUME NEW p \in Prompts
    PROVE  /\ Text[p] \in Seq(Char) /\ Chain[p] = chain_hash(Text[p])
           /\ EngineHashes[p] = block_prefix_hashes(Text[p])
  <1>1. p \in Seq(Message)
    BY CacheAffinityAssumption DEF Message
  <1>2. Text[p] = canonical_prompt(p)
    BY DEF Text
  <1>3. Text[p] \in Seq(Char)
    BY <1>1, <1>2, TextType
  <1>4. mock_canonical_prompt(p) = Text[p]
    BY <1>1, <1>2, SameText
  <1> QED
    BY <1>3, <1>4 DEF Chain, EngineHashes

\* A prompt has one chain hash per block of its text.
LEMMA ChainDomain ==
    ASSUME NEW p \in Prompts
    PROVE  /\ Len(Chain[p]) \in Nat /\ Len(Chain[p]) = Blocks(Text[p])
           /\ DOMAIN Chain[p] = 1 .. Len(Chain[p])
           /\ \A i \in 1 .. Len(Chain[p]) : Chain[p][i] \in Range(Chain[p])
  <1>1. PICK t \in Seq(Char) : t = Text[p] /\ Chain[p] = chain_hash(t)
    BY PromptText
  <1>2. /\ Blocks(t) \in Nat /\ DOMAIN chain_hash(t) = 1 .. Blocks(t)
        /\ Len(chain_hash(t)) = Blocks(t)
    BY ChainType
  <1> QED
    BY <1>1, <1>2 DEF Range

\* longest_match is the longest credited prefix, and the block after it is not credited.
LEMMA LongestMatch ==
    ASSUME NEW w, NEW p \in Prompts, NEW k, k = longest_match(w, Chain[p])
    PROVE  /\ k \in 0 .. Len(Chain[p])
           /\ \A i \in 1 .. k : Chain[p][i] \in credit[w]
           /\ k < Len(Chain[p]) => Chain[p][k + 1] \notin credit[w]
           /\ \A m \in 0 .. Len(Chain[p]) :
                (\A i \in 1 .. m : Chain[p][i] \in credit[w]) => m <= k
  <1> DEFINE S == {m \in 0 .. Len(Chain[p]) : \A i \in 1 .. m : Chain[p][i] \in credit[w]}
  <1>1. PICK n \in Nat : n = Len(Chain[p])
    BY ChainDomain
  <1>2. S \subseteq 0 .. n /\ 0 \in S
    BY <1>1
  <1>3. Max(S) \in S /\ \A y \in S : Max(S) >= y
    BY <1>2, MaxIsLargest
  <1>4. k \in S /\ \A y \in S : k >= y
    BY <1>3 DEF longest_match
  <1>5. ASSUME k < n, Chain[p][k + 1] \in credit[w] PROVE FALSE
    <2>1. k \in Nat /\ k + 1 \in 0 .. n
      BY <1>1, <1>4, <1>5
    <2>2. \A i \in 1 .. k + 1 : Chain[p][i] \in credit[w]
      <3>1. \A i \in 1 .. k + 1 : i \in 1 .. k \/ i = k + 1
        BY <2>1
      <3> QED
        BY <1>4, <1>5, <3>1
    <2>3. k + 1 \in S
      BY <1>1, <2>1, <2>2
    <2> QED
      BY <1>4, <2>1, <2>3
  <1> QED
    BY <1>1, <1>4, <1>5

(***************************************************************************)
(* The credit of a worker                                                  *)
(***************************************************************************)
\* A prompt's hash is in another's chain iff they share every block up to it.
LEMMA SharedOf ==
    ASSUME NEW p \in Prompts, NEW q \in Prompts
    PROVE  /\ Shared[p][q] \in 0 .. Len(Chain[p])
           /\ \A i \in 1 .. Len(Chain[p]) : i <= Shared[p][q] <=> Chain[p][i] \in Range(Chain[q])
  <1>1. PICK s \in Seq(Char), t \in Seq(Char) :
            s = Text[p] /\ t = Text[q] /\ Chain[p] = chain_hash(s) /\ Chain[q] = chain_hash(t)
    BY PromptText
  <1>2. Shared[p][q] = SharedBlocks(s, t)
    BY <1>1 DEF Shared
  <1>3. Len(Chain[p]) = Blocks(s)
    BY <1>1, ChainDomain
  <1>4. /\ SharedBlocks(s, t) \in 0 .. Blocks(s)
        /\ \A i \in 1 .. Blocks(s) : i <= SharedBlocks(s, t) <=> chain_hash(s)[i] \in Range(chain_hash(t))
    BY SharedIs
  <1> QED
    BY <1>1, <1>2, <1>3, <1>4

\* The credit invariant implies the property.
LEMMA CreditShared == IndexType /\ CreditInv => CreditIsSharedPrefix
  <1> SUFFICES ASSUME IndexType, CreditInv, NEW w \in Workers, NEW p \in Prompts,
                      NEW m, m = Max({0} \cup {Shared[p][q] : q \in sent[w]})
               PROVE  /\ longest_match(w, Chain[p]) <= m
                      /\ (\A q \in sent[w] : Range(Chain[q]) \cap forgotten[w] = {})
                         => longest_match(w, Chain[p]) = m
    BY DEF CreditIsSharedPrefix
  <1> DEFINE S == {0} \cup {Shared[p][q] : q \in sent[w]}
  <1>0. PICK n \in Nat : n = Len(Chain[p])
    BY ChainDomain
  <1>1. sent[w] \subseteq Prompts
    BY DEF IndexType
  <1>2. \A q \in sent[w] : /\ Shared[p][q] \in 0 .. n
                           /\ \A i \in 1 .. n : i <= Shared[p][q] <=> Chain[p][i] \in Range(Chain[q])
    BY <1>0, <1>1, SharedOf
  <1>3. S \subseteq 0 .. n /\ S # {}
    BY <1>2
  <1>4. m \in S /\ \A y \in S : m >= y
    BY <1>3, MaxIsLargest
  <1>5. PICK k : k = longest_match(w, Chain[p])
    OBVIOUS
  <1>6. /\ k \in 0 .. n
        /\ \A i \in 1 .. k : Chain[p][i] \in credit[w]
        /\ \A j \in 0 .. n : (\A i \in 1 .. j : Chain[p][i] \in credit[w]) => j <= k
    BY <1>0, <1>5, LongestMatch
  <1>7. credit[w] \subseteq Sent(w) /\ Sent(w) \subseteq Known(w)
    BY DEF CreditInv
  <1>8. k <= m
    <2>1. CASE k = 0
      BY <1>3, <1>4, <2>1
    <2>2. CASE k # 0
      <3>1. k \in 1 .. k /\ k \in 1 .. n
        BY <1>6, <2>2
      <3>2. PICK q \in sent[w] : Chain[p][k] \in Range(Chain[q])
        BY <1>6, <1>7, <3>1 DEF Sent
      <3>3. k <= Shared[p][q] /\ Shared[p][q] \in S
        BY <1>2, <3>1, <3>2
      <3>4. m >= Shared[p][q] /\ m \in Nat /\ Shared[p][q] \in Nat
        BY <1>2, <1>3, <1>4, <3>2, <3>3
      <3> QED
        BY <1>6, <3>3, <3>4
    <2> QED
      BY <2>1, <2>2
  <1>9. ASSUME \A q \in sent[w] : Range(Chain[q]) \cap forgotten[w] = {} PROVE m <= k
    <2>1. CASE m = 0
      BY <1>6, <2>1
    <2>2. CASE m # 0
      <3>1. PICK q \in sent[w] : m = Shared[p][q]
        BY <1>4, <2>2
      <3>2. Range(Chain[q]) \subseteq credit[w]
        BY <1>7, <1>9, <3>1 DEF Sent, Known
      <3>3. m \in 0 .. n
        BY <1>3, <1>4
      <3>4. \A i \in 1 .. m : i \in 1 .. n /\ i <= m
        BY <3>3
      <3>5. \A i \in 1 .. m : Chain[p][i] \in credit[w]
        BY <1>2, <3>1, <3>2, <3>4
      <3> QED
        BY <1>6, <3>3, <3>5
    <2> QED
      BY <2>1, <2>2
  <1>10. k \in Nat /\ m \in Nat
    BY <1>3, <1>4, <1>6
  <1> QED
    BY <1>5, <1>8, <1>9, <1>10

(***************************************************************************)
(* Type correctness                                                        *)
(***************************************************************************)
\* An idle request is well typed.
LEMMA IdleLocal == Idle \in Local
  <1>1. Idle \in LocalRecord
    BY DEF Idle, LocalRecord
  <1>2. Idle.pc = "idle" /\ Idle.matched <= Idle.blocks
    BY DEF Idle
  <1> QED
    BY <1>1, <1>2 DEF Local

\* So is one that was just matched,
LEMMA NewLocal ==
    ASSUME NEW p \in Prompts, NEW w \in Workers, NEW k \in 0 .. Len(Chain[p]),
           NEW e \in BOOLEAN, NEW a \in BOOLEAN
    PROVE  [pc |-> "record", prompt |-> p, worker |-> w, matched |-> k,
            blocks |-> Len(Chain[p]), hit |-> 0, excused |-> e, alone |-> a] \in Local
  <1>1. PICK n \in Nat : n = Len(Chain[p])
    BY ChainDomain
  <1>2. PICK z \in Nat : z = 0
    OBVIOUS
  <1>3. k \in Nat /\ k <= n
    BY <1>1
  <1>4. PICK x : x = [pc |-> "record", prompt |-> p, worker |-> w, matched |-> k,
                      blocks |-> n, hit |-> z, excused |-> e, alone |-> a]
    OBVIOUS
  <1>5. x \in LocalRecord
    BY <1>3, <1>4 DEF LocalRecord
  <1>6. /\ x.pc = "record" /\ x.worker = w /\ x.prompt = p /\ x.blocks = n /\ x.matched = k
    BY <1>4
  <1>7. x \in Local
    BY <1>1, <1>3, <1>5, <1>6 DEF Local
  <1> QED
    BY <1>1, <1>2, <1>4, <1>7

\* and one that takes any of its steps.
LEMMA LocalMoves ==
    ASSUME NEW x \in Local
    PROVE  /\ [x EXCEPT !.alone = FALSE] \in Local
           /\ [x EXCEPT !.excused = TRUE] \in Local
           /\ x.pc = "record" => [x EXCEPT !.pc = "send"] \in Local
           /\ x.pc = "prompts" => [x EXCEPT !.pc = "stats"] \in Local
           /\ x.pc = "body" => [Idle EXCEPT !.pc = "prompts", !.worker = x.worker,
                                            !.matched = x.matched, !.blocks = x.blocks] \in Local
           /\ x.pc = "send" => \A n \in Nat, a \in BOOLEAN :
                [x EXCEPT !.pc = "body", !.hit = n, !.prompt = <<>>, !.alone = a] \in Local
  <1>0. /\ x \in LocalRecord
        /\ x.pc # "idle" => x.worker \in Workers
        /\ x.pc \in {"record", "send"} => x.prompt \in Prompts /\ x.blocks = Len(Chain[x.prompt])
        /\ x.matched <= x.blocks
    BY DEF Local
  <1>1. [x EXCEPT !.alone = FALSE] \in Local
    <2>1. PICK y : y = [x EXCEPT !.alone = FALSE]
      OBVIOUS
    <2>2. /\ y \in LocalRecord /\ y.pc = x.pc /\ y.worker = x.worker /\ y.prompt = x.prompt
          /\ y.blocks = x.blocks /\ y.matched = x.matched
      BY <1>0, <2>1 DEF LocalRecord
    <2> QED
      BY <1>0, <2>1, <2>2 DEF Local
  <1>2. [x EXCEPT !.excused = TRUE] \in Local
    <2>1. PICK y : y = [x EXCEPT !.excused = TRUE]
      OBVIOUS
    <2>2. /\ y \in LocalRecord /\ y.pc = x.pc /\ y.worker = x.worker /\ y.prompt = x.prompt
          /\ y.blocks = x.blocks /\ y.matched = x.matched
      BY <1>0, <2>1 DEF LocalRecord
    <2> QED
      BY <1>0, <2>1, <2>2 DEF Local
  <1>3. ASSUME x.pc = "record" PROVE [x EXCEPT !.pc = "send"] \in Local
    <2>1. PICK y : y = [x EXCEPT !.pc = "send"]
      OBVIOUS
    <2>2. /\ y \in LocalRecord /\ y.worker = x.worker /\ y.prompt = x.prompt
          /\ y.blocks = x.blocks /\ y.matched = x.matched
      BY <1>0, <2>1 DEF LocalRecord
    <2> QED
      BY <1>0, <1>3, <2>1, <2>2 DEF Local
  <1>4. ASSUME x.pc = "prompts" PROVE [x EXCEPT !.pc = "stats"] \in Local
    <2>1. PICK y : y = [x EXCEPT !.pc = "stats"]
      OBVIOUS
    <2>2. /\ y \in LocalRecord /\ y.worker = x.worker /\ y.pc = "stats"
          /\ y.blocks = x.blocks /\ y.matched = x.matched
      BY <1>0, <2>1 DEF LocalRecord
    <2> QED
      BY <1>0, <1>4, <2>1, <2>2 DEF Local
  <1>5. ASSUME x.pc = "body"
        PROVE  [Idle EXCEPT !.pc = "prompts", !.worker = x.worker,
                            !.matched = x.matched, !.blocks = x.blocks] \in Local
    <2>1. PICK y : y = [Idle EXCEPT !.pc = "prompts", !.worker = x.worker,
                                    !.matched = x.matched, !.blocks = x.blocks]
      OBVIOUS
    <2>2. Idle \in LocalRecord
      BY IdleLocal DEF Local
    <2>3. /\ y \in LocalRecord /\ y.worker = x.worker /\ y.pc = "prompts"
          /\ y.blocks = x.blocks /\ y.matched = x.matched
      BY <1>0, <2>1, <2>2 DEF LocalRecord
    <2> QED
      BY <1>0, <1>5, <2>1, <2>3 DEF Local
  <1>6. ASSUME x.pc = "send", NEW n \in Nat, NEW a \in BOOLEAN
        PROVE  [x EXCEPT !.pc = "body", !.hit = n, !.prompt = <<>>, !.alone = a] \in Local
    <2>1. PICK y : y = [x EXCEPT !.pc = "body", !.hit = n, !.prompt = <<>>, !.alone = a]
      OBVIOUS
    <2>2. /\ y \in LocalRecord /\ y.worker = x.worker /\ y.pc = "body"
          /\ y.blocks = x.blocks /\ y.matched = x.matched
      BY <1>0, <2>1 DEF LocalRecord
    <2> QED
      BY <1>0, <1>6, <2>1, <2>2 DEF Local
  <1> QED
    BY <1>1, <1>2, <1>3, <1>4, <1>5, <1>6

\* What the steps of a request leave of the locals.
Like(x, y) ==
    /\ x.pc = y.pc /\ x.prompt = y.prompt /\ x.worker = y.worker
    /\ x.matched = y.matched /\ x.hit = y.hit
Others(r) == \A q \in Requests \ {r} : req'[q] = req[q]

MatchOutcome(r, p, w) ==
    /\ req'[r].pc = "record" /\ req'[r].prompt = p /\ req'[r].worker = w
    /\ req'[r].matched = longest_match(w, Chain[p])
    /\ req'[r].excused <=> /\ req'[r].matched < Len(Chain[p])
                           /\ Chain[p][req'[r].matched + 1] \in forgotten[w]
    /\ req'[r].alone <=> Travelling(w) = {}
    /\ \A q \in Requests \ {r} :
         /\ Like(req'[q], req[q]) /\ (req'[q].excused <=> req[q].excused)
         /\ req'[q].alone => req[q].alone /\ q \notin Travelling(w)

\* What the type of a request's locals says of its fields.
LEMMA LocalRead ==
    ASSUME NEW x \in Local
    PROVE  /\ x.pc \in {"idle", "record", "send", "body", "prompts", "stats"}
           /\ x.pc # "idle" => x.worker \in Workers
           /\ x.pc \in {"record", "send"} => x.prompt \in Prompts /\ x.blocks = Len(Chain[x.prompt])
           /\ x.matched <= x.blocks /\ x.matched \in Nat /\ x.blocks \in Nat /\ x.hit \in Nat
           /\ x.alone \in BOOLEAN /\ x.excused \in BOOLEAN
  BY DEF Local, LocalRecord

\* Match's effect on a request it overtakes,
LEMMA AloneDropped ==
    ASSUME NEW x \in Local, NEW y, y = [x EXCEPT !.alone = FALSE]
    PROVE  y \in Local /\ Like(y, x) /\ (y.excused <=> x.excused) /\ ~y.alone
  <1>1. y \in Local
    BY LocalMoves
  <1>2. x \in LocalRecord
    BY DEF Local
  <1>3. /\ y.pc = x.pc /\ y.prompt = x.prompt /\ y.worker = x.worker
        /\ y.matched = x.matched /\ y.hit = x.hit /\ y.excused = x.excused /\ y.alone = FALSE
    BY <1>2 DEF LocalRecord
  <1> QED
    BY <1>1, <1>3 DEF Like

\* and on the one it matches.
LEMMA MatchStep ==
    ASSUME ReqType, IndexType, NEW r \in Requests, Match(r)
    PROVE  /\ ReqType' /\ req[r].pc = "idle"
           /\ \E p \in Prompts, w \in Workers : MatchOutcome(r, p, w)
  <1>1. PICK p \in Prompts, w \in healthy :
            req' = [q \in Requests |->
                IF q = r
                THEN [pc |-> "record", prompt |-> p, worker |-> w,
                      matched |-> longest_match(w, Chain[p]),
                      blocks |-> Len(Chain[p]), hit |-> 0,
                      excused |-> longest_match(w, Chain[p]) < Len(Chain[p])
                                  /\ Chain[p][longest_match(w, Chain[p]) + 1] \in forgotten[w],
                      alone |-> Travelling(w) = {}]
                ELSE IF q \in Travelling(w) THEN [req[q] EXCEPT !.alone = FALSE] ELSE req[q]]
    BY DEF Match
  <1>2. PICK k \in 0 .. Len(Chain[p]) : k = longest_match(w, Chain[p])
    BY LongestMatch
  <1>3. PICK e \in BOOLEAN, a \in BOOLEAN :
            /\ e = (k < Len(Chain[p]) /\ Chain[p][k + 1] \in forgotten[w])
            /\ a = (Travelling(w) = {})
    OBVIOUS
  <1>4. w \in Workers
    BY DEF IndexType
  <1>5. PICK x : x = [pc |-> "record", prompt |-> p, worker |-> w, matched |-> k,
                      blocks |-> Len(Chain[p]), hit |-> 0, excused |-> e, alone |-> a]
    OBVIOUS
  <1>6. x \in Local
    BY <1>4, <1>5, NewLocal
  <1>7. req' = [q \in Requests |->
            IF q = r THEN x
            ELSE IF q \in Travelling(w) THEN [req[q] EXCEPT !.alone = FALSE] ELSE req[q]]
    BY <1>1, <1>2, <1>3, <1>5
  <1>8. \A q \in Requests : req[q] \in Local
    BY DEF ReqType
  <1>9. ASSUME NEW q \in Requests \ {r}
        PROVE  /\ req'[q] \in Local
               /\ Like(req'[q], req[q]) /\ (req'[q].excused <=> req[q].excused)
               /\ req'[q].alone => req[q].alone /\ q \notin Travelling(w)
    <2>1. CASE q \in Travelling(w)
      <3>1. req'[q] = [req[q] EXCEPT !.alone = FALSE]
        BY <1>7, <2>1
      <3>2. req[q] \in Local
        BY <1>8
      <3>3. /\ req'[q] \in Local /\ Like(req'[q], req[q])
            /\ (req'[q].excused <=> req[q].excused) /\ ~req'[q].alone
        BY <3>1, <3>2, AloneDropped
      <3> QED
        BY <3>3
    <2>2. CASE q \notin Travelling(w)
      <3>1. req'[q] = req[q]
        BY <1>7, <2>2
      <3> QED
        BY <1>8, <2>2, <3>1 DEF Like
    <2> QED
      BY <2>1, <2>2
  <1>10. req'[r] = x
    BY <1>7
  <1>11. ReqType'
    <2>1. req' = [q \in Requests |-> req'[q]]
      BY <1>7
    <2>2. \A q \in Requests : req'[q] \in Local
      BY <1>6, <1>9, <1>10
    <2> QED
      BY <2>1, <2>2 DEF ReqType
  <1>12. x.pc = "record" /\ x.prompt = p /\ x.worker = w /\ x.matched = k /\ x.excused = e /\ x.alone = a
    BY <1>5
  <1>13. MatchOutcome(r, p, w)
    BY <1>2, <1>3, <1>9, <1>10, <1>12 DEF MatchOutcome
  <1>14. req[r].pc = "idle"
    BY DEF Match
  <1> QED
    BY <1>4, <1>11, <1>13, <1>14

RecordOutcome(r) ==
    LET w == req[r].worker
        chain == Chain[req[r].prompt]
    IN /\ req'[r].pc = "send" /\ req'[r].prompt = req[r].prompt /\ req'[r].worker = w
       /\ req'[r].matched = req[r].matched
       /\ (req'[r].excused <=> req[r].excused) /\ (req'[r].alone <=> req[r].alone)
       /\ \A q \in Requests \ {r} :
            /\ Like(req'[q], req[q]) /\ (req'[q].alone <=> req[q].alone)
            /\ req[q].excused => req'[q].excused
            /\ /\ q \in Travelling(w)
               /\ req[q].matched + 1 \in DOMAIN Chain[req[q].prompt]
               /\ Chain[req[q].prompt][req[q].matched + 1] \in Range(chain)
               => req'[q].excused

\* Record's effect on a request it overtakes,
LEMMA ExcuseGiven ==
    ASSUME NEW x \in Local, NEW y, y = [x EXCEPT !.excused = TRUE]
    PROVE  y \in Local /\ Like(y, x) /\ (y.alone <=> x.alone) /\ y.excused
  <1>1. y \in Local
    BY LocalMoves
  <1>2. x \in LocalRecord
    BY DEF Local
  <1>3. /\ y.pc = x.pc /\ y.prompt = x.prompt /\ y.worker = x.worker
        /\ y.matched = x.matched /\ y.hit = x.hit /\ y.alone = x.alone /\ y.excused = TRUE
    BY <1>2 DEF LocalRecord
  <1> QED
    BY <1>1, <1>3 DEF Like

\* and on the one it records.
LEMMA RecordStep ==
    ASSUME ReqType, NEW r \in Requests, Record(r)
    PROVE  ReqType' /\ req[r].pc = "record" /\ RecordOutcome(r)
  <1> DEFINE w == req[r].worker
             chain == Chain[req[r].prompt]
             Met(q) == /\ q \in Travelling(w)
                       /\ req[q].matched + 1 \in DOMAIN Chain[req[q].prompt]
                       /\ Chain[req[q].prompt][req[q].matched + 1] \in Range(chain)
  <1>1. /\ req[r].pc = "record"
        /\ req' = [q \in Requests |->
                IF q = r THEN [req[q] EXCEPT !.pc = "send"]
                ELSE IF Met(q) THEN [req[q] EXCEPT !.excused = TRUE] ELSE req[q]]
    BY DEF Record
  <1> HIDE DEF Met
  <1>2. \A q \in Requests : req[q] \in Local
    BY DEF ReqType
  <1>3. PICK x, y : x = req[r] /\ y = req'[r]
    OBVIOUS
  <1>4. x \in Local /\ x \in LocalRecord /\ x.pc = "record" /\ y = [x EXCEPT !.pc = "send"]
    BY <1>1, <1>2, <1>3 DEF Local
  <1>5. y \in Local
    BY <1>4, LocalMoves
  <1>6. /\ y.pc = "send" /\ y.prompt = x.prompt /\ y.worker = x.worker
        /\ y.matched = x.matched /\ y.excused = x.excused /\ y.alone = x.alone
    BY <1>4 DEF LocalRecord
  <1>7. ASSUME NEW q \in Requests \ {r}
        PROVE  /\ req'[q] \in Local
               /\ Like(req'[q], req[q]) /\ (req'[q].alone <=> req[q].alone)
               /\ req[q].excused => req'[q].excused
               /\ Met(q) => req'[q].excused
    <2>1. CASE Met(q)
      <3>1. req'[q] = [req[q] EXCEPT !.excused = TRUE] /\ req[q] \in Local
        BY <1>1, <1>2, <2>1
      <3>2. req'[q] \in Local /\ Like(req'[q], req[q]) /\ (req'[q].alone <=> req[q].alone) /\ req'[q].excused
        BY <3>1, ExcuseGiven
      <3> QED
        BY <3>2
    <2>2. CASE ~Met(q)
      <3>1. req'[q] = req[q]
        BY <1>1, <2>2
      <3> QED
        BY <1>2, <2>2, <3>1 DEF Like
    <2> QED
      BY <2>1, <2>2
  <1>8. ReqType'
    <2>1. req' = [q \in Requests |-> req'[q]]
      BY <1>1
    <2>2. \A q \in Requests : req'[q] \in Local
      BY <1>3, <1>5, <1>7
    <2> QED
      BY <2>1, <2>2 DEF ReqType
  <1>9. RecordOutcome(r)
    BY <1>3, <1>6, <1>7 DEF RecordOutcome, Met
  <1> QED
    BY <1>1, <1>8, <1>9

\* The engine has one digest per block of its size, of the prefix up to its end.
LEMMA EngineDomain ==
    ASSUME NEW p \in Prompts
    PROVE  /\ Len(EngineHashes[p]) \in Nat
           /\ Len(EngineHashes[p]) = Ceil(Len(Text[p]), PrefixBlockChars)
           /\ DOMAIN EngineHashes[p] = 1 .. Len(EngineHashes[p])
           /\ EngineHashes[p] \in Seq(Range(EngineHashes[p]))
           /\ \A i \in 1 .. Len(EngineHashes[p]) :
                EngineHashes[p][i] = SubSeq(Text[p], 1, Smaller(i * PrefixBlockChars, Len(Text[p])))
  <1>1. PICK t \in Seq(Char) : t = Text[p] /\ EngineHashes[p] = block_prefix_hashes(t)
    BY PromptText
  <1>2. PICK n \in Nat : n = Ceil(Len(t), PrefixBlockChars)
    BY CeilIs, PromptAssumption
  <1>3. EngineHashes[p] = [i \in 1 .. n |-> SubSeq(t, 1, Smaller(i * PrefixBlockChars, Len(t)))]
    BY <1>1, <1>2 DEF block_prefix_hashes
  <1>4. PICK e : e = EngineHashes[p]
    OBVIOUS
  <1>5. DOMAIN e = 1 .. n /\ e \in [1 .. n -> Range(e)]
    BY <1>3, <1>4 DEF Range
  <1>6. Len(e) = n /\ e \in Seq(Range(e))
    <2>1. \A B, f : f \in [1 .. n -> B] => f \in Seq(B) /\ Len(f) = n
      OBVIOUS
    <2> QED
      BY <1>5, <2>1
  <1> QED
    BY <1>1, <1>2, <1>3, <1>4, <1>5, <1>6

\* The engine's match is its last cached block.
LEMMA MatchedIs ==
    ASSUME NEW p \in Prompts, NEW held, NEW m, m = Matched(held, EngineHashes[p])
    PROVE  /\ m \in 0 .. Len(EngineHashes[p])
           /\ m # 0 => EngineHashes[p][m] \in Range(held)
           /\ \A i \in 1 .. Len(EngineHashes[p]) : EngineHashes[p][i] \in Range(held) => i <= m
  <1>1. PICK n \in Nat : n = Len(EngineHashes[p]) /\ DOMAIN EngineHashes[p] = 1 .. n
    BY EngineDomain
  <1> DEFINE S == {0} \cup {i \in DOMAIN EngineHashes[p] : EngineHashes[p][i] \in Range(held)}
  <1>2. S \subseteq 0 .. n /\ S # {}
    BY <1>1
  <1>3. m \in S /\ \A y \in S : m >= y
    BY <1>2, MaxIsLargest DEF Matched
  <1>4. ASSUME NEW i \in 1 .. n, EngineHashes[p][i] \in Range(held) PROVE i <= m
    <2>1. i \in S
      BY <1>1, <1>4
    <2>2. m >= i /\ m \in Nat
      BY <1>2, <1>3, <2>1
    <2> QED
      BY <2>2
  <1> QED
    BY <1>1, <1>2, <1>3, <1>4

DeliverOutcome(r) ==
    /\ req'[r].pc = "body" /\ req'[r].matched = req[r].matched
    /\ req'[r].hit = Matched(cache[req[r].worker], EngineHashes[req[r].prompt])
    /\ req'[r].excused <=> req[r].excused
    /\ req'[r].alone <=> req[r].alone /\ exact[req[r].worker]
    /\ Others(r)

\* Deliver's effect on the requests.
LEMMA DeliverStep ==
    ASSUME ReqType, NEW r \in Requests, Deliver(r)
    PROVE  ReqType' /\ req[r].pc = "send" /\ DeliverOutcome(r)
  <1>1. /\ req[r].pc = "send"
        /\ req' = [req EXCEPT ![r].pc = "body",
                              ![r].hit = Matched(cache[req[r].worker], EngineHashes[req[r].prompt]),
                              ![r].prompt = <<>>, ![r].alone = @ /\ exact[req[r].worker]]
    BY DEF Deliver
  <1>2. PICK x, y : x = req[r] /\ y = req'[r]
    OBVIOUS
  <1>3. PICK m : m = Matched(cache[x.worker], EngineHashes[x.prompt])
    OBVIOUS
  <1>4. PICK a \in BOOLEAN : a = (x.alone /\ exact[x.worker])
    OBVIOUS
  <1>5. x \in Local /\ x \in LocalRecord /\ x.pc = "send" /\ x.prompt \in Prompts
    BY <1>1, <1>2 DEF ReqType, Local
  <1>6. m \in Nat
    <2>1. m \in 0 .. Len(EngineHashes[x.prompt])
      BY <1>3, <1>5, MatchedIs
    <2>2. Len(EngineHashes[x.prompt]) \in Nat
      BY <1>5, EngineDomain
    <2> QED
      BY <2>1, <2>2
  <1>7. req' = [req EXCEPT ![r] = [x EXCEPT !.pc = "body", !.hit = m, !.prompt = <<>>, !.alone = a]]
    BY <1>1, <1>2, <1>3, <1>4, <1>5 DEF ReqType, Local, LocalRecord
  <1>8. y = [x EXCEPT !.pc = "body", !.hit = m, !.prompt = <<>>, !.alone = a] /\ Others(r)
    BY <1>2, <1>7 DEF ReqType, Others
  <1>9. y \in Local
    BY <1>5, <1>6, <1>8, LocalMoves
  <1>10. y.pc = "body" /\ y.matched = x.matched /\ y.hit = m /\ y.excused = x.excused /\ y.alone = a
    BY <1>5, <1>8 DEF LocalRecord
  <1>11. ReqType'
    BY <1>2, <1>7, <1>8, <1>9 DEF ReqType
  <1>12. DeliverOutcome(r)
    BY <1>2, <1>3, <1>4, <1>8, <1>10 DEF DeliverOutcome
  <1> QED
    BY <1>1, <1>11, <1>12

\* The steps after which a request neither travels nor has a hit to show.
Settles(r) == Fail(r) \/ Leave(r) \/ CountHits(r) \/ CountPrompts(r) \/ CountStats(r)

\* The effect of the other steps of a request.
LEMMA SettleStep ==
    ASSUME ReqType, NEW r \in Requests, Settles(r)
    PROVE  ReqType' /\ req'[r].pc \in {"idle", "prompts", "stats"} /\ Others(r)
  <1>1. req[r] \in Local
    BY DEF ReqType
  <1>2. ASSUME NEW y \in Local, req' = [req EXCEPT ![r] = y], y.pc \in {"idle", "prompts", "stats"}
        PROVE  ReqType' /\ req'[r].pc \in {"idle", "prompts", "stats"} /\ Others(r)
    BY <1>2 DEF ReqType, Others
  <1>3. CASE Fail(r) \/ Leave(r) \/ CountStats(r)
    <2>1. req' = [req EXCEPT ![r] = Idle]
      BY <1>3 DEF Fail, Leave, CountStats
    <2>2. Idle.pc = "idle"
      BY DEF Idle
    <2> QED
      BY <1>2, <2>1, <2>2, IdleLocal
  <1>4. CASE CountHits(r)
    <2>1. PICK x, y : /\ x = req[r]
                      /\ y = [Idle EXCEPT !.pc = "prompts", !.worker = x.worker,
                                          !.matched = x.matched, !.blocks = x.blocks]
      OBVIOUS
    <2>2. x.pc = "body" /\ req' = [req EXCEPT ![r] = y]
      BY <1>4, <2>1 DEF CountHits
    <2>3. y \in Local
      BY <1>1, <2>1, <2>2, LocalMoves
    <2>4. y.pc = "prompts"
      BY <2>1 DEF Idle
    <2> QED
      BY <1>2, <2>2, <2>3, <2>4
  <1>5. CASE CountPrompts(r)
    <2>1. PICK x, y : x = req[r] /\ y = [x EXCEPT !.pc = "stats"]
      OBVIOUS
    <2>2. x.pc = "prompts" /\ req' = [req EXCEPT ![r] = y]
      BY <1>5, <2>1 DEF CountPrompts
    <2>3. y \in Local
      BY <1>1, <2>1, <2>2, LocalMoves
    <2>4. y.pc = "stats"
      BY <1>1, <2>1 DEF Local, LocalRecord
    <2> QED
      BY <1>2, <2>2, <2>3, <2>4
  <1> QED
    BY <1>3, <1>4, <1>5 DEF Settles

\* The recursive function of Recorded: what of the cache is not recorded anew.
KeptOf(held, hashes) ==
    CHOOSE kept : kept = [i \in 0 .. Len(held) |->
        IF i = 0 THEN <<>>
        ELSE IF held[i] \in Range(hashes) THEN kept[i - 1] ELSE Append(kept[i - 1], held[i])]
Keeps(f, held, hashes, B, k) ==
    /\ f \in [0 .. k -> Seq(B)]
    /\ \A i \in 0 .. k : f[i] =
         IF i = 0 THEN <<>>
         ELSE IF held[i] \in Range(hashes) THEN f[i - 1] ELSE Append(f[i - 1], held[i])

\* The recursive function of Recorded exists.
LEMMA KeepsExists ==
    ASSUME NEW B, NEW held \in Seq(B), NEW hashes, NEW k \in 0 .. Len(held)
    PROVE  \E f : Keeps(f, held, hashes, B, k)
  <1> DEFINE Bad == {j \in 0 .. Len(held) : ~\E f : Keeps(f, held, hashes, B, j)}
  <1> SUFFICES ASSUME Bad # {} PROVE FALSE
    OBVIOUS
  <1>1. PICK j \in Bad : \A l \in Bad : j <= l
    <2>1. Bad \subseteq Nat
      OBVIOUS
    <2> QED
      BY <2>1, SmallestNat
  <1>2. j \in 0 .. Len(held) /\ j \in Nat /\ ~\E f : Keeps(f, held, hashes, B, j)
    OBVIOUS
  <1>3. CASE j = 0
    <2>1. PICK f : f = [i \in 0 .. 0 |-> <<>>]
      OBVIOUS
    <2>2. <<>> \in Seq(B)
      OBVIOUS
    <2>3. Keeps(f, held, hashes, B, j)
      BY <1>3, <2>1, <2>2 DEF Keeps
    <2> QED
      BY <1>2, <2>3
  <1>4. CASE j # 0
    <2>0. Len(held) \in Nat
      OBVIOUS
    <2> HIDE DEF Bad
    <2>1. j - 1 \in 0 .. Len(held) /\ j - 1 \notin Bad /\ j \in 1 .. Len(held)
      BY <1>1, <1>2, <1>4, <2>0
    <2>2. PICK g : Keeps(g, held, hashes, B, j - 1)
      BY <2>1 DEF Bad
    <2>3. /\ g \in [0 .. j - 1 -> Seq(B)]
          /\ \A i \in 0 .. j - 1 : g[i] =
               IF i = 0 THEN <<>>
               ELSE IF held[i] \in Range(hashes) THEN g[i - 1] ELSE Append(g[i - 1], held[i])
      BY <2>2 DEF Keeps
    <2>4. g[j - 1] \in Seq(B) /\ held[j] \in B
      BY <1>2, <2>1, <2>3, ElementOfSeq
    <2>5. Append(g[j - 1], held[j]) \in Seq(B)
      BY <2>4, AppendProperties
    <2>6. PICK x \in Seq(B) :
              x = IF held[j] \in Range(hashes) THEN g[j - 1] ELSE Append(g[j - 1], held[j])
      BY <2>4, <2>5
    <2>7. PICK f : f = [i \in 0 .. j |-> IF i = j THEN x ELSE g[i]]
      OBVIOUS
    <2>8. f \in [0 .. j -> Seq(B)]
      BY <1>2, <2>3, <2>7
    <2>9. ASSUME NEW i \in 0 .. j
          PROVE  f[i] = IF i = 0 THEN <<>>
                        ELSE IF held[i] \in Range(hashes) THEN f[i - 1] ELSE Append(f[i - 1], held[i])
      <3>1. CASE i = j
        <4>1. f[i] = x /\ f[i - 1] = g[j - 1] /\ i # 0
          BY <1>2, <1>4, <2>1, <2>7, <3>1
        <4> QED
          BY <2>6, <3>1, <4>1
      <3>2. CASE i # j
        <4>1. i \in 0 .. j - 1 /\ f[i] = g[i]
          BY <1>2, <2>7, <3>2
        <4>2. i # 0 => i - 1 \in 0 .. j /\ i - 1 # j
          BY <1>2, <4>1
        <4>3. i # 0 => f[i - 1] = g[i - 1]
          BY <2>7, <4>2
        <4> QED
          BY <2>3, <4>1, <4>3
      <3> QED
        BY <3>1, <3>2
    <2>10. Keeps(f, held, hashes, B, j)
      BY <2>8, <2>9 DEF Keeps
    <2> QED
      BY <1>2, <2>10
  <1> QED
    BY <1>3, <1>4

\* It keeps nothing but what was in the cache.
LEMMA KeptType ==
    ASSUME NEW B, NEW held \in Seq(B), NEW hashes
    PROVE  KeptOf(held, hashes)[Len(held)] \in Seq(B)
  <1>0. PICK n \in Nat : n = Len(held) /\ n \in 0 .. Len(held)
    OBVIOUS
  <1>1. PICK f : Keeps(f, held, hashes, B, n)
    BY <1>0, KeepsExists
  <1>2. f = [i \in 0 .. Len(held) |->
                IF i = 0 THEN <<>>
                ELSE IF held[i] \in Range(hashes) THEN f[i - 1] ELSE Append(f[i - 1], held[i])]
    BY <1>0, <1>1 DEF Keeps
  <1>3. \E g : g = [i \in 0 .. Len(held) |->
                IF i = 0 THEN <<>>
                ELSE IF held[i] \in Range(hashes) THEN g[i - 1] ELSE Append(g[i - 1], held[i])]
    BY <1>2, Zenon
  <1>4. KeptOf(held, hashes) = [i \in 0 .. Len(held) |->
                IF i = 0 THEN <<>>
                ELSE IF held[i] \in Range(hashes) THEN KeptOf(held, hashes)[i - 1]
                ELSE Append(KeptOf(held, hashes)[i - 1], held[i])]
    BY <1>3, Zenon DEF KeptOf
  <1>5. PICK h : h = KeptOf(held, hashes)
    OBVIOUS
  <1>6. \A i \in 0 .. n : h[i] =
            IF i = 0 THEN <<>>
            ELSE IF held[i] \in Range(hashes) THEN h[i - 1] ELSE Append(h[i - 1], held[i])
    BY <1>0, <1>4, <1>5
  <1> DEFINE Bad == {i \in 0 .. n : h[i] \notin Seq(B)}
  <1>7. SUFFICES ASSUME Bad # {} PROVE FALSE
    BY <1>0, <1>5
  <1>8. PICK j \in Bad : \A l \in Bad : j <= l
    <2>1. Bad \subseteq Nat
      OBVIOUS
    <2> QED
      BY <1>7, <2>1, SmallestNat
  <1>9. j \in 0 .. n /\ h[j] \notin Seq(B)
    OBVIOUS
  <1>10. j # 0
    <2>1. h[0] = <<>>
      BY <1>6
    <2>2. <<>> \in Seq(B)
      OBVIOUS
    <2> QED
      BY <1>9, <2>1, <2>2
  <1> HIDE DEF Bad
  <1>11. j - 1 \in 0 .. n /\ j - 1 \notin Bad /\ j \in 1 .. n
    BY <1>8, <1>9, <1>10
  <1>12. h[j - 1] \in Seq(B) /\ held[j] \in B
    BY <1>0, <1>11, ElementOfSeq DEF Bad
  <1>13. Append(h[j - 1], held[j]) \in Seq(B)
    BY <1>12, AppendProperties
  <1>14. h[j] = IF held[j] \in Range(hashes) THEN h[j - 1] ELSE Append(h[j - 1], held[j])
    BY <1>6, <1>9, <1>10
  <1> QED
    BY <1>9, <1>12, <1>13, <1>14

\* The cache after record_and_match has nothing but what it had and what was recorded.
LEMMA RecordedType ==
    ASSUME NEW B, NEW held \in Seq(B), NEW hashes \in Seq(B)
    PROVE  Trimmed(Recorded(held, hashes)) \in Seq(B)
  <1>1. Recorded(held, hashes) = KeptOf(held, hashes)[Len(held)] \o hashes
    BY DEF Recorded, KeptOf
  <1>2. PICK x \in Seq(B) : x = Recorded(held, hashes)
    BY <1>1, KeptType, ConcatProperties
  <1>3. PICK n \in Nat : n = Len(x)
    OBVIOUS
  <1>4. PICK m \in Nat : m = Smaller(n, PrefixCacheCap) /\ m <= n
    BY MockEngineAssumption, SmallerIs
  <1>5. Trimmed(x) = SubSeq(x, n - m + 1, n)
    BY <1>3, <1>4 DEF Trimmed
  <1>6. \A i \in n - m + 1 .. n : x[i] \in B
    BY <1>3, <1>4
  <1>7. n - m + 1 \in Int /\ n \in Int
    OBVIOUS
  <1>8. SubSeq(x, n - m + 1, n) \in Seq(B)
    BY <1>6, <1>7, SubSeqProperties
  <1> QED
    BY <1>2, <1>5, <1>8

\* A cache changes when a request is delivered to its engine or the engine crashes.
LEMMA CacheStep ==
    ASSUME ReqType, EngineType, NEW r \in Requests, Deliver(r)
    PROVE  /\ EngineType'
           /\ \A w \in Workers : Range(cache'[w]) \subseteq
                Range(cache[w]) \cup (IF w = req[r].worker THEN Range(EngineHashes[req[r].prompt]) ELSE {})
  <1>1. PICK w, p, hashes : w = req[r].worker /\ p = req[r].prompt /\ hashes = EngineHashes[p]
    OBVIOUS
  <1>2. w \in Workers /\ p \in Prompts
    BY <1>1 DEF ReqType, Local, Deliver
  <1>3. cache' = [cache EXCEPT ![w] = Trimmed(Recorded(cache[w], hashes))]
    BY <1>1 DEF Deliver, record_and_match
  <1>4. cache[w] \in Seq(Held)
    BY <1>2 DEF EngineType
  <1>5. PICK c : c = cache[w] /\ c \in Seq(Held) /\ c \in Seq(Range(c))
    <2>1. \A S, s : s \in Seq(S) => s \in Seq(Range(s))
      BY LenProperties DEF Range
    <2> QED
      BY <1>4, <2>1
  <1>6. hashes \in Seq(Range(hashes)) /\ Range(hashes) \subseteq Held
    BY <1>1, <1>2, EngineDomain DEF Held
  <1>7. PICK B : B = Range(c) \cup Range(hashes)
    OBVIOUS
  <1>8. c \in Seq(B) /\ hashes \in Seq(B)
    <2>1. Range(c) \subseteq B /\ Range(hashes) \subseteq B
      BY <1>7
    <2> QED
      BY <1>5, <1>6, <2>1, SeqMonotonic
  <1>9. PICK d : d = Trimmed(Recorded(c, hashes)) /\ d \in Seq(B)
    BY <1>8, RecordedType
  <1>10. Range(c) \subseteq Held
    <2>1. \A s \in Seq(Held) : Range(s) \subseteq Held
      BY LenProperties DEF Range
    <2> QED
      BY <1>5, <2>1
  <1>11. d \in Seq(Held)
    <2>1. B \subseteq Held
      BY <1>6, <1>7, <1>10
    <2> QED
      BY <1>9, <2>1, SeqMonotonic
  <1>12. Range(d) \subseteq B
    <2>1. \A s \in Seq(B) : Range(s) \subseteq B
      BY LenProperties DEF Range
    <2> QED
      BY <1>9, <2>1
  <1>13. cache' = [cache EXCEPT ![w] = d]
    BY <1>3, <1>5, <1>9
  <1>14. EngineType'
    BY <1>2, <1>11, <1>13 DEF EngineType
  <1>15. ASSUME NEW v \in Workers
         PROVE  Range(cache'[v]) \subseteq
                  Range(cache[v]) \cup (IF v = req[r].worker THEN Range(EngineHashes[req[r].prompt]) ELSE {})
    <2>1. CASE v = w
      <3>1. cache'[v] = d /\ cache[v] = c
        BY <1>2, <1>5, <1>13, <2>1 DEF EngineType
      <3> QED
        BY <1>1, <1>7, <1>12, <2>1, <3>1
    <2>2. CASE v # w
      <3>1. cache'[v] = cache[v]
        BY <1>2, <1>13, <2>2 DEF EngineType
      <3> QED
        BY <3>1
    <2> QED
      BY <2>1, <2>2
  <1> QED
    BY <1>14, <1>15

\* The steps, grouped as the proofs take them.
LEMMA NextCases ==
    ASSUME Next
    PROVE  /\ Observe
           /\ \/ \E r \in Requests : Match(r) \/ Record(r) \/ Deliver(r) \/ Settles(r)
              \/ \E w \in Workers : Probe(w) \/ EngineMoves(w)
              \/ Evict \/ Purge \/ Scraped
  BY DEF Next, RequestSteps, Settles

\* Steps that leave what is believed of the engines alone.
IndexKept == UNCHANGED <<credit, forgotten, sent>>

\* The steps that change the index.
LEMMA IndexCases ==
    ASSUME [Next]_vars
    PROVE  IndexKept \/ (\E r \in Requests : Record(r)) \/ Evict \/ Purge
  <1>1. CASE UNCHANGED vars
    BY <1>1 DEF vars, routerVars, IndexKept
  <1>2. CASE Next
    <2>1. ASSUME NEW r \in Requests, Match(r) \/ Deliver(r) PROVE IndexKept
      BY <2>1 DEF Match, Deliver, routerVars, IndexKept
    <2>2. ASSUME NEW r \in Requests, Settles(r) PROVE IndexKept
      BY <2>2 DEF Settles, Fail, Leave, CountHits, CountPrompts, CountStats, routerVars, IndexKept
    <2>3. ASSUME NEW w \in Workers, Probe(w) \/ EngineMoves(w) PROVE IndexKept
      BY <2>3 DEF Probe, EngineMoves, routerVars, IndexKept
    <2>4. ASSUME Scraped PROVE IndexKept
      BY <2>4 DEF Scraped, routerVars, IndexKept
    <2> QED
      BY <1>2, <2>1, <2>2, <2>3, <2>4, NextCases
  <1> QED
    BY <1>1, <1>2

\* The registry and the poller's victim keep their types.
LEMMA RegistryStep ==
    ASSUME IndexType, [Next]_vars
    PROVE  healthy' \subseteq Workers /\ (purging' # None => purging' \in Workers)
  <1>0. healthy \subseteq Workers /\ (purging # None => purging \in Workers)
    BY DEF IndexType
  <1>1. CASE UNCHANGED <<healthy, purging>>
    BY <1>0, <1>1
  <1>2. ASSUME NEW w \in Workers, Probe(w) PROVE healthy' \subseteq Workers /\ (purging' # None => purging' \in Workers)
    BY <1>0, <1>2 DEF Probe
  <1>3. CASE Purge
    BY <1>0, <1>3 DEF Purge
  <1>4. CASE UNCHANGED vars
    BY <1>1, <1>4 DEF vars, routerVars
  <1>5. CASE Next
    <2>1. ASSUME NEW r \in Requests, Match(r) \/ Record(r) \/ Deliver(r) PROVE UNCHANGED <<healthy, purging>>
      BY <2>1 DEF Match, Record, Deliver, routerVars
    <2>2. ASSUME NEW r \in Requests, Settles(r) PROVE UNCHANGED <<healthy, purging>>
      BY <2>2 DEF Settles, Fail, Leave, CountHits, CountPrompts, CountStats, routerVars
    <2>3. ASSUME NEW w \in Workers, EngineMoves(w) PROVE UNCHANGED <<healthy, purging>>
      BY <2>3 DEF EngineMoves, routerVars
    <2>4. ASSUME Scraped \/ Evict PROVE UNCHANGED <<healthy, purging>>
      BY <2>4 DEF Scraped, Evict, routerVars
    <2> QED
      BY <1>1, <1>2, <1>3, <1>5, <2>1, <2>2, <2>3, <2>4, NextCases
  <1> QED
    BY <1>4, <1>5

\* What is known of an engine only grows, and only by a record on that worker.
KnownGrows ==
    \A w \in Workers : \A h :
        /\ h \in Known(w) => h \in Known(w)'
        /\ h \in Known(w)' => \/ h \in Known(w)
                              \/ \E r \in Requests : /\ Record(r) /\ req[r].worker = w
                                                     /\ h \in Range(Chain[req[r].prompt])

\* The credit invariant is inductive.
LEMMA IndexStep ==
    ASSUME ReqType, IndexType, CreditInv, [Next]_vars
    PROVE  IndexType' /\ CreditInv' /\ KnownGrows
  <1>0. /\ credit \in [Workers -> SUBSET Hashes] /\ forgotten \in [Workers -> SUBSET Hashes]
        /\ sent \in [Workers -> SUBSET Prompts]
    BY DEF IndexType
  <1>1. healthy' \subseteq Workers /\ (purging' # None => purging' \in Workers)
    BY RegistryStep
  <1>2. \A w \in Workers : credit[w] \subseteq Sent(w) /\ Sent(w) \subseteq Known(w)
    BY DEF CreditInv
  <1>3. CASE IndexKept
    BY <1>0, <1>1, <1>2, <1>3 DEF IndexKept, IndexType, CreditInv, Sent, Known, KnownGrows
  <1>4. ASSUME NEW r \in Requests, Record(r) PROVE IndexType' /\ CreditInv' /\ KnownGrows
    <2>1. PICK w, p : w = req[r].worker /\ p = req[r].prompt
      OBVIOUS
    <2>2. w \in Workers /\ p \in Prompts
      BY <1>4, <2>1 DEF ReqType, Local, Record
    <2>3. PICK R : R = Range(Chain[p])
      OBVIOUS
    <2>4. /\ credit' = [credit EXCEPT ![w] = @ \cup R]
          /\ forgotten' = [forgotten EXCEPT ![w] = @ \ R]
          /\ sent' = [sent EXCEPT ![w] = @ \cup {p}]
      BY <1>4, <2>1, <2>3 DEF Record
    <2>5. R \subseteq Hashes
      BY <2>2, <2>3 DEF Hashes
    <2>6. IndexType'
      BY <1>0, <1>1, <2>2, <2>4, <2>5 DEF IndexType
    <2>7. ASSUME NEW v \in Workers
          PROVE  /\ credit'[v] = credit[v] \cup (IF v = w THEN R ELSE {})
                 /\ forgotten'[v] = forgotten[v] \ (IF v = w THEN R ELSE {})
                 /\ sent'[v] = sent[v] \cup (IF v = w THEN {p} ELSE {})
      BY <1>0, <2>2, <2>4
    <2>8. ASSUME NEW v \in Workers
          PROVE  Sent(v)' = Sent(v) \cup (IF v = w THEN R ELSE {})
      BY <2>3, <2>7 DEF Sent
    <2>9. ASSUME NEW v \in Workers
          PROVE  Known(v)' = Known(v) \cup (IF v = w THEN R ELSE {})
      BY <2>7 DEF Known
    <2>10. CreditInv'
      BY <1>2, <2>7, <2>8, <2>9 DEF CreditInv
    <2>11. KnownGrows
      BY <1>4, <2>1, <2>3, <2>9 DEF KnownGrows
    <2> QED
      BY <2>6, <2>10, <2>11
  <1>5. CASE Evict
    <2>1. PICK h : /\ credit' = [w \in Workers |-> credit[w] \ {h}]
                   /\ forgotten' = [w \in Workers |-> IF h \in credit[w] THEN forgotten[w] \cup {h}
                                                      ELSE forgotten[w]]
                   /\ sent' = sent
      BY <1>5 DEF Evict
    <2>2. ASSUME NEW v \in Workers
          PROVE  /\ credit'[v] = credit[v] \ {h} /\ sent'[v] = sent[v]
                 /\ forgotten'[v] = IF h \in credit[v] THEN forgotten[v] \cup {h} ELSE forgotten[v]
      BY <2>1
    <2>3. ASSUME NEW v \in Workers PROVE credit'[v] \subseteq Hashes /\ forgotten'[v] \subseteq Hashes
      BY <1>0, <2>2
    <2>4. IndexType'
      BY <1>0, <1>1, <2>1, <2>3 DEF IndexType
    <2>5. ASSUME NEW v \in Workers PROVE Known(v)' = Known(v) /\ Sent(v)' = Sent(v)
      BY <2>2 DEF Known, Sent
    <2>6. CreditInv'
      BY <1>2, <2>2, <2>5 DEF CreditInv
    <2>7. KnownGrows
      BY <2>5 DEF KnownGrows
    <2> QED
      BY <2>4, <2>6, <2>7
  <1>6. CASE Purge
    <2>1. PICK w \in Workers : w = purging
      BY <1>6 DEF Purge, IndexType
    <2>2. /\ credit' = [credit EXCEPT ![w] = {}]
          /\ forgotten' = [forgotten EXCEPT ![w] = @ \cup credit[w]]
          /\ sent' = [sent EXCEPT ![w] = {}]
      BY <1>6, <2>1 DEF Purge
    <2>3. IndexType'
      BY <1>0, <1>1, <2>2 DEF IndexType
    <2>4. ASSUME NEW v \in Workers
          PROVE  /\ credit'[v] = IF v = w THEN {} ELSE credit[v]
                 /\ forgotten'[v] = IF v = w THEN forgotten[v] \cup credit[v] ELSE forgotten[v]
                 /\ sent'[v] = IF v = w THEN {} ELSE sent[v]
      BY <1>0, <2>2
    <2>5. ASSUME NEW v \in Workers
          PROVE  Known(v)' = Known(v) /\ Sent(v)' = IF v = w THEN {} ELSE Sent(v)
      BY <2>4 DEF Known, Sent
    <2>6. CreditInv'
      BY <1>2, <2>4, <2>5 DEF CreditInv
    <2>7. KnownGrows
      BY <2>5 DEF KnownGrows
    <2> QED
      BY <2>3, <2>6, <2>7
  <1> QED
    BY <1>3, <1>4, <1>5, <1>6, IndexCases

\* The steps that change a request.
LEMMA ReqCases ==
    ASSUME [Next]_vars
    PROVE  \/ \E r \in Requests : Match(r) \/ Record(r) \/ Deliver(r) \/ Settles(r)
           \/ UNCHANGED req
  <1>1. CASE UNCHANGED vars
    BY <1>1 DEF vars
  <1>2. CASE Next
    <2>1. ASSUME NEW w \in Workers, Probe(w) \/ EngineMoves(w) PROVE UNCHANGED req
      BY <2>1 DEF Probe, EngineMoves
    <2>2. ASSUME Evict \/ Purge \/ Scraped PROVE UNCHANGED req
      BY <2>2 DEF Evict, Purge, Scraped
    <2> QED
      BY <1>2, <2>1, <2>2, NextCases
  <1> QED
    BY <1>1, <1>2

\* The requests keep their type.
LEMMA ReqStep ==
    ASSUME ReqType, IndexType, [Next]_vars
    PROVE  ReqType'
  <1>1. ASSUME UNCHANGED req PROVE ReqType'
    BY <1>1 DEF ReqType
  <1> QED
    BY <1>1, ReqCases, MatchStep, RecordStep, DeliverStep, SettleStep

\* The caches beside deliveries: kept, or emptied by a crash.
LEMMA CacheCases ==
    ASSUME EngineType, [Next]_vars
    PROVE  \/ \E r \in Requests : Deliver(r)
           \/ /\ EngineType'
              /\ \A w \in Workers : cache'[w] = cache[w] \/ cache'[w] = <<>>
  <1>0. cache \in [Workers -> Seq(Held)]
    BY DEF EngineType
  <1>1. ASSUME UNCHANGED cache PROVE EngineType' /\ \A w \in Workers : cache'[w] = cache[w]
    BY <1>0, <1>1 DEF EngineType
  <1>2. ASSUME NEW w \in Workers, EngineMoves(w)
        PROVE  EngineType' /\ \A v \in Workers : cache'[v] = cache[v] \/ cache'[v] = <<>>
    <2>1. CASE UNCHANGED cache
      BY <1>1, <2>1
    <2>2. CASE cache' = [cache EXCEPT ![w] = <<>>]
      <3>1. <<>> \in Seq(Held)
        OBVIOUS
      <3> QED
        BY <1>0, <2>2, <3>1 DEF EngineType
    <2> QED
      BY <1>2, <2>1, <2>2 DEF EngineMoves, EngineCrashes, EngineStarts
  <1>3. CASE UNCHANGED vars
    BY <1>1, <1>3 DEF vars, engineVars
  <1>4. CASE Next
    <2>1. ASSUME NEW r \in Requests, Match(r) \/ Record(r) PROVE UNCHANGED cache
      BY <2>1 DEF Match, Record, engineVars
    <2>2. ASSUME NEW r \in Requests, Settles(r) PROVE UNCHANGED cache
      BY <2>2 DEF Settles, Fail, Leave, CountHits, CountPrompts, CountStats, engineVars
    <2>3. ASSUME NEW w \in Workers, Probe(w) PROVE UNCHANGED cache
      BY <2>3 DEF Probe, engineVars
    <2>4. ASSUME Evict \/ Purge \/ Scraped PROVE UNCHANGED cache
      BY <2>4 DEF Evict, Purge, Scraped, engineVars
    <2> QED
      BY <1>1, <1>2, <1>4, <2>1, <2>2, <2>3, <2>4, NextCases
  <1> QED
    BY <1>3, <1>4

\* The caches keep theirs.
LEMMA EngineStep ==
    ASSUME ReqType, EngineType, [Next]_vars
    PROVE  EngineType'
  BY CacheCases, CacheStep

(***************************************************************************)
(* The statistics and the gauges                                           *)
(***************************************************************************)
\* The steps that change statistics or gauges.
LEMMA StatsCases ==
    ASSUME [Next]_vars
    PROVE  \/ \E r \in Requests : CountStats(r)
           \/ Scraped
           \/ UNCHANGED <<hit_stats, gauges, scraper>>
  <1>1. CASE UNCHANGED vars
    BY <1>1 DEF vars, statsVars, counterVars, gaugeVars
  <1>2. CASE Next
    <2>1. ASSUME NEW r \in Requests, Match(r) \/ Record(r) \/ Deliver(r) \/ Fail(r) \/ Leave(r)
          PROVE  UNCHANGED <<hit_stats, gauges, scraper>>
      BY <2>1 DEF Match, Record, Deliver, Fail, Leave, statsVars, counterVars, gaugeVars
    <2>2. ASSUME NEW r \in Requests, CountHits(r) \/ CountPrompts(r)
          PROVE  UNCHANGED <<hit_stats, gauges, scraper>>
      BY <2>2 DEF CountHits, CountPrompts, record_cache_hit_blocks, record_prompt_blocks, gaugeVars
    <2>3. ASSUME NEW w \in Workers, Probe(w) \/ EngineMoves(w) PROVE UNCHANGED <<hit_stats, gauges, scraper>>
      BY <2>3 DEF Probe, EngineMoves, statsVars, counterVars, gaugeVars
    <2>4. ASSUME Evict \/ Purge PROVE UNCHANGED <<hit_stats, gauges, scraper>>
      BY <2>4 DEF Evict, Purge, statsVars, counterVars, gaugeVars
    <2> QED
      BY <1>2, <2>1, <2>2, <2>3, <2>4, NextCases DEF Settles
  <1> QED
    BY <1>1, <1>2

\* The gauge invariant is inductive.
LEMMA GaugeStep ==
    ASSUME ReqType, IndexType, StatsType, GaugeInv, [Next]_vars
    PROVE  StatsType' /\ GaugeInv'
  <1>0. /\ hit_stats \in [Workers -> Stats] /\ gauges \in [Workers -> Gauges] /\ scraper \in Scraper
        /\ scraper.pc # "next" => scraper.worker \in Workers
    BY DEF StatsType
  <1>1. CASE UNCHANGED <<hit_stats, gauges, scraper>>
    BY <1>1 DEF StatsType, GaugeInv
  <1>2. ASSUME NEW r \in Requests, CountStats(r) PROVE StatsType' /\ GaugeInv'
    <2>1. PICK w, m, b : w = req[r].worker /\ m = req[r].matched /\ b = req[r].blocks
      OBVIOUS
    <2>2. w \in Workers /\ m \in Nat /\ b \in Nat
      BY <1>2, <2>1 DEF ReqType, Local, LocalRecord, CountStats
    <2>3. /\ hit_stats' = [hit_stats EXCEPT ![w] = [hits |-> @.hits + m, prompts |-> @.prompts + b]]
          /\ gauges' = gauges /\ scraper' = scraper
      BY <1>2, <2>1 DEF CountStats, record_hit_stats, gaugeVars
    <2>4. hit_stats' \in [Workers -> Stats]
      BY <1>0, <2>2, <2>3 DEF Stats
    <2>5. ASSUME NEW v \in Workers, hit_stats[v].prompts > 0 PROVE hit_stats'[v].prompts > 0
      BY <1>0, <2>2, <2>3, <2>5 DEF Stats
    <2>6. StatsType'
      BY <1>0, <2>3, <2>4 DEF StatsType
    <2>7. GaugeInv'
      BY <1>0, <2>3, <2>5 DEF GaugeInv
    <2> QED
      BY <2>6, <2>7
  <1>3. CASE Scraped
    <2>0. CASE ScrapeRound \/ ScrapeNext(healthy)
      <3>1. gauges' = gauges /\ hit_stats' = hit_stats /\ scraper.pc = "next"
        BY <2>0 DEF ScrapeRound, ScrapeNext, counterVars
      <3>2. scraper' \in Scraper /\ scraper'.pc \in {"next", "answer"}
            /\ (scraper'.pc # "next" => scraper'.worker \in Workers)
        <4>1. CASE ScrapeRound
          BY <4>1 DEF ScrapeRound, Sleeping, Scraper, Rates
        <4>2. CASE ScrapeNext(healthy)
          <5>1. PICK w : scraper' = [Sleeping EXCEPT !.left = scraper.left \ {w},
                                         !.pc = IF w \in healthy THEN "answer" ELSE "next",
                                         !.worker = IF w \in healthy THEN w ELSE None]
            BY <4>2 DEF ScrapeNext
          <5>2. PICK L : L = scraper.left \ {w} /\ L \in SUBSET Workers
            <6>1. scraper.left \subseteq Workers
              BY <1>0 DEF Scraper
            <6> QED
              BY <6>1, Zenon
          <5>3. healthy \subseteq Workers
            BY DEF IndexType
          <5>4. CASE w \in healthy
            <6>1. scraper' = [pc |-> "answer", left |-> L, worker |-> w, rate |-> None]
              BY <5>1, <5>2, <5>4 DEF Sleeping
            <6> QED
              BY <5>2, <5>3, <5>4, <6>1 DEF Scraper, Rates
          <5>5. CASE w \notin healthy
            <6>1. scraper' = [pc |-> "next", left |-> L, worker |-> None, rate |-> None]
              BY <5>1, <5>2, <5>5 DEF Sleeping
            <6> QED
              BY <5>2, <6>1 DEF Scraper, Rates
          <5> QED
            BY <5>4, <5>5
        <4> QED
          BY <2>0, <4>1, <4>2
      <3>3. StatsType'
        BY <1>0, <3>1, <3>2 DEF StatsType
      <3>4. GaugeInv'
        BY <3>1, <3>2 DEF GaugeInv
      <3> QED
        BY <3>3, <3>4
    <2>1. ASSUME NextWorker
          PROVE  scraper' \in Scraper /\ scraper'.pc = "next"
      <3>1. PICK L : L = scraper.left /\ L \in SUBSET Workers
        BY <1>0 DEF Scraper
      <3>2. scraper' = [pc |-> "next", left |-> L, worker |-> None, rate |-> None]
        BY <2>1, <3>1 DEF NextWorker, Sleeping
      <3> QED
        BY <3>1, <3>2 DEF Scraper, Rates
    <2>2. CASE ScrapeAnswer
      <3>0. hit_stats' = hit_stats /\ scraper.pc = "answer"
        BY <2>2 DEF ScrapeAnswer, counterVars
      <3>1. CASE NextWorker /\ UNCHANGED gauges
        <4>1. scraper' \in Scraper /\ scraper'.pc = "next"
          BY <2>1, <3>1
        <4>2. StatsType'
          BY <1>0, <3>0, <3>1, <4>1 DEF StatsType
        <4>3. GaugeInv'
          BY <3>0, <3>1, <4>1 DEF GaugeInv
        <4> QED
          BY <4>2, <4>3
      <3>2. ASSUME NEW text \in Expositions,
                   gauges' = [gauges EXCEPT ![scraper.worker].engine = find_metric(text)],
                   scraper' = [scraper EXCEPT !.pc = "predict", !.rate = find_metric(text)]
            PROVE  StatsType' /\ GaugeInv'
        <4>1. PICK w \in Workers, m \in Rates : w = scraper.worker /\ m = find_metric(text)
          BY <1>0, <3>0 DEF Rates
        <4>2. /\ gauges' = [gauges EXCEPT ![w].engine = m]
              /\ scraper' = [scraper EXCEPT !.pc = "predict", !.rate = m]
          BY <3>2, <4>1
        <4>3. /\ scraper' \in Scraper /\ scraper'.pc = "predict" /\ scraper'.worker = w
              /\ scraper'.rate = m
          BY <1>0, <4>1, <4>2 DEF Scraper
        <4>4. gauges' \in [Workers -> Gauges]
          BY <1>0, <4>2 DEF Gauges
        <4>5. gauges'[w].engine = m
          BY <1>0, <4>2 DEF Gauges
        <4>6. gauges'[w].error = gauges[w].error
          BY <1>0, <4>2 DEF Gauges
        <4>7. \A v \in Workers \ {w} : gauges'[v] = gauges[v]
          BY <1>0, <4>2
        <4>8. StatsType'
          BY <1>0, <3>0, <4>3, <4>4 DEF StatsType
        <4>9. GaugeInv'
          BY <3>0, <4>1, <4>3, <4>5, <4>6, <4>7 DEF GaugeInv
        <4> QED
          BY <4>8, <4>9
      <3> QED
        BY <2>2, <3>1, <3>2 DEF ScrapeAnswer
    <2>3. CASE ScrapePredict
      <3>0. hit_stats' = hit_stats /\ scraper.pc = "predict"
        BY <2>3 DEF ScrapePredict, counterVars
      <3>1. PICK w, d : w \in Workers /\ w = scraper.worker /\ d = predicted_cache_hit_rate(w)
        BY <1>0, <3>0
      <3>2. hit_stats[w] \in Stats /\ hit_stats[w] # None
        BY <1>0, <3>1, HitStatsAssumption DEF Stats
      <3>3. CASE d = None
        <4>1. NextWorker /\ UNCHANGED gauges
          BY <2>3, <3>1, <3>3 DEF ScrapePredict
        <4>2. scraper' \in Scraper /\ scraper'.pc = "next"
          BY <2>1, <4>1
        <4>3. ~(hit_stats[w].prompts > 0)
          BY <3>1, <3>2, <3>3 DEF predicted_cache_hit_rate
        <4>4. StatsType'
          BY <1>0, <3>0, <4>1, <4>2 DEF StatsType
        <4>5. gauges[w].error = None
          BY <3>1, <4>3 DEF GaugeInv
        <4>6. GaugeInv'
          BY <3>0, <3>1, <4>1, <4>2, <4>5 DEF GaugeInv
        <4> QED
          BY <4>4, <4>6
      <3>4. CASE d # None
        <4>1. gauges' = [gauges EXCEPT ![w].predicted = d] /\ scraper' = [scraper EXCEPT !.pc = "error"]
          BY <2>3, <3>1, <3>4 DEF ScrapePredict
        <4>2. hit_stats[w].prompts > 0 /\ d \in Predictions
          BY <3>1, <3>2, <3>4 DEF predicted_cache_hit_rate, Predictions
        <4>3. /\ scraper' \in Scraper /\ scraper'.pc = "error" /\ scraper'.worker = w
              /\ scraper'.rate = scraper.rate
          BY <1>0, <3>1, <4>1 DEF Scraper
        <4>4. gauges' \in [Workers -> Gauges]
          BY <1>0, <4>1, <4>2 DEF Gauges
        <4>5. gauges'[w].engine = gauges[w].engine /\ gauges'[w].error = gauges[w].error
          BY <1>0, <4>1 DEF Gauges
        <4>6. \A v \in Workers \ {w} : gauges'[v] = gauges[v]
          BY <1>0, <4>1
        <4>7. StatsType'
          BY <1>0, <3>0, <3>1, <4>3, <4>4 DEF StatsType
        <4>8. GaugeInv'
          BY <3>0, <3>1, <4>2, <4>3, <4>5, <4>6 DEF GaugeInv
        <4> QED
          BY <4>7, <4>8
      <3> QED
        BY <3>3, <3>4
    <2>4. CASE ScrapeError
      <3>0. hit_stats' = hit_stats /\ scraper.pc = "error" /\ NextWorker
        BY <2>4 DEF ScrapeError, counterVars
      <3>1. PICK w \in Workers, m \in Rates : w = scraper.worker /\ m = scraper.rate
        BY <1>0, <3>0 DEF Scraper
      <3>2. PICK d \in Predictions : d = gauges[w].predicted
        BY <1>0 DEF Gauges
      <3>3. PICK e : e = <<d, m>> /\ e \in {None} \cup (Predictions \X Rates)
        <4>1. <<d, m>> \in Predictions \X Rates
          BY <3>1, <3>2
        <4> QED
          BY <4>1, Zenon
      <3>4. gauges' = [gauges EXCEPT ![w].error = e]
        BY <2>4, <3>1, <3>2, <3>3 DEF ScrapeError
      <3>5. scraper' \in Scraper /\ scraper'.pc = "next"
        BY <2>1, <3>0
      <3>6. gauges' \in [Workers -> Gauges]
        BY <1>0, <3>3, <3>4 DEF Gauges
      <3>7. /\ gauges'[w].engine = gauges[w].engine /\ gauges'[w].predicted = d
            /\ gauges'[w].error = e
        BY <1>0, <3>2, <3>4 DEF Gauges
      <3>8. \A v \in Workers \ {w} : gauges'[v] = gauges[v]
        BY <1>0, <3>4
      <3>9. StatsType'
        BY <1>0, <3>0, <3>5, <3>6 DEF StatsType
      <3>10. gauges[w].engine = m /\ hit_stats[w].prompts > 0
        BY <3>0, <3>1 DEF GaugeInv
      <3>11. GaugeInv'
        <4>1. gauges'[w].error = <<gauges'[w].predicted, gauges'[w].engine>>
          BY <3>3, <3>7, <3>10
        <4> QED
          BY <3>0, <3>1, <3>5, <3>8, <3>10, <4>1 DEF GaugeInv
      <3> QED
        BY <3>9, <3>11
    <2> QED
      BY <1>3, <2>0, <2>2, <2>3, <2>4 DEF Scraped, ScrapeSteps
  <1> QED
    BY <1>1, <1>2, <1>3, StatsCases

(***************************************************************************)
(* The engine's hashes beside the router's                                 *)
(***************************************************************************)
\* The router and the engine are configured with the same block size.
SameBlocks == PrefixBlockChars = block_size

\* With one block size, two blocks that end at one place have one number.
LEMMA EndsMeet ==
    ASSUME NEW Ls \in Nat, NEW Lt \in Nat, NEW b \in Nat, b > 0,
           NEW i \in Nat, NEW j \in Nat, i > 0, j > 0, i <= Ceil(Ls, b), j <= Ceil(Lt, b),
           Smaller(i * b, Ls) = Smaller(j * b, Lt)
    PROVE  i = j
  <1>1. i * b - b < Ls /\ j * b - b < Lt
    BY CeilIs
  <1>2. PICK m \in Nat, n \in Nat : m = i * b /\ n = j * b
    BY Times
  <1>3. (i < j => m + b <= n) /\ (j < i => n + b <= m)
    BY <1>2, Times
  <1>4. m - b < Ls /\ n - b < Lt /\ Smaller(m, Ls) = Smaller(n, Lt)
    BY <1>1, <1>2
  <1>5. ~(m + b <= n) /\ ~(n + b <= m)
    BY <1>4 DEF Smaller
  <1> QED
    BY <1>3, <1>5

\* Two digests are equal iff the two chain hashes are.
LEMMA HashesMeet ==
    ASSUME SameBlocks, NEW p \in Prompts, NEW q \in Prompts,
           NEW i \in 1 .. Len(Chain[p]), NEW j \in 1 .. Len(Chain[q])
    PROVE  /\ EngineHashes[p][i] = EngineHashes[q][j] <=> Chain[p][i] = Chain[q][j]
           /\ Chain[p][i] = Chain[q][j] => i = j
  <1>1. PICK s \in Seq(Char), t \in Seq(Char) :
            s = Text[p] /\ t = Text[q] /\ Chain[p] = chain_hash(s) /\ Chain[q] = chain_hash(t)
    BY PromptText
  <1>2. PICK b \in Nat : b = block_size /\ b = PrefixBlockChars /\ b > 0
    BY BlockSize DEF SameBlocks
  <1>3. PICK Ls \in Nat, Lt \in Nat : Ls = Len(s) /\ Lt = Len(t)
    OBVIOUS
  <1>4. /\ Len(Chain[p]) = Blocks(s) /\ Blocks(s) = Ceil(Ls, b) /\ Blocks(s) \in Nat
        /\ Len(Chain[q]) = Blocks(t) /\ Blocks(t) = Ceil(Lt, b) /\ Blocks(t) \in Nat
    BY <1>1, <1>2, <1>3, ChainDomain DEF Blocks
  <1>5. i \in Nat /\ j \in Nat /\ i > 0 /\ j > 0 /\ i <= Ceil(Ls, b) /\ j <= Ceil(Lt, b)
    BY <1>4
  <1>6. chain_hash(s)[i] = chain_hash(t)[j] <=> i = j /\ CutsAgree(s, t, i, block_size)
    <2>1. i \in 1 .. Blocks(s) /\ j \in 1 .. Blocks(t)
      BY <1>4
    <2> QED
      BY <2>1, ChainsMeet
  <1>7. /\ EngineHashes[p][i] = SubSeq(s, 1, Smaller(i * b, Ls))
        /\ EngineHashes[q][j] = SubSeq(t, 1, Smaller(j * b, Lt))
    <2>1. i \in 1 .. Len(EngineHashes[p]) /\ j \in 1 .. Len(EngineHashes[q])
      BY <1>1, <1>2, <1>3, <1>4, EngineDomain
    <2> QED
      BY <1>1, <1>2, <1>3, <2>1, EngineDomain
  <1>8. PICK e \in Nat, f \in Nat :
            e = Smaller(i * b, Ls) /\ f = Smaller(j * b, Lt) /\ e \in 0 .. Len(s) /\ f \in 0 .. Len(t)
    <2>1. PICK m \in Nat, n \in Nat : m = i * b /\ n = j * b
      BY <1>5, Times
    <2>2. Smaller(m, Ls) \in Nat /\ Smaller(n, Lt) \in Nat /\ Smaller(m, Ls) <= Ls /\ Smaller(n, Lt) <= Lt
      BY DEF Smaller
    <2>3. Smaller(m, Ls) \in 0 .. Len(s) /\ Smaller(n, Lt) \in 0 .. Len(t)
      BY <1>3, <2>2
    <2> QED
      BY <2>1, <2>2, <2>3
  <1>9. SubSeq(s, 1, e) = SubSeq(t, 1, f) => i = j
    <2>1. SubSeq(s, 1, e) = SubSeq(t, 1, f) => e = f
      BY <1>8, CutEqual
    <2> QED
      BY <1>2, <1>5, <1>8, <2>1, EndsMeet
  <1>10. i = j => (CutsAgree(s, t, i, block_size) <=> SubSeq(s, 1, e) = SubSeq(t, 1, f))
    BY <1>2, <1>3, <1>8 DEF CutsAgree
  <1> QED
    BY <1>1, <1>6, <1>7, <1>8, <1>9, <1>10

\* With one block size both sides have as many blocks.
LEMMA SameLength ==
    ASSUME SameBlocks, NEW p \in Prompts
    PROVE  Len(EngineHashes[p]) = Len(Chain[p])
  BY ChainDomain, EngineDomain DEF SameBlocks, Blocks

\* One prompt's hash is among another's on the one side iff it is on the other; with
\* block i they share every block before it.
LEMMA HashesAgree ==
    ASSUME SameBlocks, NEW p \in Prompts, NEW q \in Prompts, NEW i \in 1 .. Len(Chain[p])
    PROVE  /\ EngineHashes[p][i] \in Range(EngineHashes[q]) <=> Chain[p][i] \in Range(Chain[q])
           /\ Chain[p][i] \in Range(Chain[q]) => \A k \in 1 .. i : Chain[p][k] \in Range(Chain[q])
  <1>1. PICK n \in Nat : /\ n = Len(Chain[q]) /\ DOMAIN Chain[q] = 1 .. n
                         /\ DOMAIN EngineHashes[q] = 1 .. n
    BY ChainDomain, EngineDomain, SameLength
  <1>2. \A j \in 1 .. n : EngineHashes[p][i] = EngineHashes[q][j] <=> Chain[p][i] = Chain[q][j]
    BY <1>1, HashesMeet
  <1>3. EngineHashes[p][i] \in Range(EngineHashes[q]) <=> Chain[p][i] \in Range(Chain[q])
    BY <1>1, <1>2 DEF Range
  <1>4. ASSUME Chain[p][i] \in Range(Chain[q]), NEW k \in 1 .. i PROVE Chain[p][k] \in Range(Chain[q])
    <2>1. PICK m \in Nat : m = Len(Chain[p])
      BY ChainDomain
    <2>2. /\ Shared[p][q] \in 0 .. m
          /\ \A l \in 1 .. m : l <= Shared[p][q] <=> Chain[p][l] \in Range(Chain[q])
      BY <2>1, SharedOf
    <2>3. i \in 1 .. m /\ k \in 1 .. m /\ k <= i
      BY <2>1
    <2>4. i <= Shared[p][q]
      BY <1>4, <2>2, <2>3
    <2>5. k <= Shared[p][q]
      BY <2>2, <2>3, <2>4
    <2> QED
      BY <2>2, <2>3, <2>5
  <1> QED
    BY <1>3, <1>4

(***************************************************************************)
(* The engine finds more only with an excuse                               *)
(***************************************************************************)
\* A request that a step did not move.
Stays(q) ==
    /\ Like(req'[q], req[q])
    /\ req[q].excused => req'[q].excused
    /\ req'[q].alone => req[q].alone

\* What a step can have done to a request that is under way after it.
LEMMA StaysOrMoves ==
    ASSUME ReqType, IndexType, [Next]_vars, NEW q \in Requests,
           req'[q].pc \in {"record", "send", "body"}
    PROVE  Stays(q) \/ Match(q) \/ Record(q) \/ Deliver(q)
  <1>1. ASSUME req'[q] = req[q] PROVE Stays(q)
    BY <1>1 DEF Stays, Like
  <1>2. ASSUME NEW r \in Requests, Match(r), r # q PROVE Stays(q)
    <2>1. PICK p \in Prompts, w \in Workers : MatchOutcome(r, p, w)
      BY <1>2, MatchStep
    <2> QED
      BY <1>2, <2>1 DEF MatchOutcome, Stays
  <1>3. ASSUME NEW r \in Requests, Record(r), r # q PROVE Stays(q)
    <2>1. RecordOutcome(r)
      BY <1>3, RecordStep
    <2> QED
      BY <1>3, <2>1 DEF RecordOutcome, Stays
  <1>4. ASSUME NEW r \in Requests, Deliver(r), r # q PROVE Stays(q)
    <2>1. DeliverOutcome(r)
      BY <1>4, DeliverStep
    <2>2. req'[q] = req[q]
      BY <1>4, <2>1 DEF DeliverOutcome, Others
    <2> QED
      BY <1>1, <2>2
  <1>5. ASSUME NEW r \in Requests, Settles(r) PROVE Stays(q)
    <2>1. req'[r].pc \in {"idle", "prompts", "stats"} /\ Others(r)
      BY <1>5, SettleStep
    <2>2. req'[q] = req[q]
      BY <2>1 DEF Others
    <2> QED
      BY <1>1, <2>2
  <1>6. ASSUME UNCHANGED req PROVE Stays(q)
    BY <1>1, <1>6
  <1> QED
    BY <1>2, <1>3, <1>4, <1>5, <1>6, ReqCases

\* KnownInv is inductive.
LEMMA KnownStep ==
    ASSUME ReqType, IndexType, EngineType, CreditInv, KnownInv, [Next]_vars
    PROVE  KnownInv'
  <1>1. KnownGrows /\ ReqType'
    BY IndexStep, ReqStep
  <1>2. ASSUME NEW r \in Requests, req'[r].pc = "send", NEW w, w = req'[r].worker
        PROVE  Range(Chain[req'[r].prompt]) \subseteq Known(w)'
    <2>1. w \in Workers
      BY <1>1, <1>2 DEF ReqType, Local
    <2>2. CASE Stays(r)
      <3>1. req[r].pc = "send" /\ req'[r].prompt = req[r].prompt /\ req'[r].worker = req[r].worker
        BY <1>2, <2>2 DEF Stays, Like
      <3>2. Range(Chain[req[r].prompt]) \subseteq Known(req[r].worker)
        BY <3>1 DEF KnownInv
      <3> QED
        BY <1>1, <1>2, <2>1, <3>1, <3>2 DEF KnownGrows
    <2>3. CASE Record(r)
      <3>1. PICK R : R = Range(Chain[req[r].prompt])
        OBVIOUS
      <3>2. req'[r].prompt = req[r].prompt /\ req[r].worker = w
        BY <1>2, <2>3, <3>1, RecordStep DEF RecordOutcome
      <3>3. credit' = [credit EXCEPT ![w] = @ \cup R]
        BY <2>3, <3>1, <3>2 DEF Record
      <3>4. R \subseteq credit'[w]
        BY <2>1, <3>2, <3>3 DEF IndexType
      <3> QED
        BY <3>1, <3>2, <3>4 DEF Known
    <2>4. CASE Match(r)
      BY <1>2, <2>4, MatchStep DEF MatchOutcome
    <2>5. CASE Deliver(r)
      BY <1>2, <2>5, DeliverStep DEF DeliverOutcome
    <2> QED
      BY <1>2, <2>2, <2>3, <2>4, <2>5, StaysOrMoves
  <1>3. ASSUME NEW w \in Workers, NEW h \in Range(cache'[w])
        PROVE  \E p \in Prompts : h \in Range(EngineHashes[p]) /\ Range(Chain[p]) \subseteq Known(w)'
    <2>1. ASSUME h \in Range(cache[w])
          PROVE  \E p \in Prompts : h \in Range(EngineHashes[p]) /\ Range(Chain[p]) \subseteq Known(w)'
      <3>1. PICK p \in Prompts : h \in Range(EngineHashes[p]) /\ Range(Chain[p]) \subseteq Known(w)
        BY <2>1 DEF KnownInv
      <3>2. Range(Chain[p]) \subseteq Known(w)'
        BY <1>1, <3>1 DEF KnownGrows
      <3> QED
        BY <3>1, <3>2
    <2>2. ASSUME NEW r \in Requests, Deliver(r), h \notin Range(cache[w])
          PROVE  \E p \in Prompts : h \in Range(EngineHashes[p]) /\ Range(Chain[p]) \subseteq Known(w)'
      <3>1. w = req[r].worker /\ h \in Range(EngineHashes[req[r].prompt])
        BY <2>2, CacheStep
      <3>2. req[r].pc = "send" /\ req[r].prompt \in Prompts
        BY <2>2 DEF Deliver, ReqType, Local
      <3>3. Range(Chain[req[r].prompt]) \subseteq Known(w)
        BY <3>1, <3>2 DEF KnownInv
      <3>4. Range(Chain[req[r].prompt]) \subseteq Known(w)'
        BY <1>1, <3>3 DEF KnownGrows
      <3> QED
        BY <3>1, <3>2, <3>4
    <2>3. CASE cache'[w] = cache[w]
      BY <2>1, <2>3
    <2>4. CASE cache'[w] = <<>>
      BY <2>4 DEF Range
    <2> QED
      BY <2>1, <2>2, <2>3, <2>4, CacheCases
  <1>4. \A r \in Requests : req'[r].pc = "send" =>
            Range(Chain[req'[r].prompt]) \subseteq credit'[req'[r].worker] \cup forgotten'[req'[r].worker]
    BY <1>2 DEF Known
  <1> QED
    BY <1>3, <1>4 DEF KnownInv, Known

\* What MissedInv says of an unexcused request with prompt p that was told k blocks.
Missing(r, p, k, w) ==
    /\ req[r].pc = "record" => Chain[p][k + 1] \notin credit[w] \cup forgotten[w]
    /\ \A q \in Requests : q # r /\ req[q].pc = "send" /\ req[q].worker = w
                           => Chain[p][k + 1] \notin Range(Chain[req[q].prompt])
    /\ \A i \in k + 1 .. Len(Chain[p]) : EngineHashes[p][i] \notin Range(cache[w])

\* The engine cannot hold a block of which an earlier one was never known.
LEMMA NotHeld ==
    ASSUME SameBlocks, KnownInv, NEW w \in Workers, NEW p \in Prompts,
           NEW k \in Nat, k < Len(Chain[p]), Chain[p][k + 1] \notin Known(w),
           NEW i \in k + 1 .. Len(Chain[p])
    PROVE  EngineHashes[p][i] \notin Range(cache[w])
  <1> SUFFICES ASSUME EngineHashes[p][i] \in Range(cache[w]) PROVE FALSE
    OBVIOUS
  <1>1. PICK q \in Prompts : EngineHashes[p][i] \in Range(EngineHashes[q]) /\ Range(Chain[q]) \subseteq Known(w)
    BY DEF KnownInv
  <1>2. Len(Chain[p]) \in Nat
    BY ChainDomain
  <1>3. i \in 1 .. Len(Chain[p]) /\ k + 1 \in 1 .. i
    BY <1>2
  <1>4. Chain[p][i] \in Range(Chain[q])
    BY <1>1, <1>3, HashesAgree
  <1>5. Chain[p][k + 1] \in Range(Chain[q])
    BY <1>3, <1>4, HashesAgree
  <1> QED
    BY <1>1, <1>5

\* An unexcused request misses a block nobody knows when it is matched,
LEMMA MissingAtMatch ==
    ASSUME SameBlocks, ReqType, IndexType, KnownInv, NEW r \in Requests, Match(r),
           Unexcused(r)', NEW p, p = req'[r].prompt, NEW k, k = req'[r].matched,
           NEW w, w = req'[r].worker
    PROVE  Missing(r, p, k, w)'
  <1>1. /\ MatchOutcome(r, p, w) /\ p \in Prompts /\ w \in Workers
    <2>1. PICK p2 \in Prompts, w2 \in Workers : MatchOutcome(r, p2, w2)
      BY MatchStep
    <2>2. p2 = p /\ w2 = w
      BY <2>1 DEF MatchOutcome
    <2> QED
      BY <2>1, <2>2
  <1>2. credit' = credit /\ forgotten' = forgotten /\ cache' = cache
    BY DEF Match, routerVars, engineVars
  <1>3. k = longest_match(w, Chain[p])
    BY <1>1 DEF MatchOutcome
  <1>4. k < Len(Chain[p]) /\ ~req'[r].excused
    BY DEF Unexcused
  <1>5. Chain[p][k + 1] \notin forgotten[w]
    BY <1>1, <1>4 DEF MatchOutcome
  <1>6. k \in Nat /\ Chain[p][k + 1] \notin credit[w]
    <2>1. k \in 0 .. Len(Chain[p]) /\ Chain[p][k + 1] \notin credit[w]
      BY <1>1, <1>3, <1>4, LongestMatch
    <2> QED
      BY <2>1
  <1>7. Chain[p][k + 1] \notin Known(w)
    BY <1>5, <1>6 DEF Known
  <1>8. ASSUME NEW q \in Requests, q # r, req'[q].pc = "send", req'[q].worker = w
        PROVE  Chain[p][k + 1] \notin Range(Chain[req'[q].prompt])
    <2>1. req[q].pc = "send" /\ req[q].worker = w /\ req[q].prompt = req'[q].prompt
      BY <1>1, <1>8 DEF MatchOutcome, Like
    <2>2. Range(Chain[req[q].prompt]) \subseteq Known(w)
      BY <2>1 DEF KnownInv
    <2> QED
      BY <1>7, <2>1, <2>2
  <1>9. \A i \in k + 1 .. Len(Chain[p]) : EngineHashes[p][i] \notin Range(cache[w])
    BY <1>1, <1>4, <1>6, <1>7, NotHeld
  <1> QED
    BY <1>2, <1>7, <1>8, <1>9 DEF Missing, Known

\* and no step brings the block to the engine before it without excusing it.
LEMMA MissingKept ==
    ASSUME SameBlocks, ReqType, IndexType, EngineType, CreditInv, [Next]_vars,
           NEW r \in Requests, Unexcused(r), Unexcused(r)',
           NEW p, p = req[r].prompt, p = req'[r].prompt,
           NEW k, k = req[r].matched, NEW w, w = req[r].worker,
           req'[r].pc = "record" => req[r].pc = "record", Missing(r, p, k, w)
    PROVE  Missing(r, p, k, w)'
  <1>1. p \in Prompts /\ w \in Workers /\ k \in Nat /\ k < Len(Chain[p]) /\ r \in Travelling(w)
    BY DEF Unexcused, ReqType, Local, LocalRecord, Travelling
  <1>2. PICK n \in Nat : n = Len(Chain[p]) /\ DOMAIN Chain[p] = 1 .. n
    BY <1>1, ChainDomain
  <1>3. k + 1 \in 1 .. n
    BY <1>1, <1>2
  <1>4. KnownGrows /\ ~req'[r].excused
    BY IndexStep DEF Unexcused
  <1>5. ASSUME NEW q \in Requests, q # r, Record(q), req[q].worker = w
        PROVE  Chain[p][k + 1] \notin Range(Chain[req[q].prompt])
    <2>1. RecordOutcome(q)
      BY <1>5, RecordStep
    <2>2. /\ r \in Travelling(w)
          /\ req[r].matched + 1 \in DOMAIN Chain[req[r].prompt]
          /\ Chain[req[r].prompt][req[r].matched + 1] \in Range(Chain[req[q].prompt])
          => req'[r].excused
      BY <1>5, <2>1 DEF RecordOutcome
    <2> QED
      BY <1>1, <1>2, <1>3, <1>4, <2>2
  <1>6. ASSUME req'[r].pc = "record" PROVE Chain[p][k + 1] \notin credit'[w] \cup forgotten'[w]
    <2>1. Chain[p][k + 1] \notin Known(w)
      BY <1>6 DEF Missing, Known
    <2>2. ASSUME Chain[p][k + 1] \in Known(w)' PROVE FALSE
      <3>1. PICK q \in Requests : /\ Record(q) /\ req[q].worker = w
                                  /\ Chain[p][k + 1] \in Range(Chain[req[q].prompt])
        BY <1>1, <1>4, <2>1, <2>2 DEF KnownGrows
      <3>2. q # r
        BY <1>6, <3>1, RecordStep DEF RecordOutcome
      <3> QED
        BY <1>5, <3>1, <3>2
    <2> QED
      BY <2>2 DEF Known
  <1>7. ASSUME NEW q \in Requests, q # r, req'[q].pc = "send", req'[q].worker = w
        PROVE  Chain[p][k + 1] \notin Range(Chain[req'[q].prompt])
    <2>1. CASE Stays(q)
      BY <1>7, <2>1 DEF Stays, Like, Missing
    <2>2. CASE Record(q)
      <3>1. req[q].worker = w /\ req[q].prompt = req'[q].prompt
        BY <1>7, <2>2, RecordStep DEF RecordOutcome
      <3> QED
        BY <1>5, <1>7, <2>2, <3>1
    <2>3. CASE Match(q)
      BY <1>7, <2>3, MatchStep DEF MatchOutcome
    <2>4. CASE Deliver(q)
      BY <1>7, <2>4, DeliverStep DEF DeliverOutcome
    <2> QED
      BY <1>7, <2>1, <2>2, <2>3, <2>4, StaysOrMoves
  <1>8. ASSUME NEW i \in k + 1 .. Len(Chain[p]), EngineHashes[p][i] \in Range(cache'[w]) PROVE FALSE
    <2>1. EngineHashes[p][i] \notin Range(cache[w])
      BY DEF Missing
    <2>2. i \in 1 .. Len(Chain[p]) /\ k + 1 \in 1 .. i
      BY <1>1, <1>2
    <2>3. ASSUME NEW q \in Requests, Deliver(q) PROVE FALSE
      <3>1. w = req[q].worker /\ EngineHashes[p][i] \in Range(EngineHashes[req[q].prompt])
        BY <1>1, <1>8, <2>1, <2>3, CacheStep
      <3>2. req[q].pc = "send" /\ req[q].prompt \in Prompts
        BY <2>3 DEF Deliver, ReqType, Local
      <3>3. q # r
        BY <2>3, DeliverStep DEF DeliverOutcome, Unexcused
      <3>4. Chain[p][k + 1] \notin Range(Chain[req[q].prompt])
        BY <3>1, <3>2, <3>3 DEF Missing
      <3>5. Chain[p][i] \in Range(Chain[req[q].prompt])
        BY <1>1, <2>2, <3>1, <3>2, HashesAgree
      <3>6. Chain[p][k + 1] \in Range(Chain[req[q].prompt])
        BY <1>1, <2>2, <3>2, <3>5, HashesAgree
      <3> QED
        BY <3>4, <3>6
    <2>4. CASE cache'[w] = cache[w]
      BY <1>8, <2>1, <2>4
    <2>5. CASE cache'[w] = <<>>
      BY <1>8, <2>5 DEF Range
    <2> QED
      BY <1>1, <2>3, <2>4, <2>5, CacheCases
  <1> QED
    BY <1>6, <1>7, <1>8 DEF Missing

\* MissedInv is inductive.
LEMMA MissedStep ==
    ASSUME SameBlocks, ReqType, IndexType, EngineType, CreditInv, KnownInv, MissedInv, [Next]_vars
    PROVE  MissedInv'
  <1>0. \A r \in Requests :
            /\ Unexcused(r) => Missing(r, req[r].prompt, req[r].matched, req[r].worker)
            /\ req[r].pc = "body" /\ ~req[r].excused => req[r].hit <= req[r].matched
    BY DEF MissedInv, Missing, Known
  <1>1. ASSUME NEW r \in Requests, Unexcused(r)',
               NEW p, p = req'[r].prompt, NEW k, k = req'[r].matched, NEW w, w = req'[r].worker
        PROVE  Missing(r, p, k, w)'
    <2>0. req'[r].pc \in {"record", "send"} /\ ~req'[r].excused /\ k < Len(Chain[p])
      BY <1>1 DEF Unexcused
    <2>1. CASE Match(r)
      BY <1>1, <2>1, MissingAtMatch
    <2>2. ASSUME req[r].pc \in {"record", "send"}, req[r].prompt = p, req[r].matched = k,
                 req[r].worker = w, req[r].excused => req'[r].excused,
                 req'[r].pc = "record" => req[r].pc = "record"
          PROVE  Missing(r, p, k, w)'
      <3>1. Unexcused(r)
        BY <2>0, <2>2 DEF Unexcused
      <3>2. Missing(r, p, k, w)
        BY <1>0, <2>2, <3>1
      <3> QED
        BY <1>1, <2>2, <3>1, <3>2, MissingKept
    <2>3. CASE Stays(r)
      BY <1>1, <2>0, <2>2, <2>3 DEF Stays, Like
    <2>4. CASE Record(r)
      BY <1>1, <2>2, <2>4, RecordStep DEF RecordOutcome
    <2>5. CASE Deliver(r)
      BY <2>0, <2>5, DeliverStep DEF DeliverOutcome
    <2> QED
      BY <2>0, <2>1, <2>3, <2>4, <2>5, StaysOrMoves
  <1>2. ASSUME NEW r \in Requests, req'[r].pc = "body", ~req'[r].excused
        PROVE  req'[r].hit <= req'[r].matched
    <2>1. CASE Stays(r)
      BY <1>0, <1>2, <2>1 DEF Stays, Like
    <2>2. CASE Deliver(r)
      <3>1. PICK x : x = req[r]
        OBVIOUS
      <3>2. /\ x.pc = "send" /\ req'[r].matched = x.matched /\ ~x.excused
            /\ req'[r].hit = Matched(cache[x.worker], EngineHashes[x.prompt])
        BY <1>2, <2>2, <3>1, DeliverStep DEF DeliverOutcome
      <3>3. x.prompt \in Prompts /\ x.matched \in Nat
        BY <3>1, <3>2 DEF ReqType, Local, LocalRecord
      <3>4. PICK h, p, k, w : h = req'[r].hit /\ p = x.prompt /\ k = x.matched /\ w = x.worker
        OBVIOUS
      <3>5. /\ h \in 0 .. Len(Chain[p]) /\ Len(Chain[p]) \in Nat
            /\ h # 0 => EngineHashes[p][h] \in Range(cache[w])
        <4>1. Len(EngineHashes[p]) = Len(Chain[p]) /\ Len(Chain[p]) \in Nat
          BY <3>3, <3>4, SameLength, ChainDomain
        <4>2. /\ h \in 0 .. Len(EngineHashes[p])
              /\ h # 0 => EngineHashes[p][h] \in Range(cache[w])
          BY <3>2, <3>3, <3>4, MatchedIs
        <4> QED
          BY <4>1, <4>2
      <3>6. CASE k < Len(Chain[p])
        <4>1. Unexcused(r)
          BY <3>1, <3>2, <3>4, <3>6 DEF Unexcused
        <4>2. \A i \in k + 1 .. Len(Chain[p]) : EngineHashes[p][i] \notin Range(cache[w])
          BY <1>0, <3>1, <3>4, <4>1 DEF Missing
        <4>3. ~(h > k)
          <5>1. h > k => h \in k + 1 .. Len(Chain[p]) /\ h # 0
            BY <3>3, <3>4, <3>5
          <5> QED
            BY <3>5, <4>2, <5>1
        <4>4. h <= k
          BY <3>3, <3>4, <3>5, <4>3
        <4> QED
          BY <3>2, <3>4, <4>4
      <3>7. CASE ~(k < Len(Chain[p]))
        BY <3>2, <3>3, <3>4, <3>5, <3>7
      <3> QED
        BY <3>6, <3>7
    <2>3. CASE Match(r)
      BY <1>2, <2>3, MatchStep DEF MatchOutcome
    <2>4. CASE Record(r)
      BY <1>2, <2>4, RecordStep DEF RecordOutcome
    <2> QED
      BY <1>2, <2>1, <2>2, <2>3, <2>4, StaysOrMoves
  <1>3. \A r \in Requests : Unexcused(r)' =>
            \E p, k, w : /\ p = req'[r].prompt /\ k = req'[r].matched /\ w = req'[r].worker
                         /\ Missing(r, p, k, w)'
    BY <1>1
  <1> QED
    BY <1>2, <1>3 DEF MissedInv, Missing, Known

(***************************************************************************)
(* Nothing lost, nothing overtaken: prediction and hit are equal           *)
(***************************************************************************)
Afresh(w) == credit'[w] = {} /\ cache'[w] = <<>> /\ Travelling(w)' = {}

Lossless(w) ==
    /\ exact[w] /\ credit[w] \subseteq credit'[w]
    /\ Range(cache[w]) \subseteq Range(cache'[w])
    /\ \A r \in Travelling(w) :
         /\ req'[r].pc # "idle"
         /\ req'[r].pc = "body" => Range(EngineHashes[req[r].prompt]) \subseteq Range(cache'[w])

\* A worker is exact because both sides are empty or because nothing was lost.
LEMMA ExactCases ==
    ASSUME [Next]_vars, NEW w \in Workers, exact'[w]
    PROVE  Afresh(w) \/ Lossless(w)
  <1>1. CASE UNCHANGED vars
    <2>1. exact' = exact /\ credit' = credit /\ cache' = cache /\ req' = req
      BY <1>1 DEF vars, engineVars, routerVars
    <2>2. \A r \in Travelling(w) : req[r].pc # "idle" /\ req[r].pc # "body"
      BY DEF Travelling
    <2> QED
      BY <2>1, <2>2 DEF Lossless
  <1>2. CASE Next
    <2>1. Observe
      BY <1>2, NextCases
    <2>2. exact'[w] <=> Afresh(w) \/ Lossless(w)
      BY <2>1 DEF Observe, Afresh, Lossless
    <2> QED
      BY <2>2
  <1> QED
    BY <1>1, <1>2

\* A credit grows by a record on the worker only.
LEMMA CreditCases ==
    ASSUME ReqType, IndexType, [Next]_vars, NEW w \in Workers
    PROVE  \/ credit'[w] \subseteq credit[w]
           \/ \E r \in Requests : /\ Record(r) /\ req[r].worker = w
                                  /\ credit'[w] = credit[w] \cup Range(Chain[req[r].prompt])
  <1>0. credit \in [Workers -> SUBSET Hashes]
    BY DEF IndexType
  <1>1. CASE IndexKept
    BY <1>1 DEF IndexKept
  <1>2. ASSUME NEW r \in Requests, Record(r)
        PROVE  \/ credit'[w] \subseteq credit[w]
               \/ req[r].worker = w /\ credit'[w] = credit[w] \cup Range(Chain[req[r].prompt])
    <2>1. PICK v, R : v = req[r].worker /\ R = Range(Chain[req[r].prompt])
      OBVIOUS
    <2>2. credit' = [credit EXCEPT ![v] = @ \cup R]
      BY <1>2, <2>1 DEF Record
    <2> QED
      BY <1>0, <2>1, <2>2
  <1>3. CASE Evict
    BY <1>3 DEF Evict
  <1>4. CASE Purge
    <2>1. credit' = [credit EXCEPT ![purging] = {}]
      BY <1>4 DEF Purge
    <2> QED
      BY <1>0, <2>1
  <1> QED
    BY <1>1, <1>2, <1>3, <1>4, IndexCases

\* A cache grows by a delivery to the worker only.
LEMMA RangeCases ==
    ASSUME ReqType, EngineType, [Next]_vars, NEW w \in Workers
    PROVE  \/ Range(cache'[w]) \subseteq Range(cache[w])
           \/ \E r \in Requests :
                /\ Deliver(r) /\ req[r].worker = w
                /\ Range(cache'[w]) \subseteq Range(cache[w]) \cup Range(EngineHashes[req[r].prompt])
  <1>1. ASSUME NEW r \in Requests, Deliver(r)
        PROVE  \/ Range(cache'[w]) \subseteq Range(cache[w])
               \/ /\ req[r].worker = w
                  /\ Range(cache'[w]) \subseteq Range(cache[w]) \cup Range(EngineHashes[req[r].prompt])
    <2>1. Range(cache'[w]) \subseteq
             Range(cache[w]) \cup (IF w = req[r].worker THEN Range(EngineHashes[req[r].prompt]) ELSE {})
      BY <1>1, CacheStep
    <2> QED
      BY <2>1
  <1>2. ASSUME cache'[w] = cache[w] \/ cache'[w] = <<>>
        PROVE  Range(cache'[w]) \subseteq Range(cache[w])
    BY <1>2 DEF Range
  <1> QED
    BY <1>1, <1>2, CacheCases

\* A request on its way stays so, arrives or fails.
LEMMA SendCases ==
    ASSUME ReqType, IndexType, [Next]_vars, NEW q \in Requests, req[q].pc = "send"
    PROVE  Stays(q) \/ Deliver(q) \/ req'[q].pc = "idle"
  <1>1. CASE req'[q].pc \in {"record", "send", "body"}
    <2>1. ~Match(q) /\ ~Record(q)
      BY DEF Match, Record
    <2> QED
      BY <1>1, <2>1, StaysOrMoves
  <1>2. CASE req'[q].pc \notin {"record", "send", "body"}
    <2>0. ReqType'
      BY ReqStep
    <2>1. req'[q].pc \in {"idle", "prompts", "stats"}
      BY <1>2, <2>0 DEF ReqType, Local, LocalRecord
    <2>2. ASSUME req'[q] = req[q] PROVE FALSE
      BY <1>2, <2>2
    <2>3. ASSUME NEW r \in Requests, Settles(r) PROVE req'[q].pc = "idle"
      <3>1. Others(r)
        BY <2>3, SettleStep
      <3>2. r = q
        BY <2>2, <3>1 DEF Others
      <3>3. Fail(q)
        BY <2>3, <3>2 DEF Settles, Leave, CountHits, CountPrompts, CountStats
      <3>4. req'[q] = Idle
        BY <3>3 DEF Fail, ReqType
      <3> QED
        BY <3>4 DEF Idle
    <2>4. ASSUME NEW r \in Requests, Match(r) PROVE FALSE
      <3>1. r # q
        BY <2>4 DEF Match
      <3>2. PICK p \in Prompts, w \in Workers : MatchOutcome(r, p, w)
        BY <2>4, MatchStep
      <3> QED
        BY <1>2, <3>1, <3>2 DEF MatchOutcome, Like
    <2>5. ASSUME NEW r \in Requests, Record(r) PROVE FALSE
      <3>1. r # q
        BY <2>5 DEF Record
      <3>2. RecordOutcome(r)
        BY <2>5, RecordStep
      <3> QED
        BY <1>2, <3>1, <3>2 DEF RecordOutcome, Like
    <2>6. ASSUME NEW r \in Requests, Deliver(r) PROVE FALSE
      <3>1. DeliverOutcome(r)
        BY <2>6, DeliverStep
      <3> QED
        BY <1>2, <3>1 DEF DeliverOutcome, Others
    <2> QED
      BY <2>2, <2>3, <2>4, <2>5, <2>6, ReqCases
  <1> QED
    BY <1>1, <1>2

\* What is on its way was so before, or was just recorded.
LEMMA OnItsWayBefore ==
    ASSUME ReqType, IndexType, [Next]_vars, NEW w \in Workers, NEW h, OnItsWay(w, h)'
    PROVE  \/ OnItsWay(w, h)
           \/ \E r \in Requests : Record(r) /\ req[r].worker = w /\ h \in Range(Chain[req[r].prompt])
  <1>1. PICK q \in Requests : req'[q].pc = "send" /\ req'[q].worker = w /\ h \in Range(Chain[req'[q].prompt])
    BY DEF OnItsWay
  <1>2. CASE Stays(q)
    BY <1>1, <1>2 DEF Stays, Like, OnItsWay
  <1>3. CASE Record(q)
    BY <1>1, <1>3, RecordStep DEF RecordOutcome
  <1>4. CASE Match(q)
    BY <1>1, <1>4, MatchStep DEF MatchOutcome
  <1>5. CASE Deliver(q)
    BY <1>1, <1>5, DeliverStep DEF DeliverOutcome
  <1> QED
    BY <1>1, <1>2, <1>3, <1>4, <1>5, StaysOrMoves

\* What ExactInv says of block i of prompt p on worker w.
Mirrored(w, p, i) ==
    /\ Chain[p][i] \in credit[w] <=>
         EngineHashes[p][i] \in Range(cache[w]) \/ OnItsWay(w, Chain[p][i])
    /\ Chain[p][i] \in credit[w] => \A j \in 1 .. i : Chain[p][j] \in credit[w]

\* Empty sides mirror each other,
LEMMA MirroredAfresh ==
    ASSUME NEW w \in Workers, NEW p, NEW i, Afresh(w)
    PROVE  Mirrored(w, p, i)'
  <1>1. credit'[w] = {} /\ Range(cache'[w]) = {}
    BY DEF Afresh, Range
  <1>2. ~OnItsWay(w, Chain[p][i])'
    BY DEF Afresh, OnItsWay, Travelling
  <1> QED
    BY <1>1, <1>2 DEF Mirrored

\* and go on to while nothing is lost.
LEMMA MirroredKept ==
    ASSUME SameBlocks, ReqType, IndexType, EngineType, [Next]_vars,
           NEW w \in Workers, NEW p \in Prompts, NEW i \in 1 .. Len(Chain[p]),
           Lossless(w), Mirrored(w, p, i)
    PROVE  Mirrored(w, p, i)'
  <1>1. PICK h, e : h = Chain[p][i] /\ e = EngineHashes[p][i]
    OBVIOUS
  <1>2. /\ credit[w] \subseteq credit'[w] /\ Range(cache[w]) \subseteq Range(cache'[w])
        /\ \A r \in Travelling(w) :
             /\ req'[r].pc # "idle"
             /\ req'[r].pc = "body" => Range(EngineHashes[req[r].prompt]) \subseteq Range(cache'[w])
    BY DEF Lossless
  <1>3. /\ h \in credit[w] <=> e \in Range(cache[w]) \/ OnItsWay(w, h)
        /\ h \in credit[w] => \A j \in 1 .. i : Chain[p][j] \in credit[w]
    BY <1>1 DEF Mirrored
  <1>4. ASSUME NEW r \in Requests, req[r].pc \in {"record", "send"}
        PROVE  /\ req[r].prompt \in Prompts
               /\ e \in Range(EngineHashes[req[r].prompt]) <=> h \in Range(Chain[req[r].prompt])
               /\ h \in Range(Chain[req[r].prompt])
                  => \A j \in 1 .. i : Chain[p][j] \in Range(Chain[req[r].prompt])
    <2>1. PICK q \in Prompts : q = req[r].prompt
      BY <1>4 DEF ReqType, Local
    <2> QED
      BY <1>1, <2>1, HashesAgree
  <1>5. ASSUME NEW r \in Requests, Record(r), req[r].worker = w, h \in Range(Chain[req[r].prompt])
        PROVE  OnItsWay(w, h)' /\ h \in credit'[w] /\ \A j \in 1 .. i : Chain[p][j] \in credit'[w]
    <2>1. PICK R : R = Range(Chain[req[r].prompt])
      OBVIOUS
    <2>2. req[r].pc = "record" /\ req'[r].pc = "send" /\ req'[r].worker = w /\ req'[r].prompt = req[r].prompt
      BY <1>5, RecordStep DEF RecordOutcome
    <2>3. credit' = [credit EXCEPT ![w] = @ \cup R]
      BY <1>5, <2>1 DEF Record
    <2>4. R \subseteq credit'[w]
      BY <2>3 DEF IndexType
    <2>5. \A j \in 1 .. i : Chain[p][j] \in R
      BY <1>4, <1>5, <2>1, <2>2
    <2>6. OnItsWay(w, h)'
      BY <1>5, <2>2 DEF OnItsWay
    <2> QED
      BY <1>5, <2>1, <2>4, <2>5, <2>6
  <1>6. ASSUME OnItsWay(w, h) PROVE e \in Range(cache'[w]) \/ OnItsWay(w, h)'
    <2>1. PICK q \in Requests : req[q].pc = "send" /\ req[q].worker = w /\ h \in Range(Chain[req[q].prompt])
      BY <1>6 DEF OnItsWay
    <2>2. q \in Travelling(w)
      BY <2>1 DEF Travelling
    <2>3. CASE Stays(q)
      BY <2>1, <2>3 DEF Stays, Like, OnItsWay
    <2>4. CASE Deliver(q)
      <3>1. req'[q].pc = "body"
        BY <2>4, DeliverStep DEF DeliverOutcome
      <3>2. e \in Range(EngineHashes[req[q].prompt])
        BY <1>4, <2>1
      <3> QED
        BY <1>2, <2>2, <3>1, <3>2
    <2> QED
      BY <1>2, <2>1, <2>2, <2>3, <2>4, SendCases
  <1>7. ASSUME h \in credit'[w]
        PROVE  /\ e \in Range(cache'[w]) \/ OnItsWay(w, h)'
               /\ \A j \in 1 .. i : Chain[p][j] \in credit'[w]
    <2>1. CASE h \in credit[w]
      BY <1>2, <1>3, <1>6, <2>1
    <2>2. CASE h \notin credit[w]
      <3>1. PICK r \in Requests : /\ Record(r) /\ req[r].worker = w
                                  /\ h \in Range(Chain[req[r].prompt])
        BY <1>7, <2>2, CreditCases
      <3> QED
        BY <1>5, <3>1
    <2> QED
      BY <2>1, <2>2
  <1>8. ASSUME e \in Range(cache'[w]) PROVE h \in credit'[w]
    <2>1. CASE e \in Range(cache[w])
      BY <1>2, <1>3, <2>1
    <2>2. CASE e \notin Range(cache[w])
      <3>1. PICK r \in Requests : /\ Deliver(r) /\ req[r].worker = w
                                  /\ e \in Range(EngineHashes[req[r].prompt])
        BY <1>8, <2>2, RangeCases
      <3>2. req[r].pc = "send"
        BY <3>1, DeliverStep
      <3>3. h \in Range(Chain[req[r].prompt])
        BY <1>4, <3>1, <3>2
      <3>4. OnItsWay(w, h)
        BY <3>1, <3>2, <3>3 DEF OnItsWay
      <3> QED
        BY <1>2, <1>3, <3>4
    <2> QED
      BY <2>1, <2>2
  <1>9. ASSUME OnItsWay(w, h)' PROVE h \in credit'[w]
    <2>1. CASE OnItsWay(w, h)
      BY <1>2, <1>3, <2>1
    <2>2. CASE ~OnItsWay(w, h)
      <3>1. PICK r \in Requests : /\ Record(r) /\ req[r].worker = w
                                  /\ h \in Range(Chain[req[r].prompt])
        BY <1>9, <2>2, OnItsWayBefore
      <3> QED
        BY <1>5, <3>1
    <2> QED
      BY <2>1, <2>2
  <1>10. OnItsWay(w, h)' <=> OnItsWay(w, Chain[p][i])'
    BY <1>1 DEF OnItsWay
  <1> QED
    BY <1>1, <1>7, <1>8, <1>9, <1>10 DEF Mirrored

\* ExactInv is inductive.
LEMMA ExactStep ==
    ASSUME SameBlocks, ReqType, IndexType, EngineType, ExactInv, [Next]_vars
    PROVE  ExactInv'
  <1>1. ASSUME NEW w \in Workers, exact'[w], NEW p \in Prompts, NEW i \in 1 .. Len(Chain[p])
        PROVE  Mirrored(w, p, i)'
    <2>1. CASE Afresh(w)
      BY <2>1, MirroredAfresh
    <2>2. CASE Lossless(w)
      <3>1. exact[w]
        BY <2>2 DEF Lossless
      <3>2. Mirrored(w, p, i)
        BY <3>1 DEF ExactInv, Mirrored
      <3> QED
        BY <2>2, <3>2, MirroredKept
    <2> QED
      BY <1>1, <2>1, <2>2, ExactCases
  <1> QED
    BY <1>1 DEF ExactInv, Mirrored

\* The request was told exactly what the engine holds.
Told(p, k, w) ==
    \A i \in 1 .. Len(Chain[p]) : i <= k <=> EngineHashes[p][i] \in Range(cache[w])

\* Then the engine's match is what the request was told.
LEMMA HitAsTold ==
    ASSUME SameBlocks, NEW p \in Prompts, NEW w, NEW k \in Nat, k <= Len(Chain[p]), Told(p, k, w)
    PROVE  Matched(cache[w], EngineHashes[p]) = k
  <1>1. PICK n \in Nat : n = Len(Chain[p]) /\ n = Len(EngineHashes[p])
    BY ChainDomain, SameLength
  <1>2. PICK m, c : m = Matched(c, EngineHashes[p]) /\ c = cache[w]
    OBVIOUS
  <1>3. /\ m \in 0 .. n /\ (m # 0 => EngineHashes[p][m] \in Range(c))
        /\ \A i \in 1 .. n : EngineHashes[p][i] \in Range(c) => i <= m
    BY <1>1, <1>2, MatchedIs
  <1>4. \A i \in 1 .. n : i <= k <=> EngineHashes[p][i] \in Range(c)
    BY <1>1, <1>2 DEF Told
  <1>5. m <= k
    <2>1. m # 0 => m \in 1 .. n
      BY <1>1, <1>3
    <2>2. m # 0 => m <= k
      BY <1>3, <1>4, <2>1
    <2> QED
      BY <2>2
  <1>6. k <= m
    <2>1. k # 0 => k \in 1 .. n /\ k <= k
      BY <1>1
    <2>2. k # 0 => EngineHashes[p][k] \in Range(c)
      BY <1>4, <2>1
    <2>3. k # 0 => k <= m
      BY <1>3, <2>1, <2>2
    <2> QED
      BY <1>3, <2>3
  <1> QED
    BY <1>2, <1>3, <1>5, <1>6

\* On an exact worker with nothing on its way the match is what the engine holds.
LEMMA ToldAtMatch ==
    ASSUME NEW w \in Workers, NEW p \in Prompts, NEW k, k = longest_match(w, Chain[p]),
           ExactInv, exact[w], Travelling(w) = {}
    PROVE  Told(p, k, w)
  <1>1. PICK n \in Nat : n = Len(Chain[p])
    BY ChainDomain
  <1>2. /\ k \in 0 .. n /\ \A i \in 1 .. k : Chain[p][i] \in credit[w]
        /\ \A m \in 0 .. n : (\A i \in 1 .. m : Chain[p][i] \in credit[w]) => m <= k
    BY <1>1, LongestMatch
  <1>3. ASSUME NEW i \in 1 .. n PROVE i <= k <=> EngineHashes[p][i] \in Range(cache[w])
    <2>1. /\ Chain[p][i] \in credit[w] <=>
               EngineHashes[p][i] \in Range(cache[w]) \/ OnItsWay(w, Chain[p][i])
          /\ Chain[p][i] \in credit[w] => \A j \in 1 .. i : Chain[p][j] \in credit[w]
      BY <1>1 DEF ExactInv
    <2>2. ~OnItsWay(w, Chain[p][i])
      BY DEF OnItsWay, Travelling
    <2>3. i <= k => i \in 1 .. k
      BY <1>2
    <2>4. i \in 0 .. n
      OBVIOUS
    <2> QED
      BY <1>2, <2>1, <2>2, <2>3, <2>4
  <1> QED
    BY <1>1, <1>3 DEF Told

\* The only one on its way, and told right.
Undisturbed(r, p, k, w) == Travelling(w) = {r} /\ (exact[w] => Told(p, k, w))

\* A request is undisturbed from its match on
LEMMA UndisturbedAtMatch ==
    ASSUME ReqType, IndexType, ExactInv, [Next]_vars, NEW r \in Requests, Match(r), req'[r].alone,
           NEW p, p = req'[r].prompt, NEW k, k = req'[r].matched, NEW w, w = req'[r].worker
    PROVE  Undisturbed(r, p, k, w)'
  <1>1. MatchOutcome(r, p, w) /\ p \in Prompts /\ w \in Workers
    <2>1. PICK p2 \in Prompts, w2 \in Workers : MatchOutcome(r, p2, w2)
      BY MatchStep
    <2>2. p2 = p /\ w2 = w
      BY <2>1 DEF MatchOutcome
    <2> QED
      BY <2>1, <2>2
  <1>2. Travelling(w) = {} /\ k = longest_match(w, Chain[p])
    BY <1>1 DEF MatchOutcome
  <1>3. \A q \in Requests \ {r} : Like(req'[q], req[q])
    BY <1>1 DEF MatchOutcome
  <1>4. Travelling(w)' = {r}
    <2>1. req'[r].pc = "record" /\ req'[r].worker = w
      BY <1>1 DEF MatchOutcome
    <2>2. ASSUME NEW q \in Requests, q # r, req'[q].worker = w, req'[q].pc \in {"record", "send"} PROVE FALSE
      <3>1. req[q].worker = w /\ req[q].pc \in {"record", "send"}
        BY <1>3, <2>2 DEF Like
      <3> QED
        BY <1>2, <3>1 DEF Travelling
    <2> QED
      BY <2>1, <2>2 DEF Travelling
  <1>5. ASSUME exact'[w] PROVE Told(p, k, w)'
    <2>1. Lossless(w)
      BY <1>1, <1>4, <1>5, ExactCases DEF Afresh
    <2>2. exact[w]
      BY <2>1 DEF Lossless
    <2>3. Told(p, k, w)
      BY <1>1, <1>2, <2>2, ToldAtMatch
    <2>4. cache' = cache
      BY DEF Match, engineVars
    <2> QED
      BY <2>3, <2>4 DEF Told
  <1> QED
    BY <1>4, <1>5 DEF Undisturbed

\* as long as it is alone.
LEMMA UndisturbedKept ==
    ASSUME ReqType, IndexType, EngineType, [Next]_vars, NEW r \in Requests,
           req[r].pc \in {"record", "send"}, req'[r].pc \in {"record", "send"}, req'[r].alone,
           NEW p, NEW k, NEW w, w = req[r].worker, w = req'[r].worker, Undisturbed(r, p, k, w)
    PROVE  Undisturbed(r, p, k, w)'
  <1>1. w \in Workers /\ Travelling(w) = {r}
    BY DEF ReqType, Local, Undisturbed
  <1>2. ASSUME NEW q \in Requests, req[q].worker = w, req[q].pc \in {"record", "send"} PROVE q = r
    BY <1>1, <1>2 DEF Travelling
  <1>3. Travelling(w)' = {r}
    <2>1. ASSUME NEW q \in Requests, q # r, req'[q].worker = w, req'[q].pc \in {"record", "send"} PROVE FALSE
      <3>1. CASE Stays(q)
        BY <1>2, <2>1, <3>1 DEF Stays, Like
      <3>2. CASE Record(q)
        BY <1>2, <2>1, <3>2, RecordStep DEF RecordOutcome
      <3>3. CASE Match(q)
        <4>1. PICK p2 \in Prompts, w2 \in Workers : MatchOutcome(q, p2, w2)
          BY <3>3, MatchStep
        <4>2. w2 = w
          BY <2>1, <4>1 DEF MatchOutcome
        <4>3. r \notin Travelling(w)
          BY <2>1, <4>1, <4>2 DEF MatchOutcome
        <4> QED
          BY <1>1, <4>3
      <3>4. CASE Deliver(q)
        BY <2>1, <3>4, DeliverStep DEF DeliverOutcome
      <3> QED
        BY <2>1, <3>1, <3>2, <3>3, <3>4, StaysOrMoves
    <2> QED
      BY <2>1 DEF Travelling
  <1>4. ASSUME exact'[w] PROVE Told(p, k, w)'
    <2>1. Lossless(w)
      BY <1>1, <1>3, <1>4, ExactCases DEF Afresh
    <2>2. Told(p, k, w)
      BY <2>1 DEF Undisturbed, Lossless
    <2>3. ASSUME NEW q \in Requests, Deliver(q), req[q].worker = w PROVE FALSE
      <3>1. req[q].pc = "send" /\ req'[q].pc = "body"
        BY <2>3, DeliverStep DEF DeliverOutcome
      <3>2. q = r
        BY <1>2, <2>3, <3>1
      <3> QED
        BY <3>1, <3>2
    <2>4. Range(cache'[w]) = Range(cache[w])
      <3>1. Range(cache'[w]) \subseteq Range(cache[w])
        BY <1>1, <2>3, RangeCases
      <3> QED
        BY <2>1, <3>1 DEF Lossless
    <2> QED
      BY <2>2, <2>4 DEF Told
  <1> QED
    BY <1>3, <1>4 DEF Undisturbed

\* AloneInv is inductive.
LEMMA AloneStep ==
    ASSUME SameBlocks, ReqType, IndexType, EngineType, ExactInv, AloneInv, [Next]_vars
    PROVE  AloneInv'
  <1>0. \A r \in Requests :
            /\ req[r].pc \in {"record", "send"} /\ req[r].alone
               => Undisturbed(r, req[r].prompt, req[r].matched, req[r].worker)
            /\ req[r].pc = "body" /\ req[r].alone => req[r].hit = req[r].matched
    BY DEF AloneInv, Undisturbed, Told
  <1>1. ASSUME NEW r \in Requests, req'[r].pc \in {"record", "send"}, req'[r].alone,
               NEW p, p = req'[r].prompt, NEW k, k = req'[r].matched, NEW w, w = req'[r].worker
        PROVE  Undisturbed(r, p, k, w)'
    <2>1. CASE Match(r)
      BY <1>1, <2>1, UndisturbedAtMatch
    <2>2. ASSUME req[r].pc \in {"record", "send"}, req[r].prompt = p, req[r].matched = k,
                 req[r].worker = w, req[r].alone
          PROVE  Undisturbed(r, p, k, w)'
      <3>1. Undisturbed(r, p, k, w)
        BY <1>0, <2>2
      <3> QED
        BY <1>1, <2>2, <3>1, UndisturbedKept
    <2>3. CASE Stays(r)
      BY <1>1, <2>2, <2>3 DEF Stays, Like
    <2>4. CASE Record(r)
      BY <1>1, <2>2, <2>4, RecordStep DEF RecordOutcome
    <2>5. CASE Deliver(r)
      BY <1>1, <2>5, DeliverStep DEF DeliverOutcome
    <2> QED
      BY <1>1, <2>1, <2>3, <2>4, <2>5, StaysOrMoves
  <1>2. ASSUME NEW r \in Requests, req'[r].pc = "body", req'[r].alone
        PROVE  req'[r].hit = req'[r].matched
    <2>1. CASE Stays(r)
      BY <1>0, <1>2, <2>1 DEF Stays, Like
    <2>2. CASE Deliver(r)
      <3>1. PICK x : x = req[r]
        OBVIOUS
      <3>2. /\ x.pc = "send" /\ req'[r].matched = x.matched /\ x.alone /\ exact[x.worker]
            /\ req'[r].hit = Matched(cache[x.worker], EngineHashes[x.prompt])
        BY <1>2, <2>2, <3>1, DeliverStep DEF DeliverOutcome
      <3>3. x \in Local
        BY <3>1 DEF ReqType
      <3>4. x.prompt \in Prompts /\ x.matched \in Nat /\ x.matched <= Len(Chain[x.prompt])
        BY <3>2, <3>3, LocalRead
      <3>5. Undisturbed(r, x.prompt, x.matched, x.worker)
        BY <1>0, <3>1, <3>2
      <3>6. Told(x.prompt, x.matched, x.worker)
        BY <3>2, <3>5 DEF Undisturbed
      <3> QED
        BY <3>2, <3>4, <3>6, HitAsTold
    <2>3. CASE Match(r)
      BY <1>2, <2>3, MatchStep DEF MatchOutcome
    <2>4. CASE Record(r)
      BY <1>2, <2>4, RecordStep DEF RecordOutcome
    <2> QED
      BY <1>2, <2>1, <2>2, <2>3, <2>4, StaysOrMoves
  <1>3. \A r \in Requests : req'[r].pc \in {"record", "send"} /\ req'[r].alone =>
            \E p, k, w : /\ p = req'[r].prompt /\ k = req'[r].matched /\ w = req'[r].worker
                         /\ Undisturbed(r, p, k, w)'
    BY <1>1
  <1> QED
    BY <1>2, <1>3 DEF AloneInv, Undisturbed, Told, Travelling

(***************************************************************************)
(* The counters                                                            *)
(***************************************************************************)
\* The requests in finish are finitely many.
LEMMA CountingFinite ==
    ASSUME NEW pcs
    PROVE  IsFiniteSet(Counting(pcs)) /\ Counting(pcs) \subseteq Requests
  <1>1. Counting(pcs) \subseteq Requests
    BY DEF Counting
  <1> QED
    BY <1>1, CacheAffinityAssumption, FS_Subset

\* The counter invariant implies the property.
LEMMA CountsAgree == ReqType /\ StatsType /\ CountInv => CountersAgree
  <1> SUFFICES ASSUME ReqType, StatsType, CountInv PROVE CountersAgree
    OBVIOUS
  <1>1. PICK P, Q : P = Counting({"prompts", "stats"}) /\ Q = Counting({"stats"})
    OBVIOUS
  <1>2. IsFiniteSet(P) /\ IsFiniteSet(Q) /\ P \subseteq Requests /\ Q \subseteq Requests
    BY <1>1, CountingFinite
  <1>3. /\ \A w \in Workers : Hits[w] = hit_stats[w]["hits"]
        /\ \A w \in Workers : PromptCounts[w] = hit_stats[w]["prompts"]
        /\ \A r \in P : Matches[r] = req[r]["matched"]
        /\ \A r \in Q : BlockCounts[r] = req[r]["blocks"]
    BY <1>2 DEF Hits, PromptCounts, Matches, BlockCounts
  <1>4. /\ FieldSum(hit_stats, "hits", Workers)[Workers] = Total(Hits, Workers)
        /\ FieldSum(hit_stats, "prompts", Workers)[Workers] = Total(PromptCounts, Workers)
        /\ FieldSum(req, "matched", P)[P] = Total(Matches, P)
        /\ FieldSum(req, "blocks", Q)[Q] = Total(BlockCounts, Q)
    BY <1>2, <1>3, CacheAffinityAssumption, FieldSumIs
  <1>5. /\ hit_blocks = FieldSum(hit_stats, "hits", Workers)[Workers] + FieldSum(req, "matched", P)[P]
        /\ prompt_blocks = FieldSum(hit_stats, "prompts", Workers)[Workers] + FieldSum(req, "blocks", Q)[Q]
    BY <1>1, <1>4 DEF CountInv
  <1>6. /\ hit_blocks = MapThenSumSet(LAMBDA w : hit_stats[w].hits, Workers)
                        + MapThenSumSet(LAMBDA r : req[r].matched, P)
        /\ prompt_blocks = MapThenSumSet(LAMBDA w : hit_stats[w].prompts, Workers)
                           + MapThenSumSet(LAMBDA r : req[r].blocks, Q)
    BY <1>5, SumsAre, Zenon
  <1>7. \A w \in Workers : hit_stats[w].hits <= hit_stats[w].prompts
    BY DEF CountInv
  <1> QED
    BY <1>1, <1>6, <1>7, Zenon DEF CountersAgree, Counting

\* Steps outside finish: the counters and the requests in finish stay.
FinishKept ==
    /\ UNCHANGED <<hit_blocks, prompt_blocks, hit_stats>>
    /\ \A q \in Requests : req[q].pc \in {"prompts", "stats"} \/ req'[q].pc \in {"prompts", "stats"}
                           => req'[q] = req[q]

\* The steps of finish, and all others.
LEMMA FinishCases ==
    ASSUME ReqType, IndexType, [Next]_vars
    PROVE  \/ \E r \in Requests : CountHits(r) \/ CountPrompts(r) \/ CountStats(r)
           \/ FinishKept
  <1>1. ASSUME UNCHANGED <<hit_blocks, prompt_blocks, hit_stats>>, req' = req PROVE FinishKept
    BY <1>1 DEF FinishKept
  <1>2. CASE UNCHANGED vars
    BY <1>1, <1>2 DEF vars, statsVars, counterVars
  <1>3. ASSUME NEW r \in Requests, Match(r) PROVE FinishKept
    <2>1. PICK p \in Prompts, w \in Workers : MatchOutcome(r, p, w)
      BY <1>3, MatchStep
    <2>2. req[r].pc = "idle" /\ req'[r].pc = "record"
      BY <1>3, <2>1 DEF Match, MatchOutcome
    <2>3. ASSUME NEW q \in Requests, q # r, req[q].pc \in {"prompts", "stats"} PROVE req'[q] = req[q]
      <3>1. \A v : q \notin Travelling(v)
        BY <2>3 DEF Travelling
      <3> QED
        BY <1>3, <2>3, <3>1 DEF Match
    <2>4. \A q \in Requests \ {r} : req'[q].pc = req[q].pc
      BY <2>1 DEF MatchOutcome, Like
    <2>5. UNCHANGED <<hit_blocks, prompt_blocks, hit_stats>>
      BY <1>3 DEF Match, statsVars, counterVars
    <2> QED
      BY <2>2, <2>3, <2>4, <2>5 DEF FinishKept
  <1>4. ASSUME NEW r \in Requests, Record(r) PROVE FinishKept
    <2>1. RecordOutcome(r)
      BY <1>4, RecordStep
    <2>2. req[r].pc = "record" /\ req'[r].pc = "send"
      BY <1>4, <2>1 DEF Record, RecordOutcome
    <2>3. ASSUME NEW q \in Requests, q # r, req[q].pc \in {"prompts", "stats"} PROVE req'[q] = req[q]
      <3>1. \A v : q \notin Travelling(v)
        BY <2>3 DEF Travelling
      <3> QED
        BY <1>4, <2>3, <3>1 DEF Record
    <2>4. \A q \in Requests \ {r} : req'[q].pc = req[q].pc
      BY <2>1 DEF RecordOutcome, Like
    <2>5. UNCHANGED <<hit_blocks, prompt_blocks, hit_stats>>
      BY <1>4 DEF Record, statsVars, counterVars
    <2> QED
      BY <2>2, <2>3, <2>4, <2>5 DEF FinishKept
  <1>5. ASSUME NEW r \in Requests, Deliver(r) PROVE FinishKept
    <2>1. req[r].pc = "send" /\ req'[r].pc = "body" /\ Others(r)
      BY <1>5, DeliverStep DEF DeliverOutcome
    <2>2. UNCHANGED <<hit_blocks, prompt_blocks, hit_stats>>
      BY <1>5 DEF Deliver, statsVars, counterVars
    <2> QED
      BY <2>1, <2>2 DEF Others, FinishKept
  <1>6. ASSUME NEW r \in Requests, Fail(r) \/ Leave(r) PROVE FinishKept
    <2>1. req[r].pc \in {"send", "body"} /\ req' = [req EXCEPT ![r] = Idle]
      BY <1>6 DEF Fail, Leave
    <2>2. req'[r] = Idle /\ Others(r)
      BY <2>1 DEF ReqType, Others
    <2>3. req'[r].pc = "idle"
      BY <2>2 DEF Idle
    <2>4. UNCHANGED <<hit_blocks, prompt_blocks, hit_stats>>
      BY <1>6 DEF Fail, Leave, statsVars, counterVars
    <2> QED
      BY <2>1, <2>2, <2>3, <2>4 DEF Others, FinishKept
  <1>7. ASSUME NEW w \in Workers, Probe(w) \/ EngineMoves(w) PROVE FinishKept
    <2>1. UNCHANGED <<hit_blocks, prompt_blocks, hit_stats>> /\ req' = req
      BY <1>7 DEF Probe, EngineMoves, statsVars, counterVars
    <2> QED
      BY <1>1, <2>1
  <1>8. ASSUME Evict \/ Purge PROVE FinishKept
    <2>1. UNCHANGED <<hit_blocks, prompt_blocks, hit_stats>> /\ req' = req
      BY <1>8 DEF Evict, Purge, statsVars, counterVars
    <2> QED
      BY <1>1, <2>1
  <1>9. ASSUME Scraped PROVE FinishKept
    <2>1. UNCHANGED counterVars /\ req' = req
      BY <1>9 DEF Scraped, ScrapeRound, ScrapeSteps, ScrapeNext, ScrapeAnswer, ScrapePredict, ScrapeError, counterVars
    <2> QED
      BY <1>1, <2>1 DEF counterVars
  <1>10. CASE Next
    BY <1>3, <1>4, <1>5, <1>6, <1>7, <1>8, <1>9, <1>10, NextCases DEF Settles
  <1> QED
    BY <1>2, <1>10

\* The terms of the sums are natural numbers.
LEMMA CountTypes ==
    ASSUME ReqType, StatsType
    PROVE  /\ \A w \in Workers : Hits[w] \in Nat /\ PromptCounts[w] \in Nat
           /\ \A r \in Requests : Matches[r] \in Nat /\ BlockCounts[r] \in Nat
  <1>1. ASSUME NEW w \in Workers PROVE Hits[w] \in Nat /\ PromptCounts[w] \in Nat
    BY DEF StatsType, Stats, Hits, PromptCounts
  <1>2. ASSUME NEW r \in Requests PROVE Matches[r] \in Nat /\ BlockCounts[r] \in Nat
    <2>1. req[r] \in Local
      BY DEF ReqType
    <2>2. req[r].matched \in Nat /\ req[r].blocks \in Nat
      BY <2>1, LocalRead
    <2> QED
      BY <2>2 DEF Matches, BlockCounts
  <1> QED
    BY <1>1, <1>2

\* The counter invariant is inductive: outside finish,
LEMMA FinishKeptStep ==
    ASSUME ReqType, StatsType, CountInv, FinishKept
    PROVE  CountInv'
  <1>1. hit_blocks' = hit_blocks /\ prompt_blocks' = prompt_blocks /\ hit_stats' = hit_stats
    BY DEF FinishKept
  <1>2. Hits' = Hits /\ PromptCounts' = PromptCounts
    BY <1>1 DEF Hits, PromptCounts
  <1>3. PICK P, Q : P = Counting({"prompts", "stats"}) /\ Q = Counting({"stats"})
    OBVIOUS
  <1>4. Counting({"prompts", "stats"})' = P /\ Counting({"stats"})' = Q
    BY <1>3 DEF FinishKept, Counting
  <1>5. /\ \A r \in P : Matches[r] = Matches'[r]
        /\ \A r \in Q : BlockCounts[r] = BlockCounts'[r]
    BY <1>3 DEF FinishKept, Counting, Matches, BlockCounts
  <1>6. Total(Matches, P) = Total(Matches', P) /\ Total(BlockCounts, Q) = Total(BlockCounts', Q)
    <2>1. IsFiniteSet(P) /\ IsFiniteSet(Q)
      BY <1>3, CountingFinite
    <2> QED
      BY <1>5, <2>1, TotalSame
  <1> QED
    BY <1>1, <1>2, <1>3, <1>4, <1>6 DEF CountInv

\* for its first update,
LEMMA CountHitsStep ==
    ASSUME ReqType, StatsType, CountInv, NEW r \in Requests, CountHits(r)
    PROVE  CountInv'
  <1>1. PICK x, y : x = req[r] /\ y = req'[r]
    OBVIOUS
  <1>2. /\ x.pc = "body" /\ hit_blocks' = hit_blocks + x.matched
        /\ prompt_blocks' = prompt_blocks /\ hit_stats' = hit_stats
    BY <1>1 DEF CountHits, record_cache_hit_blocks
  <1>3. y.pc = "prompts" /\ y.matched = x.matched /\ Others(r)
    <2>1. req' = [req EXCEPT ![r] = [Idle EXCEPT !.pc = "prompts", !.worker = x.worker,
                                                 !.matched = x.matched, !.blocks = x.blocks]]
      BY <1>1 DEF CountHits
    <2>2. y = [Idle EXCEPT !.pc = "prompts", !.worker = x.worker, !.matched = x.matched, !.blocks = x.blocks]
      BY <1>1, <2>1 DEF ReqType
    <2> QED
      BY <2>1, <2>2 DEF Idle, ReqType, Others
  <1>4. PICK P, Q : P = Counting({"prompts", "stats"}) /\ Q = Counting({"stats"})
    OBVIOUS
  <1>5. r \notin P /\ Counting({"prompts", "stats"})' = P \cup {r} /\ Counting({"stats"})' = Q
    BY <1>1, <1>2, <1>3, <1>4 DEF Counting, Others
  <1>6. IsFiniteSet(P) /\ IsFiniteSet(Q) /\ P \subseteq Requests /\ Q \subseteq Requests /\ r \notin Q
    BY <1>1, <1>2, <1>4, CountingFinite DEF Counting
  <1>7. x.matched \in Nat /\ Matches'[r] = x.matched
    <2>1. x \in Local
      BY <1>1 DEF ReqType
    <2> QED
      BY <1>1, <1>3, <2>1, LocalRead DEF Matches
  <1>8. /\ \A q \in P : Matches[q] \in Nat /\ Matches'[q] = Matches[q]
        /\ \A q \in Q : BlockCounts[q] = BlockCounts'[q]
    BY <1>3, <1>5, <1>6, CountTypes DEF Others, Matches, BlockCounts
  <1>9. Total(Matches', P \cup {r}) = x.matched + Total(Matches, P)
    <2>1. PICK f, g : f = Matches /\ g = Matches'
      OBVIOUS
    <2>2. g[r] = x.matched /\ g[r] \in Nat /\ \A q \in P : f[q] \in Nat /\ g[q] = f[q]
      BY <1>7, <1>8, <2>1
    <2>3. Total(g, P \cup {r}) = g[r] + Total(f, P)
      BY <1>5, <1>6, <2>2, TotalJoin
    <2> QED
      BY <2>1, <2>2, <2>3
  <1>10. Total(BlockCounts', Q) = Total(BlockCounts, Q)
    BY <1>6, <1>8, TotalSame
  <1>11. Hits' = Hits /\ PromptCounts' = PromptCounts
    BY <1>2 DEF Hits, PromptCounts
  <1>12. PICK h \in Nat, n \in Nat : h = Total(Hits, Workers) /\ n = Total(Matches, P)
    BY <1>6, <1>8, CountTypes, CacheAffinityAssumption, TotalNat
  <1>13. hit_blocks' = h + (x.matched + n)
    <2>1. hit_blocks = h + n
      BY <1>4, <1>12 DEF CountInv
    <2> QED
      BY <1>2, <1>7, <1>12, <2>1
  <1> QED
    BY <1>2, <1>4, <1>5, <1>9, <1>10, <1>11, <1>12, <1>13 DEF CountInv

\* its second,
LEMMA CountPromptsStep ==
    ASSUME ReqType, StatsType, CountInv, NEW r \in Requests, CountPrompts(r)
    PROVE  CountInv'
  <1>1. PICK x, y : x = req[r] /\ y = req'[r]
    OBVIOUS
  <1>2. /\ x.pc = "prompts" /\ prompt_blocks' = prompt_blocks + x.blocks
        /\ hit_blocks' = hit_blocks /\ hit_stats' = hit_stats
    BY <1>1 DEF CountPrompts, record_prompt_blocks
  <1>0. x \in Local /\ x \in LocalRecord
    BY <1>1 DEF ReqType, Local
  <1>3. y.pc = "stats" /\ y.matched = x.matched /\ y.blocks = x.blocks /\ Others(r)
    <2>1. req' = [req EXCEPT ![r].pc = "stats"]
      BY <1>1 DEF CountPrompts
    <2>2. y = [x EXCEPT !.pc = "stats"] /\ Others(r)
      BY <1>1, <2>1 DEF ReqType, Others
    <2> QED
      BY <1>0, <2>2 DEF LocalRecord
  <1>4. PICK P, Q : P = Counting({"prompts", "stats"}) /\ Q = Counting({"stats"})
    OBVIOUS
  <1>5. r \notin Q /\ Counting({"prompts", "stats"})' = P /\ Counting({"stats"})' = Q \cup {r}
    BY <1>1, <1>2, <1>3, <1>4 DEF Counting, Others
  <1>6. IsFiniteSet(P) /\ IsFiniteSet(Q) /\ P \subseteq Requests /\ Q \subseteq Requests
    BY <1>4, CountingFinite
  <1>7. x.blocks \in Nat /\ BlockCounts'[r] = x.blocks
    BY <1>0, <1>1, <1>3, LocalRead DEF BlockCounts
  <1>8. /\ \A q \in Q : BlockCounts[q] \in Nat /\ BlockCounts'[q] = BlockCounts[q]
        /\ \A q \in P : Matches[q] = Matches'[q]
    BY <1>1, <1>3, <1>5, <1>6, CountTypes DEF Others, Matches, BlockCounts
  <1>9. Total(BlockCounts', Q \cup {r}) = x.blocks + Total(BlockCounts, Q)
    <2>1. PICK f, g : f = BlockCounts /\ g = BlockCounts'
      OBVIOUS
    <2>2. g[r] = x.blocks /\ g[r] \in Nat /\ \A q \in Q : f[q] \in Nat /\ g[q] = f[q]
      BY <1>7, <1>8, <2>1
    <2>3. Total(g, Q \cup {r}) = g[r] + Total(f, Q)
      BY <1>5, <1>6, <2>2, TotalJoin
    <2> QED
      BY <2>1, <2>2, <2>3
  <1>10. Total(Matches', P) = Total(Matches, P)
    BY <1>6, <1>8, TotalSame
  <1>11. Hits' = Hits /\ PromptCounts' = PromptCounts
    BY <1>2 DEF Hits, PromptCounts
  <1>12. PICK h \in Nat, n \in Nat : h = Total(PromptCounts, Workers) /\ n = Total(BlockCounts, Q)
    BY <1>6, <1>8, CountTypes, CacheAffinityAssumption, TotalNat
  <1>13. prompt_blocks' = h + (x.blocks + n)
    <2>1. prompt_blocks = h + n
      BY <1>4, <1>12 DEF CountInv
    <2> QED
      BY <1>2, <1>7, <1>12, <2>1
  <1> QED
    BY <1>2, <1>4, <1>5, <1>9, <1>10, <1>11, <1>12, <1>13 DEF CountInv

\* and its third.
LEMMA CountStatsStep ==
    ASSUME ReqType, StatsType, CountInv, NEW r \in Requests, CountStats(r)
    PROVE  CountInv'
  <1>1. PICK x : x = req[r] /\ x \in Local
    BY DEF ReqType
  <1>2. /\ x.pc = "stats" /\ hit_blocks' = hit_blocks /\ prompt_blocks' = prompt_blocks
        /\ hit_stats' = [hit_stats EXCEPT ![x.worker] = [hits |-> @.hits + x.matched,
                                                          prompts |-> @.prompts + x.blocks]]
        /\ req' = [req EXCEPT ![r] = Idle]
    BY <1>1 DEF CountStats, record_hit_stats
  <1>3. PICK w \in Workers, m \in Nat, b \in Nat : w = x.worker /\ m = x.matched /\ b = x.blocks /\ m <= b
    BY <1>1, <1>2, LocalRead
  <1>4. req'[r].pc = "idle" /\ Others(r)
    BY <1>2 DEF ReqType, Others, Idle
  <1>5. PICK P, Q : P = Counting({"prompts", "stats"})' /\ Q = Counting({"stats"})'
    OBVIOUS
  <1>6. /\ r \notin P /\ Counting({"prompts", "stats"}) = P \cup {r}
        /\ r \notin Q /\ Counting({"stats"}) = Q \cup {r}
    BY <1>1, <1>2, <1>4, <1>5 DEF Counting, Others
  <1>7. IsFiniteSet(P) /\ IsFiniteSet(Q) /\ P \subseteq Requests /\ Q \subseteq Requests
    <2>1. P \subseteq Requests /\ Q \subseteq Requests
      BY <1>5 DEF Counting
    <2> QED
      BY <2>1, CacheAffinityAssumption, FS_Subset
  <1>8. /\ \A q \in P : Matches'[q] \in Nat /\ Matches[q] = Matches'[q]
        /\ \A q \in Q : BlockCounts'[q] \in Nat /\ BlockCounts[q] = BlockCounts'[q]
        /\ Matches[r] = m /\ BlockCounts[r] = b
    BY <1>1, <1>3, <1>4, <1>6, <1>7, CountTypes DEF Others, Matches, BlockCounts
  <1>9. /\ Total(Matches, P \cup {r}) = m + Total(Matches', P)
        /\ Total(BlockCounts, Q \cup {r}) = b + Total(BlockCounts', Q)
    BY <1>6, <1>7, <1>8, TotalJoin
  <1>10. ASSUME NEW v \in Workers
         PROVE  /\ hit_stats'[v].hits = hit_stats[v].hits + (IF v = w THEN m ELSE 0)
                /\ hit_stats'[v].prompts = hit_stats[v].prompts + (IF v = w THEN b ELSE 0)
                /\ hit_stats[v].hits \in Nat /\ hit_stats[v].prompts \in Nat
    <2>1. hit_stats \in [Workers -> Stats]
      BY DEF StatsType
    <2>2. hit_stats[v].hits \in Nat /\ hit_stats[v].prompts \in Nat
      BY <2>1 DEF Stats
    <2>3. hit_stats' = [hit_stats EXCEPT ![w] = [hits |-> @.hits + m, prompts |-> @.prompts + b]]
      BY <1>2, <1>3
    <2>4. CASE v = w
      <3>1. hit_stats'[v] = [hits |-> hit_stats[v].hits + m, prompts |-> hit_stats[v].prompts + b]
        BY <2>1, <2>3, <2>4
      <3> QED
        BY <2>2, <2>4, <3>1
    <2>5. CASE v # w
      <3>1. hit_stats'[v] = hit_stats[v]
        BY <2>1, <2>3, <2>5
      <3> QED
        BY <2>2, <2>5, <3>1
    <2> QED
      BY <2>4, <2>5
  <1>11. /\ \A v \in Workers : /\ Hits[v] \in Nat /\ Hits'[v] \in Nat
                               /\ PromptCounts[v] \in Nat /\ PromptCounts'[v] \in Nat
         /\ \A v \in Workers \ {w} : Hits[v] = Hits'[v] /\ PromptCounts[v] = PromptCounts'[v]
         /\ Hits'[w] = Hits[w] + m /\ PromptCounts'[w] = PromptCounts[w] + b
    BY <1>10 DEF Hits, PromptCounts
  <1>12. IsFiniteSet(Workers)
    BY CacheAffinityAssumption
  <1>13. /\ Total(Hits', Workers) = Total(Hits, Workers) + m /\ Total(Hits, Workers) \in Nat
         /\ Total(PromptCounts', Workers) = Total(PromptCounts, Workers) + b
         /\ Total(PromptCounts, Workers) \in Nat
    <2>1. PICK f, g, c, d : f = Hits /\ g = Hits' /\ c = PromptCounts /\ d = PromptCounts'
      OBVIOUS
    <2>2. /\ \A v \in Workers : f[v] \in Nat
          /\ \A v \in Workers : v # w => g[v] = f[v]
          /\ g[w] = f[w] + m
      BY <1>11, <2>1
    <2>3. /\ \A v \in Workers : c[v] \in Nat
          /\ \A v \in Workers : v # w => d[v] = c[v]
          /\ d[w] = c[w] + b
      BY <1>11, <2>1
    <2>4. Total(g, Workers) = Total(f, Workers) + m /\ Total(f, Workers) \in Nat
      BY <1>12, <2>2, TotalChange, TotalNat
    <2>5. Total(d, Workers) = Total(c, Workers) + b /\ Total(c, Workers) \in Nat
      BY <1>12, <2>3, TotalChange, TotalNat
    <2> QED
      BY <2>1, <2>4, <2>5
  <1>14. Total(Matches', P) \in Nat /\ Total(BlockCounts', Q) \in Nat
    BY <1>7, <1>8, TotalNat
  <1>15. /\ hit_blocks = Total(Hits, Workers) + (m + Total(Matches', P))
         /\ prompt_blocks = Total(PromptCounts, Workers) + (b + Total(BlockCounts', Q))
    BY <1>6, <1>9 DEF CountInv
  <1>16. /\ hit_blocks' = Total(Hits', Workers) + Total(Matches', P)
         /\ prompt_blocks' = Total(PromptCounts', Workers) + Total(BlockCounts', Q)
    BY <1>2, <1>13, <1>14, <1>15
  <1>17. ASSUME NEW v \in Workers PROVE hit_stats'[v].hits <= hit_stats'[v].prompts
    <2>1. hit_stats[v].hits <= hit_stats[v].prompts
      BY DEF CountInv
    <2> QED
      BY <1>3, <1>10, <2>1
  <1> QED
    BY <1>5, <1>16, <1>17 DEF CountInv

\* So it is for every step.
LEMMA CountStep ==
    ASSUME ReqType, IndexType, StatsType, CountInv, [Next]_vars
    PROVE  CountInv'
  BY FinishCases, FinishKeptStep, CountHitsStep, CountPromptsStep, CountStatsStep

(***************************************************************************)
(* The initial states                                                      *)
(***************************************************************************)
\* The initial states satisfy every invariant.
LEMMA InitOK ==
    ASSUME Init
    PROVE  /\ ReqType /\ IndexType /\ EngineType /\ StatsType
           /\ CreditInv /\ KnownInv /\ MissedInv /\ ExactInv /\ AloneInv /\ GaugeInv /\ CountInv
  <1>1. ReqType
    BY IdleLocal DEF Init, ReqType
  <1>2. IndexType
    BY DEF Init, IndexType
  <1>3. cache = [w \in Workers |-> <<>>]
    BY DEF Init, EngineInit
  <1>4. EngineType
    BY <1>3 DEF EngineType
  <1>5. StatsType /\ GaugeInv
    <2>1. /\ hit_stats = [w \in Workers |-> [hits |-> 0, prompts |-> 0]]
          /\ gauges = [w \in Workers |-> [engine |-> None, predicted |-> None, error |-> None]]
          /\ scraper = Sleeping
      BY DEF Init, StatsInit
    <2>2. [hits |-> 0, prompts |-> 0] \in Stats
      BY DEF Stats
    <2>3. [engine |-> None, predicted |-> None, error |-> None] \in Gauges
      BY DEF Gauges, Rates, Predictions
    <2>4. Sleeping \in Scraper /\ Sleeping.pc = "next"
      BY DEF Sleeping, Scraper, Rates
    <2>5. \A w \in Workers : gauges[w].error = None
      BY <2>1
    <2>6. StatsType
      BY <2>1, <2>2, <2>3, <2>4 DEF StatsType
    <2>7. GaugeInv
      BY <2>1, <2>4, <2>5 DEF GaugeInv
    <2> QED
      BY <2>6, <2>7
  <1>6. \A r \in Requests : req[r].pc = "idle"
    BY DEF Init, Idle
  <1>7. \A w \in Workers : credit[w] = {} /\ forgotten[w] = {} /\ sent[w] = {} /\ Range(cache[w]) = {}
    BY <1>3 DEF Init, Range
  <1>8. CreditInv
    BY <1>7 DEF CreditInv, Sent, Known
  <1>9. KnownInv
    BY <1>6, <1>7 DEF KnownInv
  <1>10. MissedInv
    BY <1>6 DEF MissedInv, Unexcused
  <1>11. ExactInv
    BY <1>6, <1>7 DEF ExactInv, OnItsWay
  <1>12. AloneInv
    BY <1>6 DEF AloneInv
  <1>13. CountInv
    <2>1. Counting({"prompts", "stats"}) = {} /\ Counting({"stats"}) = {}
      BY <1>6 DEF Counting
    <2>2. \A w \in Workers : hit_stats[w].hits = 0 /\ hit_stats[w].prompts = 0
      BY DEF Init, StatsInit
    <2>3. PICK z : z = [w \in Workers |-> 0]
      OBVIOUS
    <2>4. Hits = z /\ PromptCounts = z
      BY <2>2, <2>3 DEF Hits, PromptCounts
    <2>5. Total(z, Workers) = 0
      BY <2>3, CacheAffinityAssumption, TotalZero
    <2>6. Total(Matches, {}) = 0 /\ Total(BlockCounts, {}) = 0
      BY TotalEmpty
    <2>7. hit_blocks = 0 /\ prompt_blocks = 0
      BY DEF Init, StatsInit
    <2> QED
      BY <2>1, <2>2, <2>4, <2>5, <2>6, <2>7 DEF CountInv
  <1> QED
    BY <1>1, <1>2, <1>4, <1>5, <1>8, <1>9, <1>10, <1>11, <1>12, <1>13

(***************************************************************************)
(* The theorems                                                            *)
(***************************************************************************)
\* Type correctness: a request between its match and its finish has a worker, until
\* it is delivered a prompt, and was told at most that prompt's blocks; credits,
\* caches, statistics, gauges and the scraper's locals stay what they are declared as.
THEOREM TypeCorrect == Spec => []TypeOK
  <1>1. Init => TypeOK
    BY InitOK DEF TypeOK
  <1>2. Init => CreditInv /\ GaugeInv
    BY InitOK
  <1>3. TypeOK /\ CreditInv /\ GaugeInv /\ [Next]_vars => TypeOK' /\ CreditInv' /\ GaugeInv'
    BY ReqStep, IndexStep, EngineStep, GaugeStep DEF TypeOK
  <1> QED
    BY <1>1, <1>2, <1>3, PTL DEF Spec

\* hashing.rs and prefix.rs, for any number of workers, prompts and requests: the
\* longest match of a prompt is the longest block prefix it shares with a prompt the
\* worker was sent since its last purge, unless one of their entries was evicted, and
\* then it is at most that.
THEOREM CreditAlways == Spec => []CreditIsSharedPrefix
  <1>1. Init => ReqType /\ IndexType /\ CreditInv
    BY InitOK
  <1>2. ReqType /\ IndexType /\ CreditInv /\ [Next]_vars => ReqType' /\ IndexType' /\ CreditInv'
    BY ReqStep, IndexStep
  <1>3. IndexType /\ CreditInv => CreditIsSharedPrefix
    BY CreditShared
  <1> QED
    BY <1>1, <1>2, <1>3, PTL DEF Spec

\* engine_metrics.rs: while the scraper is not at a worker, the prediction error shown
\* for it is that of the two rates shown beside it, however finished requests and
\* scrapes interleave.
THEOREM GaugesAlways == Spec => []GaugesBelongTogether
  <1>1. Init => ReqType /\ IndexType /\ CreditInv /\ StatsType /\ GaugeInv
    BY InitOK
  <1>2. ReqType /\ IndexType /\ CreditInv /\ StatsType /\ GaugeInv /\ [Next]_vars
        => ReqType' /\ IndexType' /\ CreditInv' /\ StatsType' /\ GaugeInv'
    BY ReqStep, IndexStep, GaugeStep
  <1>3. GaugeInv => GaugesBelongTogether
    BY DEF GaugeInv, GaugesBelongTogether
  <1> QED
    BY <1>1, <1>2, <1>3, PTL DEF Spec

\* metrics.rs and api.rs, RequestTelemetry::finish: for any number of workers and of
\* requests finishing at once, the two block counters are the sums of the statistics
\* and of what the requests between two of finish's updates have still to add, and no
\* worker has more hits than prompt blocks.
THEOREM CountersAlways == Spec => []CountersAgree
  <1> DEFINE Inv == ReqType /\ IndexType /\ CreditInv /\ StatsType /\ GaugeInv /\ CountInv
  <1>1. Init => Inv
    BY InitOK
  <1>2. Inv /\ [Next]_vars => Inv'
    BY ReqStep, IndexStep, GaugeStep, CountStep
  <1>3. Inv => CountersAgree
    BY CountsAgree
  <1> QED
    BY <1>1, <1>2, <1>3, PTL DEF Spec

\* With one block size on both sides, an engine finds more of a prompt than router.rs
\* predicted only for a request whose first missing block the index had forgotten, or
\* that another request's record overtook.
THEOREM UnderCreditAlways ==
    ASSUME SameBlocks
    PROVE  Spec => []UnderCreditExplained
  <1> DEFINE Inv == ReqType /\ IndexType /\ EngineType /\ CreditInv /\ KnownInv /\ MissedInv
  <1>1. Init => Inv
    BY InitOK
  <1>2. Inv /\ [Next]_vars => Inv'
    BY ReqStep, IndexStep, EngineStep, KnownStep, MissedStep
  <1>3. Inv => UnderCreditExplained
    <2>1. ASSUME Inv, NEW r \in Requests, req[r].pc = "body", req[r].hit > req[r].matched
          PROVE  req[r].excused
      <3>1. req[r] \in Local
        BY <2>1 DEF ReqType
      <3>2. req[r].hit \in Nat /\ req[r].matched \in Nat
        BY <3>1, LocalRead
      <3>3. ~req[r].excused => req[r].hit <= req[r].matched
        BY <2>1 DEF MissedInv
      <3> QED
        BY <2>1, <3>2, <3>3
    <2> QED
      BY <2>1 DEF UnderCreditExplained
  <1> QED
    BY <1>1, <1>2, <1>3, PTL DEF Spec

\* With one block size on both sides, the mock's cache mirrors the prefix index: a
\* request that no other overtakes, on a worker where neither side has lost anything
\* since both were last empty, hits exactly the blocks the router predicted.
THEOREM MirrorAlways ==
    ASSUME SameBlocks
    PROVE  Spec => []MirrorExact
  <1> DEFINE Inv == ReqType /\ IndexType /\ EngineType /\ CreditInv /\ ExactInv /\ AloneInv
  <1>1. Init => Inv
    BY InitOK
  <1>2. Inv /\ [Next]_vars => Inv'
    BY ReqStep, IndexStep, EngineStep, ExactStep, AloneStep
  <1>3. Inv => MirrorExact
    BY DEF AloneInv, MirrorExact
  <1> QED
    BY <1>1, <1>2, <1>3, PTL DEF Spec
===========================================================================
