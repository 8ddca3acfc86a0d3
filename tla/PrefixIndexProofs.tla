-------------------------- MODULE PrefixIndexProofs -----------------------
(***************************************************************************)
(* Theorems about PrefixIndex, for any number of threads, shards, blocks   *)
(* and workers, any chains, and any Ttl and MaxEntries.                    *)
(***************************************************************************)
EXTENDS PrefixIndex, FiniteSetTheorems, TLAPS

USE PrefixIndexAssumption

(***************************************************************************)
(* Type correctness                                                        *)
(***************************************************************************)
EntriesType ==
    /\ DOMAIN entries \subseteq Blocks
    /\ \A b \in DOMAIN entries : entries[b] \in Entry

Call == [pc : Pc, worker : Workers \cup {NoWorker}, chain : Seq(Blocks), i : Nat,
         now : Nat, matched : Nat, total : Nat, oldest : SUBSET Stamped]

\* What TypeOK says of the locals of one call.
CallOK(c) ==
    /\ c \in Call
    /\ c.pc \in {"record", "read", "stamp", "touch"} =>
         /\ c.worker \in Workers
         /\ c.i \in 1 .. Len(c.chain)
         /\ c.matched \in 0 .. Len(c.chain)
         /\ c.pc = "stamp" => c.i = 1
         /\ c.pc = "touch" => c.i <= c.matched

CallType == call \in [Threads -> Call] /\ \A t \in Threads : CallOK(call[t])

HistoryType ==
    /\ fresh \in [Purgers -> SUBSET Blocks]
    /\ grown \in [Sweepers -> Nat]
    /\ shrunk \in [Sweepers -> Nat]

LEMMA TypeParts ==
    TypeOK <=> EntriesType /\ CallType /\ HistoryType /\ clock \in 0 .. MaxNow
  BY DEF TypeOK, EntriesType, CallType, HistoryType, CallOK, Call

LEMMA Advance ==
    ASSUME NEW c \in Call, NEW d, d = [c EXCEPT !.i = @ + 1]
    PROVE  /\ d \in Call /\ d.i = c.i + 1 /\ d.pc = c.pc
           /\ d.worker = c.worker /\ d.chain = c.chain /\ d.matched = c.matched
  <1>1. c.i + 1 \in Nat
    BY DEF Call
  <1> QED
    BY <1>1 DEF Call

LEMMA IdleOK == CallOK(IdleCall)
  BY DEF CallOK, Call, IdleCall, Pc

LEMMA StepCallType ==
    ASSUME CallType, NEW t \in Threads, NEW c, CallOK(c), Step(t, c)
    PROVE  CallType'
  BY DEF CallType, CallOK, Step

LEMMA NextShardOK ==
    ASSUME NEW c, CallOK(c), c.pc \in {"purge", "expire", "count", "collect"},
           NEW last \in {"purged", "count", "swept", "collect", "trim"}
    PROVE  /\ CallOK(NextShard(c, last))
           /\ NextShard(c, last).worker = c.worker
           /\ \/ /\ c.i = NumShards - 1 /\ NextShard(c, last).pc = last
              \/ /\ c.i # NumShards - 1
                 /\ NextShard(c, last).i = c.i + 1 /\ NextShard(c, last).pc = c.pc
  <1>1. c \in Call /\ c.i \in Nat /\ last \in Pc
    BY DEF CallOK, Call, Pc
  <1>2. CASE c.i = NumShards - 1
    <2>1. NextShard(c, last) = [c EXCEPT !.i = 0, !.pc = last]
      BY <1>2 DEF NextShard
    <2>2. ASSUME NEW d, d = [c EXCEPT !.i = 0, !.pc = last]
          PROVE  d \in Call /\ d.pc = last /\ d.worker = c.worker
      BY <1>1, <2>2 DEF Call
    <2>3. /\ NextShard(c, last) \in Call /\ NextShard(c, last).pc = last
          /\ NextShard(c, last).worker = c.worker
      BY <2>1, <2>2
    <2> QED
      BY <1>2, <2>3 DEF CallOK
  <1>3. CASE c.i # NumShards - 1
    <2>1. NextShard(c, last) = [c EXCEPT !.i = @ + 1]
      BY <1>3 DEF NextShard
    <2>2. /\ NextShard(c, last) \in Call /\ NextShard(c, last).pc = c.pc
          /\ NextShard(c, last).i = c.i + 1 /\ NextShard(c, last).worker = c.worker
      BY <1>1, <2>1, Advance
    <2> QED
      BY <1>3, <2>2 DEF CallOK
  <1> QED
    BY <1>2, <1>3

LEMMA InShardFinite ==
    ASSUME EntriesType, NEW i
    PROVE  Cardinality(InShard(i)) \in Nat
  BY FS_Subset, FS_CardinalityType DEF EntriesType, InShard

LEMMA CallerType ==
    ASSUME EntriesType, CallType, clock \in 0 .. MaxNow, NEW t \in Threads, CallerStep(t)
    PROVE  EntriesType' /\ CallType' /\ clock' \in 0 .. MaxNow
  <1>0. CallOK(call[t]) /\ call[t] \in Call /\ clock' \in 0 .. MaxNow
    BY DEF CallType, CallerStep, RecordCall, RecordBlock, MatchCall, ReadBlock, StampMatch,
       TouchBlock
  <1>1. CASE \E w \in Workers, chain \in Chains : RecordCall(t, w, chain)
    <2>1. PICK w \in Workers, chain \in Chains : RecordCall(t, w, chain)
      BY <1>1
    <2> DEFINE c == [IdleCall EXCEPT !.pc = "record", !.worker = w, !.chain = chain,
                                     !.i = 1, !.now = clock]
    <2>2. chain \in Seq(Blocks) /\ Len(chain) \in Nat \ {0}
      OBVIOUS
    <2>3. CallOK(c)
      <3>1. IdleCall \in Call /\ IdleCall.matched = 0
        BY IdleOK DEF CallOK, IdleCall
      <3>2. clock \in Nat /\ "record" \in Pc /\ "read" \in Pc
        BY DEF Pc
      <3>3. ASSUME NEW d, d = c PROVE CallOK(d)
        <4>1. /\ d \in Call /\ d.i = 1 /\ d.worker = w /\ d.chain = chain /\ d.matched = 0
              /\ d.pc = "record"
          BY <2>2, <3>1, <3>2, <3>3 DEF Call
        <4> QED
          BY <2>2, <4>1 DEF CallOK
      <3> QED
        BY <3>3
    <2> QED
      BY <1>0, <2>1, <2>3, StepCallType DEF RecordCall, EntriesType
  <1>2. CASE RecordBlock(t)
    <2> DEFINE c == call[t]
               d == IF c.i = Len(c.chain) THEN IdleCall ELSE [c EXCEPT !.i = @ + 1]
    <2>1. c.chain[c.i] \in Blocks /\ c.worker \in Workers /\ c.now \in Nat
      BY <1>0, <1>2 DEF RecordBlock, CallOK, Call
    <2>2. CallOK(d)
      <3>1. c.i \in Nat /\ Len(c.chain) \in Nat /\ c.i <= Len(c.chain)
        BY <1>0, <1>2 DEF RecordBlock, CallOK, Call
      <3>2. CASE c.i # Len(c.chain)
        <4>1. /\ d \in Call /\ d.i = c.i + 1 /\ d.pc = c.pc /\ d.worker = c.worker
              /\ d.chain = c.chain /\ d.matched = c.matched
          BY <1>0, <3>1, <3>2, Advance
        <4> HIDE DEF d
        <4> QED
          BY <1>0, <1>2, <3>1, <3>2, <4>1 DEF RecordBlock, CallOK
      <3> QED
        BY <3>2, IdleOK
    <2>3. EntriesType'
      BY <1>2, <2>1 DEF RecordBlock, EntriesType, Entry
    <2> QED
      BY <1>0, <1>2, <2>2, <2>3, StepCallType DEF RecordBlock
  <1>3. CASE \E w \in Workers, chain \in Chains : MatchCall(t, w, chain)
    <2>1. PICK w \in Workers, chain \in Chains : MatchCall(t, w, chain)
      BY <1>3
    <2> DEFINE c == [IdleCall EXCEPT !.pc = "read", !.worker = w, !.chain = chain, !.i = 1]
    <2>2. chain \in Seq(Blocks) /\ Len(chain) \in Nat \ {0}
      OBVIOUS
    <2>3. CallOK(c)
      <3>1. IdleCall \in Call /\ IdleCall.matched = 0
        BY IdleOK DEF CallOK, IdleCall
      <3>2. clock \in Nat /\ "record" \in Pc /\ "read" \in Pc
        BY DEF Pc
      <3>3. ASSUME NEW d, d = c PROVE CallOK(d)
        <4>1. /\ d \in Call /\ d.i = 1 /\ d.worker = w /\ d.chain = chain /\ d.matched = 0
              /\ d.pc = "read"
          BY <2>2, <3>1, <3>2, <3>3 DEF Call
        <4> QED
          BY <2>2, <4>1 DEF CallOK
      <3> QED
        BY <3>3
    <2> QED
      BY <1>0, <2>1, <2>3, StepCallType DEF MatchCall, EntriesType
  <1>4. CASE ReadBlock(t)
    <2> DEFINE c == call[t]
               hit == Credits(entries, c.worker, c.chain[c.i])
               d == [c EXCEPT !.matched = IF hit THEN c.i ELSE c.matched,
                              !.pc = IF hit /\ c.i < Len(c.chain) THEN "read" ELSE "stamp",
                              !.i = IF hit /\ c.i < Len(c.chain) THEN c.i + 1 ELSE 1]
    <2>1. CallOK(d)
      <3>1. /\ c.i \in Nat /\ Len(c.chain) \in Nat /\ c.i <= Len(c.chain) /\ c.i >= 1
            /\ c.matched \in 0 .. Len(c.chain) /\ c.worker \in Workers
        BY <1>0, <1>4 DEF ReadBlock, CallOK, Call
      <3>2. "read" \in Pc /\ "stamp" \in Pc
        BY DEF Pc
      <3> HIDE DEF hit
      <3> DEFINE m == IF hit THEN c.i ELSE c.matched
                 p == IF hit /\ c.i < Len(c.chain) THEN "read" ELSE "stamp"
                 n == IF hit /\ c.i < Len(c.chain) THEN c.i + 1 ELSE 1
      <3>3. /\ m \in 0 .. Len(c.chain) /\ m \in Nat /\ n \in Nat /\ n \in 1 .. Len(c.chain)
            /\ p \in Pc /\ p \in {"read", "stamp"} /\ (p = "stamp" => n = 1)
        BY <3>1, <3>2
      <3>4. d = [c EXCEPT !.matched = m, !.pc = p, !.i = n]
        OBVIOUS
      <3> HIDE DEF m, p, n, d
      <3>5. /\ d \in Call /\ d.i = n /\ d.pc = p
            /\ d.worker = c.worker /\ d.chain = c.chain /\ d.matched = m
        BY <1>0, <3>3, <3>4 DEF Call
      <3> QED
        BY <3>1, <3>3, <3>5 DEF CallOK
    <2>2. Step(t, d)
      BY <1>4 DEF ReadBlock
    <2> QED
      BY <1>0, <1>4, <2>1, <2>2, StepCallType DEF ReadBlock, EntriesType
  <1>5. CASE StampMatch(t)
    <2> DEFINE d == IF call[t].matched = 0 THEN IdleCall
                    ELSE [call[t] EXCEPT !.pc = "touch", !.now = clock]
    <2>1. CallOK(d)
      <3>1. "touch" \in Pc /\ clock \in Nat /\ call[t].matched \in Nat
        BY <1>0 DEF Pc, Call
      <3>2. CASE call[t].matched # 0
        <4>1. /\ d \in Call /\ d.i = call[t].i /\ d.worker = call[t].worker
              /\ d.chain = call[t].chain /\ d.matched = call[t].matched
              /\ d.pc = "touch"
          <5>1. d = [call[t] EXCEPT !.pc = "touch", !.now = clock]
            BY <3>2
          <5> HIDE DEF d
          <5> QED
            BY <1>0, <3>1, <5>1 DEF Call
        <4>2. call[t].i = 1
          BY <1>0, <1>5 DEF StampMatch, CallOK
        <4> HIDE DEF d
        <4> QED
          BY <1>0, <1>5, <3>1, <3>2, <4>1, <4>2 DEF StampMatch, CallOK
      <3> QED
        BY <3>2, IdleOK
    <2> QED
      BY <1>0, <1>5, <2>1, StepCallType DEF StampMatch, EntriesType
  <1>6. CASE TouchBlock(t)
    <2> DEFINE c == call[t]
               d == IF c.i = c.matched THEN IdleCall ELSE [c EXCEPT !.i = @ + 1]
    <2>1. CallOK(d)
      <3>1. /\ c.i \in Nat /\ Len(c.chain) \in Nat /\ c.i <= c.matched
            /\ c.matched \in 0 .. Len(c.chain)
        BY <1>0, <1>6 DEF TouchBlock, CallOK, Call
      <3>2. CASE c.i # c.matched
        <4>1. /\ d \in Call /\ d.i = c.i + 1 /\ d.pc = c.pc /\ d.worker = c.worker
              /\ d.chain = c.chain /\ d.matched = c.matched
          BY <1>0, <3>1, <3>2, Advance
        <4> HIDE DEF d
        <4> QED
          <5>1. c.pc = "touch" /\ c.worker \in Workers
            BY <1>0, <1>6 DEF TouchBlock, CallOK
          <5>2. d.i \in 1 .. Len(c.chain) /\ d.i <= d.matched
            BY <1>0, <3>1, <3>2, <4>1
          <5> HIDE DEF c
          <5> QED
            BY <3>1, <4>1, <5>1, <5>2 DEF CallOK
      <3> QED
        BY <3>2, IdleOK
    <2>2. EntriesType'
      BY <1>0, <1>6 DEF TouchBlock, EntriesType, Entry, Call
    <2> QED
      BY <1>0, <1>6, <2>1, <2>2, StepCallType DEF TouchBlock
  <1> QED
    BY <1>1, <1>2, <1>3, <1>4, <1>5, <1>6 DEF CallerStep

LEMMA ReturnType ==
    ASSUME EntriesType, CallType, clock \in 0 .. MaxNow, NEW t \in Threads, Return(t)
    PROVE  EntriesType' /\ CallType' /\ clock' \in 0 .. MaxNow
  BY IdleOK, StepCallType DEF Return, EntriesType

LEMMA PurgerType ==
    ASSUME EntriesType, CallType, clock \in 0 .. MaxNow, NEW t \in Threads, PurgerStep(t)
    PROVE  EntriesType' /\ CallType' /\ clock' \in 0 .. MaxNow
  <1>0. CallOK(call[t])
    BY DEF CallType
  <1>1. CASE \E w \in Workers : PurgeCall(t, w)
    <2>1. PICK w \in Workers : PurgeCall(t, w)
      BY <1>1
    <2>2. ASSUME NEW d, d = [IdleCall EXCEPT !.pc = "purge", !.worker = w] PROVE CallOK(d)
      <3>1. IdleCall \in Call /\ "purge" \in Pc
        BY IdleOK DEF CallOK, Pc
      <3> QED
        BY <2>2, <3>1 DEF Call, CallOK
    <2> QED
      BY <2>1, <2>2, StepCallType DEF PurgeCall, EntriesType
  <1>2. CASE PurgeShard(t)
    <2>1. CallOK(NextShard(call[t], "purged"))
      BY <1>0, <1>2, NextShardOK DEF PurgeShard
    <2>2. EntriesType'
      BY <1>2 DEF PurgeShard, EntriesType, Entry
    <2> QED
      BY <1>2, <2>1, <2>2, StepCallType DEF PurgeShard
  <1> QED
    BY <1>1, <1>2, ReturnType DEF PurgerStep

LEMMA SweeperType ==
    ASSUME EntriesType, CallType, clock \in 0 .. MaxNow, NEW t \in Threads, SweeperStep(t)
    PROVE  EntriesType' /\ CallType' /\ clock' \in 0 .. MaxNow
  <1>0. CallOK(call[t]) /\ call[t] \in Call
    BY DEF CallType
  <1>1. CASE SweepCall(t)
    <2>1. ASSUME NEW d, d = [IdleCall EXCEPT !.pc = "expire", !.now = clock] PROVE CallOK(d)
      <3>1. IdleCall \in Call /\ "expire" \in Pc /\ clock \in Nat
        BY IdleOK DEF CallOK, Pc
      <3> QED
        BY <2>1, <3>1 DEF Call, CallOK
    <2> QED
      BY <1>1, <2>1, StepCallType DEF SweepCall, EntriesType
  <1>2. CASE ExpireShard(t)
    <2>1. CallOK(NextShard(call[t], "count"))
      BY <1>0, <1>2, NextShardOK DEF ExpireShard
    <2>2. EntriesType'
      BY <1>2 DEF ExpireShard, EntriesType, Restrict
    <2> QED
      BY <1>2, <2>1, <2>2, StepCallType DEF ExpireShard
  <1>3. CASE CountShard(t)
    <2> DEFINE c == [call[t] EXCEPT !.total = @ + Cardinality(InShard(call[t].i))]
               last == IF c.total <= MaxEntries THEN "swept" ELSE "collect"
    <2>1. Cardinality(InShard(call[t].i)) \in Nat
      BY InShardFinite
    <2>2. CallOK(c) /\ c.pc = "count"
      <3>1. call[t].total + Cardinality(InShard(call[t].i)) \in Nat /\ call[t].pc = "count"
        BY <1>0, <1>3, <2>1 DEF CountShard, Call
      <3>2. ASSUME NEW n \in Nat, NEW d, d = [call[t] EXCEPT !.total = n]
            PROVE  CallOK(d) /\ d.pc = "count"
        BY <1>0, <3>1, <3>2 DEF CallOK, Call
      <3> QED
        BY <3>1, <3>2
    <2>3. Step(t, NextShard(c, last)) /\ UNCHANGED <<entries, clock>>
      BY <1>3 DEF CountShard
    <2>4. last \in {"swept", "collect"}
      OBVIOUS
    <2> HIDE DEF c, last
    <2>5. CallOK(NextShard(c, last))
      BY <2>2, <2>4, NextShardOK
    <2> QED
      BY <2>3, <2>5, StepCallType DEF EntriesType
  <1>4. CASE CollectShard(t)
    <2> DEFINE c == call[t]
               found == c.oldest \cup {[hash |-> b, touched |-> entries[b].last_touched] :
                                         b \in InShard(c.i)}
    <2>1. found \in SUBSET Stamped
      BY <1>0 DEF Call, InShard, EntriesType, Entry, Stamped
    <2>2. ASSUME NEW V \in SUBSET found, NEW d, d = [c EXCEPT !.oldest = V]
          PROVE  CallOK(d) /\ d.pc = "collect"
      <3>1. V \in SUBSET Stamped /\ c.pc = "collect"
        BY <1>4, <2>1, <2>2 DEF CollectShard
      <3> HIDE DEF found
      <3> QED
        BY <1>0, <2>2, <3>1 DEF CallOK, Call
    <2>3. \E V \in SUBSET found, last \in {"collect", "swept", "trim"} :
            Step(t, NextShard([c EXCEPT !.oldest = V], last))
      <3>1. CASE c.i < NumShards - 1
        BY <1>4, <3>1 DEF CollectShard
      <3>2. CASE ~(c.i < NumShards - 1)
        <4>1. PICK V \in Oldest(found, c.total) :
                Step(t, NextShard([c EXCEPT !.oldest = V], IF V = {} THEN "swept" ELSE "trim"))
          BY <1>4, <3>2 DEF CollectShard
        <4>2. V \in SUBSET found
          BY <4>1 DEF Oldest
        <4> QED
          BY <4>1, <4>2
      <3> QED
        BY <3>1, <3>2
    <2>4. PICK V \in SUBSET found, last \in {"collect", "swept", "trim"} :
            Step(t, NextShard([c EXCEPT !.oldest = V], last))
      BY <2>3
    <2>5. CallOK(NextShard([c EXCEPT !.oldest = V], last))
      BY <2>2, NextShardOK
    <2>6. UNCHANGED <<entries, clock>>
      BY <1>4 DEF CollectShard
    <2> QED
      BY <2>4, <2>5, <2>6, StepCallType DEF EntriesType
  <1>5. CASE TrimOne(t)
    <2>1. PICK v \in call[t].oldest :
            /\ entries' = Restrict(entries, DOMAIN entries \ {v.hash})
            /\ Step(t, [call[t] EXCEPT !.oldest = call[t].oldest \ {v},
                                !.pc = IF call[t].oldest \ {v} = {} THEN "swept" ELSE "trim"])
      BY <1>5 DEF TrimOne
    <2>2. ASSUME NEW left \in SUBSET Stamped, NEW p \in {"swept", "trim"}, NEW d,
                 d = [call[t] EXCEPT !.oldest = left, !.pc = p]
          PROVE  CallOK(d)
      <3>1. p \in Pc
        BY DEF Pc
      <3> QED
        BY <1>0, <2>2, <3>1 DEF CallOK, Call
    <2>3. call[t].oldest \ {v} \in SUBSET Stamped
      BY <1>0 DEF Call
    <2>4. CallType'
      BY <2>1, <2>2, <2>3, StepCallType
    <2>5. EntriesType'
      BY <2>1 DEF EntriesType, Restrict
    <2> QED
      BY <1>5, <2>4, <2>5 DEF TrimOne
  <1> QED
    BY <1>1, <1>2, <1>3, <1>4, <1>5, ReturnType DEF SweeperStep

LEMMA ObserveType ==
    ASSUME EntriesType, EntriesType', CallType, HistoryType, NEW t \in Threads, Observe(t)
    PROVE  HistoryType'
  <1>0. \A w : RecordedFor(t, w) \subseteq Blocks
    <2>1. PICK c : c = call[t] /\ CallOK(c)
      BY DEF CallType
    <2>2. c.pc = "record" => c.chain[c.i] \in Blocks
      BY <2>1 DEF CallOK, Call
    <2> QED
      BY <2>1, <2>2 DEF RecordedFor
  <1>1. fresh' \in [Purgers -> SUBSET Blocks]
    BY <1>0 DEF Observe, HistoryType
  <1>2. IsFiniteSet(DOMAIN entries' \ DOMAIN entries) /\ IsFiniteSet(DOMAIN entries \ DOMAIN entries')
    BY FS_Subset DEF EntriesType
  <1>3. /\ Cardinality(DOMAIN entries' \ DOMAIN entries) \in Nat
        /\ Cardinality(DOMAIN entries \ DOMAIN entries') \in Nat
        /\ Cardinality(Blocks) \in Nat
    BY <1>2, FS_CardinalityType
  <1>4. grown' \in [Sweepers -> Nat] /\ shrunk' \in [Sweepers -> Nat]
    BY <1>3 DEF Observe, HistoryType, UpToBlocks
  <1> QED
    BY <1>1, <1>4 DEF HistoryType

LEMMA InitType == Init => TypeOK
  <1> SUFFICES ASSUME Init PROVE TypeOK
    OBVIOUS
  <1>1. CallType
    BY IdleOK DEF Init, CallType, CallOK
  <1> QED
    BY <1>1, TypeParts DEF Init, EntriesType, HistoryType

LEMMA StepType == TypeOK /\ [Next]_vars => TypeOK'
  <1> SUFFICES ASSUME TypeOK, [Next]_vars PROVE TypeOK'
    OBVIOUS
  <1>0. EntriesType /\ CallType /\ HistoryType /\ clock \in 0 .. MaxNow
    BY TypeParts
  <1>1. ASSUME NEW t \in Threads, CallerStep(t) \/ PurgerStep(t) \/ SweeperStep(t), Observe(t)
        PROVE  TypeOK'
    <2>1. EntriesType' /\ CallType' /\ clock' \in 0 .. MaxNow
      BY <1>0, <1>1, CallerType, PurgerType, SweeperType
    <2>2. HistoryType'
      BY <1>0, <1>1, <2>1, ObserveType
    <2> QED
      BY <2>1, <2>2 DEF TypeOK, EntriesType, CallType, HistoryType, CallOK, Call
  <1>2. CASE Tick
    BY <1>0, <1>2 DEF Tick, TypeOK
  <1>3. CASE UNCHANGED vars
    BY <1>3 DEF vars, TypeOK
  <1> QED
    BY <1>1, <1>2, <1>3 DEF Next, Threads

\* The index is well typed in every interleaving, and no call's cursor leaves its
\* chain: the touch pass only visits blocks the read pass matched.
THEOREM TypeCorrect == Spec => []TypeOK
  BY InitType, StepType, PTL DEF Spec

(***************************************************************************)
(* No empty entry                                                          *)
(***************************************************************************)
\* A step leaves entries alone, or is one of the lock sections that write.
Writes(t) ==
    \/ RecordBlock(t) \/ TouchBlock(t) \/ PurgeShard(t) \/ ExpireShard(t) \/ TrimOne(t)

LEMMA QuietOrWrites ==
    ASSUME [Next]_vars
    PROVE  UNCHANGED entries \/ \E t \in Threads : Writes(t)
  BY DEF Next, CallerStep, PurgerStep, SweeperStep, RecordCall, MatchCall, ReadBlock,
     StampMatch, PurgeCall, SweepCall, CountShard, CollectShard, Return, Tick, vars, Writes,
     Threads

LEMMA StepNoEmpty == TypeOK /\ NoEmptyEntry /\ [Next]_vars => NoEmptyEntry'
  <1> SUFFICES ASSUME TypeOK, NoEmptyEntry, [Next]_vars PROVE NoEmptyEntry'
    OBVIOUS
  <1>1. CASE UNCHANGED entries
    BY <1>1 DEF NoEmptyEntry
  <1>2. ASSUME NEW t \in Threads, Writes(t) PROVE NoEmptyEntry'
    <2>1. CASE RecordBlock(t)
      BY <2>1 DEF RecordBlock, NoEmptyEntry
    <2>2. CASE TouchBlock(t)
      BY <2>2 DEF TouchBlock, NoEmptyEntry, TypeOK, Entry
    <2>3. CASE PurgeShard(t)
      BY <2>3 DEF PurgeShard, InShard, NoEmptyEntry, TypeOK, Entry
    <2>4. CASE ExpireShard(t)
      BY <2>4 DEF ExpireShard, NoEmptyEntry, Restrict
    <2>5. CASE TrimOne(t)
      BY <2>5 DEF TrimOne, NoEmptyEntry, Restrict
    <2> QED
      BY <1>2, <2>1, <2>2, <2>3, <2>4, <2>5 DEF Writes
  <1> QED
    BY <1>1, <1>2, QuietOrWrites

\* No interleaving of records, touches, purges and sweeps leaves an entry that
\* credits nobody (remove_worker drops the entries it empties).
THEOREM NoEmptyEntryHolds == Spec => []NoEmptyEntry
  <1>1. Init => NoEmptyEntry
    BY DEF Init, NoEmptyEntry
  <1> QED
    BY <1>1, TypeCorrect, StepNoEmpty, PTL DEF Spec

(***************************************************************************)
(* A purge is complete                                                     *)
(***************************************************************************)
\* What PurgeComplete says of one purger.
PurgedBehind(p) ==
    \A b \in DOMAIN entries :
        /\ call[p].pc \in {"purge", "purged"}
        /\ call[p].pc = "purge" => ShardOf[b] < call[p].i
        /\ call[p].worker \in entries[b].workers
        => b \in fresh[p]

\* A credit that was not there before was written by a record.
LEMMA OnlyRecordCredits ==
    ASSUME TypeOK, NEW t \in Threads, CallerStep(t) \/ PurgerStep(t) \/ SweeperStep(t),
           NEW w, NEW b, Credits(entries', w, b), ~Credits(entries, w, b)
    PROVE  b \in RecordedFor(t, w)
  <1>1. UNCHANGED entries \/ Writes(t)
    BY DEF CallerStep, PurgerStep, SweeperStep, RecordCall, MatchCall, ReadBlock,
       StampMatch, PurgeCall, SweepCall, CountShard, CollectShard, Return, Writes
  <1>2. CASE UNCHANGED entries
    BY <1>2
  <1>3. CASE RecordBlock(t)
    BY <1>3 DEF RecordBlock, Credits, RecordedFor
  <1>4. CASE TouchBlock(t)
    BY <1>4 DEF TouchBlock, Credits, TypeOK, Entry
  <1>5. CASE PurgeShard(t)
    BY <1>5 DEF PurgeShard, InShard, Credits, TypeOK, Entry
  <1>6. CASE ExpireShard(t)
    BY <1>6 DEF ExpireShard, Credits, Restrict
  <1>7. CASE TrimOne(t)
    BY <1>7 DEF TrimOne, Credits, Restrict
  <1> QED
    BY <1>1, <1>2, <1>3, <1>4, <1>5, <1>6, <1>7 DEF Writes

LEMMA PurgeOfOthers ==
    ASSUME TypeOK, TypeOK', NEW p \in Purgers, PurgedBehind(p), NEW t \in Threads,
           CallerStep(t) \/ PurgerStep(t) \/ SweeperStep(t), Observe(t),
           call'[p] = call[p]
    PROVE  PurgedBehind(p)'
  <1>1. SUFFICES ASSUME NEW b \in DOMAIN entries',
                        call[p].pc \in {"purge", "purged"},
                        call[p].pc = "purge" => ShardOf[b] < call[p].i,
                        call[p].worker \in entries'[b].workers
                 PROVE  b \in fresh'[p]
    BY DEF PurgedBehind
  <1>2. fresh'[p] = fresh[p] \cup RecordedFor(t, call[p].worker)
    BY <1>1 DEF Observe
  <1>3. Credits(entries', call[p].worker, b)
    BY <1>1 DEF Credits
  <1>4. CASE Credits(entries, call[p].worker, b)
    BY <1>1, <1>2, <1>4 DEF PurgedBehind, Credits
  <1> QED
    BY <1>2, <1>3, <1>4, OnlyRecordCredits

LEMMA PurgeOfOne ==
    ASSUME TypeOK, TypeOK', NEW p \in Purgers, PurgedBehind(p), PurgerStep(p), Observe(p)
    PROVE  PurgedBehind(p)'
  <1>0. p \in Threads /\ CallType
    BY TypeParts DEF Threads
  <1>1. CASE \E w \in Workers : PurgeCall(p, w)
    <2>1. PICK w \in Workers : PurgeCall(p, w)
      BY <1>1
    <2>2. call'[p].pc = "purge" /\ call'[p].i = 0
      BY <1>0, <2>1 DEF PurgeCall, Step, IdleCall, CallType
    <2>3. \A b \in DOMAIN entries' : ShardOf[b] \in Nat
      BY DEF TypeOK, Shards
    <2> QED
      BY <2>2, <2>3 DEF PurgedBehind
  <1>2. CASE PurgeShard(p)
    <2> DEFINE c == call[p]
               d == NextShard(c, "purged")
    <2>1. call'[p] = d /\ c.pc = "purge" /\ CallOK(c) /\ c.i \in Nat
      BY <1>0, <1>2 DEF PurgeShard, Step, CallType, CallOK, Call
    <2>2. /\ d.worker = c.worker
          /\ \/ c.i = NumShards - 1 /\ d.pc = "purged"
             \/ c.i # NumShards - 1 /\ d.i = c.i + 1 /\ d.pc = c.pc
      BY <2>1, NextShardOK
    <2> HIDE DEF d
    <2>3. SUFFICES ASSUME NEW b \in DOMAIN entries',
                          d.pc = "purge" => ShardOf[b] < d.i,
                          d.worker \in entries'[b].workers
                   PROVE  b \in fresh'[p]
      BY <2>1 DEF PurgedBehind
    <2>4. b \in DOMAIN entries /\ b \in Blocks /\ ShardOf[b] \in Shards
      BY <1>2 DEF PurgeShard, TypeOK
    <2>5. ShardOf[b] <= c.i
      BY <2>1, <2>2, <2>3, <2>4 DEF Shards
    <2>6. ShardOf[b] # c.i /\ c.worker \in entries[b].workers
      <3>1. entries'[b] = IF ShardOf[b] = c.i
                          THEN [entries[b] EXCEPT !.workers = @ \ {c.worker}]
                          ELSE entries[b]
        BY <1>2, <2>3 DEF PurgeShard
      <3>2. entries[b] \in Entry
        BY <2>4 DEF TypeOK
      <3>3. c.worker \in entries'[b].workers
        BY <2>2, <2>3
      <3> HIDE DEF c
      <3> QED
        BY <3>1, <3>2, <3>3 DEF Entry
    <2>7. b \in fresh[p]
      BY <2>1, <2>4, <2>5, <2>6 DEF PurgedBehind, Shards
    <2>8. fresh[p] \subseteq fresh'[p]
      BY <2>1 DEF Observe
    <2> QED
      BY <2>7, <2>8
  <1>3. CASE Return(p)
    <2>1. call'[p].pc = "idle"
      BY <1>0, <1>3 DEF Return, Step, IdleCall, CallType
    <2> QED
      BY <2>1 DEF PurgedBehind
  <1> QED
    BY <1>1, <1>2, <1>3 DEF PurgerStep

\* A step of thread t writes the locals of t alone.
LEMMA OwnCall ==
    ASSUME CallType, NEW t \in Threads, CallerStep(t) \/ PurgerStep(t) \/ SweeperStep(t),
           NEW p \in Threads, p # t
    PROVE  call'[p] = call[p]
  BY DEF CallerStep, PurgerStep, SweeperStep, RecordCall, RecordBlock, MatchCall, ReadBlock,
     StampMatch, TouchBlock, PurgeCall, PurgeShard, SweepCall, ExpireShard, CountShard,
     CollectShard, TrimOne, Return, Step, CallType

LEMMA StepPurge == TypeOK /\ TypeOK' /\ PurgeComplete /\ [Next]_vars => PurgeComplete'
  <1> SUFFICES ASSUME TypeOK, TypeOK', PurgeComplete, [Next]_vars, NEW p \in Purgers
               PROVE  PurgedBehind(p)'
    BY DEF PurgeComplete, PurgedBehind
  <1>0. CallType /\ PurgedBehind(p)
    BY TypeParts DEF PurgeComplete, PurgedBehind
  <1>1. ASSUME NEW t \in Threads, t # p,
               CallerStep(t) \/ PurgerStep(t) \/ SweeperStep(t), Observe(t)
        PROVE  PurgedBehind(p)'
    <2>1. call'[p] = call[p]
      BY <1>0, <1>1, OwnCall DEF Threads
    <2> QED
      BY <1>0, <1>1, <2>1, PurgeOfOthers
  <1>2. CASE PurgerStep(p) /\ Observe(p)
    BY <1>0, <1>2, PurgeOfOne
  <1>3. CASE Tick
    BY <1>0, <1>3 DEF Tick, PurgedBehind
  <1>4. CASE UNCHANGED vars
    BY <1>0, <1>4 DEF vars, PurgedBehind
  <1> QED
    BY <1>1, <1>2, <1>3, <1>4 DEF Next, Threads

\* remove_worker visits the shards one lock at a time while everyone else runs;
\* behind it the worker is credited only with what was recorded since it began.
THEOREM PurgeCompleteHolds == Spec => []PurgeComplete
  <1>1. Init => PurgeComplete
    BY DEF Init, PurgeComplete
  <1> QED
    BY <1>1, TypeCorrect, StepPurge, PTL DEF Spec

(***************************************************************************)
(* The index implements PrefixBelief                                       *)
(***************************************************************************)
\* A step that adds no credit and leaves the records under way as they are.
LEMMA Forgets ==
    ASSUME Credited' \subseteq Credited, \A t \in Callers : Pending(t)' = Pending(t)
    PROVE  Belief!BeliefNext
  <1>1. Credited' = Credited \ (Credited \ Credited')
    OBVIOUS
  <1>2. [t \in Callers |-> Pending(t)]' = [t \in Callers |-> Pending(t)]
    OBVIOUS
  <1>3. Belief!Forget
    BY <1>1, <1>2 DEF Belief!Forget
  <1> QED
    BY <1>3 DEF Belief!BeliefNext

\* Among the steps that write entries, only RecordBlock adds a credit.
LEMMA OthersForget ==
    ASSUME TypeOK, [Next]_vars, ~ \E t \in Callers : RecordBlock(t)
    PROVE  Credited' \subseteq Credited
  <1>1. CASE UNCHANGED entries
    BY <1>1 DEF Credited, Credits
  <1>2. ASSUME NEW t \in Threads, Writes(t), ~RecordBlock(t)
        PROVE  Credited' \subseteq Credited
    <2>1. CASE TouchBlock(t)
      BY <2>1 DEF TouchBlock, Credited, Credits, TypeOK, Entry
    <2>2. CASE PurgeShard(t)
      BY <2>2 DEF PurgeShard, InShard, Credited, Credits, TypeOK, Entry
    <2>3. CASE ExpireShard(t)
      BY <2>3 DEF ExpireShard, Credited, Credits, Restrict
    <2>4. CASE TrimOne(t)
      BY <2>4 DEF TrimOne, Credited, Credits, Restrict
    <2> QED
      BY <1>2, <2>1, <2>2, <2>3, <2>4 DEF Writes
  <1>3. UNCHANGED entries \/ \E t \in Threads : Writes(t) /\ ~RecordBlock(t)
    BY DEF Next, CallerStep, PurgerStep, SweeperStep, RecordCall, MatchCall, ReadBlock,
       StampMatch, PurgeCall, SweepCall, CountShard, CollectShard, Return, Tick, vars, Writes,
       Threads, RecordBlock, TouchBlock, PurgeShard, ExpireShard, TrimOne
  <1> QED
    BY <1>1, <1>2, <1>3

LEMMA BeginStep ==
    ASSUME TypeOK, NEW t \in Callers, NEW w \in Workers, NEW chain \in Chains,
           RecordCall(t, w, chain)
    PROVE  Belief!BeliefNext
  <1>0. t \in Threads /\ call \in [Threads -> Call]
    BY TypeParts DEF Threads, CallType
  <1> DEFINE d == [IdleCall EXCEPT !.pc = "record", !.worker = w, !.chain = chain,
                                   !.i = 1, !.now = clock]
             S == {<<w, chain[j]>> : j \in 1 .. Len(chain)}
  <1>1. call' = [call EXCEPT ![t] = d]
    BY DEF RecordCall, Step
  <1>2. d.pc = "record" /\ d.worker = w /\ d.chain = chain /\ d.i = 1
    BY DEF IdleCall
  <1>3. Pending(t)' = S
    <2> HIDE DEF d
    <2> QED
      BY <1>0, <1>1, <1>2 DEF Pending
  <1>4. \A u \in Callers : u # t => Pending(u)' = Pending(u)
    BY <1>0, <1>1 DEF Pending, Threads
  <1>5. Pending(t) = {} /\ Credited' = Credited
    BY DEF RecordCall, Pending, Credited
  <1>6. S \in SUBSET ({w} \X Blocks)
    BY DEF S
  <1> DEFINE before == [u \in Callers |-> Pending(u)]
             after == [u \in Callers |-> Pending(u)']
  <1>7. before[t] = {} /\ after = [before EXCEPT ![t] = S]
    BY <1>3, <1>4, <1>5
  <1>8. Belief!Begin(t)
    BY <1>5, <1>6, <1>7 DEF Belief!Begin
  <1> QED
    BY <1>8 DEF Belief!BeliefNext

LEMMA LearnStep ==
    ASSUME TypeOK, NEW t \in Callers, RecordBlock(t)
    PROVE  Belief!BeliefNext
  <1>0. t \in Threads /\ CallType
    BY TypeParts DEF Threads
  <1> DEFINE c == call[t]
             b == c.chain[c.i]
             d == IF c.i = Len(c.chain) THEN IdleCall ELSE [c EXCEPT !.i = @ + 1]
             pair == <<c.worker, b>>
  <1>1. /\ c \in Call /\ c.pc = "record" /\ c.worker \in Workers
        /\ c.chain \in Seq(Blocks) /\ c.i \in 1 .. Len(c.chain) /\ b \in Blocks
    BY <1>0 DEF RecordBlock, CallType, CallOK, Call
  <1>2. call' = [call EXCEPT ![t] = d]
    BY DEF RecordBlock, Step
  <1>3. Pending(t) = {<<c.worker, c.chain[j]>> : j \in c.i .. Len(c.chain)}
    BY <1>1 DEF Pending
  <1>4. pair \in Pending(t)
    BY <1>1, <1>3
  <1>5. Pending(t)' \in SUBSET Pending(t)
    <2>1. CASE c.i = Len(c.chain)
      BY <1>0, <1>2, <2>1 DEF Pending, IdleCall, CallType
    <2>2. CASE c.i # Len(c.chain)
      <3>1. /\ d.i = c.i + 1 /\ d.pc = c.pc
            /\ d.worker = c.worker /\ d.chain = c.chain
        BY <1>1, <2>2, Advance
      <3>2. call'[t] = d
        BY <1>0, <1>2 DEF CallType
      <3> HIDE DEF d
      <3>3. Pending(t)' = {<<c.worker, c.chain[j]>> : j \in c.i + 1 .. Len(c.chain)}
        BY <1>1, <3>1, <3>2 DEF Pending
      <3> QED
        BY <1>1, <1>3, <3>3
    <2> QED
      BY <2>1, <2>2
  <1>6. \A u \in Callers : u # t => Pending(u)' = Pending(u)
    BY <1>0, <1>2 DEF Pending, Threads, CallType
  <1>7. Credited' = Credited \cup {pair}
    <2> DEFINE old == IF b \in DOMAIN entries THEN entries[b].workers ELSE {}
    <2>1. /\ DOMAIN entries' = DOMAIN entries \cup {b}
          /\ \A x \in DOMAIN entries : x # b => entries'[x] = entries[x]
          /\ entries'[b].workers = old \cup {c.worker}
      BY DEF RecordBlock
    <2>2. ASSUME NEW w \in Workers, NEW x \in Blocks
          PROVE  Credits(entries', w, x) <=> Credits(entries, w, x) \/ (w = c.worker /\ x = b)
      <3>1. CASE x = b
        BY <2>1, <3>1 DEF Credits
      <3>2. CASE x # b
        BY <2>1, <3>2 DEF Credits
      <3> QED
        BY <3>1, <3>2
    <2> HIDE DEF b, c
    <2> QED
      BY <1>1, <2>2 DEF Credited
  <1> DEFINE before == [u \in Callers |-> Pending(u)]
             after == [u \in Callers |-> Pending(u)']
  <1>8. before[t] = Pending(t) /\ after = [before EXCEPT ![t] = Pending(t)']
    BY <1>6
  <1>9. Belief!Learn(t)
    BY <1>4, <1>5, <1>7, <1>8 DEF Belief!Learn
  <1> QED
    BY <1>9 DEF Belief!BeliefNext

\* A step that neither begins nor advances a record leaves Pending alone.
LEMMA QuietPending ==
    ASSUME TypeOK, [Next]_vars, ~ \E t \in Callers : RecordBlock(t),
           ~ \E t \in Callers, w \in Workers, chain \in Chains : RecordCall(t, w, chain)
    PROVE  \A u \in Callers : Pending(u)' = Pending(u)
  <1> SUFFICES ASSUME NEW u \in Callers PROVE Pending(u)' = Pending(u)
    OBVIOUS
  <1>0. u \in Threads /\ CallType
    BY TypeParts DEF Threads
  <1>1. ASSUME NEW t \in Threads, t # u,
               CallerStep(t) \/ PurgerStep(t) \/ SweeperStep(t)
        PROVE  Pending(u)' = Pending(u)
    BY <1>0, <1>1, OwnCall DEF Pending
  <1>2. ASSUME CallerStep(u) PROVE Pending(u)' = Pending(u)
    <2>1. call[u].pc # "record"
      BY <1>2 DEF CallerStep, MatchCall, ReadBlock, StampMatch, TouchBlock
    <2>2. call[u] \in Call
      BY <1>0 DEF CallType
    <2>3. call'[u].pc # "record"
      <3>1. CASE \E w \in Workers, chain \in Chains : MatchCall(u, w, chain)
        BY <1>0, <3>1 DEF MatchCall, Step, IdleCall, CallType
      <3>2. CASE ReadBlock(u)
        <4>1. ASSUME NEW m, NEW n, NEW q \in {"read", "stamp"}, NEW d,
                     d = [call[u] EXCEPT !.matched = m, !.pc = q, !.i = n]
              PROVE  d.pc # "record"
          BY <2>2, <4>1 DEF Call
        <4>2. \E m, n : \E q \in {"read", "stamp"} :
                call'[u] = [call[u] EXCEPT !.matched = m, !.pc = q, !.i = n]
          BY <1>0, <3>2 DEF ReadBlock, Step, CallType
        <4> QED
          BY <4>1, <4>2
      <3>3. CASE StampMatch(u)
        BY <1>0, <2>2, <3>3 DEF StampMatch, Step, IdleCall, CallType, Call
      <3>4. CASE TouchBlock(u)
        BY <1>0, <2>2, <3>4 DEF TouchBlock, Step, IdleCall, CallType, Call
      <3> QED
        BY <1>2, <3>1, <3>2, <3>3, <3>4 DEF CallerStep
    <2> QED
      BY <2>1, <2>3 DEF Pending
  <1>3. CASE call' = call
    BY <1>3 DEF Pending
  <1> QED
    BY <1>1, <1>2, <1>3 DEF Next, Threads, Tick, vars

LEMMA StepBelief == TypeOK /\ [Next]_vars => [Belief!BeliefNext]_(Belief!beliefVars)
  <1> SUFFICES ASSUME TypeOK, [Next]_vars PROVE Belief!BeliefNext
    OBVIOUS
  <1>1. CASE \E t \in Callers : RecordBlock(t)
    BY <1>1, LearnStep
  <1>2. CASE \E t \in Callers, w \in Workers, chain \in Chains : RecordCall(t, w, chain)
    BY <1>2, BeginStep
  <1>3. CASE /\ ~ \E t \in Callers : RecordBlock(t)
             /\ ~ \E t \in Callers, w \in Workers, chain \in Chains : RecordCall(t, w, chain)
    BY <1>3, OthersForget, QuietPending, Forgets
  <1> QED
    BY <1>1, <1>2, <1>3

\* The concurrent, sharded index implements the belief its users reason with: a
\* credit appears only block by block out of a record under way, whatever purges,
\* sweeps and touches run beside it.
THEOREM BeliefRefined == Spec => ImplementsBelief
  <1>1. Init => Belief!BeliefInit
    BY DEF Init, Belief!BeliefInit, Credited, Credits, Pending, IdleCall, Threads
  <1> QED
    BY <1>1, TypeCorrect, StepBelief, PTL DEF Spec, ImplementsBelief, Belief!BeliefSpec

(***************************************************************************)
(* A sweep keeps the cap                                                   *)
(***************************************************************************)
Hashes(S) == {v.hash : v \in S}
Below(D, i) == {b \in D : ShardOf[b] < i}
OnShard(D, i) == {b \in D : ShardOf[b] = i}
Distinct(S) == \A v, x \in S : v.hash = x.hash => v = x

\* Where a sweep stands, for the entries D, the insertions g and the removals k of others
\* since it began. The count lags D by at most g and k; what was collected, with D, is at
\* most what was counted and g; what the collection missed of the shards behind it is at
\* most g; and the victims are the overflow of the count or everything collected.
SweepOK(c, D, g, k) ==
    /\ c.pc \in {"expire", "count", "collect"} => c.i \in Shards
    /\ c.pc \in {"expire", "count"} => c.oldest = {}
    /\ c.pc = "expire" => c.total = 0
    /\ c.pc = "count" => /\ Cardinality(Below(D, c.i)) <= c.total + g
                         /\ c.total <= Cardinality(Below(D, c.i)) + k
                         /\ c.total <= Cardinality(Below(Blocks, c.i))
    /\ c.pc = "collect" => /\ c.total > MaxEntries
                           /\ \A v \in c.oldest : ShardOf[v.hash] < c.i
                           /\ Cardinality(Hashes(c.oldest) \cup D) <= c.total + g
                           /\ Cardinality(Below(D, c.i) \ Hashes(c.oldest)) <= g
                           /\ c.total <= Cardinality(D) + k
    /\ c.pc = "trim" => /\ Cardinality(D \ Hashes(c.oldest)) <= MaxEntries + g
                        /\ MaxEntries + Cardinality(c.oldest) <= c.total
                        /\ MaxEntries + Cardinality(c.oldest) <= Cardinality(D) + k
    /\ c.pc = "swept" => /\ Cardinality(D) <= MaxEntries + g
                         /\ c.total > MaxEntries => MaxEntries <= Cardinality(D) + k
    /\ c.pc \in {"collect", "trim", "swept"} => c.total <= Cardinality(Blocks)
    /\ Distinct(c.oldest)

SweepInv == \A s \in Sweepers : SweepOK(call[s], DOMAIN entries, grown[s], shrunk[s])

LEMMA Finite ==
    ASSUME NEW X, X \subseteq Blocks
    PROVE  /\ IsFiniteSet(X) /\ Cardinality(X) \in Nat /\ Cardinality(Blocks) \in Nat
           /\ Cardinality(X) <= Cardinality(Blocks)
  BY FS_Subset, FS_CardinalityType

LEMMA SubsetCard ==
    ASSUME NEW X, NEW Y, X \subseteq Y, Y \subseteq Blocks
    PROVE  Cardinality(X) <= Cardinality(Y)
  BY Finite, FS_Subset

LEMMA UnionCard ==
    ASSUME NEW X, NEW Y, NEW Z, X \subseteq Blocks, Y \subseteq Blocks, Z \subseteq X \cup Y
    PROVE  Cardinality(Z) <= Cardinality(X) + Cardinality(Y)
  <1>1. X \cup Y \subseteq Blocks /\ X \cap Y \subseteq Blocks /\ Z \subseteq Blocks
    OBVIOUS
  <1>2. Cardinality(X \cup Y) = Cardinality(X) + Cardinality(Y) - Cardinality(X \cap Y)
    BY Finite, FS_Union
  <1>3. Cardinality(Z) <= Cardinality(X \cup Y)
    BY <1>1, SubsetCard
  <1>4. /\ Cardinality(X) \in Nat /\ Cardinality(Y) \in Nat /\ Cardinality(Z) \in Nat
        /\ Cardinality(X \cap Y) \in Nat /\ Cardinality(X \cup Y) \in Nat
    BY <1>1, Finite
  <1> QED
    BY <1>2, <1>3, <1>4

\* Blocks collected once each are as many as their hashes.
LEMMA DistinctHashes ==
    ASSUME NEW S, S \subseteq Stamped, Distinct(S)
    PROVE  /\ Hashes(S) \subseteq Blocks /\ IsFiniteSet(S)
           /\ Cardinality(S) = Cardinality(Hashes(S)) /\ Cardinality(S) \in Nat
  <1>1. Hashes(S) \subseteq Blocks
    BY DEF Hashes, Stamped
  <1> DEFINE f == [h \in Hashes(S) |-> CHOOSE v \in S : v.hash = h]
  <1>2. \A h \in Hashes(S) : f[h] \in S /\ f[h].hash = h
    BY DEF Hashes
  <1>3. \A v \in S : v.hash \in Hashes(S)
    BY DEF Hashes
  <1>4. \A v \in S : f[v.hash] = v
    BY <1>2, <1>3 DEF Distinct
  <1>5. f \in [Hashes(S) -> S]
    BY <1>2
  <1> HIDE DEF f
  <1>6. f \in Bijection(Hashes(S), S)
    <2>1. f \in Injection(Hashes(S), S)
      BY <1>2, <1>5 DEF Injection, IsInjective
    <2>2. f \in Surjection(Hashes(S), S)
      BY <1>3, <1>4, <1>5 DEF Surjection
    <2> QED
      BY <2>1, <2>2 DEF Bijection
  <1>7. ExistsBijection(Hashes(S), S)
    BY <1>6 DEF ExistsBijection
  <1>8. IsFiniteSet(Hashes(S)) /\ Cardinality(Hashes(S)) \in Nat
    BY <1>1, Finite
  <1> QED
    BY <1>1, <1>7, <1>8, FS_Bijection

\* A history count takes in the change X, or is at its ceiling.
Counts(after, before, X) ==
    /\ after \in Nat
    /\ after >= before + Cardinality(X) \/ after >= Cardinality(Blocks)

LEMMA Grown ==
    ASSUME NEW X, X \subseteq Blocks, NEW Y, Y \subseteq Blocks, NEW Z, Z \subseteq Blocks,
           Y \subseteq X \cup Z, NEW n \in Nat, NEW g \in Nat, NEW h, Counts(h, g, Z),
           Cardinality(X) <= n + g
    PROVE  Cardinality(Y) <= n + h
  <1>1. Cardinality(Y) <= Cardinality(X) + Cardinality(Z)
    BY UnionCard
  <1>2. /\ Cardinality(X) \in Nat /\ Cardinality(Y) \in Nat /\ Cardinality(Z) \in Nat
        /\ Cardinality(Blocks) \in Nat /\ Cardinality(Y) <= Cardinality(Blocks)
    BY Finite
  <1> QED
    BY <1>1, <1>2 DEF Counts

LEMMA Shrunk ==
    ASSUME NEW X, X \subseteq Blocks, NEW Y, Y \subseteq Blocks, NEW Z, Z \subseteq Blocks,
           X \subseteq Y \cup Z, NEW n \in Nat, NEW k \in Nat, NEW h, Counts(h, k, Z),
           n <= Cardinality(X) + k, n <= Cardinality(Blocks)
    PROVE  n <= Cardinality(Y) + h
  <1>1. Cardinality(X) <= Cardinality(Y) + Cardinality(Z)
    BY UnionCard
  <1>2. /\ Cardinality(X) \in Nat /\ Cardinality(Y) \in Nat /\ Cardinality(Z) \in Nat
        /\ Cardinality(Blocks) \in Nat
    BY Finite
  <1> QED
    BY <1>1, <1>2 DEF Counts

\* What others insert and remove is in the history counts.
LEMMA SweepFrame ==
    ASSUME NEW c \in Call, NEW D, NEW E, D \subseteq Blocks, E \subseteq Blocks,
           NEW g \in Nat, NEW k \in Nat, NEW h, NEW j,
           Counts(h, g, E \ D), Counts(j, k, D \ E), SweepOK(c, D, g, k)
    PROVE  SweepOK(c, E, h, j)
  <1>1. /\ c.total \in Nat /\ MaxEntries \in Nat /\ c.oldest \subseteq Stamped
        /\ E \ D \subseteq Blocks /\ D \ E \subseteq Blocks
        /\ Cardinality(Blocks) \in Nat /\ h \in Nat /\ j \in Nat
    BY Finite DEF Call, Counts
  <1>2. /\ Hashes(c.oldest) \subseteq Blocks /\ Cardinality(c.oldest) \in Nat
    BY <1>1, DistinctHashes DEF SweepOK
  <1>3. ASSUME c.pc = "count"
        PROVE  /\ Cardinality(Below(E, c.i)) <= c.total + h
               /\ c.total <= Cardinality(Below(E, c.i)) + j
    <2>1. /\ Cardinality(Below(D, c.i)) <= c.total + g
          /\ c.total <= Cardinality(Below(D, c.i)) + k
          /\ c.total <= Cardinality(Below(Blocks, c.i))
      BY <1>3 DEF SweepOK
    <2>2. /\ Below(D, c.i) \subseteq Blocks /\ Below(E, c.i) \subseteq Blocks
          /\ Below(Blocks, c.i) \subseteq Blocks
          /\ Below(E, c.i) \subseteq Below(D, c.i) \cup (E \ D)
          /\ Below(D, c.i) \subseteq Below(E, c.i) \cup (D \ E)
      BY DEF Below
    <2>3. c.total <= Cardinality(Blocks)
      <3>1. /\ Cardinality(Below(Blocks, c.i)) <= Cardinality(Blocks)
            /\ Cardinality(Below(Blocks, c.i)) \in Nat
        BY <2>2, Finite
      <3> QED
        BY <1>1, <2>1, <3>1
    <2>4. Cardinality(Below(E, c.i)) <= c.total + h
      BY <1>1, <2>1, <2>2, Grown
    <2>5. c.total <= Cardinality(Below(E, c.i)) + j
      BY <1>1, <2>1, <2>2, <2>3, Shrunk
    <2> QED
      BY <2>4, <2>5
  <1>4. ASSUME c.pc = "collect"
        PROVE  /\ Cardinality(Hashes(c.oldest) \cup E) <= c.total + h
               /\ Cardinality(Below(E, c.i) \ Hashes(c.oldest)) <= h
               /\ c.total <= Cardinality(E) + j
    <2>1. /\ Cardinality(Hashes(c.oldest) \cup D) <= c.total + g
          /\ Cardinality(Below(D, c.i) \ Hashes(c.oldest)) <= g
          /\ c.total <= Cardinality(D) + k /\ c.total <= Cardinality(Blocks)
      BY <1>4 DEF SweepOK
    <2>2. PICK H : H = Hashes(c.oldest) /\ H \subseteq Blocks
      BY <1>2
    <2>3. Cardinality(H \cup E) <= c.total + h
      <3>1. /\ H \cup D \subseteq Blocks /\ H \cup E \subseteq Blocks
            /\ H \cup E \subseteq (H \cup D) \cup (E \ D)
        BY <2>2
      <3>2. Cardinality(H \cup D) <= c.total + g
        BY <2>1, <2>2
      <3> QED
        BY <1>1, <3>1, <3>2, Grown
    <2>4. Cardinality(Below(E, c.i) \ H) <= h
      <3>1. PICK X, Y : /\ X = Below(D, c.i) \ H /\ Y = Below(E, c.i) \ H
                        /\ X \subseteq Blocks /\ Y \subseteq Blocks /\ Y \subseteq X \cup (E \ D)
        <4>1. /\ Below(D, c.i) \subseteq Blocks /\ Below(E, c.i) \subseteq Blocks
              /\ Below(E, c.i) \subseteq Below(D, c.i) \cup (E \ D)
          BY DEF Below
        <4>2. /\ Below(D, c.i) \ H \subseteq Blocks /\ Below(E, c.i) \ H \subseteq Blocks
              /\ Below(E, c.i) \ H \subseteq (Below(D, c.i) \ H) \cup (E \ D)
          BY <4>1
        <4> QED
          BY <4>2, Zenon
      <3>2. Cardinality(X) <= g /\ Cardinality(X) \in Nat /\ Cardinality(Y) \in Nat
        <4>1. Cardinality(X) <= g
          BY <2>1, <2>2, <3>1, Zenon
        <4> QED
          BY <3>1, <4>1, Finite
      <3>3. Cardinality(X) <= 0 + g /\ 0 \in Nat
        BY <3>2
      <3>4. Cardinality(Y) <= 0 + h
        BY <1>1, <3>1, <3>3, Grown
      <3>5. Cardinality(Y) <= h
        BY <1>1, <3>2, <3>4
      <3> QED
        BY <3>1, <3>5
    <2>5. c.total <= Cardinality(E) + j
      <3>1. D \subseteq E \cup (D \ E)
        OBVIOUS
      <3> QED
        BY <1>1, <2>1, <3>1, Shrunk
    <2> QED
      BY <2>2, <2>3, <2>4, <2>5
  <1>5. ASSUME c.pc = "trim"
        PROVE  /\ Cardinality(E \ Hashes(c.oldest)) <= MaxEntries + h
               /\ MaxEntries + Cardinality(c.oldest) <= Cardinality(E) + j
    <2>1. /\ Cardinality(D \ Hashes(c.oldest)) <= MaxEntries + g
          /\ MaxEntries + Cardinality(c.oldest) <= Cardinality(D) + k
          /\ MaxEntries + Cardinality(c.oldest) <= c.total /\ c.total <= Cardinality(Blocks)
      BY <1>5 DEF SweepOK
    <2>2. /\ D \ Hashes(c.oldest) \subseteq Blocks /\ E \ Hashes(c.oldest) \subseteq Blocks
          /\ E \ Hashes(c.oldest) \subseteq (D \ Hashes(c.oldest)) \cup (E \ D)
          /\ D \subseteq E \cup (D \ E)
      OBVIOUS
    <2>3. Cardinality(E \ Hashes(c.oldest)) <= MaxEntries + h
      <3>1. PICK X, Y : X = D \ Hashes(c.oldest) /\ Y = E \ Hashes(c.oldest)
        OBVIOUS
      <3>2. /\ X \subseteq Blocks /\ Y \subseteq Blocks /\ Y \subseteq X \cup (E \ D)
            /\ Cardinality(X) <= MaxEntries + g
        BY <2>1, <2>2, <3>1, Zenon
      <3>3. Cardinality(Y) <= MaxEntries + h
        BY <1>1, <3>2, Grown
      <3> QED
        BY <3>1, <3>3
    <2>4. PICK n \in Nat : n = MaxEntries + Cardinality(c.oldest)
      BY <1>1, <1>2
    <2>5. n <= Cardinality(D) + k /\ n <= Cardinality(Blocks)
      BY <1>1, <2>1, <2>4
    <2>6. n <= Cardinality(E) + j
      BY <1>1, <2>2, <2>5, Shrunk
    <2> QED
      BY <2>3, <2>4, <2>6
  <1>6. ASSUME c.pc = "swept"
        PROVE  /\ Cardinality(E) <= MaxEntries + h
               /\ c.total > MaxEntries => MaxEntries <= Cardinality(E) + j
    <2>1. /\ Cardinality(D) <= MaxEntries + g
          /\ c.total > MaxEntries => MaxEntries <= Cardinality(D) + k
          /\ c.total <= Cardinality(Blocks)
      BY <1>6 DEF SweepOK
    <2>2. D \subseteq E \cup (D \ E) /\ E \subseteq D \cup (E \ D)
      OBVIOUS
    <2>3. Cardinality(E) <= MaxEntries + h
      BY <1>1, <2>1, <2>2, Grown
    <2>4. ASSUME c.total > MaxEntries PROVE MaxEntries <= Cardinality(E) + j
      <3>1. MaxEntries <= Cardinality(Blocks) /\ MaxEntries <= Cardinality(D) + k
        BY <1>1, <2>1, <2>4
      <3> QED
        BY <1>1, <2>2, <3>1, Shrunk
    <2> QED
      BY <2>3, <2>4
  <1> QED
    BY <1>3, <1>4, <1>5, <1>6 DEF SweepOK

LEMMA EmptySweep ==
    /\ Hashes({}) = {} /\ Distinct({}) /\ Cardinality({}) = 0
    /\ \A D : Below(D, 0) \subseteq D
    /\ \A D : D \subseteq Blocks => Below(D, 0) = {}
    /\ \A D : D \subseteq Blocks => Below(D, NumShards) = D
    /\ 0 \in Shards
  <1>1. \A b \in Blocks : ShardOf[b] \in Nat /\ ShardOf[b] < NumShards
    BY DEF Shards
  <1> QED
    BY <1>1, FS_EmptySet DEF Hashes, Distinct, Below, Shards

\* X is what shard i adds to the shards below it.
Adds(D, i, n, X) ==
    /\ Below(D, n) = Below(D, i) \cup X
    /\ Below(D, i) \subseteq Blocks /\ X \subseteq Blocks /\ Below(D, n) \subseteq Blocks
    /\ Cardinality(Below(D, n)) = Cardinality(Below(D, i)) + Cardinality(X)

LEMMA BelowNext ==
    ASSUME NEW D, D \subseteq Blocks, NEW i \in Nat, NEW n, n = i + 1,
           NEW X, X = OnShard(D, i)
    PROVE  Adds(D, i, n, X)
  <1>1. \A b \in Blocks : ShardOf[b] \in Nat
    BY DEF Shards
  <1>2. /\ Below(D, n) = Below(D, i) \cup X /\ Below(D, i) \cap X = {}
        /\ Below(D, i) \subseteq Blocks /\ X \subseteq Blocks /\ Below(D, n) \subseteq Blocks
    BY <1>1 DEF Below, OnShard
  <1>3. /\ IsFiniteSet(Below(D, i)) /\ IsFiniteSet(X)
        /\ Cardinality(Below(D, i)) \in Nat /\ Cardinality(X) \in Nat
    BY <1>2, Finite
  <1>4. Cardinality(Below(D, i) \cup X)
          = Cardinality(Below(D, i)) + Cardinality(X) - Cardinality(Below(D, i) \cap X)
    BY <1>3, FS_Union
  <1>5. Cardinality(Below(D, i) \cap X) = 0
    BY <1>2, FS_EmptySet
  <1>6. Cardinality(Below(D, i) \cup X) = Cardinality(Below(D, i)) + Cardinality(X)
    BY <1>3, <1>4, <1>5
  <1> QED
    BY <1>2, <1>6 DEF Adds

\* One more shard counted.
LEMMA CountKeeps ==
    ASSUME NEW c \in Call, NEW q \in Call, NEW D, D \subseteq Blocks, NEW g \in Nat, NEW k \in Nat,
           SweepOK(c, D, g, k), c.pc = "count",
           q.total = c.total + Cardinality(OnShard(D, c.i)), q.oldest = c.oldest,
           \/ c.i # NumShards - 1 /\ q.i = c.i + 1 /\ q.pc = "count"
           \/ /\ c.i = NumShards - 1 /\ q.i = 0
              /\ q.pc = IF q.total <= MaxEntries THEN "swept" ELSE "collect"
    PROVE  SweepOK(q, D, g, k)
  <1>0. c.i \in Shards /\ c.oldest = {}
    BY DEF SweepOK
  <1>1. PICK i \in Nat : i = c.i /\ i < NumShards
    BY <1>0 DEF Shards
  <1>11. PICK X : X = OnShard(D, i)
    OBVIOUS
  <1>2. /\ c.total \in Nat /\ q.total \in Nat
        /\ Cardinality(Below(D, i)) <= c.total + g
        /\ c.total <= Cardinality(Below(D, i)) + k
        /\ c.total <= Cardinality(Below(Blocks, i))
    <2>1. c.total \in Nat /\ q.total \in Nat
      BY DEF Call
    <2> QED
      BY <1>1, <2>1 DEF SweepOK
  <1>3. PICK n \in Nat : n = i + 1
    OBVIOUS
  <1>4. /\ X \subseteq Blocks /\ Below(D, i) \subseteq Blocks /\ Below(D, n) \subseteq Blocks
        /\ Cardinality(Below(D, n)) = Cardinality(Below(D, i)) + Cardinality(X)
    <2>1. Adds(D, i, n, X)
      BY <1>3, <1>11, BelowNext
    <2> QED
      BY <2>1 DEF Adds
  <1>5. Cardinality(Below(Blocks, i)) + Cardinality(X) <= Cardinality(Below(Blocks, n))
    <2>1. PICK Y : Y = OnShard(Blocks, i)
      OBVIOUS
    <2>2. /\ Cardinality(Below(Blocks, n)) = Cardinality(Below(Blocks, i)) + Cardinality(Y)
          /\ Below(Blocks, i) \subseteq Blocks /\ Y \subseteq Blocks
      <3>1. Adds(Blocks, i, n, Y)
        BY <1>3, <2>1, BelowNext
      <3> QED
        BY <3>1 DEF Adds
    <2>3. X \subseteq Y
      BY <1>11, <2>1 DEF OnShard
    <2>4. /\ Cardinality(X) <= Cardinality(Y) /\ Cardinality(X) \in Nat /\ Cardinality(Y) \in Nat
          /\ Cardinality(Below(Blocks, i)) \in Nat
      BY <1>4, <2>2, <2>3, SubsetCard, Finite
    <2> QED
      BY <2>2, <2>4
  <1>6. /\ Cardinality(X) \in Nat /\ Cardinality(Below(D, i)) \in Nat
        /\ Cardinality(Below(Blocks, i)) \in Nat /\ Cardinality(Below(Blocks, n)) \in Nat
    <2>1. Below(Blocks, i) \subseteq Blocks /\ Below(Blocks, n) \subseteq Blocks
      BY DEF Below
    <2> QED
      BY <1>4, <2>1, Finite
  <1>7. /\ q.total = c.total + Cardinality(X)
        /\ Cardinality(Below(D, n)) <= q.total + g
        /\ q.total <= Cardinality(Below(D, n)) + k
        /\ q.total <= Cardinality(Below(Blocks, n))
    <2>1. q.total = c.total + Cardinality(X)
      BY <1>1, <1>11
    <2>2. PICK x, a, e, f, m, t : /\ x = Cardinality(X) /\ a = Cardinality(Below(D, i))
                                  /\ e = Cardinality(Below(Blocks, i))
                                  /\ f = Cardinality(Below(Blocks, n))
                                  /\ m = Cardinality(Below(D, n)) /\ t = c.total
      OBVIOUS
    <2>3. /\ x \in Nat /\ a \in Nat /\ e \in Nat /\ f \in Nat /\ t \in Nat /\ m = a + x
          /\ e + x <= f /\ a <= t + g /\ t <= a + k /\ t <= e /\ q.total = t + x
      BY <1>2, <1>4, <1>5, <1>6, <2>1, <2>2
    <2>4. m <= q.total + g /\ q.total <= m + k /\ q.total <= f
      BY <2>3
    <2> QED
      BY <2>1, <2>2, <2>4
  <1>8. CASE c.i # NumShards - 1
    <2>1. n \in Shards /\ q.i = n /\ q.pc = "count" /\ q.oldest = {}
      BY <1>0, <1>1, <1>3, <1>8 DEF Shards
    <2> QED
      BY <1>7, <2>1, EmptySweep DEF SweepOK
  <1>9. CASE c.i = NumShards - 1
    <2>1. /\ n = NumShards /\ Below(D, n) = D /\ Below(Blocks, n) = Blocks
          /\ Below(D, 0) = {} /\ {} \cup D = D /\ {} \ {} = {} /\ 0 \in Shards
      BY <1>1, <1>3, <1>9, EmptySweep
    <2>2. /\ Cardinality(D) <= q.total + g /\ q.total <= Cardinality(D) + k
          /\ q.total <= Cardinality(Blocks) /\ Cardinality(D) \in Nat
      BY <1>7, <2>1, Finite
    <2>3. CASE q.total <= MaxEntries
      <3>1. q.pc = "swept" /\ Cardinality(D) <= MaxEntries + g /\ ~ (q.total > MaxEntries)
        BY <1>2, <1>9, <2>2, <2>3
      <3> QED
        BY <1>0, <2>2, <3>1, EmptySweep DEF SweepOK
    <2>4. CASE ~ (q.total <= MaxEntries)
      <3>1. q.pc = "collect" /\ q.i = 0 /\ q.oldest = {} /\ q.total > MaxEntries
        BY <1>0, <1>2, <1>9, <2>4
      <3>2. /\ Cardinality(Hashes(q.oldest) \cup D) <= q.total + g
            /\ Cardinality(Below(D, q.i) \ Hashes(q.oldest)) <= g
        <4>1. Hashes(q.oldest) \cup D = D /\ Below(D, q.i) \ Hashes(q.oldest) = {}
          BY <2>1, <3>1, EmptySweep
        <4>2. Cardinality({}) = 0 /\ 0 <= g
          BY FS_EmptySet
        <4> QED
          BY <2>2, <4>1, <4>2
      <3> QED
        BY <2>1, <2>2, <3>1, <3>2, EmptySweep DEF SweepOK
    <2> QED
      BY <2>3, <2>4
  <1> QED
    BY <1>8, <1>9

\* N has a stamp for every entry of shard i: what S, of the shards below, becomes with it.
FoundOK(S, F, D, i, n) ==
    /\ F \subseteq Stamped /\ Distinct(F)
    /\ \A v \in F : ShardOf[v.hash] < n
    /\ Hashes(F) \subseteq Hashes(S) \cup D
    /\ Below(D, n) \ Hashes(F) \subseteq Below(D, i) \ Hashes(S)

OfShard(N, D, i) ==
    /\ N \subseteq Stamped /\ Distinct(N)
    /\ \A v \in N : ShardOf[v.hash] = i
    /\ Hashes(N) = OnShard(D, i)

LEMMA FoundFacts ==
    ASSUME NEW S, S \subseteq Stamped, Distinct(S), NEW i \in Nat,
           \A v \in S : ShardOf[v.hash] < i,
           NEW N, NEW D, D \subseteq Blocks, OfShard(N, D, i), NEW n, n = i + 1,
           NEW F, F = S \cup N
    PROVE  FoundOK(S, F, D, i, n)
  <1> USE DEF OfShard
  <1>1. \A b \in Blocks : ShardOf[b] \in Nat
    BY DEF Shards
  <1>2. \A v \in S \cup N : v.hash \in Blocks /\ ShardOf[v.hash] \in Nat
    BY <1>1 DEF Stamped
  <1>3. Distinct(S \cup N)
    <2> SUFFICES ASSUME NEW v \in S \cup N, NEW x \in S \cup N, v.hash = x.hash PROVE v = x
      BY DEF Distinct
    <2>1. v \in S /\ x \in N => FALSE
      BY <1>2
    <2>2. v \in N /\ x \in S => FALSE
      BY <1>2
    <2> QED
      BY <2>1, <2>2 DEF Distinct
  <1>4. \A v \in S \cup N : ShardOf[v.hash] < i + 1
    BY <1>2
  <1>5. Hashes(S \cup N) = Hashes(S) \cup OnShard(D, i)
    <2>1. Hashes(S \cup N) = Hashes(S) \cup Hashes(N)
      BY DEF Hashes
    <2> QED
      BY <2>1
  <1>6. Below(D, i + 1) \subseteq Below(D, i) \cup OnShard(D, i) /\ OnShard(D, i) \subseteq D
    BY <1>1 DEF Below, OnShard
  <1>7. F \subseteq Stamped
    OBVIOUS
  <1> QED
    BY <1>3, <1>4, <1>5, <1>6, <1>7 DEF FoundOK

\* One more shard collected, and others to come.
LEMMA CollectKeeps ==
    ASSUME NEW c \in Call, NEW q \in Call, NEW D, D \subseteq Blocks, NEW g \in Nat, NEW k \in Nat,
           SweepOK(c, D, g, k), c.pc = "collect", NEW N, OfShard(N, D, c.i),
           c.i < NumShards - 1, q.i = c.i + 1, q.pc = "collect", q.total = c.total,
           q.oldest = c.oldest \cup N
    PROVE  SweepOK(q, D, g, k)
  <1>1. /\ c.i \in Shards /\ c.total > MaxEntries /\ c.total <= Cardinality(Blocks)
        /\ \A v \in c.oldest : ShardOf[v.hash] < c.i
        /\ Cardinality(Hashes(c.oldest) \cup D) <= c.total + g
        /\ Cardinality(Below(D, c.i) \ Hashes(c.oldest)) <= g
        /\ c.total <= Cardinality(D) + k /\ Distinct(c.oldest)
    BY DEF SweepOK
  <1>2. PICK i \in Nat : i = c.i /\ q.i \in Shards /\ q.i = i + 1
    BY <1>1 DEF Shards
  <1>3. PICK S, F : S = c.oldest /\ F = S \cup N /\ S \subseteq Stamped
    BY DEF Call
  <1>4. /\ F \subseteq Stamped /\ Distinct(F)
        /\ \A v \in F : ShardOf[v.hash] < q.i
        /\ Hashes(F) \subseteq Hashes(S) \cup D
        /\ Below(D, q.i) \ Hashes(F) \subseteq Below(D, i) \ Hashes(S)
    <2>1. PICK n : n = q.i
      OBVIOUS
    <2>2. /\ OfShard(N, D, i) /\ n = i + 1 /\ Distinct(S)
          /\ \A v \in S : ShardOf[v.hash] < i
      BY <1>1, <1>2, <1>3, <2>1
    <2>3. FoundOK(S, F, D, i, n)
      BY <1>3, <2>2, FoundFacts
    <2> QED
      BY <2>1, <2>3 DEF FoundOK
  <1>5. Hashes(S) \subseteq Blocks
    BY <1>1, <1>3, DistinctHashes
  <1>6. Cardinality(Hashes(F) \cup D) <= Cardinality(Hashes(S) \cup D)
    <2>1. Hashes(F) \cup D \subseteq Hashes(S) \cup D /\ Hashes(S) \cup D \subseteq Blocks
      BY <1>4, <1>5
    <2> QED
      BY <2>1, SubsetCard
  <1>7. Cardinality(Below(D, q.i) \ Hashes(F)) <= Cardinality(Below(D, i) \ Hashes(S))
    <2>1. Below(D, i) \ Hashes(S) \subseteq Blocks
      BY DEF Below
    <2> QED
      BY <1>4, <2>1, SubsetCard
  <1>8. /\ Cardinality(Hashes(F) \cup D) \in Nat /\ Cardinality(Hashes(S) \cup D) \in Nat
        /\ Cardinality(Below(D, q.i) \ Hashes(F)) \in Nat
        /\ Cardinality(Below(D, i) \ Hashes(S)) \in Nat
    <2>1. /\ Hashes(F) \cup D \subseteq Blocks /\ Hashes(S) \cup D \subseteq Blocks
          /\ Below(D, q.i) \ Hashes(F) \subseteq Blocks /\ Below(D, i) \ Hashes(S) \subseteq Blocks
      BY <1>4, <1>5 DEF Below
    <2> QED
      BY <2>1, Finite
  <1>9. c.total \in Nat
    BY DEF Call
  <1>10. Cardinality(Hashes(F) \cup D) <= c.total + g
    BY <1>1, <1>3, <1>6, <1>8, <1>9
  <1>11. Cardinality(Below(D, q.i) \ Hashes(F)) <= g
    BY <1>1, <1>2, <1>3, <1>7, <1>8
  <1> QED
    BY <1>1, <1>2, <1>3, <1>4, <1>10, <1>11 DEF SweepOK

\* The victims: the overflow, or all that was collected.
LEMMA ChooseKeeps ==
    ASSUME NEW c \in Call, NEW q \in Call, NEW D, D \subseteq Blocks, NEW g \in Nat, NEW k \in Nat,
           SweepOK(c, D, g, k), c.pc = "collect", NEW N, OfShard(N, D, c.i),
           c.i = NumShards - 1, q.total = c.total,
           q.oldest \in Oldest(c.oldest \cup N, c.total),
           q.pc = IF q.oldest = {} THEN "swept" ELSE "trim"
    PROVE  SweepOK(q, D, g, k)
  <1>1. /\ c.i \in Shards /\ c.total > MaxEntries /\ c.total <= Cardinality(Blocks)
        /\ \A v \in c.oldest : ShardOf[v.hash] < c.i
        /\ Cardinality(Hashes(c.oldest) \cup D) <= c.total + g
        /\ Cardinality(Below(D, c.i) \ Hashes(c.oldest)) <= g
        /\ c.total <= Cardinality(D) + k /\ Distinct(c.oldest)
    BY DEF SweepOK
  <1>2. PICK i \in Nat : i = c.i /\ NumShards = i + 1
    BY <1>1 DEF Shards
  <1>3. PICK S, F, V : S = c.oldest /\ F = S \cup N /\ S \subseteq Stamped /\ V = q.oldest
    BY DEF Call
  <1>4. /\ F \subseteq Stamped /\ Distinct(F)
        /\ Hashes(F) \subseteq Hashes(S) \cup D
        /\ Below(D, NumShards) \ Hashes(F) \subseteq Below(D, i) \ Hashes(S)
    <2>2. OfShard(N, D, i) /\ Distinct(S) /\ \A v \in S : ShardOf[v.hash] < i
      BY <1>1, <1>2, <1>3
    <2>3. FoundOK(S, F, D, i, NumShards)
      BY <1>2, <1>3, <2>2, FoundFacts
    <2> QED
      BY <2>3 DEF FoundOK
  <1>5. Hashes(S) \subseteq Blocks /\ Hashes(F) \subseteq Blocks /\ IsFiniteSet(F)
        /\ Cardinality(F) \in Nat
    BY <1>1, <1>3, <1>4, DistinctHashes
  <1>6. PICK t \in Nat : t = c.total /\ t > MaxEntries /\ t <= Cardinality(Blocks)
    BY <1>1 DEF Call
  <1>7. /\ V \subseteq F
        /\ \/ Cardinality(V) = t - MaxEntries
           \/ V = F /\ Cardinality(F) < t - MaxEntries
    BY <1>3, <1>6 DEF Oldest
  <1>8. /\ Distinct(V) /\ V \subseteq Stamped /\ Hashes(V) \subseteq Hashes(F)
        /\ Hashes(V) \subseteq Blocks /\ Cardinality(V) = Cardinality(Hashes(V))
        /\ Cardinality(V) \in Nat
    <2>1. Distinct(V) /\ V \subseteq Stamped /\ Hashes(V) \subseteq Hashes(F)
      BY <1>4, <1>7 DEF Distinct, Hashes
    <2> QED
      BY <2>1, DistinctHashes
  <1>9. Cardinality(D \ Hashes(V)) <= MaxEntries + g
    <2>1. PICK U, H, R : U = Hashes(F) \cup D /\ H = Hashes(V) /\ R = D \ Hashes(V)
      OBVIOUS
    <2>2. U \subseteq Blocks /\ H \subseteq U /\ R \subseteq U \ H /\ R \subseteq Blocks
      BY <1>5, <1>8, <2>1
    <2>3. CASE Cardinality(V) = t - MaxEntries
      <3>1. U \subseteq Hashes(S) \cup D /\ Hashes(S) \cup D \subseteq Blocks
        BY <1>4, <1>5, <2>1
      <3>2. Cardinality(U) <= Cardinality(Hashes(S) \cup D)
        BY <3>1, SubsetCard
      <3>3. Cardinality(U) \in Nat /\ Cardinality(Hashes(S) \cup D) \in Nat
        BY <2>2, <3>1, Finite
      <3>4. Cardinality(U) <= t + g
        BY <1>1, <1>3, <1>6, <3>2, <3>3
      <3>5. Cardinality(U \ H) = Cardinality(U) - Cardinality(H)
        <4>1. U \cap H = H /\ IsFiniteSet(U)
          BY <2>2, Finite
        <4>2. Cardinality(U \ H) = Cardinality(U) - Cardinality(U \cap H)
          BY <4>1, FS_Difference
        <4> QED
          BY <4>1, <4>2
      <3>6. Cardinality(R) <= Cardinality(U \ H)
        <4>1. U \ H \subseteq Blocks
          BY <2>2
        <4> QED
          BY <2>2, <4>1, SubsetCard
      <3>7. Cardinality(R) \in Nat /\ Cardinality(H) = t - MaxEntries
        BY <1>8, <2>1, <2>2, <2>3, Finite
      <3>8. Cardinality(R) <= MaxEntries + g
        BY <3>3, <3>4, <3>5, <3>6, <3>7
      <3> QED
        BY <2>1, <3>8
    <2>4. CASE V = F
      <3>1. Below(D, NumShards) = D
        BY EmptySweep
      <3>2. R \subseteq Below(D, i) \ Hashes(S)
        BY <1>4, <2>1, <2>4, <3>1
      <3>3. Below(D, i) \ Hashes(S) \subseteq Blocks
        BY DEF Below
      <3>4. /\ Cardinality(R) <= Cardinality(Below(D, i) \ Hashes(S)) /\ Cardinality(R) \in Nat
            /\ Cardinality(Below(D, i) \ Hashes(S)) \in Nat
        BY <2>2, <3>2, <3>3, SubsetCard, Finite
      <3>5. Cardinality(Below(D, i) \ Hashes(S)) <= g
        BY <1>1, <1>2, <1>3
      <3>6. Cardinality(R) <= MaxEntries + g
        BY <3>4, <3>5
      <3> QED
        BY <2>1, <3>6
    <2> QED
      BY <1>7, <2>3, <2>4
  <1>10. /\ MaxEntries + Cardinality(V) <= t
    BY <1>6, <1>7, <1>8
  <1>11. Cardinality(D) \in Nat /\ t <= Cardinality(D) + k
    BY <1>1, <1>6, Finite
  <1>12. CASE V # {}
    <2>1. MaxEntries + Cardinality(V) <= Cardinality(D) + k
      BY <1>8, <1>10, <1>11
    <2>2. q.pc = "trim"
      BY <1>3, <1>12
    <2> QED
      BY <1>3, <1>6, <1>8, <1>9, <1>10, <2>1, <2>2 DEF SweepOK
  <1>13. CASE V = {}
    <2>1. D \ Hashes(V) = D
      BY <1>13, EmptySweep
    <2>2. MaxEntries <= Cardinality(D) + k
      BY <1>6, <1>11
    <2>3. q.pc = "swept"
      BY <1>3, <1>13
    <2> QED
      BY <1>3, <1>6, <1>8, <1>9, <2>1, <2>2, <2>3 DEF SweepOK
  <1> QED
    BY <1>12, <1>13

\* One victim removed, wherever its entry is now.
LEMMA TrimKeeps ==
    ASSUME NEW c \in Call, NEW q \in Call, NEW D, D \subseteq Blocks, NEW g \in Nat, NEW k \in Nat,
           SweepOK(c, D, g, k), c.pc = "trim", NEW v \in c.oldest, NEW E, E = D \ {v.hash},
           q.oldest = c.oldest \ {v}, q.total = c.total,
           q.pc = IF q.oldest = {} THEN "swept" ELSE "trim"
    PROVE  SweepOK(q, E, g, k)
  <1>1. /\ Cardinality(D \ Hashes(c.oldest)) <= MaxEntries + g
        /\ MaxEntries + Cardinality(c.oldest) <= c.total
        /\ MaxEntries + Cardinality(c.oldest) <= Cardinality(D) + k
        /\ c.total <= Cardinality(Blocks) /\ Distinct(c.oldest)
    BY DEF SweepOK
  <1>2. PICK S, L : S = c.oldest /\ L = q.oldest /\ L = S \ {v} /\ S \subseteq Stamped /\ v \in S
    BY DEF Call
  <1>3. /\ IsFiniteSet(S) /\ Cardinality(S) \in Nat /\ Hashes(S) \subseteq Blocks
    BY <1>1, <1>2, DistinctHashes
  <1>4. Cardinality(L) = Cardinality(S) - 1 /\ Cardinality(L) \in Nat
    <2>1. IsFiniteSet(L) /\ Cardinality(L) = Cardinality(S) - 1
      <3>1. IsFiniteSet(S \ {v}) /\ Cardinality(S \ {v}) = Cardinality(S) - 1
        BY <1>2, <1>3, FS_RemoveElement, Zenon
      <3> QED
        BY <1>2, <3>1, Zenon
    <2> QED
      BY <2>1, FS_CardinalityType
  <1>5. Distinct(L)
    BY <1>1, <1>2 DEF Distinct
  <1>6. Cardinality(E \ Hashes(L)) <= MaxEntries + g
    <2>1. Hashes(S) \subseteq Hashes(L) \cup {v.hash}
      BY <1>2 DEF Hashes
    <2>2. PICK X, Y : X = D \ Hashes(S) /\ Y = E \ Hashes(L)
      OBVIOUS
    <2>3. Y \subseteq X /\ X \subseteq Blocks /\ Y \subseteq Blocks
      BY <2>1, <2>2
    <2>4. Cardinality(Y) <= Cardinality(X) /\ Cardinality(X) \in Nat /\ Cardinality(Y) \in Nat
      BY <2>3, SubsetCard, Finite
    <2>5. Cardinality(X) <= MaxEntries + g
      BY <1>1, <1>2, <2>2, Zenon
    <2>6. Cardinality(Y) <= MaxEntries + g
      BY <2>4, <2>5
    <2> QED
      BY <2>2, <2>6
  <1>7. Cardinality(D) <= Cardinality(E) + 1 /\ Cardinality(D) \in Nat /\ Cardinality(E) \in Nat
    <2>1. Cardinality({v.hash}) = 1
      BY FS_Singleton
    <2>2. v.hash \in Blocks /\ {v.hash} \subseteq Blocks /\ E \subseteq Blocks
      BY <1>2 DEF Stamped
    <2>3. D \subseteq E \cup {v.hash}
      OBVIOUS
    <2>4. Cardinality(D) <= Cardinality(E) + Cardinality({v.hash})
      BY <2>2, <2>3, UnionCard
    <2> QED
      BY <2>1, <2>2, <2>4, Finite
  <1>8. PICK t \in Nat : t = c.total /\ t = q.total
    BY DEF Call
  <1>9. /\ MaxEntries + Cardinality(L) <= t
        /\ MaxEntries + Cardinality(L) <= Cardinality(E) + k
    <2>1. /\ MaxEntries + Cardinality(S) <= t
          /\ MaxEntries + Cardinality(S) <= Cardinality(D) + k
      BY <1>1, <1>2, <1>8
    <2> QED
      BY <1>3, <1>4, <1>7, <2>1
  <1>10. CASE L # {}
    <2>1. q.pc = "trim"
      BY <1>2, <1>10
    <2> QED
      BY <1>1, <1>2, <1>5, <1>6, <1>8, <1>9, <2>1 DEF SweepOK
  <1>11. CASE L = {}
    <2>1. q.pc = "swept"
      BY <1>2, <1>11
    <2>2. E \ Hashes(L) = E
      BY <1>11, EmptySweep
    <2>3. MaxEntries <= Cardinality(E) + k
      BY <1>4, <1>7, <1>9
    <2> QED
      BY <1>1, <1>2, <1>5, <1>6, <1>8, <2>1, <2>2, <2>3 DEF SweepOK
  <1> QED
    BY <1>10, <1>11

\* One more shard expired; the count starts from nothing.
LEMMA ExpireKeeps ==
    ASSUME NEW c \in Call, NEW q \in Call, NEW D, NEW E, E \subseteq Blocks,
           NEW g \in Nat, NEW k \in Nat, SweepOK(c, D, g, k), c.pc = "expire",
           q.total = c.total, q.oldest = c.oldest,
           \/ c.i # NumShards - 1 /\ q.i = c.i + 1 /\ q.pc = "expire"
           \/ c.i = NumShards - 1 /\ q.i = 0 /\ q.pc = "count"
    PROVE  SweepOK(q, E, g, k)
  <1>1. c.i \in Shards /\ q.oldest = {} /\ q.total = 0
    BY DEF SweepOK
  <1>2. CASE c.i # NumShards - 1
    <2>1. q.i \in Shards /\ q.pc = "expire"
      BY <1>1, <1>2 DEF Shards
    <2> QED
      BY <1>1, <2>1, EmptySweep DEF SweepOK
  <1>3. CASE c.i = NumShards - 1
    <2>1. q.i = 0 /\ q.pc = "count" /\ Below(E, q.i) = {} /\ Below(Blocks, q.i) = {} /\ 0 \in Shards
      BY <1>3, EmptySweep
    <2>2. /\ Cardinality(Below(E, q.i)) <= q.total + g
          /\ q.total <= Cardinality(Below(E, q.i)) + k
          /\ q.total <= Cardinality(Below(Blocks, q.i))
      <3>1. Cardinality(Below(E, q.i)) = 0 /\ Cardinality(Below(Blocks, q.i)) = 0
        BY <2>1, EmptySweep, Zenon
      <3> QED
        BY <1>1, <3>1
    <2> QED
      BY <1>1, <2>1, <2>2, EmptySweep DEF SweepOK
  <1> QED
    BY <1>2, <1>3

\* The fields a shard step leaves alone, and its cursor.
Shifted(c, q, last) ==
    /\ q \in Call /\ q.total = c.total /\ q.oldest = c.oldest
    /\ \/ c.i # NumShards - 1 /\ q.i = c.i + 1 /\ q.pc = c.pc
       \/ c.i = NumShards - 1 /\ q.i = 0 /\ q.pc = last

LEMMA ShardShift ==
    ASSUME NEW c \in Call, NEW last \in Pc, NEW q, q = NextShard(c, last)
    PROVE  Shifted(c, q, last)
  <1>1. PICK m \in Nat : m = 0
    OBVIOUS
  <1>2. CASE c.i = NumShards - 1
    <2>1. q = [c EXCEPT !.i = m, !.pc = last]
      BY <1>1, <1>2 DEF NextShard
    <2>2. /\ q \in Call /\ q.total = c.total /\ q.oldest = c.oldest /\ q.i = m /\ q.pc = last
      BY <2>1 DEF Call
    <2> QED
      BY <1>1, <1>2, <2>2 DEF Shifted
  <1>3. CASE c.i # NumShards - 1
    <2>1. PICK n \in Nat : n = c.i + 1
      BY DEF Call
    <2>2. q = [c EXCEPT !.i = n]
      BY <1>3, <2>1 DEF NextShard
    <2>3. /\ q \in Call /\ q.total = c.total /\ q.oldest = c.oldest /\ q.i = n /\ q.pc = c.pc
      BY <2>2 DEF Call
    <2> QED
      BY <1>3, <2>1, <2>3 DEF Shifted
  <1> QED
    BY <1>2, <1>3

\* A shard step that leaves V as what was collected.
Collected(c, q, V, last) ==
    /\ q \in Call /\ q.total = c.total /\ q.oldest = V
    /\ \/ c.i # NumShards - 1 /\ q.i = c.i + 1 /\ q.pc = "collect"
       \/ c.i = NumShards - 1 /\ q.i = 0 /\ q.pc = last

\* A sweeper's own step, with the history as it was.
LEMMA OwnSweep ==
    ASSUME EntriesType, CallType, NEW t \in Threads, NEW g \in Nat, NEW k \in Nat,
           clock \in 0 .. MaxNow, SweepOK(call[t], DOMAIN entries, g, k), SweeperStep(t)
    PROVE  SweepOK(call'[t], DOMAIN entries', g, k) /\ DOMAIN entries' \subseteq DOMAIN entries
  <1>1. PICK c \in Call : c = call[t] /\ SweepOK(c, DOMAIN entries, g, k)
    BY DEF CallType
  <1>2. DOMAIN entries \subseteq Blocks
    BY DEF EntriesType
  <1>3. call'[t] \in Call
    BY SweeperType DEF CallType
  <1>4. ASSUME NEW q, Step(t, q) PROVE call'[t] = q
    BY <1>4 DEF Step, CallType
  <1>5. CASE SweepCall(t)
    <2>1. PICK q \in Call : q = call'[t] /\ q = [IdleCall EXCEPT !.pc = "expire", !.now = clock]
      BY <1>3, <1>4, <1>5 DEF SweepCall
    <2>2. q.pc = "expire" /\ q.i = 0 /\ q.total = 0 /\ q.oldest = {}
      BY <2>1 DEF IdleCall
    <2>3. SweepOK(q, DOMAIN entries, g, k)
      BY <2>2, EmptySweep DEF SweepOK
    <2>4. entries' = entries
      BY <1>5 DEF SweepCall
    <2> QED
      BY <2>1, <2>3, <2>4
  <1>6. CASE ExpireShard(t)
    <2>1. PICK q : q = call'[t] /\ q = NextShard(c, "count")
      BY <1>1, <1>4, <1>6 DEF ExpireShard
    <2>2. Shifted(c, q, "count") /\ c.pc = "expire"
      <3>1. "count" \in Pc
        BY DEF Pc
      <3> QED
        BY <1>1, <1>6, <2>1, <3>1, ShardShift DEF ExpireShard
    <2>3. PICK E : E = DOMAIN entries' /\ E \subseteq DOMAIN entries /\ E \subseteq Blocks
      BY <1>2, <1>6 DEF ExpireShard, Restrict
    <2>4. SweepOK(q, E, g, k)
      BY <1>1, <2>2, <2>3, ExpireKeeps DEF Shifted
    <2> QED
      BY <2>1, <2>3, <2>4
  <1>7. CASE CountShard(t)
    <2>1. PICK n \in Nat : n = Cardinality(InShard(c.i))
      BY InShardFinite
    <2>2. PICK m \in Nat : m = c.total + n
      BY <2>1 DEF Call
    <2>3. PICK d : d = [c EXCEPT !.total = m]
      OBVIOUS
    <2>4. d \in Call /\ d.total = m /\ d.i = c.i /\ d.pc = c.pc /\ d.oldest = c.oldest
      BY <2>3 DEF Call
    <2>5. PICK last : last = IF m <= MaxEntries THEN "swept" ELSE "collect"
      OBVIOUS
    <2>6. PICK q : q = call'[t] /\ q = NextShard(d, last)
      <3>1. d = [call[t] EXCEPT !.total = @ + Cardinality(InShard(call[t].i))]
        BY <1>1, <2>1, <2>2, <2>3
      <3>2. last = IF d.total <= MaxEntries THEN "swept" ELSE "collect"
        BY <2>4, <2>5
      <3>3. Step(t, NextShard(d, last))
        BY <1>7, <3>1, <3>2 DEF CountShard
      <3> QED
        BY <1>4, <3>3
    <2>7. Shifted(d, q, last)
      <3>1. last \in Pc
        BY <2>5 DEF Pc
      <3> QED
        BY <2>4, <2>6, <3>1, ShardShift
    <2>8. c.pc = "count" /\ entries' = entries
      BY <1>1, <1>7 DEF CountShard
    <2>9. InShard(c.i) = OnShard(DOMAIN entries, c.i)
      BY DEF InShard, OnShard
    <2>10. /\ q \in Call /\ q.oldest = c.oldest
           /\ q.total = c.total + Cardinality(OnShard(DOMAIN entries, c.i))
           /\ \/ c.i # NumShards - 1 /\ q.i = c.i + 1 /\ q.pc = "count"
              \/ /\ c.i = NumShards - 1 /\ q.i = 0
                 /\ q.pc = IF q.total <= MaxEntries THEN "swept" ELSE "collect"
      BY <2>1, <2>2, <2>4, <2>5, <2>7, <2>8, <2>9 DEF Shifted
    <2>11. SweepOK(q, DOMAIN entries, g, k)
      BY <1>1, <1>2, <2>8, <2>10, CountKeeps
    <2> QED
      BY <2>6, <2>8, <2>11
  <1>8. CASE CollectShard(t)
    <2>1. PICK N : N = {[hash |-> b, touched |-> entries[b].last_touched] : b \in InShard(c.i)}
      OBVIOUS
    <2>2. OfShard(N, DOMAIN entries, c.i)
      <3>1. \A b \in InShard(c.i) : b \in Blocks /\ entries[b].last_touched \in Nat
        BY DEF InShard, EntriesType, Entry
      <3>2. N \subseteq Stamped
        BY <2>1, <3>1 DEF Stamped
      <3>3. \A v \in N : v.hash \in InShard(c.i) /\ v.touched = entries[v.hash].last_touched
                         /\ v = [hash |-> v.hash, touched |-> entries[v.hash].last_touched]
        BY <2>1
      <3>4. Distinct(N)
        BY <3>3 DEF Distinct
      <3>5. Hashes(N) = InShard(c.i)
        <4>1. Hashes(N) \subseteq InShard(c.i)
          BY <3>3 DEF Hashes
        <4>2. ASSUME NEW b \in InShard(c.i) PROVE b \in Hashes(N)
          <5>1. PICK v : v = [hash |-> b, touched |-> entries[b].last_touched]
            OBVIOUS
          <5>2. v \in N /\ v.hash = b
            BY <2>1, <5>1
          <5> QED
            BY <5>2 DEF Hashes
        <4> QED
          BY <4>1, <4>2
      <3> QED
        BY <3>2, <3>3, <3>4, <3>5 DEF OfShard, InShard, OnShard
    <2>3. /\ c.pc = "collect" /\ entries' = entries /\ c.i \in Shards /\ c.oldest \cup N \subseteq Stamped
      BY <1>1, <1>8, <2>2 DEF CollectShard, SweepOK, OfShard, Call
    <2>4. ASSUME NEW V, V \subseteq c.oldest \cup N, NEW last \in Pc,
                 Step(t, NextShard([c EXCEPT !.oldest = V], last))
          PROVE  Collected(c, call'[t], V, last)
      <3>1. PICK d : d = [c EXCEPT !.oldest = V]
        OBVIOUS
      <3>2. d \in Call /\ d.total = c.total /\ d.i = c.i /\ d.pc = c.pc /\ d.oldest = V
        BY <2>3, <2>4, <3>1 DEF Call
      <3>3. PICK q : q = call'[t] /\ q = NextShard(d, last)
        BY <1>4, <2>4, <3>1
      <3>4. Shifted(d, q, last)
        BY <3>2, <3>3, ShardShift
      <3>5. Collected(c, q, V, last)
        BY <2>3, <3>2, <3>4 DEF Shifted, Collected
      <3> QED
        BY <3>3, <3>5
    <2>5. CASE c.i < NumShards - 1
      <3>1. Step(t, NextShard([c EXCEPT !.oldest = c.oldest \cup N], "collect"))
        BY <1>1, <1>8, <2>1, <2>5 DEF CollectShard
      <3>2. "collect" \in Pc /\ c.i # NumShards - 1
        BY <2>3, <2>5 DEF Pc, Shards
      <3>3. PICK q \in Call : /\ q = call'[t] /\ q.total = c.total /\ q.oldest = c.oldest \cup N
                              /\ q.i = c.i + 1 /\ q.pc = "collect"
        <4>1. PICK V, last : V = c.oldest \cup N /\ last = "collect"
          OBVIOUS
        <4>2. Step(t, NextShard([c EXCEPT !.oldest = V], last))
          BY <3>1, <4>1, Zenon
        <4>3. Collected(c, call'[t], V, last)
          BY <2>4, <3>2, <4>1, <4>2
        <4> QED
          BY <3>2, <4>1, <4>3 DEF Collected
      <3>4. SweepOK(q, DOMAIN entries, g, k)
        BY <1>1, <1>2, <2>2, <2>3, <2>5, <3>3, CollectKeeps
      <3> QED
        BY <2>3, <3>3, <3>4
    <2>6. CASE ~ (c.i < NumShards - 1)
      <3>1. c.i = NumShards - 1
        BY <2>3, <2>6 DEF Shards
      <3>2. PICK V \in Oldest(c.oldest \cup N, c.total) :
              Step(t, NextShard([c EXCEPT !.oldest = V], IF V = {} THEN "swept" ELSE "trim"))
        BY <1>1, <1>8, <2>1, <2>6 DEF CollectShard
      <3>3. V \subseteq c.oldest \cup N
        BY DEF Oldest
      <3>4. (IF V = {} THEN "swept" ELSE "trim") \in Pc
        BY DEF Pc
      <3>5. PICK q \in Call : /\ q = call'[t] /\ q.total = c.total /\ q.oldest = V
                              /\ q.pc = IF V = {} THEN "swept" ELSE "trim"
        <4>1. PICK last : last = IF V = {} THEN "swept" ELSE "trim"
          OBVIOUS
        <4>2. Step(t, NextShard([c EXCEPT !.oldest = V], last)) /\ last \in Pc
          BY <3>2, <3>4, <4>1
        <4>3. Collected(c, call'[t], V, last)
          BY <2>4, <3>3, <4>2
        <4> QED
          BY <3>1, <4>1, <4>3 DEF Collected
      <3>6. SweepOK(q, DOMAIN entries, g, k)
        BY <1>1, <1>2, <2>2, <2>3, <3>1, <3>2, <3>5, ChooseKeeps
      <3> QED
        BY <2>3, <3>5, <3>6
    <2> QED
      BY <2>5, <2>6
  <1>9. CASE TrimOne(t)
    <2>1. PICK v \in c.oldest :
            /\ entries' = Restrict(entries, DOMAIN entries \ {v.hash})
            /\ Step(t, [c EXCEPT !.oldest = c.oldest \ {v},
                                 !.pc = IF c.oldest \ {v} = {} THEN "swept" ELSE "trim"])
      BY <1>1, <1>9 DEF TrimOne
    <2>2. PICK L, p : L = c.oldest \ {v} /\ p = IF L = {} THEN "swept" ELSE "trim"
      OBVIOUS
    <2>3. PICK q \in Call : q = call'[t] /\ q = [c EXCEPT !.oldest = L, !.pc = p]
      BY <1>3, <1>4, <2>1, <2>2
    <2>4. q.oldest = L /\ q.pc = p /\ q.total = c.total
      BY <2>3 DEF Call
    <2>5. PICK E : E = DOMAIN entries' /\ E = DOMAIN entries \ {v.hash}
      BY <2>1 DEF Restrict
    <2>6. c.pc = "trim"
      BY <1>1, <1>9 DEF TrimOne
    <2>7. SweepOK(q, E, g, k)
      BY <1>1, <1>2, <2>2, <2>4, <2>5, <2>6, TrimKeeps
    <2> QED
      BY <2>3, <2>5, <2>7
  <1>10. CASE Return(t)
    <2>1. call'[t] = IdleCall /\ entries' = entries
      BY <1>4, <1>10 DEF Return
    <2>2. PICK q : q = IdleCall /\ q.pc = "idle" /\ q.oldest = {}
      <3>1. IdleCall.pc = "idle" /\ IdleCall.oldest = {}
        BY DEF IdleCall
      <3> QED
        BY <3>1
    <2>3. SweepOK(q, DOMAIN entries, g, k)
      BY <2>2, EmptySweep DEF SweepOK
    <2> QED
      BY <2>1, <2>2, <2>3
  <1> QED
    BY <1>5, <1>6, <1>7, <1>8, <1>9, <1>10 DEF SweeperStep

\* The histories of a sweep under way, after a step of thread t.
LEMMA HistoryCounts ==
    ASSUME TypeOK, TypeOK', NEW t, Observe(t), NEW s \in Sweepers, call[s].pc # "idle"
    PROVE  /\ Counts(grown'[s], grown[s], DOMAIN entries' \ DOMAIN entries)
           /\ s # t => Counts(shrunk'[s], shrunk[s], DOMAIN entries \ DOMAIN entries')
           /\ s = t => shrunk'[s] = shrunk[s]
  <1>1. /\ DOMAIN entries \subseteq Blocks /\ DOMAIN entries' \subseteq Blocks
        /\ grown[s] \in Nat /\ shrunk[s] \in Nat
    BY DEF TypeOK
  <1>2. PICK X, Y : /\ X = DOMAIN entries' \ DOMAIN entries /\ Y = DOMAIN entries \ DOMAIN entries'
                    /\ X \subseteq Blocks /\ Y \subseteq Blocks
    <2>1. /\ DOMAIN entries' \ DOMAIN entries \subseteq Blocks
          /\ DOMAIN entries \ DOMAIN entries' \subseteq Blocks
      BY <1>1
    <2> QED
      BY <2>1, Zenon
  <1>3. Cardinality(X) \in Nat /\ Cardinality(Y) \in Nat /\ Cardinality(Blocks) \in Nat
    BY <1>2, Finite
  <1>4. /\ grown'[s] = UpToBlocks(grown[s] + Cardinality(X))
        /\ s # t => shrunk'[s] = UpToBlocks(shrunk[s] + Cardinality(Y))
        /\ s = t => shrunk'[s] = shrunk[s]
    BY <1>2 DEF Observe
  <1>5. /\ Counts(grown'[s], grown[s], X)
        /\ s # t => Counts(shrunk'[s], shrunk[s], Y)
    BY <1>1, <1>3, <1>4 DEF Counts, UpToBlocks
  <1> QED
    BY <1>2, <1>4, <1>5

\* A step outside the sweep of s.
LEMMA SweepOfOthers ==
    ASSUME TypeOK, TypeOK', SweepInv, NEW s \in Sweepers, NEW t \in Threads, t # s,
           CallerStep(t) \/ PurgerStep(t) \/ SweeperStep(t), Observe(t)
    PROVE  SweepOK(call'[s], DOMAIN entries', grown'[s], shrunk'[s])
  <1>1. s \in Threads /\ CallType
    BY TypeParts DEF Threads
  <1>2. PICK c \in Call : c = call[s] /\ call'[s] = c
    BY <1>1, OwnCall DEF CallType
  <1>3. SweepOK(c, DOMAIN entries, grown[s], shrunk[s])
    BY <1>2 DEF SweepInv
  <1>4. CASE c.pc = "idle"
    BY <1>2, <1>3, <1>4 DEF SweepOK
  <1>5. CASE c.pc # "idle"
    <2>1. PICK D, E : /\ D = DOMAIN entries /\ E = DOMAIN entries'
                      /\ D \subseteq Blocks /\ E \subseteq Blocks
      <3>1. DOMAIN entries \subseteq Blocks /\ DOMAIN entries' \subseteq Blocks
        BY DEF TypeOK
      <3> QED
        BY <3>1, Zenon
    <2>2. PICK g \in Nat, k \in Nat : g = grown[s] /\ k = shrunk[s]
      BY DEF TypeOK
    <2>3. PICK h, j : h = grown'[s] /\ j = shrunk'[s]
      OBVIOUS
    <2>4. Counts(h, g, E \ D) /\ Counts(j, k, D \ E)
      BY <1>2, <1>5, <2>1, <2>2, <2>3, HistoryCounts
    <2>5. SweepOK(c, D, g, k)
      BY <1>3, <2>1, <2>2
    <2>6. SweepOK(c, E, h, j)
      BY <2>1, <2>4, <2>5, SweepFrame
    <2> QED
      BY <1>2, <2>1, <2>3, <2>6
  <1> QED
    BY <1>4, <1>5

\* A step of the sweep of s.
LEMMA SweepOfOne ==
    ASSUME TypeOK, TypeOK', SweepInv, NEW s \in Sweepers, SweeperStep(s), Observe(s)
    PROVE  SweepOK(call'[s], DOMAIN entries', grown'[s], shrunk'[s])
  <1>1. s \in Threads /\ EntriesType /\ CallType /\ CallType' /\ clock \in 0 .. MaxNow
    BY TypeParts DEF Threads, TypeOK, CallType, CallOK, Call
  <1>2. PICK c \in Call, q \in Call : c = call[s] /\ call'[s] = q
    BY <1>1 DEF CallType
  <1>3. SweepOK(c, DOMAIN entries, grown[s], shrunk[s])
    BY <1>2 DEF SweepInv
  <1>4. PICK g \in Nat, k \in Nat : g = grown[s] /\ k = shrunk[s]
    BY DEF TypeOK
  <1>5. CASE c.pc = "idle"
    <2>1. grown'[s] = 0 /\ shrunk'[s] = 0
      BY <1>2, <1>5 DEF Observe
    <2>2. SweepOK(call[s], DOMAIN entries, 0, 0)
      BY <1>2, <1>3, <1>5 DEF SweepOK
    <2>3. SweepOK(call'[s], DOMAIN entries', 0, 0)
      BY <1>1, <2>2, OwnSweep
    <2> QED
      BY <2>1, <2>3
  <1>6. CASE c.pc # "idle"
    <2>1. SweepOK(call[s], DOMAIN entries, g, k)
      BY <1>2, <1>3, <1>4
    <2>2. /\ SweepOK(call'[s], DOMAIN entries', g, k)
          /\ DOMAIN entries' \subseteq DOMAIN entries
      BY <1>1, <2>1, OwnSweep
    <2>3. PICK E : E = DOMAIN entries' /\ E \subseteq Blocks /\ E \ E = {}
                   /\ DOMAIN entries' \ DOMAIN entries = {}
      BY <2>2 DEF TypeOK
    <2>4. PICK h, j : h = grown'[s] /\ j = shrunk'[s]
      OBVIOUS
    <2>5. Counts(h, g, E \ E) /\ j = k
      BY <1>2, <1>4, <1>6, <2>3, <2>4, HistoryCounts
    <2>6. Counts(j, k, E \ E)
      <3>1. Cardinality(E \ E) = 0
        BY <2>3, FS_EmptySet
      <3> QED
        BY <2>5, <3>1 DEF Counts
    <2>7. SweepOK(q, E, g, k)
      BY <1>2, <2>2, <2>3
    <2>8. SweepOK(q, E, h, j)
      BY <2>3, <2>5, <2>6, <2>7, SweepFrame
    <2> QED
      BY <1>2, <2>3, <2>4, <2>8
  <1> QED
    BY <1>5, <1>6

LEMMA InitSweep == Init => SweepInv
  <1> SUFFICES ASSUME Init, NEW s \in Sweepers
               PROVE  SweepOK(call[s], DOMAIN entries, grown[s], shrunk[s])
    BY DEF SweepInv
  <1>1. IdleCall.pc = "idle" /\ IdleCall.oldest = {}
    BY DEF IdleCall
  <1>2. PICK c : c = call[s] /\ c.pc = "idle" /\ c.oldest = {}
    <2>1. call[s] = IdleCall
      BY DEF Init, Threads
    <2> QED
      BY <1>1, <2>1
  <1>3. SweepOK(c, DOMAIN entries, grown[s], shrunk[s])
    BY <1>2, EmptySweep DEF SweepOK
  <1> QED
    BY <1>2, <1>3

LEMMA StepSweep == TypeOK /\ TypeOK' /\ SweepInv /\ [Next]_vars => SweepInv'
  <1> SUFFICES ASSUME TypeOK, TypeOK', SweepInv, [Next]_vars, NEW s \in Sweepers
               PROVE  SweepOK(call'[s], DOMAIN entries', grown'[s], shrunk'[s])
    BY DEF SweepInv
  <1>1. ASSUME NEW t \in Threads, t # s,
               CallerStep(t) \/ PurgerStep(t) \/ SweeperStep(t), Observe(t)
        PROVE  SweepOK(call'[s], DOMAIN entries', grown'[s], shrunk'[s])
    BY <1>1, SweepOfOthers
  <1>2. CASE SweeperStep(s) /\ Observe(s)
    BY <1>2, SweepOfOne
  <1>3. CASE Tick
    BY <1>3 DEF Tick, SweepInv
  <1>4. CASE UNCHANGED vars
    BY <1>4 DEF vars, SweepInv
  <1> QED
    BY <1>1, <1>2, <1>3, <1>4 DEF Next, Threads

\* evict counts, collects and removes in separate lock sections while records insert
\* and purges remove. When it ends the index still exceeds the cap by at most what was
\* inserted since it began.
THEOREM SweepBoundHolds == Spec => []SweepBound
  <1>1. SweepInv => SweepBound
    BY DEF SweepInv, SweepOK, SweepBound
  <1> QED
    BY <1>1, TypeCorrect, InitSweep, StepSweep, PTL DEF Spec

\* And it never evicts more than the overflow: a sweep that trims leaves the cap's worth
\* of entries, less what others removed since it began, although its total is stale.
THEOREM SweepKeepsCapHolds == Spec => []SweepKeepsCap
  <1>1. TypeOK /\ SweepInv => SweepKeepsCap
    <2> SUFFICES ASSUME TypeOK, SweepInv, NEW s \in Sweepers, call[s].pc = "swept",
                        call[s].total > MaxEntries
                 PROVE  Cardinality(DOMAIN entries) >= MaxEntries - shrunk[s]
      BY DEF SweepKeepsCap
    <2>1. MaxEntries <= Cardinality(DOMAIN entries) + shrunk[s]
      BY DEF SweepInv, SweepOK
    <2>2. DOMAIN entries \subseteq Blocks /\ shrunk[s] \in Nat
      BY DEF TypeOK
    <2>3. Cardinality(DOMAIN entries) \in Nat
      BY <2>2, Finite
    <2> QED
      BY <2>1, <2>2, <2>3
  <1> QED
    BY <1>1, TypeCorrect, InitSweep, StepSweep, PTL DEF Spec
===========================================================================
