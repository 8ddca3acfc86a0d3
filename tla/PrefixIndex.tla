---------------------------- MODULE PrefixIndex ---------------------------
(***************************************************************************)
(* The sharded prefix index (crates/router-core/src/prefix.rs) with its    *)
(* callers running concurrently: requests record chains and look up their  *)
(* longest match, the health poller and discovery purge workers, and the   *)
(* background task sweeps. A call holds one shard lock at a time, so a     *)
(* step is one lock section, and everything may happen between two of them.*)
(* A block stands for its chain hash; the clock is the process's Instant.  *)
(***************************************************************************)
EXTENDS Integers, Sequences, FiniteSets, Functions

CONSTANTS Workers,      \* worker ids
          Blocks,       \* block hashes
          Chains,       \* the prompts' block chains
          NumShards,    \* number of shards (64)
          ShardOf,      \* block -> shard (the low bits of the hash)
          Callers,      \* threads that record and match
          Purgers,      \* threads that remove workers
          Sweepers,     \* threads that evict
          Ttl,          \* prefix_index_ttl
          MaxEntries,   \* prefix_index_max_entries
          MaxNow,       \* bound: the clock
          NoWorker      \* worker of a call that has none

Threads == Callers \cup Purgers \cup Sweepers
Shards == 0 .. NumShards - 1

ASSUME PrefixIndexAssumption ==
    /\ Chains \subseteq Seq(Blocks) \ {<<>>}
    /\ NumShards \in Nat \ {0}
    /\ ShardOf \in [Blocks -> Shards]
    /\ IsFiniteSet(Blocks)
    /\ Callers \cap Purgers = {} /\ Callers \cap Sweepers = {}
    /\ Purgers \cap Sweepers = {}
    /\ Ttl \in Nat /\ MaxEntries \in Nat /\ MaxNow \in Nat
    /\ NoWorker \notin Workers

VARIABLES entries,   \* block -> [workers, last_touched]
          clock,     \* the current Instant
          call,      \* thread -> the locals of the call it is in
          fresh,     \* history: blocks recorded for p's worker since p's purge began
          grown,     \* history: entries inserted since s's sweep began
          shrunk     \* history: entries others removed since s's sweep began

vars == <<entries, clock, call, fresh, grown, shrunk>>

Entry == [workers : SUBSET Workers, last_touched : Nat]
Stamped == [hash : Blocks, touched : Nat]

IdleCall == [pc |-> "idle", worker |-> NoWorker, chain |-> <<>>, i |-> 0, now |-> 0,
             matched |-> 0, total |-> 0, oldest |-> {}]

InShard(i) == {b \in DOMAIN entries : ShardOf[b] = i}

\* The block is in the index and credits the worker.
Credits(map, w, b) == b \in DOMAIN map /\ w \in map[b].workers

Step(t, local) == call' = [call EXCEPT ![t] = local]

(***************************************************************************)
(* record                                                                  *)
(***************************************************************************)
\* The timestamp is taken once, before the first lock.
RecordCall(t, w, chain) ==
    /\ call[t].pc = "idle"
    /\ Step(t, [IdleCall EXCEPT !.pc = "record", !.worker = w, !.chain = chain,
                                !.i = 1, !.now = clock])
    /\ UNCHANGED <<entries, clock>>

\* One block: insert the entry if absent, add the worker, stamp it.
RecordBlock(t) ==
    /\ call[t].pc = "record"
    /\ LET c == call[t]
           b == c.chain[c.i]
       IN /\ entries' = [x \in DOMAIN entries \cup {b} |->
                           IF x # b THEN entries[x]
                           ELSE [workers |-> (IF b \in DOMAIN entries
                                              THEN entries[b].workers ELSE {})
                                             \cup {c.worker},
                                 last_touched |-> c.now]]
          /\ Step(t, IF c.i = Len(c.chain) THEN IdleCall ELSE [c EXCEPT !.i = @ + 1])
    /\ UNCHANGED clock

(***************************************************************************)
(* longest_match                                                           *)
(***************************************************************************)
MatchCall(t, w, chain) ==
    /\ call[t].pc = "idle"
    /\ Step(t, [IdleCall EXCEPT !.pc = "read", !.worker = w, !.chain = chain, !.i = 1])
    /\ UNCHANGED <<entries, clock>>

\* The read pass stops at the first block the worker is not credited with.
ReadBlock(t) ==
    /\ call[t].pc = "read"
    /\ LET c == call[t]
           hit == Credits(entries, c.worker, c.chain[c.i])
           matched == IF hit THEN c.i ELSE c.matched
       IN Step(t, [c EXCEPT !.matched = matched,
                            !.pc = IF hit /\ c.i < Len(c.chain) THEN "read" ELSE "stamp",
                            !.i = IF hit /\ c.i < Len(c.chain) THEN c.i + 1 ELSE 1])
    /\ UNCHANGED <<entries, clock>>

TouchEvenWithoutHit(t) ==
    /\ call[t].pc = "stamp"
    /\ Step(t, [call[t] EXCEPT !.pc = "touch", !.now = clock])
    /\ UNCHANGED <<entries, clock>>

\* The timestamp of the touch pass; without a hit there is nothing to touch.
StampMatch(t) ==
    /\ call[t].pc = "stamp"
    /\ Step(t, IF call[t].matched = 0 THEN IdleCall
               ELSE [call[t] EXCEPT !.pc = "touch", !.now = clock])
    /\ UNCHANGED <<entries, clock>>

TouchReinserts(t) ==
    /\ call[t].pc = "touch"
    /\ LET c == call[t]
           b == c.chain[c.i]
       IN /\ entries' = [x \in DOMAIN entries \cup {b} |->
                           IF x # b THEN entries[x]
                           ELSE [workers |-> IF b \in DOMAIN entries
                                             THEN entries[b].workers ELSE {c.worker},
                                 last_touched |-> c.now]]
          /\ Step(t, IF c.i = c.matched THEN IdleCall ELSE [c EXCEPT !.i = @ + 1])
    /\ UNCHANGED clock

\* A block that vanished since the read pass is not brought back.
TouchBlock(t) ==
    /\ call[t].pc = "touch"
    /\ LET c == call[t]
           b == c.chain[c.i]
       IN /\ entries' = [x \in DOMAIN entries |->
                           IF x = b THEN [entries[x] EXCEPT !.last_touched = c.now]
                           ELSE entries[x]]
          /\ Step(t, IF c.i = c.matched THEN IdleCall ELSE [c EXCEPT !.i = @ + 1])
    /\ UNCHANGED clock

(***************************************************************************)
(* remove_worker                                                           *)
(***************************************************************************)
PurgeCall(t, w) ==
    /\ call[t].pc = "idle"
    /\ Step(t, [IdleCall EXCEPT !.pc = "purge", !.worker = w])
    /\ UNCHANGED <<entries, clock>>

NextShardSkipsLast(c, last) ==
    IF c.i >= NumShards - 2 THEN [c EXCEPT !.i = 0, !.pc = last] ELSE [c EXCEPT !.i = @ + 1]

\* One shard after the other from shard 0; `last` is the pc after the last.
NextShard(c, last) ==
    IF c.i = NumShards - 1 THEN [c EXCEPT !.i = 0, !.pc = last] ELSE [c EXCEPT !.i = @ + 1]

PurgeKeepsEmpty(t) ==
    /\ call[t].pc = "purge"
    /\ LET c == call[t]
       IN /\ entries' = [b \in DOMAIN entries |->
                           IF ShardOf[b] = c.i
                           THEN [entries[b] EXCEPT !.workers = @ \ {c.worker}]
                           ELSE entries[b]]
          /\ Step(t, NextShard(c, "purged"))
    /\ UNCHANGED clock

\* One shard: the worker leaves every entry, an entry left empty is dropped.
PurgeShard(t) ==
    /\ call[t].pc = "purge"
    /\ LET c == call[t]
           dead == {b \in InShard(c.i) : entries[b].workers \subseteq {c.worker}}
       IN /\ entries' = [b \in DOMAIN entries \ dead |->
                           IF ShardOf[b] = c.i
                           THEN [entries[b] EXCEPT !.workers = @ \ {c.worker}]
                           ELSE entries[b]]
          /\ Step(t, NextShard(c, "purged"))
    /\ UNCHANGED clock

(***************************************************************************)
(* evict                                                                   *)
(***************************************************************************)
SweepCall(t) ==
    /\ call[t].pc = "idle"
    /\ Step(t, [IdleCall EXCEPT !.pc = "expire", !.now = clock])
    /\ UNCHANGED <<entries, clock>>

\* TTL pass. duration_since saturates at zero for a stamp newer than now.
ExpireShard(t) ==
    /\ call[t].pc = "expire"
    /\ LET c == call[t]
           old == {b \in InShard(c.i) : c.now - entries[b].last_touched > Ttl}
       IN /\ entries' = Restrict(entries, DOMAIN entries \ old)
          /\ Step(t, NextShard(c, "count"))
    /\ UNCHANGED clock

\* len(), shard by shard; at the cap or below the sweep ends here.
CountShard(t) ==
    /\ call[t].pc = "count"
    /\ LET c == [call[t] EXCEPT !.total = @ + Cardinality(InShard(call[t].i))]
       IN Step(t, NextShard(c, IF c.total <= MaxEntries THEN "swept" ELSE "collect"))
    /\ UNCHANGED <<entries, clock>>

TakeOneTooMany(found, total) ==
    {V \in SUBSET found :
        /\ \/ Cardinality(V) = total - MaxEntries + 1
           \/ V = found /\ Cardinality(found) < total - MaxEntries + 1
        /\ \A v \in V, x \in found \ V : v.touched <= x.touched}

TakeOneTooFew(found, total) ==
    {V \in SUBSET found :
        /\ \/ Cardinality(V) = total - MaxEntries - 1
           \/ V = found /\ Cardinality(found) < total - MaxEntries - 1
        /\ \A v \in V, x \in found \ V : v.touched <= x.touched}

\* sort_by_key and take(overflow): the oldest ones, ties in any order.
Oldest(found, total) ==
    {V \in SUBSET found :
        /\ \/ Cardinality(V) = total - MaxEntries
           \/ V = found /\ Cardinality(found) < total - MaxEntries
        /\ \A v \in V, x \in found \ V : v.touched <= x.touched}

\* The victims are chosen from what the collect pass saw.
CollectShard(t) ==
    /\ call[t].pc = "collect"
    /\ LET c == call[t]
           found == c.oldest \cup {[hash |-> b, touched |-> entries[b].last_touched] :
                                     b \in InShard(c.i)}
       IN IF c.i < NumShards - 1
          THEN Step(t, NextShard([c EXCEPT !.oldest = found], "collect"))
          ELSE \E V \in Oldest(found, c.total) :
                 Step(t, NextShard([c EXCEPT !.oldest = V],
                                   IF V = {} THEN "swept" ELSE "trim"))
    /\ UNCHANGED <<entries, clock>>

\* One victim, oldest stamp first, removed whatever happened to it since.
TrimOne(t) ==
    /\ call[t].pc = "trim"
    /\ \E v \in call[t].oldest :
         /\ \A x \in call[t].oldest : v.touched <= x.touched
         /\ entries' = Restrict(entries, DOMAIN entries \ {v.hash})
         /\ LET left == call[t].oldest \ {v}
            IN Step(t, [call[t] EXCEPT !.oldest = left,
                                       !.pc = IF left = {} THEN "swept" ELSE "trim"])
    /\ UNCHANGED clock

\* A purge or a sweep returns.
Return(t) ==
    /\ call[t].pc \in {"purged", "swept"}
    /\ Step(t, IdleCall)
    /\ UNCHANGED <<entries, clock>>

Tick ==
    /\ clock < MaxNow
    /\ clock' = clock + 1
    /\ UNCHANGED <<entries, call, fresh, grown, shrunk>>

(***************************************************************************)
(* Specification                                                           *)
(***************************************************************************)
\* Entries never outnumber the blocks, so counting further tells nothing apart.
UpToBlocks(n) == IF n > Cardinality(Blocks) THEN Cardinality(Blocks) ELSE n

\* The block that a step of thread t records for worker w.
RecordedFor(t, w) ==
    IF call[t].pc = "record" /\ call[t].worker = w THEN {call[t].chain[call[t].i]} ELSE {}

\* The history of the purges and sweeps under way, after a step of thread t.
Observe(t) ==
    /\ fresh' = [p \in Purgers |->
                   IF call[p].pc = "idle" THEN {}
                   ELSE fresh[p] \cup RecordedFor(t, call[p].worker)]
    /\ grown' = [s \in Sweepers |->
                   IF call[s].pc = "idle" THEN 0
                   ELSE UpToBlocks(grown[s] + Cardinality(DOMAIN entries' \ DOMAIN entries))]
    /\ shrunk' = [s \in Sweepers |->
                   IF call[s].pc = "idle" THEN 0
                   ELSE IF s = t THEN shrunk[s]
                   ELSE UpToBlocks(shrunk[s] + Cardinality(DOMAIN entries \ DOMAIN entries'))]

CallerStep(t) ==
    \/ \E w \in Workers, chain \in Chains : RecordCall(t, w, chain)
    \/ RecordBlock(t)
    \/ \E w \in Workers, chain \in Chains : MatchCall(t, w, chain)
    \/ ReadBlock(t)
    \/ StampMatch(t)
    \/ TouchBlock(t)

PurgerStep(t) ==
    \/ \E w \in Workers : PurgeCall(t, w)
    \/ PurgeShard(t)
    \/ Return(t)

SweeperStep(t) ==
    \/ SweepCall(t)
    \/ ExpireShard(t)
    \/ CountShard(t)
    \/ CollectShard(t)
    \/ TrimOne(t)
    \/ Return(t)

Init ==
    /\ entries = [b \in {} |-> b]
    /\ clock = 0
    /\ call = [t \in Threads |-> IdleCall]
    /\ fresh = [p \in Purgers |-> {}]
    /\ grown = [s \in Sweepers |-> 0]
    /\ shrunk = [s \in Sweepers |-> 0]

Next ==
    \/ \E t \in Callers : CallerStep(t) /\ Observe(t)
    \/ \E t \in Purgers : PurgerStep(t) /\ Observe(t)
    \/ \E t \in Sweepers : SweeperStep(t) /\ Observe(t)
    \/ Tick

Spec == Init /\ [][Next]_vars

(***************************************************************************)
(* Properties                                                              *)
(***************************************************************************)
Pc == {"idle", "record", "read", "stamp", "touch", "purge", "purged", "expire", "count",
       "collect", "trim", "swept"}

\* Every variable keeps its type, and a call its cursor within its chain.
TypeOK ==
    /\ DOMAIN entries \subseteq Blocks
    /\ \A b \in DOMAIN entries : entries[b] \in Entry
    /\ clock \in 0 .. MaxNow
    /\ call \in [Threads -> [pc : Pc, worker : Workers \cup {NoWorker},
                             chain : Seq(Blocks), i : Nat, now : Nat, matched : Nat,
                             total : Nat, oldest : SUBSET Stamped]]
    /\ \A t \in Threads : call[t].pc \in {"record", "read", "stamp", "touch"} =>
         /\ call[t].worker \in Workers
         /\ call[t].i \in 1 .. Len(call[t].chain)
         /\ call[t].matched \in 0 .. Len(call[t].chain)
         /\ call[t].pc = "stamp" => call[t].i = 1
         /\ call[t].pc = "touch" => call[t].i <= call[t].matched
    /\ fresh \in [Purgers -> SUBSET Blocks]
    /\ grown \in [Sweepers -> Nat]
    /\ shrunk \in [Sweepers -> Nat]

\* An entry always credits somebody: no interleaving of record, purge, touch and
\* eviction leaves a block that no worker holds taking room under the cap.
NoEmptyEntry == \A b \in DOMAIN entries : entries[b].workers # {}

\* A shard the purge of w has passed credits w only with blocks a record step wrote
\* for w after the purge began: a touch, or a record of another worker, resurrects
\* nothing
\* (prefix.rs, "Drop a worker from the index entirely").
PurgeComplete ==
    \A p \in Purgers, b \in DOMAIN entries :
        /\ call[p].pc \in {"purge", "purged"}
        /\ call[p].pc = "purge" => ShardOf[b] < call[p].i
        /\ call[p].worker \in entries[b].workers
        => b \in fresh[p]

\* When a sweep ends the index exceeds the cap by no more than what was inserted
\* while it ran, although len, the collection and the removals are not one step.
SweepBound ==
    \A s \in Sweepers : call[s].pc = "swept" =>
        Cardinality(DOMAIN entries) <= MaxEntries + grown[s]

\* A sweep that trims leaves the cap's worth of entries, less what others removed
\* meanwhile: a stale total never makes it evict more than the overflow.
SweepKeepsCap ==
    \A s \in Sweepers : call[s].pc = "swept" /\ call[s].total > MaxEntries =>
        Cardinality(DOMAIN entries) >= MaxEntries - shrunk[s]

\* The belief the entries hold, and what the records under way will add to it.
Credited == {pair \in Workers \X Blocks : Credits(entries, pair[1], pair[2])}
Pending(t) ==
    IF call[t].pc = "record"
    THEN {<<call[t].worker, call[t].chain[j]>> : j \in call[t].i .. Len(call[t].chain)}
    ELSE {}

Belief == INSTANCE PrefixBelief WITH belief <- Credited,
                                     learning <- [t \in Callers |-> Pending(t)]

\* The sharded, timestamped index with all its interleavings implements the
\* belief its users reason with: only a record under way adds a credit, and a
\* purge, a sweep or a touch racing with it never does.
ImplementsBelief == Belief!BeliefSpec
===========================================================================
