--------------------------- MODULE SelectionProofs ------------------------
(***************************************************************************)
(* Theorems about Selection, for any number of workers, pools, requests,   *)
(* blocks and selections, any weights and any history of records, requests *)
(* that start and end, purges, evictions and health changes.               *)
(***************************************************************************)
EXTENDS Selection, Extrema, FiniteSetTheorems, TLAPS

(***************************************************************************)
(* The inductive invariant                                                 *)
(***************************************************************************)
Local == [pc : {"idle", "ticket", "match", "score", "tie", "record", "acquire", "inflight"},
          pool : {"prefill", "decode", "both"}, cand : SUBSET Workers, left : SUBSET Workers,
          matched : Nat, score : Int, best : {None} \cup Scored]
Lengths == 0 .. ChainLen
Loads == 0 .. CountMod - 1
View == [some : SUBSET Blocks, all : SUBSET Blocks, load : SUBSET Loads]

TypeOK ==
    /\ slots = NumWorkers /\ counts \in [Workers -> Loads]
    /\ policy \in Policies
    /\ healthy \subseteq Workers
    /\ held \in [Workers -> SUBSET Blocks]
    /\ next_worker \in Nat
    /\ sel \in [Requests -> Local]

\* What the point a selection has reached says of its locals.
Phase(c) ==
    /\ c.pc = "ticket" => policy = "round_robin" /\ c.cand # {}
    /\ c.pc \in {"match", "score", "tie"} => c.left # {}
    /\ c.pc \in {"record", "acquire", "inflight"} => c.best \in Scored

PhaseInv == \A r \in Requests : Phase(sel[r])

\* The lengths a match can have found, block by block, and a score made of such a
\* length and a load.
Reads(V) == Lead(V.all) .. Lead(V.some)

Read(W, w, score) ==
    \E m \in Reads(W[w]), l \in W[w].load : score = m * CacheWeight - l * LoadWeight

\* The best so far was read, and wins over something that was read of every worker the
\* scan has passed.
Beaten(W, best, v) ==
    \E x \in Scored : /\ x.id = v /\ Read(W, v, x.score) /\ x.in_flight \in W[v].load
                      /\ x = best \/ cmp(best, x)

ScanIn(c, W) ==
    /\ W \in [c.cand -> View]
    /\ c.left \subseteq c.cand /\ c.cand # {}
    /\ c.best = None => c.left = c.cand
    /\ c.best # None => /\ c.best.id \in c.cand /\ Read(W, c.best.id, c.best.score)
                        /\ c.best.in_flight \in W[c.best.id].load
    /\ \A v \in c.cand \ c.left : Beaten(W, c.best, v)
    /\ c.pc = "match" => c.matched \in Lengths /\ 1 .. c.matched \subseteq W[Min(c.left)].some
    /\ c.pc = "score" => c.matched \in Reads(W[Min(c.left)])
    /\ c.pc = "tie" => Read(W, Min(c.left), c.score)
    /\ c.pc = "record" => c.left = {}

\* The window holds the present of a scan that is under way.
Current(c, W, match, load) ==
    \A w \in c.cand : /\ match[w] \subseteq W[w].some /\ W[w].all \subseteq match[w]
                       /\ load[w] \in W[w].load

ScanAt(r) ==
    policy # "round_robin" /\ sel[r].pc \in {"match", "score", "tie", "record"} =>
        /\ ScanIn(sel[r], window[r])
        /\ Scanning(r) => Current(sel[r], window[r], held, counts)

ScanInv == \A r \in Requests : ScanAt(r)

(***************************************************************************)
(* Ranks: the n-th candidate                                               *)
(***************************************************************************)
Rank(S, w) == Cardinality({v \in S : v < w})

LEMMA RankGrows ==
    ASSUME NEW S, IsFiniteSet(S), S \subseteq Nat, NEW v \in S, NEW w \in S, v < w
    PROVE  Rank(S, v) < Rank(S, w)
  <1> DEFINE A == {x \in S : x < v}
             B == {x \in S : x < w}
  <1>0. v \in Nat /\ w \in Nat /\ \A x \in S : x \in Nat
    OBVIOUS
  <1>1. A \subseteq B /\ v \in B /\ v \notin A /\ B \subseteq S
    <2>1. \A x \in A : x \in S /\ x < w
      BY <1>0
    <2>2. v \in B
      OBVIOUS
    <2>3. v \notin A
      BY <1>0
    <2>4. A \subseteq B
      BY <2>1, Zenon
    <2> QED
      BY <2>2, <2>3, <2>4, Zenon
  <1>2. IsFiniteSet(B) /\ IsFiniteSet(A)
    BY <1>1, FS_Subset
  <1>3. Cardinality(A) <= Cardinality(B) /\ Cardinality(A) # Cardinality(B)
    <2> HIDE DEF A, B
    <2> QED
      BY <1>1, <1>2, FS_Subset
  <1>4. Cardinality(A) \in Nat /\ Cardinality(B) \in Nat
    BY <1>2, FS_CardinalityType
  <1>5. Cardinality(A) < Cardinality(B)
    <2> HIDE DEF A, B
    <2> QED
      BY <1>3, <1>4
  <1> QED
    BY <1>5 DEF Rank

LEMMA RankType ==
    ASSUME NEW S, IsFiniteSet(S), S \subseteq Nat, NEW w \in S
    PROVE  Rank(S, w) \in 0 .. Cardinality(S) - 1
  <1> DEFINE B == {x \in S : x < w}
  <1>1. B \subseteq S /\ w \notin B
    OBVIOUS
  <1> HIDE DEF B
  <1>2. IsFiniteSet(B) /\ Cardinality(B) <= Cardinality(S) /\ Cardinality(B) # Cardinality(S)
    BY <1>1, FS_Subset
  <1>3. Cardinality(B) \in Nat /\ Cardinality(S) \in Nat
    BY <1>2, FS_CardinalityType
  <1>4. Cardinality(B) \in 0 .. Cardinality(S) - 1
    BY <1>2, <1>3
  <1> QED
    BY <1>4 DEF Rank, B

\* Every place below the number of candidates is the place of one of them.
LEMMA RankOnto ==
    ASSUME NEW S, IsFiniteSet(S), S \subseteq Nat, NEW k \in 0 .. Cardinality(S) - 1
    PROVE  \E w \in S : Rank(S, w) = k
  <1> DEFINE n == Cardinality(S)
             T == 0 .. n - 1
             f == [w \in S |-> Rank(S, w)]
  <1>1. n \in Nat
    BY FS_CardinalityType
  <1>2. IsFiniteSet(T) /\ Cardinality(T) = n
    BY <1>1, FS_Interval
  <1>3. \A w \in S : Rank(S, w) \in T
    BY RankType
  <1>4. ASSUME NEW v \in S, NEW w \in S, Rank(S, v) = Rank(S, w) PROVE v = w
    <2>1. /\ v \in Nat /\ w \in Nat /\ Rank(S, v) \in T /\ Rank(S, w) \in T
      BY <1>3
    <2>2. v < w => Rank(S, v) < Rank(S, w)
      BY RankGrows
    <2>3. w < v => Rank(S, w) < Rank(S, v)
      BY RankGrows
    <2>4. Rank(S, v) \in Nat /\ Rank(S, w) \in Nat
      BY <1>1, <2>1
    <2> QED
      BY <1>4, <2>1, <2>2, <2>3, <2>4
  <1> HIDE DEF T, n
  <1>5. f \in Injection(S, T)
    BY <1>3, <1>4 DEF Injection, IsInjective
  <1> HIDE DEF f
  <1>6. f \in Surjection(S, T)
    BY <1>2, <1>5, FS_Injection DEF n
  <1>7. \E w \in S : f[w] = k
    BY <1>6 DEF Surjection, T, n
  <1> QED
    BY <1>7 DEF f

LEMMA NthFacts ==
    ASSUME NEW S, IsFiniteSet(S), S \subseteq Nat, NEW k \in 0 .. Cardinality(S) - 1
    PROVE  Nth(S, k) \in S /\ Rank(S, Nth(S, k)) = k
  <1>1. \E w \in S : Cardinality({v \in S : v < w}) = k
    BY RankOnto DEF Rank
  <1> QED
    BY <1>1 DEF Nth, Rank

(***************************************************************************)
(* Type correctness                                                        *)
(***************************************************************************)
LEMMA Constants ==
    /\ NumWorkers \in Nat /\ Workers \subseteq Nat /\ IsFiniteSet(Workers)
    /\ \A w \in Workers : w < NumWorkers
    /\ ChainLen \in Nat /\ Blocks \subseteq Nat /\ 0 \in Lengths
    /\ CacheWeight \in Nat /\ LoadWeight \in Nat
    /\ Loads \subseteq Nat /\ 0 \in Loads /\ CountMod - 1 \in Nat
    /\ None \notin Scored
  BY SelectionAssumption, CountModAssumption, FS_Interval DEF Workers, Blocks, Lengths, Loads

LEMMA SubsetFinite ==
    ASSUME NEW S, S \subseteq Workers
    PROVE  IsFiniteSet(S) /\ S \subseteq Nat
  BY Constants, FS_Subset

Moves(r, q) == sel' = [sel EXCEPT ![r] = q]

LEMMA MovesFacts ==
    ASSUME TypeOK, NEW r \in Requests, NEW q \in Local, Moves(r, q)
    PROVE  /\ sel' \in [Requests -> Local] /\ sel'[r] = q
           /\ \A x \in Requests \ {r} : sel'[x] = sel[x]
  BY DEF Moves, TypeOK

LEMMA IdleFacts ==
    /\ Idle \in Local /\ Idle.pc = "idle" /\ Idle.cand = {} /\ Idle.left = {} /\ Idle.best = None
    /\ Idle.matched = 0
  BY DEF Idle, Local

LEMMA CandidatesType ==
    ASSUME TypeOK, NEW pool
    PROVE  candidates(pool) \subseteq Workers
  BY DEF candidates, InPool, TypeOK

\* The load of a worker, and what increment and decrement leave.
LEMMA CountIs ==
    ASSUME TypeOK, NEW w \in Workers
    PROVE  count(w) = counts[w] /\ counts[w] \in Loads /\ counts[w] \in Nat
  BY Constants DEF TypeOK, count

LEMMA CountsType ==
    ASSUME TypeOK, NEW w \in Workers, increment(w) \/ decrement(w)
    PROVE  slots' = slots /\ counts' \in [Workers -> Loads]
  <1>1. \A n \in Loads : WrapInc(n) \in Loads /\ WrapDec(n) \in Loads
    BY CountModAssumption DEF WrapInc, WrapDec, Loads
  <1> QED
    BY <1>1 DEF increment, decrement, TypeOK

\* The steps of a selection, one by one.
SnapshotTo(q) ==
    /\ q.cand # {} /\ q.left = q.cand /\ q.best = None /\ q.matched = 0
    /\ q.pc = IF policy = "round_robin" THEN "ticket" ELSE "match"

LEMMA SnapshotIs ==
    ASSUME TypeOK, NEW r \in Requests, Snapshot(r)
    PROVE  /\ sel[r].pc = "idle" /\ UNCHANGED <<trackerVars, policy, healthy, held, next_worker, spread>>
           /\ \E q \in Local : Moves(r, q) /\ SnapshotTo(q)
  <1>1. PICK pool \in {"prefill", "decode", "both"} :
           /\ candidates(pool) # {}
           /\ Step(r, [Idle EXCEPT !.pc = IF policy = "round_robin" THEN "ticket" ELSE "match",
                                   !.pool = pool, !.cand = candidates(pool),
                                   !.left = candidates(pool)])
    BY DEF Snapshot
  <1>2. PICK c : c = candidates(pool) /\ c \subseteq Workers /\ c # {}
    BY <1>1, CandidatesType
  <1>3. PICK pc \in {"ticket", "match"} : pc = IF policy = "round_robin" THEN "ticket" ELSE "match"
    OBVIOUS
  <1> DEFINE q == [Idle EXCEPT !.pc = pc, !.pool = pool, !.cand = c, !.left = c]
  <1>4. q \in Local /\ q.pc = pc /\ q.cand = c /\ q.left = c /\ q.best = None /\ q.matched = 0
    BY <1>2, IdleFacts DEF Local
  <1>5. Moves(r, q)
    BY <1>1, <1>2, <1>3 DEF Step, Moves
  <1> HIDE DEF q
  <1>6. SnapshotTo(q)
    BY <1>2, <1>3, <1>4 DEF SnapshotTo
  <1> QED
    BY <1>1, <1>4, <1>5, <1>6 DEF Snapshot, Step

LEMMA TicketIs ==
    ASSUME TypeOK, PhaseInv, NEW r \in Requests, Ticket(r)
    PROVE  /\ sel[r].pc = "ticket" /\ policy = "round_robin" /\ next_worker' = next_worker + 1
           /\ UNCHANGED <<trackerVars, policy, healthy, held>>
           /\ \E w \in sel[r].cand, q \in Local :
                /\ Rank(sel[r].cand, w) = next_worker % Cardinality(sel[r].cand)
                /\ Moves(r, q) /\ q.pc = "record" /\ q.best \in Scored
                /\ spread' = IF sel[r].cand = candidates("both")
                             THEN [spread EXCEPT !.picks[w] = @ + 1]
                             ELSE [spread EXCEPT !.strays = @ + 1]
  <1> DEFINE S == sel[r].cand
             n == Cardinality(S)
  <1>1. /\ sel[r].pc = "ticket" /\ next_worker' = next_worker + 1
        /\ UNCHANGED <<trackerVars, policy, healthy, held>>
    BY DEF Ticket, Step
  <1>2. S \subseteq Workers /\ S # {} /\ policy = "round_robin" /\ next_worker \in Nat
    BY <1>1 DEF TypeOK, Local, PhaseInv, Phase
  <1>3. IsFiniteSet(S) /\ S \subseteq Nat
    BY <1>2, SubsetFinite
  <1>4. n \in Nat /\ n > 0
    <2>1. n \in Nat /\ n # 0
      BY <1>2, <1>3, FS_CardinalityType, FS_EmptySet
    <2> QED
      BY <2>1
  <1>5. PICK k \in 0 .. n - 1 : k = next_worker % n
    BY <1>2, <1>4
  <1>6. PICK w : w = Nth(S, k) /\ w \in S /\ Rank(S, w) = k
    BY <1>3, NthFacts
  <1>7. PICK b \in Scored : b = [id |-> w, score |-> 0, in_flight |-> 0]
    <2>1. w \in Workers
      BY <1>2, <1>6
    <2>2. [id |-> w, score |-> 0, in_flight |-> 0] \in Scored
      BY <2>1 DEF Scored
    <2> QED
      BY <2>2
  <1> DEFINE q == [sel[r] EXCEPT !.pc = "record", !.best = b]
  <1>8. q \in Local /\ q.pc = "record" /\ q.best = b
    BY <1>7 DEF TypeOK, Local
  <1>9. Moves(r, q)
    BY <1>5, <1>6, <1>7 DEF Ticket, Step, Moves
  <1>10. spread' = IF S = candidates("both") THEN [spread EXCEPT !.picks[w] = @ + 1]
                   ELSE [spread EXCEPT !.strays = @ + 1]
    BY <1>5, <1>6 DEF Ticket
  <1> HIDE DEF q
  <1> QED
    BY <1>1, <1>2, <1>5, <1>6, <1>7, <1>8, <1>9, <1>10

\* The worker a scan is at.
LEMMA AtFacts ==
    ASSUME TypeOK, NEW r \in Requests, sel[r].left # {}
    PROVE  /\ sel[r] \in Local /\ At(r) = Min(sel[r].left)
           /\ At(r) \in sel[r].left /\ At(r) \in Workers
           /\ \A x \in sel[r].left : At(r) <= x
  <1>1. sel[r] \in Local /\ sel[r].left \subseteq Workers
    BY DEF TypeOK, Local
  <1>2. sel[r].left \subseteq Nat
    BY <1>1, Constants
  <1> QED
    BY <1>1, <1>2, MinIsLeast DEF At

LEMMA ReadMatchIs ==
    ASSUME TypeOK, PhaseInv, NEW r \in Requests, ReadMatch(r)
    PROVE  /\ sel[r].pc = "match" /\ sel[r].left # {}
           /\ UNCHANGED <<trackerVars, policy, healthy, held, next_worker, spread>>
           /\ \E q \in Local : /\ Moves(r, q) /\ q.pc = "match"
                               /\ q.matched = sel[r].matched + 1 /\ q.matched \in held[At(r)]
                               /\ q.cand = sel[r].cand /\ q.left = sel[r].left
                               /\ q.best = sel[r].best
  <1> DEFINE q == [sel[r] EXCEPT !.matched = sel[r].matched + 1]
  <1>1. /\ sel[r].pc = "match" /\ Moves(r, q) /\ sel[r].matched + 1 \in held[At(r)]
        /\ UNCHANGED <<trackerVars, policy, healthy, held, next_worker, spread>>
    BY DEF ReadMatch, Step, Moves
  <1>2. sel[r].left # {}
    BY <1>1 DEF PhaseInv, Phase
  <1>3. PICK m \in Nat : m = sel[r].matched + 1
    BY DEF TypeOK, Local
  <1>4. /\ q \in Local /\ q.pc = "match" /\ q.matched = m
        /\ q.cand = sel[r].cand /\ q.left = sel[r].left /\ q.best = sel[r].best
    BY <1>1, <1>3 DEF TypeOK, Local
  <1> HIDE DEF q
  <1> QED
    BY <1>1, <1>2, <1>3, <1>4

LEMMA EndMatchIs ==
    ASSUME TypeOK, PhaseInv, NEW r \in Requests, EndMatch(r)
    PROVE  /\ sel[r].pc = "match" /\ sel[r].left # {} /\ sel[r].matched + 1 \notin held[At(r)]
           /\ UNCHANGED <<trackerVars, policy, healthy, held, next_worker, spread>>
           /\ \E q \in Local : /\ Moves(r, q) /\ q.pc = "score" /\ q.matched = sel[r].matched
                               /\ q.cand = sel[r].cand /\ q.left = sel[r].left
                               /\ q.best = sel[r].best
  <1> DEFINE q == [sel[r] EXCEPT !.pc = "score"]
  <1>1. /\ sel[r].pc = "match" /\ Moves(r, q) /\ sel[r].matched + 1 \notin held[At(r)]
        /\ UNCHANGED <<trackerVars, policy, healthy, held, next_worker, spread>>
    BY DEF EndMatch, Step, Moves
  <1>2. sel[r].left # {}
    BY <1>1 DEF PhaseInv, Phase
  <1>3. /\ q \in Local /\ q.pc = "score" /\ q.matched = sel[r].matched
        /\ q.cand = sel[r].cand /\ q.left = sel[r].left /\ q.best = sel[r].best
    BY DEF TypeOK, Local
  <1> HIDE DEF q
  <1> QED
    BY <1>1, <1>2, <1>3

LEMMA ReadScoreIs ==
    ASSUME TypeOK, PhaseInv, NEW r \in Requests, ReadScore(r)
    PROVE  /\ sel[r].pc = "score" /\ sel[r].left # {}
           /\ UNCHANGED <<trackerVars, policy, healthy, held, next_worker, spread>>
           /\ \E q \in Local : /\ Moves(r, q) /\ q.pc = "tie"
                               /\ q.score = sel[r].matched * CacheWeight
                                              - counts[At(r)] * LoadWeight
                               /\ q.cand = sel[r].cand /\ q.left = sel[r].left
                               /\ q.best = sel[r].best
  <1> DEFINE q == [sel[r] EXCEPT !.pc = "tie",
                                 !.score = score_worker(sel[r].matched, count(At(r)))]
  <1>1. /\ sel[r].pc = "score" /\ Moves(r, q)
        /\ UNCHANGED <<trackerVars, policy, healthy, held, next_worker, spread>>
    BY DEF ReadScore, Step, Moves
  <1>2. sel[r].left # {}
    BY <1>1 DEF PhaseInv, Phase
  <1>3. sel[r].matched \in Nat /\ counts[At(r)] \in Nat /\ count(At(r)) = counts[At(r)]
    BY <1>2, AtFacts, CountIs DEF Local
  <1>4. PICK s \in Int : /\ s = score_worker(sel[r].matched, count(At(r)))
                         /\ s = sel[r].matched * CacheWeight - counts[At(r)] * LoadWeight
    BY <1>3, Constants DEF score_worker
  <1>5. /\ q \in Local /\ q.pc = "tie" /\ q.score = s
        /\ q.cand = sel[r].cand /\ q.left = sel[r].left /\ q.best = sel[r].best
    BY <1>4 DEF TypeOK, Local
  <1> HIDE DEF q
  <1> QED
    BY <1>1, <1>2, <1>4, <1>5

\* The candidate is compared with the best so far.
TieTo(c, q, this) ==
    /\ q.cand = c.cand /\ q.left = c.left \ {this.id}
    /\ q.best = IF c.best # None /\ cmp(c.best, this) THEN c.best ELSE this
    /\ q.best \in Scored /\ q.matched = 0
    /\ q.pc = IF q.left = {} THEN "record" ELSE "match"

LEMMA ReadTieIs ==
    ASSUME TypeOK, PhaseInv, NEW r \in Requests, ReadTie(r)
    PROVE  /\ sel[r].pc = "tie" /\ sel[r].left # {}
           /\ UNCHANGED <<trackerVars, policy, healthy, held, next_worker, spread>>
           /\ \E q \in Local, this \in Scored :
                /\ Moves(r, q) /\ TieTo(sel[r], q, this)
                /\ this.id = At(r) /\ this.score = sel[r].score /\ this.in_flight = counts[At(r)]
  <1> DEFINE c == sel[r]
  <1>1. /\ c.pc = "tie" /\ UNCHANGED <<trackerVars, policy, healthy, held, next_worker, spread>>
    BY DEF ReadTie, Step
  <1>2. c.left # {}
    BY <1>1 DEF PhaseInv, Phase
  <1>3. PICK a \in Workers : a = At(r)
    BY <1>2, AtFacts
  <1>4. PICK n \in Nat : n = counts[a] /\ count(a) = n
    BY CountIs
  <1>5. c \in Local /\ c.score \in Int
    BY DEF TypeOK, Local
  <1>6. PICK this \in Scored : this = [id |-> a, score |-> c.score, in_flight |-> n]
    <2>1. [id |-> a, score |-> c.score, in_flight |-> n] \in Scored
      BY <1>5 DEF Scored
    <2> QED
      BY <2>1
  <1>7. PICK best \in Scored : best = IF c.best # None /\ cmp(c.best, this) THEN c.best ELSE this
    <2>1. c.best = None \/ c.best \in Scored
      BY <1>5 DEF Local
    <2> QED
      BY <2>1, Zenon
  <1>8. PICK left \in SUBSET Workers : left = c.left \ {a}
    BY <1>5 DEF Local
  <1>9. PICK pc \in {"record", "match"} : pc = IF left = {} THEN "record" ELSE "match"
    OBVIOUS
  <1> DEFINE q == [c EXCEPT !.pc = pc, !.left = left, !.best = best, !.matched = 0, !.score = 0]
  <1>10. Moves(r, q)
    <2>1. At(r) = a /\ count(At(r)) = n
      BY <1>3, <1>4
    <2>2. Moves(r, LET this_ == [id |-> a, score |-> c.score, in_flight |-> n]
                       best_ == IF c.best # None /\ cmp(c.best, this_) THEN c.best ELSE this_
                       left_ == c.left \ {a}
                   IN [c EXCEPT !.pc = IF left_ = {} THEN "record" ELSE "match",
                                !.left = left_, !.best = best_, !.matched = 0, !.score = 0])
      BY <2>1, Zenon DEF ReadTie, Step, Moves
    <2> QED
      BY <2>2, <1>6, <1>7, <1>8, <1>9
  <1>11. /\ q \in Local /\ q.pc = pc /\ q.cand = c.cand /\ q.left = left /\ q.best = best
         /\ q.matched = 0
    <2>1. PICK x \in Local : x = c
      BY <1>5
    <2>0. PICK m \in Nat, z \in Int : m = 0 /\ z = 0
      OBVIOUS
    <2>2. PICK y : y = [x EXCEPT !.pc = pc, !.left = left, !.best = best, !.matched = m, !.score = z]
      OBVIOUS
    <2>3. y.pc = pc /\ y.cand = x.cand /\ y.left = left /\ y.best = best /\ y.matched = m
      BY <2>2 DEF Local
    <2>4. y \in Local
      BY <2>2 DEF Local
    <2>5. q = y
      BY <2>0, <2>1, <2>2
    <2> HIDE DEF q
    <2> QED
      BY <2>0, <2>1, <2>3, <2>4, <2>5
  <1>12. this.id = a /\ this.score = c.score /\ this.in_flight = n
    BY <1>6
  <1> HIDE DEF q, c
  <1>13. TieTo(c, q, this)
    BY <1>7, <1>8, <1>9, <1>11, <1>12 DEF TieTo
  <1> QED
    BY <1>1, <1>2, <1>3, <1>4, <1>10, <1>11, <1>12, <1>13 DEF c

LEMMA RecordBlockIs ==
    ASSUME TypeOK, PhaseInv, NEW r \in Requests, RecordBlock(r)
    PROVE  /\ sel[r].pc = "record" /\ held' \in [Workers -> SUBSET Blocks]
           /\ UNCHANGED <<trackerVars, policy, healthy, next_worker, spread>>
           /\ \E q \in Local : /\ Moves(r, q) /\ q.pc = "record" /\ q.best \in Scored
                               /\ q.cand = sel[r].cand /\ q.left = sel[r].left
                               /\ q.best = sel[r].best
  <1> DEFINE q == [sel[r] EXCEPT !.matched = sel[r].matched + 1]
  <1>1. /\ sel[r].pc = "record" /\ sel[r].matched < ChainLen
        /\ UNCHANGED <<trackerVars, policy, healthy, next_worker, spread>>
        /\ held' = [held EXCEPT ![sel[r].best.id] = @ \cup {sel[r].matched + 1}]
        /\ Moves(r, q)
    BY DEF RecordBlock, Step, Moves
  <1>2. sel[r].best \in Scored
    BY <1>1 DEF PhaseInv, Phase
  <1>3. PICK m \in Nat : m = sel[r].matched + 1 /\ m \in Blocks
    BY <1>1, Constants DEF TypeOK, Local, Blocks
  <1>4. /\ q \in Local /\ q.pc = "record"
        /\ q.cand = sel[r].cand /\ q.left = sel[r].left /\ q.best = sel[r].best
    BY <1>1, <1>3 DEF TypeOK, Local
  <1>5. held' \in [Workers -> SUBSET Blocks]
    <2>1. PICK w : w = sel[r].best.id /\ held' = [held EXCEPT ![w] = @ \cup {m}]
      BY <1>1, <1>3
    <2> QED
      BY <2>1, <1>3 DEF TypeOK
  <1> HIDE DEF q
  <1> QED
    BY <1>1, <1>2, <1>4, <1>5

LEMMA RecordIs ==
    ASSUME TypeOK, PhaseInv, NEW r \in Requests, Record(r)
    PROVE  /\ sel[r].pc = "record"
           /\ UNCHANGED <<trackerVars, policy, healthy, held, next_worker, spread>>
           /\ \E q \in Local : Moves(r, q) /\ q.pc = "acquire" /\ q.best \in Scored
  <1>1. /\ sel[r].pc = "record"
        /\ UNCHANGED <<trackerVars, policy, healthy, held, next_worker, spread>>
        /\ Moves(r, [Idle EXCEPT !.pc = "acquire",
                        !.best = [sel[r].best EXCEPT !.score = 0, !.in_flight = 0]])
    BY DEF Record, Step, Moves
  <1>2. sel[r].best \in Scored
    BY <1>1 DEF PhaseInv, Phase
  <1>3. PICK b \in Scored : b = [sel[r].best EXCEPT !.score = 0, !.in_flight = 0]
    <2>1. PICK x \in Scored : x = sel[r].best
      BY <1>2
    <2>2. PICK s \in Int, n \in Nat : s = 0 /\ n = 0
      OBVIOUS
    <2>3. [x EXCEPT !.score = s, !.in_flight = n] \in Scored
      BY DEF Scored
    <2> QED
      BY <2>1, <2>2, <2>3
  <1> DEFINE q == [Idle EXCEPT !.pc = "acquire", !.best = b]
  <1>4. q \in Local /\ q.pc = "acquire" /\ q.best = b
    BY IdleFacts DEF Local
  <1>5. Moves(r, q)
    BY <1>1, <1>3
  <1> HIDE DEF q
  <1> QED
    BY <1>1, <1>4, <1>5

LEMMA InFlightIs ==
    ASSUME TypeOK, PhaseInv, NEW r \in Requests, Acquire(r) \/ Release(r)
    PROVE  /\ slots' = slots /\ counts' \in [Workers -> Loads]
           /\ UNCHANGED <<policy, healthy, held, next_worker, spread>>
           /\ \E q \in Local : /\ Moves(r, q) /\ q.pc \in {"idle", "inflight"}
                               /\ q.pc = "inflight" => q.best \in Scored
  <1>1. sel[r].pc \in {"acquire", "inflight"} /\ UNCHANGED <<policy, healthy, held, next_worker, spread>>
    BY DEF Acquire, Release, Step
  <1>2. sel[r].best \in Scored /\ sel[r] \in Local
    BY <1>1 DEF PhaseInv, Phase, TypeOK
  <1>3. sel[r].best.id \in Workers
    BY <1>2 DEF Scored
  <1>4. slots' = slots /\ counts' \in [Workers -> Loads]
    BY <1>3, CountsType DEF Acquire, Release
  <1>5. CASE Acquire(r)
    <2> DEFINE q == [sel[r] EXCEPT !.pc = "inflight"]
    <2>1. q \in Local /\ q.pc = "inflight" /\ q.best = sel[r].best
      BY <1>2 DEF Local
    <2>2. Moves(r, q)
      BY <1>5 DEF Acquire, Step, Moves
    <2> HIDE DEF q
    <2> QED
      BY <1>1, <1>2, <1>4, <2>1, <2>2
  <1>6. CASE Release(r)
    <2>1. Moves(r, Idle)
      BY <1>6 DEF Release, Step, Moves
    <2> QED
      BY <1>1, <1>4, <2>1, IdleFacts
  <1> QED
    BY <1>5, <1>6

LEMMA PhaseMoves ==
    ASSUME TypeOK, PhaseInv, NEW r \in Requests, NEW q \in Local, Moves(r, q),
           policy' = policy, Phase(q)
    PROVE  PhaseInv'
  <1> SUFFICES ASSUME NEW x \in Requests PROVE Phase(sel[x])'
    BY DEF PhaseInv
  <1>1. CASE x = r
    BY <1>1, MovesFacts DEF Phase
  <1>2. CASE x # r
    BY <1>2, MovesFacts DEF Phase, PhaseInv
  <1> QED
    BY <1>1, <1>2

LEMMA TypeStep ==
    ASSUME TypeOK, PhaseInv, [Next]_vars
    PROVE  TypeOK' /\ PhaseInv' /\ policy' = policy
  <1> USE DEF trackerVars
  <1>1. ASSUME NEW r \in Requests, Snapshot(r) PROVE TypeOK' /\ PhaseInv' /\ policy' = policy
    <2>1. PICK q \in Local : Moves(r, q) /\ SnapshotTo(q)
      BY <1>1, SnapshotIs
    <2>2. UNCHANGED <<trackerVars, policy, healthy, held, next_worker, spread>>
      BY <1>1, SnapshotIs
    <2>3. Phase(q)
      BY <2>1 DEF Phase, SnapshotTo
    <2>4. PhaseInv'
      BY <2>1, <2>2, <2>3, PhaseMoves
    <2> QED
      BY <2>1, <2>2, <2>4, MovesFacts DEF TypeOK
  <1>2. ASSUME NEW r \in Requests, Ticket(r) PROVE TypeOK' /\ PhaseInv' /\ policy' = policy
    <2>1. PICK q \in Local : Moves(r, q) /\ q.pc = "record" /\ q.best \in Scored
      BY <1>2, TicketIs
    <2>2. UNCHANGED <<trackerVars, policy, healthy, held>> /\ next_worker' = next_worker + 1
      BY <1>2, TicketIs
    <2>3. Phase(q)
      BY <2>1 DEF Phase
    <2>4. PhaseInv'
      BY <2>1, <2>2, <2>3, PhaseMoves
    <2> QED
      BY <2>1, <2>2, <2>4, MovesFacts DEF TypeOK
  <1>3. ASSUME NEW r \in Requests, ReadMatch(r) \/ EndMatch(r)
        PROVE  TypeOK' /\ PhaseInv' /\ policy' = policy
    <2>1. PICK q \in Local : Moves(r, q) /\ q.pc \in {"match", "score"} /\ q.left = sel[r].left
      BY <1>3, ReadMatchIs, EndMatchIs
    <2>2. UNCHANGED <<trackerVars, policy, healthy, held, next_worker, spread>> /\ sel[r].left # {}
      BY <1>3, ReadMatchIs, EndMatchIs
    <2>3. Phase(q)
      BY <2>1, <2>2 DEF Phase
    <2>4. PhaseInv'
      BY <2>1, <2>2, <2>3, PhaseMoves
    <2> QED
      BY <2>1, <2>2, <2>4, MovesFacts DEF TypeOK
  <1>4. ASSUME NEW r \in Requests, ReadScore(r) PROVE TypeOK' /\ PhaseInv' /\ policy' = policy
    <2>1. PICK q \in Local : Moves(r, q) /\ q.pc = "tie" /\ q.left = sel[r].left
      BY <1>4, ReadScoreIs
    <2>2. UNCHANGED <<trackerVars, policy, healthy, held, next_worker, spread>> /\ sel[r].left # {}
      BY <1>4, ReadScoreIs
    <2>3. Phase(q)
      BY <2>1, <2>2 DEF Phase
    <2>4. PhaseInv'
      BY <2>1, <2>2, <2>3, PhaseMoves
    <2> QED
      BY <2>1, <2>2, <2>4, MovesFacts DEF TypeOK
  <1>5. ASSUME NEW r \in Requests, ReadTie(r) PROVE TypeOK' /\ PhaseInv' /\ policy' = policy
    <2>1. PICK q \in Local, this \in Scored : Moves(r, q) /\ TieTo(sel[r], q, this)
      BY <1>5, ReadTieIs
    <2>2. UNCHANGED <<trackerVars, policy, healthy, held, next_worker, spread>>
      BY <1>5, ReadTieIs
    <2>3. Phase(q)
      BY <2>1 DEF Phase, TieTo
    <2>4. PhaseInv'
      BY <2>1, <2>2, <2>3, PhaseMoves
    <2> QED
      BY <2>1, <2>2, <2>4, MovesFacts DEF TypeOK
  <1>6. ASSUME NEW r \in Requests, RecordBlock(r) \/ Record(r)
        PROVE  TypeOK' /\ PhaseInv' /\ policy' = policy
    <2>1. PICK q \in Local : Moves(r, q) /\ q.pc \in {"record", "acquire"} /\ q.best \in Scored
      BY <1>6, RecordBlockIs, RecordIs
    <2>2. /\ UNCHANGED <<trackerVars, policy, healthy, next_worker, spread>>
          /\ held' \in [Workers -> SUBSET Blocks]
      BY <1>6, RecordBlockIs, RecordIs DEF TypeOK
    <2>3. Phase(q)
      BY <2>1 DEF Phase
    <2>4. PhaseInv'
      BY <2>1, <2>2, <2>3, PhaseMoves
    <2> QED
      BY <2>1, <2>2, <2>4, MovesFacts DEF TypeOK
  <1>7. ASSUME NEW r \in Requests, Acquire(r) \/ Release(r)
        PROVE  TypeOK' /\ PhaseInv' /\ policy' = policy
    <2>1. PICK q \in Local : /\ Moves(r, q) /\ q.pc \in {"idle", "inflight"}
                             /\ q.pc = "inflight" => q.best \in Scored
      BY <1>7, InFlightIs
    <2>2. /\ UNCHANGED <<policy, healthy, held, next_worker, spread>>
          /\ slots' = slots /\ counts' \in [Workers -> Loads]
      BY <1>7, InFlightIs
    <2>3. Phase(q)
      BY <2>1 DEF Phase
    <2>4. PhaseInv'
      BY <2>1, <2>2, <2>3, PhaseMoves
    <2> QED
      BY <2>1, <2>2, <2>4, MovesFacts DEF TypeOK
  <1>8. ASSUME \/ \E w \in Workers : Purge(w)
               \/ \E b \in Blocks : Evict(b)
        PROVE  TypeOK' /\ PhaseInv' /\ policy' = policy
    <2>1. CASE \E w \in Workers : Purge(w)
      <3>1. PICK w \in Workers : Purge(w)
        BY <2>1
      <3>2. PICK S : held' = [held EXCEPT ![w] = @ \ S]
        BY <3>1 DEF Purge
      <3> QED
        BY <3>1, <3>2 DEF Purge, TypeOK, PhaseInv, Phase
    <2>2. CASE \E b \in Blocks : Evict(b)
      BY <2>2 DEF Evict, TypeOK, PhaseInv, Phase
    <2> QED
      BY <1>8, <2>1, <2>2
  <1>9. ASSUME NEW w \in Workers, HealthFlips(w) PROVE TypeOK' /\ PhaseInv' /\ policy' = policy
    <2>1. UNCHANGED <<trackerVars, policy, held, next_worker, sel>> /\ healthy' \subseteq Workers
      BY <1>9 DEF HealthFlips, TypeOK
    <2> QED
      BY <2>1 DEF TypeOK, PhaseInv, Phase
  <1>10. CASE UNCHANGED vars
    BY <1>10 DEF vars, TypeOK, PhaseInv, Phase
  <1> QED
    BY <1>1, <1>2, <1>3, <1>4, <1>5, <1>6, <1>7, <1>8, <1>9, <1>10
       DEF Next, RequestSteps, Others

LEMMA TypeInit ==
    ASSUME Init
    PROVE  TypeOK /\ PhaseInv
  <1>1. slots = NumWorkers /\ counts \in [Workers -> Loads]
    BY Constants DEF Init, with_capacity, Workers
  <1>2. /\ policy \in Policies /\ healthy \subseteq Workers /\ next_worker \in Nat
        /\ held \in [Workers -> SUBSET Blocks]
    BY Constants DEF Init
  <1>3. sel \in [Requests -> Local] /\ \A r \in Requests : sel[r] = Idle
    BY IdleFacts DEF Init
  <1>4. \A r \in Requests : Phase(sel[r])
    BY <1>3, IdleFacts DEF Phase
  <1> QED
    BY <1>1, <1>2, <1>3, <1>4 DEF TypeOK, PhaseInv

\* Every counter, credit and local of a selection has its type, and a selection's locals
\* are what the point it has reached promises.
THEOREM TypesAlways == Spec => [](TypeOK /\ PhaseInv)
  <1>1. Init => TypeOK /\ PhaseInv
    BY TypeInit
  <1>2. (TypeOK /\ PhaseInv) /\ [Next]_vars => (TypeOK /\ PhaseInv)'
    BY TypeStep
  <1> QED
    BY <1>1, <1>2, PTL DEF Spec

(***************************************************************************)
(* The scan                                                                *)
(***************************************************************************)
LEMMA CmpTotal ==
    ASSUME NEW a \in Scored, NEW b \in Scored
    PROVE  a = b \/ cmp(a, b) \/ cmp(b, a)
  <1>1. /\ a.id \in Nat /\ a.score \in Int /\ a.in_flight \in Nat
        /\ b.id \in Nat /\ b.score \in Int /\ b.in_flight \in Nat
    BY Constants DEF Scored
  <1>2. a.id = b.id /\ a.score = b.score /\ a.in_flight = b.in_flight => a = b
    BY DEF Scored
  <1> QED
    BY <1>1, <1>2 DEF cmp

LEMMA CmpTransitive ==
    ASSUME NEW a \in Scored, NEW b \in Scored, NEW c \in Scored, cmp(a, b), cmp(b, c)
    PROVE  cmp(a, c)
  <1>1. /\ a.id \in Nat /\ a.score \in Int /\ a.in_flight \in Nat
        /\ b.id \in Nat /\ b.score \in Int /\ b.in_flight \in Nat
        /\ c.id \in Nat /\ c.score \in Int /\ c.in_flight \in Nat
    BY Constants DEF Scored
  <1> QED
    BY <1>1 DEF cmp

\* The leading blocks of a set: all in it, and no longer run is.
LEMMA LeadFacts ==
    ASSUME NEW S
    PROVE  /\ Lead(S) \in Lengths /\ Lead(S) \in Nat /\ 1 .. Lead(S) \subseteq S
           /\ \A n \in Lengths : 1 .. n \subseteq S => n <= Lead(S)
  <1> DEFINE T == {n \in 0 .. ChainLen : 1 .. n \subseteq S}
  <1>1. ChainLen \in Nat
    BY Constants
  <1>2. T \subseteq 0 .. ChainLen /\ 0 \in T
    <2>1. 1 .. 0 \subseteq S /\ 0 \in 0 .. ChainLen
      BY <1>1
    <2> QED
      BY <2>1
  <1>3. PICK m : m = Max(T)
    OBVIOUS
  <1>4. m \in T /\ \A y \in T : m >= y
    <2> HIDE DEF T
    <2> QED
      BY <1>1, <1>2, <1>3, MaxIsLargest
  <1>5. Lead(S) = m
    BY <1>3 DEF Lead
  <1>6. /\ m \in Lengths /\ m \in Nat /\ 1 .. m \subseteq S
        /\ \A n \in Lengths : 1 .. n \subseteq S => n <= m
    BY <1>1, <1>4 DEF Lengths
  <1> QED
    BY <1>5, <1>6

LEMMA LeadGrows ==
    ASSUME NEW S, NEW T, S \subseteq T
    PROVE  Lead(S) <= Lead(T)
  <1>1. Lead(S) \in Lengths /\ 1 .. Lead(S) \subseteq T
    BY LeadFacts
  <1> QED
    BY <1>1, LeadFacts

\* A match that found the blocks up to m and then missed the next has found a length
\* between what the worker kept all along and what it had at some time.
LEMMA MatchEnds ==
    ASSUME NEW V \in View, NEW m \in Lengths, 1 .. m \subseteq V.some, m + 1 \notin V.all
    PROVE  m \in Reads(V)
  <1>1. m \in Nat
    BY Constants DEF Lengths
  <1>2. m <= Lead(V.some)
    BY LeadFacts
  <1>3. PICK lo \in Nat : lo = Lead(V.all) /\ 1 .. lo \subseteq V.all
    BY LeadFacts
  <1>4. lo <= m
    <2>1. SUFFICES ASSUME lo > m PROVE FALSE
      BY <1>1
    <2>2. m + 1 \in 1 .. lo
      BY <1>1, <2>1
    <2> QED
      BY <1>3, <2>2
  <1>5. PICK hi \in Nat : hi = Lead(V.some)
    BY LeadFacts
  <1>6. m \in lo .. hi
    BY <1>1, <1>2, <1>4, <1>5
  <1> QED
    BY <1>3, <1>5, <1>6 DEF Reads

\* A window only widens while a scan is under way.
Grows(W, V, C) ==
    /\ V \in [C -> View]
    /\ \A w \in C : /\ W[w].some \subseteq V[w].some /\ V[w].all \subseteq W[w].all
                    /\ W[w].load \subseteq V[w].load

LEMMA ReadsGrow ==
    ASSUME NEW W, NEW V, NEW C, Grows(W, V, C), NEW w \in C
    PROVE  Reads(W[w]) \subseteq Reads(V[w])
  <1>1. Lead(W[w].some) <= Lead(V[w].some) /\ Lead(V[w].all) <= Lead(W[w].all)
    BY LeadGrows DEF Grows
  <1>2. PICK a \in Nat, b \in Nat, c \in Nat, d \in Nat :
           /\ a = Lead(V[w].all) /\ b = Lead(W[w].all)
           /\ c = Lead(W[w].some) /\ d = Lead(V[w].some)
    BY LeadFacts
  <1>3. b .. c \subseteq a .. d
    BY <1>1, <1>2
  <1> QED
    BY <1>2, <1>3 DEF Reads

LEMMA ReadGrows ==
    ASSUME NEW W, NEW V, NEW C, Grows(W, V, C), NEW w \in C, NEW s, Read(W, w, s)
    PROVE  Read(V, w, s)
  BY ReadsGrow DEF Grows, Read

LEMMA BeatenGrows ==
    ASSUME NEW W, NEW V, NEW C, Grows(W, V, C), NEW w \in C, NEW b, Beaten(W, b, w)
    PROVE  Beaten(V, b, w)
  <1>1. PICK x \in Scored : /\ x.id = w /\ Read(W, w, x.score) /\ x.in_flight \in W[w].load
                            /\ x = b \/ cmp(b, x)
    BY DEF Beaten
  <1>2. Read(V, w, x.score)
    BY <1>1, ReadGrows
  <1>3. x.in_flight \in V[w].load
    BY <1>1 DEF Grows
  <1> QED
    BY <1>1, <1>2, <1>3 DEF Beaten

LEMMA LeftFacts ==
    ASSUME NEW c \in Local, c.left # {}
    PROVE  Min(c.left) \in c.left
  <1>1. c.left \subseteq Nat
    BY Constants DEF Local
  <1> QED
    BY <1>1, MinIsLeast

LEMMA ScanGrows ==
    ASSUME NEW c \in Local, NEW W, NEW V, ScanIn(c, W), Grows(W, V, c.cand),
           c.pc \in {"match", "score", "tie"}, c.left # {}
    PROVE  ScanIn(c, V)
  <1>1. Min(c.left) \in c.left /\ Min(c.left) \in c.cand
    BY LeftFacts DEF ScanIn
  <1>2. V \in [c.cand -> View] /\ c.left \subseteq c.cand /\ c.cand # {}
    BY DEF ScanIn, Grows
  <1>3. c.best = None => c.left = c.cand
    BY DEF ScanIn
  <1>4. ASSUME c.best # None
        PROVE  /\ c.best.id \in c.cand /\ Read(V, c.best.id, c.best.score)
               /\ c.best.in_flight \in V[c.best.id].load
    <2>1. /\ c.best.id \in c.cand /\ Read(W, c.best.id, c.best.score)
          /\ c.best.in_flight \in W[c.best.id].load
      BY <1>4 DEF ScanIn
    <2>2. Read(V, c.best.id, c.best.score)
      BY <2>1, ReadGrows
    <2> QED
      BY <2>1, <2>2 DEF Grows
  <1>5. ASSUME NEW v \in c.cand \ c.left PROVE Beaten(V, c.best, v)
    BY <1>5, BeatenGrows DEF ScanIn
  <1>6. /\ c.pc = "match" => c.matched \in Lengths /\ 1 .. c.matched \subseteq V[Min(c.left)].some
        /\ c.pc = "score" => c.matched \in Reads(V[Min(c.left)])
    <2>1. W[Min(c.left)].some \subseteq V[Min(c.left)].some
      BY <1>1 DEF Grows
    <2>2. Reads(W[Min(c.left)]) \subseteq Reads(V[Min(c.left)])
      BY <1>1, ReadsGrow
    <2> QED
      BY <2>1, <2>2, Zenon DEF ScanIn
  <1>7. c.pc = "tie" => Read(V, Min(c.left), c.score)
    BY <1>1, ReadGrows DEF ScanIn
  <1> QED
    BY <1>2, <1>3, <1>4, <1>5, <1>6, <1>7 DEF ScanIn

\* A read, or a recorded block, that leaves the best and the candidates alone.
LEMMA ReadKeeps ==
    ASSUME NEW c \in Local, NEW q \in Local, NEW V, ScanIn(c, V),
           q.cand = c.cand, q.left = c.left, q.best = c.best,
           \/ /\ q.pc = "match" /\ q.matched \in Lengths
              /\ 1 .. q.matched \subseteq V[Min(c.left)].some
           \/ q.pc = "score" /\ q.matched \in Reads(V[Min(c.left)])
           \/ q.pc = "tie" /\ Read(V, Min(c.left), q.score)
           \/ q.pc = "record" /\ c.pc = "record"
    PROVE  ScanIn(q, V)
  BY DEF ScanIn

\* The comparison.
LEMMA TieKeeps ==
    ASSUME NEW c \in Local, NEW q \in Local, NEW V, NEW this \in Scored,
           ScanIn(c, V), c.pc = "tie", c.left # {},
           this.id = Min(c.left), this.score = c.score, this.in_flight \in V[this.id].load,
           TieTo(c, q, this)
    PROVE  ScanIn(q, V)
  <1>1. this.id \in c.left /\ this.id \in c.cand /\ Read(V, this.id, this.score)
    BY LeftFacts DEF ScanIn
  <1>2. q.cand = c.cand /\ q.left = c.left \ {this.id} /\ q.best \in Scored /\ q.best # None
    BY Constants DEF TieTo
  <1>3. \/ q.best = c.best /\ c.best # None /\ cmp(c.best, this)
        \/ q.best = this /\ (c.best = None \/ ~ cmp(c.best, this))
    BY DEF TieTo
  <1>4. /\ q.best.id \in c.cand /\ Read(V, q.best.id, q.best.score)
        /\ q.best.in_flight \in V[q.best.id].load
    <2>1. CASE q.best = this
      BY <1>1, <2>1
    <2>2. CASE q.best = c.best /\ c.best # None
      BY <2>2 DEF ScanIn
    <2> QED
      BY <1>3, <2>1, <2>2
  <1>5. ASSUME NEW v \in c.cand, v \notin q.left PROVE Beaten(V, q.best, v)
    <2>1. CASE v = this.id
      <3>1. this = q.best \/ cmp(q.best, this)
        BY <1>3
      <3> QED
        BY <1>1, <2>1, <3>1 DEF Beaten
    <2>2. CASE v # this.id
      <3>1. v \notin c.left
        BY <1>2, <1>5, <2>2
      <3>2. Beaten(V, c.best, v) /\ c.best # None /\ c.best \in Scored
        BY <3>1 DEF ScanIn, Local
      <3>3. PICK x \in Scored : /\ x.id = v /\ Read(V, v, x.score) /\ x.in_flight \in V[v].load
                                /\ x = c.best \/ cmp(c.best, x)
        BY <3>2 DEF Beaten
      <3>4. x = q.best \/ cmp(q.best, x)
        <4>1. CASE q.best = c.best
          BY <3>3, <4>1
        <4>2. CASE q.best = this /\ ~ cmp(c.best, this)
          <5>1. this = c.best \/ cmp(this, c.best)
            BY <3>2, <4>2, CmpTotal
          <5>2. cmp(this, c.best) /\ cmp(c.best, x) => cmp(this, x)
            BY <3>2, CmpTransitive
          <5> QED
            BY <3>3, <4>2, <5>1, <5>2
        <4> QED
          BY <1>3, <3>2, <4>1, <4>2
      <3> QED
        BY <3>3, <3>4 DEF Beaten
    <2> QED
      BY <2>1, <2>2
  <1>6. V \in [c.cand -> View] /\ c.left \subseteq c.cand /\ c.cand # {}
    BY DEF ScanIn
  <1>7. /\ q.pc \in {"record", "match"} /\ (q.pc = "record" => q.left = {})
        /\ q.matched \in Lengths /\ 1 .. q.matched \subseteq {}
    BY Constants DEF TieTo
  <1> QED
    BY <1>2, <1>4, <1>5, <1>6, <1>7 DEF ScanIn

(***************************************************************************)
(* What the history variable records                                       *)
(***************************************************************************)
LEMMA WindowScanning ==
    ASSUME TypeOK, TypeOK', Observe, policy # "round_robin", NEW x \in Requests,
           Scanning(x), sel'[x].pc # "idle", window[x] \in [sel[x].cand -> View]
    PROVE  /\ Grows(window[x], window'[x], sel[x].cand)
           /\ \A w \in sel[x].cand : /\ held'[w] \subseteq window'[x][w].some
                                     /\ window'[x][w].all \subseteq held'[w]
                                     /\ counts'[w] \in window'[x][w].load
  <1>1. sel[x].pc # "idle" /\ sel[x].cand \subseteq Workers
    BY DEF Scanning, TypeOK, Local
  <1>2. window'[x] = [w \in sel[x].cand |-> [some |-> window[x][w].some \cup held'[w],
                                             all  |-> window[x][w].all \cap held'[w],
                                             load |-> window[x][w].load \cup {counts'[w]}]]
    BY <1>1 DEF Observe
  <1>3. ASSUME NEW w \in sel[x].cand
        PROVE  /\ window'[x][w] \in View
               /\ window[x][w].some \subseteq window'[x][w].some
               /\ window'[x][w].all \subseteq window[x][w].all
               /\ window[x][w].load \subseteq window'[x][w].load
               /\ held'[w] \subseteq window'[x][w].some /\ window'[x][w].all \subseteq held'[w]
               /\ counts'[w] \in window'[x][w].load
    <2>1. window'[x][w] = [some |-> window[x][w].some \cup held'[w],
                           all  |-> window[x][w].all \cap held'[w],
                           load |-> window[x][w].load \cup {counts'[w]}]
      BY <1>2
    <2>2. held'[w] \subseteq Blocks /\ counts'[w] \in Loads
      BY <1>1 DEF TypeOK
    <2>3. /\ window[x][w].some \subseteq Blocks /\ window[x][w].all \subseteq Blocks
          /\ window[x][w].load \subseteq Loads
      BY DEF View
    <2>4. /\ window[x][w].some \cup held'[w] \subseteq Blocks
          /\ window[x][w].all \cap held'[w] \subseteq Blocks
          /\ window[x][w].load \cup {counts'[w]} \subseteq Loads
      BY <2>2, <2>3
    <2> QED
      BY <2>1, <2>4 DEF View
  <1>4. window'[x] \in [sel[x].cand -> View]
    <2>1. window'[x] = [w \in sel[x].cand |-> window'[x][w]]
      BY <1>2
    <2> QED
      BY <1>3, <2>1
  <1> QED
    BY <1>3, <1>4 DEF Grows

LEMMA WindowRecord ==
    ASSUME Observe, policy # "round_robin", NEW x \in Requests,
           sel[x].pc = "record", sel'[x].pc = "record"
    PROVE  window'[x] = window[x]
  BY DEF Observe, Scanning

LEMMA WindowSnapshot ==
    ASSUME TypeOK, Observe, policy # "round_robin", NEW x \in Requests, sel[x].pc = "idle",
           NEW q \in Local, sel'[x] = q, q.pc = "match", SnapshotTo(q),
           UNCHANGED <<trackerVars, held>>
    PROVE  ScanIn(q, window'[x]) /\ Current(q, window'[x], held', counts')
  <1>1. q.cand \subseteq Workers
    BY DEF Local
  <1>2. window'[x] = [w \in q.cand |-> [some |-> held[w], all |-> held[w], load |-> {counts[w]}]]
    BY DEF Observe
  <1>3. \A w \in q.cand : /\ window'[x][w] \in View /\ held[w] \subseteq window'[x][w].some
                          /\ window'[x][w].all \subseteq held[w]
                          /\ counts[w] \in window'[x][w].load
    <2> SUFFICES ASSUME NEW w \in q.cand
                 PROVE  /\ window'[x][w] \in View /\ held[w] \subseteq window'[x][w].some
                        /\ window'[x][w].all \subseteq held[w]
                        /\ counts[w] \in window'[x][w].load
      OBVIOUS
    <2>1. window'[x][w] = [some |-> held[w], all |-> held[w], load |-> {counts[w]}]
      BY <1>2
    <2>2. held[w] \subseteq Blocks /\ {counts[w]} \subseteq Loads
      BY <1>1 DEF TypeOK
    <2> QED
      BY <2>1, <2>2 DEF View
  <1>4. window'[x] \in [q.cand -> View]
    <2>1. window'[x] = [w \in q.cand |-> window'[x][w]]
      BY <1>2
    <2> QED
      BY <1>3, <2>1
  <1>5. ScanIn(q, window'[x])
    <2>1. q.matched \in Lengths /\ 1 .. q.matched \subseteq {}
      BY Constants DEF SnapshotTo
    <2> QED
      BY <1>4, <2>1 DEF ScanIn, SnapshotTo
  <1>6. Current(q, window'[x], held', counts')
    BY <1>3 DEF Current, trackerVars
  <1> QED
    BY <1>5, <1>6

\* The window of a scan takes in what holds after the step.
LEMMA LookScan ==
    ASSUME TypeOK, TypeOK', PhaseInv, Observe, policy # "round_robin", NEW x \in Requests,
           Scanning(x), ScanAt(x), sel'[x].pc # "idle"
    PROVE  /\ ScanIn(sel[x], window'[x]) /\ sel[x] \in Local /\ sel[x].left # {}
           /\ Current(sel[x], window'[x], held', counts')
  <1>1. ScanIn(sel[x], window[x]) /\ sel[x] \in Local
    BY DEF ScanAt, TypeOK, Scanning
  <1>2. window[x] \in [sel[x].cand -> View] /\ sel[x].left # {}
    BY <1>1 DEF ScanIn, PhaseInv, Phase, Scanning
  <1>3. /\ Grows(window[x], window'[x], sel[x].cand)
        /\ \A w \in sel[x].cand : /\ held'[w] \subseteq window'[x][w].some
                                  /\ window'[x][w].all \subseteq held'[w]
                                  /\ counts'[w] \in window'[x][w].load
    BY <1>2, WindowScanning
  <1>4. ScanIn(sel[x], window'[x])
    BY <1>1, <1>2, <1>3, ScanGrows DEF Scanning
  <1> QED
    BY <1>1, <1>2, <1>3, <1>4 DEF Current

\* A request whose selection does not move.
LEMMA StayScan ==
    ASSUME TypeOK, TypeOK', PhaseInv, Observe, policy' = policy, NEW x \in Requests,
           sel'[x] = sel[x], ScanAt(x)
    PROVE  ScanAt(x)'
  <1> SUFFICES ASSUME policy # "round_robin", sel[x].pc \in {"match", "score", "tie", "record"}
               PROVE  /\ ScanIn(sel[x], window'[x])
                      /\ Scanning(x) => Current(sel[x], window'[x], held', counts')
    BY DEF ScanAt, Scanning
  <1>1. CASE sel[x].pc = "record"
    BY <1>1, WindowRecord DEF Scanning, ScanAt
  <1>2. CASE Scanning(x)
    BY <1>2, LookScan DEF Scanning
  <1> QED
    BY <1>1, <1>2 DEF Scanning

LEMMA SnapshotScan ==
    ASSUME TypeOK, TypeOK', PhaseInv, Observe, NEW r \in Requests, Snapshot(r)
    PROVE  ScanAt(r)'
  <1>1. PICK q \in Local : Moves(r, q) /\ SnapshotTo(q)
    BY SnapshotIs
  <1>2. sel[r].pc = "idle" /\ UNCHANGED <<trackerVars, policy, held>>
    BY SnapshotIs
  <1>3. sel'[r] = q
    BY <1>1, MovesFacts
  <1>4. CASE policy # "round_robin"
    <2>1. q.pc = "match"
      BY <1>1, <1>4 DEF SnapshotTo
    <2>2. ScanIn(q, window'[r]) /\ Current(q, window'[r], held', counts')
      BY <1>1, <1>2, <1>3, <1>4, <2>1, WindowSnapshot
    <2> QED
      BY <1>3, <2>2 DEF ScanAt
  <1>5. CASE policy = "round_robin"
    BY <1>2, <1>5 DEF ScanAt
  <1> QED
    BY <1>4, <1>5

LEMMA MatchScan ==
    ASSUME TypeOK, TypeOK', PhaseInv, Observe, NEW r \in Requests, ReadMatch(r), ScanAt(r)
    PROVE  ScanAt(r)'
  <1>1. PICK q \in Local : /\ Moves(r, q) /\ q.pc = "match"
                           /\ q.matched = sel[r].matched + 1 /\ q.matched \in held[At(r)]
                           /\ q.cand = sel[r].cand /\ q.left = sel[r].left
                           /\ q.best = sel[r].best
    BY ReadMatchIs
  <1>2. sel[r].pc = "match" /\ UNCHANGED <<trackerVars, policy, held>>
    BY ReadMatchIs
  <1>3. sel'[r] = q
    BY <1>1, MovesFacts
  <1> SUFFICES ASSUME policy # "round_robin"
               PROVE  ScanIn(q, window'[r]) /\ Current(q, window'[r], held', counts')
    BY <1>2, <1>3 DEF ScanAt
  <1>4. /\ ScanIn(sel[r], window'[r]) /\ sel[r] \in Local /\ sel[r].left # {}
        /\ Current(sel[r], window'[r], held', counts')
    BY <1>1, <1>2, <1>3, LookScan DEF Scanning
  <1>5. PICK a : a = At(r) /\ a = Min(sel[r].left) /\ a \in sel[r].cand /\ a \in Workers
    BY <1>4, AtFacts DEF ScanIn
  <1>6. PICK S, m : /\ S = window'[r][a].some /\ m = sel[r].matched
                    /\ m \in Lengths /\ 1 .. m \subseteq S /\ m + 1 \in S
    <2>1. q.matched \in window'[r][a].some
      BY <1>1, <1>2, <1>4, <1>5 DEF Current
    <2> QED
      BY <1>1, <1>2, <1>4, <1>5, <2>1 DEF ScanIn
  <1>7. m + 1 \in Blocks
    BY <1>1, <1>5, <1>6 DEF TypeOK
  <1>8. m + 1 \in Lengths /\ 1 .. (m + 1) \subseteq S
    BY <1>6, <1>7, Constants DEF Lengths, Blocks
  <1>9. ScanIn(q, window'[r])
    BY <1>1, <1>4, <1>5, <1>6, <1>8, ReadKeeps
  <1> QED
    BY <1>1, <1>4, <1>9 DEF Current

LEMMA EndScan ==
    ASSUME TypeOK, TypeOK', PhaseInv, Observe, NEW r \in Requests, EndMatch(r), ScanAt(r)
    PROVE  ScanAt(r)'
  <1>1. PICK q \in Local : /\ Moves(r, q) /\ q.pc = "score" /\ q.matched = sel[r].matched
                           /\ q.cand = sel[r].cand /\ q.left = sel[r].left
                           /\ q.best = sel[r].best
    BY EndMatchIs
  <1>2. /\ sel[r].pc = "match" /\ sel[r].matched + 1 \notin held[At(r)]
        /\ UNCHANGED <<trackerVars, policy, held>>
    BY EndMatchIs
  <1>3. sel'[r] = q
    BY <1>1, MovesFacts
  <1> SUFFICES ASSUME policy # "round_robin"
               PROVE  ScanIn(q, window'[r]) /\ Current(q, window'[r], held', counts')
    BY <1>2, <1>3 DEF ScanAt
  <1>4. /\ ScanIn(sel[r], window'[r]) /\ sel[r] \in Local /\ sel[r].left # {}
        /\ Current(sel[r], window'[r], held', counts')
    BY <1>1, <1>2, <1>3, LookScan DEF Scanning
  <1>5. PICK a : a = At(r) /\ a = Min(sel[r].left) /\ a \in sel[r].cand
    BY <1>4, AtFacts DEF ScanIn
  <1>6. PICK V : V = window'[r][a] /\ V \in View /\ 1 .. q.matched \subseteq V.some
                 /\ q.matched \in Lengths
    BY <1>1, <1>2, <1>4, <1>5 DEF ScanIn
  <1>7. q.matched + 1 \notin V.all
    BY <1>1, <1>2, <1>4, <1>5, <1>6 DEF Current
  <1>8. q.matched \in Reads(V)
    BY <1>6, <1>7, MatchEnds
  <1>9. ScanIn(q, window'[r])
    BY <1>1, <1>4, <1>5, <1>6, <1>8, ReadKeeps
  <1> QED
    BY <1>1, <1>4, <1>9 DEF Current

LEMMA ScoreScan ==
    ASSUME TypeOK, TypeOK', PhaseInv, Observe, NEW r \in Requests, ReadScore(r), ScanAt(r)
    PROVE  ScanAt(r)'
  <1>1. PICK q \in Local : /\ Moves(r, q) /\ q.pc = "tie"
                           /\ q.score = sel[r].matched * CacheWeight - counts[At(r)] * LoadWeight
                           /\ q.cand = sel[r].cand /\ q.left = sel[r].left
                           /\ q.best = sel[r].best
    BY ReadScoreIs
  <1>2. sel[r].pc = "score" /\ UNCHANGED <<trackerVars, policy, held>>
    BY ReadScoreIs
  <1>3. sel'[r] = q
    BY <1>1, MovesFacts
  <1> SUFFICES ASSUME policy # "round_robin"
               PROVE  ScanIn(q, window'[r]) /\ Current(q, window'[r], held', counts')
    BY <1>2, <1>3 DEF ScanAt
  <1>4. /\ ScanIn(sel[r], window'[r]) /\ sel[r] \in Local /\ sel[r].left # {}
        /\ Current(sel[r], window'[r], held', counts')
    BY <1>1, <1>2, <1>3, LookScan DEF Scanning
  <1>5. PICK a : a = At(r) /\ a = Min(sel[r].left) /\ a \in sel[r].cand
    BY <1>4, AtFacts DEF ScanIn
  <1>6. sel[r].matched \in Reads(window'[r][a])
    BY <1>2, <1>4, <1>5 DEF ScanIn
  <1>7. counts[a] \in window'[r][a].load
    BY <1>2, <1>4, <1>5 DEF Current, trackerVars
  <1>8. Read(window'[r], a, q.score)
    BY <1>1, <1>5, <1>6, <1>7 DEF Read
  <1>9. ScanIn(q, window'[r])
    BY <1>1, <1>4, <1>5, <1>8, ReadKeeps
  <1> QED
    BY <1>1, <1>4, <1>9 DEF Current

LEMMA TieScan ==
    ASSUME TypeOK, TypeOK', PhaseInv, Observe, NEW r \in Requests, ReadTie(r), ScanAt(r)
    PROVE  ScanAt(r)'
  <1>1. PICK q \in Local, this \in Scored :
           /\ Moves(r, q) /\ TieTo(sel[r], q, this)
           /\ this.id = At(r) /\ this.score = sel[r].score /\ this.in_flight = counts[At(r)]
    BY ReadTieIs
  <1>2. sel[r].pc = "tie" /\ UNCHANGED <<trackerVars, policy, held>>
    BY ReadTieIs
  <1>3. sel'[r] = q /\ q.cand = sel[r].cand /\ q.pc \in {"record", "match"}
    BY <1>1, MovesFacts DEF TieTo
  <1> SUFFICES ASSUME policy # "round_robin"
               PROVE  ScanIn(q, window'[r]) /\ Current(q, window'[r], held', counts')
    BY <1>2, <1>3 DEF ScanAt
  <1>4. /\ ScanIn(sel[r], window'[r]) /\ sel[r] \in Local /\ sel[r].left # {}
        /\ Current(sel[r], window'[r], held', counts')
    BY <1>2, <1>3, LookScan DEF Scanning
  <1>5. PICK a : a = At(r) /\ a = Min(sel[r].left) /\ a \in sel[r].cand
    BY <1>4, AtFacts DEF ScanIn
  <1>6. this.in_flight \in window'[r][a].load
    BY <1>1, <1>2, <1>4, <1>5 DEF Current, trackerVars
  <1>7. ScanIn(q, window'[r])
    BY <1>1, <1>2, <1>4, <1>5, <1>6, TieKeeps
  <1> QED
    BY <1>3, <1>4, <1>7 DEF Current

LEMMA ScanStep ==
    ASSUME TypeOK, PhaseInv, ScanInv, [Next]_vars
    PROVE  ScanInv'
  <1>1. TypeOK' /\ policy' = policy
    BY TypeStep
  <1>2. ASSUME NEW r \in Requests, RequestSteps(r), Observe PROVE ScanInv'
    <2> SUFFICES ASSUME NEW x \in Requests PROVE ScanAt(x)'
      BY DEF ScanInv
    <2>1. ScanAt(x) /\ ScanAt(r)
      BY DEF ScanInv
    <2>2. PICK q \in Local : Moves(r, q)
      BY <1>2, SnapshotIs, TicketIs, ReadMatchIs, EndMatchIs, ReadScoreIs, ReadTieIs,
         RecordBlockIs, RecordIs, InFlightIs DEF RequestSteps
    <2>3. CASE x # r
      <3>1. sel'[x] = sel[x]
        BY <2>2, <2>3, MovesFacts
      <3> QED
        BY <1>1, <1>2, <2>1, <3>1, StayScan
    <2>4. ASSUME Ticket(r) PROVE ScanAt(r)'
      BY <1>1, <2>4, TicketIs DEF ScanAt
    <2>5. ASSUME Record(r) \/ Acquire(r) \/ Release(r) PROVE ScanAt(r)'
      <3>1. PICK p \in Local : Moves(r, p) /\ p.pc \in {"acquire", "inflight", "idle"}
        BY <2>5, RecordIs, InFlightIs
      <3>2. sel'[r] = p
        BY <3>1, MovesFacts
      <3> QED
        BY <3>1, <3>2 DEF ScanAt
    <2>6. ASSUME RecordBlock(r) PROVE ScanAt(r)'
      <3>1. PICK p \in Local : /\ Moves(r, p) /\ p.pc = "record" /\ p.cand = sel[r].cand
                               /\ p.left = sel[r].left /\ p.best = sel[r].best
        BY <2>6, RecordBlockIs
      <3>2. sel'[r] = p /\ sel[r].pc = "record" /\ sel[r] \in Local
        BY <2>6, <3>1, MovesFacts, RecordBlockIs DEF TypeOK
      <3> SUFFICES ASSUME policy # "round_robin" PROVE ScanIn(p, window'[r])
        BY <1>1, <3>1, <3>2 DEF ScanAt, Scanning
      <3>3. window'[r] = window[r]
        BY <1>2, <3>1, <3>2, WindowRecord
      <3>4. ScanIn(sel[r], window[r])
        BY <2>1, <3>2 DEF ScanAt
      <3> QED
        BY <3>1, <3>2, <3>3, <3>4, ReadKeeps
    <2>7. ScanAt(r)'
      BY <1>1, <1>2, <2>1, <2>4, <2>5, <2>6, SnapshotScan, MatchScan, EndScan, ScoreScan, TieScan
         DEF RequestSteps
    <2> QED
      BY <2>3, <2>7
  <1>3. ASSUME Others, Observe PROVE ScanInv'
    <2> SUFFICES ASSUME NEW x \in Requests PROVE ScanAt(x)'
      BY DEF ScanInv
    <2>1. ScanAt(x)
      BY DEF ScanInv
    <2>2. sel'[x] = sel[x]
      BY <1>3 DEF Others, Purge, Evict, HealthFlips
    <2> QED
      BY <1>1, <1>3, <2>1, <2>2, StayScan
  <1>4. CASE UNCHANGED vars
    BY <1>4 DEF vars, trackerVars, ScanInv, ScanAt, Scanning
  <1> QED
    BY <1>2, <1>3, <1>4 DEF Next

LEMMA ScanAlways == Spec => [](TypeOK /\ PhaseInv /\ ScanInv)
  <1>1. Init => TypeOK /\ PhaseInv /\ ScanInv
    <2> SUFFICES ASSUME Init PROVE TypeOK /\ PhaseInv /\ ScanInv
      OBVIOUS
    <2>1. \A r \in Requests : sel[r].pc = "idle"
      BY IdleFacts DEF Init
    <2> QED
      BY <2>1, TypeInit DEF ScanInv, ScanAt
  <1>2. (TypeOK /\ PhaseInv /\ ScanInv) /\ [Next]_vars => (TypeOK /\ PhaseInv /\ ScanInv)'
    BY TypeStep, ScanStep
  <1> QED
    BY <1>1, <1>2, PTL DEF Spec

(***************************************************************************)
(* The choice                                                              *)
(***************************************************************************)
LEMMA ProductGrows ==
    ASSUME NEW a \in Nat, NEW b \in Nat, NEW c \in Nat, a <= b
    PROVE  a * c <= b * c
  <1>1. PICK d \in Nat : b = a + d
    <2>1. b - a \in Nat /\ b = a + (b - a)
      OBVIOUS
    <2> QED
      BY <2>1
  <1>2. b * c = a * c + d * c /\ d * c \in Nat /\ a * c \in Nat
    BY <1>1
  <1> QED
    BY <1>2

\* A score made of what a window offers lies between the window's extreme scores.
LEMMA ScoreBounds ==
    ASSUME NEW W, NEW w, W[w] \in View, NEW s, Read(W, w, s)
    PROVE  /\ s \in Int
           /\ Lead(W[w].some) * CacheWeight - Min(W[w].load) * LoadWeight \in Int
           /\ Lead(W[w].all) * CacheWeight - Max(W[w].load) * LoadWeight \in Int
           /\ s <= Lead(W[w].some) * CacheWeight - Min(W[w].load) * LoadWeight
           /\ Lead(W[w].all) * CacheWeight - Max(W[w].load) * LoadWeight <= s
  <1>1. PICK L : L = W[w].load /\ L \subseteq Loads
    BY DEF View
  <1>2. PICK m \in Reads(W[w]), l \in L : s = m * CacheWeight - l * LoadWeight
    BY <1>1 DEF Read
  <1>3. L \subseteq 0 .. CountMod - 1 /\ CountMod - 1 \in Nat /\ L # {} /\ L \subseteq Nat
    BY <1>1, <1>2, Constants DEF Loads
  <1>4. Max(L) \in L /\ Max(L) >= l /\ Min(L) \in L /\ Min(L) <= l
    BY <1>2, <1>3, MinIsLeast, MaxIsLargest
  <1>5. PICK hi \in Nat, lo \in Nat : /\ hi = Lead(W[w].some) /\ lo = Lead(W[w].all)
                                      /\ m \in Nat /\ lo <= m /\ m <= hi
    <2>1. PICK hi \in Nat, lo \in Nat : hi = Lead(W[w].some) /\ lo = Lead(W[w].all)
      BY LeadFacts
    <2>2. m \in lo .. hi
      BY <1>2, <2>1 DEF Reads
    <2> QED
      BY <2>1, <2>2
  <1>6. PICK most, few : /\ most = Max(L) /\ few = Min(L) /\ most \in Nat /\ few \in Nat /\ l \in Nat
                         /\ few <= l /\ l <= most
    BY <1>3, <1>4
  <1>7. PICK cw \in Nat, lw \in Nat : cw = CacheWeight /\ lw = LoadWeight
    BY Constants
  <1>8. lo * cw <= m * cw /\ m * cw <= hi * cw
    BY <1>5, ProductGrows
  <1>9. few * lw <= l * lw /\ l * lw <= most * lw
    BY <1>6, ProductGrows
  <1>10. /\ lo * cw \in Nat /\ m * cw \in Nat /\ hi * cw \in Nat
         /\ few * lw \in Nat /\ l * lw \in Nat /\ most * lw \in Nat
    BY <1>5, <1>6
  <1>11. /\ m * cw - l * lw \in Int /\ hi * cw - few * lw \in Int /\ lo * cw - most * lw \in Int
         /\ m * cw - l * lw <= hi * cw - few * lw /\ lo * cw - most * lw <= m * cw - l * lw
    BY <1>8, <1>9, <1>10
  <1> QED
    BY <1>1, <1>2, <1>5, <1>6, <1>7, <1>11

\* What a finished scan promises.
LEMMA ChosenFacts ==
    ASSUME TypeOK, PhaseInv, ScanInv, NEW r \in Requests, Chosen(r)
    PROVE  /\ sel[r].best \in Scored /\ sel[r].best.id \in sel[r].cand
           /\ window[r] \in [sel[r].cand -> View]
           /\ Read(window[r], sel[r].best.id, sel[r].best.score)
           /\ sel[r].best.in_flight \in window[r][sel[r].best.id].load
           /\ \A v \in sel[r].cand : Beaten(window[r], sel[r].best, v)
  <1>1. ScanIn(sel[r], window[r]) /\ sel[r].pc = "record" /\ sel[r].best \in Scored
    BY DEF ScanInv, ScanAt, Chosen, PhaseInv, Phase
  <1>2. sel[r].best # None
    BY <1>1, Constants
  <1> QED
    BY <1>1, <1>2 DEF ScanIn

LEMMA NotWorse ==
    ASSUME TypeOK, PhaseInv, ScanInv
    PROVE  NeverWorseAllAlong
  <1> SUFFICES ASSUME NEW r \in Requests, Chosen(r), NEW v \in sel[r].cand
               PROVE  LET seen == window[r]
                          w == sel[r].best.id
                      IN Lead(seen[w].some) * CacheWeight - Min(seen[w].load) * LoadWeight
                           >= Lead(seen[v].all) * CacheWeight - Max(seen[v].load) * LoadWeight
    BY DEF NeverWorseAllAlong
  <1>1. PICK b, W, w : b = sel[r].best /\ W = window[r] /\ w = b.id
    OBVIOUS
  <1>2. /\ b \in Scored /\ w \in sel[r].cand /\ W \in [sel[r].cand -> View]
        /\ Read(W, w, b.score) /\ Beaten(W, b, v)
    BY <1>1, ChosenFacts
  <1>3. PICK x \in Scored : Read(W, v, x.score) /\ (x = b \/ cmp(b, x))
    BY <1>2 DEF Beaten
  <1>4. b.score \in Int /\ x.score \in Int /\ x.score <= b.score
    <2>1. b.score \in Int /\ x.score \in Int
      BY <1>2 DEF Scored
    <2> QED
      BY <1>3, <2>1 DEF cmp
  <1>5. W[w] \in View /\ W[v] \in View
    BY <1>2
  <1>6. PICK top \in Int : /\ top = Lead(W[w].some) * CacheWeight - Min(W[w].load) * LoadWeight
                           /\ b.score <= top
    BY <1>2, <1>5, ScoreBounds
  <1>7. PICK bot \in Int : /\ bot = Lead(W[v].all) * CacheWeight - Max(W[v].load) * LoadWeight
                           /\ bot <= x.score
    BY <1>3, <1>5, ScoreBounds
  <1>8. top >= bot
    <2>1. PICK i \in Int, j \in Int : i = b.score /\ j = x.score
      BY <1>4
    <2>2. bot <= j /\ j <= i /\ i <= top
      BY <1>4, <1>6, <1>7, <2>1
    <2> QED
      BY <2>2
  <1>9. Lead(W[w].some) * CacheWeight - Min(W[w].load) * LoadWeight
          >= Lead(W[v].all) * CacheWeight - Max(W[v].load) * LoadWeight
    BY <1>6, <1>7, <1>8, Zenon
  <1> QED
    BY <1>1, <1>9, Zenon

\* pick_best reads each candidate's match one block after the other and its load twice
\* while everything moves; the worker it records scores, with every block it had at some
\* time of the scan, at least what any other candidate scores with those it kept all along.
THEOREM NeverWorse == Spec => []NeverWorseAllAlong
  BY ScanAlways, NotWorse, PTL

LEMMA OnlyOne ==
    ASSUME NEW S, NEW n \in Nat, S \subseteq 0 .. n, Cardinality(S) = 1, NEW x \in S
    PROVE  x = Min(S)
  <1>1. IsFiniteSet(0 .. n)
    BY FS_Interval
  <1>2. IsFiniteSet(S)
    BY <1>1, FS_Subset
  <1>3. \E y : S = {y}
    BY <1>2, FS_Singleton
  <1>4. S \subseteq Nat /\ S # {}
    OBVIOUS
  <1>5. Min(S) \in S
    BY <1>4, MinIsLeast
  <1> QED
    BY <1>3, <1>5

LEMMA QuietIsDocumented ==
    ASSUME TypeOK, PhaseInv, ScanInv
    PROVE  QuietChoice
  <1> SUFFICES ASSUME NEW r \in Requests, Chosen(r),
                      \A v \in sel[r].cand : /\ window[r][v].some = window[r][v].all
                                             /\ Cardinality(window[r][v].load) = 1,
                      NEW v \in sel[r].cand
               PROVE  Documented(sel[r].best.id, v,
                                 [x \in sel[r].cand |-> Lead(window[r][x].all)],
                                 [x \in sel[r].cand |-> Min(window[r][x].load)])
    BY DEF QuietChoice
  <1>1. PICK b, W, w, C : b = sel[r].best /\ W = window[r] /\ w = b.id /\ C = sel[r].cand
    OBVIOUS
  <1>2. /\ b \in Scored /\ w \in C /\ W \in [C -> View] /\ v \in C
        /\ Read(W, w, b.score) /\ b.in_flight \in W[w].load /\ Beaten(W, b, v)
    BY <1>1, ChosenFacts
  <1>3. PICK y \in Scored : /\ y.id = v /\ Read(W, v, y.score) /\ y.in_flight \in W[v].load
                            /\ y = b \/ cmp(b, y)
    BY <1>2 DEF Beaten
  <1>4. PICK match, load : /\ match = [x \in C |-> Lead(W[x].all)]
                           /\ load = [x \in C |-> Min(W[x].load)]
    OBVIOUS
  <1>5. ASSUME NEW u \in C
        PROVE  /\ \A m \in Reads(W[u]) : m = match[u]
               /\ \A l \in W[u].load : l = load[u]
    <2>1. W[u].load \subseteq 0 .. CountMod - 1 /\ CountMod - 1 \in Nat
      BY <1>2, Constants DEF View, Loads
    <2>2. W[u].some = W[u].all /\ Cardinality(W[u].load) = 1
      BY <1>1
    <2>3. PICK k \in Nat : k = Lead(W[u].all)
      BY LeadFacts
    <2>4. \A m \in Reads(W[u]) : m = k
      <3>1. \A m \in k .. k : m = k
        OBVIOUS
      <3> QED
        BY <2>2, <2>3, <3>1 DEF Reads
    <2>5. \A l \in W[u].load : l = Min(W[u].load)
      BY <2>1, <2>2, OnlyOne
    <2> QED
      BY <1>4, <2>3, <2>4, <2>5
  <1>6. /\ b.score = match[w] * CacheWeight - load[w] * LoadWeight /\ b.in_flight = load[w]
    BY <1>2, <1>5 DEF Read
  <1>7. /\ y.score = match[v] * CacheWeight - load[v] * LoadWeight /\ y.in_flight = load[v]
    BY <1>2, <1>3, <1>5 DEF Read
  <1>8. \/ w = v \/ b.score > y.score
        \/ b.score = y.score /\ (b.in_flight < y.in_flight
                                 \/ (b.in_flight = y.in_flight /\ w < v))
    BY <1>1, <1>3 DEF cmp
  <1>9. Documented(w, v, match, load)
    BY <1>6, <1>7, <1>8, Zenon DEF Documented
  <1> QED
    BY <1>1, <1>4, <1>9, Zenon

\* A scan during which no block and no load of a candidate moved records the worker the
\* documentation names: the higher score, then the fewer in flight, then the lower id.
THEOREM QuietChoices == Spec => []QuietChoice
  BY ScanAlways, QuietIsDocumented, PTL

(***************************************************************************)
(* The round robin                                                         *)
(***************************************************************************)
Before(k, m) == IF k < m THEN 1 ELSE 0

\* How often place k had its turn between place s of one lap and place m, q laps later.
Turns(k, q, s, m) == q + Before(k, m) - Before(k, s)

\* The picks since the candidates changed are the turns of each candidate's place, less
\* at most the tickets that went astray.
SpreadAt(C, tickets, sp) ==
    C # {} =>
        \E q \in 0 .. tickets, s \in 0 .. Cardinality(C) - 1 :
            \A v \in C :
                LET turns == Turns(Rank(C, v), q, s, tickets % Cardinality(C))
                IN sp.picks[v] <= turns /\ turns <= sp.picks[v] + sp.strays

Spreads == [picks : [Workers -> Nat], strays : Nat]

SpreadInv ==
    /\ spread \in Spreads
    /\ SpreadAt(candidates("both"), next_worker, spread)

LEMMA ModStep ==
    ASSUME NEW t \in Nat, NEW n \in Nat, n > 0
    PROVE  /\ t % n \in 0 .. n - 1
           /\ (t + 1) % n = IF t % n = n - 1 THEN 0 ELSE (t % n) + 1
  <1>0. ASSUME NEW u \in Nat
        PROVE  \E d \in Int, m \in 0 .. n - 1 : u = n * d + m /\ m = u % n
    OBVIOUS
  <1>1. PICK d \in Int, m \in 0 .. n - 1 : t = n * d + m /\ m = t % n
    BY <1>0
  <1>2. PICK e \in Int, k \in 0 .. n - 1 : t + 1 = n * e + k /\ k = (t + 1) % n
    <2>1. t + 1 \in Nat
      OBVIOUS
    <2> QED
      BY <1>0, <2>1
  <1>3. n * (e - d) = m + 1 - k
    BY <1>1, <1>2
  <1>4. -n < n * (e - d) - 1 /\ n * (e - d) <= n
    BY <1>3
  <1>5. e - d = 0 \/ e - d = 1
    <2>1. PICK x \in Int : x = e - d
      OBVIOUS
    <2>2. x >= 2 => n * x >= n * 2
      OBVIOUS
    <2>3. x <= -1 => n * x <= -n
      OBVIOUS
    <2> QED
      BY <1>4, <2>1, <2>2, <2>3
  <1>6. CASE e - d = 0
    BY <1>1, <1>2, <1>3, <1>6
  <1>7. CASE e - d = 1
    BY <1>1, <1>2, <1>3, <1>7
  <1> QED
    BY <1>5, <1>6, <1>7

\* The next ticket is the turn of place tickets % n, and of no other.
LEMMA TurnsStep ==
    ASSUME NEW t \in Nat, NEW n \in Nat, n > 0, NEW q \in Nat, NEW s \in 0 .. n - 1
    PROVE  \E p \in {q, q + 1} : \A k \in 0 .. n - 1 :
               /\ Turns(k, q, s, t % n) \in Int
               /\ Turns(k, p, s, (t + 1) % n)
                    = Turns(k, q, s, t % n) + (IF k = t % n THEN 1 ELSE 0)
  <1>1. PICK m, u : /\ m \in 0 .. n - 1 /\ m = t % n /\ u = (t + 1) % n
                    /\ u = IF m = n - 1 THEN 0 ELSE m + 1
    BY ModStep
  <1>m. m \in Nat
    BY <1>1
  <1>2. CASE m = n - 1
    <2>1. \A k \in 0 .. n - 1 : /\ Turns(k, q, s, m) \in Int
                                /\ Turns(k, q + 1, s, 0) = Turns(k, q, s, m) + (IF k = m THEN 1 ELSE 0)
      BY <1>2, <1>m DEF Turns, Before
    <2> QED
      BY <1>1, <1>2, <2>1
  <1>3. CASE m # n - 1
    <2>1. \A k \in 0 .. n - 1 : /\ Turns(k, q, s, m) \in Int
                                /\ Turns(k, q, s, m + 1) = Turns(k, q, s, m) + (IF k = m THEN 1 ELSE 0)
      BY <1>3, <1>m DEF Turns, Before
    <2> QED
      BY <1>1, <1>3, <2>1
  <1> QED
    BY <1>2, <1>3

LEMMA RankUnique ==
    ASSUME NEW S, IsFiniteSet(S), S \subseteq Nat, NEW v \in S, NEW w \in S,
           Rank(S, v) = Rank(S, w)
    PROVE  v = w
  <1>1. v \in Nat /\ w \in Nat
    OBVIOUS
  <1>2. Rank(S, v) \in Nat /\ Rank(S, w) \in Nat
    <2>1. Rank(S, v) \in 0 .. Cardinality(S) - 1 /\ Rank(S, w) \in 0 .. Cardinality(S) - 1
      BY RankType
    <2>2. Cardinality(S) \in Nat
      BY FS_CardinalityType
    <2> QED
      BY <2>1, <2>2
  <1>3. v < w => Rank(S, v) < Rank(S, w)
    BY RankGrows
  <1>4. w < v => Rank(S, w) < Rank(S, v)
    BY RankGrows
  <1> QED
    BY <1>1, <1>2, <1>3, <1>4

LEMMA SpreadTicket ==
    ASSUME NEW C, C \subseteq Workers, NEW t \in Nat, NEW sp \in Spreads, NEW sp2 \in Spreads,
           SpreadAt(C, t, sp),
           \/ \E w \in C : /\ Rank(C, w) = t % Cardinality(C) /\ sp2.strays = sp.strays
                           /\ \A v \in C : sp2.picks[v] = sp.picks[v] + (IF v = w THEN 1 ELSE 0)
           \/ /\ sp2.strays = sp.strays + 1
              /\ \A v \in C : sp2.picks[v] = sp.picks[v]
    PROVE  SpreadAt(C, t + 1, sp2)
  <1> SUFFICES ASSUME C # {} PROVE SpreadAt(C, t + 1, sp2)
    BY DEF SpreadAt
  <1>1. PICK n \in Nat : n = Cardinality(C) /\ n > 0
    <2>1. IsFiniteSet(C)
      BY SubsetFinite
    <2>2. Cardinality(C) \in Nat /\ Cardinality(C) # 0
      BY <2>1, FS_CardinalityType, FS_EmptySet
    <2> QED
      BY <2>2
  <1>2. PICK q \in 0 .. t, s \in 0 .. n - 1 :
           \A v \in C : /\ sp.picks[v] <= Turns(Rank(C, v), q, s, t % n)
                        /\ Turns(Rank(C, v), q, s, t % n) <= sp.picks[v] + sp.strays
    BY <1>1 DEF SpreadAt
  <1>3. PICK p \in {q, q + 1} : \A k \in 0 .. n - 1 :
               /\ Turns(k, q, s, t % n) \in Int
               /\ Turns(k, p, s, (t + 1) % n)
                    = Turns(k, q, s, t % n) + (IF k = t % n THEN 1 ELSE 0)
    BY <1>1, TurnsStep
  <1>4. ASSUME NEW v \in C
        PROVE  /\ sp2.picks[v] <= Turns(Rank(C, v), p, s, (t + 1) % n)
               /\ Turns(Rank(C, v), p, s, (t + 1) % n) <= sp2.picks[v] + sp2.strays
    <2>1. IsFiniteSet(C) /\ C \subseteq Nat /\ v \in Workers
      BY SubsetFinite
    <2>2. PICK k \in 0 .. n - 1 : k = Rank(C, v)
      BY <1>1, <2>1, RankType
    <2>3. PICK a, b, x, y :
              /\ a = sp.picks[v] /\ b = sp2.picks[v] /\ x \in Int
              /\ x = Turns(k, q, s, t % n) /\ y = Turns(k, p, s, (t + 1) % n)
      BY <1>3
    <2>4. y = x + (IF k = t % n THEN 1 ELSE 0)
      BY <1>3, <2>3
    <2>5. PICK f \in Nat, g \in Nat : f = sp.strays /\ g = sp2.strays
      BY DEF Spreads
    <2>6. a \in Nat /\ b \in Nat
      BY <2>1, <2>3 DEF Spreads
    <2>7. a <= x /\ x <= a + f
      BY <1>2, <2>2, <2>3, <2>5
    <2>8. b <= y /\ y <= b + g
      <3>1. CASE g = f + 1 /\ b = a
        BY <2>3, <2>4, <2>6, <2>7, <3>1
      <3>2. ASSUME NEW w \in C, Rank(C, w) = t % n, g = f, b = a + (IF v = w THEN 1 ELSE 0)
            PROVE  b <= y /\ y <= b + g
        <4>1. k = t % n <=> v = w
          BY <2>1, <2>2, <3>2, RankUnique
        <4> QED
          BY <2>3, <2>4, <2>6, <2>7, <3>2, <4>1
      <3>3. \/ g = f + 1 /\ b = a
            \/ \E w \in C : Rank(C, w) = t % n /\ g = f /\ b = a + (IF v = w THEN 1 ELSE 0)
        BY <1>1, <2>3, <2>5
      <3> QED
        BY <3>1, <3>2, <3>3
    <2> QED
      BY <2>2, <2>3, <2>5, <2>8
  <1>5. p \in 0 .. t + 1
    BY <1>3
  <1> QED
    BY <1>1, <1>4, <1>5 DEF SpreadAt

LEMMA SpreadFresh ==
    ASSUME NEW C, C \subseteq Workers, NEW t \in Nat
    PROVE  FreshSpread \in Spreads /\ SpreadAt(C, t, FreshSpread)
  <1>1. FreshSpread \in Spreads
    BY DEF FreshSpread, Spreads
  <1>2. \A v \in C : FreshSpread.picks[v] = 0 /\ FreshSpread.strays = 0
    BY DEF FreshSpread
  <1>3. ASSUME C # {} PROVE SpreadAt(C, t, FreshSpread)
    <2>1. PICK n \in Nat : n = Cardinality(C) /\ n > 0
      <3>1. IsFiniteSet(C)
        BY SubsetFinite
      <3>2. Cardinality(C) \in Nat /\ Cardinality(C) # 0
        BY <1>3, <3>1, FS_CardinalityType, FS_EmptySet
      <3> QED
        BY <3>2
    <2>2. PICK s \in 0 .. n - 1 : s = t % n
      BY <2>1, ModStep
    <2>3. \A v \in C : Turns(Rank(C, v), 0, s, s) = 0
      BY DEF Turns, Before
    <2>4. 0 \in 0 .. t
      OBVIOUS
    <2> QED
      BY <1>2, <2>1, <2>2, <2>3, <2>4 DEF SpreadAt
  <1> QED
    BY <1>1, <1>3 DEF SpreadAt

LEMMA SpreadStep ==
    ASSUME TypeOK, PhaseInv, SpreadInv, [Next]_vars
    PROVE  SpreadInv'
  <1>1. PICK C : C = candidates("both") /\ C \subseteq Workers
    BY CandidatesType
  <1>2. healthy' = healthy => candidates("both")' = C
    BY <1>1 DEF candidates, InPool
  <1>3. spread \in Spreads /\ SpreadAt(C, next_worker, spread) /\ next_worker \in Nat
    BY <1>1 DEF SpreadInv, TypeOK
  <1>4. ASSUME UNCHANGED <<healthy, next_worker, spread>> PROVE SpreadInv'
    BY <1>2, <1>3, <1>4 DEF SpreadInv
  <1>5. ASSUME NEW r \in Requests, Ticket(r) PROVE SpreadInv'
    <2>1. healthy' = healthy /\ next_worker' = next_worker + 1
      BY <1>5, TicketIs
    <2>2. PICK w \in sel[r].cand :
             /\ Rank(sel[r].cand, w) = next_worker % Cardinality(sel[r].cand)
             /\ spread' = IF sel[r].cand = C
                          THEN [spread EXCEPT !.picks[w] = @ + 1]
                          ELSE [spread EXCEPT !.strays = @ + 1]
      BY <1>1, <1>5, TicketIs
    <2>3. PICK sp \in Spreads : sp = spread
      BY <1>3
    <2>4. w \in Workers
      BY DEF TypeOK, Local
    <2>5. CASE sel[r].cand = C
      <3>1. PICK sp2 : sp2 = [sp EXCEPT !.picks[w] = @ + 1]
        OBVIOUS
      <3>2. /\ sp2 \in Spreads /\ sp2.strays = sp.strays
            /\ \A v \in Workers : sp2.picks[v] = sp.picks[v] + (IF v = w THEN 1 ELSE 0)
        BY <2>4, <3>1 DEF Spreads
      <3>3. spread' = sp2
        BY <2>2, <2>3, <2>5, <3>1
      <3>4. SpreadAt(C, next_worker + 1, sp2)
        BY <1>1, <1>3, <2>2, <2>3, <2>5, <3>2, SpreadTicket
      <3> QED
        BY <1>2, <2>1, <3>2, <3>3, <3>4 DEF SpreadInv
    <2>6. CASE sel[r].cand # C
      <3>1. PICK sp2 : sp2 = [sp EXCEPT !.strays = @ + 1]
        OBVIOUS
      <3>2. /\ sp2 \in Spreads /\ sp2.strays = sp.strays + 1
            /\ \A v \in Workers : sp2.picks[v] = sp.picks[v]
        BY <3>1 DEF Spreads
      <3>3. spread' = sp2
        BY <2>2, <2>3, <2>6, <3>1
      <3>4. SpreadAt(C, next_worker + 1, sp2)
        BY <1>1, <1>3, <2>3, <3>2, SpreadTicket
      <3> QED
        BY <1>2, <2>1, <3>2, <3>3, <3>4 DEF SpreadInv
    <2> QED
      BY <2>5, <2>6
  <1>6. ASSUME NEW w \in Workers, HealthFlips(w) PROVE SpreadInv'
    <2>1. next_worker' = next_worker
      BY <1>6 DEF HealthFlips
    <2>2. PICK D : D = candidates("both")' /\ D \subseteq Workers
      <3>1. TypeOK'
        BY TypeStep
      <3>2. candidates("both")' \subseteq Workers
        BY <3>1 DEF candidates, InPool, TypeOK
      <3> QED
        BY <3>2
    <2>3. spread' = IF D = C THEN spread ELSE FreshSpread
      BY <1>1, <1>6, <2>2 DEF HealthFlips
    <2>4. FreshSpread \in Spreads /\ SpreadAt(D, next_worker, FreshSpread)
      BY <1>3, <2>2, SpreadFresh
    <2>5. spread' \in Spreads /\ SpreadAt(D, next_worker, spread')
      BY <1>3, <2>3, <2>4
    <2> QED
      BY <2>1, <2>2, <2>5 DEF SpreadInv
  <1>7. ASSUME NEW r \in Requests, RequestSteps(r), ~ Ticket(r) PROVE SpreadInv'
    <2>1. UNCHANGED <<healthy, next_worker, spread>>
      BY <1>7, SnapshotIs, ReadMatchIs, EndMatchIs, ReadScoreIs, ReadTieIs, RecordBlockIs,
         RecordIs, InFlightIs DEF RequestSteps
    <2> QED
      BY <1>4, <2>1
  <1>8. ASSUME \/ \E w \in Workers : Purge(w)
               \/ \E b \in Blocks : Evict(b)
        PROVE  SpreadInv'
    BY <1>4, <1>8 DEF Purge, Evict
  <1>9. CASE UNCHANGED vars
    BY <1>4, <1>9 DEF vars
  <1> QED
    BY <1>5, <1>6, <1>7, <1>8, <1>9 DEF Next, Others

LEMMA SpreadIsEven ==
    ASSUME TypeOK, SpreadInv
    PROVE  EvenSpread
  <1> SUFFICES ASSUME NEW v \in candidates("both"), NEW w \in candidates("both")
               PROVE  spread.picks[v] <= spread.picks[w] + 1 + spread.strays
    BY DEF EvenSpread
  <1>1. PICK C : /\ C = candidates("both") /\ C \subseteq Workers /\ IsFiniteSet(C)
                 /\ C \subseteq Nat /\ C # {}
    BY CandidatesType, SubsetFinite
  <1>2. PICK n \in Nat : n = Cardinality(C) /\ n > 0
    <2>1. Cardinality(C) \in Nat /\ Cardinality(C) # 0
      BY <1>1, FS_CardinalityType, FS_EmptySet
    <2> QED
      BY <2>1
  <1>3. next_worker \in Nat
    BY DEF TypeOK
  <1>4. PICK m \in 0 .. n - 1 : m = next_worker % n
    BY <1>2, <1>3, ModStep
  <1>5. PICK q \in 0 .. next_worker, s \in 0 .. n - 1 :
           \A x \in C : /\ spread.picks[x] <= Turns(Rank(C, x), q, s, m)
                        /\ Turns(Rank(C, x), q, s, m) <= spread.picks[x] + spread.strays
    BY <1>1, <1>2, <1>4 DEF SpreadInv, SpreadAt
  <1>6. PICK i \in 0 .. n - 1, j \in 0 .. n - 1 : i = Rank(C, v) /\ j = Rank(C, w)
    BY <1>1, <1>2, RankType
  <1>7. PICK a \in Nat, b \in Nat, f \in Nat :
           a = spread.picks[v] /\ b = spread.picks[w] /\ f = spread.strays
    BY <1>1 DEF SpreadInv, Spreads
  <1>8. PICK x \in Int, y \in Int : /\ x = Turns(i, q, s, m) /\ y = Turns(j, q, s, m)
                                    /\ x <= y + 1
    <2>1. q \in Int
      BY <1>3
    <2>2. i \in Nat /\ j \in Nat /\ s \in Nat /\ m \in Nat
      BY <1>2
    <2>3. Turns(i, q, s, m) \in Int /\ Turns(j, q, s, m) \in Int
      BY <2>1, <2>2 DEF Turns, Before
    <2>4. Turns(i, q, s, m) <= Turns(j, q, s, m) + 1
      BY <2>1, <2>2 DEF Turns, Before
    <2> QED
      BY <2>3, <2>4
  <1>9. a <= x /\ y <= b + f
    BY <1>1, <1>5, <1>6, <1>7, <1>8
  <1>10. a <= b + 1 + f
    BY <1>8, <1>9
  <1> QED
    BY <1>7, <1>10

\* select_round_robin takes tickets from a counter that selections with other candidate
\* lists share: no candidate gets two requests ahead of another, except by their tickets.
THEOREM RoundRobinIsEven == Spec => []EvenSpread
  <1>1. Init => TypeOK /\ PhaseInv /\ SpreadInv
    <2> SUFFICES ASSUME Init PROVE SpreadInv
      BY TypeInit
    <2>1. candidates("both") \subseteq Workers
      BY TypeInit, CandidatesType
    <2>2. spread = FreshSpread /\ next_worker \in Nat
      BY DEF Init
    <2> QED
      BY <2>1, <2>2, SpreadFresh DEF SpreadInv
  <1>2. (TypeOK /\ PhaseInv /\ SpreadInv) /\ [Next]_vars => (TypeOK /\ PhaseInv /\ SpreadInv)'
    BY TypeStep, SpreadStep
  <1>3. TypeOK /\ PhaseInv /\ SpreadInv => EvenSpread
    BY SpreadIsEven
  <1> QED
    BY <1>1, <1>2, <1>3, PTL DEF Spec
===========================================================================
