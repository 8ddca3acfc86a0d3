-------------------------- MODULE PyBindingsProofs ------------------------
(***************************************************************************)
(* Theorems about PyBindings, for any number of threads, workers and       *)
(* calls, any prompts and any f64 weights.                                 *)
(***************************************************************************)
EXTENDS PyBindings, Extrema, SequenceTheorems, TLAPS

(***************************************************************************)
(* The inductive invariant                                                 *)
(***************************************************************************)
Policy == {"round_robin", "cache_aware"}
Number == Int \cup {Inf, NaN}
Owed == [worker : Workers, chain : Seq(Blocks)]
Dispatch == [policy : Policy, chain : Seq(Blocks), worker : Workers]
CoreRouter == [next_worker : Nat, credit : [Workers -> SUBSET Blocks]]
Local == [pc : {"idle", "ticket", "scan", "record", "insert", "list", "match", "answer"},
          policy : Policy \cup {None}, chain : Seq(Blocks), router : Nat \cup {None},
          left : SUBSET Workers, read : Seq(Nat \cup (Workers \X Nat)),
          best : {None} \cup Candidate \cup Workers, due : SUBSET Owed]

TypeOK ==
    /\ weights \in [cache : Number, load : Number]
    /\ heap \in Seq(CoreRouter)
    /\ DOMAIN routers \subseteq Policy
    /\ \A p \in DOMAIN routers : routers[p] \in 1 .. Len(heap)
    /\ credit \in [Workers -> SUBSET Blocks]
    /\ listed \subseteq Workers
    /\ call \in [Threads -> Local]
    /\ calls \in Nat
    /\ dispatched \subseteq Dispatch
    /\ kept \subseteq Owed

\* What the phase of a call says of its locals.
Phase(t) ==
    /\ call[t].pc \in {"ticket", "scan", "record"} =>
         call[t].policy \in DOMAIN routers /\ call[t].router = routers[call[t].policy]
    /\ call[t].pc = "ticket" => call[t].policy = "round_robin"
    /\ call[t].pc = "scan" =>
         call[t].policy = "cache_aware" /\ call[t].best \in {None} \cup Candidate
    /\ call[t].pc = "record" => call[t].best \in Candidate
    /\ call[t].pc \in {"insert", "list"} => call[t].best \in Workers
    /\ call[t].pc \in {"scan", "match"} => call[t].left # {}

\* One router per policy, whose belief is what that policy's calls dispatched.
Dispatched(p, w) ==
    UNION {Hold(x.chain) : x \in {y \in dispatched : y.policy = p /\ y.worker = w}}

BeliefInv ==
    /\ \A p, q \in DOMAIN routers : routers[p] = routers[q] => p = q
    /\ \A p \in DOMAIN routers, w \in Workers :
         heap[routers[p]].credit[w] = Dispatched(p, w)
    /\ \A d \in dispatched : d.policy \in DOMAIN routers

\* A scan has read the workers below the length of `read`, and holds the best of them.
Match(r, w) == IF {Inf, NaN} \cap {weights.cache, weights.load} # {} THEN 0
               ELSE weights.cache * r[w + 1]

ScannedIn(c) ==
    c.policy = "cache_aware" /\ c.pc \in {"scan", "record"} =>
        /\ c.left = Len(c.read) .. NumWorkers - 1
        /\ c.pc = "record" => Len(c.read) = NumWorkers
        /\ \A i \in 1 .. Len(c.read) : c.read[i] \in Nat
        /\ Len(c.read) = 0 => c.best = None
        /\ Len(c.read) > 0 =>
             /\ c.best \in Candidate /\ c.best.id < Len(c.read)
             /\ c.best.score = score_worker(c.read[c.best.id + 1])
             /\ \A w \in 0 .. Len(c.read) - 1 :
                  \/ Match(c.read, w) < Match(c.read, c.best.id)
                  \/ Match(c.read, w) = Match(c.read, c.best.id) /\ c.best.id <= w

ScanInv == \A t \in Threads : ScannedIn(call[t])

\* What inserts are owed is credited, and a lookup has read or will read it.
Answers(c, k) ==
    \E i \in 1 .. Len(c.read) :
        /\ c.read[i] \in Workers \X Nat /\ c.read[i][1] = k.worker
        /\ c.read[i][2] >= longest_match(Hold(k.chain), c.chain)

\* ... of a call, in a given index.
OwedIn(c, cr) ==
    /\ c.pc = "insert" => c.due = {[worker |-> c.best, chain |-> c.chain]}
    /\ c.pc = "list" => \A k \in c.due : k.worker = c.best
    /\ c.pc \in {"list", "match"} => \A k \in c.due : Hold(k.chain) \subseteq cr[k.worker]
    /\ c.pc = "match" => \A k \in c.due : k.worker \in c.left \/ Answers(c, k)
    /\ c.pc = "answer" => \A k \in c.due : Answers(c, k)

OwedInv ==
    /\ \A k \in kept : k.worker \in listed /\ Hold(k.chain) \subseteq credit[k.worker]
    /\ \A t \in Threads : OwedIn(call[t], credit)

(***************************************************************************)
(* The operators                                                           *)
(***************************************************************************)
LEMMA Constants ==
    /\ NumWorkers \in Nat /\ NumWorkers > 0
    /\ Workers \subseteq Nat /\ 0 \in Workers
    /\ Workers = 0 .. NumWorkers - 1
    /\ Prompts \subseteq Seq(Blocks)
    /\ Weights \subseteq [cache : Number, load : Number]
    /\ None \notin Candidate /\ None \notin Int
    /\ Inf # NaN /\ Inf \notin Int /\ NaN \notin Int
  BY PyBindingsAssumption DEF Workers, Number

LEMMA ChainFacts ==
    ASSUME NEW chain \in Seq(Blocks)
    PROVE  /\ Len(chain) \in Nat
           /\ \A i \in 1 .. Len(chain) : chain[i] \in Blocks
           /\ Hold(chain) \subseteq Blocks
  <1>1. Len(chain) \in Nat /\ \A i \in 1 .. Len(chain) : chain[i] \in Blocks
    BY LenProperties, ElementOfSeq
  <1> QED
    BY <1>1 DEF Hold

\* longest_match is the length of the longest prefix all of whose blocks are held.
LEMMA LongestMatch ==
    ASSUME NEW blocks, NEW chain \in Seq(Blocks)
    PROVE  /\ longest_match(blocks, chain) \in 0 .. Len(chain)
           /\ longest_match(blocks, chain) \in Nat
           /\ \A i \in 1 .. longest_match(blocks, chain) : chain[i] \in blocks
           /\ \A n \in 0 .. Len(chain) :
                (\A i \in 1 .. n : chain[i] \in blocks) => n <= longest_match(blocks, chain)
  <1> DEFINE S == {n \in 0 .. Len(chain) : \A i \in 1 .. n : chain[i] \in blocks}
             m == longest_match(blocks, chain)
  <1>1. Len(chain) \in Nat
    BY ChainFacts
  <1>2. S \subseteq 0 .. Len(chain) /\ 0 \in S
    BY <1>1
  <1>3. m = Max(S)
    BY DEF longest_match
  <1> HIDE DEF m
  <1>4. m \in S /\ \A y \in S : m >= y
    <2> HIDE DEF S
    <2> QED
      BY <1>1, <1>2, <1>3, MaxIsLargest
  <1>5. m \in 0 .. Len(chain) /\ \A i \in 1 .. m : chain[i] \in blocks
    BY <1>4
  <1>6. ASSUME NEW n \in 0 .. Len(chain), \A i \in 1 .. n : chain[i] \in blocks
        PROVE  n <= m
    <2>1. n \in S
      BY <1>6
    <2> QED
      BY <1>1, <1>4, <1>5, <2>1
  <1>7. m \in Nat
    BY <1>1, <1>5
  <1> QED
    BY <1>5, <1>6, <1>7 DEF m

\* More blocks, a longer match.
LEMMA LongestMatchGrows ==
    ASSUME NEW small, NEW large, small \subseteq large, NEW chain \in Seq(Blocks)
    PROVE  longest_match(small, chain) <= longest_match(large, chain)
  <1>1. /\ longest_match(small, chain) \in 0 .. Len(chain)
        /\ \A i \in 1 .. longest_match(small, chain) : chain[i] \in small
    BY LongestMatch
  <1>2. \A i \in 1 .. longest_match(small, chain) : chain[i] \in large
    BY <1>1
  <1> QED
    BY <1>1, <1>2, LongestMatch

\* What an eviction leaves of a chain that is owed, and of a set of them.
Shortened(chain, gone) == SubSeq(chain, 1, longest_match(Blocks \ gone, chain))
StillOwed(S, gone) == {[k EXCEPT !.chain = Shortened(@, gone)] : k \in S}

LEMMA ShortenedFacts ==
    ASSUME NEW chain \in Seq(Blocks), NEW gone
    PROVE  /\ Shortened(chain, gone) \in Seq(Blocks)
           /\ Hold(Shortened(chain, gone)) \subseteq Hold(chain) \ gone
  <1> DEFINE m == longest_match(Blocks \ gone, chain)
             s == SubSeq(chain, 1, m)
  <1>1. /\ m \in Nat /\ m <= Len(chain) /\ Len(chain) \in Nat
        /\ \A i \in 1 .. m : chain[i] \in Blocks \ gone
    BY LongestMatch, ChainFacts
  <1> HIDE DEF m
  <1>2. /\ s \in Seq(Blocks)
        /\ Len(s) = IF 1 <= m THEN m - 1 + 1 ELSE 0
        /\ \A i \in 1 .. m - 1 + 1 : s[i] = chain[1 + i - 1]
    <2>1. \A i \in 1 .. m : chain[i] \in Blocks
      BY <1>1
    <2> QED
      BY <1>1, <2>1, SubSeqProperties
  <1>3. Len(s) = m /\ \A i \in 1 .. m : s[i] = chain[i]
    BY <1>1, <1>2
  <1>4. ASSUME NEW i \in 1 .. m PROVE s[i] \in Hold(chain) \ gone
    <2>1. i \in 1 .. Len(chain)
      BY <1>1
    <2> QED
      BY <1>1, <1>3, <2>1 DEF Hold
  <1>5. Hold(s) \subseteq Hold(chain) \ gone
    BY <1>3, <1>4 DEF Hold
  <1> QED
    BY <1>2, <1>5 DEF Shortened, m

Remains(x, k, gone) ==
    x.worker = k.worker /\ Hold(x.chain) \subseteq Hold(k.chain) \ gone

LEMMA StillOwedFacts ==
    ASSUME NEW S, S \subseteq Owed, NEW gone
    PROVE  /\ StillOwed(S, gone) \subseteq Owed
           /\ \A x \in StillOwed(S, gone) : \E k \in S :
                Remains(x, k, gone)
  <1>1. ASSUME NEW k \in S
        PROVE  LET x == [k EXCEPT !.chain = Shortened(@, gone)]
               IN x \in Owed /\ Remains(x, k, gone)
    <2> DEFINE c == Shortened(k.chain, gone)
    <2>1. c \in Seq(Blocks) /\ Hold(c) \subseteq Hold(k.chain) \ gone /\ k \in Owed
      BY ShortenedFacts DEF Owed
    <2>2. [k EXCEPT !.chain = Shortened(@, gone)] = [k EXCEPT !.chain = c]
      OBVIOUS
    <2> HIDE DEF c
    <2>3. LET x == [k EXCEPT !.chain = c] IN x \in Owed /\ x.worker = k.worker /\ x.chain = c
      BY <2>1 DEF Owed
    <2> QED
      BY <2>1, <2>2, <2>3 DEF Remains
  <1>2. ASSUME NEW x \in StillOwed(S, gone)
        PROVE  x \in Owed /\ \E k \in S : Remains(x, k, gone)
    <2>1. PICK k \in S : x = [k EXCEPT !.chain = Shortened(@, gone)]
      BY DEF StillOwed
    <2> QED
      BY <1>1, <2>1
  <1> QED
    BY <1>2

(***************************************************************************)
(* What each step does to the locals of its thread                         *)
(***************************************************************************)
LEMMA IdleFacts ==
    /\ Idle \in Local /\ Idle.pc = "idle"
    /\ Idle.read = <<>> /\ Idle.best = None /\ Idle.due = {}
  <1>1. <<>> \in Seq(Blocks) /\ <<>> \in Seq(Nat \cup (Workers \X Nat))
    OBVIOUS
  <1>2. ASSUME NEW a \in Seq(Blocks), NEW b \in Seq(Nat \cup (Workers \X Nat)), NEW c,
               c = [pc |-> "idle", policy |-> None, chain |-> a, router |-> None,
                    left |-> {}, read |-> b, best |-> None, due |-> {}]
        PROVE  c \in Local /\ c.pc = "idle" /\ c.read = b /\ c.best = None /\ c.due = {}
    BY <1>2 DEF Local
  <1> QED
    BY <1>1, <1>2 DEF Idle

\* The thread moves, the others stay.
Moves(t, c) == call' = [call EXCEPT ![t] = c]

LEMMA MovesFacts ==
    ASSUME TypeOK, NEW t \in Threads, NEW c \in Local, Moves(t, c)
    PROVE  /\ call' \in [Threads -> Local]
           /\ call'[t] = c
           /\ \A x \in Threads \ {t} : call'[x] = call[x]
  BY DEF Moves, TypeOK

\* The locals of a call of route that has just begun.
NewCall(policy, chain, router) ==
    [Idle EXCEPT !.pc = IF policy = "round_robin" THEN "ticket" ELSE "scan",
                 !.policy = policy, !.chain = chain, !.left = Workers, !.router = router]

LEMMA DecideIs ==
    ASSUME TypeOK, NEW t \in Threads, decide(t)
    PROVE  \E chain \in Prompts, policy \in Policy :
             /\ get_or_create(policy) /\ Moves(t, NewCall(policy, chain, routers'[policy]))
             /\ calls' = calls + 1
             /\ UNCHANGED <<weights, dispatched, indexVars>>
  BY DEF decide, Begin, parse_policy, Policy, Step, Moves, NewCall

LEMMA GetOrCreate ==
    ASSUME TypeOK, NEW policy \in Policy, get_or_create(policy)
    PROVE  /\ heap' \in Seq(CoreRouter)
           /\ DOMAIN routers' = DOMAIN routers \cup {policy}
           /\ \A p \in DOMAIN routers' : routers'[p] \in 1 .. Len(heap')
           /\ \A p \in DOMAIN routers : routers'[p] = routers[p]
           /\ \A i \in 1 .. Len(heap) : heap'[i] = heap[i]
           /\ policy \notin DOMAIN routers =>
                routers'[policy] = Len(heap) + 1 /\ heap'[Len(heap) + 1] = NewRouter
  <1>1. CASE policy \in DOMAIN routers
    BY <1>1 DEF get_or_create, TypeOK
  <1>2. CASE policy \notin DOMAIN routers
    <2>1. NewRouter \in CoreRouter
      BY DEF NewRouter, CoreRouter, Nothing
    <2>2. heap' = Append(heap, NewRouter)
      BY <1>2 DEF get_or_create
    <2>3. /\ heap' \in Seq(CoreRouter) /\ Len(heap') = Len(heap) + 1
          /\ \A i \in 1 .. Len(heap) : heap'[i] = heap[i]
          /\ heap'[Len(heap) + 1] = NewRouter
          /\ Len(heap) \in Nat
      BY <2>1, <2>2, AppendProperties, LenProperties DEF TypeOK
    <2>4. /\ DOMAIN routers' = DOMAIN routers \cup {policy}
          /\ \A p \in DOMAIN routers : routers'[p] = routers[p]
          /\ routers'[policy] = Len(heap) + 1
      BY <1>2 DEF get_or_create
    <2>5. \A p \in DOMAIN routers' : routers'[p] \in 1 .. Len(heap')
      BY <2>3, <2>4 DEF TypeOK
    <2> QED
      BY <2>3, <2>4, <2>5
  <1> QED
    BY <1>1, <1>2

LEMMA NewCallFacts ==
    ASSUME NEW chain \in Seq(Blocks), NEW policy \in Policy, NEW router \in Nat
    PROVE  /\ NewCall(policy, chain, router) \in Local
           /\ NewCall(policy, chain, router).pc =
                IF policy = "round_robin" THEN "ticket" ELSE "scan"
           /\ NewCall(policy, chain, router).policy = policy
           /\ NewCall(policy, chain, router).chain = chain
           /\ NewCall(policy, chain, router).left = Workers
           /\ NewCall(policy, chain, router).router = router
           /\ NewCall(policy, chain, router).read = <<>>
           /\ NewCall(policy, chain, router).best = None
           /\ NewCall(policy, chain, router).due = {}
  BY IdleFacts DEF Local, NewCall

LEMMA TicketIs ==
    ASSUME TypeOK, NEW t \in Threads, Ticket(t)
    PROVE  /\ call[t].pc = "ticket"
           /\ Moves(t, [call[t] EXCEPT !.pc = "record",
                          !.best = [id |-> heap[call[t].router].next_worker % NumWorkers,
                                    score |-> 0]])
           /\ heap' = [heap EXCEPT ![call[t].router].next_worker = @ + 1]
           /\ UNCHANGED <<weights, calls, routers, dispatched, indexVars>>
  BY DEF Ticket, Continue, Step, Moves, MyRouter

LEMMA ScoreType ==
    ASSUME TypeOK, NEW m \in Nat
    PROVE  score_worker(m) \in Number
  <1>1. weights.cache \in Number /\ weights.load \in Number
    BY DEF TypeOK
  <1>2. Times(m, weights.cache) \in Number
    BY <1>1 DEF Times, Number
  <1> QED
    BY <1>2 DEF score_worker, Number

\* One candidate: what is read of the worker whose turn it is, and what the scan
\* makes of it.
ScanTo(c, q, m, score) ==
    LET w == Min(c.left)
        this == [id |-> w, score |-> score]
    IN /\ w \in c.left /\ w \in Workers /\ \A x \in c.left : w <= x
       /\ q \in Local
       /\ q.left = c.left \ {w}
       /\ q.pc = IF q.left = {} THEN "record" ELSE "scan"
       /\ q.read = Append(c.read, m)
       /\ this \in Candidate
       /\ q.best \in Candidate
       /\ q.best = IF c.best # None /\ cmp(c.best, this) THEN c.best ELSE this
       /\ q.policy = c.policy /\ q.chain = c.chain /\ q.router = c.router /\ q.due = c.due

LEMMA ScanIs ==
    ASSUME TypeOK, NEW t \in Threads, Scan(t), call[t].left # {},
           call[t].best \in {None} \cup Candidate
    PROVE  /\ call[t].pc = "scan"
           /\ UNCHANGED <<weights, calls, routerVars, indexVars>>
           /\ \E m, q : m \in Nat /\ Moves(t, q) /\ ScanTo(call[t], q, m, score_worker(m))
  <1> DEFINE c == call[t]
             w == Min(c.left)
             m == longest_match(heap[c.router].credit[w], c.chain)
             score == score_worker(m)
             this == [id |-> w, score |-> score]
             left == c.left \ {w}
             pc == IF left = {} THEN "record" ELSE "scan"
             read == Append(c.read, m)
             best == IF c.best # None /\ cmp(c.best, this) THEN c.best ELSE this
             q == [c EXCEPT !.pc = pc, !.left = left, !.read = read, !.best = best]
  <1>0. c \in Local
    BY DEF TypeOK
  <1>1. Moves(t, q) /\ c.pc = "scan" /\ UNCHANGED <<weights, calls, routerVars, indexVars>>
    BY DEF Scan, Continue, Step, Moves, Matched, MyRouter
  <1>2. m \in Nat
    BY <1>0, LongestMatch DEF Local
  <1>3. score \in Number
    BY <1>2, ScoreType
  <1>4. c.left \subseteq Workers /\ c.left \subseteq Nat
    BY <1>0, Constants DEF Local
  <1>5. w \in c.left /\ w \in Workers /\ \A x \in c.left : w <= x
    BY <1>4, MinIsLeast
  <1> HIDE DEF w, score, m
  <1>6. this \in Candidate
    BY <1>3, <1>5 DEF Candidate, Number
  <1> HIDE DEF this
  <1>7. best \in Candidate
    BY <1>6
  <1>8. read \in Seq(Nat \cup (Workers \X Nat))
    BY <1>0, <1>2, AppendProperties DEF Local
  <1>9. left \in SUBSET Workers /\ pc \in {"record", "scan"}
    BY <1>4
  <1> HIDE DEF left, pc, read, best, c
  <1>10. /\ q \in Local /\ q.pc = pc /\ q.left = left /\ q.read = read /\ q.best = best
         /\ q.policy = c.policy /\ q.chain = c.chain /\ q.router = c.router /\ q.due = c.due
    BY <1>0, <1>7, <1>8, <1>9 DEF Local
  <1> HIDE DEF q
  <1>11. ScanTo(c, q, m, score)
    BY <1>5, <1>6, <1>7, <1>10 DEF ScanTo, left, pc, read, best, this, w
  <1>12. Moves(t, q) /\ ScanTo(call[t], q, m, score_worker(m))
    BY <1>1, <1>11 DEF c, score
  <1> QED
    BY <1>1, <1>2, <1>12 DEF c

\* A ticket is a worker.
LEMMA TicketFacts ==
    ASSUME NEW c \in Local, NEW n \in Nat
    PROVE  LET q == [c EXCEPT !.pc = "record",
                              !.best = [id |-> n % NumWorkers, score |-> 0]]
           IN /\ q \in Local /\ q.pc = "record" /\ q.best \in Candidate
              /\ q.policy = c.policy /\ q.chain = c.chain /\ q.router = c.router
              /\ q.due = c.due
  <1> DEFINE b == [id |-> n % NumWorkers, score |-> 0]
  <1>1. b \in Candidate
    <2>1. n % NumWorkers \in Workers
      BY Constants
    <2> QED
      BY <2>1 DEF Candidate
  <1> HIDE DEF b
  <1>2. LET q == [c EXCEPT !.pc = "record", !.best = b]
        IN /\ q \in Local /\ q.pc = "record" /\ q.best = b
           /\ q.policy = c.policy /\ q.chain = c.chain /\ q.router = c.router /\ q.due = c.due
    BY <1>1 DEF Local
  <1> QED
    BY <1>1, <1>2 DEF b

\* The locals of the calls on the PrefixIndex object.
NewInsert(w, chain) ==
    [Idle EXCEPT !.pc = "insert", !.chain = chain, !.best = w,
                 !.due = {[worker |-> w, chain |-> chain]}]

LEMMA NewInsertFacts ==
    ASSUME NEW w \in Workers, NEW chain \in Seq(Blocks)
    PROVE  /\ NewInsert(w, chain) \in Local
           /\ NewInsert(w, chain).pc = "insert"
           /\ NewInsert(w, chain).chain = chain
           /\ NewInsert(w, chain).best = w
           /\ NewInsert(w, chain).due = {[worker |-> w, chain |-> chain]}
  <1> DEFINE d == {[worker |-> w, chain |-> chain]}
             c == NewInsert(w, chain)
  <1>1. d \in SUBSET Owed
    BY DEF Owed
  <1> HIDE DEF d
  <1>2. c = [Idle EXCEPT !.pc = "insert", !.chain = chain, !.best = w, !.due = d]
    BY DEF NewInsert, d
  <1> HIDE DEF c
  <1>3. c \in Local /\ c.pc = "insert" /\ c.chain = chain /\ c.best = w /\ c.due = d
    BY <1>1, <1>2, IdleFacts DEF Local
  <1> QED
    BY <1>3 DEF c, d

NewLookup(chain, left, due) ==
    [Idle EXCEPT !.pc = IF left = {} THEN "answer" ELSE "match",
                 !.chain = chain, !.left = left, !.due = due]

LEMMA NewLookupFacts ==
    ASSUME NEW chain \in Seq(Blocks), NEW left, left \subseteq Workers,
           NEW due, due \subseteq Owed
    PROVE  /\ NewLookup(chain, left, due) \in Local
           /\ NewLookup(chain, left, due).pc = IF left = {} THEN "answer" ELSE "match"
           /\ NewLookup(chain, left, due).chain = chain
           /\ NewLookup(chain, left, due).left = left
           /\ NewLookup(chain, left, due).due = due
           /\ NewLookup(chain, left, due).read = <<>>
  BY IdleFacts DEF Local, NewLookup

MatchTo(c, q, n) ==
    LET w == Min(c.left)
    IN /\ w \in c.left /\ w \in Workers
       /\ q \in Local
       /\ q.left = c.left \ {w}
       /\ q.pc = IF q.left = {} THEN "answer" ELSE "match"
       /\ q.read = Append(c.read, <<w, n>>)
       /\ q.chain = c.chain /\ q.due = c.due

LEMMA MatchIs ==
    ASSUME TypeOK, NEW t \in Threads, LookupMatch(t), call[t].left # {}
    PROVE  /\ call[t].pc = "match"
           /\ UNCHANGED <<weights, calls, routerVars, indexVars>>
           /\ \E n, q :
                /\ n \in Nat /\ n = longest_match(credit[Min(call[t].left)], call[t].chain)
                /\ Moves(t, q) /\ MatchTo(call[t], q, n)
  <1> DEFINE c == call[t]
             w == Min(c.left)
             n == longest_match(credit[w], c.chain)
             left == c.left \ {w}
             pc == IF left = {} THEN "answer" ELSE "match"
             read == Append(c.read, <<w, n>>)
             q == [c EXCEPT !.pc = pc, !.left = left, !.read = read]
  <1>0. c \in Local
    BY DEF TypeOK
  <1>1. Moves(t, q) /\ c.pc = "match" /\ UNCHANGED <<weights, calls, routerVars, indexVars>>
    BY DEF LookupMatch, Continue, Step, Moves
  <1>2. n \in Nat
    BY <1>0, LongestMatch DEF Local
  <1>3. c.left \subseteq Workers /\ c.left \subseteq Nat
    BY <1>0, Constants DEF Local
  <1>4. w \in c.left /\ w \in Workers
    BY <1>3, MinIsLeast
  <1> HIDE DEF w, n
  <1>5. read \in Seq(Nat \cup (Workers \X Nat))
    <2>1. <<w, n>> \in Nat \cup (Workers \X Nat)
      BY <1>2, <1>4
    <2> QED
      BY <1>0, <2>1, AppendProperties DEF Local
  <1>6. left \in SUBSET Workers /\ pc \in {"answer", "match"}
    BY <1>3
  <1> HIDE DEF left, pc, read, c
  <1>7. /\ q \in Local /\ q.pc = pc /\ q.left = left /\ q.read = read
        /\ q.chain = c.chain /\ q.due = c.due
    BY <1>0, <1>5, <1>6 DEF Local
  <1> HIDE DEF q
  <1>8. MatchTo(c, q, n)
    BY <1>4, <1>7 DEF MatchTo, left, pc, read, w
  <1>9. n = longest_match(credit[Min(call[t].left)], call[t].chain)
    BY DEF n, w, c
  <1> QED
    BY <1>1, <1>2, <1>8, <1>9 DEF c

\* The locals after an eviction.
LEMMA EvictLocal ==
    ASSUME NEW c \in Local, NEW gone
    PROVE  LET q == [c EXCEPT !.due = StillOwed(@, gone)]
           IN /\ q \in Local /\ q.due = StillOwed(c.due, gone)
              /\ q.pc = c.pc /\ q.policy = c.policy /\ q.chain = c.chain
              /\ q.router = c.router /\ q.left = c.left /\ q.read = c.read /\ q.best = c.best
  <1> DEFINE d == StillOwed(c.due, gone)
  <1>1. d \in SUBSET Owed
    BY StillOwedFacts DEF Local
  <1> HIDE DEF d
  <1>2. LET q == [c EXCEPT !.due = d]
        IN /\ q \in Local /\ q.due = d
           /\ q.pc = c.pc /\ q.policy = c.policy /\ q.chain = c.chain
           /\ q.router = c.router /\ q.left = c.left /\ q.read = c.read /\ q.best = c.best
    BY <1>1 DEF Local
  <1> QED
    BY <1>2 DEF d

(***************************************************************************)
(* Types and phases                                                        *)
(***************************************************************************)
PhaseInv == \A t \in Threads : Phase(t)

\* The routers of the policies stay where they are.
RoutersStay ==
    DOMAIN routers \subseteq DOMAIN routers' /\ \A p \in DOMAIN routers : routers'[p] = routers[p]

LEMMA PhaseOfOthers ==
    ASSUME NEW x \in Threads, Phase(x), RoutersStay, call'[x] = call[x]
    PROVE  Phase(x)'
  BY DEF Phase, RoutersStay

LEMMA PhaseMoves ==
    ASSUME TypeOK, PhaseInv, NEW t \in Threads, NEW c \in Local, Moves(t, c), RoutersStay,
           Phase(t)'
    PROVE  PhaseInv'
  BY MovesFacts, PhaseOfOthers DEF PhaseInv

LEMMA HeapFacts ==
    ASSUME TypeOK, PhaseInv, NEW t \in Threads, call[t].pc \in {"ticket", "scan", "record"}
    PROVE  /\ call[t] \in Local /\ call[t].policy \in DOMAIN routers
           /\ call[t].router = routers[call[t].policy]
           /\ call[t].router \in 1 .. Len(heap)
           /\ heap[call[t].router] \in CoreRouter
  <1>1. /\ call[t] \in Local /\ call[t].policy \in DOMAIN routers
        /\ call[t].router = routers[call[t].policy]
    BY DEF TypeOK, PhaseInv, Phase
  <1>2. call[t].router \in 1 .. Len(heap)
    BY <1>1 DEF TypeOK
  <1>3. heap[call[t].router] \in CoreRouter
    BY <1>2, ElementOfSeq DEF TypeOK
  <1> QED
    BY <1>1, <1>2, <1>3

\* A router of the heap is replaced.
LEMMA HeapUpdate ==
    ASSUME TypeOK, NEW i \in 1 .. Len(heap), NEW r \in CoreRouter,
           heap' = [heap EXCEPT ![i] = r]
    PROVE  /\ heap' \in Seq(CoreRouter) /\ Len(heap') = Len(heap)
           /\ heap'[i] = r
           /\ \A j \in 1 .. Len(heap) : j # i => heap'[j] = heap[j]
  <1>1. heap \in Seq(CoreRouter)
    BY DEF TypeOK
  <1> QED
    BY <1>1, ExceptSeq

LEMMA RouterTypes ==
    ASSUME TypeOK, PhaseInv, NEW t \in Threads, RouterSteps(t)
    PROVE  TypeOK' /\ PhaseInv'
  <1>0. call[t] \in Local
    BY DEF TypeOK
  <1>1. CASE decide(t)
    <2>1. PICK chain \in Prompts, policy \in Policy :
             /\ get_or_create(policy) /\ Moves(t, NewCall(policy, chain, routers'[policy]))
             /\ calls' = calls + 1
             /\ UNCHANGED <<weights, dispatched, indexVars>>
      BY <1>1, DecideIs
    <2>2. /\ heap' \in Seq(CoreRouter)
          /\ DOMAIN routers' = DOMAIN routers \cup {policy}
          /\ \A p \in DOMAIN routers' : routers'[p] \in 1 .. Len(heap')
          /\ \A p \in DOMAIN routers : routers'[p] = routers[p]
      BY <2>1, GetOrCreate
    <2>3. routers'[policy] \in Nat
      <3>1. Len(heap') \in Nat /\ routers'[policy] \in 1 .. Len(heap')
        BY <2>2, LenProperties
      <3> QED
        BY <3>1
    <2>4. chain \in Seq(Blocks)
      BY Constants
    <2> DEFINE c == NewCall(policy, chain, routers'[policy])
    <2>5. /\ c \in Local /\ c.pc = IF policy = "round_robin" THEN "ticket" ELSE "scan"
          /\ c.policy = policy /\ c.left = Workers /\ c.router = routers'[policy]
          /\ c.best = None
      BY <2>1, <2>3, <2>4, NewCallFacts
    <2> HIDE DEF c
    <2>6. call' \in [Threads -> Local] /\ call'[t] = c
      BY <2>1, <2>5, MovesFacts DEF c
    <2>7. TypeOK'
      BY <2>1, <2>2, <2>6 DEF TypeOK, indexVars, Policy
    <2>8. RoutersStay
      BY <2>2 DEF RoutersStay
    <2>9. Phase(t)'
      BY <2>2, <2>5, <2>6, Constants DEF Phase, Policy
    <2> QED
      BY <2>1, <2>5, <2>7, <2>8, <2>9, PhaseMoves DEF c
  <1>2. CASE Ticket(t)
    <2> DEFINE i == call[t].router
               q == [call[t] EXCEPT !.pc = "record",
                       !.best = [id |-> heap[i].next_worker % NumWorkers, score |-> 0]]
               r == [heap[i] EXCEPT !.next_worker = @ + 1]
    <2>1. /\ call[t].pc = "ticket" /\ Moves(t, q)
          /\ heap' = [heap EXCEPT ![i].next_worker = @ + 1]
          /\ UNCHANGED <<weights, calls, routers, dispatched, indexVars>>
      BY <1>2, TicketIs
    <2>2. /\ call[t].policy \in DOMAIN routers /\ i = routers[call[t].policy]
          /\ i \in 1 .. Len(heap) /\ heap[i] \in CoreRouter
      BY <2>1, HeapFacts
    <2>3. /\ q \in Local /\ q.pc = "record" /\ q.best \in Candidate
          /\ q.policy = call[t].policy /\ q.router = i
      <3>1. heap[i].next_worker \in Nat
        BY <2>2 DEF CoreRouter
      <3> QED
        BY <1>0, <3>1, TicketFacts
    <2>4. r \in CoreRouter /\ heap' = [heap EXCEPT ![i] = r]
      BY <2>1, <2>2 DEF CoreRouter
    <2> HIDE DEF q, r, i
    <2>5. heap' \in Seq(CoreRouter) /\ Len(heap') = Len(heap)
      BY <2>2, <2>4, HeapUpdate
    <2>6. call' \in [Threads -> Local] /\ call'[t] = q
      BY <2>1, <2>3, MovesFacts
    <2>7. TypeOK'
      BY <2>1, <2>5, <2>6 DEF TypeOK, indexVars
    <2>8. RoutersStay /\ Phase(t)'
      BY <2>1, <2>2, <2>3, <2>6 DEF RoutersStay, Phase
    <2> QED
      BY <2>1, <2>3, <2>7, <2>8, PhaseMoves
  <1>3. CASE Scan(t)
    <2>1. call[t].pc = "scan"
      BY <1>3 DEF Scan, Continue
    <2>2. /\ call[t].policy \in DOMAIN routers
          /\ call[t].router = routers[call[t].policy]
          /\ call[t].left # {} /\ call[t].best \in {None} \cup Candidate
          /\ call[t].policy = "cache_aware"
      BY <2>1 DEF PhaseInv, Phase
    <2>3. UNCHANGED <<weights, calls, routerVars, indexVars>>
      BY <1>3, <2>2, ScanIs
    <2>4. PICK m, q : m \in Nat /\ Moves(t, q) /\ ScanTo(call[t], q, m, score_worker(m))
      BY <1>3, <2>2, ScanIs
    <2>5. /\ q \in Local /\ q.pc = IF q.left = {} THEN "record" ELSE "scan"
          /\ q.best \in Candidate /\ q.policy = call[t].policy /\ q.router = call[t].router
      BY <2>4 DEF ScanTo
    <2>6. call' \in [Threads -> Local] /\ call'[t] = q
      BY <2>4, <2>5, MovesFacts
    <2>7. TypeOK'
      BY <2>3, <2>6 DEF TypeOK, routerVars, indexVars
    <2>8. RoutersStay /\ Phase(t)'
      BY <2>2, <2>3, <2>5, <2>6 DEF RoutersStay, Phase, routerVars
    <2> QED
      BY <2>4, <2>5, <2>7, <2>8, PhaseMoves
  <1>4. CASE Record(t)
    <2> DEFINE i == call[t].router
               w == call[t].best.id
               r == [heap[i] EXCEPT !.credit[w] = @ \cup Hold(call[t].chain)]
    <2>1. /\ call[t].pc = "record" /\ Moves(t, Idle)
          /\ heap' = [heap EXCEPT ![i].credit[w] = @ \cup Hold(call[t].chain)]
          /\ dispatched' = dispatched \cup {[policy |-> call[t].policy, chain |-> call[t].chain,
                                             worker |-> w]}
          /\ UNCHANGED <<weights, calls, routers, indexVars>>
      BY <1>4 DEF Record, Continue, Step, Moves
    <2>2. /\ call[t].policy \in DOMAIN routers /\ i = routers[call[t].policy]
          /\ i \in 1 .. Len(heap) /\ heap[i] \in CoreRouter
      BY <2>1, HeapFacts
    <2>3. w \in Workers
      BY <2>1 DEF PhaseInv, Phase, Candidate
    <2>4. Hold(call[t].chain) \subseteq Blocks /\ call[t].chain \in Seq(Blocks)
      BY <1>0, ChainFacts DEF Local
    <2>5. r \in CoreRouter
      BY <2>2, <2>3, <2>4 DEF CoreRouter
    <2>6. heap' = [heap EXCEPT ![i] = r]
      BY <2>1, <2>2 DEF CoreRouter
    <2>7. [policy |-> call[t].policy, chain |-> call[t].chain, worker |-> w] \in Dispatch
      BY <2>2, <2>3, <2>4 DEF Dispatch, TypeOK
    <2> HIDE DEF r, i, w
    <2>8. heap' \in Seq(CoreRouter) /\ Len(heap') = Len(heap)
      BY <2>2, <2>5, <2>6, HeapUpdate
    <2>9. Idle \in Local /\ Idle.pc = "idle"
      BY IdleFacts
    <2>10. call' \in [Threads -> Local] /\ call'[t] = Idle
      BY <2>1, <2>9, MovesFacts
    <2>11. TypeOK'
      BY <2>1, <2>7, <2>8, <2>10 DEF TypeOK, indexVars
    <2>12. RoutersStay /\ Phase(t)'
      BY <2>1, <2>9, <2>10 DEF RoutersStay, Phase
    <2> QED
      BY <2>1, <2>9, <2>11, <2>12, PhaseMoves
  <1> QED
    BY <1>1, <1>2, <1>3, <1>4 DEF RouterSteps

LEMMA InsertIs ==
    ASSUME NEW t \in Threads, Insert(t)
    PROVE  /\ \E w \in Workers, chain \in Seq(Blocks) : Moves(t, NewInsert(w, chain))
           /\ calls' = calls + 1 /\ UNCHANGED <<weights, routerVars, indexVars>>
  <1>1. Prompts \cup {<<>>} \subseteq Seq(Blocks)
    BY Constants, EmptySeq
  <1>2. \E w \in Workers, chain \in Prompts \cup {<<>>} : Moves(t, NewInsert(w, chain))
    BY DEF Insert, Step, Moves, NewInsert
  <1>3. calls' = calls + 1 /\ UNCHANGED <<weights, routerVars, indexVars>>
    BY DEF Insert, Begin
  <1>4. \E w \in Workers, chain \in Seq(Blocks) : Moves(t, NewInsert(w, chain))
    BY <1>1, <1>2, Zenon
  <1> QED
    BY <1>3, <1>4

LEMMA LookupIs ==
    ASSUME NEW t \in Threads, Lookup(t)
    PROVE  /\ \E chain \in Seq(Blocks) : Moves(t, NewLookup(chain, listed, kept))
           /\ calls' = calls + 1 /\ UNCHANGED <<weights, routerVars, indexVars>>
  <1>1. Prompts \cup {<<>>} \subseteq Seq(Blocks)
    BY Constants, EmptySeq
  <1>2. \E chain \in Prompts \cup {<<>>} : Moves(t, NewLookup(chain, listed, kept))
    BY DEF Lookup, Step, Moves, NewLookup
  <1>3. calls' = calls + 1 /\ UNCHANGED <<weights, routerVars, indexVars>>
    BY DEF Lookup, Begin
  <1>4. \E chain \in Seq(Blocks) : Moves(t, NewLookup(chain, listed, kept))
    BY <1>1, <1>2, Zenon
  <1> QED
    BY <1>3, <1>4

LEMMA InsertRecordIs ==
    ASSUME TypeOK, PhaseInv, NEW t \in Threads, InsertRecord(t)
    PROVE  /\ call[t].pc = "insert" /\ call[t].best \in Workers
           /\ credit' = [credit EXCEPT ![call[t].best] = @ \cup Hold(call[t].chain)]
           /\ credit' \in [Workers -> SUBSET Blocks]
           /\ UNCHANGED <<weights, calls, routerVars, listed, kept>>
           /\ \E q \in Local :
                /\ Moves(t, q) /\ q.pc = "list" /\ q.best = call[t].best
                /\ q.due = call[t].due
  <1> DEFINE q == [call[t] EXCEPT !.pc = "list"]
  <1>1. /\ call[t].pc = "insert" /\ Moves(t, q)
        /\ credit' = [credit EXCEPT ![call[t].best] = @ \cup Hold(call[t].chain)]
        /\ UNCHANGED <<weights, calls, routerVars, listed, kept>>
    BY DEF InsertRecord, Continue, Step, Moves
  <1>2. call[t].best \in Workers /\ call[t] \in Local
    BY <1>1 DEF PhaseInv, Phase, TypeOK
  <1>3. q \in Local /\ q.pc = "list" /\ q.best = call[t].best /\ q.due = call[t].due
    BY <1>2 DEF Local
  <1>4. Hold(call[t].chain) \subseteq Blocks
    BY <1>2, ChainFacts DEF Local
  <1>5. credit' \in [Workers -> SUBSET Blocks]
    BY <1>1, <1>2, <1>4 DEF TypeOK
  <1> QED
    BY <1>1, <1>2, <1>3, <1>5

LEMMA InsertWorkerIs ==
    ASSUME TypeOK, PhaseInv, NEW t \in Threads, InsertWorker(t)
    PROVE  /\ call[t].pc = "list" /\ call[t].best \in Workers
           /\ call[t].due \subseteq Owed
           /\ listed' = listed \cup {call[t].best}
           /\ kept' = kept \cup call[t].due
           /\ Moves(t, Idle)
           /\ UNCHANGED <<weights, calls, routerVars, credit>>
  BY DEF InsertWorker, Continue, Step, Moves, PhaseInv, Phase, TypeOK, Local

\* What an eviction does to a call.
EvictedTo(c, q, gone) ==
    /\ q \in Local
    /\ q.pc = c.pc /\ q.policy = c.policy /\ q.chain = c.chain /\ q.router = c.router
    /\ q.left = c.left /\ q.read = c.read /\ q.best = c.best
    /\ q.due = IF c.pc = "insert" THEN c.due ELSE StillOwed(c.due, gone)

LEMMA EvictIs ==
    ASSUME TypeOK, NEW t \in Threads, EvictStale(t)
    PROVE  /\ calls' = calls + 1 /\ UNCHANGED <<weights, routerVars, listed>>
           /\ \E gone :
                /\ credit' = [w \in Workers |-> credit[w] \ gone]
                /\ kept' = StillOwed(kept, gone)
                /\ call' \in [Threads -> Local]
                /\ \A x \in Threads : EvictedTo(call[x], call'[x], gone)
  <1>1. PICK gone :
           /\ credit' = [w \in Workers |-> credit[w] \ gone]
           /\ kept' = StillOwed(kept, gone)
           /\ call' = [x \in Threads |-> IF call[x].pc = "insert" THEN call[x]
                                         ELSE [call[x] EXCEPT !.due = StillOwed(@, gone)]]
    <2>1. PICK gone \in SUBSET UNION {credit[w] : w \in Workers} :
             LET Left(S) == {[k EXCEPT !.chain =
                                SubSeq(@, 1, longest_match(Blocks \ gone, @))] : k \in S}
             IN /\ credit' = [w \in Workers |-> credit[w] \ gone]
                /\ kept' = Left(kept)
                /\ call' = [x \in Threads |-> IF call[x].pc = "insert" THEN call[x]
                                              ELSE [call[x] EXCEPT !.due = Left(@)]]
      BY Zenon DEF EvictStale
    <2>2. /\ credit' = [w \in Workers |-> credit[w] \ gone]
          /\ kept' = StillOwed(kept, gone)
          /\ call' = [x \in Threads |-> IF call[x].pc = "insert" THEN call[x]
                                        ELSE [call[x] EXCEPT !.due = StillOwed(@, gone)]]
      BY <2>1, Zenon DEF StillOwed, Shortened
    <2> QED
      BY <2>2
  <1>2. ASSUME NEW x \in Threads PROVE EvictedTo(call[x], call'[x], gone)
    <2>1. call[x] \in Local
      BY DEF TypeOK
    <2>2. CASE call[x].pc = "insert"
      BY <1>1, <2>1, <2>2 DEF EvictedTo
    <2>3. CASE call[x].pc # "insert"
      <3> DEFINE q == [call[x] EXCEPT !.due = StillOwed(@, gone)]
      <3>1. /\ q \in Local /\ q.due = StillOwed(call[x].due, gone)
            /\ q.pc = call[x].pc /\ q.policy = call[x].policy /\ q.chain = call[x].chain
            /\ q.router = call[x].router /\ q.left = call[x].left /\ q.read = call[x].read
            /\ q.best = call[x].best
        BY <2>1, EvictLocal
      <3>2. call'[x] = q
        BY <1>1, <2>3
      <3> HIDE DEF q
      <3> QED
        BY <2>3, <3>1, <3>2 DEF EvictedTo
    <2> QED
      BY <2>2, <2>3
  <1>3. call' \in [Threads -> Local]
    BY <1>1, <1>2 DEF EvictedTo
  <1> QED
    BY <1>1, <1>2, <1>3 DEF EvictStale, Begin

LEMMA IndexTypes ==
    ASSUME TypeOK, PhaseInv, NEW t \in Threads, IndexSteps(t)
    PROVE  TypeOK' /\ PhaseInv'
  <1>1. CASE Insert(t)
    <2>1. PICK w \in Workers, chain \in Seq(Blocks) : Moves(t, NewInsert(w, chain))
      BY <1>1, InsertIs
    <2>2. PICK q \in Local : q = NewInsert(w, chain) /\ q.pc = "insert" /\ q.best = w
      BY NewInsertFacts
    <2>3. call' \in [Threads -> Local] /\ call'[t] = q /\ Moves(t, q)
      BY <2>1, <2>2, MovesFacts
    <2>4. calls' = calls + 1 /\ UNCHANGED <<weights, routerVars, indexVars>>
      BY <1>1, InsertIs
    <2>5. TypeOK'
      BY <2>3, <2>4 DEF TypeOK, routerVars, indexVars
    <2>6. RoutersStay /\ Phase(t)'
      BY <2>2, <2>3, <2>4 DEF RoutersStay, Phase, routerVars
    <2> QED
      BY <2>3, <2>5, <2>6, PhaseMoves
  <1>2. CASE InsertRecord(t)
    <2>1. PICK q \in Local : Moves(t, q) /\ q.pc = "list" /\ q.best = call[t].best
      BY <1>2, InsertRecordIs
    <2>2. /\ call[t].best \in Workers /\ credit' \in [Workers -> SUBSET Blocks]
          /\ UNCHANGED <<weights, calls, routerVars, listed, kept>>
      BY <1>2, InsertRecordIs
    <2>3. call' \in [Threads -> Local] /\ call'[t] = q
      BY <2>1, MovesFacts
    <2>4. TypeOK'
      BY <2>2, <2>3 DEF TypeOK, routerVars
    <2>5. RoutersStay /\ Phase(t)'
      BY <2>1, <2>2, <2>3 DEF RoutersStay, Phase, routerVars
    <2> QED
      BY <2>1, <2>4, <2>5, PhaseMoves
  <1>3. CASE InsertWorker(t)
    <2>1. /\ call[t].best \in Workers /\ call[t].due \subseteq Owed
          /\ listed' = listed \cup {call[t].best} /\ kept' = kept \cup call[t].due
          /\ Moves(t, Idle) /\ UNCHANGED <<weights, calls, routerVars, credit>>
      BY <1>3, InsertWorkerIs
    <2>2. Idle \in Local /\ Idle.pc = "idle" /\ call' \in [Threads -> Local] /\ call'[t] = Idle
      BY <2>1, IdleFacts, MovesFacts
    <2>3. TypeOK'
      BY <2>1, <2>2 DEF TypeOK, routerVars
    <2>4. RoutersStay /\ Phase(t)'
      BY <2>1, <2>2 DEF RoutersStay, Phase, routerVars
    <2> QED
      BY <2>1, <2>2, <2>3, <2>4, PhaseMoves
  <1>4. CASE Lookup(t)
    <2>1. PICK chain \in Seq(Blocks) : Moves(t, NewLookup(chain, listed, kept))
      BY <1>4, LookupIs
    <2>2. listed \subseteq Workers /\ kept \subseteq Owed
      BY DEF TypeOK
    <2>3. PICK q \in Local : /\ q = NewLookup(chain, listed, kept)
                             /\ q.pc = IF listed = {} THEN "answer" ELSE "match"
                             /\ q.left = listed
      BY <2>2, NewLookupFacts
    <2>4. call' \in [Threads -> Local] /\ call'[t] = q /\ Moves(t, q)
      BY <2>1, <2>3, MovesFacts
    <2>5. calls' = calls + 1 /\ UNCHANGED <<weights, routerVars, indexVars>>
      BY <1>4, LookupIs
    <2>6. TypeOK'
      BY <2>4, <2>5 DEF TypeOK, routerVars, indexVars
    <2>7. RoutersStay /\ Phase(t)'
      BY <2>3, <2>4, <2>5 DEF RoutersStay, Phase, routerVars
    <2> QED
      BY <2>4, <2>6, <2>7, PhaseMoves
  <1>5. CASE LookupMatch(t)
    <2>1. call[t].left # {}
      BY <1>5 DEF LookupMatch, Continue, PhaseInv, Phase
    <2>2. PICK n, q : n \in Nat /\ Moves(t, q) /\ MatchTo(call[t], q, n)
      BY <1>5, <2>1, MatchIs
    <2>3. UNCHANGED <<weights, calls, routerVars, indexVars>>
      BY <1>5, <2>1, MatchIs
    <2>4. q \in Local /\ q.pc = IF q.left = {} THEN "answer" ELSE "match"
      BY <2>2 DEF MatchTo
    <2>5. call' \in [Threads -> Local] /\ call'[t] = q
      BY <2>2, <2>4, MovesFacts
    <2>6. TypeOK'
      BY <2>3, <2>5 DEF TypeOK, routerVars, indexVars
    <2>7. RoutersStay /\ Phase(t)'
      BY <2>3, <2>4, <2>5 DEF RoutersStay, Phase, routerVars
    <2> QED
      BY <2>2, <2>4, <2>6, <2>7, PhaseMoves
  <1>6. CASE LookupAnswer(t)
    <2>1. Moves(t, Idle) /\ UNCHANGED <<weights, calls, routerVars, indexVars>>
      BY <1>6 DEF LookupAnswer, Continue, Step, Moves
    <2>2. Idle \in Local /\ Idle.pc = "idle" /\ call' \in [Threads -> Local] /\ call'[t] = Idle
      BY <2>1, IdleFacts, MovesFacts
    <2>3. TypeOK'
      BY <2>1, <2>2 DEF TypeOK, routerVars, indexVars
    <2>4. RoutersStay /\ Phase(t)'
      BY <2>1, <2>2 DEF RoutersStay, Phase, routerVars
    <2> QED
      BY <2>1, <2>2, <2>3, <2>4, PhaseMoves
  <1>7. CASE EvictStale(t)
    <2>1. PICK gone :
             /\ credit' = [w \in Workers |-> credit[w] \ gone]
             /\ kept' = StillOwed(kept, gone)
             /\ call' \in [Threads -> Local]
             /\ \A x \in Threads : EvictedTo(call[x], call'[x], gone)
      BY <1>7, EvictIs
    <2>2. calls' = calls + 1 /\ UNCHANGED <<weights, routerVars, listed>>
      BY <1>7, EvictIs
    <2>3. kept' \subseteq Owed
      BY <2>1, StillOwedFacts DEF TypeOK
    <2>4. credit' \in [Workers -> SUBSET Blocks]
      BY <2>1 DEF TypeOK
    <2>5. TypeOK'
      BY <2>1, <2>2, <2>3, <2>4 DEF TypeOK, routerVars
    <2>6. ASSUME NEW x \in Threads PROVE Phase(x)'
      <3>1. Phase(x) /\ EvictedTo(call[x], call'[x], gone) /\ UNCHANGED routers
        BY <2>1, <2>2 DEF PhaseInv, routerVars
      <3> QED
        BY <3>1 DEF Phase, EvictedTo
    <2> QED
      BY <2>5, <2>6 DEF PhaseInv
  <1> QED
    BY <1>1, <1>2, <1>3, <1>4, <1>5, <1>6, <1>7 DEF IndexSteps

LEMMA TypesAlways == Spec => [](TypeOK /\ PhaseInv)
  <1>1. Init => TypeOK /\ PhaseInv
    <2> SUFFICES ASSUME Init PROVE TypeOK /\ PhaseInv
      OBVIOUS
    <2>1. <<>> \in Seq(CoreRouter) /\ DOMAIN <<>> = {}
      OBVIOUS
    <2>2. Idle \in Local /\ Idle.pc = "idle"
      BY IdleFacts
    <2>3. PhaseInv
      BY <2>2 DEF Init, PhaseInv, Phase
    <2>4. heap \in Seq(CoreRouter) /\ DOMAIN routers = {}
      BY <2>1 DEF Init
    <2>5. TypeOK
      BY <2>2, <2>4, Constants DEF Init, TypeOK, Nothing
    <2> QED
      BY <2>3, <2>5
  <1>2. TypeOK /\ PhaseInv /\ [Next]_vars => (TypeOK /\ PhaseInv)'
    <2> SUFFICES ASSUME TypeOK, PhaseInv, [Next]_vars PROVE TypeOK' /\ PhaseInv'
      OBVIOUS
    <2>1. CASE UNCHANGED vars
      BY <2>1 DEF vars, routerVars, indexVars, TypeOK, PhaseInv, Phase
    <2> QED
      BY <2>1, RouterTypes, IndexTypes DEF Next
  <1> QED
    BY <1>1, <1>2, PTL DEF Spec

(***************************************************************************)
(* Exact beliefs                                                           *)
(***************************************************************************)
\* The three parts of BeliefInv.
OneRouterEach == \A p, q \in DOMAIN routers : routers[p] = routers[q] => p = q
CreditsExact ==
    \A p \in DOMAIN routers, w \in Workers : heap[routers[p]].credit[w] = Dispatched(p, w)
PoliciesKnown == \A d \in dispatched : d.policy \in DOMAIN routers

LEMMA BeliefStep == TypeOK /\ PhaseInv /\ BeliefInv /\ [Next]_vars => BeliefInv'
  <1> SUFFICES ASSUME TypeOK, PhaseInv, BeliefInv, [Next]_vars PROVE BeliefInv'
    OBVIOUS
  <1>0. OneRouterEach /\ CreditsExact /\ PoliciesKnown
    BY DEF BeliefInv, OneRouterEach, CreditsExact, PoliciesKnown
  <1>1. ASSUME UNCHANGED routerVars PROVE BeliefInv'
    BY <1>1 DEF BeliefInv, routerVars, Dispatched
  <1>2. ASSUME NEW t \in Threads, decide(t) PROVE BeliefInv'
    <2>1. PICK policy \in Policy : get_or_create(policy)
      BY <1>2, DecideIs
    <2>2. UNCHANGED dispatched
      BY <1>2 DEF decide
    <2>3. CASE policy \in DOMAIN routers
      BY <1>1, <2>1, <2>2, <2>3 DEF get_or_create, routerVars
    <2>4. CASE policy \notin DOMAIN routers
      <3>1. /\ DOMAIN routers' = DOMAIN routers \cup {policy}
            /\ \A p \in DOMAIN routers : routers'[p] = routers[p]
            /\ \A i \in 1 .. Len(heap) : heap'[i] = heap[i]
            /\ routers'[policy] = Len(heap) + 1 /\ heap'[Len(heap) + 1] = NewRouter
        BY <2>1, <2>4, GetOrCreate
      <3>2. /\ Len(heap) \in Nat
            /\ \A p \in DOMAIN routers : routers[p] \in 1 .. Len(heap)
        BY LenProperties DEF TypeOK
      <3>3. OneRouterEach'
        <4>1. \A p \in DOMAIN routers : routers'[p] # routers'[policy]
          BY <3>1, <3>2
        <4> QED
          BY <1>0, <3>1, <4>1 DEF OneRouterEach
      <3>4. \A p, w : Dispatched(p, w)' = Dispatched(p, w)
        BY <2>2 DEF Dispatched
      <3>5. \A w \in Workers : Dispatched(policy, w) = {} /\ NewRouter.credit[w] = {}
        BY <1>0, <2>4 DEF PoliciesKnown, Dispatched, NewRouter, Nothing
      <3>6. CreditsExact'
        <4>1. ASSUME NEW p \in DOMAIN routers, NEW w \in Workers
              PROVE  heap'[routers'[p]].credit[w] = Dispatched(p, w)'
          BY <1>0, <3>1, <3>2, <3>4 DEF CreditsExact
        <4>2. ASSUME NEW w \in Workers
              PROVE  heap'[routers'[policy]].credit[w] = Dispatched(policy, w)'
          BY <3>1, <3>4, <3>5
        <4> QED
          BY <3>1, <4>1, <4>2 DEF CreditsExact
      <3>7. PoliciesKnown'
        BY <1>0, <2>2, <3>1 DEF PoliciesKnown
      <3> QED
        BY <3>3, <3>6, <3>7 DEF BeliefInv, OneRouterEach, CreditsExact, PoliciesKnown
    <2> QED
      BY <2>3, <2>4
  \* a step that replaces the router of a call
  <1>3. ASSUME NEW t \in Threads, Ticket(t) PROVE BeliefInv'
    <2> DEFINE i == call[t].router
               r == [heap[i] EXCEPT !.next_worker = @ + 1]
    <2>1. /\ call[t].pc = "ticket" /\ heap' = [heap EXCEPT ![i].next_worker = @ + 1]
          /\ UNCHANGED <<routers, dispatched>>
      BY <1>3, TicketIs
    <2>2. i \in 1 .. Len(heap) /\ heap[i] \in CoreRouter
      BY <2>1, HeapFacts
    <2>3. r \in CoreRouter /\ heap' = [heap EXCEPT ![i] = r] /\ r.credit = heap[i].credit
      BY <2>1, <2>2 DEF CoreRouter
    <2> HIDE DEF r, i
    <2>4. \A j \in 1 .. Len(heap) : heap'[j].credit = heap[j].credit
      BY <2>2, <2>3, HeapUpdate
    <2>5. CreditsExact'
      BY <1>0, <2>1, <2>4 DEF CreditsExact, Dispatched, TypeOK
    <2> QED
      BY <1>0, <2>1, <2>5 DEF BeliefInv, OneRouterEach, CreditsExact, PoliciesKnown
  <1>4. ASSUME NEW t \in Threads, Record(t) PROVE BeliefInv'
    <2> DEFINE i == call[t].router
               v == call[t].best.id
               p == call[t].policy
               h == Hold(call[t].chain)
               r == [heap[i] EXCEPT !.credit[v] = @ \cup h]
               d == [policy |-> p, chain |-> call[t].chain, worker |-> v]
    <2>1. /\ call[t].pc = "record" /\ heap' = [heap EXCEPT ![i].credit[v] = @ \cup h]
          /\ dispatched' = dispatched \cup {d} /\ UNCHANGED routers
      BY <1>4 DEF Record, Continue
    <2>2. /\ p \in DOMAIN routers /\ i = routers[p]
          /\ i \in 1 .. Len(heap) /\ heap[i] \in CoreRouter
      BY <2>1, HeapFacts
    <2>3. v \in Workers /\ h \subseteq Blocks
      <3>1. call[t].chain \in Seq(Blocks)
        BY DEF TypeOK, Local
      <3> QED
        BY <2>1, <3>1, ChainFacts DEF PhaseInv, Phase, Candidate
    <2>4. d.policy = p /\ d.worker = v /\ Hold(d.chain) = h
      OBVIOUS
    <2> HIDE DEF h, i, v, p, d
    <2>5. /\ r \in CoreRouter
          /\ \A w \in Workers : r.credit[w] = IF w = v THEN heap[i].credit[w] \cup h
                                              ELSE heap[i].credit[w]
      BY <2>2, <2>3 DEF CoreRouter
    <2>6. heap' = [heap EXCEPT ![i] = r]
      BY <2>1, <2>2 DEF CoreRouter
    <2> HIDE DEF r
    <2>7. heap'[i] = r /\ \A j \in 1 .. Len(heap) : j # i => heap'[j] = heap[j]
      BY <2>2, <2>5, <2>6, HeapUpdate
    <2>8. ASSUME NEW x, NEW w
          PROVE  Dispatched(x, w)' = IF x = p /\ w = v THEN Dispatched(x, w) \cup h
                                     ELSE Dispatched(x, w)
      <3>1. {y \in dispatched' : y.policy = x /\ y.worker = w}
              = {y \in dispatched : y.policy = x /\ y.worker = w}
                  \cup (IF x = p /\ w = v THEN {d} ELSE {})
        BY <2>1, <2>4
      <3>2. CASE x = p /\ w = v
        BY <2>4, <3>1, <3>2 DEF Dispatched
      <3>3. CASE ~(x = p /\ w = v)
        BY <3>1, <3>3 DEF Dispatched
      <3> QED
        BY <3>2, <3>3
    <2>9. CreditsExact'
      <3> SUFFICES ASSUME NEW x \in DOMAIN routers, NEW w \in Workers
                   PROVE  heap'[routers[x]].credit[w] = Dispatched(x, w)'
        BY <2>1 DEF CreditsExact
      <3>1. heap[routers[x]].credit[w] = Dispatched(x, w) /\ routers[x] \in 1 .. Len(heap)
        BY <1>0 DEF CreditsExact, TypeOK
      <3>2. CASE x = p
        BY <2>2, <2>5, <2>7, <2>8, <3>1, <3>2
      <3>3. CASE x # p
        <4>1. routers[x] # i
          BY <1>0, <2>2, <3>3 DEF OneRouterEach
        <4> QED
          BY <2>7, <2>8, <3>1, <3>3, <4>1
      <3> QED
        BY <3>2, <3>3
    <2>10. OneRouterEach' /\ PoliciesKnown'
      BY <1>0, <2>1, <2>2, <2>4 DEF OneRouterEach, PoliciesKnown
    <2> QED
      BY <2>9, <2>10 DEF BeliefInv, OneRouterEach, CreditsExact, PoliciesKnown
  <1>5. ASSUME NEW t \in Threads, Scan(t) \/ IndexSteps(t) PROVE BeliefInv'
    BY <1>1, <1>5 DEF Scan, IndexSteps, Insert, InsertRecord, InsertWorker, Lookup,
       LookupMatch, LookupAnswer, EvictStale
  <1>6. CASE UNCHANGED vars
    BY <1>1, <1>6 DEF vars
  <1> QED
    BY <1>2, <1>3, <1>4, <1>5, <1>6 DEF Next, RouterSteps

\* Threads that race for a policy's first call share its router: for any number of
\* them, no record is lost and no policy learns from another.
THEOREM BeliefsAreExact == Spec => []BeliefExact
  <1>1. Init => BeliefInv
    BY DEF Init, BeliefInv
  <1>2. TypeOK /\ PhaseInv /\ BeliefInv /\ [Next]_vars => BeliefInv'
    BY BeliefStep
  <1>3. BeliefInv => BeliefExact
    BY DEF BeliefInv, BeliefExact, Dispatched
  <1> QED
    BY <1>1, <1>2, <1>3, TypesAlways, PTL DEF Spec

(***************************************************************************)
(* Sound choices                                                           *)
(***************************************************************************)
Finite == {Inf, NaN} \cap {weights.cache, weights.load} = {}

LEMMA FiniteScore ==
    ASSUME TypeOK, Finite, NEW m \in Nat
    PROVE  /\ score_worker(m) = weights.cache * m
           /\ weights.cache * m \in Int
  <1>1. weights.cache \in Int /\ weights.load \in Int
    BY DEF TypeOK, Finite, Number
  <1>2. Times(0, weights.load) = 0 /\ Times(m, weights.cache) = m * weights.cache
    BY <1>1, Constants DEF Times
  <1>3. m * weights.cache = weights.cache * m /\ weights.cache * m \in Int
    BY <1>1
  <1> QED
    BY <1>2, <1>3, Constants DEF score_worker

\* An infinite or NaN weight leaves no two scores that compare.
LEMMA NothingCompares ==
    ASSUME TypeOK, ~Finite, NEW m \in Nat, NEW n \in Nat
    PROVE  ~Higher(score_worker(m), score_worker(n))
  <1>1. weights.cache \in Number /\ weights.load \in Number
    BY DEF TypeOK
  <1>2. CASE weights.load \in {Inf, NaN}
    BY <1>2 DEF score_worker, Times, Higher
  <1>3. CASE weights.load \notin {Inf, NaN}
    <2>1. weights.cache \in {Inf, NaN}
      BY <1>3 DEF Finite
    <2>2. score_worker(m) \in {Inf, NaN} /\ score_worker(n) \in {Inf, NaN}
      BY <2>1 DEF score_worker, Times
    <2> QED
      BY <2>2 DEF Higher
  <1> QED
    BY <1>2, <1>3

\* The comparison of the best so far, which has a lower id, with a new candidate.
LEMMA Comparison ==
    ASSUME TypeOK, NEW m \in Nat, NEW n \in Nat, NEW best \in Candidate, NEW this \in Candidate,
           best.score = score_worker(m), this.score = score_worker(n), best.id < this.id
    PROVE  /\ ~Finite => cmp(best, this)
           /\ Finite => (cmp(best, this) <=> weights.cache * n <= weights.cache * m)
  <1>1. CASE Finite
    <2> DEFINE a == weights.cache * m
               b == weights.cache * n
    <2>1. best.score = a /\ this.score = b /\ a \in Int /\ b \in Int
      BY <1>1, FiniteScore
    <2> HIDE DEF a, b
    <2>2. (Higher(a, b) <=> a > b) /\ (Higher(b, a) <=> b > a)
      BY <2>1, Constants DEF Higher
    <2>3. cmp(best, this) <=> b <= a
      BY <2>1, <2>2 DEF cmp
    <2> QED
      BY <1>1, <2>3 DEF a, b
  <1>2. CASE ~Finite
    BY <1>2, NothingCompares DEF cmp
  <1> QED
    BY <1>1, <1>2

LEMMA ScanOnce ==
    ASSUME TypeOK, NEW c \in Local, c.policy = "cache_aware", c.pc = "scan", c.left # {},
           ScannedIn(c), NEW m \in Nat, NEW q, ScanTo(c, q, m, score_worker(m))
    PROVE  ScannedIn(q)
  <1> DEFINE r == c.read
             k == Len(r)
             s == Append(r, m)
             this == [id |-> k, score |-> score_worker(m)]
  <1>1. /\ r \in Seq(Nat \cup (Workers \X Nat)) /\ k \in Nat
    BY LenProperties DEF Local
  <1>2. /\ c.left = k .. NumWorkers - 1
        /\ \A i \in 1 .. k : r[i] \in Nat
        /\ k = 0 => c.best = None
        /\ k > 0 => /\ c.best \in Candidate /\ c.best.id < k
                    /\ c.best.score = score_worker(r[c.best.id + 1])
                    /\ \A w \in 0 .. k - 1 :
                         \/ Match(r, w) < Match(r, c.best.id)
                         \/ Match(r, w) = Match(r, c.best.id) /\ c.best.id <= w
    BY DEF ScannedIn
  <1>3. k < NumWorkers /\ Min(c.left) = k
    <2>1. Min(c.left) \in c.left /\ \A x \in c.left : Min(c.left) <= x
      BY DEF ScanTo
    <2>2. k \in c.left
      BY <1>1, <1>2, <2>1, Constants
    <2> QED
      BY <1>1, <1>2, <2>1, <2>2, Constants
  <1>4. /\ q.policy = c.policy /\ q.left = c.left \ {k} /\ q.read = s
        /\ q.pc = IF q.left = {} THEN "record" ELSE "scan"
        /\ this \in Candidate /\ q.best \in Candidate
        /\ q.best = IF c.best # None /\ cmp(c.best, this) THEN c.best ELSE this
    BY <1>3 DEF ScanTo
  <1>5. /\ Len(s) = k + 1 /\ s[k + 1] = m
        /\ \A i \in 1 .. k : s[i] = r[i]
    <2>1. m \in Nat \cup (Workers \X Nat)
      OBVIOUS
    <2> QED
      BY <1>1, <2>1, AppendProperties
  <1> HIDE DEF r, k, s
  <1>6. q.left = k + 1 .. NumWorkers - 1
    BY <1>1, <1>2, <1>3, <1>4, Constants
  <1>7. q.pc = "record" => k + 1 = NumWorkers
    <2>1. CASE k + 1 < NumWorkers
      <3>1. k + 1 \in q.left
        BY <1>1, <1>6, <2>1, Constants
      <3> QED
        BY <1>4, <3>1
    <2> QED
      BY <1>1, <1>3, <2>1, Constants
  <1>8. \A i \in 1 .. k + 1 : s[i] \in Nat
    <2> SUFFICES ASSUME NEW i \in 1 .. k + 1 PROVE s[i] \in Nat
      OBVIOUS
    <2>1. i \in 1 .. k \/ i = k + 1
      BY <1>1
    <2> QED
      BY <1>2, <1>5, <2>1
  <1>9. \A w \in 0 .. k - 1 : Match(s, w) = Match(r, w)
    <2> SUFFICES ASSUME NEW w \in 0 .. k - 1 PROVE Match(s, w) = Match(r, w)
      OBVIOUS
    <2>1. w + 1 \in 1 .. k
      BY <1>1
    <2> QED
      BY <1>5, <2>1 DEF Match
  <1>10. Match(s, k) = IF Finite THEN weights.cache * m ELSE 0
    BY <1>5 DEF Match, Finite
  <1>11. this.id = k /\ this.score = score_worker(m)
    OBVIOUS
  <1> HIDE DEF this
  <1>12. ASSUME q.best.id < k + 1, q.best.score = score_worker(s[q.best.id + 1]),
                \A w \in 0 .. k :
                  \/ Match(s, w) < Match(s, q.best.id)
                  \/ Match(s, w) = Match(s, q.best.id) /\ q.best.id <= w
         PROVE  ScannedIn(q)
    <2>1. q.read = s /\ Len(q.read) = k + 1 /\ k + 1 # 0 /\ 0 .. k + 1 - 1 = 0 .. k
      BY <1>1, <1>4, <1>5
    <2>2. \A i \in 1 .. Len(q.read) : q.read[i] \in Nat
      BY <1>8, <2>1
    <2>3. q.left = Len(q.read) .. NumWorkers - 1
      BY <1>6, <2>1
    <2>4. q.pc = "record" => Len(q.read) = NumWorkers
      BY <1>7, <2>1
    <2>5. q.best \in Candidate
      BY <1>4
    <2>6. ASSUME NEW w \in 0 .. Len(q.read) - 1
          PROVE  \/ Match(q.read, w) < Match(q.read, q.best.id)
                 \/ Match(q.read, w) = Match(q.read, q.best.id) /\ q.best.id <= w
      <3>1. w \in 0 .. k
        BY <1>1, <2>1
      <3>2. \/ Match(s, w) < Match(s, q.best.id)
            \/ Match(s, w) = Match(s, q.best.id) /\ q.best.id <= w
        BY <1>12, <3>1
      <3> QED
        BY <2>1, <3>2
    <2>7. q.best.id < Len(q.read) /\ q.best.score = score_worker(q.read[q.best.id + 1])
      BY <1>12, <2>1
    <2> QED
      BY <2>1, <2>2, <2>3, <2>4, <2>5, <2>6, <2>7 DEF ScannedIn
  <1>13. CASE k = 0
    <2>1. q.best = this
      BY <1>2, <1>4, <1>13
    <2>2. \A w \in 0 .. 0 : w = 0
      OBVIOUS
    <2>3. /\ q.best \in Candidate /\ q.best.id < k + 1
          /\ q.best.score = score_worker(s[q.best.id + 1])
      BY <1>4, <1>5, <1>11, <1>13, <2>1
    <2>4. \A w \in 0 .. k : Match(s, w) = Match(s, q.best.id) /\ q.best.id <= w
      BY <1>11, <1>13, <2>1, <2>2
    <2> QED
      BY <1>12, <2>3, <2>4
  <1>14. CASE k > 0
    <2> DEFINE b == c.best.id
    <2>1. /\ c.best \in Candidate /\ c.best # None
          /\ b \in Nat /\ b < k /\ b \in 0 .. k - 1 /\ b + 1 \in 1 .. k
          /\ c.best.score = score_worker(r[b + 1]) /\ r[b + 1] \in Nat
      <3>1. c.best \in Candidate /\ b < k /\ c.best.score = score_worker(r[b + 1])
        BY <1>2, <1>14
      <3>2. b \in Nat
        BY <3>1, Constants DEF Candidate
      <3>3. b \in 0 .. k - 1 /\ b + 1 \in 1 .. k
        BY <1>1, <3>1, <3>2
      <3> QED
        BY <1>2, <3>1, <3>2, <3>3, Constants
    <2>2. Match(r, b) = IF Finite THEN weights.cache * r[b + 1] ELSE 0
      BY DEF Match, Finite
    <2>3. /\ ~Finite => cmp(c.best, this)
          /\ Finite => (cmp(c.best, this) <=> weights.cache * m <= weights.cache * r[b + 1])
      BY <1>4, <1>11, <2>1, Comparison
    <2>4. Match(s, k) \in Int /\ \A w \in 0 .. k - 1 : Match(r, w) \in Int
      <3>1. Match(s, k) \in Int
        BY <1>10, FiniteScore
      <3>2. ASSUME NEW w \in 0 .. k - 1 PROVE Match(r, w) \in Int
        <4>1. w + 1 \in 1 .. k
          BY <1>1
        <4>2. r[w + 1] \in Nat
          BY <1>2, <4>1
        <4> QED
          BY <4>2, FiniteScore DEF Match, Finite
      <3> QED
        BY <3>1, <3>2
    <2>5. cmp(c.best, this) <=> Match(s, k) <= Match(r, b)
      BY <1>10, <2>2, <2>3
    <2>6. \A w \in 0 .. k - 1 : \/ Match(r, w) < Match(r, b)
                                \/ Match(r, w) = Match(r, b) /\ b <= w
      BY <1>2, <1>14
    <2>7. /\ q.best.id < k + 1 /\ q.best.score = score_worker(s[q.best.id + 1])
          /\ \A w \in 0 .. k : \/ Match(s, w) < Match(s, q.best.id)
                               \/ Match(s, w) = Match(s, q.best.id) /\ q.best.id <= w
      <3>0. ASSUME NEW w \in 0 .. k PROVE w \in 0 .. k - 1 \/ w = k
        BY <1>1
      <3>1. CASE cmp(c.best, this)
        <4>1. q.best = c.best
          BY <1>4, <2>1, <3>1
        <4>2. q.best.id = b /\ s[b + 1] = r[b + 1] /\ Match(s, b) = Match(r, b)
          BY <1>5, <1>9, <2>1, <4>1
        <4>3. ASSUME NEW w \in 0 .. k
              PROVE  \/ Match(s, w) < Match(s, b)
                     \/ Match(s, w) = Match(s, b) /\ b <= w
          <5>1. CASE w \in 0 .. k - 1
            BY <1>9, <2>6, <4>2, <5>1
          <5>2. CASE w = k
            BY <1>1, <2>1, <2>4, <2>5, <3>1, <4>2, <5>2
          <5> QED
            BY <3>0, <5>1, <5>2
        <4> QED
          BY <1>1, <2>1, <4>1, <4>2, <4>3
      <3>2. CASE ~cmp(c.best, this)
        <4>1. q.best = this
          BY <1>4, <3>2
        <4>2. Match(r, b) < Match(s, k)
          BY <2>1, <2>4, <2>5, <3>2
        <4>3. ASSUME NEW w \in 0 .. k
              PROVE  \/ Match(s, w) < Match(s, k)
                     \/ Match(s, w) = Match(s, k) /\ k <= w
          <5>1. CASE w \in 0 .. k - 1
            BY <1>9, <2>1, <2>4, <2>6, <4>2, <5>1
          <5>2. CASE w = k
            BY <1>1, <5>2
          <5> QED
            BY <3>0, <5>1, <5>2
        <4> QED
          BY <1>1, <1>5, <1>11, <4>1, <4>3
      <3> QED
        BY <3>1, <3>2
    <2> HIDE DEF b
    <2> QED
      BY <1>12, <2>7
  <1> QED
    BY <1>1, <1>13, <1>14

LEMMA ScannedMoves ==
    ASSUME TypeOK, ScanInv, NEW t \in Threads, NEW q \in Local, Moves(t, q),
           UNCHANGED weights, ScannedIn(q)
    PROVE  ScanInv'
  <1> SUFFICES ASSUME NEW x \in Threads PROVE ScannedIn(call[x])'
    BY DEF ScanInv
  <1>1. PICK c : c = call'[x] /\ ScannedIn(c)
    BY MovesFacts DEF ScanInv
  <1> QED
    BY <1>1 DEF ScannedIn, Match, score_worker

LEMMA ScanStep == TypeOK /\ PhaseInv /\ ScanInv /\ [Next]_vars => ScanInv'
  <1> SUFFICES ASSUME TypeOK, PhaseInv, ScanInv, [Next]_vars PROVE ScanInv'
    OBVIOUS
  <1>1. ASSUME NEW t \in Threads, NEW q \in Local, Moves(t, q), UNCHANGED weights,
               q.policy # "cache_aware" \/ q.pc \notin {"scan", "record"}
        PROVE  ScanInv'
    <2>1. ScannedIn(q)
      BY <1>1 DEF ScannedIn
    <2> QED
      BY <1>1, <2>1, ScannedMoves
  <1>2. ASSUME NEW t \in Threads, decide(t) PROVE ScanInv'
    <2>1. PICK chain \in Prompts, policy \in Policy :
             /\ get_or_create(policy) /\ Moves(t, NewCall(policy, chain, routers'[policy]))
             /\ UNCHANGED weights
      BY <1>2, DecideIs
    <2>2. routers'[policy] \in Nat
      <3>1. heap' \in Seq(CoreRouter) /\ routers'[policy] \in 1 .. Len(heap')
        BY <2>1, GetOrCreate
      <3>2. Len(heap') \in Nat
        BY <3>1, LenProperties
      <3> QED
        BY <3>1, <3>2
    <2>3. PICK q \in Local :
             /\ q = NewCall(policy, chain, routers'[policy])
             /\ q.pc = IF policy = "round_robin" THEN "ticket" ELSE "scan"
             /\ q.left = Workers /\ q.read = <<>> /\ q.best = None
      BY <2>2, NewCallFacts, Constants
    <2>4. ScannedIn(q)
      <3>1. Len(q.read) = 0 /\ q.left = 0 .. NumWorkers - 1 /\ q.pc # "record"
        BY <2>3, EmptySeq, Constants DEF Policy
      <3> QED
        BY <2>3, <3>1 DEF ScannedIn
    <2> QED
      BY <2>1, <2>3, <2>4, ScannedMoves
  <1>3. ASSUME NEW t \in Threads, Ticket(t) PROVE ScanInv'
    <2> DEFINE i == call[t].router
               q == [call[t] EXCEPT !.pc = "record",
                       !.best = [id |-> heap[i].next_worker % NumWorkers, score |-> 0]]
    <2>1. call[t].pc = "ticket" /\ Moves(t, q) /\ UNCHANGED weights
      BY <1>3, TicketIs
    <2>2. call[t].policy = "round_robin" /\ heap[i] \in CoreRouter /\ call[t] \in Local
      BY <2>1, HeapFacts DEF PhaseInv, Phase
    <2>3. q \in Local /\ q.policy = "round_robin"
      <3>1. heap[i].next_worker \in Nat
        BY <2>2 DEF CoreRouter
      <3> QED
        BY <2>2, <3>1, TicketFacts
    <2> HIDE DEF q, i
    <2> QED
      BY <1>1, <2>1, <2>3
  <1>4. ASSUME NEW t \in Threads, Scan(t) PROVE ScanInv'
    <2>1. call[t].pc = "scan" /\ call[t] \in Local
      BY <1>4 DEF Scan, Continue, TypeOK
    <2>2. /\ call[t].left # {} /\ call[t].best \in {None} \cup Candidate
          /\ call[t].policy = "cache_aware" /\ ScannedIn(call[t])
      BY <2>1 DEF PhaseInv, Phase, ScanInv
    <2>3. PICK m, q : m \in Nat /\ Moves(t, q) /\ ScanTo(call[t], q, m, score_worker(m))
      BY <1>4, <2>2, ScanIs
    <2>4. UNCHANGED weights
      BY <1>4, <2>2, ScanIs
    <2>5. ScannedIn(q) /\ q \in Local
      BY <2>1, <2>2, <2>3, ScanOnce DEF ScanTo
    <2> QED
      BY <2>3, <2>4, <2>5, ScannedMoves
  <1>5. ASSUME NEW t \in Threads, Record(t) \/ InsertWorker(t) \/ LookupAnswer(t) PROVE ScanInv'
    BY <1>1, <1>5, IdleFacts DEF Record, InsertWorker, LookupAnswer, Continue, Step, Moves
  <1>6. ASSUME NEW t \in Threads, Insert(t) PROVE ScanInv'
    BY <1>1, <1>6, InsertIs, NewInsertFacts
  <1>7. ASSUME NEW t \in Threads, InsertRecord(t) PROVE ScanInv'
    BY <1>1, <1>7, InsertRecordIs
  <1>8. ASSUME NEW t \in Threads, Lookup(t) PROVE ScanInv'
    <2>1. PICK chain \in Seq(Blocks) : Moves(t, NewLookup(chain, listed, kept))
      BY <1>8, LookupIs
    <2>2. NewLookup(chain, listed, kept) \in Local
          /\ NewLookup(chain, listed, kept).pc \in {"answer", "match"}
      BY NewLookupFacts DEF TypeOK
    <2>3. UNCHANGED weights
      BY <1>8, LookupIs
    <2> QED
      BY <1>1, <2>1, <2>2, <2>3
  <1>9. ASSUME NEW t \in Threads, LookupMatch(t) PROVE ScanInv'
    <2>1. call[t].left # {}
      BY <1>9 DEF LookupMatch, Continue, PhaseInv, Phase
    <2>2. PICK n, q : n \in Nat /\ Moves(t, q) /\ MatchTo(call[t], q, n)
      BY <1>9, <2>1, MatchIs
    <2>3. UNCHANGED weights
      BY <1>9, <2>1, MatchIs
    <2>4. q \in Local /\ q.pc \in {"answer", "match"}
      BY <2>2 DEF MatchTo
    <2> QED
      BY <1>1, <2>2, <2>3, <2>4
  <1>10. ASSUME NEW t \in Threads, EvictStale(t) PROVE ScanInv'
    <2>1. UNCHANGED weights /\ \E gone : \A x \in Threads : EvictedTo(call[x], call'[x], gone)
      BY <1>10, EvictIs
    <2> SUFFICES ASSUME NEW x \in Threads PROVE ScannedIn(call[x])'
      BY DEF ScanInv
    <2>2. ScannedIn(call[x]) /\ \E gone : EvictedTo(call[x], call'[x], gone)
      BY <2>1 DEF ScanInv
    <2> QED
      BY <2>1, <2>2 DEF ScannedIn, Match, score_worker, EvictedTo
  <1>11. CASE UNCHANGED vars
    BY <1>11 DEF vars, ScanInv, ScannedIn, Match, score_worker
  <1> QED
    BY <1>2, <1>3, <1>4, <1>5, <1>6, <1>7, <1>8, <1>9, <1>10, <1>11
       DEF Next, RouterSteps, IndexSteps

\* However the threads interleave and whatever f64 values the weights are, a scan ends
\* at the best score of the matches it read, the lowest id first among equals.
THEOREM ChoicesAreSound == Spec => []SoundChoice
  <1>1. Init => ScanInv
    BY IdleFacts DEF Init, ScanInv, ScannedIn
  <1>2. TypeOK /\ PhaseInv /\ ScanInv /\ [Next]_vars => ScanInv'
    BY ScanStep
  <1>3. TypeOK /\ ScanInv => SoundChoice
    <2> SUFFICES ASSUME TypeOK, ScanInv, NEW t \in Threads,
                        call[t].pc = "record", call[t].policy = "cache_aware",
                        NEW w \in Workers
                 PROVE  \/ Match(call[t].read, w) < Match(call[t].read, call[t].best.id)
                        \/ /\ Match(call[t].read, w) = Match(call[t].read, call[t].best.id)
                           /\ call[t].best.id <= w
      BY DEF SoundChoice, Match
    <2>1. ScannedIn(call[t]) /\ Len(call[t].read) = NumWorkers
      BY DEF ScanInv, ScannedIn
    <2>2. w \in 0 .. Len(call[t].read) - 1 /\ Len(call[t].read) > 0
      BY <2>1, Constants
    <2> QED
      BY <2>1, <2>2 DEF ScannedIn
  <1> QED
    BY <1>1, <1>2, <1>3, TypesAlways, PTL DEF Spec

(***************************************************************************)
(* Faithful lookups                                                        *)
(***************************************************************************)
\* A call whose thread does not move, in an index that only grew.
LEMMA OwedGrows ==
    ASSUME NEW c \in Local, NEW cr, NEW large, OwedIn(c, cr),
           \A w \in Workers : cr[w] \subseteq large[w]
    PROVE  OwedIn(c, large)
  <1>1. \A k \in c.due : k.worker \in Workers
    BY DEF Local, Owed
  <1> QED
    BY <1>1 DEF OwedIn

LEMMA OwedMoves ==
    ASSUME TypeOK, OwedInv, NEW t \in Threads, NEW q \in Local, Moves(t, q),
           \A w \in Workers : credit[w] \subseteq credit'[w],
           \A k \in kept' : k.worker \in listed' /\ Hold(k.chain) \subseteq credit'[k.worker],
           OwedIn(q, credit')
    PROVE  OwedInv'
  <1>1. ASSUME NEW x \in Threads PROVE OwedIn(call'[x], credit')
    <2>1. CASE x = t
      BY <2>1, MovesFacts
    <2>2. CASE x # t
      <3>1. call'[x] = call[x] /\ call[x] \in Local /\ OwedIn(call[x], credit)
        BY <2>2, MovesFacts DEF TypeOK, OwedInv
      <3> QED
        BY <3>1, OwedGrows
    <2> QED
      BY <2>1, <2>2
  <1> QED
    BY <1>1 DEF OwedInv

\* The match read of a worker answers what that worker was owed, and what was
\* answered stays answered.
LEMMA MatchOnce ==
    ASSUME TypeOK, NEW c \in Local, c.pc = "match", OwedIn(c, credit), NEW n \in Nat, NEW q,
           n = longest_match(credit[Min(c.left)], c.chain), MatchTo(c, q, n)
    PROVE  OwedIn(q, credit)
  <1> DEFINE w == Min(c.left)
             s == Append(c.read, <<w, n>>)
  <1>1. /\ w \in c.left /\ w \in Workers /\ q.left = c.left \ {w}
        /\ q.pc = IF q.left = {} THEN "answer" ELSE "match"
        /\ q.read = s /\ q.chain = c.chain /\ q.due = c.due
    BY DEF MatchTo
  <1>2. /\ Len(c.read) \in Nat /\ Len(s) = Len(c.read) + 1 /\ s[Len(c.read) + 1] = <<w, n>>
        /\ \A i \in 1 .. Len(c.read) : s[i] = c.read[i]
    <2>1. c.read \in Seq(Nat \cup (Workers \X Nat)) /\ <<w, n>> \in Nat \cup (Workers \X Nat)
      BY <1>1 DEF Local
    <2> QED
      BY <2>1, LenProperties, AppendProperties
  <1>3. n = longest_match(credit[w], c.chain)
    OBVIOUS
  <1> HIDE DEF w, s
  <1>4. ASSUME NEW k \in c.due, Answers(c, k) PROVE Answers(q, k)
    <2>1. PICK i \in 1 .. Len(c.read) : /\ c.read[i] \in Workers \X Nat /\ c.read[i][1] = k.worker
                                        /\ c.read[i][2] >= longest_match(Hold(k.chain), c.chain)
      BY <1>4 DEF Answers
    <2>2. i \in 1 .. Len(s) /\ s[i] = c.read[i]
      BY <1>2
    <2> QED
      BY <1>1, <2>1, <2>2 DEF Answers
  <1>5. ASSUME NEW k \in c.due, k.worker = w PROVE Answers(q, k)
    <2>1. Hold(k.chain) \subseteq credit[w] /\ c.chain \in Seq(Blocks)
      BY <1>5 DEF OwedIn, Local
    <2>2. longest_match(Hold(k.chain), c.chain) <= n
      BY <1>3, <2>1, LongestMatchGrows
    <2>3. longest_match(Hold(k.chain), c.chain) \in Nat
      BY <2>1, LongestMatch
    <2>4. Len(s) \in 1 .. Len(s) /\ s[Len(s)] = <<w, n>> /\ <<w, n>> \in Workers \X Nat
      BY <1>1, <1>2
    <2>5. s[Len(s)][1] = k.worker /\ s[Len(s)][2] >= longest_match(Hold(k.chain), c.chain)
      BY <1>5, <2>2, <2>3, <2>4
    <2> QED
      BY <1>1, <2>4, <2>5 DEF Answers
  <1>6. ASSUME NEW k \in c.due PROVE k.worker \in q.left \/ Answers(q, k)
    BY <1>1, <1>4, <1>5 DEF OwedIn
  <1> QED
    BY <1>1, <1>6 DEF OwedIn

\* An eviction shortens what is owed with what is credited.
LEMMA EvictOnce ==
    ASSUME TypeOK, NEW c \in Local, NEW q, NEW gone, EvictedTo(c, q, gone), OwedIn(c, credit)
    PROVE  OwedIn(q, [w \in Workers |-> credit[w] \ gone])
  <1> DEFINE cr == [w \in Workers |-> credit[w] \ gone]
  <1>0. \A w \in Workers : cr[w] = credit[w] \ gone
    OBVIOUS
  <1> HIDE DEF cr
  <1>1. CASE c.pc = "insert"
    BY <1>1 DEF EvictedTo, OwedIn
  <1>2. CASE c.pc # "insert"
    <2>1. /\ q.pc = c.pc /\ q.chain = c.chain /\ q.left = c.left /\ q.read = c.read
          /\ q.best = c.best /\ q.due = StillOwed(c.due, gone)
      BY <1>2 DEF EvictedTo
    <2>2. c.due \subseteq Owed /\ c.chain \in Seq(Blocks)
      BY DEF Local
    <2>3. ASSUME NEW x \in q.due
          PROVE  \E k \in c.due : /\ k.worker \in Workers /\ x.worker = k.worker
                                  /\ Hold(x.chain) \subseteq Hold(k.chain) \ gone
                                  /\ Answers(c, k) => Answers(q, x)
      <3>0. x \in StillOwed(c.due, gone)
        BY <2>1
      <3>k. PICK k \in c.due : Remains(x, k, gone)
        BY <2>2, <3>0, StillOwedFacts
      <3>1. x.worker = k.worker /\ Hold(x.chain) \subseteq Hold(k.chain) \ gone
        BY <3>k DEF Remains
      <3>2. k.worker \in Workers
        BY <2>2 DEF Owed
      <3>3. ASSUME Answers(c, k) PROVE Answers(q, x)
        <4>1. PICK i \in 1 .. Len(c.read) : /\ c.read[i] \in Workers \X Nat /\ c.read[i][1] = k.worker
                                            /\ c.read[i][2] >= longest_match(Hold(k.chain), c.chain)
          BY <3>3 DEF Answers
        <4>2. longest_match(Hold(x.chain), c.chain) <= longest_match(Hold(k.chain), c.chain)
          BY <2>2, <3>1, LongestMatchGrows
        <4>3. /\ longest_match(Hold(x.chain), c.chain) \in Nat
              /\ longest_match(Hold(k.chain), c.chain) \in Nat
          BY <2>2, LongestMatch
        <4>4. c.read[i][2] >= longest_match(Hold(x.chain), c.chain)
          BY <4>1, <4>2, <4>3
        <4> QED
          BY <2>1, <3>1, <4>1, <4>4 DEF Answers
      <3> QED
        BY <3>1, <3>2, <3>3
    <2>4. q.pc = "list" => \A x \in q.due : x.worker = q.best
      BY <2>1, <2>3 DEF OwedIn
    <2>5. q.pc \in {"list", "match"} => \A x \in q.due : Hold(x.chain) \subseteq cr[x.worker]
      BY <1>0, <2>1, <2>3 DEF OwedIn
    <2>6. q.pc = "match" => \A x \in q.due : x.worker \in q.left \/ Answers(q, x)
      BY <2>1, <2>3 DEF OwedIn
    <2>7. q.pc = "answer" => \A x \in q.due : Answers(q, x)
      BY <2>1, <2>3 DEF OwedIn
    <2>8. q.pc # "insert"
      BY <1>2, <2>1
    <2>9. OwedIn(q, cr)
      BY <2>4, <2>5, <2>6, <2>7, <2>8 DEF OwedIn
    <2> QED
      BY <2>9 DEF cr
  <1> QED
    BY <1>1, <1>2 DEF cr

LEMMA OwedStep == TypeOK /\ PhaseInv /\ OwedInv /\ [Next]_vars => OwedInv'
  <1> SUFFICES ASSUME TypeOK, PhaseInv, OwedInv, [Next]_vars PROVE OwedInv'
    OBVIOUS
  \* a step of the router object, or one that leaves the index as it is
  <1>1. ASSUME NEW t \in Threads, NEW q \in Local, Moves(t, q), UNCHANGED indexVars,
               OwedIn(q, credit)
        PROVE  OwedInv'
    <2>1. /\ \A w \in Workers : credit[w] \subseteq credit'[w]
          /\ \A k \in kept' : k.worker \in listed' /\ Hold(k.chain) \subseteq credit'[k.worker]
          /\ OwedIn(q, credit')
      BY <1>1 DEF OwedInv, indexVars
    <2> QED
      BY <1>1, <2>1, OwedMoves
  <1>2. ASSUME NEW q, q.pc \notin {"insert", "list", "match", "answer"} PROVE OwedIn(q, credit)
    BY <1>2 DEF OwedIn
  <1>3. ASSUME NEW t \in Threads, decide(t) PROVE OwedInv'
    <2>1. PICK chain \in Prompts, policy \in Policy :
             /\ get_or_create(policy) /\ Moves(t, NewCall(policy, chain, routers'[policy]))
             /\ UNCHANGED indexVars
      BY <1>3, DecideIs
    <2>2. routers'[policy] \in Nat
      <3>1. heap' \in Seq(CoreRouter) /\ routers'[policy] \in 1 .. Len(heap')
        BY <2>1, GetOrCreate
      <3>2. Len(heap') \in Nat
        BY <3>1, LenProperties
      <3> QED
        BY <3>1, <3>2
    <2>3. PICK q \in Local : /\ q = NewCall(policy, chain, routers'[policy])
                             /\ q.pc = IF policy = "round_robin" THEN "ticket" ELSE "scan"
      BY <2>2, NewCallFacts, Constants
    <2>4. OwedIn(q, credit)
      BY <1>2, <2>3
    <2> QED
      BY <1>1, <2>1, <2>3, <2>4
  <1>4. ASSUME NEW t \in Threads, Ticket(t) PROVE OwedInv'
    <2> DEFINE i == call[t].router
               q == [call[t] EXCEPT !.pc = "record",
                       !.best = [id |-> heap[i].next_worker % NumWorkers, score |-> 0]]
    <2>1. call[t].pc = "ticket" /\ Moves(t, q) /\ UNCHANGED indexVars
      BY <1>4, TicketIs
    <2>2. heap[i] \in CoreRouter /\ call[t] \in Local
      BY <2>1, HeapFacts
    <2>3. q \in Local /\ q.pc = "record"
      <3>1. heap[i].next_worker \in Nat
        BY <2>2 DEF CoreRouter
      <3> QED
        BY <2>2, <3>1, TicketFacts
    <2> HIDE DEF q, i
    <2> QED
      BY <1>1, <1>2, <2>1, <2>3
  <1>5. ASSUME NEW t \in Threads, Scan(t) PROVE OwedInv'
    <2>1. call[t].pc = "scan"
      BY <1>5 DEF Scan, Continue
    <2>2. call[t].left # {} /\ call[t].best \in {None} \cup Candidate
      BY <2>1 DEF PhaseInv, Phase
    <2>3. PICK m, q : m \in Nat /\ Moves(t, q) /\ ScanTo(call[t], q, m, score_worker(m))
      BY <1>5, <2>2, ScanIs
    <2>4. UNCHANGED indexVars
      BY <1>5, <2>2, ScanIs
    <2>5. q \in Local /\ q.pc \in {"scan", "record"}
      BY <2>3 DEF ScanTo
    <2> QED
      BY <1>1, <1>2, <2>3, <2>4, <2>5
  <1>6. ASSUME NEW t \in Threads, Record(t) \/ LookupAnswer(t) PROVE OwedInv'
    BY <1>1, <1>2, <1>6, IdleFacts DEF Record, LookupAnswer, Continue, Step, Moves
  <1>7. ASSUME NEW t \in Threads, Insert(t) PROVE OwedInv'
    <2>1. PICK w \in Workers, chain \in Seq(Blocks) : Moves(t, NewInsert(w, chain))
      BY <1>7, InsertIs
    <2>2. PICK q \in Local : /\ q = NewInsert(w, chain) /\ q.pc = "insert" /\ q.chain = chain
                             /\ q.best = w /\ q.due = {[worker |-> w, chain |-> chain]}
      BY NewInsertFacts
    <2>3. OwedIn(q, credit)
      BY <2>2 DEF OwedIn
    <2>4. UNCHANGED indexVars
      BY <1>7, InsertIs
    <2> QED
      BY <1>1, <2>1, <2>2, <2>3, <2>4
  <1>8. ASSUME NEW t \in Threads, InsertRecord(t) PROVE OwedInv'
    <2> DEFINE w == call[t].best
               h == Hold(call[t].chain)
    <2>1. /\ call[t].pc = "insert" /\ w \in Workers
          /\ credit' = [credit EXCEPT ![w] = @ \cup h]
          /\ UNCHANGED <<listed, kept>>
      BY <1>8, InsertRecordIs
    <2>2. PICK q \in Local : Moves(t, q) /\ q.pc = "list" /\ q.best = w /\ q.due = call[t].due
      BY <1>8, InsertRecordIs
    <2>3. call[t].due = {[worker |-> w, chain |-> call[t].chain]}
      BY <2>1 DEF OwedInv, OwedIn
    <2>4. \A k \in q.due : k.worker = w /\ Hold(k.chain) = h
      BY <2>2, <2>3
    <2> HIDE DEF h, w
    <2>5. (\A x \in Workers : credit[x] \subseteq credit'[x]) /\ h \subseteq credit'[w]
      BY <2>1 DEF TypeOK
    <2>6. OwedIn(q, credit')
      BY <2>2, <2>4, <2>5 DEF OwedIn
    <2>7. \A k \in kept' : k.worker \in listed' /\ Hold(k.chain) \subseteq credit'[k.worker]
      <3> SUFFICES ASSUME NEW k \in kept
                   PROVE  k.worker \in listed /\ Hold(k.chain) \subseteq credit'[k.worker]
        BY <2>1
      <3>1. k.worker \in listed /\ Hold(k.chain) \subseteq credit[k.worker]
        BY DEF OwedInv
      <3>2. k.worker \in Workers
        BY <3>1 DEF TypeOK
      <3> QED
        BY <2>5, <3>1, <3>2
    <2> QED
      BY <2>2, <2>5, <2>6, <2>7, OwedMoves
  <1>9. ASSUME NEW t \in Threads, InsertWorker(t) PROVE OwedInv'
    <2>1. /\ call[t].pc = "list" /\ listed' = listed \cup {call[t].best}
          /\ kept' = kept \cup call[t].due /\ Moves(t, Idle) /\ UNCHANGED credit
      BY <1>9, InsertWorkerIs
    <2>2. \A k \in call[t].due : k.worker = call[t].best /\ Hold(k.chain) \subseteq credit[k.worker]
      BY <2>1 DEF OwedInv, OwedIn
    <2>3. \A k \in kept' : k.worker \in listed' /\ Hold(k.chain) \subseteq credit'[k.worker]
      BY <2>1, <2>2 DEF OwedInv
    <2>4. Idle \in Local /\ OwedIn(Idle, credit')
      BY IdleFacts DEF OwedIn
    <2> QED
      BY <2>1, <2>3, <2>4, OwedMoves
  <1>10. ASSUME NEW t \in Threads, Lookup(t) PROVE OwedInv'
    <2>1. PICK chain \in Seq(Blocks) : Moves(t, NewLookup(chain, listed, kept))
      BY <1>10, LookupIs
    <2>2. UNCHANGED indexVars
      BY <1>10, LookupIs
    <2>3. listed \subseteq Workers /\ kept \subseteq Owed
      BY DEF TypeOK
    <2>4. PICK q \in Local : /\ q = NewLookup(chain, listed, kept)
                             /\ q.pc = IF listed = {} THEN "answer" ELSE "match"
                             /\ q.left = listed /\ q.due = kept
      BY <2>3, NewLookupFacts
    <2>5. \A k \in kept : k.worker \in listed /\ Hold(k.chain) \subseteq credit[k.worker]
      BY DEF OwedInv
    <2>6. OwedIn(q, credit)
      BY <2>4, <2>5 DEF OwedIn
    <2> QED
      BY <1>1, <2>1, <2>2, <2>4, <2>6
  <1>11. ASSUME NEW t \in Threads, LookupMatch(t) PROVE OwedInv'
    <2>1. call[t].left # {} /\ call[t].pc = "match" /\ call[t] \in Local
      BY <1>11 DEF LookupMatch, Continue, PhaseInv, Phase, TypeOK
    <2>2. PICK n, q : /\ n \in Nat /\ n = longest_match(credit[Min(call[t].left)], call[t].chain)
                              /\ Moves(t, q) /\ MatchTo(call[t], q, n)
      BY <1>11, <2>1, MatchIs
    <2>3. UNCHANGED indexVars
      BY <1>11, <2>1, MatchIs
    <2>4. OwedIn(call[t], credit)
      BY DEF OwedInv
    <2>5. q \in Local /\ OwedIn(q, credit)
      BY <2>1, <2>2, <2>4, MatchOnce DEF MatchTo
    <2> QED
      BY <1>1, <2>2, <2>3, <2>5
  <1>12. ASSUME NEW t \in Threads, EvictStale(t) PROVE OwedInv'
    <2>1. PICK gone :
             /\ credit' = [w \in Workers |-> credit[w] \ gone]
             /\ kept' = StillOwed(kept, gone)
             /\ \A x \in Threads : EvictedTo(call[x], call'[x], gone)
      BY <1>12, EvictIs
    <2>2. UNCHANGED listed
      BY <1>12, EvictIs
    <2>3. ASSUME NEW x \in Threads PROVE OwedIn(call'[x], credit')
      <3>1. /\ call[x] \in Local /\ OwedIn(call[x], credit)
            /\ EvictedTo(call[x], call'[x], gone)
        BY <2>1 DEF TypeOK, OwedInv
      <3>2. OwedIn(call'[x], [w \in Workers |-> credit[w] \ gone])
        BY <3>1, EvictOnce
      <3> QED
        BY <2>1, <3>2
    <2>4. ASSUME NEW y \in kept'
          PROVE  y.worker \in listed' /\ Hold(y.chain) \subseteq credit'[y.worker]
      <3>0. y \in StillOwed(kept, gone) /\ kept \subseteq Owed
        BY <2>1 DEF TypeOK
      <3>k. PICK k \in kept : Remains(y, k, gone)
        BY <3>0, StillOwedFacts
      <3>1. y.worker = k.worker /\ Hold(y.chain) \subseteq Hold(k.chain) \ gone
        BY <3>k DEF Remains
      <3>2. k.worker \in listed /\ Hold(k.chain) \subseteq credit[k.worker]
        BY DEF OwedInv
      <3>3. k.worker \in Workers /\ credit'[k.worker] = credit[k.worker] \ gone
        BY <2>1, <3>2 DEF TypeOK
      <3> QED
        BY <2>2, <3>1, <3>2, <3>3
    <2> QED
      BY <2>3, <2>4 DEF OwedInv
  <1>13. CASE UNCHANGED vars
    BY <1>13 DEF vars, indexVars, OwedInv
  <1> QED
    BY <1>3, <1>4, <1>5, <1>6, <1>7, <1>8, <1>9, <1>10, <1>11, <1>12, <1>13
       DEF Next, RouterSteps, IndexSteps

\* However inserts, lookups and evictions interleave, a lookup answers for every insert
\* that had returned when it began, with all it shares up to the first evicted block.
THEOREM LookupsAreFaithful == Spec => []LookupFaithful
  <1>1. Init => OwedInv
    BY IdleFacts DEF Init, OwedInv, OwedIn
  <1>2. TypeOK /\ PhaseInv /\ OwedInv /\ [Next]_vars => OwedInv'
    BY OwedStep
  <1>3. OwedInv => LookupFaithful
    BY DEF OwedInv, OwedIn, Answers, LookupFaithful
  <1> QED
    BY <1>1, <1>2, <1>3, TypesAlways, PTL DEF Spec
===========================================================================
