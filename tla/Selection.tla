----------------------------- MODULE Selection ----------------------------
(***************************************************************************)
(* How the router chooses (crates/router-core/src/router.rs), step by step *)
(* and concurrently: a selection walks its candidates reading the prefix   *)
(* index block by block and the in-flight counter twice for each, while    *)
(* other selections record block by block, requests start and end, and the *)
(* index forgets. All requests share one prompt of ChainLen blocks, the    *)
(* worst case for contention; weights and scores are integers.             *)
(***************************************************************************)
EXTENDS InflightTracker, FiniteSets, FiniteSetsExt

CONSTANTS Requests,       \* concurrent requests
          NumWorkers,     \* workers have ids 0 .. NumWorkers - 1
          PoolOf,         \* id -> "prefill", "decode" or "both"
          Policies,       \* among "round_robin", "cache_aware" and "disaggregated"
          ChainLen,       \* blocks of the prompt
          CacheWeight, LoadWeight,
          MaxSelections,  \* bound: policy -> selections that are ever begun
          None

Workers == 0 .. NumWorkers - 1
Blocks == 1 .. ChainLen
Scored == [id : Workers, score : Int, in_flight : Nat]

ASSUME SelectionAssumption ==
    /\ IsFiniteSet(Requests)
    /\ Cardinality(Requests) < CountMod
    /\ NumWorkers \in Nat
    /\ PoolOf \in [Workers -> {"prefill", "decode", "both"}]
    /\ Policies \subseteq {"round_robin", "cache_aware", "disaggregated"}
    /\ ChainLen \in Nat /\ CacheWeight \in Nat /\ LoadWeight \in Nat
    /\ MaxSelections \in [Policies -> Nat]
    /\ None \notin Nat \cup Scored

VARIABLES policy,        \* the configured routing policy, fixed at the start
          healthy,       \* workers in rotation
          held,          \* worker -> blocks of the prompt it is credited with
          next_worker,   \* the round-robin counter
          sel,           \* request -> the locals of its selection
          begun,         \* how much of the bound is used
          window,        \* history: request -> what its scan could have read, per candidate
          spread         \* history: the round robin since its candidates last changed

vars == <<trackerVars, policy, healthy, held, next_worker, sel, begun, window, spread>>

Idle == [pc |-> "idle", pool |-> "both", cand |-> {}, left |-> {}, matched |-> 0,
         score |-> 0, best |-> None]

\* How often each worker was chosen, and how many tickets went to selections that
\* had listed other candidates.
FreshSpread == [picks |-> [w \in Workers |-> 0], strays |-> 0]

InPool(pool) == {w \in healthy : PoolOf[w] = pool}

\* select_for_chat prefers `both` workers; select_in_pool takes one pool only.
candidates(pool) ==
    IF pool = "both" /\ InPool(pool) = {} THEN healthy ELSE InPool(pool)

\* The candidate the scan is at: candidates are walked in id order.
At(r) == Min(sel[r].left)

ScoreAddsLoad(matched, load) == matched * CacheWeight + load * LoadWeight

\* score_worker
score_worker(matched, load) == matched * CacheWeight - load * LoadWeight

CmpHigherIdWins(a, b) ==
    \/ a.score > b.score
    \/ a.score = b.score /\ a.in_flight < b.in_flight
    \/ a.score = b.score /\ a.in_flight = b.in_flight /\ a.id > b.id

\* Candidate::cmp: a wins over b.
cmp(a, b) ==
    \/ a.score > b.score
    \/ a.score = b.score /\ a.in_flight < b.in_flight
    \/ a.score = b.score /\ a.in_flight = b.in_flight /\ a.id < b.id

(***************************************************************************)
(* A selection                                                             *)
(***************************************************************************)
Step(r, local) == sel' = [sel EXCEPT ![r] = local] /\ UNCHANGED policy

\* The snapshot of the healthy workers; without a candidate the call fails and
\* nothing changes. Chat selections under `disaggregated` fail as well.
Snapshot(r) ==
    /\ sel[r].pc = "idle"
    /\ begun < MaxSelections[policy] /\ begun' = begun + 1
    /\ \E pool \in IF policy = "disaggregated" THEN {"prefill", "decode"} ELSE {"both"} :
         /\ candidates(pool) # {}
         /\ Step(r, [Idle EXCEPT !.pc = IF policy = "round_robin" THEN "ticket" ELSE "match",
                                 !.pool = pool, !.cand = candidates(pool),
                                 !.left = candidates(pool)])
    /\ UNCHANGED <<trackerVars, healthy, held, next_worker, spread>>

\* Round robin: fetch_add, then the candidate at that index.
Nth(S, n) == CHOOSE w \in S : Cardinality({v \in S : v < w}) = n

TicketNotAtomic(r) ==
    /\ sel[r].pc = "ticket"
    /\ next_worker' \in {next_worker, next_worker + 1}
    /\ LET w == Nth(sel[r].cand, next_worker % Cardinality(sel[r].cand))
       IN /\ Step(r, [sel[r] EXCEPT !.pc = "record",
                                    !.best = [id |-> w, score |-> 0, in_flight |-> 0]])
          /\ spread' = IF sel[r].cand = candidates("both")
                       THEN [spread EXCEPT !.picks[w] = @ + 1]
                       ELSE [spread EXCEPT !.strays = @ + 1]
    /\ UNCHANGED <<trackerVars, healthy, held>>

Ticket(r) ==
    /\ sel[r].pc = "ticket"
    /\ next_worker' = next_worker + 1
    /\ LET w == Nth(sel[r].cand, next_worker % Cardinality(sel[r].cand))
       IN /\ Step(r, [sel[r] EXCEPT !.pc = "record",
                                    !.best = [id |-> w, score |-> 0, in_flight |-> 0]])
          /\ spread' = IF sel[r].cand = candidates("both")
                       THEN [spread EXCEPT !.picks[w] = @ + 1]
                       ELSE [spread EXCEPT !.strays = @ + 1]
    /\ UNCHANGED <<trackerVars, healthy, held>>

\* pick_best, one candidate. longest_match looks a block up under the lock of its
\* shard and goes on to the next; ...
ReadMatch(r) ==
    /\ sel[r].pc = "match"
    /\ sel[r].matched + 1 \in held[At(r)]
    /\ Step(r, [sel[r] EXCEPT !.matched = @ + 1])
    /\ UNCHANGED <<trackerVars, healthy, held, next_worker, spread>>

\* ... a block the worker is not credited with, or the end of the chain, ends it. The
\* touches that follow change no credit. Then the load in the score, ...
EndMatch(r) ==
    /\ sel[r].pc = "match"
    /\ sel[r].matched + 1 \notin held[At(r)]
    /\ Step(r, [sel[r] EXCEPT !.pc = "score"])
    /\ UNCHANGED <<trackerVars, healthy, held, next_worker, spread>>

ReadScore(r) ==
    /\ sel[r].pc = "score"
    /\ Step(r, [sel[r] EXCEPT !.pc = "tie",
                              !.score = score_worker(sel[r].matched, count(At(r)))])
    /\ UNCHANGED <<trackerVars, healthy, held, next_worker, spread>>

\* ... the load again for the tie-break, and the comparison with the best so far.
ReadTie(r) ==
    /\ sel[r].pc = "tie"
    /\ LET this == [id |-> At(r), score |-> sel[r].score, in_flight |-> count(At(r))]
           best == IF sel[r].best # None /\ cmp(sel[r].best, this)
                   THEN sel[r].best ELSE this
           left == sel[r].left \ {At(r)}
       IN Step(r, [sel[r] EXCEPT !.pc = IF left = {} THEN "record" ELSE "match",
                                 !.left = left, !.best = best,
                                 !.matched = 0, !.score = 0])
    /\ UNCHANGED <<trackerVars, healthy, held, next_worker, spread>>

\* The chain is recorded against the chosen worker, one block under its lock after
\* the other; ...
RecordBlock(r) ==
    /\ sel[r].pc = "record" /\ sel[r].matched < ChainLen
    /\ held' = [held EXCEPT ![sel[r].best.id] = @ \cup {sel[r].matched + 1}]
    /\ Step(r, [sel[r] EXCEPT !.matched = @ + 1])
    /\ UNCHANGED <<trackerVars, healthy, next_worker, spread>>

\* ... the decision is returned, its score only logged.
Record(r) ==
    /\ sel[r].pc = "record" /\ sel[r].matched = ChainLen
    /\ Step(r, [Idle EXCEPT !.pc = "acquire",
                        !.best = [sel[r].best EXCEPT !.score = 0, !.in_flight = 0]])
    /\ UNCHANGED <<trackerVars, healthy, held, next_worker, spread>>

(***************************************************************************)
(* What runs beside it                                                     *)
(***************************************************************************)
Acquire(r) ==
    /\ sel[r].pc = "acquire"
    /\ increment(sel[r].best.id)
    /\ Step(r, [sel[r] EXCEPT !.pc = "inflight"])
    /\ UNCHANGED <<healthy, held, next_worker, spread>>

Release(r) ==
    /\ sel[r].pc = "inflight"
    /\ decrement(sel[r].best.id)
    /\ Step(r, Idle)
    /\ UNCHANGED <<healthy, held, next_worker, spread>>

\* A purge takes one worker out of the blocks of a shard; ...
Purge(w) ==
    /\ \E S \in SUBSET held[w] \ {{}} : held' = [held EXCEPT ![w] = @ \ S]
    /\ UNCHANGED <<trackerVars, policy, healthy, next_worker, sel, spread>>

\* ... a sweep, by expiry or by trimming, takes a block from everyone.
Evict(b) ==
    /\ \E w \in Workers : b \in held[w]
    /\ held' = [w \in Workers |-> held[w] \ {b}]
    /\ UNCHANGED <<trackerVars, policy, healthy, next_worker, sel, spread>>

HealthFlips(w) ==
    /\ healthy' = IF w \in healthy THEN healthy \ {w} ELSE healthy \cup {w}
    /\ spread' = IF candidates("both")' = candidates("both") THEN spread ELSE FreshSpread
    /\ UNCHANGED <<trackerVars, policy, held, next_worker, sel>>

(***************************************************************************)
(* Specification                                                           *)
(***************************************************************************)
\* Per candidate, since the scan began: the blocks it was credited with at some time,
\* those it was credited with all along, and the loads it has had.
Scanning(r) == sel[r].pc \in {"match", "score", "tie"}

Observe ==
    window' = [r \in Requests |->
        IF sel'[r].pc = "idle" \/ policy = "round_robin" THEN None
        ELSE IF sel[r].pc = "idle"
        THEN [w \in sel'[r].cand |-> [some |-> held[w], all |-> held[w], load |-> {counts[w]}]]
        ELSE IF Scanning(r)
        THEN [w \in sel[r].cand |-> [some |-> window[r][w].some \cup held'[w],
                                     all  |-> window[r][w].all \cap held'[w],
                                     load |-> window[r][w].load \cup {counts'[w]}]]
        ELSE IF sel'[r].pc = "record" THEN window[r] ELSE None]

RequestSteps(r) ==
    \/ Snapshot(r)
    \/ /\ \/ Ticket(r) \/ ReadMatch(r) \/ EndMatch(r) \/ ReadScore(r) \/ ReadTie(r)
          \/ RecordBlock(r) \/ Record(r) \/ Acquire(r) \/ Release(r)
       /\ UNCHANGED begun

Init ==
    /\ with_capacity(NumWorkers)
    /\ policy \in Policies
    /\ healthy = Workers
    /\ held = [w \in Workers |-> {}]
    /\ next_worker = 0 /\ begun = 0
    /\ sel = [r \in Requests |-> Idle]
    /\ window = [r \in Requests |-> None]
    /\ spread = FreshSpread

Others ==
    /\ \/ \E w \in Workers : Purge(w) \/ HealthFlips(w)
       \/ \E b \in Blocks : Evict(b)
    /\ UNCHANGED begun

Next == ((\E r \in Requests : RequestSteps(r)) \/ Others) /\ Observe

Spec == Init /\ [][Next]_vars

(***************************************************************************)
(* Properties                                                              *)
(***************************************************************************)
Chosen(r) == policy # "round_robin" /\ sel[r].pc = "record"

\* The leading blocks of the prompt that are all in S: what a match finds there.
Lead(S) == Max({n \in 0 .. ChainLen : 1 .. n \subseteq S})

\* The order of the documentation, on values that did not move: higher score, then
\* fewer in flight, then lower id.
Documented(w, v, match, load) ==
    LET sw == match[w] * CacheWeight - load[w] * LoadWeight
        sv == match[v] * CacheWeight - load[v] * LoadWeight
    IN w = v \/ sw > sv \/ (sw = sv /\ (load[w] < load[v] \/ (load[w] = load[v] /\ w < v)))

\* A scan nobody disturbed chooses the documented worker.
QuietChoice ==
    \A r \in Requests : Chosen(r) =>
        LET seen == window[r]
            cand == sel[r].cand
        IN (\A v \in cand : seen[v].some = seen[v].all /\ Cardinality(seen[v].load) = 1)
           => \A v \in cand : Documented(sel[r].best.id, v, [x \in cand |-> Lead(seen[x].all)],
                                                           [x \in cand |-> Min(seen[x].load)])

\* Reads that are not one snapshot never send a request to a worker that was worse
\* all along. At its best the chosen worker is credited with every block it had at
\* some time of the scan - a match may find block 1 before it is evicted and block 2
\* after it was recorded, a length the worker never had - and at its worst another
\* candidate has only the blocks it kept all along; with the loads taken the same way,
\* the chosen worker scores at least as much.
NeverWorseAllAlong ==
    \A r \in Requests : Chosen(r) =>
        LET seen == window[r]
            w == sel[r].best.id
        IN \A v \in sel[r].cand :
             Lead(seen[w].some) * CacheWeight - Min(seen[w].load) * LoadWeight
               >= Lead(seen[v].all) * CacheWeight - Max(seen[v].load) * LoadWeight

\* Round robin is cyclic whatever the interleaving: among the candidates of the
\* moment no worker is two requests ahead of another, except by the tickets that
\* selections begun under another candidate list took from the shared counter.
EvenSpread ==
    \A v, w \in candidates("both") :
        spread.picks[v] <= spread.picks[w] + 1 + spread.strays
===========================================================================
