---------------------------- MODULE PyBindings ----------------------------
(***************************************************************************)
(* The Python bindings (crates/router-py/src/lib.rs): a Router object with *)
(* one core router per policy, created on first use, and a PrefixIndex     *)
(* object, called by any number of Python threads. Calls release the GIL,  *)
(* so their steps interleave: one lock section or one call on the core's   *)
(* shared state. In-process workers are all healthy and in pool `both`,    *)
(* and no guard is ever taken: the load of a worker is always 0. Block     *)
(* chains stand for prompts, and module PrefixIndex has the index's locks. *)
(* Weights are what Python passes: f64 values nobody validates.            *)
(***************************************************************************)
EXTENDS Integers, Sequences, FiniteSetsExt

CONSTANTS Threads,       \* Python threads
          NumWorkers,    \* length of the `workers` argument
          Prompts,       \* block chains of prompts that are not empty
          Weights,       \* the (cache_weight, load_weight) arguments to try
          MaxCalls,      \* bound: calls in all
          Inf, NaN,      \* f64 values that are not numbers
          None

Workers == 0 .. NumWorkers - 1
Blocks == UNION {{c[i] : i \in 1 .. Len(c)} : c \in Prompts}
Hold(chain) == {chain[i] : i \in 1 .. Len(chain)}

\* A worker with its score, an f64.
Candidate == [id : Workers, score : Int \cup {Inf, NaN}]

\* PyRouter::new refuses an empty worker list.
ASSUME PyBindingsAssumption ==
    /\ NumWorkers \in Nat \ {0}
    /\ MaxCalls \in Nat
    /\ Weights \subseteq [cache : Int \cup {Inf, NaN}, load : Int \cup {Inf, NaN}]
    /\ Inf # NaN /\ {Inf, NaN, None} \cap Int = {}
    /\ Prompts \subseteq Seq(Blocks)
    /\ None \notin Candidate

VARIABLES weights,    \* the Router object's weights
          heap,       \* the core routers, in the order of their creation
          routers,    \* policy -> position in heap: the object's map
          credit,     \* the PrefixIndex object: worker -> blocks it is credited with
          listed,     \* ... and its set of inserted workers
          call,       \* thread -> the locals of its call
          calls,      \* how much of the bound is used
          dispatched, \* history: what calls of route have decided
          kept        \* history: inserts that returned, less what was evicted since

routerVars == <<heap, routers, dispatched>>
indexVars == <<credit, listed, kept>>
vars == <<weights, routerVars, indexVars, call, calls>>

Idle == [pc |-> "idle", policy |-> None, chain |-> <<>>, router |-> None, left |-> {},
         read |-> <<>>, best |-> None, due |-> {}]

Nothing == [w \in Workers |-> {}]

Step(t, local) == call' = [call EXCEPT ![t] = local]

Begin(t) ==
    /\ call[t].pc = "idle"
    /\ calls < MaxCalls
    /\ calls' = calls + 1
    /\ UNCHANGED weights

Continue(t, pc) == call[t].pc = pc /\ UNCHANGED <<weights, calls>>

\* PrefixIndex::longest_match of a worker credited with these blocks.
longest_match(blocks, chain) ==
    Max({n \in 0 .. Len(chain) : \A i \in 1 .. n : chain[i] \in blocks})

(***************************************************************************)
(* Scores in f64                                                           *)
(***************************************************************************)
Times(n, weight) ==
    IF weight \notin {Inf, NaN} THEN n * weight
    ELSE IF weight = NaN \/ n = 0 THEN NaN ELSE Inf

\* score_worker with no request in flight; x - 0 = x, and NaN spreads.
score_worker(matched) ==
    IF Times(0, weights.load) = NaN THEN NaN ELSE Times(matched, weights.cache)

Higher(a, b) == a # NaN /\ b # NaN /\ a # b /\ (a = Inf \/ (b # Inf /\ a > b))

CmpNaNIsLess(a, b) ==
    /\ a.score # NaN /\ b.score # NaN
    /\ \/ Higher(a.score, b.score)
       \/ ~Higher(b.score, a.score) /\ a.id < b.id

\* Candidate::cmp, a wins over b: what does not compare is equal, then the lower id.
cmp(a, b) ==
    \/ Higher(a.score, b.score)
    \/ ~Higher(b.score, a.score) /\ a.id < b.id

(***************************************************************************)
(* Router.route and Router.select_worker                                   *)
(***************************************************************************)
\* The other names, `disaggregated` too, raise PolicyError before anything happens.
parse_policy(name) == {name} \cap {"round_robin", "cache_aware"}

NewRouter == [next_worker |-> 0, credit |-> Nothing]

GetOrCreateRaces(policy) ==
    /\ heap' = Append(heap, NewRouter)
    /\ routers' = [p \in DOMAIN routers \cup {policy} |->
                     IF p = policy THEN Len(heap) + 1 ELSE routers[p]]

\* Under the mutex: the policy's router, created if this is its first call.
get_or_create(policy) ==
    IF policy \in DOMAIN routers THEN UNCHANGED <<heap, routers>>
    ELSE /\ heap' = Append(heap, NewRouter)
         /\ routers' = [p \in DOMAIN routers \cup {policy} |->
                          IF p = policy THEN Len(heap) + 1 ELSE routers[p]]

decide(t) ==
    /\ Begin(t)
    /\ \E chain \in Prompts, name \in {"round_robin", "cache_aware", "disaggregated"} :
         \E policy \in parse_policy(name) :
           /\ get_or_create(policy)
           /\ Step(t, [Idle EXCEPT !.pc = IF policy = "round_robin" THEN "ticket" ELSE "scan",
                                   !.policy = policy, !.chain = chain, !.left = Workers,
                                   !.router = routers'[policy]])
    /\ UNCHANGED <<dispatched, indexVars>>

MyRouter(t) == heap[call[t].router]
Matched(t, w) == longest_match(MyRouter(t).credit[w], call[t].chain)

\* Round robin: the shared counter; the worker's match is only reported.
Ticket(t) ==
    /\ Continue(t, "ticket")
    /\ heap' = [heap EXCEPT ![call[t].router].next_worker = @ + 1]
    /\ Step(t, [call[t] EXCEPT !.pc = "record",
                               !.best = [id |-> MyRouter(t).next_worker % NumWorkers,
                                         score |-> 0]])
    /\ UNCHANGED <<routers, dispatched, indexVars>>

\* pick_best, one candidate: its match, its score, the comparison.
Scan(t) ==
    /\ Continue(t, "scan")
    /\ LET w == Min(call[t].left)
           this == [id |-> w, score |-> score_worker(Matched(t, w))]
           left == call[t].left \ {w}
       IN Step(t, [call[t] EXCEPT !.pc = IF left = {} THEN "record" ELSE "scan",
                                  !.left = left, !.read = Append(@, Matched(t, w)),
                                  !.best = IF @ # None /\ cmp(@, this) THEN @ ELSE this])
    /\ UNCHANGED <<routerVars, indexVars>>

\* The chain is recorded against the worker, and the decision returned.
Record(t) ==
    /\ Continue(t, "record")
    /\ heap' = [heap EXCEPT ![call[t].router].credit[call[t].best.id] =
                              @ \cup Hold(call[t].chain)]
    /\ dispatched' = dispatched \cup {[policy |-> call[t].policy, chain |-> call[t].chain,
                                       worker |-> call[t].best.id]}
    /\ Step(t, Idle)
    /\ UNCHANGED <<routers, indexVars>>

RouterSteps(t) == decide(t) \/ Ticket(t) \/ Scan(t) \/ Record(t)

(***************************************************************************)
(* PrefixIndex.insert, lookup and evict_stale                              *)
(***************************************************************************)
Insert(t) ==
    /\ Begin(t)
    /\ \E w \in Workers, chain \in Prompts \cup {<<>>} :
         Step(t, [Idle EXCEPT !.pc = "insert", !.chain = chain, !.best = w,
                              !.due = {[worker |-> w, chain |-> chain]}])
    /\ UNCHANGED <<routerVars, indexVars>>

InsertListsOnly(t) ==
    /\ Continue(t, "insert")
    /\ listed' = listed \cup {call[t].best}
    /\ Step(t, [call[t] EXCEPT !.pc = "list"])
    /\ UNCHANGED <<routerVars, credit, kept>>

\* The record, ...
InsertRecord(t) ==
    /\ Continue(t, "insert")
    /\ credit' = [credit EXCEPT ![call[t].best] = @ \cup Hold(call[t].chain)]
    /\ Step(t, [call[t] EXCEPT !.pc = "list"])
    /\ UNCHANGED <<routerVars, listed, kept>>

\* ... then the worker joins the set.
InsertWorker(t) ==
    /\ Continue(t, "list")
    /\ listed' = listed \cup {call[t].best}
    /\ kept' = kept \cup call[t].due
    /\ Step(t, Idle)
    /\ UNCHANGED <<routerVars, credit>>

\* lookup works on a snapshot of the workers.
Lookup(t) ==
    /\ Begin(t)
    /\ \E chain \in Prompts \cup {<<>>} :
         Step(t, [Idle EXCEPT !.pc = IF listed = {} THEN "answer" ELSE "match",
                              !.chain = chain, !.left = listed, !.due = kept])
    /\ UNCHANGED <<routerVars, indexVars>>

LookupMatch(t) ==
    /\ Continue(t, "match")
    /\ LET w == Min(call[t].left)
           left == call[t].left \ {w}
       IN Step(t, [call[t] EXCEPT !.pc = IF left = {} THEN "answer" ELSE "match",
                                  !.left = left,
                                  !.read = Append(@, <<w, longest_match(credit[w],
                                                                        call[t].chain)>>)])
    /\ UNCHANGED <<routerVars, indexVars>>

LookupAnswer(t) ==
    /\ Continue(t, "answer")
    /\ Step(t, Idle)
    /\ UNCHANGED <<routerVars, indexVars>>

\* Expiry and trim remove whole entries; the workers stay listed. What an insert
\* is still due is the blocks before the first that went.
EvictStale(t) ==
    /\ Begin(t)
    /\ \E gone \in SUBSET UNION {credit[w] : w \in Workers} :
         LET Left(S) == {[k EXCEPT !.chain =
                            SubSeq(@, 1, longest_match(Blocks \ gone, @))] : k \in S}
         IN /\ credit' = [w \in Workers |-> credit[w] \ gone]
            /\ kept' = Left(kept)
            /\ call' = [x \in Threads |-> IF call[x].pc = "insert" THEN call[x]
                                          ELSE [call[x] EXCEPT !.due = Left(@)]]
    /\ UNCHANGED <<routerVars, listed>>

IndexSteps(t) ==
    \/ Insert(t) \/ InsertRecord(t) \/ InsertWorker(t)
    \/ Lookup(t) \/ LookupMatch(t) \/ LookupAnswer(t)
    \/ EvictStale(t)

(***************************************************************************)
(* Specification                                                           *)
(***************************************************************************)
\* PyRouter::new and PyPrefixIndex::new.
Init ==
    /\ weights \in Weights
    /\ heap = <<>> /\ routers = <<>>
    /\ credit = Nothing /\ listed = {}
    /\ call = [t \in Threads |-> Idle]
    /\ calls = 0
    /\ dispatched = {} /\ kept = {}

Next == \E t \in Threads : RouterSteps(t) \/ IndexSteps(t)

Spec == Init /\ [][Next]_vars

(***************************************************************************)
(* Properties                                                              *)
(***************************************************************************)
\* The belief of a policy's router is exactly what that policy's finished calls
\* dispatched: threads that race for a policy's first call share one router, so no
\* record is lost, and a call under one policy teaches the other nothing.
BeliefExact ==
    \A d \in dispatched : d.policy \in DOMAIN routers /\
        \A w \in Workers :
            heap[routers[d.policy]].credit[w] =
                UNION {Hold(x.chain) : x \in {y \in dispatched :
                                                y.policy = d.policy /\ y.worker = w}}

\* With finite weights a scan ends at the best score of the matches it read, lowest id
\* first. A weight that is not finite makes scores infinite or NaN, none of which compares: the
\* scan is still well defined, but the cache no longer counts and the lowest id
\* wins (router.rs, "tie-breaking still keeps the ordering total").
SoundChoice ==
    \A t \in Threads : call[t].pc = "record" /\ call[t].policy = "cache_aware" =>
        LET match(w) == IF {Inf, NaN} \cap {weights.cache, weights.load} # {} THEN 0
                        ELSE weights.cache * call[t].read[w + 1]
            best == call[t].best.id
        IN \A w \in Workers : match(w) < match(best) \/ (match(w) = match(best) /\ best <= w)

\* A lookup lists the worker of every insert that had returned when it began, with
\* all the blocks the two prompts share up to the first that was evicted (lib.rs,
\* "For every worker that has ever been inserted").
LookupFaithful ==
    \A t \in Threads : call[t].pc = "answer" =>
        \A k \in call[t].due : \E i \in 1 .. Len(call[t].read) :
            /\ call[t].read[i][1] = k.worker
            /\ call[t].read[i][2] >= longest_match(Hold(k.chain), call[t].chain)
===========================================================================
