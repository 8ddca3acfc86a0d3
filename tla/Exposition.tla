---------------------------- MODULE Exposition ----------------------------
(***************************************************************************)
(* What the router tells its operators: GET /metrics re-derives the live   *)
(* gauges from the registry, the in-flight tracker and the prefix index    *)
(* and renders them (crates/router-server/src/metrics.rs and api.rs), GET  *)
(* /ready counts the healthy workers. Calls of both run beside each other  *)
(* and beside discovery, the health poller and requests; a step is one     *)
(* read of shared state or one write of a gauge. Gauges are labelled by    *)
(* url, the state behind them is keyed by id.                              *)
(***************************************************************************)
EXTENDS WorkerRegistry, InflightTracker, FiniteSetsExt

CONSTANTS Scrapes,      \* concurrent calls of GET /metrics
          Probes,       \* concurrent calls of GET /ready
          Requests,     \* concurrent chat completions
          NumShards,    \* shards of the prefix index (64)
          Slack,        \* spare counters ensure_capacity asks for (16)
          MaxIds,       \* bound: ids that are ever allocated
          MaxMoves,     \* bound: steps of everything that runs beside the calls
          MaxEntries,   \* bound: entries of a shard of the prefix index
          None

ASSUME ExpositionAssumption ==
    /\ IsFiniteSet(Requests)
    /\ Cardinality(Requests) < CountMod
    /\ NumShards \in Nat \ {0}
    /\ Slack \in Nat /\ MaxIds \in Nat /\ MaxMoves \in Nat /\ MaxEntries \in Nat
    /\ None \notin Nat \cup BOOLEAN

VARIABLES gauges,   \* url -> its worker_up and inflight_requests, None if never set
          size,     \* the prefix_index_entries gauge
          entries,  \* shard of the prefix index -> entries in it
          scrape,   \* call of /metrics -> its locals
          ready,    \* call of /ready -> its locals
          guard,    \* request -> the worker whose guard it holds
          moves,    \* how much of the bound is used
          seen,     \* history: what the sources have been in this burst of scrapes
          any       \* history: call of /ready -> what any_healthy has been since it began

gaugeVars == <<gauges, size, scrape>>
vars == <<registryVars, trackerVars, gaugeVars, entries, ready, guard, moves, seen, any>>

Shards == 0 .. NumShards - 1

\* The locals of a scrape: the workers left, the value just read, and of len() the
\* next shard and the sum so far.
Off == [pc |-> "idle", todo |-> {}, value |-> None, shard |-> 0, total |-> 0]

\* The word in the body of /ready is a constant.
NoCall == [pc |-> "idle", status |-> "ready", healthy_workers |-> 0, ok |-> FALSE]

Unseen == [up |-> [u \in Urls |-> {}], load |-> [u \in Urls |-> {}],
           size |-> [i \in Shards |-> {}], churned |-> {}]

is_healthy(w) == w \in DOMAIN workers /\ workers[w].healthy

AnyRegistered == DOMAIN workers # {}

any_healthy == healthy_workers # {}

(***************************************************************************)
(* GET /metrics                                                            *)
(***************************************************************************)
\* The worker of the snapshot whose turn it is: the lowest id left.
At(s) == CHOOSE w \in scrape[s].todo : \A v \in scrape[s].todo : w.id <= v.id

Go(s, local) == scrape' = [scrape EXCEPT ![s] = local]

\* refresh_gauges: the snapshot ...
Refresh(s) ==
    /\ scrape[s].pc = "idle"
    /\ Go(s, [Off EXCEPT !.pc = "health", !.todo = all_workers])
    /\ UNCHANGED <<gauges, size>>

\* ... then per worker its health, ...
ReadHealth(s) ==
    /\ scrape[s].pc = "health" /\ scrape[s].todo # {}
    /\ Go(s, [scrape[s] EXCEPT !.pc = "up", !.value = is_healthy(At(s).id)])
    /\ UNCHANGED <<gauges, size>>

set_worker_up(s) ==
    /\ scrape[s].pc = "up"
    /\ gauges' = [gauges EXCEPT ![At(s).url].up = scrape[s].value]
    /\ Go(s, [scrape[s] EXCEPT !.pc = "count", !.value = None])
    /\ UNCHANGED size

\* ... its load, ...
ReadCount(s) ==
    /\ scrape[s].pc = "count"
    /\ Go(s, [scrape[s] EXCEPT !.pc = "inflight", !.value = count(At(s).id)])
    /\ UNCHANGED <<gauges, size>>

set_inflight(s) ==
    /\ scrape[s].pc = "inflight"
    /\ gauges' = [gauges EXCEPT ![At(s).url].inflight = scrape[s].value]
    /\ Go(s, [Off EXCEPT !.pc = "health", !.todo = scrape[s].todo \ {At(s)}])
    /\ UNCHANGED size

\* ... and at the end the size of the index, summed up shard by shard, each under a
\* lock of its own.
ReadLen(s) ==
    /\ scrape[s].pc = "health" /\ scrape[s].todo = {}
    /\ scrape[s].shard \in Shards
    /\ Go(s, [scrape[s] EXCEPT !.shard = @ + 1, !.total = @ + entries[scrape[s].shard]])
    /\ UNCHANGED <<gauges, size>>

SkipsLastShard(s) ==
    /\ scrape[s].pc = "health" /\ scrape[s].todo = {}
    /\ scrape[s].shard = NumShards - 1
    /\ size' = scrape[s].total
    /\ Go(s, [Off EXCEPT !.pc = "render"])
    /\ UNCHANGED gauges

set_prefix_index_entries(s) ==
    /\ scrape[s].pc = "health" /\ scrape[s].todo = {}
    /\ scrape[s].shard = NumShards
    /\ size' = scrape[s].total
    /\ Go(s, [Off EXCEPT !.pc = "render"])
    /\ UNCHANGED gauges

\* metrics: the rendered gauges are the answer.
Render(s) ==
    /\ scrape[s].pc = "render"
    /\ Go(s, Off)
    /\ UNCHANGED <<gauges, size>>

ScrapeSteps(s) ==
    /\ \/ Refresh(s) \/ ReadHealth(s) \/ set_worker_up(s) \/ ReadCount(s)
       \/ set_inflight(s) \/ ReadLen(s) \/ set_prefix_index_entries(s) \/ Render(s)
    /\ UNCHANGED <<registryVars, trackerVars, entries, ready, guard, moves>>

(***************************************************************************)
(* GET /ready: the body with its count, then the status, under two locks   *)
(***************************************************************************)
ReadyCount(h) ==
    /\ ready[h].pc = "idle"
    /\ ready' = [ready EXCEPT ![h] = [NoCall EXCEPT !.pc = "counted",
                                        !.healthy_workers = Cardinality(healthy_workers)]]

ReadyStatus(h) ==
    /\ ready[h].pc = "counted"
    /\ ready' = [ready EXCEPT ![h].pc = "answer", ![h].ok = any_healthy]

ReadyAnswer(h) ==
    /\ ready[h].pc = "answer"
    /\ ready' = [ready EXCEPT ![h] = NoCall]

ReadySteps(h) ==
    /\ ReadyCount(h) \/ ReadyStatus(h) \/ ReadyAnswer(h)
    /\ UNCHANGED <<registryVars, trackerVars, gaugeVars, entries, guard, moves>>

(***************************************************************************)
(* What runs beside them                                                   *)
(***************************************************************************)
Discovered == DOMAIN workers \ StaticIds

\* A reconcile of one change and the growth of the counters that follows it, as one
\* step (Membership has them call by call). Discovery registers an address it has no
\* worker for; a configured worker may have the same one.
Discover(u) ==
    /\ next_id < MaxIds
    /\ \A w \in Discovered : workers[w].url # u
    /\ register_worker(u, "both")
    /\ ensure_capacity(Cardinality(Discovered') + Slack)
    /\ UNCHANGED <<entries, guard>>

\* What a purge may have left of the index; it goes shard by shard too, and what it
\* removes after the step is IndexMoves's.
Purged == {e \in [Shards -> 0 .. MaxEntries] : \A i \in Shards : e[i] <= entries[i]}

Forget(w) ==
    /\ w \in Discovered
    /\ remove_worker(w)
    /\ entries' \in Purged
    /\ ensure_capacity(Cardinality(Discovered') + Slack)
    /\ UNCHANGED guard

\* The poller's answer for a worker; one that went down is purged.
HealthFlips(w) ==
    /\ w \in DOMAIN workers
    /\ set_healthy(w, ~workers[w].healthy)
    /\ entries' \in IF workers[w].healthy THEN Purged ELSE {entries}
    /\ UNCHANGED <<trackerVars, guard>>

Acquire(r) ==
    /\ guard[r] = None
    /\ \E w \in healthy_workers : increment(w) /\ guard' = [guard EXCEPT ![r] = w]
    /\ UNCHANGED <<registryVars, entries>>

Release(r) ==
    /\ guard[r] # None
    /\ decrement(guard[r])
    /\ guard' = [guard EXCEPT ![r] = None]
    /\ UNCHANGED <<registryVars, entries>>

\* A shard grows by a record and shrinks by a sweep or a purge.
IndexMoves ==
    /\ \E i \in Shards : \E n \in 0 .. MaxEntries \ {entries[i]} :
          entries' = [entries EXCEPT ![i] = n]
    /\ UNCHANGED <<registryVars, trackerVars, guard>>

Others ==
    /\ moves < MaxMoves
    /\ moves' = moves + 1
    /\ \/ \E u \in Urls : Discover(u)
       \/ \E w \in DOMAIN workers : Forget(w) \/ HealthFlips(w)
       \/ \E r \in Requests : Acquire(r) \/ Release(r)
       \/ IndexMoves
    /\ UNCHANGED <<gaugeVars, ready>>

(***************************************************************************)
(* Specification                                                           *)
(***************************************************************************)
Of(u) == {w \in DOMAIN workers : workers[w].url = u}

\* A burst lasts while scrapes overlap: per url every health and load its workers
\* have had in it, and whether it was ever without a worker or lost one; per shard
\* every size it has had.
Observe ==
    /\ seen' = IF \A s \in Scrapes : scrape'[s].pc = "idle" THEN Unseen
               ELSE [up |-> [u \in Urls |-> seen.up[u] \cup
                               {workers'[w].healthy : w \in Of(u)'}],
                     load |-> [u \in Urls |-> seen.load[u] \cup
                                 {count(w)' : w \in Of(u)'}],
                     size |-> [i \in Shards |-> seen.size[i] \cup {entries'[i]}],
                     churned |-> seen.churned \cup
                        {u \in Urls : Of(u)' = {} \/ ~(Of(u) \subseteq Of(u)')}]
    /\ any' = [h \in Probes |-> IF ready'[h].pc = "idle" THEN {}
                                ELSE IF ready'[h].pc = "answer" /\ ready[h].pc = "answer"
                                THEN any[h]
                                ELSE any[h] \cup {any_healthy'}]

Init ==
    /\ from_config
    /\ with_capacity(Len(StaticWorkers))
    /\ gauges = [u \in Urls |-> [up |-> None, inflight |-> None]]
    /\ size = 0 /\ entries = [i \in Shards |-> 0] /\ moves = 0
    /\ scrape = [s \in Scrapes |-> Off]
    /\ ready = [h \in Probes |-> NoCall]
    /\ guard = [r \in Requests |-> None]
    /\ seen = Unseen
    /\ any = [h \in Probes |-> {}]

Next ==
    /\ \/ \E s \in Scrapes : ScrapeSteps(s)
       \/ \E h \in Probes : ReadySteps(h)
       \/ Others
    /\ Observe

Spec == Init /\ [][Next]_vars

(***************************************************************************)
(* Properties                                                              *)
(***************************************************************************)
\* n is the sum of one size per shard, each from a set of sizes.
SumsTo(sizes, n) ==
    \E f \in [Shards -> UNION {sizes[i] : i \in Shards}] :
        /\ \A i \in Shards : f[i] \in sizes[i]
        /\ n = MapThenSumSet(LAMBDA i : f[i], Shards)

\* What a scrape renders for an address that kept its workers is a health and a load
\* they had since the burst of overlapping scrapes began: a slow scrape may overwrite
\* a newer value, but with nothing older than itself. The index size is a sum of one
\* size per shard, all from the burst - not always a size the whole index had, as the
\* shards are read one after another (metrics.rs, "Re-derive live gauges from their
\* sources right before a scrape"). An address that lost a worker or had none is left
\* out: refresh_gauges writes only the workers registered now, so there the gauge may
\* say 1 although metrics.rs:63 has "1 if the worker is currently healthy."
GaugesFresh ==
    \A s \in Scrapes : scrape[s].pc = "render" =>
        /\ SumsTo(seen.size, size)
        /\ \A u \in Urls \ seen.churned :
             gauges[u].up \in seen.up[u] /\ gauges[u].inflight \in seen.load[u]

\* /ready counts for the body and decides on the status code under two locks, so the
\* count and the code may disagree - but only if the first worker came up or the last
\* one went down during the call: a replica is never reported unready by its code, or
\* as without healthy workers, while some worker is healthy throughout. It is about the
\* count and the code only: the word in the body is "ready" whatever they say.
ReadyHonest ==
    \A h \in Probes : ready[h].pc = "answer" =>
        \A b \in BOOLEAN : any[h] = {b} =>
            ready[h].ok = b /\ (ready[h].healthy_workers > 0) = b
===========================================================================
