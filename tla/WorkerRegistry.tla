-------------------------- MODULE WorkerRegistry --------------------------
(***************************************************************************)
(* The worker registry (crates/router-core/src/worker.rs): the workers the *)
(* router knows, keyed by id, and the id allocator. A method touches the   *)
(* map under one lock, so it is one step of its caller. The callers -      *)
(* discovery, the health poller, requests - are modelled by the modules    *)
(* that extend this one.                                                   *)
(***************************************************************************)
EXTENDS Integers, Sequences, FiniteSets, Functions

CONSTANTS Urls,           \* worker base URLs: address and port of an engine
          StaticWorkers   \* the `workers` list of the configuration file

Pool == {"prefill", "decode", "both"}

ASSUME StaticWorkersAssumption == StaticWorkers \in Seq([url : Urls, pool : Pool])

VARIABLES workers,   \* id -> [url, pool, healthy] of every registered worker
          next_id    \* the next id to allocate

registryVars == <<workers, next_id>>

StaticIds == 0 .. Len(StaticWorkers) - 1

WorkerState == [url : Urls, pool : Pool, healthy : BOOLEAN]

RegistryType ==
    /\ next_id \in Nat
    /\ DOMAIN workers \subseteq Nat
    /\ \A w \in DOMAIN workers : workers[w] \in WorkerState

\* WorkerRegistry::from_config: dense ids in configuration order, all unhealthy.
from_config ==
    /\ workers = [id \in StaticIds |->
                    [url |-> StaticWorkers[id + 1].url,
                     pool |-> StaticWorkers[id + 1].pool,
                     healthy |-> FALSE]]
    /\ next_id = Len(StaticWorkers)

\* register_worker: allocate a fresh id; the worker starts unhealthy. The id is
\* taken before the lock, but discovery's one task is the only caller.
register_worker(url, pool) ==
    /\ next_id' = next_id + 1
    /\ workers' = [id \in DOMAIN workers \cup {next_id} |->
                     IF id = next_id
                     THEN [url |-> url, pool |-> pool, healthy |-> FALSE]
                     ELSE workers[id]]

RemoveAlsoFreesId(id) ==
    /\ workers' = Restrict(workers, DOMAIN workers \ {id})
    /\ next_id' = IF id = next_id - 1 THEN id ELSE next_id

\* remove_worker: forget the worker; its id is not given back.
remove_worker(id) ==
    /\ workers' = Restrict(workers, DOMAIN workers \ {id})
    /\ UNCHANGED next_id

\* What set_healthy returns: the worker is registered and its state changes.
HealthChanges(id, healthy) ==
    /\ id \in DOMAIN workers
    /\ workers[id].healthy # healthy

SetHealthyWithoutLookup(id, healthy) ==
    /\ workers' = [w \in DOMAIN workers \cup {id} |->
                     IF w = id
                     THEN [url |-> IF w \in DOMAIN workers THEN workers[w].url
                                   ELSE CHOOSE u \in Urls : TRUE,
                           pool |-> "both", healthy |-> healthy]
                     ELSE workers[w]]
    /\ UNCHANGED next_id

\* set_healthy: a no-op for an id that is no longer registered.
set_healthy(id, healthy) ==
    /\ workers' = [w \in DOMAIN workers |->
                     IF w = id THEN [workers[w] EXCEPT !.healthy = healthy]
                     ELSE workers[w]]
    /\ UNCHANGED next_id

SnapshotOfHealthy ==
    {[id |-> w, url |-> workers[w].url] : w \in {v \in DOMAIN workers : workers[v].healthy}}

\* all_workers: the snapshot one polling round walks, in id order.
all_workers == {[id |-> w, url |-> workers[w].url] : w \in DOMAIN workers}

healthy_workers == {w \in DOMAIN workers : workers[w].healthy}
===========================================================================
