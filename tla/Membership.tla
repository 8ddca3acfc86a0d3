---------------------------- MODULE Membership ----------------------------
(***************************************************************************)
(* The control plane of the router: everything that reads or writes the    *)
(* worker registry, the in-flight counters and the prefix index's credit,  *)
(* running concurrently:                                                   *)
(*   - discovery (module Discovery), one task;                             *)
(*   - the health poller (crates/router-server/src/health.rs), one task;   *)
(*   - requests (serve_proxied in crates/router-server/src/api.rs and      *)
(*     select_for_chat in crates/router-core/src/router.rs), any number.   *)
(* A step is one call on shared state or one await. The prefix index is    *)
(* seen as the set of workers it credits with at least one block; module   *)
(* PrefixIndex has its shards, blocks and clock.                           *)
(***************************************************************************)
EXTENDS Discovery

CONSTANTS Requests,       \* concurrent requests
          MaxChanges,     \* bound: slice changes in the cluster
          MaxFailures,    \* bound: errors of the watch stream
          MaxCrashes      \* bound: crashes of engines

ASSUME MembershipAssumption ==
    /\ IsFiniteSet(Requests)
    /\ Cardinality(Requests) < CountMod
    /\ MaxChanges \in Nat /\ MaxFailures \in Nat /\ MaxCrashes \in Nat

VARIABLES up,         \* urls whose engine answers its health endpoint
          ppc,        \* the poller: "sleep", "probe", "apply", "purge"
          todo,       \* workers of this round's snapshot not finished yet
          probed,     \* the worker being probed
          answer,     \* its probe's outcome
          req,        \* request -> [pc, worker]
          changes, failures, crashes,   \* how much of each bound is used
          stray,      \* history: workers credited while down, leaving or gone
          covered     \* history: workers that had a counter when registered

pollVars == <<ppc, todo, probed, answer>>
boundVars == <<changes, failures, crashes>>
historyVars == <<stray, covered>>
vars == <<registryVars, trackerVars, discoveryVars, affinity, up, pollVars, req,
          boundVars, historyVars>>

Snapshot == [id : Nat, url : Urls]
NoWorker == [id |-> None]
Idle == [pc |-> "idle", worker |-> None]

(***************************************************************************)
(* Engines (external)                                                      *)
(***************************************************************************)
EngineCrashes(u) ==
    /\ crashes < MaxCrashes
    /\ u \in up
    /\ up' = up \ {u}
    /\ crashes' = crashes + 1
    /\ UNCHANGED <<registryVars, trackerVars, discoveryVars, affinity, pollVars, req,
                   changes, failures, historyVars>>

EngineStarts(u) ==
    /\ u \in Urls \ up
    /\ up' = up \cup {u}
    /\ UNCHANGED <<registryVars, trackerVars, discoveryVars, affinity, pollVars, req,
                   boundVars, historyVars>>

(***************************************************************************)
(* The cluster and discovery                                               *)
(***************************************************************************)
ClusterChanges ==
    /\ changes < MaxChanges
    /\ changes' = changes + 1
    /\ \E s \in Slices :
         \/ \E content \in SliceContents : SliceApplied(s, content)
         \/ SliceDeleted(s)
    /\ UNCHANGED <<registryVars, trackerVars, affinity, up, pollVars, req,
                   failures, crashes, historyVars>>

DiscoveryFails ==
    /\ failures < MaxFailures
    /\ failures' = failures + 1
    /\ WatchFails
    /\ UNCHANGED <<registryVars, trackerVars, affinity, up, pollVars, req,
                   changes, crashes, historyVars>>

DiscoveryWatches ==
    /\ \/ WatchInit
       \/ \E s \in Slices : WatchInitApply(s)
       \/ WatchInitDone
       \/ WatchEvent
       \/ WatchAgain
    /\ UNCHANGED <<registryVars, trackerVars, affinity, up, pollVars, req,
                   boundVars, historyVars>>

DiscoveryReconciles ==
    /\ \/ \E u \in Urls : PurgeGone(u)
       \/ UnregisterGone
       \/ FinishReconcile
    /\ UNCHANGED <<up, pollVars, req, boundVars, historyVars>>

DiscoveryRegisters ==
    /\ \E u \in Urls : RegisterNew(u)
    /\ covered' = IF next_id < slots THEN covered \cup {next_id} ELSE covered
    /\ UNCHANGED <<up, pollVars, req, boundVars, stray>>

DiscoverySteps == DiscoveryWatches \/ DiscoveryReconciles \/ DiscoveryRegisters

(***************************************************************************)
(* The health poller                                                       *)
(***************************************************************************)
\* A round begins with a snapshot of the registry.
PollRound ==
    /\ ppc = "sleep"
    /\ todo' = all_workers
    /\ ppc' = "probe"
    /\ UNCHANGED <<registryVars, trackerVars, discoveryVars, affinity, up, probed,
                   answer, req, boundVars, historyVars>>

\* The probe of the next worker, in id order, completes.
Probe ==
    /\ ppc = "probe"
    /\ \E w \in todo :
         /\ \A v \in todo : w.id <= v.id
         /\ probed' = w
         /\ todo' = todo \ {w}
         /\ answer' = (w.url \in up)
    /\ ppc' = "apply"
    /\ UNCHANGED <<registryVars, trackerVars, discoveryVars, affinity, up, req,
                   boundVars, historyVars>>

\* set_healthy with the answer; a worker that just went down is purged next.
ApplyProbe ==
    /\ ppc = "apply"
    /\ set_healthy(probed.id, answer)
    /\ answer' = FALSE
    /\ IF HealthChanges(probed.id, answer) /\ ~answer
       THEN ppc' = "purge" /\ UNCHANGED probed
       ELSE ppc' = "probe" /\ probed' = NoWorker
    /\ UNCHANGED <<trackerVars, discoveryVars, affinity, up, todo, req, boundVars,
                   historyVars>>

PurgeNobody ==
    /\ ppc = "purge"
    /\ UNCHANGED affinity
    /\ ppc' = "probe"
    /\ probed' = NoWorker
    /\ UNCHANGED <<registryVars, trackerVars, discoveryVars, up, todo, answer, req,
                   boundVars, historyVars>>

PurgeDown ==
    /\ ppc = "purge"
    /\ affinity' = affinity \ {probed.id}
    /\ ppc' = "probe"
    /\ probed' = NoWorker
    /\ UNCHANGED <<registryVars, trackerVars, discoveryVars, up, todo, answer, req,
                   boundVars, historyVars>>

PollSleep ==
    /\ ppc = "probe" /\ todo = {}
    /\ ppc' = "sleep"
    /\ UNCHANGED <<registryVars, trackerVars, discoveryVars, affinity, up, todo,
                   probed, answer, req, boundVars, historyVars>>

PollerSteps == PollRound \/ Probe \/ ApplyProbe \/ PurgeDown \/ PollSleep

(***************************************************************************)
(* Requests                                                                *)
(***************************************************************************)
\* select_for_chat's candidates: healthy `both` workers if any, else any healthy.
candidates ==
    LET both == {w \in healthy_workers : workers[w].pool = "both"}
    IN IF both # {} THEN both ELSE healthy_workers

\* The selection of one candidate; which one is the policy's business.
Select(r) ==
    /\ req[r].pc = "idle"
    /\ \E w \in candidates : req' = [req EXCEPT ![r] = [pc |-> "record", worker |-> w]]
    /\ UNCHANGED <<registryVars, trackerVars, discoveryVars, affinity, up, pollVars,
                   boundVars, historyVars>>

\* select_for_chat records the chain against the chosen worker.
Record(r) ==
    /\ req[r].pc = "record"
    /\ affinity' = affinity \cup {req[r].worker}
    /\ req' = [req EXCEPT ![r].pc = "acquire"]
    /\ stray' = IF req[r].worker \in healthy_workers \ {victim} THEN stray
                ELSE stray \cup {req[r].worker}
    /\ UNCHANGED <<registryVars, trackerVars, discoveryVars, up, pollVars, boundVars,
                   covered>>

\* serve_proxied takes the in-flight guard and sends the request upstream.
Acquire(r) ==
    /\ req[r].pc = "acquire"
    /\ increment(req[r].worker)
    /\ req' = [req EXCEPT ![r].pc = "inflight"]
    /\ UNCHANGED <<registryVars, discoveryVars, affinity, up, pollVars, boundVars,
                   historyVars>>

\* The upstream failed, the body was drained or the client left: Drop.
Release(r) ==
    /\ req[r].pc = "inflight"
    /\ decrement(req[r].worker)
    /\ req' = [req EXCEPT ![r] = Idle]
    /\ UNCHANGED <<registryVars, discoveryVars, affinity, up, pollVars, boundVars,
                   historyVars>>

RequestSteps(r) == Select(r) \/ Record(r) \/ Acquire(r) \/ Release(r)

(***************************************************************************)
(* The eviction task: the last block credited to a worker expires or is    *)
(* trimmed.                                                                *)
(***************************************************************************)
EvictionForgets ==
    /\ \E w \in affinity : affinity' = affinity \ {w}
    /\ UNCHANGED <<registryVars, trackerVars, discoveryVars, up, pollVars, req, boundVars,
                   historyVars>>

(***************************************************************************)
(* Specification                                                           *)
(***************************************************************************)
Init ==
    /\ from_config
    /\ with_capacity(Len(StaticWorkers))
    /\ DiscoveryInit
    /\ up = Urls
    /\ ppc = "sleep" /\ todo = {} /\ probed = NoWorker /\ answer = FALSE
    /\ req = [r \in Requests |-> Idle]
    /\ changes = 0 /\ failures = 0 /\ crashes = 0
    /\ stray = {}
    /\ covered = StaticIds

Next ==
    \/ \E u \in Urls : EngineCrashes(u) \/ EngineStarts(u)
    \/ ClusterChanges
    \/ DiscoveryFails
    \/ DiscoverySteps
    \/ PollerSteps
    \/ EvictionForgets
    \/ \E r \in Requests : RequestSteps(r)

Spec == Init /\ [][Next]_vars

\* Both background tasks run for the life of the process: run_discovery loops
\* over bounded backoffs, the poller over bounded probes and a fixed sleep.
Fairness == WF_vars(DiscoverySteps) /\ WF_vars(PollerSteps)

FairSpec == Spec /\ Fairness

(***************************************************************************)
(* Properties                                                              *)
(***************************************************************************)
Guards(w) == {r \in Requests : req[r].pc = "inflight" /\ req[r].worker = w}

PollType ==
    /\ ppc \in {"sleep", "probe", "apply", "purge"}
    /\ todo \subseteq Snapshot
    /\ IF ppc \in {"apply", "purge"} THEN probed \in Snapshot ELSE probed = NoWorker
    /\ answer \in BOOLEAN

RequestType ==
    /\ req \in [Requests -> [pc : {"idle", "record", "acquire", "inflight"},
                             worker : Nat \cup {None}]]
    /\ \A r \in Requests : req[r].pc # "idle" => req[r].worker \in Nat

\* Every variable keeps its type; the locals of each task agree with its position.
TypeOK ==
    /\ RegistryType
    /\ TrackerType
    /\ WatchType
    /\ ReconcileType
    /\ PollType
    /\ RequestType
    /\ affinity \subseteq Nat /\ stray \subseteq Nat /\ covered \subseteq Nat
    /\ up \subseteq Urls
    /\ changes \in 0 .. MaxChanges
    /\ failures \in 0 .. MaxFailures
    /\ crashes \in 0 .. MaxCrashes

\* An id not allocated yet is known to nobody: no credit in the index, no load,
\* no request, no poll and no discovery entry refers to it, so the worker that
\* gets it starts with a clean history (worker.rs, "Ids are never reused").
FreshIdentity ==
    /\ \A w \in DOMAIN workers \cup affinity \cup stray \cup covered : w < next_id
    /\ \A u \in DOMAIN by_url : by_url[u] < next_id
    /\ victim # None => victim < next_id
    /\ \A w \in todo : w.id < next_id
    /\ ppc \in {"apply", "purge"} => probed.id < next_id
    /\ \A r \in Requests : req[r].pc # "idle" => req[r].worker < next_id
    /\ \A w \in 0 .. slots - 1 : w >= next_id => counts[w] = 0

\* No step brings an id back, or gives an id another url: a replacement worker
\* cannot inherit what is keyed to a removed one, whatever races with it
\* (set_healthy of a removed worker, for one).
NeverReused ==
    [][/\ \A w \in DOMAIN workers' \ DOMAIN workers : w >= next_id
       /\ \A w \in DOMAIN workers' \cap DOMAIN workers :
            workers'[w].url = workers[w].url]_vars

\* The workers registered at run time are exactly those discovery owns, each
\* under its url and once, and the one it is about to unregister: discovery's map
\* and the registry never drift apart, in no interleaving with the poller. What
\* becomes of the configured workers is the claim DiscoveredReplaceStatic.
RegistryMatchesDiscovery ==
    /\ DOMAIN workers \ StaticIds = {by_url[u] : u \in DOMAIN by_url}
                                       \cup ({victim} \ {None})
    /\ \A u \in DOMAIN by_url : workers[by_url[u]].url = u
    /\ \A u, v \in DOMAIN by_url : by_url[u] = by_url[v] => u = v
    /\ \A u \in DOMAIN by_url : by_url[u] # victim

\* Discovery is back at its stream and has nothing left to read.
CaughtUp == dpc = "watch" /\ wphase = "live" /\ stream = <<>>

\* When the task has caught up, discovery owns exactly the addresses the cluster
\* advertises, however many slices share or hand over an address and however
\* often the watch was reopened. It is meant where ReadyAlwaysSet: an endpoint with
\* ready unset is advertised by discovery.rs:270 and never registered by the code.
Synced == CaughtUp => DOMAIN by_url = Advertised

\* A worker that had a counter when it was registered has an exact count for
\* ever: growth of the vector, removal of the worker and failed requests neither
\* lose nor invent load (inflight.rs, "in-flight counts can never leak").
CoveredExact ==
    \A w \in covered : w < slots /\ counts[w] = Cardinality(Guards(w))

\* A worker that is not healthy, or no longer registered, is credited with cached
\* blocks only until its purge, unless a request that had chosen it before it went
\* down or away recorded its chain after the purge had begun: the late record is
\* the only way a dead cache keeps its credit.
CreditOfUnhealthy ==
    /\ \A w \in affinity :
         \/ w \in healthy_workers
         \/ w \in stray
         \/ ppc = "purge" /\ probed.id = w
    /\ victim \in affinity => victim \in stray

\* Once changes and failures stop, discovery owns what the cluster advertises
\* (where ReadyAlwaysSet, as for Synced).
DiscoveryConverges ==
    <>[](dpc = "off" \/ DOMAIN by_url = Advertised)

\* Once engines stop changing state, every registered worker is in rotation
\* exactly when its engine answers.
HealthConverges ==
    <>[](\A w \in DOMAIN workers : workers[w].healthy <=> (workers[w].url \in up))

(***************************************************************************)
(* What comments of the code claim and the code does not do                *)
(***************************************************************************)
\* discovery.rs:182 "Keep the in-flight tracker large enough for newly
\* discovered ids": after every reconcile each registered worker has a counter.
CapacityCoversWorkers ==
    dpc = "watch" => \A w \in DOMAIN workers : w < slots

\* inflight.rs:86-88: "in-flight counts can never leak, and the load term of the
\* cache-aware score stays correct": no worker seems busier than it is.
NoPhantomLoad ==
    \A w \in DOMAIN workers : count(w) <= Cardinality(Guards(w))

\* config.rs:139-141: with discovery enabled "the discovered set replaces it at
\* runtime, and the static list only acts as the fallback when not running
\* in-cluster": a router in a cluster that has caught up has no other workers.
DiscoveredReplaceStatic ==
    CaughtUp => DOMAIN workers = {by_url[u] : u \in DOMAIN by_url}
===========================================================================
