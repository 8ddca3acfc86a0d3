# A TLA+ model of kvRouteRS

kvRouteRS is an HTTP router in front of LLM inference engines. It sends a chat
completion to the worker that most likely has the prompt's KV blocks cached and
is not too busy, and streams the engine's answer back. This directory holds TLA+
modules for the parts that keep shared state, TLC configurations that check them
on small instances, and TLAPS proofs for every instance.

Paths below are relative to the repository; `core` is `crates/router-core/src`
and `server` is `crates/router-server/src`.

## The system

| Part | State | Operations | Who calls it |
|---|---|---|---|
| Worker registry (`core/worker.rs`) | id -> url, pool, healthy; `next_id` | `from_config`, `register_worker`, `remove_worker`, `set_healthy`, snapshots | discovery, health poller, every selection |
| In-flight tracker (`core/inflight.rs`) | a vector of atomic u64 counters indexed by worker id | `ensure_capacity`, `increment`, `decrement`, `count`; the RAII guard | discovery grows it, requests count, selections read |
| Prefix index (`core/prefix.rs`) | 64 locked shards: block hash -> credited workers, last touch | `record`, `longest_match`, `remove_worker`, `evict` and its task | selections, discovery, health poller, eviction task |
| Router (`core/router.rs`) | the policy, a round-robin counter | `select_for_chat`, `select_in_pool` | request handlers |
| Discovery (`server/discovery.rs`) | known slices, url -> id | watch events, `reconcile`, restart with backoff | one background task |
| Health poller (`server/health.rs`) | a snapshot of the registry | probe, `set_healthy`, purge | one background task |
| HTTP API (`server/api.rs`) | one future and one body stream per request | `serve_proxied`, `serve_disaggregated`, `proxy_stream`; `metrics`, `ready` | clients, operators |
| KV transfer (`core/kv_transfer.rs`) | none | `transfer` | `serve_disaggregated` |
| Hashing and request format (`core/hashing.rs`, `core/request.rs`) | none | `canonical_prompt`, `chain_hash` | every selection |
| Metrics (`server/metrics.rs`) | counters, gauges, per-worker hit statistics | `record_*`, `set_*`, `refresh_gauges`, `predicted_cache_hit_rate` | request handlers, `/metrics`, the scraper |
| Engine scraper (`server/engine_metrics.rs`, `server/prometheus_text.rs`) | a snapshot of the registry | scrape, `find_metric`, three gauges | one background task |
| Mock engine (`mocks/mock_vllm.py`) | an LRU of block hashes | `record_and_match`, `chat_completions` | the router, over HTTP |
| Python bindings (`crates/router-py/src/lib.rs`) | a core router per policy, created on first use; an index with the set of its workers | `route`, `select_worker`; `insert`, `lookup`, `evict_stale` | Python threads, without the GIL |
| Configuration, SDK, benchmarks | - | - | see "What is not modelled" |

Everything shares one registry, one tracker and one index, behind separate locks
or atomics, and no operation holds two locks. So the hard behaviours are:

- a task acts on a snapshot or a decision that is stale by the time it acts (a
  poll's answer for a removed worker, a record after a purge, a trim of what an
  earlier pass collected);
- a multi-call operation is interrupted between its calls (purge, then
  unregister; register, then grow the counters; shard by shard purges and sweeps);
- a request fails, or its client leaves, at any await, while it owns a guard;
- a response body is cut into chunks at places that mean nothing;
- a watch ends and starts again from nothing;
- what the router believes of an engine's cache and what the engine holds drift
  apart: requests overtake each other, fail after they were recorded, engines
  evict and crash, a probe times out;
- gauges are named by url and written one by one, the state behind them is kept by
  id and moves meanwhile;
- Python threads share routers that the first of them creates;
- worker ids only grow, counters wrap, the cap on the index is shared.

What makes each part correct: ids are never reused and the registry agrees with
discovery; counters equal the guards that exist; the index credits a worker only
with what was recorded for it, and forgets it when told to; a sweep honours the
cap; a selection follows the documented order on what it read; every request is
answered, accounted for once, and releases what it took; the credit of a worker
is the block prefix it was really sent, and the prediction differs from the
engine's answer only for reasons one can name; what operators read was true a
moment ago.

## Modules

| Module | Models | State and actions |
|---|---|---|
| `WorkerRegistry` | `core/worker.rs` | `workers`, `next_id`; one operator per method |
| `InflightTracker` | `core/inflight.rs` | `counts`, `slots` (the vector's length); u64 wrap-around as `% CountMod`; an id beyond the vector is ignored by `increment` and `decrement` and counts 0 |
| `Discovery` | `server/discovery.rs` | the watch's phases, the slice map, `by_url`, and `reconcile` as one step per registry, index or tracker call. Cluster and event stream are external: Init, InitApply in any order, InitDone, then changes in order |
| `Membership` | the composition: registry, tracker, discovery, the health poller (`server/health.rs`), and requests as select / record / acquire / release | the index is abstracted to the set of workers credited with anything (`affinity`) |
| `PrefixBelief` | what users of the index rely on | a set of (worker, block) credits that only a record under way extends |
| `PrefixIndex` | `core/prefix.rs` | `entries`, and per thread the locals of its call; one step per lock section: a block for `record` and `longest_match`, a shard for `remove_worker` and `evict` |
| `Selection` | `core/router.rs`, with the lock sections of `longest_match` and `record` | a candidate's match is read block by block, its counter twice, and the chain is recorded block by block, each a step, interleaved with other selections, purges and evictions |
| `RequestFlow` | `server/api.rs` | one step per await or per call on shared state, both flows, and the body one poll at a time |
| `Prompt` | `core/request.rs`, `core/hashing.rs` and the mock's mirror of both | operators only: canonical prompts, blocks, the router's chain and the engine's digests |
| `MockEngine` | the KV cache of `mocks/mock_vllm.py` | `cache`, an LRU per engine; `up` |
| `HitStats` | `server/metrics.rs`, `server/engine_metrics.rs`, `server/prometheus_text.rs` | counters, hit statistics, gauges; the scraper, one await or gauge per step |
| `CacheAffinity` | the composition: requests matched and recorded by the router, matched and recorded by an engine, counted; evictions, crashes, the poller's purge, the scraper | `credit` (worker -> hashes), `req` (a `RouteDecision` and how far it got) |
| `Exposition` | `/metrics` with `refresh_gauges`, and `/ready`, beside everything that moves what they read | `gauges`, `size`; one read of shared state (one shard, for the size of the index) or one gauge per step; discovery, poller, requests and index reduced to the changes a reader sees |
| `PyBindings` | `crates/router-py/src/lib.rs` over the core's selection | `heap` and `routers` (the core routers and the map to them), `credit` and `listed` (the `PrefixIndex` object), per thread the locals of its call |
| `MembershipProofs`, `PrefixIndexProofs`, `RequestFlowProofs`, `SelectionProofs`, `ExpositionProofs`, `PyBindingsProofs`, `CacheAffinityProofs` | | theorems about the module of that name |
| `Extrema` | | lemmas about least and greatest numbers, and about sums |
| `MC*` | | constants for TLC |

`EXTENDS` mirrors the calls: `Discovery` extends `WorkerRegistry` and
`InflightTracker`; `Membership` extends `Discovery`; `Exposition` extends
`WorkerRegistry` and `InflightTracker`; `Selection` and
`RequestFlow` extend `InflightTracker`; `MockEngine` extends `Prompt`, `HitStats`
(which scrapes the engines) extends `MockEngine`, and `CacheAffinity` extends
`HitStats`. Names follow the source: an operator in
snake case is a function of the code. `PROJECT.json` maps each definition to its
lines.

Abstractions:

- Urls, slices, blocks and requests are model values. An endpoint's readiness
  keeps the four cases `endpoint_is_ready` tells apart.
- `Instant` is a counter (`clock`) that may advance at any time up to `MaxNow`.
- Weights and scores are integers in `Selection`, and all requests share one prompt,
  whose blocks are 1, 2, ... A purge takes any part of a worker's blocks away, an
  eviction one block from everyone; `MaxSelections` bounds, per
  policy, how many selections are begun. `PyBindings` has weights as `f64` values: any
  integer, infinity or NaN, with products and comparisons that follow. Its loads are
  0, because nothing in-process takes a guard.
- In `Exposition` a reconcile and the growth of the counters after it are one step
  (`Membership` has them call by call), and the index is its number of entries per
  shard. A purge leaves any smaller number in each shard.
- In `RequestFlow` a body is a sequence of half events. `chunk_contains_done`
  and `count_content_chunks` look for a byte string within one chunk, and a cut
  between the two halves is a cut inside it.
- A response cannot be built when the worker's url, or another header, is no legal
  header value; the workers in `Unprintable` have such a url.
- `Leave` covers every way a future or body is dropped: the client's disconnect,
  and the server giving up a body that returned an error.
- A hash is the data it was computed from, so hashes do not collide. The router's
  chain and the engine's digests are different values and are never compared.
- A rate is kept as numerator and denominator; a prediction error as its two rates.
- In `CacheAffinity` a match, a record and an eviction are one step each
  (`PrefixIndex` has their locks), and any healthy worker may be chosen
  (`Selection` has the choice). A phase of a disaggregated request is a request;
  a prefill phase ends in `Leave`, because it is not counted.
- The variables marked "history" record the past for a property and guard nothing.

## Runs

Twelve runs. Eight pass; the other four refute what a comment or a document says,
and are the findings.

| Run | Question | Bounds, and why they are enough |
|---|---|---|
| `membership` | Are the workers registered at run time exactly discovery's in every state (`RegistryMatchesDiscovery`), has discovery caught up whenever it has nothing to read (`Synced`), and do discovery and health converge (`DiscoveryConverges`, `HealthConverges`)? | no requests (they do not change the registry), 2 slices over 2 addresses, of which one is ready in one slice and held back in the other, 2 changes, 1 watch failure and 1 crash at any point: a hand-over between slices during a re-list takes all of them |
| `membership_requests` | Ids (`FreshIdentity`, `NeverReused`), counters (`CoveredExact`) and credit (`CreditOfUnhealthy`), with `TypeOK` | 2 requests, 1 configured and 1 flapping address, 2 changes, 1 crash: a worker can be removed and replaced while both requests hold it |
| `prefix_index` | Is a purge complete behind itself (`PurgeComplete`), can an empty entry remain (`NoEmptyEntry`), does a sweep honour the cap (`SweepBound`) without evicting more (`SweepKeepsCap`), does the index implement `PrefixBelief` (`ImplementsBelief`)? with `TypeOK` | 1 caller, 1 purger, 1 sweeper, 1 worker, 3 blocks in 2 shards, a chain over both, cap 1, 2 instants: overflow by two, inserts and removals between any two passes. More of each is covered by the proofs |
| `selection` | Does an undisturbed scan choose the documented worker (`QuietChoice`), does a disturbed one ever choose a worker that was worse all along (`NeverWorseAllAlong`), does concurrent round robin stay even (`EvenSpread`)? | 2 requests, 3 workers in 2 pools, health changing, a prompt of 2 blocks, 2 selections that score or 4 of round robin: a block can be evicted after a match has found it and the next one recorded before it looks there, and a candidate list goes out of date between list and ticket. A third scan would meet no more load than the second: a request holds one guard |
| `cache_affinity` | Is a worker's credit the block prefix it was sent (`CreditIsSharedPrefix`)? When do prediction and engine differ (`UnderCreditExplained`, `MirrorExact`)? Do counters and statistics (`CountersAgree`) and the gauges (`GaugesBelongTogether`) agree? | 1 worker (workers share only the eviction of an entry and the sums), 2 concurrent and 3 requests in all, 4 prompts of 0 to 3 blocks whose blocks recur behind other blocks, an engine cache of 2 blocks, so that it evicts and the longest prompt does not fit, 2 background events among evictions, crashes, timed-out probes and scrape rounds |
| `request_flow` | Is the body passed on unchanged and terminated (`StreamTerminated`), its tokens counted once (`TokensExact`), the handler always done (`HandlerAnswers`)? Are guards exact (`GuardsExact`) and requests accounted for as the client saw them (`Accounted`)? with `TypeOK` | 2 requests, a prefill and a decode worker, both flows, bodies of up to 2 events in every chunking, failures and departures at every await |
| `exposition` | Is a rendered gauge a value its source had since the overlapping scrapes began (`GaugesFresh`)? Are count and status code of `/ready` those of the registry (`ReadyHonest`)? | 2 scrapes, 1 probe, 1 request, 2 shards, a configured worker and one that comes and goes, at its address or another, 4 moves around the calls: a worker can be registered, come up, take a request and go, or both shards move, during one scrape; the last worker can go down and come up again between the two reads of a probe |
| `python_bindings` | Does each policy's router believe exactly what its calls dispatched (`BeliefExact`)? Is the choice well defined for every weight (`SoundChoice`)? Does a lookup miss an insert (`LookupFaithful`)? | 2 threads, 2 workers, 5 calls, prompts of 0 to 2 blocks, weights that are positive, negative, infinite and NaN: both threads race for both policies, and inserts, lookups and evictions overlap |
| `claim_capacity` | refutes `CapacityCoversWorkers` | 17 watch failures, each of which replaces every worker |
| `claim_load` | refutes `NoPhantomLoad` | 1 request, no changes |
| `claim_fallback` | refutes `DiscoveredReplaceStatic` | 1 configured worker, 1 slice |
| `claim_broken` | refutes `BrokenCounted` | 1 request |

`CountMod` = 8 stands for 2^64: larger than the number of guards, so the only way
to a wrap is the code's. `Slack` is the code's own 16. Symmetry is over
requests, scrapes or threads; no run with a liveness property uses it.
`python_bindings` does not check for deadlock, because a program may make no more
calls.

Fairness. `membership` assumes weak fairness of the discovery task and of the
poller: both are loops with bounded sleeps and calls that time out. Nothing is
assumed of engines or the cluster, except that the bounds end their changes.
`request_flow` assumes weak fairness of a request's handler steps: every await
of the handler is a call of the HTTP client, which has a 2 s connect and a 120 s
total timeout, or a sleep. Nothing is assumed about clients or about who polls a
body, so the property ends at the response head.

### Findings

- `claim_capacity` (`server/discovery.rs:186`): the counters grow to "live
  workers + 16" while ids grow for ever, so after about 16 replacements a new
  worker has no counter and looks idle.
- `claim_load` (`server/discovery.rs:183`): a worker is registered before its
  counter exists. A guard taken in between is not counted, but its drop is: the
  counter wraps to 2^64 - 1 and the worker is not chosen again. `CoveredExact` is the
  complement: a worker whose counter existed at registration is never affected.
- `claim_fallback` (`server/state.rs:34`): the configured workers are registered
  whether or not discovery is enabled, and nothing removes them. `config.rs:139-141`
  says the discovered set replaces them and that they are only the fallback outside a
  cluster. `RegistryMatchesDiscovery` says nothing about them.
- `claim_broken` (`server/api.rs:253`): a stream that broke is counted as a 502 by the
  poll after the error, which a server that drops the failed body never makes.
  `docs/ARCHITECTURE.md:112-114` says it is counted. `Accounted` says what holds: it is
  counted as a 502 or not at all.

Further disagreements with a comment, which no run shows because the passing
properties keep clear of them:

- `discovery.rs:156-158`, "an event for one slice never removes the workers advertised
  by another", and 170-171, "the watcher itself recovers from restarts internally",
  against `discovery.rs:159`: a re-opened watch starts with an empty slice map and
  reconciles before the list has arrived, so every discovered worker is dropped and
  comes back unhealthy, cold and under a new id. `Synced` and `DiscoveryConverges` say
  what holds once the list has been read.
- `discovery.rs:270`, "`ready` defaults to true when unset", against `discovery.rs:91`:
  an endpoint whose conditions leave `ready` out is not registered; only one without
  any conditions is, and the test that comment stands in has that case only.
  `Advertised`, which `Synced` and `DiscoveryConverges` compare with, is what the comment
  means and not what the code computes, so both are checked and proved where every
  endpoint with conditions states `ready` (`ReadyAlwaysSet`), and are false elsewhere.
- `metrics.rs:63`, "1 if the worker is currently healthy", against `metrics.rs:175`:
  `refresh_gauges` writes only what is registered, so the gauges of a removed worker
  keep their last value, and `kvrouter_worker_up` stays 1 for a pod that is gone.
  `GaugesFresh` is about the other addresses.
- `api.rs:374`, "ready once at least one worker has passed a health probe", against
  `api.rs:377`: the body of `/ready` says `"status": "ready"` with the 503 as well. The
  model has the word; `ReadyHonest` is about the count and the status code.

Seen while modelling, and left as the exceptions that passing properties name:

- A record that is late for its purge gives a dead or removed worker credit again
  (`CreditOfUnhealthy` says this is the only way).
- A response that cannot be built is a 500 nobody counts (`api.rs:350-356`); it takes
  a worker url, or an engine's header, that is no legal header value. `Accounted`
  allows it and `GuardsExact` says that the guard is released.
- A match read block by block can be longer than what the worker was ever credited
  with at once: block 1 found before it is evicted, block 2 after it was recorded.
  `NeverWorseAllAlong` grants a worker every block it had at some time of the scan, and
  holds with that.
- The size of the index that `/metrics` shows is a sum over shards read one after the
  other, and may be one the index never had (`GaugesFresh` says it is a sum of sizes
  the shards had).
- A `[DONE]` that a chunk boundary cuts is not recognised and the client gets a
  second one; a content event so cut is not counted (`StreamTerminated`,
  `TokensExact` say these are the only deviations).
- Stamps are taken before the lock, so `last_touched` can go back, and a trim
  removes victims that were touched after it collected them.
- `finish` counts hit blocks before prompt blocks, so a scrape between the two can
  show more hits than prompts (`CountersAgree` bounds the gap by the requests that
  are in `finish`).
- The engine can find more than the router predicted without any traffic that
  bypassed it (`metrics.rs:117-119` names only that and the engine's own
  admission): a request overtaken by another of the same prompt, an evicted entry,
  a purge after a probe that timed out (`UnderCreditExplained` says these are all).
- The mock's `record_and_match` looks for the last cached block of a prompt, while
  its LRU drops first blocks first, so it reports a prefix whose first blocks are
  gone.
- Two workers of one url share a gauge and the higher id wins. A slow scrape
  overwrites what a newer one wrote (`GaugesFresh` says a rendered value is never older
  than the burst of overlapping scrapes).
- With a weight that is not finite no two scores compare: the lowest id always
  wins, and neither cache nor load count any more (`SoundChoice`; the weights are
  not validated, neither in `config.rs` nor in the bindings).
- The in-process router takes no guard, so `load_weight` has no effect there, and
  nothing evicts its index, although it sets a TTL and a cap
  (`router-py/src/lib.rs:226-227`).

## Proofs

Checked by TLAPS for every value of the constants that satisfies the named
assumptions: finite sets, natural bounds, fewer requests than `CountMod`, prompts
that are sequences of messages, and a `None` that is none of the values it is told
apart from (in `SelectionAssumption`, `PyBindingsAssumption` and
`HitStatsAssumption`: not a `Scored`, a `Candidate` or a pair of counts either). TLC
evaluates each of them on the run of its module. Every inductive invariant below was
checked by TLC before it was proved, but for `CountInv`, which is `CountersAgree` in
other words.

`MembershipProofs`:

| Theorem | Statement | Argument |
|---|---|---|
| `TypeCorrect` | `Spec => []TypeOK` | inductive by itself because it ties the tasks' locals to their positions (`victim` is set exactly in "unregister", `gone` is within `by_url`); a lemma per component call, then one per task |
| `FreshIdentityHolds` | `[]FreshIdentity` | inductive with `TypeOK`: every copy of an id (snapshot, victim, request, credit) is taken from one below `next_id` |
| `NeverReusedHolds` | `NeverReused` | from `TypeOK` and `FreshIdentity`: only `register_worker` extends the registry, at `next_id` |
| `RegistryMatches` | `[]RegistryMatchesDiscovery` | `MatchInv`, which has the configured workers as well, is inductive with `TypeOK` and `FreshIdentity`; the `victim` conjuncts carry it over the two calls of a removal |
| `LoadIsExact` | `[]CoveredExact` | a counter below `slots` moves with its guards; growth keeps it; the wrap cannot happen because fewer requests than `CountMod` exist |
| `CreditHolds` | `[]CreditOfUnhealthy` | from the above; a worker leaves the healthy set only through `set_healthy`, followed by its purge, or `remove_worker`, preceded by one |
| `DiscoverySynced` | `ReadyAlwaysSet`: `[]Synced` | `Synced` speaks of one moment, so it is strengthened to all of them. `HeardInv`: the last undelivered change of a slice is what the cluster has; with none, the undelivered list is; with neither, the slice map is. `PhaseInv`: during a reconcile `gone` is exactly what `by_url` has too many, and after it `by_url` is the union of the slices |

`PrefixIndexProofs`:

| Theorem | Statement | Argument |
|---|---|---|
| `TypeCorrect` | `[]TypeOK` | a call's cursor stays within its chain, a touch within what was matched |
| `NoEmptyEntryHolds` | `[]NoEmptyEntry` | one write operation per lock section, each with its effect on one block or shard |
| `PurgeCompleteHolds` | `[]PurgeComplete` | case split: a purger's own step, and the step of any other thread. Only a record credits a block that was not credited (`OnlyRecordCredits`), so a touch or a sweep adds nothing behind the purge |
| `BeliefRefined` | `Spec => ImplementsBelief` | the mapping sends entries to credits and a record's remaining blocks to what it is learning; each step begins a record, learns, forgets or stutters |
| `SweepBoundHolds`, `SweepKeepsCapHolds` | `[]SweepBound`, `[]SweepKeepsCap` | `SweepInv`, one conjunct per pass: the count of the shards behind the sweep is off by at most what others inserted or removed; the collected hashes and the entries together are at most the count and the insertions, and what the collection missed behind it was inserted; the victims are the count's overflow or all that was collected. A step of another thread is in the two history counts (`SweepFrame`), a step of the sweep leaves them alone (`OwnSweep`) |

`RequestFlowProofs`:

| Theorem | Statement | Argument |
|---|---|---|
| `TypeCorrect` | `[]TypeOK` | one lemma for the handler's steps, one for the body's |
| `GuardsAreExact` | `[]GuardsExact` | the set of a worker's guards and its counter change together, by one; fewer requests than `CountMod` |
| `EveryRequestAccounted` | `[]Accounted`: at most one count, of the status the client saw | `AccountInv` says of every `pc` what has been recorded so far, with the proxy's flags for a body |
| `StreamsTerminate`, `TokensAreExact` | `[]StreamTerminated`, `[]TokensExact` | `DeliveryInv`: what was delivered and what is left are the upstream's body, cut where `cuts` says; the marker seen and the tokens counted are those of the delivered part. It rests on lemmas about counting over a sequence and its prefixes |

`SelectionProofs`:

| Theorem | Statement | Argument |
|---|---|---|
| `TypesAlways` | `[](TypeOK /\ PhaseInv)` | the types of the variables and of a selection's locals, which the module's runs leave to its properties |
| `NeverWorse`, `QuietChoices` | `[]NeverWorseAllAlong`, `[]QuietChoice` | `ScanInv`: the window of what a scan could have read (blocks a worker had at some time, blocks it had all along, loads) only widens. The blocks a match has found so far are among those the worker had at some time, and the block it misses is not among those it had all along, so a match ends at a length between the leading blocks of the two sets (`MatchEnds`). The best so far was made of such a length and a load, and beats something made of them for every worker already passed. The code's order is total and transitive, and products with a weight are monotone. A quiet window leaves one value for each |
| `RoundRobinIsEven` | `[]EvenSpread` | `SpreadInv`: since the candidate list last changed, a candidate was picked as often as its rank came up among the tickets, less at most the strays |

`ExpositionProofs`:

| Theorem | Statement | Argument |
|---|---|---|
| `ReadinessIsHonest` | `[]ReadyHonest`, about the count and the status code | what the two reads returned is among the values the registry had since the call began |
| `GaugesAreFresh` | `[]GaugesFresh` | `FreshInv`: the history of a burst holds the present; a scrape's local value is in it; an address is still to be visited by the scrape, or its gauges are fresh; the running total is a sum of one recorded size for each shard read so far |

`PyBindingsProofs`:

| Theorem | Statement | Argument |
|---|---|---|
| `BeliefsAreExact` | `[]BeliefExact` | `BeliefInv`: no two policies share a router, and its credit is the union of what that policy dispatched |
| `ChoicesAreSound` | `[]SoundChoice` | `ScanInv`: the best so far against everything read, by the kind of the weight (positive, negative, zero, infinite, NaN) |
| `LookupsAreFaithful` | `[]LookupFaithful` | `OwedInv`: what a returned insert is owed is listed and credited, and a lookup under way has read it or has its worker left |

`CacheAffinityProofs`:

| Theorem | Statement | Argument |
|---|---|---|
| `SameText` | router and mock render every list of messages to the same text | by the least number of messages for which the two, cut before or after the newline, differ |
| `TypeCorrect` | `[]TypeOK` | a request's locals are tied to how far it got, what it was told to its prompt's blocks |
| `CreditAlways` | `[]CreditIsSharedPrefix` | two chain hashes are equal iff they are of the same place and the texts agree up to the end of that block (`ChainsMeet`), so a prompt's hashes that are in another's chain are its first `SharedBlocks` ones. `CreditInv`: a worker's credit is of prompts it was sent since its purge, and what of those is not credited was forgotten |
| `UnderCreditAlways` | `SameBlocks`: `[]UnderCreditExplained` | digests are equal iff the chain hashes are (`HashesMeet`). `KnownInv`: what an engine holds, or is about to be sent, was once credited. `MissedInv`: while a request without an excuse is on its way, the first block it missed is neither known nor on its way with another request, and so is no later one held |
| `MirrorAlways` | `SameBlocks`: `[]MirrorExact` | `ExactInv`: where nothing was lost, a block is credited iff it is held or on its way, and with all blocks before it. `AloneInv`: a request nobody overtakes is the only one on its way and was told exactly what is held |
| `CountersAlways` | `[]CountersAgree` | `CountInv`; each of `finish`'s updates moves one counter and one term of a sum. Rests on the lemmas of `Extrema` about sums |
| `GaugesAlways` | `[]GaugesBelongTogether` | `GaugeInv`: the scraper's local rate is the one it has set, and a worker with an error has had traffic, so the scraper cannot set a rate and leave the error |

`SameBlocks` says that router and engine have one block size: the mock's
`PREFIX_BLOCK_CHARS` is the constant 512, the router's default and what its
end-to-end tests set. With two sizes the two properties fail, and are not meant to
hold. `MirrorExact` was wrong as first stated: a prompt longer than the engine's
cache does not fit, so the engine never holds what the router credits. The proof of
`ExactInv` needs that the delivered blocks are held afterwards; TLC then showed the
case with a cache of 2 blocks, and `Observe` counts it as a loss.

Induction over data is by a least counterexample: the recursive functions behind
`chain_hash`, the prompts, the engine's LRU and the sums are shown to exist, and to
compute what is claimed, for the least length or cardinality for which they would
not.

`Extrema` has what these share: a set of naturals has a least member, a bounded one
a greatest, and so `Min` and `Max` are what they say; `MapThenSumSet` is a sum, of any
order, that changes as much as a member does.

Only model-checked: liveness (`DiscoveryConverges`, `HealthConverges`,
`HandlerAnswers`), which is outside the prover. Every invariant and action property
of the passing runs is a theorem.

## What is not modelled

- `PrefixIndex` is given chains as constants. An empty prompt has an empty chain,
  for which `record` and `longest_match` do nothing; its chains are non-empty, and
  `CacheAffinity` has the empty prompt.
- Histograms of durations. `/health`, which answers a constant, and `/v1/models`,
  which forwards one request to the first healthy worker: neither changes state.
- Configuration: parsing and defaults around constants. Its only check refuses a
  file with neither workers nor discovery; a registry that stays empty is still
  possible (discovery enabled, but not in a cluster) and harmless. Logging, start-up
  and shutdown are I/O.
- Real time: how long a probe, a transfer or an upstream call takes.
- `f64` rounding, and load terms in non-finite scores (`PyBindings` has no load).
- The SDK: an HTTP client, and a simulation in which one thread calls `route`,
  which `PyBindings` has for any number of threads. Benchmarks. The mock engine's
  latencies and text.

## Plan

1. Done: registry, tracker, discovery, membership, index, selection, request flow,
   prompts, mock engine, hit statistics, cache affinity, the operators' view, the
   bindings, and the theorems above.
2. Left: what the prover cannot do (liveness), and the timestamps of the index
   (`prefix.rs:104`), for which no property is stated yet.
