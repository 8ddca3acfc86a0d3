--------------------------- MODULE CacheAffinity --------------------------
(***************************************************************************)
(* What the router believes of the engines' caches against what they hold: *)
(* requests are matched and recorded in the router's prefix index, reach   *)
(* an engine that matches and records the same prompt its own way, and,    *)
(* when they finish, are counted. Meanwhile entries are evicted, engines   *)
(* crash, the health poller purges, and the scraper compares.              *)
(*                                                                         *)
(* A phase of a disaggregated request is a request here; the prefill phase *)
(* is one that is drained and not counted (`Leave`). Which worker a        *)
(* selection prefers is module Selection's business, how the index is      *)
(* locked is PrefixIndex's.                                                *)
(***************************************************************************)
EXTENDS HitStats

CONSTANTS Requests,      \* concurrent requests
          Prompts,       \* message sequences
          MaxRequests,   \* bound: selections
          MaxBackground  \* bound: evictions, crashes, probes that time out, scrapes

ASSUME CacheAffinityAssumption ==
    /\ IsFiniteSet(Workers) /\ IsFiniteSet(Requests)
    /\ Prompts \subseteq Seq([role : STRING, content : Seq(STRING)])
    /\ MaxRequests \in Nat /\ MaxBackground \in Nat

VARIABLES healthy,     \* workers in rotation, as the registry has them
          purging,     \* the worker the health poller is about to purge
          credit,      \* worker -> block hashes the prefix index credits it with
          req,         \* request -> its locals
          started,     \* selections so far
          background,  \* how many of those there have been
          forgotten,   \* history: worker -> hashes it lost and did not regain
          sent,        \* history: worker -> prompts recorded since its last purge
          exact        \* history: worker -> belief and cache have had no reason to differ

routerVars == <<healthy, purging, credit>>
vars == <<engineVars, statsVars, routerVars, req, started, background, forgotten, sent, exact>>

Text == [p \in Prompts |-> canonical_prompt(p)]
Chain == [p \in Prompts |-> chain_hash(Text[p])]
EngineHashes == [p \in Prompts |-> block_prefix_hashes(mock_canonical_prompt(p))]

Idle == [pc |-> "idle", prompt |-> <<>>, worker |-> None, matched |-> 0, blocks |-> 0,
         hit |-> 0, excused |-> FALSE, alone |-> FALSE]

\* longest_match: up to the first block the worker is not credited with.
longest_match(w, chain) ==
    Max({k \in 0 .. Len(chain) : \A i \in 1 .. k : chain[i] \in credit[w]})

\* On their way to the engine: what it holds need not be what they were told.
Travelling(w) == {r \in Requests : req[r].worker = w /\ req[r].pc \in {"record", "send"}}

(***************************************************************************)
(* Requests                                                                *)
(***************************************************************************)
\* The match the decision, and later the statistics, report.
Match(r) ==
    /\ req[r].pc = "idle" /\ started < MaxRequests
    /\ started' = started + 1
    /\ \E p \in Prompts, w \in healthy :
         LET k == longest_match(w, Chain[p])
         IN req' = [q \in Requests |->
                IF q = r
                THEN [pc |-> "record", prompt |-> p, worker |-> w, matched |-> k,
                      blocks |-> Len(Chain[p]), hit |-> 0,
                      excused |-> k < Len(Chain[p]) /\ Chain[p][k + 1] \in forgotten[w],
                      alone |-> Travelling(w) = {}]
                ELSE IF q \in Travelling(w) THEN [req[q] EXCEPT !.alone = FALSE] ELSE req[q]]
    /\ UNCHANGED <<engineVars, statsVars, routerVars, background, forgotten, sent>>

\* The optimistic record at dispatch. A request that matched before it and arrives
\* after it may find more than it was told.
Record(r) ==
    /\ req[r].pc = "record"
    /\ LET w == req[r].worker
           chain == Chain[req[r].prompt]
           Missed(q) == req[q].matched + 1
       IN /\ credit' = [credit EXCEPT ![w] = @ \cup Range(chain)]
          /\ forgotten' = [forgotten EXCEPT ![w] = @ \ Range(chain)]
          /\ sent' = [sent EXCEPT ![w] = @ \cup {req[r].prompt}]
          /\ req' = [q \in Requests |->
                IF q = r THEN [req[q] EXCEPT !.pc = "send"]
                ELSE IF /\ q \in Travelling(w)
                        /\ Missed(q) \in DOMAIN Chain[req[q].prompt]
                        /\ Chain[req[q].prompt][Missed(q)] \in Range(chain)
                THEN [req[q] EXCEPT !.excused = TRUE]
                ELSE req[q]]
    /\ UNCHANGED <<engineVars, statsVars, healthy, purging, started, background>>

\* The engine's chat_completions; its match comes back as x-kv-prefix-hit.
Deliver(r) ==
    /\ req[r].pc = "send" /\ req[r].worker \in up
    /\ LET w == req[r].worker
           hashes == EngineHashes[req[r].prompt]
       IN /\ record_and_match(w, hashes)
          /\ req' = [req EXCEPT ![r].pc = "body", ![r].hit = Matched(cache[w], hashes),
                                ![r].prompt = <<>>, ![r].alone = @ /\ exact[w]]
    /\ UNCHANGED <<up, statsVars, routerVars, started, background, forgotten, sent>>

\* The engine is down, refuses or times out: the belief stays.
Fail(r) ==
    /\ req[r].pc = "send"
    /\ req' = [req EXCEPT ![r] = Idle]
    /\ UNCHANGED <<engineVars, statsVars, routerVars, started, background, forgotten, sent>>

\* The body breaks, its client leaves, or it was a prefill phase's: not counted.
Leave(r) ==
    /\ req[r].pc = "body"
    /\ req' = [req EXCEPT ![r] = Idle]
    /\ UNCHANGED <<engineVars, statsVars, routerVars, started, background, forgotten, sent>>

\* RequestTelemetry::finish: three updates, each of them atomic.
CountHits(r) ==
    /\ req[r].pc = "body"
    /\ record_cache_hit_blocks(req[r].matched)
    /\ req' = [req EXCEPT ![r] = [Idle EXCEPT !.pc = "prompts", !.worker = req[r].worker,
                                              !.matched = req[r].matched,
                                              !.blocks = req[r].blocks]]
    /\ UNCHANGED <<engineVars, gaugeVars, routerVars, started, background, forgotten, sent>>

CountPrompts(r) ==
    /\ req[r].pc = "prompts"
    /\ record_prompt_blocks(req[r].blocks)
    /\ req' = [req EXCEPT ![r].pc = "stats"]
    /\ UNCHANGED <<engineVars, gaugeVars, routerVars, started, background, forgotten, sent>>

CountStats(r) ==
    /\ req[r].pc = "stats"
    /\ record_hit_stats(req[r].worker, req[r].matched, req[r].blocks)
    /\ req' = [req EXCEPT ![r] = Idle]
    /\ UNCHANGED <<engineVars, gaugeVars, routerVars, started, background, forgotten, sent>>

(***************************************************************************)
(* Beside them                                                             *)
(***************************************************************************)
Background == background < MaxBackground /\ background' = background + 1

\* The eviction task drops one entry, and with it every worker's credit for it.
Evict ==
    /\ Background
    /\ \E h \in UNION {credit[w] : w \in Workers} :
         /\ credit' = [w \in Workers |-> credit[w] \ {h}]
         /\ forgotten' = [w \in Workers |-> IF h \in credit[w] THEN forgotten[w] \cup {h}
                                            ELSE forgotten[w]]
    /\ UNCHANGED <<engineVars, statsVars, healthy, purging, req, started, sent>>

\* A probe is answered if the engine is up, and may time out all the same.
Probe(w) ==
    /\ purging = None
    /\ \E answered \in BOOLEAN :
         /\ answered => w \in up
         /\ healthy' = IF answered THEN healthy \cup {w} ELSE healthy \ {w}
         /\ purging' = IF w \in healthy /\ ~answered THEN w ELSE None
         /\ IF w \in up /\ ~answered THEN Background ELSE UNCHANGED background
    /\ UNCHANGED <<engineVars, statsVars, credit, req, started, forgotten, sent>>

\* remove_worker, by the health poller.
Purge ==
    /\ purging # None
    /\ credit' = [credit EXCEPT ![purging] = {}]
    /\ forgotten' = [forgotten EXCEPT ![purging] = @ \cup credit[purging]]
    /\ sent' = [sent EXCEPT ![purging] = {}]
    /\ purging' = None
    /\ UNCHANGED <<engineVars, statsVars, healthy, req, started, background>>

EngineMoves(w) ==
    /\ \/ EngineCrashes(w) /\ Background
       \/ EngineStarts(w) /\ UNCHANGED background
    /\ UNCHANGED <<statsVars, routerVars, req, started, forgotten, sent>>

Scraped ==
    /\ \/ ScrapeRound /\ Background
       \/ ScrapeSteps(healthy) /\ UNCHANGED background
    /\ UNCHANGED <<engineVars, routerVars, req, started, forgotten, sent>>

(***************************************************************************)
(* Specification                                                           *)
(***************************************************************************)
\* Belief and cache part when either loses something or a recorded prompt does not
\* arrive, or does not fit; they are one again when both are empty and nothing is on
\* its way.
Observe ==
    exact' = [w \in Workers |->
        \/ credit'[w] = {} /\ cache'[w] = <<>> /\ Travelling(w)' = {}
        \/ /\ exact[w]
           /\ credit[w] \subseteq credit'[w]
           /\ Range(cache[w]) \subseteq Range(cache'[w])
           /\ \A r \in Travelling(w) :
                /\ req'[r].pc # "idle"
                /\ req'[r].pc = "body"
                   => Range(EngineHashes[req[r].prompt]) \subseteq Range(cache'[w])]

RequestSteps(r) ==
    \/ Match(r) \/ Record(r) \/ Deliver(r) \/ Fail(r) \/ Leave(r)
    \/ CountHits(r) \/ CountPrompts(r) \/ CountStats(r)

Init ==
    /\ EngineInit /\ StatsInit
    /\ healthy = Workers /\ purging = None
    /\ credit = [w \in Workers |-> {}]
    /\ req = [r \in Requests |-> Idle]
    /\ started = 0 /\ background = 0
    /\ forgotten = [w \in Workers |-> {}]
    /\ sent = [w \in Workers |-> {}]
    /\ exact = [w \in Workers |-> TRUE]

Next ==
    \/ \E r \in Requests : RequestSteps(r) /\ Observe
    \/ \E w \in Workers : (Probe(w) \/ EngineMoves(w)) /\ Observe
    \/ (Evict \/ Purge \/ Scraped) /\ Observe

Spec == Init /\ [][Next]_vars

(***************************************************************************)
(* Properties                                                              *)
(***************************************************************************)
Shared == [p \in Prompts |-> [q \in Prompts |-> SharedBlocks(Text[p], Text[q])]]

\* hashing.rs, "a worker holds prompt P's first k blocks iff longest_match >= k":
\* the credit of a worker for any prompt is the longest block prefix that prompt
\* shares with one the worker was sent since it was last purged - never more, and
\* less only for entries that were evicted. A block in another place or after
\* another prefix earns nothing.
CreditIsSharedPrefix ==
    \A w \in Workers, p \in Prompts :
        LET shared == Max({0} \cup {Shared[p][q] : q \in sent[w]})
        IN /\ longest_match(w, Chain[p]) <= shared
           /\ (\A q \in sent[w] : Range(Chain[q]) \cap forgotten[w] = {})
              => longest_match(w, Chain[p]) = shared

\* metrics.rs, set_hit_rate_prediction_error: the engine finds more than the router
\* told only when the first block the router missed had been forgotten, or was
\* recorded by a request that overtook this one.
UnderCreditExplained ==
    \A r \in Requests : req[r].pc = "body" /\ req[r].hit > req[r].matched => req[r].excused

\* The engine's block layout mirrors the router's: for a request nobody overtakes,
\* on a worker where nothing was lost on either side, prediction and hit are equal,
\* again so after a crash that was noticed and purged.
MirrorExact ==
    \A r \in Requests : req[r].pc = "body" /\ req[r].alone => req[r].hit = req[r].matched

\* The counters of the hit rate and the statistics behind the predicted one differ
\* only by the requests that are between two of finish's updates, and a worker's
\* predicted hit rate never exceeds one.
CountersAgree ==
    LET Between(pcs) == {r \in Requests : req[r].pc \in pcs}
    IN /\ hit_blocks = MapThenSumSet(LAMBDA w : hit_stats[w].hits, Workers)
                       + MapThenSumSet(LAMBDA r : req[r].matched, Between({"prompts", "stats"}))
       /\ prompt_blocks = MapThenSumSet(LAMBDA w : hit_stats[w].prompts, Workers)
                       + MapThenSumSet(LAMBDA r : req[r].blocks, Between({"stats"}))
       /\ \A w \in Workers : hit_stats[w].hits <= hit_stats[w].prompts

\* Between the scraper's visits to a worker its three hit rate gauges belong
\* together: the error is that of the two rates shown.
GaugesBelongTogether ==
    \A w \in Workers : scraper.worker # w /\ gauges[w].error # None =>
        gauges[w].error = <<gauges[w].predicted, gauges[w].engine>>
===========================================================================
