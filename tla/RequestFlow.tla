---------------------------- MODULE RequestFlow ---------------------------
(***************************************************************************)
(* The life of chat completions (crates/router-server/src/api.rs): the     *)
(* handler up to the response head, single-phase or disaggregated, then    *)
(* the proxied body, which outlives the handler. Requests run concurrently *)
(* and share the in-flight counters; a step ends at an await or at a call  *)
(* on shared state. A client may leave at any await: the server then drops *)
(* the future or the body, and with it the in-flight guard it owns.        *)
(*                                                                         *)
(* A body is a sequence of half events: "c1" "c2" together are one         *)
(* `delta.content` event, "d1" "d2" one `data: [DONE]`. The network cuts a *)
(* body into chunks anywhere, in the middle of an event too.               *)
(***************************************************************************)
EXTENDS InflightTracker, Sequences, FiniteSets

CONSTANTS Requests,        \* concurrent requests
          NumWorkers,      \* workers have ids 0 .. NumWorkers - 1
          PoolOf,          \* id -> "prefill", "decode" or "both"
          Bodies,          \* what upstreams answer
          Unprintable,     \* workers whose url is no legal header value
          None

Workers == 0 .. NumWorkers - 1
Half == {"c1", "c2", "d1", "d2"}
DoneMarker == <<"d1", "d2">>

ASSUME RequestFlowAssumption ==
    /\ IsFiniteSet(Requests)
    /\ Cardinality(Requests) < CountMod
    /\ NumWorkers \in Nat
    /\ PoolOf \in [Workers -> {"prefill", "decode", "both"}]
    /\ Bodies \subseteq Seq(Half)
    /\ Unprintable \subseteq Workers
    /\ None \notin Nat

VARIABLES disaggregated,   \* whether that is the configured policy, fixed at the start
          healthy,    \* workers in rotation, as the health poller sees them
          pc,         \* request -> where its handler or its body is
          stream,     \* request -> the client asked for SSE
          prefill,    \* request -> worker of the prefill phase
          worker,     \* request -> worker whose answer the client sees
          proxy,      \* request -> ProxyStreamState
          answer,     \* request -> what the client has been told
          recorded,   \* request -> statuses counted in kvrouter_requests_total
          cuts        \* history: request -> offsets at which chunks ended

world == <<disaggregated, healthy>>
localVars == <<pc, stream, prefill, worker, proxy, answer, recorded, cuts>>
vars == <<trackerVars, world, localVars>>

NoProxy == [script |-> <<>>, got |-> <<>>, eof |-> FALSE, done_seen |-> FALSE,
            tokens |-> 0, errored |-> FALSE]

Set(f, r, v) == [f EXCEPT ![r] = v]

\* Whose guard the request owns: the prefill's lives for a block of
\* serve_disaggregated, the other in RequestTelemetry until the body is dropped.
Holds(r) ==
    CASE pc[r] \in {"prefill", "drain"} -> prefill[r]
      [] pc[r] \in {"send", "body"} -> worker[r]
      [] OTHER -> None

DropGuard(r) == IF Holds(r) = None THEN UNCHANGED trackerVars ELSE decrement(Holds(r))

(***************************************************************************)
(* The handler                                                             *)
(***************************************************************************)
\* chat_completions: a body that does not parse is refused and not counted.
Reject(r) ==
    /\ pc[r] = "idle"
    /\ pc' = Set(pc, r, "ended")
    /\ answer' = Set(answer, r, "400")
    /\ UNCHANGED <<trackerVars, world, stream, prefill, worker, proxy, recorded, cuts>>

Receive(r) ==
    /\ pc[r] = "idle"
    /\ pc' = Set(pc, r, IF disaggregated THEN "pick_prefill" ELSE "pick")
    /\ \E sse \in BOOLEAN : stream' = Set(stream, r, sse)
    /\ UNCHANGED <<trackerVars, world, prefill, worker, proxy, answer, recorded, cuts>>

\* From<RouterError> for ApiError and ApiError::upstream: the status of each error.
ApiError == [no_healthy_workers |-> "503", kv_transfer |-> "502", upstream |-> "502"]

FailKeepingGuard(r, status, error) ==
    /\ pc' = Set(pc, r, "ended")
    /\ recorded' = Set(recorded, r, Append(recorded[r], status))
    /\ answer' = Set(answer, r, ApiError[error])
    /\ UNCHANGED <<trackerVars, world, stream, prefill, worker, proxy, cuts>>

\* An error return: one count under the status written there, an answer with the
\* status of the error, and the guard goes out of scope.
Fail(r, status, error) ==
    /\ pc' = Set(pc, r, "ended")
    /\ recorded' = Set(recorded, r, Append(recorded[r], status))
    /\ answer' = Set(answer, r, ApiError[error])
    /\ DropGuard(r)
    /\ UNCHANGED <<world, stream, prefill, worker, proxy, cuts>>

InPool(pool) == {w \in healthy : PoolOf[w] = pool}

\* select_for_chat's candidates: `both` workers if any is healthy, else all.
ForChat == IF InPool("both") # {} THEN InPool("both") ELSE healthy

PickUnfiltered(r) ==
    /\ pc[r] = "pick"
    /\ \E w \in ForChat \cup {None} : worker' = Set(worker, r, w)
    /\ pc' = Set(pc, r, "acquire")
    /\ UNCHANGED <<trackerVars, world, stream, prefill, proxy, answer, recorded, cuts>>

\* serve_proxied selects; which candidate wins is module Selection's business.
Pick(r) ==
    /\ pc[r] = "pick"
    /\ \/ ForChat = {} /\ Fail(r, "503", "no_healthy_workers")
       \/ \E w \in ForChat :
            /\ worker' = Set(worker, r, w)
            /\ pc' = Set(pc, r, "acquire")
            /\ UNCHANGED <<trackerVars, world, stream, prefill, proxy, answer,
                           recorded, cuts>>

\* The guard on the worker that answers the client, then the upstream call.
Acquire(r) ==
    /\ pc[r] = "acquire"
    /\ increment(worker[r])
    /\ pc' = Set(pc, r, "send")
    /\ UNCHANGED <<world, stream, prefill, worker, proxy, answer, recorded, cuts>>

\* build_response: a 200 around a body that has not been polled; the telemetry,
\* and the guard in it, move into the stream.
build_response(r, body) ==
    /\ worker[r] \notin Unprintable
    /\ pc' = Set(pc, r, "body")
    /\ proxy' = Set(proxy, r, [NoProxy EXCEPT !.script = body])
    /\ answer' = Set(answer, r, "200")

\* The upstream answers with success.
Respond(r) ==
    /\ pc[r] = "send"
    /\ \E body \in Bodies : build_response(r, body)
    /\ UNCHANGED <<trackerVars, world, stream, prefill, worker, recorded, cuts>>

\* build_response cannot write the x-router-worker header: the client gets a 500,
\* which nothing counts, and the stream goes with the guard in it.
BuildFails(r) ==
    /\ pc[r] = "send"
    /\ worker[r] \in Unprintable
    /\ pc' = Set(pc, r, "ended")
    /\ answer' = Set(answer, r, "500")
    /\ DropGuard(r)
    /\ UNCHANGED <<world, stream, prefill, worker, proxy, recorded, cuts>>

\* A transport error, the client's timeout or an unsuccessful status.
UpstreamFails(r) == pc[r] \in {"prefill", "send"} /\ Fail(r, "502", "upstream")

(***************************************************************************)
(* The disaggregated handler                                               *)
(***************************************************************************)
PickPrefill(r) ==
    /\ pc[r] = "pick_prefill"
    /\ \/ InPool("prefill") = {} /\ Fail(r, "503", "no_healthy_workers")
       \/ \E w \in InPool("prefill") :
            /\ prefill' = Set(prefill, r, w)
            /\ pc' = Set(pc, r, "acquire_prefill")
            /\ UNCHANGED <<trackerVars, world, stream, worker, proxy, answer,
                           recorded, cuts>>

AcquirePrefill(r) ==
    /\ pc[r] = "acquire_prefill"
    /\ increment(prefill[r])
    /\ pc' = Set(pc, r, "prefill")
    /\ UNCHANGED <<world, stream, prefill, worker, proxy, answer, recorded, cuts>>

PrefillAnswers(r) ==
    /\ pc[r] = "prefill"
    /\ pc' = Set(pc, r, "drain")
    /\ UNCHANGED <<trackerVars, world, stream, prefill, worker, proxy, answer,
                   recorded, cuts>>

DrainRetriesPrefill(r) ==
    /\ pc[r] = "drain"
    /\ decrement(prefill[r])
    /\ pc' = Set(pc, r, "acquire_prefill") \/ pc' = Set(pc, r, "pick_decode")
    /\ UNCHANGED <<world, stream, prefill, worker, proxy, answer, recorded, cuts>>

\* The prefill body ends or fails - either way the flow goes on - and the guard
\* drops at the end of the block.
Drain(r) ==
    /\ pc[r] = "drain"
    /\ decrement(prefill[r])
    /\ pc' = Set(pc, r, "pick_decode")
    /\ UNCHANGED <<world, stream, prefill, worker, proxy, answer, recorded, cuts>>

PickDecode(r) ==
    /\ pc[r] = "pick_decode"
    /\ \/ InPool("decode") = {} /\ Fail(r, "503", "no_healthy_workers")
       \/ \E w \in InPool("decode") :
            /\ worker' = Set(worker, r, w)
            /\ pc' = Set(pc, r, "transfer")
            /\ UNCHANGED <<trackerVars, world, stream, prefill, proxy, answer,
                           recorded, cuts>>

\* KvTransfer: the mock connector sleeps and succeeds, another may fail.
transfer == {"ok", "kv_transfer"}

Transfer(r) ==
    /\ pc[r] = "transfer"
    /\ \E result \in transfer :
         \/ result = "kv_transfer" /\ Fail(r, "502", result)
         \/ /\ result = "ok"
            /\ pc' = Set(pc, r, "acquire")
            /\ UNCHANGED <<trackerVars, world, stream, prefill, worker, proxy, answer,
                           recorded, cuts>>

(***************************************************************************)
(* The proxied body: proxy_stream, one poll per step                       *)
(***************************************************************************)
\* chunk_contains_done and count_content_chunks see whole events of one chunk.
Whole(chunk, first, second) ==
    {i \in 1 .. Len(chunk) - 1 : chunk[i] = first /\ chunk[i + 1] = second}

Rest(p) == SubSeq(p.script, Len(p.got) + 1, Len(p.script))

PollChunkRescans(r) ==
    /\ pc[r] = "body" /\ ~proxy[r].eof
    /\ LET p == proxy[r]
       IN \E n \in 1 .. Len(Rest(p)) :
            LET seen == p.got \o SubSeq(Rest(p), 1, n)
            IN /\ proxy' = Set(proxy, r,
                    [p EXCEPT !.got = seen,
                              !.done_seen = stream[r] /\ Whole(seen, "d1", "d2") # {},
                              !.tokens = IF stream[r]
                                         THEN @ + Cardinality(Whole(seen, "c1", "c2"))
                                         ELSE @])
               /\ cuts' = Set(cuts, r, cuts[r] \cup {Len(seen)})
    /\ UNCHANGED <<trackerVars, world, pc, stream, prefill, worker, answer, recorded>>

\* Some(Ok(chunk))
PollChunk(r) ==
    /\ pc[r] = "body" /\ ~proxy[r].eof
    /\ LET p == proxy[r]
       IN \E n \in 1 .. Len(Rest(p)) :
            LET chunk == SubSeq(Rest(p), 1, n)
            IN /\ proxy' = Set(proxy, r,
                    [p EXCEPT !.got = @ \o chunk,
                              !.done_seen = @ \/ (stream[r] /\ Whole(chunk, "d1", "d2") # {}),
                              !.tokens = IF stream[r]
                                         THEN @ + Cardinality(Whole(chunk, "c1", "c2"))
                                         ELSE @])
               /\ cuts' = Set(cuts, r, cuts[r] \cup {Len(p.got) + n})
    /\ UNCHANGED <<trackerVars, world, pc, stream, prefill, worker, answer, recorded>>

\* Some(Err(_)): the client's stream breaks; the upstream has no more to say.
PollError(r) ==
    /\ pc[r] = "body" /\ ~proxy[r].eof
    /\ proxy' = Set(proxy, r, [proxy[r] EXCEPT !.errored = TRUE, !.eof = TRUE])
    /\ answer' = Set(answer, r, "broken")
    /\ UNCHANGED <<trackerVars, world, pc, stream, prefill, worker, recorded, cuts>>

AtEnd(r) == pc[r] = "body" /\ (proxy[r].eof \/ Rest(proxy[r]) = <<>>)

\* None, and no [DONE] has been seen: the router adds one and is polled again.
AppendDone(r) ==
    /\ AtEnd(r) /\ stream[r] /\ ~proxy[r].done_seen
    /\ proxy' = Set(proxy, r, [proxy[r] EXCEPT !.got = @ \o DoneMarker,
                                               !.done_seen = TRUE, !.eof = TRUE])
    /\ UNCHANGED <<trackerVars, world, pc, stream, prefill, worker, answer,
                   recorded, cuts>>

FinishWithoutMarker(r) ==
    /\ AtEnd(r)
    /\ recorded' = Set(recorded, r,
                       Append(recorded[r], IF proxy[r].errored THEN "502" ELSE "200"))
    /\ answer' = Set(answer, r, IF proxy[r].errored THEN "broken" ELSE "complete")
    /\ pc' = Set(pc, r, "ended")
    /\ DropGuard(r)
    /\ UNCHANGED <<world, stream, prefill, worker, proxy, cuts>>

FinishIgnoringError(r) ==
    /\ AtEnd(r) /\ ~(stream[r] /\ ~proxy[r].done_seen)
    /\ recorded' = Set(recorded, r, Append(recorded[r], "200"))
    /\ answer' = Set(answer, r, IF proxy[r].errored THEN "broken" ELSE "complete")
    /\ pc' = Set(pc, r, "ended")
    /\ DropGuard(r)
    /\ UNCHANGED <<world, stream, prefill, worker, proxy, cuts>>

\* RequestTelemetry::finish: the count is a 200; the block and token counters are
\* module HitStats' and `tokens`.
finish(r) == recorded' = Set(recorded, r, Append(recorded[r], "200"))

\* None: the request is counted, 502 after an error and 200 (finish) otherwise,
\* and the stream's state is dropped.
Finish(r) ==
    /\ AtEnd(r) /\ ~(stream[r] /\ ~proxy[r].done_seen)
    /\ IF proxy[r].errored
       THEN recorded' = Set(recorded, r, Append(recorded[r], "502"))
       ELSE finish(r)
    /\ answer' = Set(answer, r, IF proxy[r].errored THEN "broken" ELSE "complete")
    /\ pc' = Set(pc, r, "ended")
    /\ DropGuard(r)
    /\ UNCHANGED <<world, stream, prefill, worker, proxy, cuts>>

(***************************************************************************)
(* External: clients and the health poller                                 *)
(***************************************************************************)
\* The client leaves, or the server gives a broken body up.
Leave(r) ==
    /\ pc[r] \in {"prefill", "drain", "transfer", "send", "body"}
    /\ answer' = Set(answer, r, IF answer[r] = "broken" THEN "broken" ELSE "left")
    /\ pc' = Set(pc, r, "ended")
    /\ DropGuard(r)
    /\ UNCHANGED <<world, stream, prefill, worker, proxy, recorded, cuts>>

HealthFlips(w) ==
    /\ healthy' = IF w \in healthy THEN healthy \ {w} ELSE healthy \cup {w}
    /\ UNCHANGED <<trackerVars, disaggregated, localVars>>

(***************************************************************************)
(* Specification                                                           *)
(***************************************************************************)
\* From the guard to the response head: the second half of the single-phase flow
\* is also the decode phase of the other.
Upstream(r) == Acquire(r) \/ Respond(r) \/ BuildFails(r) \/ UpstreamFails(r)

HandlerSteps(r) ==
    \/ Pick(r) \/ Upstream(r)
    \/ PickPrefill(r) \/ AcquirePrefill(r) \/ PrefillAnswers(r) \/ Drain(r)
    \/ PickDecode(r) \/ Transfer(r)

BodySteps(r) == PollChunk(r) \/ PollError(r) \/ AppendDone(r) \/ Finish(r)

Init ==
    /\ with_capacity(NumWorkers)
    /\ disaggregated \in BOOLEAN
    /\ healthy \in SUBSET Workers
    /\ pc = [r \in Requests |-> "idle"]
    /\ stream = [r \in Requests |-> FALSE]
    /\ prefill = [r \in Requests |-> None]
    /\ worker = [r \in Requests |-> None]
    /\ proxy = [r \in Requests |-> NoProxy]
    /\ answer = [r \in Requests |-> "none"]
    /\ recorded = [r \in Requests |-> <<>>]
    /\ cuts = [r \in Requests |-> {}]

Next ==
    \/ \E r \in Requests :
         Reject(r) \/ Receive(r) \/ HandlerSteps(r) \/ BodySteps(r) \/ Leave(r)
    \/ \E w \in Workers : HealthFlips(w)

Spec == Init /\ [][Next]_vars

\* A handler that is past its extractor runs on: every await in it is a call of
\* the HTTP client, which has a timeout, or a sleep. Nothing is assumed of the
\* client or of who reads the body.
FairSpec == Spec /\ \A r \in Requests : WF_vars(HandlerSteps(r))

(***************************************************************************)
(* Properties                                                              *)
(***************************************************************************)
Status == {"200", "502", "503"}

\* Every variable keeps its type, and a request its worker while it needs one.
TypeOK ==
    /\ TrackerType /\ slots = NumWorkers
    /\ disaggregated \in BOOLEAN
    /\ healthy \subseteq Workers
    /\ pc \in [Requests -> {"idle", "pick", "acquire", "send", "body", "pick_prefill",
                            "acquire_prefill", "prefill", "drain", "pick_decode",
                            "transfer", "ended"}]
    /\ stream \in [Requests -> BOOLEAN]
    /\ prefill \in [Requests -> Workers \cup {None}]
    /\ worker \in [Requests -> Workers \cup {None}]
    /\ proxy \in [Requests -> [script : Seq(Half), got : Seq(Half), eof : BOOLEAN,
                               done_seen : BOOLEAN, tokens : Nat, errored : BOOLEAN]]
    /\ answer \in [Requests -> {"none", "200", "400", "500", "502", "503", "broken",
                                "complete", "left"}]
    /\ recorded \in [Requests -> Seq(Status)]
    /\ cuts \in [Requests -> SUBSET Nat]
    /\ \A r \in Requests :
         /\ pc[r] \in {"acquire_prefill", "prefill", "drain"} => prefill[r] \in Workers
         /\ pc[r] \in {"transfer", "acquire", "send", "body"} => worker[r] \in Workers

\* The load term is exact on every path: whatever fails, and at whichever await
\* the client leaves, each guard taken is dropped exactly once (api.rs, "releasing
\* the worker's in-flight count exactly once"), and a disaggregated request never
\* loads both of its workers.
GuardsExact ==
    \A w \in Workers : counts[w] = Cardinality({r \in Requests : Holds(r) = w})

\* The status a client has seen, by the end of its answer.
StatusSeen(told) == CASE told = "complete" -> "200" [] told = "broken" -> "502" [] OTHER -> told

\* kvrouter_requests_total never tells what the client was not told: at most one
\* count per request, under the status it saw - so none once it has left, and no
\* 200 for a stream that broke, although it is counted polls after the error - and
\* exactly one for a complete answer and for an error of routing, transfer or
\* upstream. That a broken stream is counted at all is the claim BrokenCounted.
Accounted ==
    \A r \in Requests : pc[r] = "ended" =>
        /\ recorded[r] \in {<<>>, <<StatusSeen(answer[r])>>}
        /\ answer[r] \in {"left", "400"} => recorded[r] = <<>>
        /\ answer[r] \in {"502", "503", "complete"} => recorded[r] # <<>>

\* Positions of a whole event of the upstream's that reached the router in one chunk.
Uncut(r, first, second) ==
    {i \in Whole(proxy[r].script, first, second) : i \notin cuts[r]}

\* A completed body is the upstream's, unchanged; an SSE body ends with [DONE],
\* added by the router unless it saw the upstream's in one chunk - so a marker cut
\* by a chunk boundary is the one way a client gets two.
StreamTerminated ==
    \A r \in Requests : answer[r] = "complete" =>
        proxy[r].got = IF stream[r] /\ Uncut(r, "d1", "d2") = {}
                       THEN proxy[r].script \o DoneMarker
                       ELSE proxy[r].script

\* The tokens reported for a stream are its content events, less those a chunk
\* boundary cuts: the count over chunks never counts an event twice.
TokensExact ==
    \A r \in Requests : answer[r] = "complete" /\ stream[r] =>
        proxy[r].tokens = Cardinality(Uncut(r, "c1", "c2"))

\* Every request that reaches routing gets its answer: the two-phase flow cannot
\* get stuck in a phase, and the prefill worker's guard is not held for ever.
HandlerAnswers ==
    \A r \in Requests :
        pc[r] \notin {"idle", "body", "ended"} ~> pc[r] \in {"body", "ended"}

(***************************************************************************)
(* What the documentation claims and the code does not do                  *)
(***************************************************************************)
\* docs/ARCHITECTURE.md:112-114 of a request streaming from a dead worker: "the
\* client's SSE stream errors out (the router logs it, counts it as a 502, and
\* releases the in-flight guard)".
BrokenCounted ==
    \A r \in Requests : pc[r] = "ended" /\ answer[r] = "broken" => recorded[r] = <<"502">>
===========================================================================
