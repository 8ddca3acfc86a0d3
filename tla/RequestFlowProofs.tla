------------------------- MODULE RequestFlowProofs ------------------------
(***************************************************************************)
(* Theorems about RequestFlow, for any number of requests and workers, any *)
(* assignment of workers to pools and any upstream bodies.                 *)
(***************************************************************************)
EXTENDS RequestFlow, FiniteSetTheorems, SequenceTheorems, TLAPS

USE CountModAssumption

LEMMA Constants ==
    /\ NumWorkers \in Nat
    /\ Workers \subseteq Nat
    /\ None \notin Workers
    /\ Bodies \subseteq Seq(Half)
  BY RequestFlowAssumption DEF Workers

(***************************************************************************)
(* Type correctness                                                        *)
(***************************************************************************)
ProxyState == [script : Seq(Half), got : Seq(Half), eof : BOOLEAN, done_seen : BOOLEAN,
               tokens : Nat, errored : BOOLEAN]

LEMMA NoProxyType ==
    ASSUME NEW body \in Seq(Half)
    PROVE  NoProxy \in ProxyState /\ [NoProxy EXCEPT !.script = body] \in ProxyState
  <1>1. <<>> \in Seq(Half)
    OBVIOUS
  <1>2. ASSUME NEW e \in Seq(Half), NEW p,
               p = [script |-> e, got |-> e, eof |-> FALSE, done_seen |-> FALSE,
                    tokens |-> 0, errored |-> FALSE]
        PROVE  p \in ProxyState /\ [p EXCEPT !.script = body] \in ProxyState
    BY <1>2 DEF ProxyState
  <1> QED
    BY <1>1, <1>2 DEF NoProxy

LEMMA InitType == Init => TypeOK
  <1> SUFFICES ASSUME Init PROVE TypeOK
    OBVIOUS
  <1>1. TrackerType /\ slots = NumWorkers
    BY Constants DEF Init, with_capacity, TrackerType
  <1>2. NoProxy \in ProxyState
    BY NoProxyType, EmptySeq
  <1> QED
    BY <1>1, <1>2 DEF Init, TypeOK, ProxyState

\* What the two calls on the tracker leave well typed.
LEMMA IncrementType ==
    ASSUME TrackerType, NEW w \in Nat, increment(w)
    PROVE  TrackerType' /\ slots' = slots
  BY DEF TrackerType, increment, WrapInc

LEMMA DecrementType ==
    ASSUME TrackerType, NEW w \in Nat, decrement(w)
    PROVE  TrackerType' /\ slots' = slots
  BY DEF TrackerType, decrement, WrapDec

\* The guard a request owns is on a worker, so dropping it is well typed.
LEMMA HoldsType ==
    ASSUME TypeOK, NEW r \in Requests
    PROVE  /\ pc[r] \in {"prefill", "drain"} => Holds(r) = prefill[r]
           /\ pc[r] \in {"send", "body"} => Holds(r) = worker[r]
           /\ pc[r] \notin {"prefill", "drain", "send", "body"} => Holds(r) = None
           /\ Holds(r) \in Workers \cup {None}
  BY DEF TypeOK, Holds

LEMMA DropGuardType ==
    ASSUME TypeOK, NEW r \in Requests, DropGuard(r)
    PROVE  TrackerType' /\ slots' = slots
  <1>1. CASE Holds(r) = None
    BY <1>1 DEF DropGuard, TypeOK, trackerVars, TrackerType
  <1>2. CASE Holds(r) # None
    <2>1. Holds(r) \in Nat
      BY <1>2, HoldsType, Constants
    <2>2. decrement(Holds(r))
      BY <1>2 DEF DropGuard
    <2> QED
      BY <2>1, <2>2, DecrementType DEF TypeOK
  <1> QED
    BY <1>1, <1>2

LEMMA FailType ==
    ASSUME TypeOK, NEW r \in Requests, NEW status \in Status,
           NEW error \in {"no_healthy_workers", "kv_transfer", "upstream"},
           Fail(r, status, error)
    PROVE  TypeOK'
  <1>1. TrackerType' /\ slots' = NumWorkers
    BY DropGuardType DEF Fail, TypeOK
  <1>2. recorded' \in [Requests -> Seq(Status)]
    <2>1. Append(recorded[r], status) \in Seq(Status)
      BY AppendProperties DEF TypeOK
    <2> QED
      BY <2>1 DEF Fail, TypeOK, Set
  <1>3. ApiError[error] \in {"502", "503"}
    BY DEF ApiError
  <1> QED
    BY <1>1, <1>2, <1>3 DEF Fail, TypeOK, Set, world

LEMMA HandlerType ==
    ASSUME TypeOK, NEW r \in Requests, HandlerSteps(r)
    PROVE  TypeOK'
  <1>1. CASE Pick(r)
    <2>1. CASE ForChat = {} /\ Fail(r, "503", "no_healthy_workers")
      BY <2>1, FailType DEF Status
    <2>2. ForChat \subseteq Workers
      BY DEF ForChat, InPool, TypeOK
    <2>3. ASSUME NEW w \in ForChat, worker' = Set(worker, r, w), pc' = Set(pc, r, "acquire"),
                 UNCHANGED <<trackerVars, world, stream, prefill, proxy, answer,
                             recorded, cuts>>
          PROVE  TypeOK'
      BY <2>2, <2>3 DEF TypeOK, Set, world, trackerVars, TrackerType
    <2> QED
      BY <1>1, <2>1, <2>3 DEF Pick
  <1>2. CASE Acquire(r)
    <2>1. worker[r] \in Nat /\ increment(worker[r])
      BY <1>2, Constants DEF Acquire, TypeOK
    <2>2. TrackerType' /\ slots' = NumWorkers
      BY <2>1, IncrementType DEF TypeOK
    <2> QED
      BY <1>2, <2>2 DEF Acquire, TypeOK, Set, world
  <1>3. CASE Respond(r)
    <2>1. PICK body \in Bodies : build_response(r, body)
      BY <1>3 DEF Respond
    <2>2. [NoProxy EXCEPT !.script = body] \in ProxyState
      BY Constants, NoProxyType
    <2>3. proxy' \in [Requests -> ProxyState]
      BY <2>1, <2>2 DEF build_response, Set, TypeOK, ProxyState
    <2> QED
      BY <1>3, <2>1, <2>3 DEF Respond, build_response, TypeOK, Set, world, trackerVars,
         TrackerType, ProxyState
  <1>4. CASE UpstreamFails(r)
    BY <1>4, FailType DEF UpstreamFails, Status
  <1>12. CASE BuildFails(r)
    <2>1. TrackerType' /\ slots' = NumWorkers
      BY <1>12, DropGuardType DEF BuildFails, TypeOK
    <2> QED
      BY <1>12, <2>1 DEF BuildFails, TypeOK, Set, world
  <1>5. CASE PickPrefill(r)
    <2>1. CASE InPool("prefill") = {} /\ Fail(r, "503", "no_healthy_workers")
      BY <2>1, FailType DEF Status
    <2>2. InPool("prefill") \subseteq Workers
      BY DEF InPool, TypeOK
    <2>3. ASSUME NEW w \in InPool("prefill"), prefill' = Set(prefill, r, w),
                 pc' = Set(pc, r, "acquire_prefill"),
                 UNCHANGED <<trackerVars, world, stream, worker, proxy, answer,
                             recorded, cuts>>
          PROVE  TypeOK'
      BY <2>2, <2>3 DEF TypeOK, Set, world, trackerVars, TrackerType
    <2> QED
      BY <1>5, <2>1, <2>3 DEF PickPrefill
  <1>6. CASE AcquirePrefill(r)
    <2>1. prefill[r] \in Nat /\ increment(prefill[r])
      BY <1>6, Constants DEF AcquirePrefill, TypeOK
    <2>2. TrackerType' /\ slots' = NumWorkers
      BY <2>1, IncrementType DEF TypeOK
    <2> QED
      BY <1>6, <2>2 DEF AcquirePrefill, TypeOK, Set, world
  <1>7. CASE PrefillAnswers(r)
    BY <1>7 DEF PrefillAnswers, TypeOK, Set, world, trackerVars, TrackerType
  <1>8. CASE Drain(r)
    <2>1. prefill[r] \in Nat /\ decrement(prefill[r])
      BY <1>8, Constants DEF Drain, TypeOK
    <2>2. TrackerType' /\ slots' = NumWorkers
      BY <2>1, DecrementType DEF TypeOK
    <2> QED
      BY <1>8, <2>2 DEF Drain, TypeOK, Set, world
  <1>9. CASE PickDecode(r)
    <2>1. CASE InPool("decode") = {} /\ Fail(r, "503", "no_healthy_workers")
      BY <2>1, FailType DEF Status
    <2>2. InPool("decode") \subseteq Workers
      BY DEF InPool, TypeOK
    <2>3. ASSUME NEW w \in InPool("decode"), worker' = Set(worker, r, w),
                 pc' = Set(pc, r, "transfer"),
                 UNCHANGED <<trackerVars, world, stream, prefill, proxy, answer,
                             recorded, cuts>>
          PROVE  TypeOK'
      BY <2>2, <2>3 DEF TypeOK, Set, world, trackerVars, TrackerType
    <2> QED
      BY <1>9, <2>1, <2>3 DEF PickDecode
  <1>10. CASE Transfer(r)
    <2>1. CASE Fail(r, "502", "kv_transfer")
      BY <2>1, FailType DEF Status
    <2>2. CASE ~Fail(r, "502", "kv_transfer")
      BY <1>10, <2>2 DEF Transfer, transfer, TypeOK, Set, world, trackerVars, TrackerType
    <2> QED
      BY <2>1, <2>2
  <1> QED
    BY <1>1, <1>2, <1>3, <1>4, <1>5, <1>6, <1>7, <1>8, <1>9, <1>10, <1>12
       DEF HandlerSteps, Upstream

\* What a chunk is, and what a poll makes of it.
Chunk(p, n) == SubSeq(Rest(p), 1, n)

LEMMA ChunkFacts ==
    ASSUME NEW p \in ProxyState, NEW n \in 1 .. Len(Rest(p))
    PROVE  /\ Rest(p) \in Seq(Half)
           /\ Len(p.got) < Len(p.script)
           /\ Len(p.got) + n <= Len(p.script)
           /\ Chunk(p, n) \in Seq(Half)
           /\ Len(Chunk(p, n)) = n
           /\ \A i \in 1 .. n : Chunk(p, n)[i] = p.script[Len(p.got) + i]
  <1> DEFINE g == Len(p.got)
             k == Len(p.script)
  <1>1. /\ p.script \in Seq(Half) /\ g \in Nat /\ k \in Nat
        /\ \A i \in 1 .. k : p.script[i] \in Half
    BY LenProperties, ElementOfSeq DEF ProxyState
  <1> HIDE DEF g, k
  <1>2. /\ Rest(p) = SubSeq(p.script, g + 1, k)
        /\ Rest(p) \in Seq(Half)
        /\ Len(Rest(p)) = IF g + 1 <= k THEN k - g ELSE 0
        /\ \A i \in 1 .. k - g : Rest(p)[i] = p.script[g + i]
    <2>1. Rest(p) = SubSeq(p.script, g + 1, k)
      BY DEF Rest, g, k
    <2>2. \A i \in g + 1 .. k : p.script[i] \in Half
      BY <1>1
    <2>3. /\ SubSeq(p.script, g + 1, k) \in Seq(Half)
          /\ Len(SubSeq(p.script, g + 1, k)) = IF g + 1 <= k THEN k - (g + 1) + 1 ELSE 0
          /\ \A i \in 1 .. k - (g + 1) + 1 :
               SubSeq(p.script, g + 1, k)[i] = p.script[g + 1 + i - 1]
      BY <1>1, <2>2, SubSeqProperties
    <2> QED
      BY <1>1, <2>1, <2>3
  <1>3. g < k /\ Len(Rest(p)) = k - g /\ n \in 1 .. k - g
    BY <1>1, <1>2
  <1>4. ASSUME NEW i \in 1 .. n PROVE Rest(p)[i] \in Half
    <2>1. i \in 1 .. k - g /\ g + i \in 1 .. k
      BY <1>1, <1>3
    <2> QED
      BY <1>1, <1>2, <2>1
  <1>5. /\ SubSeq(Rest(p), 1, n) \in Seq(Half)
        /\ Len(SubSeq(Rest(p), 1, n)) = n
        /\ \A i \in 1 .. n : SubSeq(Rest(p), 1, n)[i] = Rest(p)[i]
    <2>1. n \in Int /\ 1 <= n
      BY <1>1, <1>3
    <2>2. /\ SubSeq(Rest(p), 1, n) \in Seq(Half)
          /\ Len(SubSeq(Rest(p), 1, n)) = IF 1 <= n THEN n - 1 + 1 ELSE 0
          /\ \A i \in 1 .. n - 1 + 1 : SubSeq(Rest(p), 1, n)[i] = Rest(p)[1 + i - 1]
      BY <1>4, <2>1, SubSeqProperties
    <2> QED
      BY <2>1, <2>2
  <1>6. \A i \in 1 .. n : SubSeq(Rest(p), 1, n)[i] = p.script[g + i]
    BY <1>1, <1>2, <1>3, <1>5
  <1>7. g < k /\ g + n <= k
    BY <1>1, <1>3
  <1> QED
    BY <1>2, <1>5, <1>6, <1>7 DEF g, k, Chunk

LEMMA WholeFinite ==
    ASSUME NEW chunk, NEW first, NEW second, Len(chunk) \in Nat
    PROVE  /\ IsFiniteSet(Whole(chunk, first, second))
           /\ Cardinality(Whole(chunk, first, second)) \in Nat
  <1>1. Whole(chunk, first, second) \subseteq 1 .. Len(chunk) - 1
    BY DEF Whole
  <1>2. IsFiniteSet(1 .. Len(chunk) - 1)
    BY FS_Interval
  <1> QED
    BY <1>1, <1>2, FS_Subset, FS_CardinalityType

\* The state after a chunk, field by field.
Polled(p, n, sse) ==
    [p EXCEPT !.got = @ \o Chunk(p, n),
              !.done_seen = @ \/ (sse /\ Whole(Chunk(p, n), "d1", "d2") # {}),
              !.tokens = IF sse THEN @ + Cardinality(Whole(Chunk(p, n), "c1", "c2")) ELSE @]

LEMMA PolledFacts ==
    ASSUME NEW p \in ProxyState, NEW n \in 1 .. Len(Rest(p)), NEW sse \in BOOLEAN
    PROVE  /\ Polled(p, n, sse) \in ProxyState
           /\ Polled(p, n, sse).script = p.script
           /\ Polled(p, n, sse).got = p.got \o Chunk(p, n)
           /\ Polled(p, n, sse).eof = p.eof
           /\ Polled(p, n, sse).errored = p.errored
           /\ Polled(p, n, sse).done_seen
                <=> p.done_seen \/ (sse /\ Whole(Chunk(p, n), "d1", "d2") # {})
           /\ Polled(p, n, sse).tokens
                = IF sse THEN p.tokens + Cardinality(Whole(Chunk(p, n), "c1", "c2"))
                  ELSE p.tokens
  <1> DEFINE q == Polled(p, n, sse)
             c == Cardinality(Whole(Chunk(p, n), "c1", "c2"))
             got == p.got \o Chunk(p, n)
             seen == p.done_seen \/ (sse /\ Whole(Chunk(p, n), "d1", "d2") # {})
             tokens == IF sse THEN p.tokens + c ELSE p.tokens
  <1>1. Chunk(p, n) \in Seq(Half) /\ Len(Chunk(p, n)) \in Nat
    BY ChunkFacts, LenProperties
  <1>2. got \in Seq(Half)
    BY <1>1, ConcatProperties DEF ProxyState
  <1>3. c \in Nat
    BY <1>1, WholeFinite
  <1>4. tokens \in Nat
    BY <1>3 DEF ProxyState
  <1>5. seen \in BOOLEAN
    BY DEF ProxyState
  <1>6. q = [p EXCEPT !.got = got, !.done_seen = seen, !.tokens = tokens]
    BY DEF Polled
  <1> HIDE DEF got, seen, tokens, q
  <1>7. /\ q \in ProxyState
        /\ q.script = p.script /\ q.got = got /\ q.eof = p.eof
        /\ q.errored = p.errored /\ q.done_seen = seen /\ q.tokens = tokens
    BY <1>2, <1>4, <1>5, <1>6 DEF ProxyState
  <1>8. q.done_seen <=> seen
    BY <1>7
  <1> QED
    BY <1>7, <1>8 DEF q, got, seen, tokens

\* A poll that passes a chunk on.
LEMMA PollChunkIs ==
    ASSUME TypeOK, NEW r \in Requests, PollChunk(r)
    PROVE  /\ proxy[r] \in ProxyState /\ stream[r] \in BOOLEAN
           /\ pc[r] = "body" /\ ~proxy[r].eof
           /\ \E n \in 1 .. Len(Rest(proxy[r])) :
                /\ proxy' = [proxy EXCEPT ![r] = Polled(proxy[r], n, stream[r])]
                /\ cuts' = [cuts EXCEPT ![r] = @ \cup {Len(proxy[r].got) + n}]
           /\ UNCHANGED <<trackerVars, world, pc, stream, prefill, worker, answer, recorded>>
  BY DEF PollChunk, Polled, Chunk, TypeOK, ProxyState, Set

LEMMA BodyType ==
    ASSUME TypeOK, NEW r \in Requests, BodySteps(r)
    PROVE  TypeOK'
  <1> DEFINE p == proxy[r]
  <1>0. p \in ProxyState /\ proxy \in [Requests -> ProxyState]
    BY DEF TypeOK, ProxyState
  <1>1. CASE PollChunk(r)
    <2>1. PICK n \in 1 .. Len(Rest(p)) :
             /\ proxy' = [proxy EXCEPT ![r] = Polled(p, n, stream[r])]
             /\ cuts' = [cuts EXCEPT ![r] = @ \cup {Len(p.got) + n}]
      BY <1>1, PollChunkIs
    <2>2. Polled(p, n, stream[r]) \in ProxyState
      <3>1. stream[r] \in BOOLEAN
        BY DEF TypeOK
      <3> QED
        BY <1>0, <3>1, PolledFacts, Zenon
    <2>3. Len(p.got) + n \in Nat
      BY <1>0, ChunkFacts, LenProperties DEF ProxyState
    <2> HIDE DEF p
    <2>4. proxy' \in [Requests -> ProxyState] /\ cuts' \in [Requests -> SUBSET Nat]
      BY <1>0, <2>1, <2>2, <2>3 DEF TypeOK
    <2> QED
      BY <1>1, <2>4, PollChunkIs DEF TypeOK, ProxyState, world, trackerVars, TrackerType
  <1>2. CASE PollError(r)
    <2>1. [p EXCEPT !.errored = TRUE, !.eof = TRUE] \in ProxyState
      BY <1>0 DEF ProxyState
    <2>2. proxy' \in [Requests -> ProxyState]
      BY <1>0, <1>2, <2>1 DEF PollError, Set
    <2> QED
      BY <1>2, <2>2 DEF PollError, TypeOK, ProxyState, Set, world, trackerVars, TrackerType
  <1>3. CASE AppendDone(r)
    <2>1. p.got \o DoneMarker \in Seq(Half)
      <3>1. DoneMarker \in Seq(Half)
        BY DEF DoneMarker, Half
      <3> QED
        BY <1>0, <3>1, ConcatProperties DEF ProxyState
    <2>2. [p EXCEPT !.got = @ \o DoneMarker, !.done_seen = TRUE, !.eof = TRUE] \in ProxyState
      BY <1>0, <2>1 DEF ProxyState
    <2>3. proxy' \in [Requests -> ProxyState]
      BY <1>0, <1>3, <2>2 DEF AppendDone, Set
    <2> QED
      BY <1>3, <2>3 DEF AppendDone, TypeOK, ProxyState, Set, world, trackerVars, TrackerType
  <1>4. CASE Finish(r)
    <2>1. TrackerType' /\ slots' = NumWorkers
      BY <1>4, DropGuardType DEF Finish, TypeOK
    <2>2. ASSUME NEW x \in Status PROVE Append(recorded[r], x) \in Seq(Status)
      BY AppendProperties DEF TypeOK
    <2>3. recorded' \in [Requests -> Seq(Status)]
      BY <1>4, <2>2 DEF Finish, finish, TypeOK, Set, Status
    <2> QED
      BY <1>4, <2>1, <2>3 DEF Finish, TypeOK, Set, world
  <1> QED
    BY <1>1, <1>2, <1>3, <1>4 DEF BodySteps

LEMMA StepType == TypeOK /\ [Next]_vars => TypeOK'
  <1> SUFFICES ASSUME TypeOK, [Next]_vars PROVE TypeOK'
    OBVIOUS
  <1>1. ASSUME NEW r \in Requests, Reject(r) \/ Receive(r) PROVE TypeOK'
    BY <1>1 DEF Reject, Receive, TypeOK, Set, world, trackerVars, TrackerType
  <1>2. ASSUME NEW r \in Requests, Leave(r) PROVE TypeOK'
    <2>1. TrackerType' /\ slots' = NumWorkers
      BY <1>2, DropGuardType DEF Leave, TypeOK
    <2> QED
      BY <1>2, <2>1 DEF Leave, TypeOK, Set, world
  <1>3. ASSUME NEW w \in Workers, HealthFlips(w) PROVE TypeOK'
    BY <1>3 DEF HealthFlips, TypeOK, localVars, trackerVars, TrackerType
  <1>4. CASE UNCHANGED vars
    BY <1>4 DEF vars, world, localVars, trackerVars, TypeOK, TrackerType
  <1> QED
    BY <1>1, <1>2, <1>3, <1>4, HandlerType, BodyType DEF Next

\* Every variable keeps its type on every path, and a request its worker while it
\* needs one: what is acquired, called and released is always a worker.
THEOREM TypeCorrect == Spec => []TypeOK
  <1>1. TypeOK /\ [Next]_vars => TypeOK'
    BY StepType
  <1> QED
    BY <1>1, InitType, PTL DEF Spec

(***************************************************************************)
(* Exact guards                                                            *)
(***************************************************************************)
Holders(w) == {r \in Requests : Holds(r) = w}

LEMMA HoldersFinite ==
    ASSUME NEW w
    PROVE  /\ Holders(w) \subseteq Requests
           /\ IsFiniteSet(Holders(w))
           /\ Cardinality(Holders(w)) \in Nat
  <1>1. Holders(w) \subseteq Requests /\ IsFiniteSet(Requests)
    BY RequestFlowAssumption DEF Holders
  <1> QED
    BY <1>1, FS_Subset, FS_CardinalityType

\* Only one request moves: the guards of the others stay where they are.
LEMMA HoldsOfOthers ==
    ASSUME TypeOK, NEW r \in Requests, NEW q \in Requests, q # r,
           pc'[q] = pc[q], prefill'[q] = prefill[q], worker'[q] = worker[q]
    PROVE  Holds(q)' = Holds(q)
  BY DEF Holds

\* A guard is taken.
LEMMA TakeGuard ==
    ASSUME TypeOK, GuardsExact, NEW r \in Requests, NEW v \in Workers,
           Holds(r) = None, Holds(r)' = v, increment(v),
           \A q \in Requests \ {r} : Holds(q)' = Holds(q)
    PROVE  GuardsExact'
  <1>1. \A w \in Workers : counts'[w] = IF w = v THEN WrapInc(counts[w]) ELSE counts[w]
    BY Constants DEF increment, TypeOK, TrackerType, Workers
  <1>2. \A w \in Workers : Holders(w)' = IF w = v THEN Holders(w) \cup {r} ELSE Holders(w)
    BY Constants DEF Holders
  <1>3. r \notin Holders(v)
    BY Constants DEF Holders
  <1>4. Cardinality(Holders(v) \cup {r}) = Cardinality(Holders(v)) + 1
    BY <1>3, HoldersFinite, FS_AddElement
  <1>5. Cardinality(Holders(v)) + 1 < CountMod
    <2>1. Holders(v) \cup {r} \subseteq Requests /\ IsFiniteSet(Requests)
      BY HoldersFinite, RequestFlowAssumption
    <2>2. /\ Cardinality(Holders(v) \cup {r}) <= Cardinality(Requests)
          /\ Cardinality(Requests) \in Nat /\ Cardinality(Requests) < CountMod
      BY <2>1, FS_Subset, FS_CardinalityType, RequestFlowAssumption
    <2> QED
      BY <1>4, <2>2, HoldersFinite
  <1>6. \A w \in Workers : counts[w] = Cardinality(Holders(w))
    BY DEF GuardsExact, Holders
  <1>7. WrapInc(counts[v]) = counts[v] + 1
    BY <1>5, <1>6, HoldersFinite DEF WrapInc
  <1>8. \A w \in Workers : counts'[w] = Cardinality(Holders(w)')
    BY <1>1, <1>2, <1>4, <1>6, <1>7
  <1> QED
    BY <1>8 DEF GuardsExact, Holders

\* A guard is dropped.
LEMMA LoseGuard ==
    ASSUME TypeOK, GuardsExact, NEW r \in Requests, NEW v \in Workers,
           Holds(r) = v, Holds(r)' = None, decrement(v),
           \A q \in Requests \ {r} : Holds(q)' = Holds(q)
    PROVE  GuardsExact'
  <1>1. \A w \in Workers : counts'[w] = IF w = v THEN WrapDec(counts[w]) ELSE counts[w]
    BY Constants DEF decrement, TypeOK, TrackerType, Workers
  <1>2. \A w \in Workers : Holders(w)' = IF w = v THEN Holders(w) \ {r} ELSE Holders(w)
    BY Constants DEF Holders
  <1>3. r \in Holders(v)
    BY DEF Holders
  <1>4. /\ Cardinality(Holders(v) \ {r}) = Cardinality(Holders(v)) - 1
        /\ Cardinality(Holders(v)) # 0
    BY <1>3, HoldersFinite, FS_RemoveElement, FS_EmptySet
  <1>5. \A w \in Workers : counts[w] = Cardinality(Holders(w))
    BY DEF GuardsExact, Holders
  <1>6. WrapDec(counts[v]) = counts[v] - 1
    BY <1>4, <1>5 DEF WrapDec
  <1>7. \A w \in Workers : counts'[w] = Cardinality(Holders(w)')
    BY <1>1, <1>2, <1>4, <1>5, <1>6
  <1> QED
    BY <1>7 DEF GuardsExact, Holders

LEMMA KeepGuards ==
    ASSUME GuardsExact, UNCHANGED trackerVars, \A q \in Requests : Holds(q)' = Holds(q)
    PROVE  GuardsExact'
  <1>1. \A w \in Workers : Holders(w)' = Holders(w)
    BY DEF Holders
  <1> QED
    BY <1>1 DEF GuardsExact, Holders, trackerVars

\* Every way for a request to end drops what it holds.
LEMMA EndGuard ==
    ASSUME TypeOK, GuardsExact, NEW r \in Requests, DropGuard(r),
           pc' = [pc EXCEPT ![r] = "ended"], UNCHANGED <<prefill, worker>>
    PROVE  GuardsExact'
  <1>1. \A q \in Requests \ {r} : Holds(q)' = Holds(q)
    BY HoldsOfOthers DEF TypeOK
  <1>2. Holds(r)' = None
    BY DEF Holds, TypeOK
  <1>3. CASE Holds(r) = None
    BY <1>1, <1>2, <1>3, KeepGuards DEF DropGuard
  <1>4. CASE Holds(r) # None
    BY <1>1, <1>2, <1>4, HoldsType, LoseGuard DEF DropGuard
  <1> QED
    BY <1>3, <1>4

LEMMA GuardStep == TypeOK /\ GuardsExact /\ [Next]_vars => GuardsExact'
  <1> SUFFICES ASSUME TypeOK, GuardsExact, [Next]_vars PROVE GuardsExact'
    OBVIOUS
  <1>0. ASSUME NEW r \in Requests, NEW status, NEW error, Fail(r, status, error)
        PROVE  GuardsExact'
    BY <1>0, EndGuard DEF Fail, Set
  \* the steps that take no guard and drop none
  <1>1. ASSUME NEW r \in Requests, UNCHANGED trackerVars, NEW next,
               pc' = [pc EXCEPT ![r] = next],
               Holds(r) = None, Holds(r)' = None,
               \A q \in Requests \ {r} : prefill'[q] = prefill[q] /\ worker'[q] = worker[q]
        PROVE  GuardsExact'
    <2>1. \A q \in Requests \ {r} : Holds(q)' = Holds(q)
      BY <1>1, HoldsOfOthers DEF TypeOK
    <2> QED
      BY <1>1, <2>1, KeepGuards
  <1>2. ASSUME NEW r \in Requests, Reject(r) \/ Receive(r) PROVE GuardsExact'
    <2>1. Holds(r) = None /\ Holds(r)' = None
      BY <1>2 DEF Reject, Receive, Holds, TypeOK, Set
    <2> QED
      BY <1>1, <1>2, <2>1 DEF Reject, Receive, Set
  <1>3. ASSUME NEW r \in Requests, HandlerSteps(r) PROVE GuardsExact'
    <2>1. CASE Pick(r) \/ PickPrefill(r) \/ PickDecode(r) \/ Transfer(r)
      <3>1. CASE \E status, error : Fail(r, status, error)
        BY <3>1, <1>0
      <3>2. CASE ~\E status, error : Fail(r, status, error)
        <4>1. PICK next \in {"acquire", "acquire_prefill", "transfer"} :
                 pc' = [pc EXCEPT ![r] = next]
          BY <2>1, <3>2 DEF Pick, PickPrefill, PickDecode, Transfer, Set
        <4>2. /\ UNCHANGED trackerVars
              /\ \A q \in Requests \ {r} : prefill'[q] = prefill[q] /\ worker'[q] = worker[q]
          BY <2>1, <3>2 DEF Pick, PickPrefill, PickDecode, Transfer, Set, TypeOK
        <4>3. pc[r] \in {"pick", "pick_prefill", "pick_decode", "transfer"}
          BY <2>1 DEF Pick, PickPrefill, PickDecode, Transfer
        <4>4. Holds(r) = None /\ Holds(r)' = None
          BY <4>1, <4>3 DEF Holds, TypeOK
        <4> QED
          BY <1>1, <4>1, <4>2, <4>4
      <3> QED
        BY <3>1, <3>2
    <2>2. CASE Acquire(r)
      <3>1. Holds(r) = None /\ Holds(r)' = worker[r] /\ worker[r] \in Workers
        BY <2>2 DEF Acquire, Holds, TypeOK, Set
      <3>2. \A q \in Requests \ {r} : Holds(q)' = Holds(q)
        BY <2>2, HoldsOfOthers DEF Acquire, TypeOK, Set
      <3> QED
        BY <2>2, <3>1, <3>2, TakeGuard DEF Acquire
    <2>3. CASE AcquirePrefill(r)
      <3>1. Holds(r) = None /\ Holds(r)' = prefill[r] /\ prefill[r] \in Workers
        BY <2>3 DEF AcquirePrefill, Holds, TypeOK, Set
      <3>2. \A q \in Requests \ {r} : Holds(q)' = Holds(q)
        BY <2>3, HoldsOfOthers DEF AcquirePrefill, TypeOK, Set
      <3> QED
        BY <2>3, <3>1, <3>2, TakeGuard DEF AcquirePrefill
    <2>4. CASE Respond(r) \/ PrefillAnswers(r)
      <3>1. Holds(r)' = Holds(r)
        BY <2>4 DEF Respond, build_response, PrefillAnswers, Holds, TypeOK, Set
      <3>2. \A q \in Requests \ {r} : Holds(q)' = Holds(q)
        BY <2>4, HoldsOfOthers DEF Respond, build_response, PrefillAnswers, TypeOK, Set
      <3> QED
        BY <2>4, <3>1, <3>2, KeepGuards DEF Respond, PrefillAnswers
    <2>5. CASE UpstreamFails(r)
      BY <1>0, <2>5 DEF UpstreamFails
    <2>7. CASE BuildFails(r)
      BY <2>7, EndGuard DEF BuildFails, Set
    <2>6. CASE Drain(r)
      <3>1. Holds(r) = prefill[r] /\ Holds(r)' = None /\ prefill[r] \in Workers
        BY <2>6 DEF Drain, Holds, TypeOK, Set
      <3>2. \A q \in Requests \ {r} : Holds(q)' = Holds(q)
        BY <2>6, HoldsOfOthers DEF Drain, TypeOK, Set
      <3> QED
        BY <2>6, <3>1, <3>2, LoseGuard DEF Drain
    <2> QED
      BY <1>3, <2>1, <2>2, <2>3, <2>4, <2>5, <2>6, <2>7 DEF HandlerSteps, Upstream
  <1>4. ASSUME NEW r \in Requests, Finish(r) \/ Leave(r) PROVE GuardsExact'
    BY <1>4, EndGuard DEF Finish, Leave, Set
  <1>5. CASE UNCHANGED <<pc, prefill, worker, trackerVars>>
    BY <1>5, KeepGuards DEF Holds
  <1> QED
    BY <1>2, <1>3, <1>4, <1>5 DEF Next, BodySteps, PollChunk, PollError, AppendDone,
       HealthFlips, vars, localVars

\* Whatever fails, and at whichever await the client leaves, the count of a worker is
\* the number of requests that own a guard on it - for any number of requests below
\* the width of the counter.
THEOREM GuardsAreExact == Spec => []GuardsExact
  <1>1. Init => GuardsExact
    <2> SUFFICES ASSUME Init PROVE GuardsExact
      OBVIOUS
    <2>1. \A w \in Workers : Holders(w) = {}
      BY Constants DEF Init, Holders, Holds
    <2>2. \A w \in Workers : counts[w] = 0
      BY DEF Init, with_capacity, Workers
    <2> QED
      BY <2>1, <2>2, FS_EmptySet DEF GuardsExact, Holders
  <1>2. TypeOK /\ GuardsExact /\ [Next]_vars => GuardsExact'
    BY GuardStep
  <1> QED
    BY <1>1, <1>2, TypeCorrect, PTL DEF Spec

(***************************************************************************)
(* What a request is counted as                                            *)
(***************************************************************************)
\* A request is counted in the step that ends it, and until then the client has
\* been told nothing but the head of a body, or that the body broke.
Account(r) ==
    /\ pc[r] # "ended" => recorded[r] = <<>>
    /\ pc[r] \notin {"body", "ended"} => answer[r] = "none"
    /\ pc[r] = "body" => answer[r] = IF proxy[r].errored THEN "broken" ELSE "200"
    /\ pc[r] = "ended" =>
         CASE answer[r] \in {"502", "503"} -> recorded[r] = <<answer[r]>>
           [] answer[r] = "complete" -> recorded[r] = <<"200">>
           [] answer[r] = "broken" -> recorded[r] \in {<<>>, <<"502">>}
           [] OTHER -> recorded[r] = <<>>

AccountInv == \A r \in Requests : Account(r)

LEMMA AccountOfOthers ==
    ASSUME NEW q \in Requests, Account(q), pc'[q] = pc[q], answer'[q] = answer[q],
           recorded'[q] = recorded[q], proxy'[q] = proxy[q]
    PROVE  Account(q)'
  BY DEF Account

\* What is counted first is all that is counted.
LEMMA CountedOnce ==
    ASSUME NEW x
    PROVE  Append(<<>>, x) = <<x>>
  OBVIOUS

\* The proxy states a body step may leave, as far as counting goes.
LEMMA ErroredFacts ==
    ASSUME NEW p \in ProxyState, NEW body \in Seq(Half)
    PROVE  /\ ~[NoProxy EXCEPT !.script = body].errored
           /\ [p EXCEPT !.errored = TRUE, !.eof = TRUE].errored
           /\ [p EXCEPT !.got = @ \o DoneMarker, !.done_seen = TRUE,
                        !.eof = TRUE].errored = p.errored
  <1>1. ~[NoProxy EXCEPT !.script = body].errored
    BY DEF NoProxy
  <1>2. [p EXCEPT !.errored = TRUE, !.eof = TRUE].errored
    BY DEF ProxyState
  <1>3. [p EXCEPT !.got = @ \o DoneMarker, !.done_seen = TRUE, !.eof = TRUE].errored
            = p.errored
    BY DEF ProxyState
  <1> QED
    BY <1>1, <1>2, <1>3

LEMMA AccountStep == TypeOK /\ AccountInv /\ [Next]_vars => AccountInv'
  <1> SUFFICES ASSUME TypeOK, AccountInv, [Next]_vars, NEW q \in Requests
               PROVE  Account(q)'
    BY DEF AccountInv
  <1>0. Account(q)
    BY DEF AccountInv
  <1>1. ASSUME NEW r \in Requests, r # q,
               Reject(r) \/ Receive(r) \/ HandlerSteps(r) \/ BodySteps(r) \/ Leave(r)
        PROVE  Account(q)'
    <2>1. CASE Reject(r) \/ Receive(r) \/ Leave(r)
      BY <1>0, <1>1, <2>1, AccountOfOthers DEF Reject, Receive, Leave, Set, TypeOK
    <2>2. CASE Upstream(r)
      BY <1>0, <1>1, <2>2, AccountOfOthers DEF Upstream, Acquire, Respond, build_response,
         BuildFails, UpstreamFails, Fail, Set, TypeOK
    <2>3. CASE Pick(r) \/ PickPrefill(r) \/ AcquirePrefill(r) \/ PrefillAnswers(r)
                 \/ Drain(r) \/ PickDecode(r) \/ Transfer(r)
      BY <1>0, <1>1, <2>3, AccountOfOthers DEF Pick, PickPrefill, AcquirePrefill,
         PrefillAnswers, Drain, PickDecode, Transfer, Fail, Set, TypeOK
    <2>4. CASE BodySteps(r)
      BY <1>0, <1>1, <2>4, AccountOfOthers DEF BodySteps, PollChunk, PollError, AppendDone,
         Finish, finish, Set, TypeOK
    <2> QED
      BY <1>1, <2>1, <2>2, <2>3, <2>4 DEF HandlerSteps
  <1>2. ASSUME NEW status \in {"502", "503"},
               NEW error \in {"no_healthy_workers", "kv_transfer", "upstream"},
               status = ApiError[error], pc[q] # "ended", Fail(q, status, error)
        PROVE  Account(q)'
    <2>1. recorded[q] = <<>> /\ recorded'[q] = Append(recorded[q], status)
      BY <1>0, <1>2 DEF Account, Fail, Set, TypeOK
    <2>2. recorded'[q] = <<status>>
      BY <2>1, CountedOnce
    <2>3. pc'[q] = "ended" /\ answer'[q] = status
      BY <1>2 DEF Fail, Set, TypeOK
    <2> QED
      BY <2>2, <2>3 DEF Account
  <1>3. /\ ApiError["no_healthy_workers"] = "503" /\ ApiError["kv_transfer"] = "502"
        /\ ApiError["upstream"] = "502"
    BY DEF ApiError
  \* a step inside the handler
  <1>4. ASSUME NEW next, next \notin {"body", "ended"}, pc[q] \notin {"body", "ended"},
               pc' = [pc EXCEPT ![q] = next], UNCHANGED <<answer, recorded>>
        PROVE  Account(q)'
    BY <1>0, <1>4 DEF Account, TypeOK
  <1>5. CASE Reject(q)
    BY <1>0, <1>5 DEF Account, Reject, Set, TypeOK
  <1>6. CASE Receive(q)
    BY <1>4, <1>6 DEF Receive, Set
  <1>7. CASE Pick(q) \/ PickPrefill(q) \/ PickDecode(q)
    BY <1>2, <1>3, <1>4, <1>7 DEF Pick, PickPrefill, PickDecode, Set
  <1>8. CASE AcquirePrefill(q) \/ PrefillAnswers(q) \/ Drain(q) \/ Acquire(q)
    BY <1>4, <1>8 DEF AcquirePrefill, PrefillAnswers, Drain, Acquire, Set
  <1>9. CASE Transfer(q)
    BY <1>2, <1>3, <1>4, <1>9 DEF Transfer, transfer, Set
  <1>10. CASE UpstreamFails(q)
    BY <1>2, <1>3, <1>10 DEF UpstreamFails
  <1>11. CASE Respond(q)
    <2>1. PICK body \in Bodies : build_response(q, body)
      BY <1>11 DEF Respond
    <2>2. ~proxy'[q].errored
      <3>1. proxy'[q] = [NoProxy EXCEPT !.script = body]
        BY <2>1 DEF build_response, Set, TypeOK
      <3>2. proxy[q] \in ProxyState /\ body \in Seq(Half)
        BY Constants DEF TypeOK, ProxyState
      <3> QED
        BY <3>1, <3>2, ErroredFacts
    <2>3. pc'[q] = "body" /\ answer'[q] = "200" /\ recorded'[q] = <<>>
      BY <1>0, <1>11, <2>1 DEF Respond, build_response, Set, TypeOK, Account
    <2> QED
      BY <2>2, <2>3 DEF Account
  <1>18. CASE BuildFails(q)
    BY <1>0, <1>18 DEF BuildFails, Set, TypeOK, Account
  <1>12. CASE PollChunk(q)
    <2>1. proxy'[q].errored = proxy[q].errored
      <3>1. PICK n \in 1 .. Len(Rest(proxy[q])) :
               proxy' = [proxy EXCEPT ![q] = Polled(proxy[q], n, stream[q])]
        BY <1>12, PollChunkIs
      <3>2. proxy'[q] = Polled(proxy[q], n, stream[q])
        BY <3>1 DEF TypeOK
      <3>3. proxy[q] \in ProxyState /\ stream[q] \in BOOLEAN
        BY DEF TypeOK, ProxyState
      <3>4. Polled(proxy[q], n, stream[q]).errored = proxy[q].errored
        BY <3>3, PolledFacts, Zenon
      <3> QED
        BY <3>2, <3>4
    <2> QED
      BY <1>0, <1>12, <2>1 DEF PollChunk, Account
  <1>13. CASE PollError(q)
    <2>1. proxy'[q].errored
      BY <1>13, ErroredFacts, EmptySeq DEF PollError, Set, TypeOK, ProxyState
    <2>2. pc'[q] = "body" /\ answer'[q] = "broken" /\ recorded'[q] = <<>>
      BY <1>0, <1>13 DEF PollError, Set, TypeOK, Account
    <2> QED
      BY <2>1, <2>2 DEF Account
  <1>14. CASE AppendDone(q)
    <2>1. proxy'[q].errored = proxy[q].errored
      BY <1>14, ErroredFacts, EmptySeq DEF AppendDone, Set, TypeOK, ProxyState
    <2> QED
      BY <1>0, <1>14, <2>1 DEF AppendDone, Account
  <1>15. CASE Finish(q)
    <2>1. pc[q] = "body" /\ recorded[q] = <<>>
      BY <1>0, <1>15 DEF Finish, AtEnd, Account
    <2>2. /\ pc'[q] = "ended"
          /\ answer'[q] = IF proxy[q].errored THEN "broken" ELSE "complete"
          /\ recorded'[q] = Append(recorded[q], IF proxy[q].errored THEN "502" ELSE "200")
      BY <1>15 DEF Finish, finish, Set, TypeOK
    <2>3. recorded'[q] = IF proxy[q].errored THEN <<"502">> ELSE <<"200">>
      BY <2>1, <2>2, CountedOnce
    <2> QED
      BY <2>2, <2>3 DEF Account
  <1>16. CASE Leave(q)
    BY <1>0, <1>16 DEF Leave, Set, TypeOK, Account
  <1>17. CASE UNCHANGED localVars
    BY <1>0, <1>17, AccountOfOthers DEF localVars
  <1> QED
    BY <1>1, <1>5, <1>6, <1>7, <1>8, <1>9, <1>10, <1>11, <1>12, <1>13, <1>14, <1>15,
       <1>16, <1>17, <1>18 DEF Next, HandlerSteps, Upstream, BodySteps, HealthFlips, vars

\* kvrouter_requests_total never tells what the client was not told, whatever the
\* interleaving of polls, errors and departures: at most one count, under the status the
\* client saw, and exactly one for a complete answer and an error of the handler.
THEOREM EveryRequestAccounted == Spec => []Accounted
  <1>1. Init => AccountInv
    BY DEF Init, AccountInv, Account
  <1>2. TypeOK /\ AccountInv /\ [Next]_vars => AccountInv'
    BY AccountStep
  <1>3. AccountInv => Accounted
    <2> SUFFICES ASSUME AccountInv, NEW r \in Requests, pc[r] = "ended"
                 PROVE  /\ recorded[r] \in {<<>>, <<StatusSeen(answer[r])>>}
                        /\ answer[r] \in {"left", "400"} => recorded[r] = <<>>
                        /\ answer[r] \in {"502", "503", "complete"} => recorded[r] # <<>>
      BY DEF Accounted
    <2>1. CASE answer[r] \in {"502", "503"}
      <3>1. recorded[r] = <<answer[r]>> /\ StatusSeen(answer[r]) = answer[r]
        BY <2>1 DEF AccountInv, Account, StatusSeen
      <3>2. <<answer[r]>> # <<>>
        OBVIOUS
      <3> QED
        BY <2>1, <3>1, <3>2
    <2>2. CASE answer[r] = "complete"
      <3>1. recorded[r] = <<"200">> /\ StatusSeen(answer[r]) = "200"
        BY <2>2 DEF AccountInv, Account, StatusSeen
      <3> QED
        BY <2>2, <3>1
    <2>3. CASE answer[r] = "broken"
      <3>1. recorded[r] \in {<<>>, <<"502">>} /\ StatusSeen(answer[r]) = "502"
        BY <2>3 DEF AccountInv, Account, StatusSeen
      <3> QED
        BY <2>3, <3>1
    <2>4. CASE answer[r] \notin {"502", "503", "complete", "broken"}
      <3>1. recorded[r] = <<>>
        BY <2>4 DEF AccountInv, Account
      <3> QED
        BY <2>4, <3>1
    <2> QED
      BY <2>1, <2>2, <2>3, <2>4
  <1> QED
    BY <1>1, <1>2, <1>3, TypeCorrect, PTL DEF Spec

(***************************************************************************)
(* What a streaming client receives and is billed for                      *)
(***************************************************************************)
\* The whole events of p's upstream body that chunks ending at `c` do not cut, and
\* those among them that have arrived.
UncutOf(p, c, first, second) == {i \in Whole(p.script, first, second) : i \notin c}
SeenOf(p, c, first, second) == {i \in UncutOf(p, c, first, second) : i < Len(p.got)}

\* The body so far is a prefix of the upstream's that ends at a chunk boundary; a
\* marker was seen and a token counted for each whole event that arrived uncut.
Streaming(p, c, sse) ==
    /\ Len(p.got) <= Len(p.script)
    /\ \A i \in 1 .. Len(p.got) : p.got[i] = p.script[i]
    /\ c \subseteq 1 .. Len(p.got)
    /\ Len(p.got) = 0 \/ Len(p.got) \in c
    /\ p.done_seen <=> sse /\ SeenOf(p, c, "d1", "d2") # {}
    /\ sse => p.tokens = Cardinality(SeenOf(p, c, "c1", "c2"))

\* The router has added its marker, so there was none it could have seen.
Terminated(p, c, sse) ==
    /\ sse /\ p.done_seen
    /\ p.got = p.script \o DoneMarker
    /\ UncutOf(p, c, "d1", "d2") = {}
    /\ p.tokens = Cardinality(UncutOf(p, c, "c1", "c2"))

Completed(p, c, sse) ==
    /\ p.got = IF sse /\ UncutOf(p, c, "d1", "d2") = {} THEN p.script \o DoneMarker
               ELSE p.script
    /\ sse => p.tokens = Cardinality(UncutOf(p, c, "c1", "c2"))

LEMMA LengthsOfProxy ==
    ASSUME NEW p \in ProxyState
    PROVE  /\ p.script \in Seq(Half) /\ p.got \in Seq(Half)
           /\ Len(p.script) \in Nat /\ Len(p.got) \in Nat
  <1>1. p.script \in Seq(Half) /\ p.got \in Seq(Half)
    BY DEF ProxyState
  <1> QED
    BY <1>1, LenProperties

LEMMA SeenFinite ==
    ASSUME NEW p \in ProxyState, NEW c, NEW first, NEW second
    PROVE  /\ IsFiniteSet(SeenOf(p, c, first, second))
           /\ Cardinality(SeenOf(p, c, first, second)) \in Nat
  <1>1. SeenOf(p, c, first, second) \subseteq Whole(p.script, first, second)
    BY DEF SeenOf, UncutOf
  <1> QED
    BY <1>1, LengthsOfProxy, WholeFinite, FS_Subset, FS_CardinalityType

\* A set of positions moved along by g has as many members.
LEMMA Shifted ==
    ASSUME NEW W, W \subseteq Nat, IsFiniteSet(W), NEW g \in Nat
    PROVE  /\ IsFiniteSet({g + j : j \in W})
           /\ Cardinality({g + j : j \in W}) = Cardinality(W)
  <1> DEFINE T == {g + j : j \in W}
             f == [j \in W |-> g + j]
  <1>1. f \in Bijection(W, T)
    BY DEF Bijection, Injection, Surjection, IsInjective
  <1>2. ExistsBijection(W, T)
    BY <1>1 DEF ExistsBijection
  <1> QED
    BY <1>2, FS_Bijection

\* A chunk adds its own whole events to those that arrived before it: an event cut by
\* the boundary between the two is in neither, and none is in both.
LEMMA SeenGrows ==
    ASSUME NEW p \in ProxyState, NEW n \in 1 .. Len(Rest(p)), NEW c,
           c \subseteq 1 .. Len(p.got), Len(p.got) = 0 \/ Len(p.got) \in c,
           NEW q \in ProxyState, q.script = p.script, q.got = p.got \o Chunk(p, n),
           NEW first, NEW second
    PROVE  /\ SeenOf(q, c \cup {Len(p.got) + n}, first, second) = {}
                <=> /\ SeenOf(p, c, first, second) = {}
                    /\ Whole(Chunk(p, n), first, second) = {}
           /\ Cardinality(SeenOf(q, c \cup {Len(p.got) + n}, first, second))
                = Cardinality(SeenOf(p, c, first, second))
                    + Cardinality(Whole(Chunk(p, n), first, second))
  <1> DEFINE chunk == Chunk(p, n)
             S == SeenOf(p, c, first, second)
             W == Whole(chunk, first, second)
             T == SeenOf(q, c \cup {Len(p.got) + n}, first, second)
             g == Len(p.got)
             k == Len(p.script)
             M == {g + j : j \in W}
  <1>1. g \in Nat /\ k \in Nat /\ n \in Nat \ {0} /\ g + n <= k
    <2>1. p.script \in Seq(Half) /\ g \in Nat /\ k \in Nat
      BY LengthsOfProxy
    <2>2. Rest(p) \in Seq(Half) /\ g + n <= k
      BY ChunkFacts
    <2> QED
      BY <2>1, <2>2, LenProperties
  <1>2. /\ chunk \in Seq(Half) /\ Len(chunk) = n
        /\ \A i \in 1 .. n : chunk[i] = p.script[g + i]
    BY ChunkFacts
  <1>3. Len(q.got) = g + n
    BY <1>1, <1>2, LengthsOfProxy, ConcatProperties
  <1>4. \A i : i \in S <=> /\ i \in 1 .. k - 1 /\ i < g /\ i \notin c
                           /\ p.script[i] = first /\ p.script[i + 1] = second
    BY DEF SeenOf, UncutOf, Whole
  <1>5. \A i : i \in T <=> /\ i \in 1 .. k - 1 /\ i < g + n /\ i \notin c /\ i # g + n
                           /\ p.script[i] = first /\ p.script[i + 1] = second
    BY <1>3 DEF SeenOf, UncutOf, Whole
  <1>6. \A j : j \in W <=> /\ j \in 1 .. n - 1
                           /\ chunk[j] = first /\ chunk[j + 1] = second
    BY <1>2 DEF Whole
  <1> HIDE DEF chunk, S, W, T, g, k
  <1>7. \A j \in 1 .. n - 1 : chunk[j] = p.script[g + j] /\ chunk[j + 1] = p.script[g + j + 1]
    <2> SUFFICES ASSUME NEW j \in 1 .. n - 1
                 PROVE  chunk[j] = p.script[g + j] /\ chunk[j + 1] = p.script[g + j + 1]
      OBVIOUS
    <2>1. j \in 1 .. n /\ j + 1 \in 1 .. n /\ g + (j + 1) = g + j + 1
      BY <1>1
    <2> QED
      BY <1>2, <2>1
  <1>8. c \subseteq 1 .. g /\ (g = 0 \/ g \in c)
    BY DEF g
  <1>9. T \subseteq S \cup M
    <2> SUFFICES ASSUME NEW i \in T, i \notin S PROVE i \in M
      OBVIOUS
    <2>1. /\ i \in 1 .. k - 1 /\ i < g + n /\ i \notin c
          /\ p.script[i] = first /\ p.script[i + 1] = second
      BY <1>5
    <2>2. i \in Nat /\ i >= 1 /\ ~(i < g) /\ i # g
      <3>1. i \in Nat /\ i >= 1
        BY <1>1, <2>1
      <3>2. ~(i < g)
        BY ONLY <1>4, <2>1, i \notin S
      <3> QED
        BY <1>8, <2>1, <3>1, <3>2
    <2>3. i - g \in 1 .. n - 1 /\ g + (i - g) = i
      BY <1>1, <2>1, <2>2
    <2>4. chunk[i - g] = first /\ chunk[(i - g) + 1] = second
      BY <1>7, <2>1, <2>3
    <2>5. i - g \in W
      BY <1>6, <2>3, <2>4
    <2> QED
      BY <2>3, <2>5 DEF M
  <1>10. S \subseteq T
    <2> SUFFICES ASSUME NEW i \in S PROVE i \in T
      OBVIOUS
    <2>1. /\ i \in 1 .. k - 1 /\ i < g /\ i \notin c
          /\ p.script[i] = first /\ p.script[i + 1] = second
      BY <1>4
    <2>2. i < g + n /\ i # g + n
      BY <1>1, <2>1
    <2> QED
      BY <1>5, <2>1, <2>2
  <1>11. M \subseteq T
    <2> SUFFICES ASSUME NEW j \in W PROVE g + j \in T
      OBVIOUS
    <2>1. j \in 1 .. n - 1 /\ p.script[g + j] = first /\ p.script[g + j + 1] = second
      BY <1>6, <1>7
    <2>2. g + j \in 1 .. k - 1 /\ g + j < g + n /\ g + j # g + n /\ g + j \notin 1 .. g
      BY <1>1, <2>1
    <2> QED
      BY <1>5, <1>8, <2>1, <2>2
  <1>12. S \cap M = {}
    <2> SUFFICES ASSUME NEW j \in W PROVE g + j \notin S
      OBVIOUS
    <2>1. j \in 1 .. n - 1
      BY <1>6
    <2> QED
      BY <1>1, <1>4, <2>1
  <1>13. T = S \cup M
    BY <1>9, <1>10, <1>11
  <1>14. (T = {}) <=> (S = {} /\ W = {})
    BY <1>13
  <1>15. /\ IsFiniteSet(S) /\ IsFiniteSet(W) /\ W \subseteq Nat
         /\ Cardinality(S) \in Nat /\ Cardinality(W) \in Nat
    <2>1. IsFiniteSet(S) /\ Cardinality(S) \in Nat
      BY SeenFinite DEF S
    <2>2. IsFiniteSet(W) /\ Cardinality(W) \in Nat
      BY <1>1, <1>2, WholeFinite DEF W
    <2>3. W \subseteq Nat
      BY <1>1, <1>6
    <2> QED
      BY <2>1, <2>2, <2>3
  <1>16. IsFiniteSet(M) /\ Cardinality(M) = Cardinality(W)
    BY <1>1, <1>15, Shifted
  <1> HIDE DEF M
  <1>17. Cardinality(S \cup M) = Cardinality(S) + Cardinality(M) - Cardinality(S \cap M)
    BY <1>15, <1>16, FS_Union
  <1>18. Cardinality(T) = Cardinality(S) + Cardinality(W)
    <2>1. Cardinality(S \cap M) = 0
      BY <1>12, FS_EmptySet
    <2> QED
      BY <1>13, <1>15, <1>16, <1>17, <2>1
  <1> QED
    BY <1>14, <1>18 DEF S, T, W, g, chunk

\* Nothing is left exactly when all of the body has arrived.
LEMMA NothingLeft ==
    ASSUME NEW p \in ProxyState, NEW c, NEW sse, Streaming(p, c, sse), Rest(p) = <<>>
    PROVE  /\ p.got = p.script
           /\ \A first, second : SeenOf(p, c, first, second) = UncutOf(p, c, first, second)
  <1> DEFINE g == Len(p.got)
             k == Len(p.script)
  <1>1. p.script \in Seq(Half) /\ p.got \in Seq(Half) /\ g \in Nat /\ k \in Nat
    BY LengthsOfProxy
  <1>2. g <= k /\ \A i \in 1 .. g : p.got[i] = p.script[i]
    BY DEF Streaming
  <1>3. Len(SubSeq(p.script, g + 1, k)) = 0
    <2>1. SubSeq(p.script, g + 1, k) = <<>>
      BY DEF Rest
    <2>2. Len(<<>>) = 0
      OBVIOUS
    <2> QED
      BY ONLY <2>1, <2>2
  <1>4. \A i \in 1 .. k : p.script[i] \in Half
    BY <1>1, ElementOfSeq
  <1> HIDE DEF g, k
  <1>5. Len(SubSeq(p.script, g + 1, k)) = IF g + 1 <= k THEN k - (g + 1) + 1 ELSE 0
    <2>1. \A i \in g + 1 .. k : p.script[i] \in Half
      BY <1>1, <1>4
    <2> QED
      BY <1>1, <2>1, SubSeqProperties
  <1>6. g = k
    BY <1>1, <1>2, <1>3, <1>5
  <1>7. p.got = p.script
    BY <1>1, <1>2, <1>6, SeqEqual DEF g, k
  <1>8. ASSUME NEW first, NEW second
        PROVE  SeenOf(p, c, first, second) = UncutOf(p, c, first, second)
    <2>1. \A i \in Whole(p.script, first, second) : i < g
      BY <1>1, <1>6 DEF Whole, k
    <2> QED
      BY <2>1 DEF SeenOf, UncutOf, g
  <1> QED
    BY <1>7, <1>8

LEMMA StreamingStarts ==
    ASSUME NEW body \in Seq(Half), NEW sse \in BOOLEAN
    PROVE  Streaming([NoProxy EXCEPT !.script = body], {}, sse)
  <1> DEFINE p == [NoProxy EXCEPT !.script = body]
  <1>1. /\ p \in ProxyState /\ p.script = body /\ p.got = <<>> /\ ~p.done_seen
        /\ p.tokens = 0
    BY NoProxyType DEF NoProxy
  <1>2. Len(p.got) = 0 /\ Len(body) \in Nat
    BY <1>1, LenProperties
  <1> HIDE DEF p
  <1>3. ASSUME NEW first, NEW second PROVE SeenOf(p, {}, first, second) = {}
    BY <1>1, <1>2 DEF SeenOf, UncutOf, Whole
  <1>4. \A i \in 1 .. Len(p.got) : p.got[i] = p.script[i]
    BY <1>2
  <1>5. Cardinality(SeenOf(p, {}, "c1", "c2")) = 0
    BY <1>3, FS_EmptySet
  <1>6. Streaming(p, {}, sse)
    BY <1>1, <1>2, <1>3, <1>4, <1>5 DEF Streaming
  <1> QED
    BY <1>6 DEF p

LEMMA StreamingGoesOn ==
    ASSUME NEW p \in ProxyState, NEW c, NEW sse \in BOOLEAN, Streaming(p, c, sse),
           NEW n \in 1 .. Len(Rest(p))
    PROVE  Streaming(Polled(p, n, sse), c \cup {Len(p.got) + n}, sse)
  <1> DEFINE chunk == Chunk(p, n)
             q == Polled(p, n, sse)
  <1>1. /\ q \in ProxyState /\ q.script = p.script /\ q.got = p.got \o chunk
        /\ q.done_seen <=> p.done_seen \/ (sse /\ Whole(chunk, "d1", "d2") # {})
        /\ q.tokens = IF sse THEN p.tokens + Cardinality(Whole(chunk, "c1", "c2"))
                      ELSE p.tokens
    BY PolledFacts
  <1> DEFINE g == Len(p.got)
             k == Len(p.script)
             d == c \cup {g + n}
  <1>2. p.got \in Seq(Half) /\ g \in Nat /\ k \in Nat
    BY LengthsOfProxy
  <1>3. /\ g + n <= k /\ chunk \in Seq(Half) /\ Len(chunk) = n
        /\ \A i \in 1 .. n : chunk[i] = p.script[g + i]
        /\ n \in Nat /\ n > 0
    <2>1. Rest(p) \in Seq(Half)
      BY ChunkFacts
    <2>2. n \in Nat /\ n > 0
      BY <2>1, LenProperties
    <2> QED
      BY <2>2, ChunkFacts
  <1>4. /\ Len(q.got) = g + n
        /\ \A i \in 1 .. g + n : q.got[i] = IF i <= g THEN p.got[i] ELSE chunk[i - g]
    <2>1. /\ Len(p.got \o chunk) = g + n
          /\ \A i \in 1 .. g + n :
               (p.got \o chunk)[i] = IF i <= g THEN p.got[i] ELSE chunk[i - g]
      BY <1>2, <1>3, ConcatProperties
    <2> QED
      BY <1>1, <2>1
  <1>5. /\ \A i \in 1 .. g : p.got[i] = p.script[i]
        /\ c \subseteq 1 .. g
        /\ g = 0 \/ g \in c
        /\ p.done_seen <=> sse /\ SeenOf(p, c, "d1", "d2") # {}
        /\ sse => p.tokens = Cardinality(SeenOf(p, c, "c1", "c2"))
    BY DEF Streaming
  <1>6. /\ (SeenOf(q, d, "d1", "d2") = {})
             <=> (SeenOf(p, c, "d1", "d2") = {} /\ Whole(chunk, "d1", "d2") = {})
        /\ Cardinality(SeenOf(q, d, "c1", "c2"))
             = Cardinality(SeenOf(p, c, "c1", "c2")) + Cardinality(Whole(chunk, "c1", "c2"))
    <2> HIDE DEF q
    <2>1. ASSUME NEW first, NEW second
          PROVE  /\ SeenOf(q, d, first, second) = {}
                      <=> /\ SeenOf(p, c, first, second) = {}
                          /\ Whole(chunk, first, second) = {}
                 /\ Cardinality(SeenOf(q, d, first, second))
                      = Cardinality(SeenOf(p, c, first, second))
                          + Cardinality(Whole(chunk, first, second))
      BY <1>1, <1>5, SeenGrows
    <2> QED
      BY <2>1
  <1> HIDE DEF chunk, q, g, k, d
  <1>7. \A i \in 1 .. g + n : q.got[i] = p.script[i]
    <2> SUFFICES ASSUME NEW i \in 1 .. g + n PROVE q.got[i] = p.script[i]
      OBVIOUS
    <2>1. CASE i <= g
      <3>1. i \in 1 .. g
        BY <1>2, <2>1
      <3> QED
        BY <1>4, <1>5, <2>1, <3>1
    <2>2. CASE ~(i <= g)
      <3>1. i - g \in 1 .. n /\ g + (i - g) = i
        BY <1>2, <1>3, <2>2
      <3>2. q.got[i] = chunk[i - g]
        BY <1>4, <2>2
      <3> QED
        BY <1>3, <3>1, <3>2
    <2> QED
      BY <2>1, <2>2
  <1>8. d \subseteq 1 .. g + n /\ g + n \in d
    BY <1>2, <1>3, <1>5 DEF d
  <1>9. q.done_seen <=> sse /\ SeenOf(q, d, "d1", "d2") # {}
    BY <1>1, <1>5, <1>6 DEF ProxyState
  <1>10. sse => q.tokens = Cardinality(SeenOf(q, d, "c1", "c2"))
    BY <1>1, <1>5, <1>6
  <1>11. Streaming(q, d, sse)
    BY <1>1, <1>3, <1>4, <1>7, <1>8, <1>9, <1>10 DEF Streaming, k
  <1> QED
    BY <1>11 DEF d, g, q

LEMMA StreamingIsTerminated ==
    ASSUME NEW p \in ProxyState, NEW c, Streaming(p, c, TRUE), Rest(p) = <<>>, ~p.done_seen,
           NEW q, q = [p EXCEPT !.got = @ \o DoneMarker, !.done_seen = TRUE, !.eof = TRUE]
    PROVE  Terminated(q, c, TRUE)
  <1>1. /\ q.script = p.script /\ q.got = p.got \o DoneMarker /\ q.done_seen
        /\ q.tokens = p.tokens
    BY DEF ProxyState
  <1>2. /\ p.got = p.script
        /\ SeenOf(p, c, "d1", "d2") = UncutOf(p, c, "d1", "d2")
        /\ SeenOf(p, c, "c1", "c2") = UncutOf(p, c, "c1", "c2")
    BY NothingLeft
  <1>3. /\ UncutOf(p, c, "d1", "d2") = {}
        /\ p.tokens = Cardinality(UncutOf(p, c, "c1", "c2"))
    BY <1>2 DEF Streaming
  <1>4. \A first, second : UncutOf(q, c, first, second) = UncutOf(p, c, first, second)
    BY <1>1 DEF UncutOf
  <1> QED
    BY <1>1, <1>2, <1>3, <1>4 DEF Terminated

LEMMA StreamingCompletes ==
    ASSUME NEW p \in ProxyState, NEW c, NEW sse \in BOOLEAN,
           ~(sse /\ ~p.done_seen),
           \/ Terminated(p, c, sse)
           \/ Streaming(p, c, sse) /\ Rest(p) = <<>>
    PROVE  Completed(p, c, sse)
  <1>1. CASE Terminated(p, c, sse)
    BY <1>1 DEF Terminated, Completed
  <1>2. CASE Streaming(p, c, sse) /\ Rest(p) = <<>>
    <2>1. /\ p.got = p.script
          /\ SeenOf(p, c, "d1", "d2") = UncutOf(p, c, "d1", "d2")
          /\ SeenOf(p, c, "c1", "c2") = UncutOf(p, c, "c1", "c2")
      BY <1>2, NothingLeft
    <2>2. /\ p.done_seen <=> sse /\ UncutOf(p, c, "d1", "d2") # {}
          /\ sse => p.tokens = Cardinality(UncutOf(p, c, "c1", "c2"))
      BY <1>2, <2>1 DEF Streaming
    <2> QED
      BY <2>1, <2>2 DEF Completed
  <1> QED
    BY <1>1, <1>2

\* A body that has not broken is still arriving or has the router's marker at its end;
\* one that was completed is what StreamTerminated and TokensExact say.
Delivery(r) ==
    /\ pc[r] \notin {"body", "ended"} => cuts[r] = {}
    /\ pc[r] = "body" /\ ~proxy[r].errored =>
         IF proxy[r].eof THEN Terminated(proxy[r], cuts[r], stream[r])
         ELSE Streaming(proxy[r], cuts[r], stream[r])
    /\ pc[r] = "ended" /\ answer[r] = "complete" => Completed(proxy[r], cuts[r], stream[r])

DeliveryInv == \A r \in Requests : Delivery(r)

LEMMA DeliveryOfOthers ==
    ASSUME NEW q \in Requests, Delivery(q), pc'[q] = pc[q], answer'[q] = answer[q],
           proxy'[q] = proxy[q], cuts'[q] = cuts[q], stream'[q] = stream[q]
    PROVE  Delivery(q)'
  BY DEF Delivery

LEMMA DeliveryStep == TypeOK /\ DeliveryInv /\ [Next]_vars => DeliveryInv'
  <1> SUFFICES ASSUME TypeOK, DeliveryInv, [Next]_vars, NEW q \in Requests
               PROVE  Delivery(q)'
    BY DEF DeliveryInv
  <1>0. /\ Delivery(q) /\ proxy[q] \in ProxyState /\ stream[q] \in BOOLEAN
    BY DEF DeliveryInv, TypeOK, ProxyState
  <1>1. ASSUME NEW r \in Requests, r # q,
               Reject(r) \/ Receive(r) \/ HandlerSteps(r) \/ BodySteps(r) \/ Leave(r)
        PROVE  Delivery(q)'
    <2>1. CASE Reject(r) \/ Receive(r) \/ Leave(r)
      BY <1>0, <1>1, <2>1, DeliveryOfOthers DEF Reject, Receive, Leave, Set, TypeOK
    <2>2. CASE Upstream(r)
      BY <1>0, <1>1, <2>2, DeliveryOfOthers DEF Upstream, Acquire, Respond, build_response,
         BuildFails, UpstreamFails, Fail, Set, TypeOK
    <2>3. CASE Pick(r) \/ PickPrefill(r) \/ AcquirePrefill(r) \/ PrefillAnswers(r)
                 \/ Drain(r) \/ PickDecode(r) \/ Transfer(r)
      BY <1>0, <1>1, <2>3, DeliveryOfOthers DEF Pick, PickPrefill, AcquirePrefill,
         PrefillAnswers, Drain, PickDecode, Transfer, Fail, Set, TypeOK
    <2>4. CASE BodySteps(r)
      BY <1>0, <1>1, <2>4, DeliveryOfOthers DEF BodySteps, PollChunk, PollError, AppendDone,
         Finish, finish, Set, TypeOK
    <2> QED
      BY <1>1, <2>1, <2>2, <2>3, <2>4 DEF HandlerSteps
  \* a request that ends without a complete answer
  <1>2. ASSUME pc'[q] = "ended", answer'[q] # "complete" PROVE Delivery(q)'
    BY <1>2 DEF Delivery
  <1>3. ASSUME NEW status, NEW error \in {"no_healthy_workers", "kv_transfer", "upstream"},
               Fail(q, status, error)
        PROVE  Delivery(q)'
    <2>1. ApiError[error] # "complete"
      BY DEF ApiError
    <2> QED
      BY <1>2, <1>3, <2>1 DEF Fail, Set, TypeOK
  \* a step inside the handler
  <1>4. ASSUME NEW next, next \notin {"body", "ended"}, pc[q] \notin {"body", "ended"},
               pc' = [pc EXCEPT ![q] = next], UNCHANGED cuts
        PROVE  Delivery(q)'
    BY <1>0, <1>4 DEF Delivery, TypeOK
  <1>5. CASE Reject(q)
    BY <1>2, <1>5 DEF Reject, Set, TypeOK
  <1>6. CASE Receive(q)
    BY <1>4, <1>6 DEF Receive, Set
  <1>7. CASE Pick(q) \/ PickPrefill(q) \/ PickDecode(q)
    BY <1>3, <1>4, <1>7 DEF Pick, PickPrefill, PickDecode, Set
  <1>8. CASE AcquirePrefill(q) \/ PrefillAnswers(q) \/ Drain(q) \/ Acquire(q)
    BY <1>4, <1>8 DEF AcquirePrefill, PrefillAnswers, Drain, Acquire, Set
  <1>9. CASE Transfer(q)
    BY <1>3, <1>4, <1>9 DEF Transfer, transfer, Set
  <1>10. CASE UpstreamFails(q)
    BY <1>3, <1>10 DEF UpstreamFails
  <1>11. CASE Respond(q)
    <2>1. PICK body \in Bodies : build_response(q, body)
      BY <1>11 DEF Respond
    <2>2. /\ proxy'[q] = [NoProxy EXCEPT !.script = body]
          /\ pc'[q] = "body" /\ cuts'[q] = {} /\ stream'[q] = stream[q]
      BY <1>0, <1>11, <2>1 DEF Respond, build_response, Set, TypeOK, Delivery
    <2>3. Streaming([NoProxy EXCEPT !.script = body], {}, stream[q])
      BY <1>0, Constants, StreamingStarts, Zenon
    <2>4. Streaming(proxy'[q], cuts'[q], stream'[q])
      BY <2>2, <2>3
    <2>5. ~proxy'[q].eof
      BY <2>2 DEF NoProxy
    <2> QED
      BY <2>2, <2>4, <2>5 DEF Delivery
  <1>12. CASE PollChunk(q)
    <2>1. PICK n \in 1 .. Len(Rest(proxy[q])) :
             /\ proxy' = [proxy EXCEPT ![q] = Polled(proxy[q], n, stream[q])]
             /\ cuts' = [cuts EXCEPT ![q] = @ \cup {Len(proxy[q].got) + n}]
      BY <1>12, PollChunkIs
    <2>2. /\ proxy'[q] = Polled(proxy[q], n, stream[q])
          /\ cuts'[q] = cuts[q] \cup {Len(proxy[q].got) + n}
          /\ stream'[q] = stream[q] /\ pc'[q] = "body" /\ pc[q] = "body"
          /\ ~proxy[q].eof
      BY <1>12, <2>1 DEF PollChunk, TypeOK
    <2>3. /\ Polled(proxy[q], n, stream[q]).eof = proxy[q].eof
          /\ Polled(proxy[q], n, stream[q]).errored = proxy[q].errored
      BY <1>0, PolledFacts, Zenon
    <2>4. ~proxy'[q].eof /\ proxy'[q].errored = proxy[q].errored
      BY <2>2, <2>3
    <2>5. CASE ~proxy[q].errored
      <3>1. Streaming(proxy[q], cuts[q], stream[q])
        BY <1>0, <2>2, <2>5 DEF Delivery
      <3>2. Streaming(Polled(proxy[q], n, stream[q]),
                      cuts[q] \cup {Len(proxy[q].got) + n}, stream[q])
        BY <1>0, <3>1, StreamingGoesOn, Zenon
      <3>3. Streaming(proxy'[q], cuts'[q], stream'[q])
        BY <2>2, <3>2
      <3> QED
        BY <2>2, <2>4, <3>3 DEF Delivery
    <2>6. CASE proxy[q].errored
      BY <2>2, <2>4, <2>6 DEF Delivery
    <2> QED
      BY <2>5, <2>6
  <1>13. CASE PollError(q)
    <2>1. proxy'[q].errored
      BY <1>13, ErroredFacts, EmptySeq DEF PollError, Set, TypeOK, ProxyState
    <2>2. pc'[q] = "body"
      BY <1>13 DEF PollError
    <2> QED
      BY <2>1, <2>2 DEF Delivery
  <1>14. CASE AppendDone(q)
    <2> DEFINE x == [proxy[q] EXCEPT !.got = @ \o DoneMarker, !.done_seen = TRUE, !.eof = TRUE]
    <2>1. /\ pc[q] = "body" /\ pc'[q] = "body" /\ stream[q] = TRUE /\ stream'[q] = TRUE
          /\ ~proxy[q].done_seen /\ cuts'[q] = cuts[q]
          /\ proxy[q].eof \/ Rest(proxy[q]) = <<>>
      BY <1>0, <1>14 DEF AppendDone, AtEnd
    <2>2. proxy'[q] = x
      BY <1>14 DEF AppendDone, Set, TypeOK
    <2>3. x.errored = proxy[q].errored /\ x.eof
      BY <1>0 DEF ProxyState
    <2> HIDE DEF x
    <2>4. CASE ~proxy[q].errored
      <3>1. ~proxy[q].eof
        BY <1>0, <2>1, <2>4 DEF Delivery, Terminated
      <3>2. Streaming(proxy[q], cuts[q], TRUE)
        BY <1>0, <2>1, <2>4, <3>1 DEF Delivery
      <3>3. Terminated(x, cuts[q], TRUE)
        BY <1>0, <2>1, <3>1, <3>2, StreamingIsTerminated DEF x
      <3>4. Terminated(proxy'[q], cuts'[q], stream'[q])
        BY <2>1, <2>2, <3>3
      <3> QED
        BY <2>1, <2>2, <2>3, <3>4 DEF Delivery
    <2>5. CASE proxy[q].errored
      BY <2>1, <2>2, <2>3, <2>5 DEF Delivery
    <2> QED
      BY <2>4, <2>5
  <1>15. CASE Finish(q)
    <2>1. /\ pc[q] = "body" /\ ~(stream[q] /\ ~proxy[q].done_seen)
          /\ proxy[q].eof \/ Rest(proxy[q]) = <<>>
          /\ pc'[q] = "ended"
          /\ answer'[q] = IF proxy[q].errored THEN "broken" ELSE "complete"
          /\ UNCHANGED <<proxy, cuts, stream>>
      BY <1>15 DEF Finish, AtEnd, Set, TypeOK
    <2>2. CASE proxy[q].errored
      BY <1>2, <2>1, <2>2
    <2>3. CASE ~proxy[q].errored
      <3>1. \/ Terminated(proxy[q], cuts[q], stream[q])
            \/ Streaming(proxy[q], cuts[q], stream[q]) /\ Rest(proxy[q]) = <<>>
        BY <1>0, <2>1, <2>3 DEF Delivery
      <3>2. Completed(proxy[q], cuts[q], stream[q])
        BY <1>0, <2>1, <3>1, StreamingCompletes, Zenon
      <3> QED
        BY <2>1, <3>2 DEF Delivery
    <2> QED
      BY <2>2, <2>3
  <1>16. CASE Leave(q)
    BY <1>2, <1>16 DEF Leave, Set, TypeOK
  <1>18. CASE BuildFails(q)
    BY <1>2, <1>18 DEF BuildFails, Set, TypeOK
  <1>17. CASE UNCHANGED localVars
    BY <1>0, <1>17, DeliveryOfOthers DEF localVars
  <1> QED
    BY <1>1, <1>5, <1>6, <1>7, <1>8, <1>9, <1>10, <1>11, <1>12, <1>13, <1>14, <1>15,
       <1>16, <1>17, <1>18 DEF Next, HandlerSteps, Upstream, BodySteps, HealthFlips, vars

LEMMA DeliveryAlways == Spec => [](AccountInv /\ DeliveryInv)
  <1>1. Init => AccountInv /\ DeliveryInv
    BY DEF Init, AccountInv, Account, DeliveryInv, Delivery
  <1>2. TypeOK /\ AccountInv /\ DeliveryInv /\ [Next]_vars => (AccountInv /\ DeliveryInv)'
    BY AccountStep, DeliveryStep
  <1> QED
    BY <1>1, <1>2, TypeCorrect, PTL DEF Spec

LEMMA OnlyEndedComplete ==
    ASSUME TypeOK, AccountInv, DeliveryInv, NEW r \in Requests, answer[r] = "complete"
    PROVE  Completed(proxy[r], cuts[r], stream[r])
  <1>1. pc[r] = "ended"
    BY DEF AccountInv, Account
  <1> QED
    BY <1>1 DEF DeliveryInv, Delivery

\* However the network cuts the upstream's body: a client that is told the body is
\* complete has the upstream's bytes in order, and an SSE client exactly one marker
\* more unless the router saw the upstream's own in one chunk.
THEOREM StreamsTerminate == Spec => []StreamTerminated
  <1>1. TypeOK /\ AccountInv /\ DeliveryInv => StreamTerminated
    BY OnlyEndedComplete DEF StreamTerminated, Completed, Uncut, UncutOf
  <1> QED
    BY <1>1, TypeCorrect, DeliveryAlways, PTL

\* However the network cuts the upstream's body, the tokens reported are the content
\* events that reached the router in one chunk, each counted once.
THEOREM TokensAreExact == Spec => []TokensExact
  <1>1. TypeOK /\ AccountInv /\ DeliveryInv => TokensExact
    BY OnlyEndedComplete DEF TokensExact, Completed, Uncut, UncutOf
  <1> QED
    BY <1>1, TypeCorrect, DeliveryAlways, PTL
===========================================================================
