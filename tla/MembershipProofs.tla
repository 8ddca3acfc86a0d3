-------------------------- MODULE MembershipProofs ------------------------
(***************************************************************************)
(* Theorems about Membership, for any number of workers, addresses,        *)
(* slices and requests, any history of changes, failures and crashes, and  *)
(* any Slack and counter width.                                            *)
(***************************************************************************)
EXTENDS Membership, FiniteSetTheorems, TLAPS

USE StaticWorkersAssumption, CountModAssumption, DiscoveryAssumption,
    MembershipAssumption

(***************************************************************************)
(* Type correctness                                                        *)
(***************************************************************************)
LEMMA StaticIdsType == StaticIds \subseteq Nat /\ Len(StaticWorkers) \in Nat
  BY DEF StaticIds

LEMMA InitType == Init => TypeOK
  <1> SUFFICES ASSUME Init PROVE TypeOK
    OBVIOUS
  <1>1. RegistryType
    <2>1. \A id \in StaticIds : StaticWorkers[id + 1] \in [url : Urls, pool : Pool]
      <3>1. ASSUME NEW S, StaticWorkers \in Seq(S), NEW id \in StaticIds
            PROVE  StaticWorkers[id + 1] \in S
        BY <3>1, StaticIdsType DEF StaticIds
      <3> QED
        BY <3>1
    <2>2. DOMAIN workers = StaticIds /\ next_id = Len(StaticWorkers)
      BY DEF Init, from_config
    <2>3. \A id \in StaticIds : workers[id] \in WorkerState
      BY <2>1 DEF Init, from_config, WorkerState
    <2> QED
      BY <2>2, <2>3, StaticIdsType DEF RegistryType
  <1>2. TrackerType
    BY StaticIdsType DEF Init, with_capacity, TrackerType
  <1>3. WatchType
    BY DEF Init, DiscoveryInit, EmptyMap, WatchType
  <1>4. ReconcileType
    BY DEF Init, DiscoveryInit, EmptyMap, ReconcileType
  <1>5. PollType
    BY DEF Init, PollType
  <1>6. RequestType
    BY DEF Init, RequestType, Idle
  <1>7. affinity \subseteq Nat /\ stray \subseteq Nat /\ covered \subseteq Nat
    BY StaticIdsType DEF Init, DiscoveryInit
  <1> QED
    BY <1>1, <1>2, <1>3, <1>4, <1>5, <1>6, <1>7 DEF Init, TypeOK

(* What each call on a component's state leaves well typed. *)
LEMMA RegisterType ==
    ASSUME RegistryType, NEW u \in Urls, register_worker(u, "both")
    PROVE  RegistryType'
  BY DEF RegistryType, register_worker, WorkerState, Pool

LEMMA RemoveType ==
    ASSUME RegistryType, NEW id, remove_worker(id)
    PROVE  RegistryType'
  BY DEF RegistryType, remove_worker, Restrict

LEMMA SetHealthyType ==
    ASSUME RegistryType, NEW id, NEW h \in BOOLEAN, set_healthy(id, h)
    PROVE  RegistryType'
  BY DEF RegistryType, set_healthy, WorkerState

LEMMA EnsureCapacityType ==
    ASSUME TrackerType, NEW n \in Nat, ensure_capacity(n)
    PROVE  TrackerType'
  BY DEF TrackerType, ensure_capacity

LEMMA IncrementType ==
    ASSUME TrackerType, NEW w \in Nat, increment(w)
    PROVE  TrackerType'
  BY DEF TrackerType, increment, WrapInc

LEMMA DecrementType ==
    ASSUME TrackerType, NEW w \in Nat, decrement(w)
    PROVE  TrackerType'
  BY DEF TrackerType, decrement, WrapDec

LEMMA EndpointUrlsType ==
    ASSUME NEW content \in SliceContents \cup {{}}
    PROVE  endpoint_urls(content) \subseteq Urls
  BY DEF endpoint_urls, Endpoint

\* The start of a reconcile, whatever event led to it.
LEMMA BeginReconcileType ==
    ASSUME ReconcileType, dpc = "watch", NEW sl, BeginReconcile(sl),
           DOMAIN sl \subseteq Slices, \A s \in DOMAIN sl : sl[s] \subseteq Urls,
           UNCHANGED <<by_url, victim>>
    PROVE  ReconcileType' /\ dpc' = "reconcile"
  BY DEF ReconcileType, BeginReconcile

LEMMA ClusterChangeType ==
    ASSUME WatchType, ReconcileType,
           NEW s \in Slices,
           (\E content \in SliceContents : SliceApplied(s, content)) \/ SliceDeleted(s)
    PROVE  WatchType' /\ ReconcileType'
  <1>1. ReconcileType'
    BY DEF ReconcileType, SliceApplied, SliceDeleted, reconcileVars
  <1>2. CASE \E content \in SliceContents : SliceApplied(s, content)
    <2>1. PICK content \in SliceContents : SliceApplied(s, content)
      BY <1>2
    <2>2. [slice |-> s, deleted |-> FALSE, content |-> content] \in Change
      BY DEF Change
    <2>3. stream' \in Seq(Change)
      BY <2>1, <2>2 DEF SliceApplied, WatchType
    <2>4. /\ DOMAIN cluster' \subseteq Slices
          /\ \A x \in DOMAIN cluster' : cluster'[x] \in SliceContents
      BY <2>1 DEF SliceApplied, WatchType, Update
    <2> QED
      BY <1>1, <2>1, <2>3, <2>4 DEF SliceApplied, WatchType
  <1>3. CASE SliceDeleted(s)
    <2>2. [slice |-> s, deleted |-> TRUE, content |-> {}] \in Change
      BY DEF Change
    <2>3. stream' \in Seq(Change)
      BY <1>3, <2>2 DEF SliceDeleted, WatchType
    <2>4. /\ DOMAIN cluster' \subseteq Slices
          /\ \A x \in DOMAIN cluster' : cluster'[x] \in SliceContents
      BY <1>3 DEF SliceDeleted, WatchType, Without, Restrict
    <2> QED
      BY <1>1, <1>3, <2>3, <2>4 DEF SliceDeleted, WatchType
  <1> QED
    BY <1>2, <1>3

LEMMA WatchStepType ==
    ASSUME WatchType, ReconcileType,
           \/ WatchInit
           \/ \E s \in Slices : WatchInitApply(s)
           \/ WatchInitDone
           \/ WatchEvent
           \/ WatchAgain
           \/ WatchFails
    PROVE  WatchType' /\ ReconcileType'
  <1>1. CASE WatchInit
    <2>1. ReconcileType' /\ dpc' = "reconcile"
      BY <1>1, BeginReconcileType DEF WatchInit, ReconcileType
    <2> QED
      BY <1>1, <2>1 DEF WatchInit, WatchType
  <1>2. CASE \E s \in Slices : WatchInitApply(s)
    <2>1. PICK s \in Slices : WatchInitApply(s)
      BY <1>2
    <2>2. endpoint_urls(listing[s]) \subseteq Urls
      BY <2>1, EndpointUrlsType DEF WatchInitApply, WatchType
    <2> DEFINE sl == Update(slices, s, endpoint_urls(listing[s]))
    <2>3. DOMAIN sl \subseteq Slices /\ \A x \in DOMAIN sl : sl[x] \subseteq Urls
      BY <2>2 DEF Update, ReconcileType
    <2> HIDE DEF sl
    <2>4. ReconcileType' /\ dpc' = "reconcile"
      BY <2>1, <2>3, BeginReconcileType DEF WatchInitApply, sl
    <2>5. DOMAIN listing' \subseteq Slices /\ \A x \in DOMAIN listing' : listing'[x] \in SliceContents
      BY <2>1 DEF WatchInitApply, WatchType, Without, Restrict
    <2> QED
      BY <2>1, <2>4, <2>5 DEF WatchInitApply, WatchType
  <1>3. CASE WatchInitDone
    <2>1. ReconcileType' /\ dpc' = "reconcile"
      BY <1>3, BeginReconcileType DEF WatchInitDone, ReconcileType
    <2> QED
      BY <1>3, <2>1 DEF WatchInitDone, WatchType
  <1>4. CASE WatchEvent
    <2> DEFINE e == Head(stream)
               sl == IF e.deleted THEN Without(slices, e.slice)
                     ELSE Update(slices, e.slice, endpoint_urls(e.content))
    <2>1. e \in Change /\ stream' \in Seq(Change)
      BY <1>4 DEF WatchEvent, WatchType
    <2>2. e.slice \in Slices /\ endpoint_urls(e.content) \subseteq Urls
      BY <2>1, EndpointUrlsType DEF Change
    <2> HIDE DEF e
    <2>3. DOMAIN sl \subseteq Slices /\ \A x \in DOMAIN sl : sl[x] \subseteq Urls
      BY <2>2 DEF Update, Without, Restrict, ReconcileType
    <2>4. BeginReconcile(sl)
      BY <1>4 DEF WatchEvent, e
    <2> HIDE DEF sl
    <2>5. ReconcileType' /\ dpc' = "reconcile"
      BY <1>4, <2>3, <2>4, BeginReconcileType DEF WatchEvent
    <2> QED
      BY <1>4, <2>1, <2>5 DEF WatchEvent, WatchType
  <1>5. CASE WatchAgain
    BY <1>5 DEF WatchAgain, watchVars, WatchType, ReconcileType, EmptyMap
  <1>6. CASE WatchFails
    BY <1>6 DEF WatchFails, reconcileVars, WatchType, ReconcileType, EmptyMap
  <1> QED
    BY <1>1, <1>2, <1>3, <1>4, <1>5, <1>6

LEMMA ReconcileStepType ==
    ASSUME TypeOK, DiscoveryReconciles \/ DiscoveryRegisters
    PROVE  TypeOK'
  <1> USE DEF TypeOK
  <1>1. CASE DiscoveryRegisters
    <2>1. PICK u \in Urls : RegisterNew(u)
      BY <1>1 DEF DiscoveryRegisters
    <2>2. RegistryType'
      BY <2>1, RegisterType DEF RegisterNew
    <2>3. ReconcileType'
      BY <2>1 DEF RegisterNew, ReconcileType, RegistryType, Update
    <2>4. covered' \subseteq Nat
      BY <1>1 DEF DiscoveryRegisters, RegistryType
    <2>5. TrackerType' /\ WatchType'
      BY <2>1 DEF RegisterNew, TrackerType, trackerVars, WatchType, watchVars
    <2>6. PollType' /\ RequestType'
      BY <1>1 DEF DiscoveryRegisters, pollVars, PollType, RequestType
    <2> QED
      BY <1>1, <2>1, <2>2, <2>3, <2>4, <2>5, <2>6
      DEF DiscoveryRegisters, RegisterNew, boundVars
  <1>2. CASE DiscoveryReconciles
    <2>1. PollType' /\ RequestType' /\ UNCHANGED <<up, boundVars, historyVars>>
      BY <1>2 DEF DiscoveryReconciles, pollVars, PollType, RequestType
    <2>2. CASE \E u \in Urls : PurgeGone(u)
      <3>1. PICK u \in Urls : PurgeGone(u)
        BY <2>2
      <3>2. ReconcileType'
        BY <3>1 DEF PurgeGone, ReconcileType, Without, Restrict
      <3>3. affinity' \subseteq Nat
        BY <3>1 DEF PurgeGone
      <3>4. RegistryType' /\ TrackerType' /\ WatchType'
        BY <3>1 DEF PurgeGone, RegistryType, registryVars, TrackerType, trackerVars,
                    WatchType, watchVars
      <3> QED
        BY <2>1, <3>2, <3>3, <3>4 DEF boundVars, historyVars
    <2>3. CASE UnregisterGone
      <3>1. RegistryType'
        BY <2>3, RemoveType DEF UnregisterGone
      <3>2. ReconcileType'
        BY <2>3 DEF UnregisterGone, ReconcileType
      <3>3. TrackerType' /\ WatchType' /\ UNCHANGED affinity
        BY <2>3 DEF UnregisterGone, TrackerType, trackerVars, WatchType, watchVars
      <3> QED
        BY <2>1, <3>1, <3>2, <3>3 DEF boundVars, historyVars
    <2>4. CASE FinishReconcile
      <3>1. Cardinality(DOMAIN by_url) + Slack \in Nat
        BY FS_Subset, FS_CardinalityType DEF ReconcileType
      <3>2. TrackerType'
        BY <2>4, <3>1, EnsureCapacityType DEF FinishReconcile, TrackerType, trackerVars
      <3>3. ReconcileType'
        BY <2>4 DEF FinishReconcile, ReconcileType
      <3>4. RegistryType' /\ WatchType' /\ UNCHANGED affinity
        BY <2>4 DEF FinishReconcile, RegistryType, registryVars, WatchType, watchVars
      <3> QED
        BY <2>1, <3>2, <3>3, <3>4 DEF boundVars, historyVars
    <2> QED
      BY <1>2, <2>2, <2>3, <2>4 DEF DiscoveryReconciles
  <1> QED
    BY <1>1, <1>2

LEMMA PollerStepType ==
    ASSUME TypeOK, PollerSteps
    PROVE  TypeOK'
  <1> USE DEF TypeOK
  <1>1. TrackerType' /\ WatchType' /\ ReconcileType' /\ RequestType'
    BY DEF PollerSteps, PollRound, Probe, ApplyProbe, PurgeDown, PollSleep, TrackerType,
           trackerVars, WatchType, watchVars, ReconcileType, reconcileVars,
           discoveryVars, RequestType
  <1>2. UNCHANGED <<up, boundVars, historyVars>>
    BY DEF PollerSteps, PollRound, Probe, ApplyProbe, PurgeDown, PollSleep
  <1>3. affinity' \subseteq Nat
    BY DEF PollerSteps, PollRound, Probe, ApplyProbe, PurgeDown, PollSleep
  <1>4. RegistryType'
    BY SetHealthyType DEF PollerSteps, PollRound, Probe, ApplyProbe, PurgeDown, PollSleep,
           RegistryType, registryVars, PollType
  <1>5. PollType'
    <2>1. CASE PollRound
      BY <2>1 DEF PollRound, PollType, all_workers, RegistryType, WorkerState, Snapshot
    <2>2. CASE Probe
      BY <2>2 DEF Probe, PollType
    <2>3. CASE ApplyProbe
      BY <2>3 DEF ApplyProbe, PollType
    <2>4. CASE PurgeDown
      BY <2>4 DEF PurgeDown, PollType
    <2>5. CASE PollSleep
      BY <2>5 DEF PollSleep, PollType
    <2> QED
      BY <2>1, <2>2, <2>3, <2>4, <2>5 DEF PollerSteps
  <1> QED
    BY <1>1, <1>2, <1>3, <1>4, <1>5 DEF boundVars, historyVars

\* What a request's step does to the requests.
LEMMA RequestMoves ==
    ASSUME RequestType, NEW r \in Requests
    PROVE  /\ RequestSteps(r) => \A q \in Requests : q # r => req'[q] = req[q]
           /\ Select(r) => req[r].pc = "idle" /\ req'[r].pc = "record"
           /\ Record(r) => /\ req[r].pc = "record" /\ req'[r].pc = "acquire"
                           /\ req'[r].worker = req[r].worker
           /\ Acquire(r) => /\ req[r].pc = "acquire" /\ req'[r].pc = "inflight"
                            /\ req'[r].worker = req[r].worker
           /\ Release(r) => /\ req[r].pc = "inflight" /\ req'[r].pc = "idle"
  <1>1. Select(r) => /\ req[r].pc = "idle" /\ req'[r].pc = "record"
                     /\ \A q \in Requests : q # r => req'[q] = req[q]
    BY DEF Select, RequestType
  <1>2. Record(r) => /\ req[r].pc = "record" /\ req'[r].pc = "acquire"
                     /\ req'[r].worker = req[r].worker
                     /\ \A q \in Requests : q # r => req'[q] = req[q]
    BY DEF Record, RequestType
  <1>3. Acquire(r) => /\ req[r].pc = "acquire" /\ req'[r].pc = "inflight"
                      /\ req'[r].worker = req[r].worker
                      /\ \A q \in Requests : q # r => req'[q] = req[q]
    BY DEF Acquire, RequestType
  <1>4. Release(r) => /\ req[r].pc = "inflight" /\ req'[r].pc = "idle"
                      /\ \A q \in Requests : q # r => req'[q] = req[q]
    BY DEF Release, Idle, RequestType
  <1> QED
    BY <1>1, <1>2, <1>3, <1>4 DEF RequestSteps

LEMMA RequestStepType ==
    ASSUME TypeOK, NEW r \in Requests, RequestSteps(r)
    PROVE  TypeOK'
  <1> USE DEF TypeOK
  <1>1. RegistryType' /\ WatchType' /\ ReconcileType' /\ PollType'
    BY DEF RequestSteps, Select, Record, Acquire, Release, RegistryType, registryVars,
           WatchType, watchVars, ReconcileType, reconcileVars, discoveryVars, PollType,
           pollVars
  <1>2. TrackerType'
    BY IncrementType, DecrementType
    DEF RequestSteps, Select, Record, Acquire, Release, trackerVars, TrackerType,
        RequestType
  <1>3. RequestType'
    <2>1. CASE Select(r)
      BY <2>1 DEF Select, candidates, healthy_workers, RequestType, RegistryType
    <2>2. CASE Record(r)
      <3>1. req' \in [Requests -> [pc : {"idle", "record", "acquire", "inflight"},
                                   worker : Nat \cup {None}]]
        BY <2>2 DEF Record, RequestType
      <3> QED
        BY <2>2, <3>1, RequestMoves DEF RequestSteps, RequestType
    <2>4. CASE Acquire(r)
      <3>1. req' \in [Requests -> [pc : {"idle", "record", "acquire", "inflight"},
                                   worker : Nat \cup {None}]]
        BY <2>4 DEF Acquire, RequestType
      <3> QED
        BY <2>4, <3>1, RequestMoves DEF RequestSteps, RequestType
    <2>3. CASE Release(r)
      BY <2>3 DEF Release, Idle, RequestType
    <2> QED
      BY <2>1, <2>2, <2>3, <2>4 DEF RequestSteps
  <1>4. affinity' \subseteq Nat /\ stray' \subseteq Nat /\ covered' \subseteq Nat
    BY DEF RequestSteps, Select, Record, Acquire, Release, RequestType, historyVars
  <1> QED
    BY <1>1, <1>2, <1>3, <1>4
    DEF RequestSteps, Select, Record, Acquire, Release, boundVars

LEMMA StepType == TypeOK /\ [Next]_vars => TypeOK'
  <1> SUFFICES ASSUME TypeOK, [Next]_vars PROVE TypeOK'
    OBVIOUS
  <1>1. CASE \E u \in Urls : EngineCrashes(u) \/ EngineStarts(u)
    <2>1. RegistryType' /\ TrackerType' /\ WatchType' /\ ReconcileType' /\ PollType'
             /\ RequestType'
      BY <1>1 DEF EngineCrashes, EngineStarts, TypeOK, RegistryType, registryVars,
         TrackerType, trackerVars, WatchType, watchVars, ReconcileType, reconcileVars,
         discoveryVars, PollType, pollVars, RequestType
    <2>2. up' \subseteq Urls /\ crashes' \in 0 .. MaxCrashes
      BY <1>1 DEF EngineCrashes, EngineStarts, TypeOK, boundVars
    <2> QED
      BY <1>1, <2>1, <2>2 DEF EngineCrashes, EngineStarts, TypeOK, boundVars, historyVars
  <1>2. CASE ClusterChanges
    <2>1. WatchType' /\ ReconcileType'
      BY <1>2, ClusterChangeType DEF ClusterChanges, TypeOK
    <2> QED
      BY <1>2, <2>1 DEF ClusterChanges, TypeOK, RegistryType, registryVars, TrackerType,
         trackerVars, PollType, pollVars, RequestType, historyVars
  <1>3. CASE DiscoveryFails
    <2>1. WatchType' /\ ReconcileType'
      BY <1>3, WatchStepType DEF DiscoveryFails, TypeOK
    <2> QED
      BY <1>3, <2>1 DEF DiscoveryFails, TypeOK, RegistryType, registryVars, TrackerType,
         trackerVars, PollType, pollVars, RequestType, historyVars
  <1>4. CASE DiscoverySteps
    <2>1. CASE DiscoveryWatches
      <3>1. WatchType' /\ ReconcileType'
        BY <2>1, WatchStepType DEF DiscoveryWatches, TypeOK
      <3> QED
        BY <2>1, <3>1 DEF DiscoveryWatches, TypeOK, RegistryType, registryVars, TrackerType,
           trackerVars, PollType, pollVars, RequestType, boundVars, historyVars
    <2> QED
      BY <1>4, <2>1, ReconcileStepType DEF DiscoverySteps
  <1>5. CASE PollerSteps
    BY <1>5, PollerStepType
  <1>6. CASE EvictionForgets
    BY <1>6 DEF EvictionForgets, TypeOK, RegistryType, registryVars, TrackerType,
       trackerVars, WatchType, watchVars, ReconcileType, reconcileVars, discoveryVars,
       PollType, pollVars, RequestType, boundVars, historyVars
  <1>7. CASE \E r \in Requests : RequestSteps(r)
    BY <1>7, RequestStepType
  <1>8. CASE UNCHANGED vars
    BY <1>8 DEF vars, TypeOK, RegistryType, registryVars, TrackerType,
       trackerVars, WatchType, watchVars, ReconcileType, reconcileVars, discoveryVars,
       PollType, pollVars, RequestType, boundVars, historyVars
  <1> QED
    BY <1>1, <1>2, <1>3, <1>4, <1>5, <1>6, <1>7, <1>8 DEF Next

\* Every state of every behaviour is well typed; in particular a counter stays
\* within the machine's range and each task's locals agree with its position.
THEOREM TypeCorrect == Spec => []TypeOK
  BY InitType, StepType, PTL DEF Spec

(***************************************************************************)
(* Identities                                                              *)
(***************************************************************************)
(* FreshIdentity is inductive on its own, given the types: an id reaches    *)
(* any part of the state only from DOMAIN workers, and only register_worker *)
(* extends that, with next_id, which it then passes.                        *)
LEMMA FreshStep ==
    ASSUME TypeOK, FreshIdentity, [Next]_vars
    PROVE  FreshIdentity'
  <1> USE DEF TypeOK, RegistryType
  <1>1. CASE \E u \in Urls : EngineCrashes(u) \/ EngineStarts(u)
    BY <1>1 DEF EngineCrashes, EngineStarts, FreshIdentity, registryVars, trackerVars,
       discoveryVars, reconcileVars, pollVars, historyVars
  <1>2. CASE ClusterChanges
    BY <1>2 DEF ClusterChanges, SliceApplied, SliceDeleted, FreshIdentity, registryVars,
       trackerVars, reconcileVars, pollVars, historyVars
  <1>3. CASE DiscoveryFails \/ DiscoveryWatches
    BY <1>3 DEF DiscoveryFails, WatchFails, DiscoveryWatches, WatchInit, WatchInitApply,
       WatchInitDone, WatchEvent, WatchAgain, FreshIdentity, registryVars, trackerVars,
       reconcileVars, pollVars, historyVars
  <1>4. CASE DiscoveryRegisters
    <2>1. PICK u \in Urls : RegisterNew(u)
      BY <1>4 DEF DiscoveryRegisters
    <2>2. next_id' = next_id + 1 /\ DOMAIN workers' = DOMAIN workers \cup {next_id}
      BY <2>1 DEF RegisterNew, register_worker
    <2>3. \A w \in DOMAIN workers' \cup affinity' \cup stray' \cup covered' : w < next_id'
      <3>1. affinity' = affinity /\ stray' = stray /\ covered' \subseteq covered \cup {next_id}
        BY <1>4, <2>1 DEF DiscoveryRegisters, RegisterNew
      <3>2. \A w \in DOMAIN workers \cup affinity \cup stray \cup covered :
              w \in Nat /\ w < next_id
        BY DEF FreshIdentity
      <3> DEFINE known == DOMAIN workers \cup affinity \cup stray \cup covered
      <3>3. DOMAIN workers' \cup affinity' \cup stray' \cup covered'
              \subseteq known \cup {next_id}
        BY <2>2, <3>1
      <3> HIDE DEF known
      <3>4. \A w \in known \cup {next_id} : w < next_id'
        BY <2>2, <3>2 DEF known
      <3> QED
        BY <3>3, <3>4
    <2>4. \A v \in DOMAIN by_url' : by_url'[v] < next_id'
      BY <2>1, <2>2 DEF RegisterNew, FreshIdentity, Update, ReconcileType
    <2>5. victim' # None => victim' < next_id'
      BY <2>1, <2>2 DEF RegisterNew, FreshIdentity, ReconcileType
    <2>6. (\A w \in todo' : w.id < next_id') /\ (ppc' \in {"apply", "purge"} => probed'.id < next_id')
      BY <1>4, <2>2 DEF DiscoveryRegisters, pollVars, FreshIdentity, PollType, Snapshot
    <2>7. \A r \in Requests : req'[r].pc # "idle" => req'[r].worker < next_id'
      BY <1>4, <2>2 DEF DiscoveryRegisters, FreshIdentity, RequestType
    <2>8. \A w \in 0 .. slots' - 1 : w >= next_id' => counts'[w] = 0
      BY <2>1, <2>2 DEF RegisterNew, trackerVars, FreshIdentity, TrackerType
    <2> QED
      BY <2>3, <2>4, <2>5, <2>6, <2>7, <2>8 DEF FreshIdentity
  <1>5. CASE DiscoveryReconciles
    <2> USE <1>5 DEF DiscoveryReconciles
    <2>1. CASE \E u \in Urls : PurgeGone(u)
      BY <2>1 DEF PurgeGone, FreshIdentity, Without, Restrict, registryVars, trackerVars,
         pollVars, historyVars, ReconcileType
    <2>2. CASE UnregisterGone
      BY <2>2 DEF UnregisterGone, remove_worker, Restrict, FreshIdentity, trackerVars,
         pollVars, historyVars
    <2>3. CASE FinishReconcile
      <3>1. \A w \in 0 .. slots' - 1 : w >= next_id => counts'[w] = 0
        <4>1. \A w \in 0 .. slots - 1 : w >= next_id => counts[w] = 0
          BY DEF FreshIdentity
        <4>2. CASE changed
          BY <2>3, <4>1, <4>2 DEF FinishReconcile, ensure_capacity, TrackerType
        <4>3. CASE ~changed
          BY <2>3, <4>1, <4>3 DEF FinishReconcile, trackerVars
        <4> QED
          BY <4>2, <4>3
      <3> QED
        BY <2>3, <3>1 DEF FinishReconcile, FreshIdentity, registryVars, pollVars,
           historyVars
    <2> QED
      BY <2>1, <2>2, <2>3
  <1>6. CASE PollerSteps
    <2>1. CASE PollRound
      BY <2>1 DEF PollRound, all_workers, FreshIdentity, registryVars, trackerVars,
         discoveryVars, reconcileVars, historyVars
    <2>2. CASE Probe
      BY <2>2 DEF Probe, FreshIdentity, registryVars, trackerVars, discoveryVars,
         reconcileVars, historyVars
    <2>3. CASE ApplyProbe
      BY <2>3 DEF ApplyProbe, set_healthy, FreshIdentity, trackerVars, discoveryVars,
         reconcileVars, historyVars
    <2>4. CASE PurgeDown \/ PollSleep
      BY <2>4 DEF PurgeDown, PollSleep, FreshIdentity, registryVars, trackerVars,
         discoveryVars, reconcileVars, historyVars
    <2> QED
      BY <1>6, <2>1, <2>2, <2>3, <2>4 DEF PollerSteps
  <1>7. CASE EvictionForgets
    BY <1>7 DEF EvictionForgets, FreshIdentity, registryVars, trackerVars, discoveryVars,
       reconcileVars, pollVars, historyVars
  <1>8. CASE \E r \in Requests : RequestSteps(r)
    <2>1. PICK r \in Requests : RequestSteps(r)
      BY <1>8
    <2>2. CASE Select(r)
      BY <2>2 DEF Select, candidates, healthy_workers, FreshIdentity, RequestType,
         registryVars, trackerVars, discoveryVars, reconcileVars, pollVars, historyVars
    <2>3. CASE Record(r)
      BY <2>3 DEF Record, FreshIdentity, RequestType, registryVars, trackerVars,
         discoveryVars, reconcileVars, pollVars
    <2>4. CASE Acquire(r) \/ Release(r)
      <3>1. req[r].worker \in Nat /\ req[r].worker < next_id
        BY <2>4 DEF Acquire, Release, RequestType, FreshIdentity
      <3>2. \A w \in 0 .. slots' - 1 : w # req[r].worker => counts'[w] = counts[w]
        BY <2>4, <3>1 DEF Acquire, Release, increment, decrement, TrackerType
      <3>3. slots' = slots
        BY <2>4 DEF Acquire, Release, increment, decrement
      <3>4. \A w \in 0 .. slots' - 1 : w >= next_id => counts'[w] = 0
        BY <3>1, <3>2, <3>3 DEF FreshIdentity
      <3>5. \A q \in Requests : req'[q].pc # "idle" =>
              req[q].pc # "idle" /\ req'[q].worker = req[q].worker
        BY <2>4, RequestMoves DEF RequestSteps
      <3>6. UNCHANGED <<workers, next_id, affinity, stray, covered, by_url, victim, todo,
                        ppc, probed>>
        BY <2>4 DEF Acquire, Release, registryVars, discoveryVars, reconcileVars,
           pollVars, historyVars
      <3> QED
        BY <3>4, <3>5, <3>6 DEF FreshIdentity
    <2> QED
      BY <2>1, <2>2, <2>3, <2>4 DEF RequestSteps
  <1>9. CASE UNCHANGED vars
    BY <1>9 DEF vars, FreshIdentity, registryVars, trackerVars, discoveryVars,
       reconcileVars, pollVars, historyVars
  <1> QED
    BY <1>1, <1>2, <1>3, <1>4, <1>5, <1>6, <1>7, <1>8, <1>9 DEF Next, DiscoverySteps

LEMMA FreshInit == Init => FreshIdentity
  BY StaticIdsType DEF Init, from_config, with_capacity, DiscoveryInit, EmptyMap, StaticIds,
     FreshIdentity, Idle

\* Ids are never reused, and until an id is allocated nothing in the router refers
\* to it: no credit, no counter, no request, no probe and no discovery entry.
THEOREM FreshIdentityHolds == Spec => []FreshIdentity
  <1>1. TypeOK /\ FreshIdentity /\ [Next]_vars => FreshIdentity'
    BY FreshStep
  <1> QED
    BY <1>1, FreshInit, TypeCorrect, PTL DEF Spec

\* No step of any task brings an id back or moves it to another address.
THEOREM NeverReusedHolds == Spec => NeverReused
  <1> DEFINE Kept == /\ \A w \in DOMAIN workers' \ DOMAIN workers : w >= next_id
                     /\ \A w \in DOMAIN workers' \cap DOMAIN workers :
                          workers'[w].url = workers[w].url
  <1>1. ASSUME TypeOK, FreshIdentity, [Next]_vars PROVE [Kept]_vars
    <2>1. CASE DiscoveryRegisters
      <3>1. PICK u \in Urls : RegisterNew(u)
        BY <2>1 DEF DiscoveryRegisters
      <3>2. next_id \notin DOMAIN workers /\ next_id \in Nat
        BY <1>1 DEF FreshIdentity, TypeOK, RegistryType
      <3> QED
        BY <3>1, <3>2 DEF RegisterNew, register_worker
    <2>2. CASE DiscoveryReconciles
      BY <2>2 DEF DiscoveryReconciles, PurgeGone, UnregisterGone, FinishReconcile,
         remove_worker, Restrict, registryVars
    <2>3. CASE PollerSteps
      BY <1>1, <2>3 DEF PollerSteps, PollRound, Probe, ApplyProbe, PurgeDown, PollSleep,
         set_healthy, registryVars, TypeOK, RegistryType, WorkerState
    <2>4. CASE UNCHANGED workers
      BY <2>4
    <2>5. CASE \/ \E u \in Urls : EngineCrashes(u) \/ EngineStarts(u)
               \/ ClusterChanges \/ DiscoveryFails \/ DiscoveryWatches \/ EvictionForgets
               \/ \E r \in Requests : RequestSteps(r)
               \/ UNCHANGED vars
      BY <2>5, <2>4 DEF EngineCrashes, EngineStarts, ClusterChanges, DiscoveryFails,
         DiscoveryWatches, EvictionForgets, RequestSteps, Select, Record, Acquire, Release,
         registryVars, vars
    <2> QED
      BY <1>1, <2>1, <2>2, <2>3, <2>5 DEF Next, DiscoverySteps
  <1> QED
    BY <1>1, TypeCorrect, FreshIdentityHolds, PTL DEF Spec, NeverReused

(***************************************************************************)
(* The registry and discovery's map                                        *)
(***************************************************************************)
\* The registry is the configured workers plus what discovery owns: the form of
\* RegistryMatchesDiscovery that the steps preserve.
MatchInv ==
    /\ DOMAIN workers = StaticIds \cup {by_url[u] : u \in DOMAIN by_url}
                          \cup ({victim} \ {None})
    /\ \A u \in DOMAIN by_url :
         by_url[u] \notin StaticIds /\ workers[by_url[u]].url = u
    /\ \A u, v \in DOMAIN by_url : by_url[u] = by_url[v] => u = v
    /\ \A u \in DOMAIN by_url : by_url[u] # victim
    /\ victim \notin StaticIds

\* Only the reconcile steps and register_worker change who is registered.
LEMMA MatchFrame ==
    ASSUME TypeOK, MatchInv,
           UNCHANGED <<by_url, victim>>, DOMAIN workers' = DOMAIN workers,
           \A w \in DOMAIN workers : workers'[w].url = workers[w].url
    PROVE  MatchInv'
  BY DEF MatchInv

LEMMA MatchStep ==
    ASSUME TypeOK, FreshIdentity, MatchInv, [Next]_vars
    PROVE  MatchInv'
  <1>1. CASE DiscoveryRegisters
    <2>1. PICK u \in Urls : RegisterNew(u)
      BY <1>1 DEF DiscoveryRegisters
    <2>2. /\ next_id \in Nat /\ next_id \notin DOMAIN workers
          /\ next_id \notin StaticIds
          /\ \A v \in DOMAIN by_url : by_url[v] # next_id /\ by_url[v] \in DOMAIN workers
      BY DEF FreshIdentity, TypeOK, RegistryType, MatchInv
    <2>3. victim' = None
      BY <2>1 DEF RegisterNew, TypeOK, ReconcileType
    <2>4. /\ DOMAIN by_url' = DOMAIN by_url \cup {u}
          /\ u \notin DOMAIN by_url
          /\ by_url'[u] = next_id
          /\ \A v \in DOMAIN by_url : by_url'[v] = by_url[v]
      BY <2>1 DEF RegisterNew, Update
    <2>5. /\ DOMAIN workers' = DOMAIN workers \cup {next_id}
          /\ workers'[next_id].url = u
          /\ \A w \in DOMAIN workers : workers'[w] = workers[w]
      BY <2>1, <2>2 DEF RegisterNew, register_worker
    <2>6. victim = None
      BY <2>1 DEF RegisterNew, TypeOK, ReconcileType
    <2>7. {by_url'[v] : v \in DOMAIN by_url'} = {by_url[v] : v \in DOMAIN by_url} \cup {next_id}
      BY <2>4
    <2>8. DOMAIN workers' = StaticIds \cup {by_url'[v] : v \in DOMAIN by_url'}
                               \cup ({victim'} \ {None})
      BY <2>3, <2>5, <2>6, <2>7 DEF MatchInv
    <2>9. None \notin StaticIds
      BY StaticIdsType
    <2>10. \A v \in DOMAIN by_url' : /\ by_url'[v] \notin StaticIds
                                    /\ workers'[by_url'[v]].url = v
                                    /\ by_url'[v] # victim'
      BY <2>2, <2>3, <2>4, <2>5 DEF MatchInv, TypeOK, ReconcileType
    <2>11. \A v, x \in DOMAIN by_url' : by_url'[v] = by_url'[x] => v = x
      BY <2>2, <2>4 DEF MatchInv
    <2> QED
      BY <2>3, <2>8, <2>9, <2>10, <2>11 DEF MatchInv
  <1>2. CASE DiscoveryReconciles
    <2>1. CASE \E u \in Urls : PurgeGone(u)
      <3>1. PICK u \in Urls : PurgeGone(u)
        BY <2>1
      <3>2. /\ u \in DOMAIN by_url /\ victim' = by_url[u] /\ victim' \in Nat
            /\ DOMAIN by_url' = DOMAIN by_url \ {u}
            /\ \A v \in DOMAIN by_url' : by_url'[v] = by_url[v]
            /\ workers' = workers
        BY <3>1 DEF PurgeGone, TypeOK, ReconcileType, Without, Restrict, registryVars
      <3>3. victim = None
        BY <3>1 DEF PurgeGone, TypeOK, ReconcileType
      <3>4. {by_url[v] : v \in DOMAIN by_url} = {by_url'[v] : v \in DOMAIN by_url'} \cup {victim'}
        BY <3>2
      <3>5. DOMAIN workers' = StaticIds \cup {by_url'[v] : v \in DOMAIN by_url'}
                                 \cup ({victim'} \ {None})
        BY <3>2, <3>3, <3>4 DEF MatchInv
      <3> QED
        BY <3>2, <3>5 DEF MatchInv
    <2>2. CASE UnregisterGone
      <3>1. /\ DOMAIN workers' = DOMAIN workers \ {victim}
            /\ \A w \in DOMAIN workers' : workers'[w] = workers[w]
            /\ victim' = None /\ by_url' = by_url
        BY <2>2 DEF UnregisterGone, remove_worker, Restrict
      <3>2. None \notin StaticIds /\ \A u \in DOMAIN by_url : by_url[u] # None
        BY StaticIdsType DEF TypeOK, ReconcileType
      <3>3. DOMAIN workers' = StaticIds \cup {by_url'[v] : v \in DOMAIN by_url'}
                                 \cup ({victim'} \ {None})
        BY <3>1 DEF MatchInv
      <3>4. \A u \in DOMAIN by_url : by_url[u] \in DOMAIN workers'
        BY <3>1, <3>3
      <3> QED
        BY <3>1, <3>2, <3>3, <3>4 DEF MatchInv
    <2>3. CASE FinishReconcile
      BY <2>3, MatchFrame DEF FinishReconcile, registryVars
    <2> QED
      BY <1>2, <2>1, <2>2, <2>3 DEF DiscoveryReconciles
  <1>3. CASE PollerSteps
    <2>1. UNCHANGED <<by_url, victim>>
      BY <1>3 DEF PollerSteps, PollRound, Probe, ApplyProbe, PurgeDown, PollSleep,
         discoveryVars, reconcileVars
    <2>2. DOMAIN workers' = DOMAIN workers
      BY <1>3 DEF PollerSteps, PollRound, Probe, ApplyProbe, PurgeDown, PollSleep,
         registryVars, set_healthy
    <2>3. \A w \in DOMAIN workers : workers'[w].url = workers[w].url
      BY <1>3 DEF PollerSteps, PollRound, Probe, ApplyProbe, PurgeDown, PollSleep,
         registryVars, set_healthy, TypeOK, RegistryType, WorkerState
    <2> QED
      BY <2>1, <2>2, <2>3, MatchFrame
  <1>4. CASE \/ \E u \in Urls : EngineCrashes(u) \/ EngineStarts(u)
             \/ ClusterChanges \/ DiscoveryFails \/ DiscoveryWatches \/ EvictionForgets
             \/ \E r \in Requests : RequestSteps(r)
             \/ UNCHANGED vars
    <2>1. UNCHANGED <<by_url, victim, workers>>
      BY <1>4 DEF EngineCrashes, EngineStarts, ClusterChanges, SliceApplied, SliceDeleted,
         DiscoveryFails, WatchFails, DiscoveryWatches, WatchInit, WatchInitApply,
         WatchInitDone, WatchEvent, WatchAgain, EvictionForgets, RequestSteps, Select,
         Record, Acquire, Release, registryVars, discoveryVars, reconcileVars, vars
    <2> QED
      BY <2>1, MatchFrame
  <1> QED
    BY <1>1, <1>2, <1>3, <1>4 DEF Next, DiscoverySteps

LEMMA MatchInit == Init => MatchInv
  BY StaticIdsType DEF Init, from_config, DiscoveryInit, EmptyMap, MatchInv

\* The workers registered at run time are those discovery owns, always: its map and the
\* registry never drift apart.
THEOREM RegistryMatches == Spec => []RegistryMatchesDiscovery
  <1>1. TypeOK /\ FreshIdentity /\ MatchInv /\ [Next]_vars => MatchInv'
    BY MatchStep
  <1>2. MatchInv => RegistryMatchesDiscovery
    BY DEF MatchInv, RegistryMatchesDiscovery
  <1> QED
    BY <1>1, <1>2, MatchInit, TypeCorrect, FreshIdentityHolds, PTL DEF Spec

(***************************************************************************)
(* Exact load                                                              *)
(***************************************************************************)
LEMMA GuardsFinite ==
    ASSUME NEW w
    PROVE  /\ IsFiniteSet(Guards(w))
           /\ Cardinality(Guards(w)) \in Nat
           /\ Cardinality(Guards(w)) <= Cardinality(Requests)
  <1>1. Guards(w) \subseteq Requests
    BY DEF Guards
  <1> QED
    BY <1>1, FS_Subset, FS_CardinalityType

\* A step that neither counts nor moves a guard keeps the counts exact.
LEMMA ExactFrame ==
    ASSUME TypeOK, CoveredExact, UNCHANGED <<slots, counts, req, covered>>
    PROVE  CoveredExact'
  BY DEF CoveredExact, Guards

LEMMA AcquireExact ==
    ASSUME TypeOK, CoveredExact, NEW r \in Requests, Acquire(r)
    PROVE  CoveredExact'
  <1> USE DEF TypeOK
  <1> DEFINE v == req[r].worker
  <1>1. /\ v \in Nat /\ slots' = slots /\ covered' = covered
        /\ req[r].pc = "acquire"
        /\ \A w \in 0 .. slots - 1 : counts'[w] = IF w = v THEN WrapInc(counts[w]) ELSE counts[w]
    <2>1. v \in Nat /\ req[r].pc = "acquire" /\ covered' = covered /\ increment(v)
      BY DEF Acquire, historyVars, RequestType
    <2> HIDE DEF v
    <2> QED
      BY <2>1 DEF increment, TrackerType
  <1>2. \A w : Guards(w)' = IF w = v THEN Guards(w) \cup {r} ELSE Guards(w)
    <2>1. /\ req'[r].pc = "inflight" /\ req'[r].worker = v
          /\ \A q \in Requests : q # r => req'[q] = req[q]
      BY RequestMoves DEF RequestSteps
    <2> HIDE DEF v, TypeOK
    <2> QED
      BY <1>1, <2>1 DEF Guards
  <1> HIDE DEF v
  <1>3. r \notin Guards(v)
    BY <1>1 DEF Guards
  <1>4. Cardinality(Guards(v) \cup {r}) = Cardinality(Guards(v)) + 1
    BY <1>3, GuardsFinite, FS_AddElement
  <1>5. Cardinality(Guards(v)) + 1 < CountMod
    <2>1. Guards(v) \cup {r} \subseteq Requests
      BY DEF Guards
    <2>2. Cardinality(Guards(v) \cup {r}) <= Cardinality(Requests)
      BY <2>1, FS_Subset
    <2> QED
      BY <1>4, <2>2, GuardsFinite, FS_CardinalityType
  <1>6. ASSUME NEW w \in covered
        PROVE  w < slots' /\ counts'[w] = Cardinality(Guards(w)')
    <2>1. w \in 0 .. slots - 1 /\ counts[w] = Cardinality(Guards(w))
      BY <1>6 DEF CoveredExact, TrackerType
    <2>2. counts'[w] = IF w = v THEN WrapInc(counts[w]) ELSE counts[w]
      BY <1>1, <2>1
    <2>3. Guards(w)' = IF w = v THEN Guards(w) \cup {r} ELSE Guards(w)
      BY <1>2
    <2>4. w < slots'
      BY <1>1, <2>1 DEF TrackerType
    <2>5. CASE w = v
      <3>1. counts'[w] = Cardinality(Guards(w) \cup {r})
        BY <1>4, <1>5, <2>1, <2>2, <2>5, GuardsFinite DEF WrapInc
      <3> QED
        BY <2>3, <2>4, <2>5, <3>1
    <2>6. CASE w # v
      BY <2>1, <2>2, <2>3, <2>4, <2>6
    <2> QED
      BY <2>5, <2>6
  <1> QED
    BY <1>1, <1>6 DEF CoveredExact

LEMMA ReleaseExact ==
    ASSUME TypeOK, CoveredExact, NEW r \in Requests, Release(r)
    PROVE  CoveredExact'
  <1> USE DEF TypeOK
  <1> DEFINE v == req[r].worker
  <1>1. /\ v \in Nat /\ slots' = slots /\ covered' = covered
        /\ req[r].pc = "inflight"
        /\ \A w \in 0 .. slots - 1 : counts'[w] = IF w = v THEN WrapDec(counts[w]) ELSE counts[w]
    <2>1. v \in Nat /\ req[r].pc = "inflight" /\ covered' = covered /\ decrement(v)
      BY DEF Release, historyVars, RequestType
    <2> HIDE DEF v
    <2> QED
      BY <2>1 DEF decrement, TrackerType
  <1>2. \A w : Guards(w)' = IF w = v THEN Guards(w) \ {r} ELSE Guards(w)
    BY RequestMoves DEF Guards, RequestSteps
  <1>3. r \in Guards(v)
    BY <1>1 DEF Guards
  <1> HIDE DEF v
  <1>4. Cardinality(Guards(v) \ {r}) = Cardinality(Guards(v)) - 1 /\ Cardinality(Guards(v)) # 0
    BY <1>3, GuardsFinite, FS_RemoveElement, FS_EmptySet
  <1>5. ASSUME NEW w \in covered
        PROVE  w < slots' /\ counts'[w] = Cardinality(Guards(w)')
    <2>1. w \in 0 .. slots - 1 /\ counts[w] = Cardinality(Guards(w))
      BY <1>5 DEF CoveredExact, TrackerType
    <2>2. counts'[w] = IF w = v THEN WrapDec(counts[w]) ELSE counts[w]
      BY <1>1, <2>1
    <2>3. Guards(w)' = IF w = v THEN Guards(w) \ {r} ELSE Guards(w)
      BY <1>2
    <2>4. w < slots'
      BY <1>1, <2>1 DEF TrackerType
    <2>5. CASE w = v
      <3>1. counts'[w] = Cardinality(Guards(w) \ {r})
        BY <1>4, <2>1, <2>2, <2>5, GuardsFinite DEF WrapDec
      <3> QED
        BY <2>3, <2>4, <2>5, <3>1
    <2>6. CASE w # v
      BY <2>1, <2>2, <2>3, <2>4, <2>6
    <2> QED
      BY <2>5, <2>6
  <1> QED
    BY <1>1, <1>5 DEF CoveredExact

LEMMA ExactStep ==
    ASSUME TypeOK, FreshIdentity, CoveredExact, [Next]_vars
    PROVE  CoveredExact'
  <1>1. CASE DiscoveryRegisters
    <2>1. UNCHANGED <<slots, counts, req>> /\ covered' \subseteq covered \cup {next_id}
             /\ (next_id \in covered' => next_id \in covered \/ next_id < slots)
      BY <1>1 DEF DiscoveryRegisters, RegisterNew, trackerVars
    <2>2. \A w : Guards(w)' = Guards(w)
      BY <2>1 DEF Guards
    <2>3. Guards(next_id) = {}
      BY DEF Guards, FreshIdentity, TypeOK, RequestType, RegistryType
    <2>4. ASSUME next_id < slots PROVE counts[next_id] = Cardinality(Guards(next_id))
      BY <2>3, <2>4, FS_EmptySet DEF FreshIdentity, TypeOK, RegistryType, TrackerType
    <2> QED
      BY <2>1, <2>2, <2>4 DEF CoveredExact
  <1>2. CASE DiscoveryReconciles
    <2>1. UNCHANGED <<req, covered>>
      BY <1>2 DEF DiscoveryReconciles, historyVars
    <2>2. slots' \in Nat /\ slots' >= slots /\ \A w \in 0 .. slots - 1 : counts'[w] = counts[w]
      <3>1. Cardinality(DOMAIN by_url) + Slack \in Nat
        BY FS_Subset, FS_CardinalityType DEF TypeOK, ReconcileType
      <3>2. ASSUME NEW n \in Nat, ensure_capacity(n)
            PROVE  slots' \in Nat /\ slots' >= slots
                     /\ \A w \in 0 .. slots - 1 : counts'[w] = counts[w]
        BY <3>2 DEF ensure_capacity, TypeOK, TrackerType
      <3>3. CASE UNCHANGED <<slots, counts>>
        BY <3>3 DEF TypeOK, TrackerType
      <3> QED
        BY <1>2, <3>1, <3>2, <3>3 DEF DiscoveryReconciles, PurgeGone, UnregisterGone,
           FinishReconcile, trackerVars
    <2>3. \A w : Guards(w)' = Guards(w)
      BY <2>1 DEF Guards
    <2> QED
      BY <2>1, <2>2, <2>3 DEF CoveredExact, TypeOK, TrackerType
  <1>3. CASE \E r \in Requests : RequestSteps(r)
    <2>1. PICK r \in Requests : RequestSteps(r)
      BY <1>3
    <2>2. CASE Select(r) \/ Record(r)
      <3>1. \A w : Guards(w)' = Guards(w)
        BY <2>2, RequestMoves DEF RequestSteps, Guards, TypeOK
      <3>2. UNCHANGED <<slots, counts, covered>>
        BY <2>2 DEF Select, Record, trackerVars, historyVars
      <3> QED
        BY <3>1, <3>2 DEF CoveredExact
    <2> QED
      BY <2>1, <2>2, AcquireExact, ReleaseExact DEF RequestSteps
  <1>4. CASE \/ \E u \in Urls : EngineCrashes(u) \/ EngineStarts(u)
             \/ ClusterChanges \/ DiscoveryFails \/ DiscoveryWatches \/ PollerSteps
             \/ EvictionForgets \/ UNCHANGED vars
    <2>1. UNCHANGED <<slots, counts, req, covered>>
      BY <1>4 DEF EngineCrashes, EngineStarts, ClusterChanges, DiscoveryFails,
         DiscoveryWatches, PollerSteps, PollRound, Probe, ApplyProbe, PurgeDown,
         PollSleep, EvictionForgets, trackerVars, historyVars, vars
    <2> QED
      BY <2>1, ExactFrame
  <1> QED
    BY <1>1, <1>2, <1>3, <1>4 DEF Next, DiscoverySteps

LEMMA ExactInit == Init => CoveredExact
  <1> SUFFICES ASSUME Init PROVE CoveredExact
    OBVIOUS
  <1>1. \A w : Guards(w) = {}
    BY DEF Init, Guards, Idle
  <1>2. \A w : Cardinality(Guards(w)) = 0
    BY <1>1, FS_EmptySet
  <1>3. \A w \in covered : w < slots /\ counts[w] = 0
    BY StaticIdsType DEF Init, with_capacity, StaticIds
  <1> QED
    BY <1>2, <1>3 DEF CoveredExact

\* The in-flight count of a worker that had a counter when it was registered, of
\* every configured worker in particular, is the number of its live guards.
THEOREM LoadIsExact == Spec => []CoveredExact
  <1>1. TypeOK /\ FreshIdentity /\ CoveredExact /\ [Next]_vars => CoveredExact'
    BY ExactStep
  <1> QED
    BY <1>1, ExactInit, TypeCorrect, FreshIdentityHolds, PTL DEF Spec

(***************************************************************************)
(* Credit of workers that are down or gone                                 *)
(***************************************************************************)
LEMMA CreditStep ==
    ASSUME TypeOK, FreshIdentity, CreditOfUnhealthy, [Next]_vars
    PROVE  CreditOfUnhealthy'
  <1>1. CASE DiscoveryRegisters
    <2>1. UNCHANGED <<affinity, stray, victim, ppc, probed>>
      BY <1>1 DEF DiscoveryRegisters, RegisterNew, pollVars
    <2>2. next_id \notin DOMAIN workers
      BY DEF FreshIdentity, TypeOK, RegistryType
    <2>3. \A w \in healthy_workers : w \in healthy_workers'
      BY <1>1, <2>2 DEF DiscoveryRegisters, RegisterNew, register_worker, healthy_workers
    <2> QED
      BY <2>1, <2>3 DEF CreditOfUnhealthy
  <1>2. CASE DiscoveryReconciles
    <2>1. UNCHANGED <<stray, ppc, probed>>
      BY <1>2 DEF DiscoveryReconciles, pollVars, historyVars
    <2>2. CASE \E u \in Urls : PurgeGone(u)
      BY <2>1, <2>2 DEF PurgeGone, CreditOfUnhealthy, healthy_workers, registryVars
    <2>3. CASE UnregisterGone
      <3>1. \A w \in healthy_workers \ {victim} : w \in healthy_workers'
        BY <2>3 DEF UnregisterGone, remove_worker, Restrict, healthy_workers
      <3>2. affinity' = affinity /\ victim' = None /\ None \notin affinity
        BY <2>3 DEF UnregisterGone, TypeOK
      <3> QED
        BY <2>1, <3>1, <3>2 DEF CreditOfUnhealthy
    <2>4. CASE FinishReconcile
      BY <2>1, <2>4 DEF FinishReconcile, CreditOfUnhealthy, healthy_workers, registryVars
    <2> QED
      BY <1>2, <2>2, <2>3, <2>4 DEF DiscoveryReconciles
  <1>3. CASE PollerSteps
    <2>1. UNCHANGED <<stray, victim>>
      BY <1>3 DEF PollerSteps, PollRound, Probe, ApplyProbe, PurgeDown, PollSleep,
         historyVars, discoveryVars, reconcileVars
    <2>2. CASE ApplyProbe
      <3>1. \A w \in healthy_workers :
              w \in healthy_workers' \/ (ppc' = "purge" /\ probed'.id = w)
        BY <2>2 DEF ApplyProbe, set_healthy, HealthChanges, healthy_workers, TypeOK,
           RegistryType, WorkerState, PollType
      <3> QED
        BY <2>1, <2>2, <3>1 DEF ApplyProbe, CreditOfUnhealthy
    <2>3. CASE PollRound \/ Probe \/ PurgeDown \/ PollSleep
      BY <2>1, <2>3 DEF PollRound, Probe, PurgeDown, PollSleep, CreditOfUnhealthy,
         healthy_workers, registryVars
    <2> QED
      BY <1>3, <2>2, <2>3 DEF PollerSteps
  <1>4. CASE EvictionForgets
    BY <1>4 DEF EvictionForgets, CreditOfUnhealthy, healthy_workers, registryVars,
       discoveryVars, reconcileVars, pollVars, historyVars
  <1>5. CASE \E r \in Requests : Record(r)
    BY <1>5 DEF Record, CreditOfUnhealthy, healthy_workers, registryVars, discoveryVars,
       reconcileVars, pollVars, TypeOK, RequestType
  <1>6. CASE \/ \E u \in Urls : EngineCrashes(u) \/ EngineStarts(u)
             \/ ClusterChanges \/ DiscoveryFails \/ DiscoveryWatches
             \/ \E r \in Requests : Select(r) \/ Acquire(r) \/ Release(r)
             \/ UNCHANGED vars
    <2>1. UNCHANGED <<workers, affinity, stray, victim, ppc, probed>>
      BY <1>6 DEF EngineCrashes, EngineStarts, ClusterChanges, SliceApplied, SliceDeleted,
         DiscoveryFails, WatchFails, DiscoveryWatches, WatchInit, WatchInitApply,
         WatchInitDone, WatchEvent, WatchAgain, Select, Acquire, Release, registryVars,
         discoveryVars, reconcileVars, pollVars, historyVars, vars
    <2> QED
      BY <2>1 DEF CreditOfUnhealthy, healthy_workers
  <1> QED
    BY <1>1, <1>2, <1>3, <1>4, <1>5, <1>6 DEF Next, DiscoverySteps, RequestSteps

LEMMA CreditInit == Init => CreditOfUnhealthy
  BY DEF Init, DiscoveryInit, CreditOfUnhealthy

\* The index credits a worker that is down or gone only between set_healthy and
\* the purge, or through a record that came after the purge had begun.
THEOREM CreditHolds == Spec => []CreditOfUnhealthy
  <1>1. TypeOK /\ FreshIdentity /\ CreditOfUnhealthy /\ [Next]_vars => CreditOfUnhealthy'
    BY CreditStep
  <1> QED
    BY <1>1, CreditInit, TypeCorrect, FreshIdentityHolds, PTL DEF Spec

(***************************************************************************)
(* Discovery is in step with the cluster                                   *)
(***************************************************************************)
\* Change i of the stream is the last one of slice s.
LastOf(st, s, i) == st[i].slice = s /\ \A j \in 1 .. Len(st) : j > i => st[j].slice # s

\* What the watch has heard of slice s, and has yet to hear, adds up to the cluster: the
\* last change under way is the cluster's; with none, the list is if s is still on it, and
\* otherwise the map of slices is.
Heard(s, cl, ls, st, sl) ==
    /\ \A i \in 1 .. Len(st) : LastOf(st, s, i) =>
         IF st[i].deleted THEN s \notin DOMAIN cl
         ELSE s \in DOMAIN cl /\ cl[s] = st[i].content
    /\ (\A i \in 1 .. Len(st) : st[i].slice # s) =>
         IF s \in DOMAIN ls THEN s \in DOMAIN cl /\ cl[s] = ls[s]
         ELSE /\ s \in DOMAIN sl <=> s \in DOMAIN cl
              /\ s \in DOMAIN sl => sl[s] = endpoint_urls(cl[s])

\* Where the watch and the reconcile stand.
PhaseInv ==
    /\ wphase = "init" => /\ stream = <<>> /\ dpc \in {"off", "watch", "backoff"}
                          /\ dpc # "backoff" => DOMAIN slices = {}
    /\ dpc \in {"off", "backoff"} => wphase = "init"
    /\ wphase = "live" => DOMAIN listing = {}
    /\ dpc \in {"reconcile", "unregister"} => gone = DOMAIN by_url \ desired
    /\ dpc = "watch" /\ wphase # "init" => DOMAIN by_url = desired

HeardInv == wphase # "init" => \A s \in Slices : Heard(s, cluster, listing, stream, slices)

\* Two maps agree on a key.
Same(map, old, k) == (k \in DOMAIN map <=> k \in DOMAIN old) /\ (k \in DOMAIN old => map[k] = old[k])

\* The stream grows by the change the cluster just made.
LEMMA HeardChange ==
    ASSUME NEW s \in Slices, NEW cl, NEW ls, NEW st \in Seq(Change), NEW sl,
           Heard(s, cl, ls, st, sl), NEW x \in Slices, NEW e \in Change, e.slice = x,
           NEW cm, s # x => Same(cm, cl, s),
           IF e.deleted THEN x \notin DOMAIN cm ELSE x \in DOMAIN cm /\ cm[x] = e.content
    PROVE  Heard(s, cm, ls, Append(st, e), sl)
  <1>1. PICK n \in Nat : n = Len(st)
    OBVIOUS
  <1>2. PICK su : su = Append(st, e)
    OBVIOUS
  <1>3. Len(su) = n + 1 /\ su[n + 1] = e /\ \A i \in 1 .. n : su[i] = st[i]
    BY <1>1, <1>2
  <1>4. CASE s = x
    <2>1. ASSUME NEW i \in 1 .. Len(su), LastOf(su, s, i) PROVE i = n + 1
      BY <1>3, <1>4, <2>1 DEF LastOf
    <2>2. su[n + 1].slice = s /\ n + 1 \in 1 .. Len(su)
      BY <1>3, <1>4
    <2>3. Heard(s, cm, ls, su, sl)
      BY <1>3, <1>4, <2>1, <2>2 DEF Heard
    <2> QED
      BY <1>2, <2>3
  <1>5. CASE s # x
    <2>1. ASSUME NEW i \in 1 .. Len(su), LastOf(su, s, i)
          PROVE  i \in 1 .. Len(st) /\ LastOf(st, s, i) /\ su[i] = st[i]
      <3>1. i # n + 1
        BY <1>3, <1>5, <2>1 DEF LastOf
      <3>2. i \in 1 .. n
        BY <1>3, <3>1
      <3>3. \A j \in 1 .. n : j \in 1 .. Len(su) /\ su[j] = st[j]
        BY <1>3
      <3> QED
        BY <1>1, <2>1, <3>2, <3>3 DEF LastOf
    <2>2. ASSUME \A i \in 1 .. Len(su) : su[i].slice # s
          PROVE  \A i \in 1 .. Len(st) : st[i].slice # s
      BY <1>1, <1>3, <2>2
    <2>3. Same(cm, cl, s)
      BY <1>5
    <2>4. Heard(s, cm, ls, su, sl)
      BY <2>1, <2>2, <2>3 DEF Heard, Same
    <2> QED
      BY <1>2, <2>4
  <1> QED
    BY <1>4, <1>5

\* The first change of the stream is applied to the map.
LEMMA HeardEvent ==
    ASSUME NEW s \in Slices, NEW cl, NEW ls, DOMAIN ls = {}, NEW st \in Seq(Change), st # <<>>,
           NEW sl, Heard(s, cl, ls, st, sl), NEW e, e = Head(st),
           NEW sm, s # e.slice => Same(sm, sl, s),
           s = e.slice => IF e.deleted THEN s \notin DOMAIN sm
                          ELSE s \in DOMAIN sm /\ sm[s] = endpoint_urls(e.content)
    PROVE  Heard(s, cl, ls, Tail(st), sm)
  <1>1. PICK n \in Nat : Len(st) = n + 1
    <2>1. Len(st) \in Nat /\ Len(st) # 0
      OBVIOUS
    <2>2. Len(st) - 1 \in Nat /\ Len(st) = (Len(st) - 1) + 1
      BY <2>1
    <2> QED
      BY <2>2
  <1>2. PICK su : su = Tail(st)
    OBVIOUS
  <1>3. Len(su) = n /\ st[1] = e /\ \A i \in 1 .. n : su[i] = st[i + 1] /\ i + 1 \in 1 .. Len(st)
    BY <1>1, <1>2
  <1>4. ASSUME NEW i \in 1 .. Len(su), LastOf(su, s, i)
        PROVE  LastOf(st, s, i + 1)
    <2> SUFFICES ASSUME NEW j \in 1 .. Len(st), j > i + 1 PROVE st[j].slice # s
      BY <1>3, <1>4 DEF LastOf
    <2>1. PICK k \in 1 .. n : j = k + 1 /\ k > i
      <3>1. j - 1 \in 1 .. n /\ j = (j - 1) + 1 /\ j - 1 > i
        BY <1>1, <1>3
      <3> QED
        BY <3>1
    <2> QED
      BY <1>3, <1>4, <2>1 DEF LastOf
  <1>5. ASSUME \A i \in 1 .. Len(su) : su[i].slice # s
        PROVE  \A j \in 1 .. Len(st) : j > 1 => st[j].slice # s
    <2> SUFFICES ASSUME NEW j \in 1 .. Len(st), j > 1 PROVE st[j].slice # s
      OBVIOUS
    <2>1. PICK k \in 1 .. n : j = k + 1
      <3>1. j - 1 \in 1 .. n /\ j = (j - 1) + 1
        BY <1>1
      <3> QED
        BY <3>1
    <2> QED
      BY <1>3, <1>5, <2>1
  <1>6. \A i \in 1 .. Len(su) : LastOf(su, s, i) =>
          IF su[i].deleted THEN s \notin DOMAIN cl ELSE s \in DOMAIN cl /\ cl[s] = su[i].content
    <2> SUFFICES ASSUME NEW i \in 1 .. Len(su), LastOf(su, s, i)
                 PROVE  IF su[i].deleted THEN s \notin DOMAIN cl
                        ELSE s \in DOMAIN cl /\ cl[s] = su[i].content
      OBVIOUS
    <2>1. PICK j \in 1 .. Len(st) : j = i + 1 /\ su[i] = st[j]
      BY <1>3
    <2>2. LastOf(st, s, j)
      BY <1>4, <2>1
    <2> QED
      BY <2>1, <2>2 DEF Heard
  <1>7. ASSUME \A i \in 1 .. Len(su) : su[i].slice # s
        PROVE  /\ s \in DOMAIN sm <=> s \in DOMAIN cl
               /\ s \in DOMAIN sm => sm[s] = endpoint_urls(cl[s])
    <2>1. CASE s = e.slice
      <3>1. 1 \in 1 .. Len(st) /\ LastOf(st, s, 1)
        BY <1>1, <1>3, <1>5, <1>7, <2>1 DEF LastOf
      <3>2. IF e.deleted THEN s \notin DOMAIN cl ELSE s \in DOMAIN cl /\ cl[s] = e.content
        BY <1>3, <3>1 DEF Heard
      <3> QED
        BY <2>1, <3>2
    <2>2. CASE s # e.slice
      <3>1. \A j \in 1 .. Len(st) : st[j].slice # s
        BY <1>1, <1>3, <1>5, <1>7, <2>2
      <3> QED
        BY <2>2, <3>1 DEF Heard, Same
    <2> QED
      BY <2>1, <2>2
  <1>8. Heard(s, cl, ls, su, sm)
    BY <1>6, <1>7 DEF Heard
  <1> QED
    BY <1>2, <1>8

\* A listed slice reaches the map.
LEMMA HeardApply ==
    ASSUME NEW s, NEW cl, NEW ls, NEW st, NEW sl, Heard(s, cl, ls, st, sl),
           NEW x \in DOMAIN ls, NEW lm, lm = Without(ls, x),
           NEW sm, sm = Update(sl, x, endpoint_urls(ls[x]))
    PROVE  Heard(s, cl, lm, st, sm)
  <1>1. /\ DOMAIN lm = DOMAIN ls \ {x} /\ \A y \in DOMAIN lm : lm[y] = ls[y]
    BY DEF Without, Restrict
  <1>2. /\ DOMAIN sm = DOMAIN sl \cup {x} /\ sm[x] = endpoint_urls(ls[x])
        /\ \A y \in DOMAIN sl : y # x => sm[y] = sl[y]
    BY DEF Update
  <1>3. CASE s = x
    BY <1>1, <1>2, <1>3 DEF Heard
  <1>4. CASE s # x
    BY <1>1, <1>2, <1>4 DEF Heard
  <1> QED
    BY <1>3, <1>4

LEMMA UpdateFacts ==
    ASSUME NEW map, NEW key, NEW value, NEW new, new = Update(map, key, value)
    PROVE  key \in DOMAIN new /\ new[key] = value /\ \A k : k # key => Same(new, map, k)
  BY DEF Update, Same

LEMMA WithoutFacts ==
    ASSUME NEW map, NEW key, NEW new, new = Without(map, key)
    PROVE  key \notin DOMAIN new /\ \A k : k # key => Same(new, map, k)
  BY DEF Without, Restrict, Same

\* The cluster changes, and with it the stream of an open watch.
LEMMA ChangeHeard ==
    ASSUME TypeOK, PhaseInv, HeardInv, NEW x \in Slices,
           (\E content \in SliceContents : SliceApplied(x, content)) \/ SliceDeleted(x)
    PROVE  HeardInv'
  <1> SUFFICES ASSUME wphase # "init", NEW s \in Slices
               PROVE  Heard(s, cluster', listing, stream', slices)
    BY DEF HeardInv, SliceApplied, SliceDeleted, reconcileVars
  <1>1. Listed /\ Heard(s, cluster, listing, stream, slices) /\ stream \in Seq(Change)
    BY DEF HeardInv, Listed, PhaseInv, TypeOK, WatchType
  <1>2. CASE SliceDeleted(x)
    <2>1. PICK e \in Change : e = [slice |-> x, deleted |-> TRUE, content |-> {}]
      BY DEF Change
    <2>2. e.slice = x /\ e.deleted
      BY <2>1
    <2>3. stream' = Append(stream, e) /\ cluster' = Without(cluster, x)
      BY <1>1, <1>2, <2>1 DEF SliceDeleted
    <2>4. x \notin DOMAIN cluster' /\ \A k : k # x => Same(cluster', cluster, k)
      BY <2>3, WithoutFacts
    <2>5. Heard(s, cluster', listing, Append(stream, e), slices)
      BY <1>1, <2>2, <2>4, HeardChange
    <2> QED
      BY <2>3, <2>5
  <1>3. CASE \E content \in SliceContents : SliceApplied(x, content)
    <2>1. PICK content \in SliceContents : SliceApplied(x, content)
      BY <1>3
    <2>2. PICK e \in Change : e = [slice |-> x, deleted |-> FALSE, content |-> content]
      BY DEF Change
    <2>3. e.slice = x /\ ~e.deleted /\ e.content = content
      BY <2>2
    <2>4. stream' = Append(stream, e) /\ cluster' = Update(cluster, x, content)
      BY <1>1, <2>1, <2>2 DEF SliceApplied
    <2>5. /\ x \in DOMAIN cluster' /\ cluster'[x] = e.content
          /\ \A k : k # x => Same(cluster', cluster, k)
      BY <2>3, <2>4, UpdateFacts
    <2>6. Heard(s, cluster', listing, Append(stream, e), slices)
      BY <1>1, <2>3, <2>5, HeardChange
    <2> QED
      BY <2>4, <2>6
  <1> QED
    BY <1>2, <1>3

LEMMA WatchHeard ==
    ASSUME TypeOK, PhaseInv, HeardInv,
           \/ WatchInit
           \/ \E s \in Slices : WatchInitApply(s)
           \/ WatchInitDone
           \/ WatchEvent
           \/ WatchAgain
           \/ WatchFails
    PROVE  HeardInv'
  <1>1. CASE WatchInit
    <2>1. /\ stream = <<>> /\ DOMAIN slices = {} /\ listing' = cluster
          /\ UNCHANGED <<cluster, stream, slices>>
      BY <1>1 DEF WatchInit, BeginReconcile, PhaseInv
    <2>2. Len(stream) = 0
      BY <2>1
    <2> QED
      BY <2>1, <2>2 DEF HeardInv, Heard
  <1>2. CASE \E x \in Slices : WatchInitApply(x)
    <2> SUFFICES ASSUME NEW s \in Slices PROVE Heard(s, cluster', listing', stream', slices')
      BY DEF HeardInv
    <2>1. PICK x \in Slices : WatchInitApply(x)
      BY <1>2
    <2>2. /\ x \in DOMAIN listing /\ listing' = Without(listing, x)
          /\ slices' = Update(slices, x, endpoint_urls(listing[x]))
          /\ Heard(s, cluster, listing, stream, slices) /\ UNCHANGED <<cluster, stream>>
      BY <2>1 DEF WatchInitApply, BeginReconcile, HeardInv
    <2>3. Heard(s, cluster, listing', stream, slices')
      BY <2>2, HeardApply
    <2> QED
      BY <2>2, <2>3
  <1>3. CASE WatchInitDone
    BY <1>3 DEF WatchInitDone, BeginReconcile, HeardInv
  <1>4. CASE WatchEvent
    <2> SUFFICES ASSUME NEW s \in Slices PROVE Heard(s, cluster', listing', stream', slices')
      BY DEF HeardInv
    <2>1. PICK e : e = Head(stream)
      OBVIOUS
    <2>2. /\ stream # <<>> /\ stream' = Tail(stream) /\ UNCHANGED <<cluster, listing>>
          /\ slices' = IF e.deleted THEN Without(slices, e.slice)
                       ELSE Update(slices, e.slice, endpoint_urls(e.content))
      BY <1>4, <2>1 DEF WatchEvent, BeginReconcile
    <2>3. /\ DOMAIN listing = {} /\ stream \in Seq(Change)
          /\ Heard(s, cluster, listing, stream, slices)
      BY <1>4 DEF WatchEvent, PhaseInv, HeardInv, TypeOK, WatchType
    <2>4. /\ s # e.slice => Same(slices', slices, s)
          /\ s = e.slice => IF e.deleted THEN s \notin DOMAIN slices'
                            ELSE s \in DOMAIN slices' /\ slices'[s] = endpoint_urls(e.content)
      BY <2>2, UpdateFacts, WithoutFacts
    <2>5. Heard(s, cluster, listing, Tail(stream), slices')
      BY <2>1, <2>2, <2>3, <2>4, HeardEvent
    <2> QED
      BY <2>2, <2>5
  <1>5. CASE WatchAgain
    BY <1>5 DEF WatchAgain, watchVars, PhaseInv, HeardInv
  <1>6. CASE WatchFails
    BY <1>6 DEF WatchFails, HeardInv
  <1> QED
    BY <1>1, <1>2, <1>3, <1>4, <1>5, <1>6

\* desired depends on the map of slices alone.
LEMMA DesiredIs == desired = DesiredOf(slices) /\ desired' = DesiredOf(slices')
  BY DEF desired, DesiredOf

LEMMA WatchPhase ==
    ASSUME TypeOK, PhaseInv,
           \/ WatchInit
           \/ \E s \in Slices : WatchInitApply(s)
           \/ WatchInitDone
           \/ WatchEvent
           \/ WatchAgain
           \/ WatchFails
    PROVE  PhaseInv'
  <1>1. CASE WatchAgain
    BY <1>1 DEF WatchAgain, PhaseInv, watchVars, EmptyMap
  <1>2. CASE WatchFails
    BY <1>2 DEF WatchFails, PhaseInv, reconcileVars, EmptyMap
  <1>3. CASE \/ WatchInit
             \/ \E s \in Slices : WatchInitApply(s)
             \/ WatchInitDone
             \/ WatchEvent
    <2>1. /\ gone' = DOMAIN by_url' \ DesiredOf(slices') /\ dpc' = "reconcile"
      BY <1>3 DEF WatchInit, WatchInitApply, WatchInitDone, WatchEvent, BeginReconcile
    <2>2. /\ wphase' # "init"
          /\ wphase' = "live" => DOMAIN listing' = {}
      BY <1>3 DEF WatchInit, WatchInitApply, WatchInitDone, WatchEvent, PhaseInv
    <2> QED
      BY <2>1, <2>2, DesiredIs DEF PhaseInv
  <1> QED
    BY <1>1, <1>2, <1>3

LEMMA ReconcilePhase ==
    ASSUME TypeOK, PhaseInv,
           \/ \E u \in Urls : PurgeGone(u) \/ RegisterNew(u)
           \/ UnregisterGone
           \/ FinishReconcile
    PROVE  PhaseInv'
  <1>1. UNCHANGED <<slices, watchVars>> /\ wphase # "init" /\ desired' = desired
    BY DesiredIs DEF PurgeGone, RegisterNew, UnregisterGone, FinishReconcile, PhaseInv
  <1>2. gone = DOMAIN by_url \ desired
    BY DEF PurgeGone, RegisterNew, UnregisterGone, FinishReconcile, PhaseInv
  <1>3. CASE \E u \in Urls : PurgeGone(u)
    <2>1. PICK u \in Urls : PurgeGone(u)
      BY <1>3
    <2>2. /\ gone' = gone \ {u} /\ DOMAIN by_url' = DOMAIN by_url \ {u} /\ dpc' = "unregister"
      BY <2>1 DEF PurgeGone, Without, Restrict
    <2>3. gone' = DOMAIN by_url' \ desired'
      BY <1>1, <1>2, <2>2
    <2> QED
      BY <1>1, <2>2, <2>3 DEF PhaseInv, watchVars
  <1>4. CASE \E u \in Urls : RegisterNew(u)
    <2>1. PICK u \in Urls : RegisterNew(u)
      BY <1>4
    <2>2. /\ u \in desired /\ gone' = {} /\ gone = {} /\ DOMAIN by_url' = DOMAIN by_url \cup {u}
          /\ dpc' = "reconcile"
      BY <2>1 DEF RegisterNew, Update
    <2>3. gone' = DOMAIN by_url' \ desired'
      BY <1>1, <1>2, <2>2
    <2> QED
      BY <1>1, <2>2, <2>3 DEF PhaseInv, watchVars
  <1>5. CASE UnregisterGone
    <2>1. dpc' = "reconcile" /\ UNCHANGED <<by_url, gone>>
      BY <1>5 DEF UnregisterGone
    <2>2. gone' = DOMAIN by_url' \ desired'
      BY <1>1, <1>2, <2>1
    <2> QED
      BY <1>1, <2>1, <2>2 DEF PhaseInv, watchVars
  <1>6. CASE FinishReconcile
    <2>1. dpc' = "watch" /\ gone = {} /\ desired \subseteq DOMAIN by_url /\ by_url' = by_url
      BY <1>6 DEF FinishReconcile
    <2>2. DOMAIN by_url' = desired'
      BY <1>1, <1>2, <2>1
    <2> QED
      BY <1>1, <2>1, <2>2 DEF PhaseInv, watchVars
  <1> QED
    BY <1>3, <1>4, <1>5, <1>6

LEMMA SyncFrame ==
    ASSUME PhaseInv, HeardInv, UNCHANGED discoveryVars
    PROVE  PhaseInv' /\ HeardInv'
  <1>1. UNCHANGED <<cluster, wphase, listing, stream, dpc, slices, by_url, gone>>
    BY DEF discoveryVars, watchVars, reconcileVars
  <1> QED
    BY <1>1 DEF PhaseInv, HeardInv, desired

LEMMA SyncInit == Init => PhaseInv /\ HeardInv
  BY DEF Init, DiscoveryInit, PhaseInv, HeardInv, EmptyMap

LEMMA SyncStep == TypeOK /\ PhaseInv /\ HeardInv /\ [Next]_vars => PhaseInv' /\ HeardInv'
  <1> SUFFICES ASSUME TypeOK, PhaseInv, HeardInv, [Next]_vars PROVE PhaseInv' /\ HeardInv'
    OBVIOUS
  <1>1. CASE ClusterChanges
    <2>1. PICK x \in Slices :
            (\E content \in SliceContents : SliceApplied(x, content)) \/ SliceDeleted(x)
      BY <1>1 DEF ClusterChanges
    <2>2. HeardInv'
      BY <2>1, ChangeHeard
    <2>3. UNCHANGED <<wphase, listing, dpc, slices, by_url, gone>>
      BY <2>1 DEF SliceApplied, SliceDeleted, reconcileVars
    <2>4. wphase = "init" => stream' = stream
      BY <2>1 DEF SliceApplied, SliceDeleted, Listed
    <2>5. PhaseInv'
      BY <2>3, <2>4 DEF PhaseInv, desired
    <2> QED
      BY <2>2, <2>5
  <1>2. CASE DiscoveryFails \/ DiscoveryWatches
    BY <1>2, WatchHeard, WatchPhase DEF DiscoveryFails, DiscoveryWatches
  <1>3. CASE DiscoveryReconciles \/ DiscoveryRegisters
    <2>1. \/ \E u \in Urls : PurgeGone(u) \/ RegisterNew(u)
          \/ UnregisterGone
          \/ FinishReconcile
      BY <1>3 DEF DiscoveryReconciles, DiscoveryRegisters
    <2>2. UNCHANGED <<watchVars, slices>>
      BY <2>1 DEF PurgeGone, RegisterNew, UnregisterGone, FinishReconcile
    <2>3. HeardInv'
      BY <2>2 DEF watchVars, HeardInv
    <2> QED
      BY <2>1, <2>3, ReconcilePhase
  <1>4. CASE \/ \E u \in Urls : EngineCrashes(u) \/ EngineStarts(u)
             \/ PollerSteps \/ EvictionForgets
             \/ \E r \in Requests : RequestSteps(r)
             \/ UNCHANGED vars
    <2>1. UNCHANGED discoveryVars
      BY <1>4 DEF EngineCrashes, EngineStarts, PollerSteps, PollRound, Probe, ApplyProbe,
         PurgeDown, PollSleep, EvictionForgets, RequestSteps, Select, Record, Acquire,
         Release, vars
    <2> QED
      BY <2>1, SyncFrame
  <1> QED
    BY <1>1, <1>2, <1>3, <1>4 DEF Next, DiscoverySteps

\* Whenever the task is back at its stream with nothing left to read, it owns exactly the
\* addresses the cluster advertises: for any slices that share, hand over or drop addresses,
\* changes that arrive during the list, and watches that fail and start from nothing, if no
\* endpoint has conditions without `ready`.
THEOREM DiscoverySynced == ReadyAlwaysSet => (Spec => []Synced)
  <1> SUFFICES ASSUME ReadyAlwaysSet PROVE Spec => []Synced
    OBVIOUS
  <1>1. TypeOK /\ PhaseInv /\ HeardInv => Synced
    <2> SUFFICES ASSUME TypeOK, PhaseInv, HeardInv, CaughtUp
                 PROVE  DOMAIN by_url = Advertised
      BY DEF Synced
    <2>1. DOMAIN by_url = desired /\ DOMAIN listing = {}
      BY DEF PhaseInv, CaughtUp
    <2>2. Len(stream) = 0
      BY DEF CaughtUp
    <2>3. \A s \in Slices : /\ s \in DOMAIN slices <=> s \in DOMAIN cluster
                            /\ s \in DOMAIN slices => slices[s] = endpoint_urls(cluster[s])
      BY <2>1, <2>2 DEF HeardInv, Heard, CaughtUp
    <2>4. DOMAIN slices \subseteq Slices /\ DOMAIN cluster \subseteq Slices
      BY DEF TypeOK, WatchType, ReconcileType
    <2>5. DOMAIN slices = DOMAIN cluster
      BY <2>3, <2>4
    <2>6. ASSUME NEW s \in DOMAIN cluster
          PROVE  endpoint_urls(cluster[s]) = {e.url : e \in {x \in cluster[s] : x.ready # "false"}}
      <3>1. cluster[s] \subseteq Endpoint /\ \A e \in cluster[s] : e.ready # "unset"
        BY DiscoveryAssumption DEF TypeOK, WatchType, ReadyAlwaysSet
      <3>2. \A e \in cluster[s] : endpoint_is_ready(e) <=> e.ready # "false"
        BY <3>1 DEF Endpoint, endpoint_is_ready
      <3> QED
        BY <3>2 DEF endpoint_urls
    <2>7. desired = Advertised
      BY <2>3, <2>4, <2>5, <2>6 DEF desired, Advertised
    <2> QED
      BY <2>1, <2>7
  <1> QED
    BY <1>1, TypeCorrect, SyncInit, SyncStep, PTL DEF Spec
===========================================================================
