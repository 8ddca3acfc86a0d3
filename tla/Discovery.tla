----------------------------- MODULE Discovery ----------------------------
(***************************************************************************)
(* Kubernetes worker discovery (crates/router-server/src/discovery.rs).    *)
(* One task opens a watch on the EndpointSlices of the service, keeps the  *)
(* slices it has heard of, and after every event reconciles the registry   *)
(* with the union of the slices, one registry or index call at a time.     *)
(*                                                                         *)
(* External: the cluster (the API server's slices) and the event stream of *)
(* the kube watcher: Init, one InitApply per listed slice in any order,    *)
(* InitDone, then every later change in order. Any await on the stream may *)
(* fail; the loop then opens a new watch from nothing.                     *)
(***************************************************************************)
EXTENDS WorkerRegistry, InflightTracker

CONSTANTS Slices,          \* names of the EndpointSlices behind the service
          SliceContents,   \* the endpoint sets a slice may have
          Slack,           \* spare counters ensure_capacity asks for (16)
          None             \* no worker id

Endpoint == [url : Urls, ready : {"unconditioned", "unset", "true", "false"}]

ASSUME DiscoveryAssumption ==
    /\ SliceContents \subseteq SUBSET Endpoint
    /\ Slack \in Nat
    /\ None \notin Nat
    /\ IsFiniteSet(Urls)

VARIABLES cluster,    \* slice name -> endpoints, as the API server has it
          wphase,     \* where the watch is: "init", "list" or "live"
          listing,    \* slices of the initial list not delivered yet
          stream,     \* later changes not delivered yet
          dpc,        \* "off", "watch", "reconcile", "unregister", "backoff"
          slices,     \* watch_once's map: slice name -> ready urls
          by_url,     \* DiscoveredWorkers: url -> worker id
          gone,       \* reconcile's list of urls still to remove
          victim,     \* the worker purged from the index, not yet unregistered
          changed,    \* removed + added > 0 in this reconcile
          affinity    \* workers the prefix index credits with some block

watchVars == <<cluster, wphase, listing, stream>>
reconcileVars == <<slices, by_url, gone, victim, changed>>
discoveryVars == <<watchVars, dpc, reconcileVars>>

(***************************************************************************)
(* Endpoints                                                               *)
(***************************************************************************)
\* endpoint_is_ready: no conditions at all, or an explicit ready = true.
endpoint_is_ready(e) == e.ready \in {"unconditioned", "true"}

endpoint_urls(content) == {e.url : e \in {x \in content : endpoint_is_ready(x)}}

\* The urls the cluster advertises now, by what Kubernetes means: an endpoint is
\* ready unless its conditions say that it is not.
Advertised ==
    UNION {{e.url : e \in {x \in cluster[s] : x.ready # "false"}} : s \in DOMAIN cluster}

\* No endpoint has conditions that leave `ready` out.
ReadyAlwaysSet == \A content \in SliceContents : \A e \in content : e.ready # "unset"

\* reconcile's desired_urls: the union of the slices heard of.
desired == UNION {slices[s] : s \in DOMAIN slices}

DesiredOf(sl) == UNION {sl[s] : s \in DOMAIN sl}

(***************************************************************************)
(* The API server and the watch stream (external)                          *)
(***************************************************************************)
Change == [slice : Slices, deleted : BOOLEAN, content : SliceContents \cup {{}}]

WatchType ==
    /\ DOMAIN cluster \subseteq Slices
    /\ \A s \in DOMAIN cluster : cluster[s] \in SliceContents
    /\ wphase \in {"init", "list", "live"}
    /\ DOMAIN listing \subseteq Slices
    /\ \A s \in DOMAIN listing : listing[s] \in SliceContents
    /\ stream \in Seq(Change)
    /\ dpc \in {"off", "watch", "reconcile", "unregister", "backoff"}

ReconcileType ==
    /\ DOMAIN slices \subseteq Slices
    /\ \A s \in DOMAIN slices : slices[s] \subseteq Urls
    /\ DOMAIN by_url \subseteq Urls
    /\ \A u \in DOMAIN by_url : by_url[u] \in Nat
    /\ gone \subseteq DOMAIN by_url
    /\ victim \in Nat \cup {None}
    /\ (victim # None) <=> (dpc = "unregister")
    /\ changed \in BOOLEAN

EmptyMap == [x \in {} |-> x]
Update(map, key, value) ==
    [k \in DOMAIN map \cup {key} |-> IF k = key THEN value ELSE map[k]]
Without(map, key) == Restrict(map, DOMAIN map \ {key})

\* Changes since the list was taken reach the stream; earlier ones are in it.
Listed == dpc \notin {"off", "backoff"} /\ wphase # "init"

SliceApplied(s, content) ==
    /\ s \in DOMAIN cluster => cluster[s] # content
    /\ cluster' = Update(cluster, s, content)
    /\ stream' = IF Listed
                 THEN Append(stream, [slice |-> s, deleted |-> FALSE,
                                      content |-> content])
                 ELSE stream
    /\ UNCHANGED <<wphase, listing, dpc, reconcileVars>>

SliceDeleted(s) ==
    /\ s \in DOMAIN cluster
    /\ cluster' = Without(cluster, s)
    /\ stream' = IF Listed
                 THEN Append(stream, [slice |-> s, deleted |-> TRUE,
                                      content |-> {}])
                 ELSE stream
    /\ UNCHANGED <<wphase, listing, dpc, reconcileVars>>

(***************************************************************************)
(* watch_once: one event, then reconcile against the union of the slices   *)
(***************************************************************************)
BeginReconcile(sl) ==
    /\ slices' = sl
    /\ gone' = DOMAIN by_url \ DesiredOf(sl)
    /\ changed' = FALSE
    /\ dpc' = "reconcile"

\* Event::Init: the watcher lists the slices; the marker still reconciles.
WatchInit ==
    /\ dpc = "watch" /\ wphase = "init"
    /\ wphase' = "list"
    /\ listing' = cluster
    /\ BeginReconcile(slices)
    /\ UNCHANGED <<cluster, stream, by_url, victim>>

\* Event::InitApply
WatchInitApply(s) ==
    /\ dpc = "watch" /\ wphase = "list"
    /\ s \in DOMAIN listing
    /\ listing' = Without(listing, s)
    /\ BeginReconcile(Update(slices, s, endpoint_urls(listing[s])))
    /\ UNCHANGED <<cluster, wphase, stream, by_url, victim>>

\* Event::InitDone
WatchInitDone ==
    /\ dpc = "watch" /\ wphase = "list"
    /\ DOMAIN listing = {}
    /\ wphase' = "live"
    /\ BeginReconcile(slices)
    /\ UNCHANGED <<cluster, listing, stream, by_url, victim>>

WatchIgnoresDelete ==
    /\ dpc = "watch" /\ wphase = "live"
    /\ stream # <<>>
    /\ LET e == Head(stream)
       IN BeginReconcile(IF e.deleted THEN slices
                         ELSE Update(slices, e.slice, endpoint_urls(e.content)))
    /\ stream' = Tail(stream)
    /\ UNCHANGED <<cluster, wphase, listing, by_url, victim>>

\* Event::Apply and Event::Delete
WatchEvent ==
    /\ dpc = "watch" /\ wphase = "live"
    /\ stream # <<>>
    /\ LET e == Head(stream)
       IN BeginReconcile(IF e.deleted THEN Without(slices, e.slice)
                         ELSE Update(slices, e.slice, endpoint_urls(e.content)))
    /\ stream' = Tail(stream)
    /\ UNCHANGED <<cluster, wphase, listing, by_url, victim>>

\* The stream yields an error: watch_once returns it, run_discovery backs off.
WatchFails ==
    /\ dpc = "watch"
    /\ dpc' = "backoff"
    /\ wphase' = "init"
    /\ listing' = EmptyMap
    /\ stream' = <<>>
    /\ UNCHANGED <<cluster, reconcileVars>>

WatchAgainKeepingSlices ==
    /\ dpc = "backoff"
    /\ dpc' = "watch"
    /\ UNCHANGED <<watchVars, reconcileVars>>

\* run_discovery calls watch_once again: a new stream and an empty slice map;
\* DiscoveredWorkers survives.
WatchAgain ==
    /\ dpc = "backoff"
    /\ dpc' = "watch"
    /\ slices' = EmptyMap
    /\ UNCHANGED <<watchVars, by_url, gone, victim, changed>>

(***************************************************************************)
(* reconcile, one shared-state call per step                               *)
(***************************************************************************)
\* The purge of one gone worker from the prefix index ...
PurgeGone(u) ==
    /\ dpc = "reconcile"
    /\ u \in gone
    /\ gone' = gone \ {u}
    /\ by_url' = Without(by_url, u)
    /\ victim' = by_url[u]
    /\ affinity' = affinity \ {by_url[u]}
    /\ changed' = TRUE
    /\ dpc' = "unregister"
    /\ UNCHANGED <<registryVars, trackerVars, watchVars, slices>>

\* ... then its removal from the registry.
UnregisterGone ==
    /\ dpc = "unregister"
    /\ remove_worker(victim)
    /\ victim' = None
    /\ dpc' = "reconcile"
    /\ UNCHANGED <<trackerVars, watchVars, slices, by_url, gone, changed, affinity>>

\* Register one url that has no worker yet.
RegisterNew(u) ==
    /\ dpc = "reconcile" /\ gone = {}
    /\ u \in desired \ DOMAIN by_url
    /\ register_worker(u, "both")
    /\ by_url' = Update(by_url, u, next_id)
    /\ changed' = TRUE
    /\ UNCHANGED <<trackerVars, watchVars, dpc, slices, gone, victim, affinity>>

\* Back in watch_once: grow the in-flight tracker if anything changed.
FinishReconcile ==
    /\ dpc = "reconcile" /\ gone = {}
    /\ desired \subseteq DOMAIN by_url
    /\ IF changed THEN ensure_capacity(Cardinality(DOMAIN by_url) + Slack)
       ELSE UNCHANGED trackerVars
    /\ changed' = FALSE
    /\ dpc' = "watch"
    /\ UNCHANGED <<registryVars, watchVars, slices, by_url, gone, victim, affinity>>

DiscoveryInit ==
    /\ cluster \in {EmptyMap} \cup [Slices -> SliceContents]
    /\ dpc \in {"off", "watch"}
    /\ wphase = "init"
    /\ listing = EmptyMap
    /\ stream = <<>>
    /\ slices = EmptyMap
    /\ by_url = EmptyMap
    /\ gone = {}
    /\ victim = None
    /\ changed = FALSE
    /\ affinity = {}
===========================================================================
