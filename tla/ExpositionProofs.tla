-------------------------- MODULE ExpositionProofs ------------------------
(***************************************************************************)
(* Theorems about Exposition, for any number of scrapes, probes, requests  *)
(* and addresses, and any history of what runs beside them.                *)
(***************************************************************************)
EXTENDS Exposition, Extrema, FiniteSetTheorems, TLAPS

(***************************************************************************)
(* The inductive invariant                                                 *)
(***************************************************************************)
\* What a local or a gauge may hold, and the locals of the calls.
Value == {None} \cup BOOLEAN \cup Nat
Known == [id : Nat, url : Urls]
ScrapeLocal == [pc : {"idle", "health", "up", "count", "inflight", "render"},
                todo : SUBSET Known, value : Value, shard : Nat, total : Nat]
ReadyLocal == [pc : {"idle", "counted", "answer"}, status : {"ready"},
               healthy_workers : Nat, ok : BOOLEAN]

TypeOK ==
    /\ RegistryType /\ IsFiniteSet(DOMAIN workers) /\ TrackerType
    /\ entries \in [Shards -> Nat]
    /\ guard \in [Requests -> Nat \cup {None}]
    /\ gauges \in [Urls -> [up : Value, inflight : Value]]
    /\ scrape \in [Scrapes -> ScrapeLocal]
    /\ ready \in [Probes -> ReadyLocal]
    /\ \A s \in Scrapes : scrape[s].pc \in {"up", "count", "inflight"} => scrape[s].todo # {}

\* The status and the count of a probe agree with a moment since it began.
ReadyInv(h) ==
    /\ ready[h].pc = "counted" => any_healthy \in any[h]
    /\ ready[h].pc \in {"counted", "answer"} => (ready[h].healthy_workers > 0) \in any[h]
    /\ ready[h].pc = "answer" => ready[h].ok \in any[h]

\* What has been seen of an address in this burst, the present included.
Running == \E s \in Scrapes : scrape[s].pc # "idle"

SizesNat == \A i \in Shards : seen.size[i] \subseteq Nat

SeenInv ==
    /\ \A i \in Shards : entries[i] \in seen.size[i]
    /\ \A u \in Urls :
         /\ \A w \in Of(u) : workers[w].healthy \in seen.up[u] /\ count(w) \in seen.load[u]
         /\ u \notin seen.churned => Of(u) # {}

UpFresh(u) == gauges[u].up \in seen.up[u]
LoadFresh(u) == gauges[u].inflight \in seen.load[u]

\* n is the sum of one size of each of the first k shards.
PartSum(sizes, k, n) ==
    /\ k \in 0 .. NumShards
    /\ \E f : (\A i \in 0 .. k - 1 : f[i] \in sizes[i]) /\ n = Total(f, 0 .. k - 1)

\* A scrape: the workers it has still to refresh are registered, its local is a value
\* its source had, and what it has refreshed is fresh, whoever wrote it last.
ScrapeInv(s) ==
    LET c == scrape[s]
    IN /\ c.pc = "render" => c.todo = {} /\ SumsTo(seen.size, size)
       /\ c.pc = "health" => PartSum(seen.size, c.shard, c.total)
       /\ \A w \in c.todo : w.url \notin seen.churned => w.id \in Of(w.url)
       /\ c.pc \in {"up", "count", "inflight"} /\ At(s).url \notin seen.churned =>
            /\ c.pc = "up" => c.value \in seen.up[At(s).url]
            /\ c.pc = "inflight" => c.value \in seen.load[At(s).url]
            /\ c.pc \in {"count", "inflight"} => UpFresh(At(s).url)
       /\ \A u \in Urls \ seen.churned :
            (\E w \in c.todo : w.url = u) \/ (UpFresh(u) /\ LoadFresh(u))

FreshInv ==
    /\ SizesNat
    /\ Running => SeenInv /\ \A s \in Scrapes : scrape[s].pc # "idle" => ScrapeInv(s)

(***************************************************************************)
(* Type correctness                                                        *)
(***************************************************************************)
LEMMA RegisterType ==
    ASSUME RegistryType, IsFiniteSet(DOMAIN workers), NEW u \in Urls, register_worker(u, "both")
    PROVE  RegistryType' /\ IsFiniteSet(DOMAIN workers')
  <1>1. RegistryType' /\ DOMAIN workers' = DOMAIN workers \cup {next_id}
    BY DEF RegistryType, register_worker, WorkerState, Pool
  <1> QED
    BY <1>1, FS_AddElement

LEMMA RemoveType ==
    ASSUME RegistryType, IsFiniteSet(DOMAIN workers), NEW id, remove_worker(id)
    PROVE  RegistryType' /\ IsFiniteSet(DOMAIN workers')
  <1>1. RegistryType' /\ DOMAIN workers' = DOMAIN workers \ {id}
    BY DEF RegistryType, remove_worker, Restrict
  <1> QED
    BY <1>1, FS_RemoveElement

LEMMA SetHealthyType ==
    ASSUME RegistryType, NEW id, NEW h \in BOOLEAN, set_healthy(id, h)
    PROVE  RegistryType' /\ DOMAIN workers' = DOMAIN workers
  BY DEF RegistryType, set_healthy, WorkerState

LEMMA CapacityType ==
    ASSUME RegistryType, IsFiniteSet(DOMAIN workers)', TrackerType,
           ensure_capacity(Cardinality(Discovered') + Slack)
    PROVE  TrackerType'
  <1>1. Cardinality(Discovered') \in Nat
    <2>1. Discovered' \subseteq DOMAIN workers'
      BY DEF Discovered
    <2>2. IsFiniteSet(Discovered')
      BY <2>1, FS_Subset
    <2> QED
      BY <2>2, FS_CardinalityType
  <1>2. PICK n \in Nat : ensure_capacity(n)
    BY <1>1, ExpositionAssumption
  <1> QED
    BY <1>2, CountModAssumption DEF TrackerType, ensure_capacity

LEMMA CountType ==
    ASSUME TrackerType, NEW w \in Nat
    PROVE  count(w) \in Nat
  BY CountModAssumption DEF TrackerType, count

LEMMA OthersType == TypeOK /\ Others => TypeOK'
  <1> SUFFICES ASSUME TypeOK, Others PROVE TypeOK'
    OBVIOUS
  <1> DEFINE Base == /\ RegistryType /\ IsFiniteSet(DOMAIN workers) /\ TrackerType
                     /\ entries \in [Shards -> Nat] /\ guard \in [Requests -> Nat \cup {None}]
  <1>0. Base /\ UNCHANGED <<gauges, scrape, ready>>
    BY DEF TypeOK, Others, gaugeVars
  <1>1. ASSUME NEW u \in Urls, Discover(u) PROVE Base'
    <2>1. RegistryType' /\ IsFiniteSet(DOMAIN workers')
      BY <1>0, <1>1, RegisterType DEF Discover
    <2>2. TrackerType'
      BY <1>0, <1>1, <2>1, CapacityType DEF Discover
    <2> QED
      BY <1>0, <1>1, <2>1, <2>2 DEF Discover
  <1>2. ASSUME NEW w \in DOMAIN workers, Forget(w) PROVE Base'
    <2>1. RegistryType' /\ IsFiniteSet(DOMAIN workers')
      BY <1>0, <1>2, RemoveType DEF Forget
    <2>2. TrackerType'
      BY <1>0, <1>2, <2>1, CapacityType DEF Forget
    <2>3. entries' \in [Shards -> Nat]
      BY <1>0, <1>2, ExpositionAssumption DEF Forget, Purged
    <2> QED
      BY <1>0, <1>2, <2>1, <2>2, <2>3 DEF Forget
  <1>3. ASSUME NEW w \in DOMAIN workers, HealthFlips(w) PROVE Base'
    <2>1. RegistryType' /\ DOMAIN workers' = DOMAIN workers
      <3>1. PICK h \in BOOLEAN : set_healthy(w, h)
        BY <1>3 DEF HealthFlips
      <3> QED
        BY <1>0, <3>1, SetHealthyType
    <2>2. entries' \in [Shards -> Nat]
      BY <1>0, <1>3, ExpositionAssumption DEF HealthFlips, Purged
    <2>3. TrackerType'
      BY <1>0, <1>3 DEF HealthFlips, trackerVars, TrackerType
    <2> QED
      BY <1>0, <1>3, <2>1, <2>2, <2>3 DEF HealthFlips
  <1>4. ASSUME NEW r \in Requests, Acquire(r) PROVE Base'
    <2>1. PICK w \in Nat : increment(w) /\ guard' = [guard EXCEPT ![r] = w]
      BY <1>0, <1>4 DEF Acquire, healthy_workers, RegistryType
    <2>2. TrackerType'
      BY <1>0, <2>1, CountModAssumption DEF TrackerType, increment, WrapInc
    <2> QED
      BY <1>0, <1>4, <2>1, <2>2 DEF Acquire, registryVars, RegistryType
  <1>5. ASSUME NEW r \in Requests, Release(r) PROVE Base'
    <2>1. guard[r] \in Nat /\ decrement(guard[r]) /\ guard' = [guard EXCEPT ![r] = None]
      BY <1>0, <1>5 DEF Release
    <2>2. TrackerType'
      BY <1>0, <2>1, CountModAssumption DEF TrackerType, decrement, WrapDec
    <2> QED
      BY <1>0, <1>5, <2>1, <2>2 DEF Release, registryVars, RegistryType
  <1>6. ASSUME IndexMoves PROVE Base'
    <2>1. entries' \in [Shards -> Nat] /\ UNCHANGED <<workers, next_id, slots, counts, guard>>
      BY <1>0, <1>6, ExpositionAssumption DEF IndexMoves, registryVars, trackerVars
    <2>2. RegistryType' /\ TrackerType'
      BY <1>0, <2>1 DEF RegistryType, TrackerType
    <2> QED
      BY <1>0, <2>1, <2>2
  <1> HIDE DEF Base
  <1>7. Base'
    BY <1>1, <1>2, <1>3, <1>4, <1>5, <1>6 DEF Others
  <1> QED
    BY <1>0, <1>7 DEF TypeOK, Base

(***************************************************************************)
(* What each step of a scrape does                                         *)
(***************************************************************************)
\* The worker whose turn it is in a set.
Turn(todo) == CHOOSE w \in todo : \A v \in todo : w.id <= v.id

LEMMA TurnIsOne ==
    ASSUME NEW todo, todo \subseteq Known, todo # {}
    PROVE  Turn(todo) \in todo
  <1> DEFINE ids == {w.id : w \in todo}
  <1>1. ids \subseteq Nat /\ ids # {}
    BY DEF Known
  <1>2. PICK i \in ids : \A j \in ids : i <= j
    <2> HIDE DEF ids
    <2> QED
      BY <1>1, SmallestNat
  <1>3. \E w \in todo : \A v \in todo : w.id <= v.id
    BY <1>2
  <1> QED
    BY <1>3 DEF Turn

LEMMA OffFacts ==
    /\ Off \in ScrapeLocal /\ Off.pc = "idle" /\ Off.todo = {} /\ Off.value = None
    /\ Off.shard = 0 /\ Off.total = 0
  BY DEF Off, ScrapeLocal, Value

LEMMA GoFacts ==
    ASSUME TypeOK, NEW s \in Scrapes, NEW q \in ScrapeLocal, Go(s, q)
    PROVE  /\ scrape' \in [Scrapes -> ScrapeLocal] /\ scrape'[s] = q
           /\ \A x \in Scrapes \ {s} : scrape'[x] = scrape[x]
  BY DEF Go, TypeOK

\* A scrape moves to these locals.
Goes(s, pc, todo, value) ==
    \E q \in ScrapeLocal : Go(s, q) /\ q.pc = pc /\ q.todo = todo /\ q.value = value

LEMMA GoesFacts ==
    ASSUME TypeOK, NEW s \in Scrapes, NEW pc, NEW todo, NEW value, Goes(s, pc, todo, value)
    PROVE  /\ scrape' \in [Scrapes -> ScrapeLocal]
           /\ scrape'[s].pc = pc /\ scrape'[s].todo = todo /\ scrape'[s].value = value
           /\ \A x \in Scrapes \ {s} : scrape'[x] = scrape[x]
  BY GoFacts DEF Goes

\* A scrape is at this shard with this sum.
Counted(s, shard, total) == scrape'[s].shard = shard /\ scrape'[s].total = total

LEMMA FromOff ==
    ASSUME TypeOK, NEW s \in Scrapes, NEW todo, todo \subseteq Known,
           NEW pc \in {"health", "render"}
    PROVE  /\ Go(s, [Off EXCEPT !.pc = pc, !.todo = todo]) =>
                Goes(s, pc, todo, None) /\ Counted(s, 0, 0)
           /\ Go(s, [Off EXCEPT !.pc = pc]) => Goes(s, pc, {}, None)
  <1>1. ASSUME NEW q, q = [Off EXCEPT !.pc = pc, !.todo = todo], Go(s, q)
        PROVE  Goes(s, pc, todo, None) /\ Counted(s, 0, 0)
    <2>1. /\ q \in ScrapeLocal /\ q.pc = pc /\ q.todo = todo /\ q.value = None
          /\ q.shard = 0 /\ q.total = 0
      BY <1>1, OffFacts DEF ScrapeLocal
    <2> QED
      BY <1>1, <2>1, GoFacts DEF Goes, Counted
  <1>3. LET q == [Off EXCEPT !.pc = pc]
        IN q \in ScrapeLocal /\ q.pc = pc /\ q.todo = {} /\ q.value = None
    BY OffFacts DEF ScrapeLocal
  <1> QED
    BY <1>1, <1>3 DEF Goes

LEMMA FromCall ==
    ASSUME TypeOK, NEW s \in Scrapes, NEW value \in Value, NEW pc \in {"up", "count", "inflight"},
           Go(s, [scrape[s] EXCEPT !.pc = pc, !.value = value])
    PROVE  Goes(s, pc, scrape[s].todo, value)
  <1>1. scrape[s] \in ScrapeLocal
    BY DEF TypeOK
  <1>2. LET q == [scrape[s] EXCEPT !.pc = pc, !.value = value]
        IN q \in ScrapeLocal /\ q.pc = pc /\ q.todo = scrape[s].todo /\ q.value = value
    BY <1>1 DEF ScrapeLocal
  <1> QED
    BY <1>2 DEF Goes

LEMMA AtFacts ==
    ASSUME TypeOK, NEW s \in Scrapes
    PROVE  /\ scrape[s] \in ScrapeLocal /\ scrape[s].todo \subseteq Known
           /\ At(s) = Turn(scrape[s].todo)
           /\ scrape[s].todo # {} => At(s) \in scrape[s].todo /\ At(s).url \in Urls /\ At(s).id \in Nat
  <1>1. scrape[s] \in ScrapeLocal /\ scrape[s].todo \subseteq Known
    BY DEF TypeOK, ScrapeLocal
  <1>2. At(s) = Turn(scrape[s].todo)
    BY DEF At, Turn
  <1>3. ASSUME scrape[s].todo # {}
        PROVE  At(s) \in scrape[s].todo /\ At(s).url \in Urls /\ At(s).id \in Nat
    <2>1. At(s) \in scrape[s].todo
      BY <1>1, <1>2, <1>3, TurnIsOne
    <2> QED
      BY <1>1, <2>1 DEF Known
  <1> QED
    BY <1>1, <1>2, <1>3

\* The steps of a scrape, one by one.
LEMMA ScrapeIs ==
    ASSUME TypeOK, NEW s \in Scrapes, ScrapeSteps(s)
    PROVE  LET c == scrape[s]
               a == At(s)
           IN /\ UNCHANGED <<workers, next_id, slots, counts, entries, ready, guard>>
              /\ \/ /\ Goes(s, "health", all_workers, None) /\ Counted(s, 0, 0)
                    /\ UNCHANGED <<gauges, size>>
                 \/ /\ c.pc = "health" /\ c.todo # {}
                    /\ Goes(s, "up", c.todo, is_healthy(a.id))
                    /\ UNCHANGED <<gauges, size>>
                 \/ /\ c.pc = "up"
                    /\ Goes(s, "count", c.todo, None)
                    /\ gauges' = [gauges EXCEPT ![a.url].up = c.value] /\ UNCHANGED size
                 \/ /\ c.pc = "count"
                    /\ Goes(s, "inflight", c.todo, count(a.id))
                    /\ UNCHANGED <<gauges, size>>
                 \/ /\ c.pc = "inflight"
                    /\ Goes(s, "health", c.todo \ {a}, None) /\ Counted(s, 0, 0)
                    /\ gauges' = [gauges EXCEPT ![a.url].inflight = c.value] /\ UNCHANGED size
                 \/ /\ c.pc = "health" /\ c.todo = {} /\ c.shard \in Shards
                    /\ Goes(s, "health", {}, c.value)
                    /\ Counted(s, c.shard + 1, c.total + entries[c.shard])
                    /\ UNCHANGED <<gauges, size>>
                 \/ /\ c.pc = "health" /\ c.todo = {} /\ c.shard = NumShards
                    /\ Goes(s, "render", {}, None)
                    /\ size' = c.total /\ UNCHANGED gauges
                 \/ /\ c.pc = "render"
                    /\ Goes(s, "idle", {}, None)
                    /\ UNCHANGED <<gauges, size>>
  <1>0. UNCHANGED <<workers, next_id, slots, counts, entries, ready, guard>>
    BY DEF ScrapeSteps, registryVars, trackerVars
  <1>1. None \in Value
    BY DEF Value
  <1>2. CASE Refresh(s)
    <2>1. all_workers \subseteq Known
      BY DEF all_workers, Known, TypeOK, RegistryType, WorkerState
    <2>2. Goes(s, "health", all_workers, None) /\ Counted(s, 0, 0)
      BY <1>1, <1>2, <2>1, FromOff DEF Refresh
    <2> QED
      BY <1>0, <1>2, <2>2 DEF Refresh
  <1>3. CASE ReadHealth(s)
    <2>1. is_healthy(At(s).id) \in Value
      BY DEF is_healthy, Value
    <2>2. Goes(s, "up", scrape[s].todo, is_healthy(At(s).id))
      BY <1>3, <2>1, FromCall DEF ReadHealth
    <2> QED
      BY <1>0, <1>3, <2>2 DEF ReadHealth
  <1>4. CASE set_worker_up(s)
    <2>1. Goes(s, "count", scrape[s].todo, None)
      BY <1>1, <1>4, FromCall DEF set_worker_up
    <2> QED
      BY <1>0, <1>4, <2>1 DEF set_worker_up
  <1>5. CASE ReadCount(s)
    <2>1. count(At(s).id) \in Value
      BY <1>5, AtFacts, CountType DEF ReadCount, TypeOK, Value
    <2>2. Goes(s, "inflight", scrape[s].todo, count(At(s).id))
      BY <1>5, <2>1, FromCall DEF ReadCount
    <2> QED
      BY <1>0, <1>5, <2>2 DEF ReadCount
  <1>6. CASE set_inflight(s)
    <2>1. Goes(s, "health", scrape[s].todo \ {At(s)}, None) /\ Counted(s, 0, 0)
      BY <1>1, <1>6, AtFacts, FromOff DEF set_inflight
    <2> QED
      BY <1>0, <1>6, <2>1 DEF set_inflight
  <1>7. CASE ReadLen(s)
    <2>0. PICK c \in ScrapeLocal : c = scrape[s]
      BY DEF TypeOK
    <2>1. PICK k \in Nat, n \in Nat : k = c.shard + 1 /\ n = c.total + entries[c.shard]
      BY <1>7, <2>0 DEF ReadLen, TypeOK, ScrapeLocal
    <2>2. PICK q : q = [c EXCEPT !.shard = k, !.total = n]
      OBVIOUS
    <2>3. Go(s, q)
      BY <1>7, <2>0, <2>1, <2>2 DEF ReadLen, ScrapeLocal
    <2>4. /\ q \in ScrapeLocal /\ q.pc = c.pc /\ q.todo = c.todo /\ q.value = c.value
          /\ q.shard = k /\ q.total = n
      BY <2>0, <2>2 DEF ScrapeLocal
    <2>5. Goes(s, c.pc, c.todo, c.value) /\ Counted(s, k, n)
      BY <2>3, <2>4, GoFacts DEF Goes, Counted
    <2> QED
      BY <1>0, <1>7, <2>0, <2>1, <2>5 DEF ReadLen
  <1>8. CASE set_prefix_index_entries(s)
    <2>1. Goes(s, "render", {}, None)
      BY <1>1, <1>8, FromOff DEF set_prefix_index_entries
    <2> QED
      BY <1>0, <1>8, <2>1 DEF set_prefix_index_entries
  <1>9. CASE Render(s)
    <2>1. Goes(s, "idle", {}, None)
      BY <1>9, OffFacts DEF Render, Goes
    <2> QED
      BY <1>0, <1>9, <2>1 DEF Render
  <1> QED
    BY <1>2, <1>3, <1>4, <1>5, <1>6, <1>7, <1>8, <1>9 DEF ScrapeSteps

\* A set of gauges is written.
LEMMA GaugesWritten ==
    ASSUME TypeOK, NEW u \in Urls, NEW v \in Value
    PROVE  /\ gauges' = [gauges EXCEPT ![u].up = v] =>
                /\ gauges' \in [Urls -> [up : Value, inflight : Value]]
                /\ gauges'[u].up = v /\ gauges'[u].inflight = gauges[u].inflight
                /\ \A x \in Urls \ {u} : gauges'[x] = gauges[x]
           /\ gauges' = [gauges EXCEPT ![u].inflight = v] =>
                /\ gauges' \in [Urls -> [up : Value, inflight : Value]]
                /\ gauges'[u].inflight = v /\ gauges'[u].up = gauges[u].up
                /\ \A x \in Urls \ {u} : gauges'[x] = gauges[x]
  <1>1. gauges \in [Urls -> [up : Value, inflight : Value]]
    BY DEF TypeOK
  <1> QED
    BY <1>1

LEMMA ScrapeType ==
    ASSUME TypeOK, NEW s \in Scrapes, ScrapeSteps(s)
    PROVE  TypeOK'
  <1>1. PICK pc, todo, value : Goes(s, pc, todo, value) /\
                               (pc \in {"up", "count", "inflight"} => todo # {})
    <2> DEFINE c == scrape[s]
    <2>1. ASSUME NEW pc, NEW todo, NEW value, Goes(s, pc, todo, value),
                 pc \notin {"up", "count", "inflight"} \/ todo # {}
          PROVE  \E p, d, v : Goes(s, p, d, v) /\ (p \in {"up", "count", "inflight"} => d # {})
      BY <2>1, Zenon
    <2>2. c.pc \in {"up", "count", "inflight"} => c.todo # {}
      BY DEF TypeOK
    <2>3. \/ Goes(s, "health", all_workers, None)
          \/ c.todo # {} /\ Goes(s, "up", c.todo, is_healthy(At(s).id))
          \/ c.todo # {} /\ Goes(s, "count", c.todo, None)
          \/ c.todo # {} /\ Goes(s, "inflight", c.todo, count(At(s).id))
          \/ Goes(s, "health", c.todo \ {At(s)}, None)
          \/ Goes(s, "health", {}, c.value)
          \/ Goes(s, "render", {}, None)
          \/ Goes(s, "idle", {}, None)
      BY <2>2, ScrapeIs
    <2> HIDE DEF c
    <2> QED
      BY <2>1, <2>3
  <1>2. /\ scrape' \in [Scrapes -> ScrapeLocal]
        /\ scrape'[s].pc = pc /\ scrape'[s].todo = todo
        /\ \A x \in Scrapes \ {s} : scrape'[x] = scrape[x]
    BY <1>1, GoesFacts
  <1>3. \A x \in Scrapes : scrape'[x].pc \in {"up", "count", "inflight"} => scrape'[x].todo # {}
    BY <1>1, <1>2 DEF TypeOK
  <1>4. gauges' \in [Urls -> [up : Value, inflight : Value]]
    <2>1. CASE UNCHANGED gauges
      BY <2>1 DEF TypeOK
    <2>2. CASE scrape[s].pc \in {"up", "inflight"}
      <3>1. At(s).url \in Urls /\ scrape[s].value \in Value
        BY <2>2, AtFacts DEF TypeOK, ScrapeLocal
      <3>2. \/ gauges' = [gauges EXCEPT ![At(s).url].up = scrape[s].value]
            \/ gauges' = [gauges EXCEPT ![At(s).url].inflight = scrape[s].value]
            \/ UNCHANGED gauges
        BY ScrapeIs
      <3> QED
        BY <2>1, <3>1, <3>2, GaugesWritten
    <2> QED
      BY <2>1, <2>2, ScrapeIs
  <1>5. UNCHANGED <<workers, next_id, slots, counts, entries, ready, guard>>
    BY ScrapeIs
  <1> QED
    BY <1>2, <1>3, <1>4, <1>5 DEF TypeOK, RegistryType, TrackerType

\* The registry's count of healthy workers.
LEMMA HealthyCount ==
    ASSUME RegistryType, IsFiniteSet(DOMAIN workers)
    PROVE  /\ Cardinality(healthy_workers) \in Nat
           /\ (Cardinality(healthy_workers) > 0) <=> any_healthy
  <1>1. IsFiniteSet(healthy_workers)
    BY FS_Subset DEF healthy_workers
  <1>2. Cardinality(healthy_workers) \in Nat /\
        (Cardinality(healthy_workers) = 0 <=> healthy_workers = {})
    BY <1>1, FS_CardinalityType, FS_EmptySet
  <1> QED
    BY <1>2 DEF any_healthy

LEMMA ReadyIs ==
    ASSUME TypeOK, NEW h \in Probes, ReadySteps(h)
    PROVE  /\ UNCHANGED <<workers, next_id, slots, counts, gauges, size, scrape, entries, guard>>
           /\ ready' \in [Probes -> ReadyLocal]
           /\ \A x \in Probes \ {h} : ready'[x] = ready[x]
           /\ \/ /\ ready[h].pc = "idle" /\ ready'[h].pc = "counted"
                 /\ ready'[h].healthy_workers = Cardinality(healthy_workers)
              \/ /\ ready[h].pc = "counted" /\ ready'[h].pc = "answer"
                 /\ ready'[h].healthy_workers = ready[h].healthy_workers
                 /\ ready'[h].ok = any_healthy
              \/ ready'[h].pc = "idle"
  <1>0. ready \in [Probes -> ReadyLocal]
    BY DEF TypeOK
  <1>1. UNCHANGED <<workers, next_id, slots, counts, gauges, size, scrape, entries, guard>>
    BY DEF ReadySteps, registryVars, trackerVars, gaugeVars
  <1>2. CASE ReadyCount(h)
    <2>1. PICK n \in Nat : n = Cardinality(healthy_workers)
      BY HealthyCount DEF TypeOK
    <2> DEFINE q == [NoCall EXCEPT !.pc = "counted", !.healthy_workers = n]
    <2>2. q \in ReadyLocal /\ q.pc = "counted" /\ q.healthy_workers = n
      BY DEF NoCall, ReadyLocal
    <2>3. ready[h].pc = "idle" /\ ready' = [ready EXCEPT ![h] = q]
      BY <1>2, <2>1 DEF ReadyCount
    <2> HIDE DEF q
    <2> QED
      BY <1>0, <1>1, <2>1, <2>2, <2>3
  <1>3. CASE ReadyStatus(h)
    <2>1. PICK b \in BOOLEAN : b = any_healthy
      BY DEF any_healthy
    <2>2. ready[h].pc = "counted" /\ ready' = [ready EXCEPT ![h].pc = "answer", ![h].ok = b]
      BY <1>3, <2>1 DEF ReadyStatus
    <2>3. /\ ready' \in [Probes -> ReadyLocal] /\ ready'[h].pc = "answer" /\ ready'[h].ok = b
          /\ ready'[h].healthy_workers = ready[h].healthy_workers
          /\ \A x \in Probes \ {h} : ready'[x] = ready[x]
      BY <1>0, <2>2 DEF ReadyLocal
    <2> QED
      BY <1>1, <2>1, <2>2, <2>3
  <1>4. CASE ReadyAnswer(h)
    <2>1. NoCall \in ReadyLocal /\ NoCall.pc = "idle"
      BY DEF NoCall, ReadyLocal
    <2> QED
      BY <1>0, <1>1, <1>4, <2>1 DEF ReadyAnswer
  <1> QED
    BY <1>2, <1>3, <1>4 DEF ReadySteps

LEMMA TypeStep == TypeOK /\ [Next]_vars => TypeOK'
  <1> SUFFICES ASSUME TypeOK, [Next]_vars PROVE TypeOK'
    OBVIOUS
  <1>1. ASSUME NEW h \in Probes, ReadySteps(h) PROVE TypeOK'
    BY <1>1, ReadyIs DEF TypeOK, RegistryType, TrackerType
  <1>2. CASE UNCHANGED vars
    BY <1>2 DEF vars, registryVars, trackerVars, gaugeVars, TypeOK, RegistryType, TrackerType
  <1> QED
    BY <1>1, <1>2, ScrapeType, OthersType DEF Next

LEMMA TypesAlways == Spec => []TypeOK
  <1>1. Init => TypeOK
    <2> SUFFICES ASSUME Init PROVE TypeOK
      OBVIOUS
    <2>1. Len(StaticWorkers) \in Nat /\ StaticIds \subseteq Nat /\ IsFiniteSet(StaticIds)
      BY StaticWorkersAssumption, FS_Interval DEF StaticIds
    <2>2. RegistryType /\ IsFiniteSet(DOMAIN workers)
      <3>1. \A id \in StaticIds : StaticWorkers[id + 1] \in [url : Urls, pool : Pool]
        <4>1. ASSUME NEW S, StaticWorkers \in Seq(S), NEW id \in StaticIds
              PROVE  StaticWorkers[id + 1] \in S
          BY <4>1, <2>1 DEF StaticIds
        <4> QED
          BY <4>1, StaticWorkersAssumption
      <3>2. DOMAIN workers = StaticIds /\ next_id = Len(StaticWorkers)
        BY DEF Init, from_config
      <3>3. \A id \in StaticIds : workers[id] \in WorkerState
        BY <3>1 DEF Init, from_config, WorkerState
      <3> QED
        BY <2>1, <3>2, <3>3 DEF RegistryType
    <2>3. TrackerType
      BY <2>1, CountModAssumption DEF Init, with_capacity, TrackerType
    <2>4. NoCall \in ReadyLocal
      BY DEF NoCall, ReadyLocal
    <2>5. gauges \in [Urls -> [up : Value, inflight : Value]]
      <3>1. None \in Value
        BY DEF Value
      <3> QED
        BY <3>1 DEF Init
    <2>6. \A s \in Scrapes : scrape[s].pc \in {"up", "count", "inflight"} => scrape[s].todo # {}
      BY OffFacts DEF Init
    <2> QED
      BY <2>2, <2>3, <2>4, <2>5, <2>6, OffFacts DEF Init, TypeOK
  <1> QED
    BY <1>1, TypeStep, PTL DEF Spec

(***************************************************************************)
(* Honest readiness                                                        *)
(***************************************************************************)
LEMMA ReadyStep ==
    TypeOK /\ (\A h \in Probes : ReadyInv(h)) /\ [Next]_vars => (\A h \in Probes : ReadyInv(h))'
  <1> SUFFICES ASSUME TypeOK, \A h \in Probes : ReadyInv(h), [Next]_vars, NEW h \in Probes
               PROVE  ReadyInv(h)'
    OBVIOUS
  <1>0. ReadyInv(h)
    OBVIOUS
  <1>1. CASE UNCHANGED vars
    <2>1. UNCHANGED <<workers, ready, any>>
      BY <1>1 DEF vars, registryVars
    <2> QED
      BY <1>0, <2>1 DEF ReadyInv, any_healthy, healthy_workers
  <1>2. CASE Next
    <2>1. any'[h] = IF ready'[h].pc = "idle" THEN {}
                    ELSE IF ready'[h].pc = "answer" /\ ready[h].pc = "answer" THEN any[h]
                    ELSE any[h] \cup {any_healthy'}
      BY <1>2 DEF Next, Observe
    <2>2. CASE ready'[h] = ready[h]
      BY <1>0, <2>1, <2>2 DEF ReadyInv
    <2>3. CASE ReadySteps(h)
      <3>1. any_healthy' = any_healthy
        BY <2>3, ReadyIs DEF any_healthy, healthy_workers
      <3>2. CASE ready[h].pc = "idle" /\ ready'[h].pc = "counted" /\
                 ready'[h].healthy_workers = Cardinality(healthy_workers)
        <4>1. any_healthy \in any'[h]
          BY <2>1, <3>1, <3>2
        <4>2. (ready'[h].healthy_workers > 0) = any_healthy
          BY <3>2, HealthyCount DEF TypeOK, any_healthy
        <4> QED
          BY <3>1, <3>2, <4>1, <4>2 DEF ReadyInv
      <3>3. CASE /\ ready[h].pc = "counted" /\ ready'[h].pc = "answer"
                 /\ ready'[h].healthy_workers = ready[h].healthy_workers
                 /\ ready'[h].ok = any_healthy
        <4>1. any[h] \subseteq any'[h]
          BY <2>1, <3>3
        <4> QED
          BY <1>0, <3>3, <4>1 DEF ReadyInv
      <3>4. CASE ready'[h].pc = "idle"
        BY <3>4 DEF ReadyInv
      <3> QED
        BY <2>3, <3>2, <3>3, <3>4, ReadyIs
    <2>4. \/ \E s \in Scrapes : ScrapeSteps(s)
          \/ \E x \in Probes : ReadySteps(x)
          \/ Others
      BY <1>2 DEF Next
    <2>5. ASSUME NEW x \in Probes \ {h}, ReadySteps(x) PROVE ready'[h] = ready[h]
      BY <2>5, ReadyIs
    <2>6. ASSUME (\E s \in Scrapes : ScrapeSteps(s)) \/ Others PROVE ready'[h] = ready[h]
      BY <2>6 DEF ScrapeSteps, Others
    <2> QED
      BY <2>2, <2>3, <2>4, <2>5, <2>6
  <1> QED
    BY <1>1, <1>2

\* However registrations and health changes interleave with a probe: if some worker was
\* healthy throughout the call, both the count and the status code of /ready say so, and
\* if none was, neither claims one. Nothing is said of the body's constant word.
THEOREM ReadinessIsHonest == Spec => []ReadyHonest
  <1>1. Init => \A h \in Probes : ReadyInv(h)
    BY DEF Init, ReadyInv, NoCall
  <1>2. TypeOK /\ (\A h \in Probes : ReadyInv(h)) => ReadyHonest
    <2> SUFFICES ASSUME NEW h \in Probes, ReadyInv(h), ready[h].pc = "answer",
                        NEW b \in BOOLEAN, any[h] = {b}
                 PROVE  ready[h].ok = b /\ (ready[h].healthy_workers > 0) = b
      BY DEF ReadyHonest
    <2> QED
      BY DEF ReadyInv
  <1> QED
    BY <1>1, <1>2, ReadyStep, TypesAlways, PTL DEF Spec

(***************************************************************************)
(* Fresh gauges                                                            *)
(***************************************************************************)
\* No shard adds nothing.
LEMMA NothingCounted ==
    ASSUME NEW sizes
    PROVE  PartSum(sizes, 0, 0)
  <1>1. 0 .. 0 - 1 = {}
    OBVIOUS
  <1>2. PICK f : f = [i \in {} |-> 0]
    OBVIOUS
  <1>3. Total(f, 0 .. 0 - 1) = 0 /\ \A i \in 0 .. 0 - 1 : f[i] \in sizes[i]
    BY <1>1, TotalEmpty
  <1>4. 0 \in 0 .. NumShards
    BY ExpositionAssumption
  <1> QED
    BY <1>3, <1>4 DEF PartSum

\* One more shard is read.
LEMMA OneCounted ==
    ASSUME NEW sizes, \A i \in Shards : sizes[i] \subseteq Nat, NEW k \in Shards, NEW n,
           PartSum(sizes, k, n), NEW v \in sizes[k]
    PROVE  PartSum(sizes, k + 1, n + v)
  <1>1. PICK f : (\A i \in 0 .. k - 1 : f[i] \in sizes[i]) /\ n = Total(f, 0 .. k - 1)
    BY DEF PartSum
  <1>2. PICK S : S = 0 .. k - 1
    OBVIOUS
  <1>3. /\ k \in Nat /\ v \in Nat /\ k \notin S /\ S \cup {k} = 0 .. (k + 1) - 1
        /\ k + 1 \in 0 .. NumShards /\ S \subseteq Shards
    BY <1>2, ExpositionAssumption DEF Shards
  <1>4. IsFiniteSet(S)
    <2>1. k - 1 \in Int /\ 0 \in Int
      BY <1>3
    <2> QED
      BY <1>2, <2>1, FS_Interval
  <1>5. PICK g : g = [i \in S \cup {k} |-> IF i = k THEN v ELSE f[i]]
    OBVIOUS
  <1>6. g[k] = v /\ \A i \in S : g[i] = f[i] /\ f[i] \in sizes[i] /\ f[i] \in Nat
    BY <1>1, <1>2, <1>3, <1>5
  <1>7. Total(g, S \cup {k}) = v + Total(f, S) /\ Total(f, S) \in Nat
    BY <1>3, <1>4, <1>6, TotalJoin, TotalNat
  <1>8. n + v = Total(g, S \cup {k})
    BY <1>1, <1>2, <1>3, <1>7
  <1>9. \A i \in S \cup {k} : g[i] \in sizes[i]
    BY <1>6
  <1> QED
    BY <1>3, <1>8, <1>9 DEF PartSum

\* Once every shard is read the sum is one of the whole index.
LEMMA AllCounted ==
    ASSUME NEW sizes, NEW n, PartSum(sizes, NumShards, n)
    PROVE  SumsTo(sizes, n)
  <1>1. PICK f : (\A i \in Shards : f[i] \in sizes[i]) /\ n = Total(f, Shards)
    BY DEF PartSum, Shards
  <1>2. IsFiniteSet(Shards)
    BY FS_Interval, ExpositionAssumption DEF Shards
  <1>3. PICK g : g = [i \in Shards |-> f[i]]
    OBVIOUS
  <1>4. g \in [Shards -> UNION {sizes[i] : i \in Shards}] /\ \A i \in Shards : g[i] \in sizes[i]
    BY <1>1, <1>3
  <1>5. Total(g, Shards) = n
    <2>1. \A i \in Shards : g[i] = f[i]
      BY <1>3
    <2> QED
      BY <1>1, <1>2, <2>1, TotalSame
  <1>6. n = MapThenSumSet(LAMBDA i : g[i], Shards)
    BY <1>2, <1>5, SumIs, Zenon
  <1> QED
    BY <1>4, <1>6, Zenon DEF SumsTo

\* A sum stays one when more sizes have been seen.
LEMMA SumsGrow ==
    ASSUME NEW A, NEW B, \A i \in Shards : A[i] \subseteq B[i], NEW n
    PROVE  /\ SumsTo(A, n) => SumsTo(B, n)
           /\ \A k : PartSum(A, k, n) => PartSum(B, k, n)
  <1>1. ASSUME SumsTo(A, n) PROVE SumsTo(B, n)
    <2>1. PICK f \in [Shards -> UNION {A[i] : i \in Shards}] :
            /\ \A i \in Shards : f[i] \in A[i]
            /\ n = MapThenSumSet(LAMBDA i : f[i], Shards)
      BY <1>1, Zenon DEF SumsTo
    <2>2. f \in [Shards -> UNION {B[i] : i \in Shards}] /\ \A i \in Shards : f[i] \in B[i]
      <3>1. f = [i \in Shards |-> f[i]] /\ \A i \in Shards : f[i] \in A[i]
        BY <2>1
      <3> QED
        BY <3>1
    <2> QED
      BY <2>1, <2>2, Zenon DEF SumsTo
  <1>2. ASSUME NEW k, PartSum(A, k, n) PROVE PartSum(B, k, n)
    <2>1. k \in 0 .. NumShards /\ 0 .. k - 1 \subseteq Shards
      BY <1>2, ExpositionAssumption DEF PartSum, Shards
    <2> QED
      BY <1>2, <2>1 DEF PartSum
  <1> QED
    BY <1>1, <1>2

\* What a step adds to what was seen.
Grown ==
    /\ \A i \in Shards : seen.size[i] \subseteq seen'.size[i]
    /\ \A u \in Urls : seen.up[u] \subseteq seen'.up[u] /\ seen.load[u] \subseteq seen'.load[u]
    /\ seen.churned \subseteq seen'.churned
    /\ \A u \in Urls \ seen'.churned : Of(u) \subseteq Of(u)'

LEMMA Observed ==
    ASSUME Observe, Running'
    PROVE  Grown /\ SeenInv'
  <1> DEFINE up == [u \in Urls |-> seen.up[u] \cup {workers'[w].healthy : w \in Of(u)'}]
             load == [u \in Urls |-> seen.load[u] \cup {count(w)' : w \in Of(u)'}]
             sizes == [i \in Shards |-> seen.size[i] \cup {entries'[i]}]
             churned == seen.churned \cup
                          {u \in Urls : Of(u)' = {} \/ ~(Of(u) \subseteq Of(u)')}
  <1>1. seen' = [up |-> up, load |-> load, size |-> sizes, churned |-> churned]
    BY DEF Observe, Running
  <1>2. /\ \A u \in Urls : /\ seen.up[u] \subseteq up[u] /\ seen.load[u] \subseteq load[u]
                           /\ \A w \in Of(u)' : workers'[w].healthy \in up[u] /\ count(w)' \in load[u]
        /\ \A i \in Shards : seen.size[i] \subseteq sizes[i] /\ entries'[i] \in sizes[i]
        /\ seen.churned \subseteq churned
        /\ \A u \in Urls : u \notin churned => Of(u)' # {} /\ Of(u) \subseteq Of(u)'
    OBVIOUS
  <1> HIDE DEF up, load, sizes, churned
  <1>3. seen'.up = up /\ seen'.load = load /\ seen'.size = sizes /\ seen'.churned = churned
    BY <1>1
  <1>4. Grown
    BY <1>2, <1>3 DEF Grown
  <1>5. SeenInv'
    BY <1>2, <1>3 DEF SeenInv
  <1> QED
    BY <1>4, <1>5

\* The gauges that are not what they were hold values that were seen.
Written ==
    /\ size' = size \/ SumsTo(seen.size, size')
    /\ \A u \in Urls : u \notin seen.churned =>
         /\ gauges'[u].up = gauges[u].up \/ gauges'[u].up \in seen.up[u]
         /\ gauges'[u].inflight = gauges[u].inflight \/ gauges'[u].inflight \in seen.load[u]

LEMMA FreshKept ==
    ASSUME Grown, Written, NEW u \in Urls, u \notin seen'.churned
    PROVE  /\ u \notin seen.churned
           /\ UpFresh(u) => UpFresh(u)'
           /\ LoadFresh(u) => LoadFresh(u)'
  BY DEF Grown, Written, UpFresh, LoadFresh

\* A scrape whose thread does not move.
LEMMA ScrapeKept ==
    ASSUME TypeOK, Grown, Written, NEW s \in Scrapes, ScrapeInv(s), scrape'[s] = scrape[s]
    PROVE  ScrapeInv(s)'
  <1> DEFINE c == scrape[s]
             a == At(s)
  <1>0. /\ c.todo \subseteq Known /\ At(s)' = a
        /\ c.pc \in {"up", "count", "inflight"} => a.url \in Urls
    BY AtFacts DEF At, TypeOK
  <1>1. c.pc = "health" => PartSum(seen'.size, c.shard, c.total)
    <2>1. PICK A, B : A = seen.size /\ B = seen'.size
      OBVIOUS
    <2>2. \A n : \A k : PartSum(A, k, n) => PartSum(B, k, n)
      BY <2>1, SumsGrow DEF Grown
    <2> QED
      BY <2>1, <2>2 DEF ScrapeInv
  <1>2. c.pc = "render" => SumsTo(seen'.size, size')
    <2>1. PICK A, B : A = seen.size /\ B = seen'.size
      OBVIOUS
    <2>2. \A n : SumsTo(A, n) => SumsTo(B, n)
      BY <2>1, SumsGrow DEF Grown
    <2>3. c.pc = "render" => SumsTo(A, size')
      BY <2>1 DEF ScrapeInv, Written
    <2> QED
      BY <2>1, <2>2, <2>3
  <1>3. ASSUME NEW w \in c.todo, w.url \notin seen'.churned PROVE w.id \in Of(w.url)'
    <2>1. w.url \in Urls
      BY <1>0 DEF Known
    <2>2. w.url \notin seen.churned /\ Of(w.url) \subseteq Of(w.url)'
      BY <1>3, <2>1 DEF Grown
    <2>3. w.id \in Of(w.url)
      BY <2>2 DEF ScrapeInv
    <2> QED
      BY <2>2, <2>3
  <1>4. ASSUME c.pc \in {"up", "count", "inflight"}, a.url \notin seen'.churned
        PROVE  /\ c.pc = "up" => c.value \in seen'.up[a.url]
               /\ c.pc = "inflight" => c.value \in seen'.load[a.url]
               /\ c.pc \in {"count", "inflight"} => UpFresh(a.url)'
    <2>1. /\ a.url \in Urls /\ a.url \notin seen.churned
          /\ seen.up[a.url] \subseteq seen'.up[a.url]
          /\ seen.load[a.url] \subseteq seen'.load[a.url]
          /\ UpFresh(a.url) => UpFresh(a.url)'
      BY <1>0, <1>4, FreshKept DEF Grown
    <2> QED
      BY <1>4, <2>1 DEF ScrapeInv
  <1>5. ASSUME NEW u \in Urls \ seen'.churned
        PROVE  (\E w \in c.todo : w.url = u) \/ (UpFresh(u)' /\ LoadFresh(u)')
    BY <1>5, FreshKept DEF ScrapeInv
  <1> QED
    BY <1>0, <1>1, <1>2, <1>3, <1>4, <1>5 DEF ScrapeInv

\* A step of a scrape writes only what was seen, and keeps its own invariant.
LEMMA ScrapeFresh ==
    ASSUME TypeOK, FreshInv, NEW s \in Scrapes, ScrapeSteps(s), Grown, SeenInv', SizesNat'
    PROVE  Written /\ (scrape'[s].pc # "idle" => ScrapeInv(s)')
  <1> DEFINE c == scrape[s]
  <1>a. PICK a : a = At(s)
    OBVIOUS
  <1>0. /\ UNCHANGED <<workers, slots, counts, entries>>
        /\ \A u : Of(u)' = Of(u)
    BY ScrapeIs DEF Of
  <1>1. /\ c \in ScrapeLocal /\ c.todo \subseteq Known /\ a = Turn(c.todo)
        /\ At(s)' = Turn(scrape'[s].todo)
        /\ c.todo # {} => a \in c.todo /\ a.url \in Urls
        /\ c.pc \in {"up", "count", "inflight"} => c.todo # {}
    BY <1>a, AtFacts DEF TypeOK, At, Turn
  <1>2. ASSUME c.pc # "idle" PROVE SeenInv /\ ScrapeInv(s)
    BY <1>2 DEF FreshInv, Running
  <1>3. ASSUME UNCHANGED <<gauges, size>> PROVE Written
    BY <1>3 DEF Written
  <1>4. ASSUME NEW u \in Urls, u \notin seen'.churned
        PROVE  /\ u \notin seen.churned /\ Of(u) # {}
               /\ seen.up[u] \subseteq seen'.up[u] /\ seen.load[u] \subseteq seen'.load[u]
    BY <1>0, <1>4 DEF Grown, SeenInv
  \* the workers left in a part of todo are registered
  <1>5. ASSUME NEW d, d \subseteq c.todo, c.pc # "idle", NEW w \in d, w.url \notin seen'.churned
        PROVE  w.id \in Of(w.url)'
    <2>1. w.url \in Urls
      BY <1>1, <1>5 DEF Known
    <2> QED
      BY <1>0, <1>2, <1>4, <1>5, <2>1 DEF ScrapeInv
  <1>6. CASE /\ Goes(s, "health", all_workers, None) /\ Counted(s, 0, 0)
             /\ UNCHANGED <<gauges, size>>
    <2>0. PartSum(seen'.size, scrape'[s].shard, scrape'[s].total)
      BY <1>6, NothingCounted DEF Counted
    <2>1. scrape'[s].pc = "health" /\ scrape'[s].todo = all_workers
      BY <1>6, GoesFacts
    <2>2. \A w \in all_workers : w.id \in Of(w.url)'
      BY <1>0 DEF all_workers, Of
    <2>3. ASSUME NEW u \in Urls \ seen'.churned PROVE \E w \in all_workers : w.url = u
      <3>1. PICK id : id \in Of(u)
        BY <1>4, <2>3
      <3>2. [id |-> id, url |-> workers[id].url] \in all_workers /\ workers[id].url = u
        BY <3>1 DEF all_workers, Of
      <3> QED
        BY <3>2
    <2>4. ScrapeInv(s)'
      BY <2>0, <2>1, <2>2, <2>3 DEF ScrapeInv
    <2> QED
      BY <1>3, <1>6, <2>4
  <1>7. CASE /\ c.pc = "health" /\ c.todo # {} /\ Goes(s, "up", c.todo, is_healthy(a.id))
             /\ UNCHANGED <<gauges, size>>
    <2>0. Written
      BY <1>3, <1>7
    <2>1. /\ scrape'[s].pc = "up" /\ scrape'[s].todo = c.todo
          /\ scrape'[s].value = is_healthy(a.id) /\ At(s)' = a
      BY <1>1, <1>7, GoesFacts
    <2>2. \A w \in c.todo : w.url \notin seen'.churned => w.id \in Of(w.url)'
      BY <1>5, <1>7
    <2>3. ASSUME a.url \notin seen'.churned PROVE is_healthy(a.id) \in seen'.up[a.url]
      <3>1. a \in c.todo /\ a.url \in Urls /\ a.id \in Of(a.url)
        BY <1>0, <1>1, <1>7, <2>2, <2>3
      <3>2. workers[a.id].healthy \in seen.up[a.url]
        BY <1>2, <1>7, <3>1 DEF SeenInv
      <3>3. is_healthy(a.id) = workers[a.id].healthy
        BY <3>1 DEF is_healthy, Of, TypeOK, RegistryType, WorkerState
      <3> QED
        BY <1>4, <2>3, <3>1, <3>2, <3>3
    <2>4. ASSUME NEW u \in Urls \ seen'.churned
          PROVE  (\E w \in c.todo : w.url = u) \/ (UpFresh(u)' /\ LoadFresh(u)')
      BY <1>2, <1>7, <2>0, <2>4, FreshKept DEF ScrapeInv
    <2>5. ScrapeInv(s)'
      BY <2>1, <2>2, <2>3, <2>4 DEF ScrapeInv
    <2> QED
      BY <2>0, <2>5
  <1>8. CASE /\ c.pc = "up" /\ Goes(s, "count", c.todo, None)
             /\ gauges' = [gauges EXCEPT ![a.url].up = c.value] /\ UNCHANGED size
    <2>1. scrape'[s].pc = "count" /\ scrape'[s].todo = c.todo /\ At(s)' = a
      BY <1>1, <1>8, GoesFacts
    <2>2. /\ a.url \in Urls /\ gauges'[a.url].up = c.value
          /\ gauges'[a.url].inflight = gauges[a.url].inflight
          /\ \A x \in Urls \ {a.url} : gauges'[x] = gauges[x]
      <3>1. a.url \in Urls /\ c.value \in Value
        BY <1>1, <1>8 DEF ScrapeLocal
      <3> QED
        BY <1>8, <3>1, GaugesWritten
    <2>3. a.url \notin seen.churned => c.value \in seen.up[a.url]
      BY <1>2, <1>8, <1>a DEF ScrapeInv
    <2>4. Written
      BY <1>8, <2>2, <2>3 DEF Written
    <2>5. \A w \in c.todo : w.url \notin seen'.churned => w.id \in Of(w.url)'
      BY <1>5, <1>8
    <2>6. a.url \notin seen'.churned => UpFresh(a.url)'
      BY <1>4, <2>2, <2>3 DEF UpFresh
    <2>7. ASSUME NEW u \in Urls \ seen'.churned
          PROVE  (\E w \in c.todo : w.url = u) \/ (UpFresh(u)' /\ LoadFresh(u)')
      BY <1>2, <1>8, <2>4, <2>7, FreshKept DEF ScrapeInv
    <2>8. ScrapeInv(s)'
      BY <2>1, <2>5, <2>6, <2>7 DEF ScrapeInv
    <2> QED
      BY <2>4, <2>8
  <1>9. CASE /\ c.pc = "count" /\ Goes(s, "inflight", c.todo, count(a.id))
             /\ UNCHANGED <<gauges, size>>
    <2>0. Written
      BY <1>3, <1>9
    <2>1. /\ scrape'[s].pc = "inflight" /\ scrape'[s].todo = c.todo
          /\ scrape'[s].value = count(a.id) /\ At(s)' = a
      BY <1>1, <1>9, GoesFacts
    <2>2. \A w \in c.todo : w.url \notin seen'.churned => w.id \in Of(w.url)'
      BY <1>5, <1>9
    <2>3. ASSUME a.url \notin seen'.churned
          PROVE  count(a.id) \in seen'.load[a.url] /\ UpFresh(a.url)'
      <3>1. a \in c.todo /\ a.url \in Urls /\ a.id \in Of(a.url)
        BY <1>0, <1>1, <1>9, <2>2, <2>3
      <3>2. count(a.id) \in seen.load[a.url]
        BY <1>2, <1>9, <3>1 DEF SeenInv
      <3>3. a.url \notin seen.churned /\ UpFresh(a.url)
        BY <1>2, <1>4, <1>9, <2>3, <3>1, <1>a DEF ScrapeInv
      <3> QED
        BY <1>4, <2>0, <2>3, <3>1, <3>2, <3>3, FreshKept
    <2>4. ASSUME NEW u \in Urls \ seen'.churned
          PROVE  (\E w \in c.todo : w.url = u) \/ (UpFresh(u)' /\ LoadFresh(u)')
      BY <1>2, <1>9, <2>0, <2>4, FreshKept DEF ScrapeInv
    <2>5. ScrapeInv(s)'
      BY <2>1, <2>2, <2>3, <2>4 DEF ScrapeInv
    <2> QED
      BY <2>0, <2>5
  <1>10. CASE /\ c.pc = "inflight" /\ Goes(s, "health", c.todo \ {a}, None) /\ Counted(s, 0, 0)
              /\ gauges' = [gauges EXCEPT ![a.url].inflight = c.value] /\ UNCHANGED size
    <2>0. PartSum(seen'.size, scrape'[s].shard, scrape'[s].total)
      BY <1>10, NothingCounted DEF Counted
    <2>1. scrape'[s].pc = "health" /\ scrape'[s].todo = c.todo \ {a}
      BY <1>10, GoesFacts
    <2>2. /\ a.url \in Urls /\ gauges'[a.url].inflight = c.value
          /\ gauges'[a.url].up = gauges[a.url].up
          /\ \A x \in Urls \ {a.url} : gauges'[x] = gauges[x]
      <3>1. a.url \in Urls /\ c.value \in Value
        BY <1>1, <1>10 DEF ScrapeLocal
      <3> QED
        BY <1>10, <3>1, GaugesWritten
    <2>3. a.url \notin seen.churned => c.value \in seen.load[a.url] /\ UpFresh(a.url)
      BY <1>2, <1>10, <1>a DEF ScrapeInv
    <2>4. Written
      BY <1>10, <2>2, <2>3 DEF Written
    <2>5. \A w \in c.todo \ {a} : w.url \notin seen'.churned => w.id \in Of(w.url)'
      BY <1>5, <1>10
    <2>6. ASSUME NEW u \in Urls \ seen'.churned
          PROVE  (\E w \in c.todo \ {a} : w.url = u) \/ (UpFresh(u)' /\ LoadFresh(u)')
      <3>1. CASE u = a.url
        <4>1. c.value \in seen'.load[u] /\ UpFresh(u)
          BY <1>4, <2>3, <2>6, <3>1
        <4> QED
          BY <2>2, <2>4, <2>6, <3>1, <4>1, FreshKept DEF LoadFresh
      <3>2. CASE u # a.url
        <4>1. (\E w \in c.todo : w.url = u) \/ (UpFresh(u) /\ LoadFresh(u))
          BY <1>2, <1>4, <1>10, <2>6 DEF ScrapeInv
        <4> QED
          BY <2>4, <2>6, <3>2, <4>1, FreshKept
      <3> QED
        BY <3>1, <3>2
    <2>7. ScrapeInv(s)'
      BY <2>0, <2>1, <2>5, <2>6 DEF ScrapeInv
    <2> QED
      BY <2>4, <2>7
  <1>11. CASE /\ c.pc = "health" /\ c.todo = {} /\ c.shard \in Shards
              /\ Goes(s, "health", {}, c.value)
              /\ Counted(s, c.shard + 1, c.total + entries[c.shard])
              /\ UNCHANGED <<gauges, size>>
    <2>0. Written
      BY <1>3, <1>11
    <2>1. scrape'[s].pc = "health" /\ scrape'[s].todo = {}
      BY <1>11, GoesFacts
    <2>2. PICK A, B, k, n : A = seen.size /\ B = seen'.size /\ k = c.shard /\ n = c.total
      OBVIOUS
    <2>3. /\ PartSum(A, k, n) /\ k \in Shards /\ entries[k] \in B[k]
          /\ \A i \in Shards : A[i] \subseteq B[i]
      BY <1>0, <1>2, <1>11, <2>2 DEF ScrapeInv, SeenInv, Grown
    <2>4. \A i \in Shards : B[i] \subseteq Nat
      BY <2>2 DEF SizesNat
    <2>5. PartSum(B, k, n)
      BY <2>3, SumsGrow
    <2>6. PartSum(B, k + 1, n + entries[k])
      BY <2>3, <2>4, <2>5, OneCounted
    <2>7. PartSum(seen'.size, scrape'[s].shard, scrape'[s].total)
      BY <1>11, <2>2, <2>6 DEF Counted
    <2>8. ASSUME NEW u \in Urls \ seen'.churned PROVE UpFresh(u)' /\ LoadFresh(u)'
      BY <1>2, <1>11, <2>0, <2>8, FreshKept DEF ScrapeInv
    <2>9. ScrapeInv(s)'
      BY <2>1, <2>7, <2>8 DEF ScrapeInv
    <2> QED
      BY <2>0, <2>9
  <1>12. CASE /\ c.pc = "health" /\ c.todo = {} /\ c.shard = NumShards
              /\ Goes(s, "render", {}, None)
              /\ size' = c.total /\ UNCHANGED gauges
    <2>1. scrape'[s].pc = "render" /\ scrape'[s].todo = {}
      BY <1>12, GoesFacts
    <2>2. PICK A, B, n : A = seen.size /\ B = seen'.size /\ n = c.total
      OBVIOUS
    <2>3. PartSum(A, NumShards, n) /\ \A i \in Shards : A[i] \subseteq B[i]
      BY <1>2, <1>12, <2>2 DEF ScrapeInv, Grown
    <2>4. SumsTo(A, n) /\ SumsTo(B, n)
      BY <2>3, AllCounted, SumsGrow
    <2>5. Written /\ SumsTo(seen'.size, size')
      BY <1>12, <2>2, <2>4 DEF Written
    <2>6. ASSUME NEW u \in Urls \ seen'.churned PROVE UpFresh(u)' /\ LoadFresh(u)'
      BY <1>2, <1>12, <2>5, <2>6, FreshKept DEF ScrapeInv
    <2>7. ScrapeInv(s)'
      BY <2>1, <2>5, <2>6 DEF ScrapeInv
    <2> QED
      BY <2>5, <2>7
  <1>13. CASE Goes(s, "idle", {}, None) /\ UNCHANGED <<gauges, size>>
    BY <1>3, <1>13, GoesFacts
  <1> QED
    BY <1>6, <1>7, <1>8, <1>9, <1>10, <1>11, <1>12, <1>13, ScrapeIs, <1>a

LEMMA SizesStep == TypeOK' /\ SizesNat /\ [Next]_vars => SizesNat'
  <1> SUFFICES ASSUME TypeOK', SizesNat, [Next]_vars, NEW i \in Shards
               PROVE  seen'.size[i] \subseteq Nat
    BY DEF SizesNat
  <1>1. seen.size[i] \subseteq Nat /\ entries'[i] \in Nat
    BY DEF SizesNat, TypeOK
  <1>2. CASE seen' = seen
    BY <1>1, <1>2
  <1>3. CASE seen' = Unseen
    BY <1>3 DEF Unseen
  <1>4. CASE seen'.size = [j \in Shards |-> seen.size[j] \cup {entries'[j]}]
    BY <1>1, <1>4
  <1>5. CASE Next
    <2>1. ASSUME NEW up, NEW load, NEW sizes, NEW churned,
                 seen' = [up |-> up, load |-> load, size |-> sizes, churned |-> churned]
          PROVE  seen'.size = sizes
      BY <2>1
    <2>2. \/ seen' = Unseen
          \/ \E up, load, churned :
               seen' = [up |-> up, load |-> load,
                        size |-> [j \in Shards |-> seen.size[j] \cup {entries'[j]}],
                        churned |-> churned]
      BY <1>5, Zenon DEF Next, Observe
    <2> QED
      BY <1>3, <1>4, <2>1, <2>2
  <1> QED
    BY <1>2, <1>5 DEF vars

LEMMA FreshStep == TypeOK /\ FreshInv /\ [Next]_vars => FreshInv'
  <1> SUFFICES ASSUME TypeOK, FreshInv, [Next]_vars, Running'
               PROVE  SeenInv' /\ \A s \in Scrapes : scrape'[s].pc # "idle" => ScrapeInv(s)'
    BY SizesStep, TypeStep DEF FreshInv
  <1>0. SizesNat'
    BY SizesStep, TypeStep DEF FreshInv
  <1>1. CASE UNCHANGED vars
    <2>1. UNCHANGED <<workers, slots, counts, gauges, size, scrape, entries, seen>>
      BY <1>1 DEF vars, registryVars, trackerVars, gaugeVars
    <2>2. Running /\ SeenInv /\ SeenInv'
      BY <2>1 DEF FreshInv, Running, SeenInv, Of, count
    <2>3. ASSUME NEW s \in Scrapes, scrape'[s].pc # "idle" PROVE ScrapeInv(s)'
      <3>1. ScrapeInv(s)
        BY <2>1, <2>2, <2>3 DEF FreshInv
      <3>2. Grown /\ Written
        BY <2>1 DEF Grown, Written, Of
      <3> QED
        BY <2>1, <3>1, <3>2, ScrapeKept
    <2> QED
      BY <2>2, <2>3
  <1>2. CASE Next
    <2>1. Grown /\ SeenInv'
      BY <1>2, Observed DEF Next
    <2>2. ASSUME Written, NEW s \in Scrapes, scrape'[s] = scrape[s], scrape'[s].pc # "idle"
          PROVE  ScrapeInv(s)'
      <3>1. ScrapeInv(s)
        BY <2>2 DEF FreshInv, Running
      <3> QED
        BY <2>1, <2>2, <3>1, ScrapeKept
    <2>3. ASSUME NEW s \in Scrapes, ScrapeSteps(s)
          PROVE  \A x \in Scrapes : scrape'[x].pc # "idle" => ScrapeInv(x)'
      <3>1. Written /\ (scrape'[s].pc # "idle" => ScrapeInv(s)')
        BY <1>0, <2>1, <2>3, ScrapeFresh
      <3>2. \A x \in Scrapes \ {s} : scrape'[x] = scrape[x]
        BY <2>3, ScrapeIs, GoesFacts
      <3> QED
        BY <2>2, <3>1, <3>2
    <2>4. ASSUME (\E h \in Probes : ReadySteps(h)) \/ Others
          PROVE  \A x \in Scrapes : scrape'[x].pc # "idle" => ScrapeInv(x)'
      <3>1. UNCHANGED <<gauges, size, scrape>>
        BY <2>4 DEF ReadySteps, Others, gaugeVars
      <3>2. Written
        BY <3>1 DEF Written
      <3> QED
        BY <2>2, <3>1, <3>2
    <2> QED
      BY <1>2, <2>1, <2>3, <2>4 DEF Next
  <1> QED
    BY <1>1, <1>2

\* However many scrapes overlap with each other and with discovery, the poller and
\* requests, a rendered gauge is a value its source had during the burst of scrapes,
\* unless its address lost a worker or had none in that time; the rendered index size
\* is the sum of one size per shard, each of that burst, for any number of shards.
THEOREM GaugesAreFresh == Spec => []GaugesFresh
  <1>1. Init => FreshInv
    BY OffFacts DEF Init, FreshInv, Running, SizesNat, Unseen
  <1>2. FreshInv => GaugesFresh
    BY DEF FreshInv, GaugesFresh, Running, ScrapeInv, UpFresh, LoadFresh
  <1> QED
    BY <1>1, <1>2, FreshStep, TypesAlways, PTL DEF Spec
===========================================================================
