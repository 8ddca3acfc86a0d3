-------------------------- MODULE InflightTracker -------------------------
(***************************************************************************)
(* Per-worker in-flight counters (crates/router-core/src/inflight.rs): a   *)
(* vector of `slots` atomics indexed by worker id. An id at or beyond the  *)
(* end of the vector is silently not counted, and the u64 arithmetic wraps.*)
(***************************************************************************)
EXTENDS Integers

CONSTANTS CountMod       \* counters are modulo this (2^64 in the code)

ASSUME CountModAssumption == CountMod \in Nat /\ CountMod > 1

VARIABLES slots,    \* length of the counter vector
          counts    \* counts[w] for w in 0 .. slots - 1

trackerVars == <<slots, counts>>

TrackerType ==
    /\ slots \in Nat
    /\ counts \in [0 .. slots - 1 -> 0 .. CountMod - 1]

PlainDec(n) == n - 1

\* fetch_add and fetch_sub on a u64.
WrapInc(n) == IF n = CountMod - 1 THEN 0 ELSE n + 1
WrapDec(n) == IF n = 0 THEN CountMod - 1 ELSE n - 1

with_capacity(n) ==
    /\ slots = n
    /\ counts = [w \in 0 .. n - 1 |-> 0]

EnsureCapacityResets(n) ==
    /\ slots' = IF slots < n THEN n ELSE slots
    /\ counts' = [w \in 0 .. slots' - 1 |-> 0]

\* ensure_capacity: grow with zeroed counters, never shrink.
ensure_capacity(n) ==
    /\ slots' = IF slots < n THEN n ELSE slots
    /\ counts' = [w \in 0 .. slots' - 1 |-> IF w < slots THEN counts[w] ELSE 0]

\* count: what the score and the tie-break read.
count(w) == IF w < slots THEN counts[w] ELSE 0

\* increment, by InflightGuard::acquire.
increment(w) ==
    /\ counts' = IF w < slots THEN [counts EXCEPT ![w] = WrapInc(@)] ELSE counts
    /\ UNCHANGED slots

\* decrement, by the guard's Drop.
decrement(w) ==
    /\ counts' = IF w < slots THEN [counts EXCEPT ![w] = WrapDec(@)] ELSE counts
    /\ UNCHANGED slots
===========================================================================
