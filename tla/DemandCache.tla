---------------------------- MODULE DemandCache ----------------------------
(* The range cache behind the asynchronous seek and range readers           *)
(* (`DemandState` in libarchive_oxide/src/async_seek.rs), as operators on a *)
(* cache value: a partial function from the offset a chunk starts at to its *)
(* length.  A chunk is inserted only once it is complete, so its bytes are  *)
(* those of the input and need no model of their own.                       *)
EXTENDS Integers, FiniteSets, Folds

CONSTANTS
    ReadAhead,   \* Limits::in_flight_bytes, capped, at least one
    CacheLimit   \* Limits::metadata_bytes

ASSUME CacheAssumption == ReadAhead \in Nat \ {0} /\ CacheLimit \in Nat

Least(a, b) == IF a <= b THEN a ELSE b
Greatest(a, b) == IF a >= b THEN a ELSE b

EmptyCache == [o \in {} |-> 0]

(* The bytes a read of n at position p can deliver from an input of length len. *)
Available(len, p, n) == IF p >= len THEN 0 ELSE Least(len - p, n)

(* Only the chunk that starts nearest below the position is looked at. *)
Nearest(cache, p) ==
    CHOOSE s \in DOMAIN cache : s <= p /\ \A t \in DOMAIN cache : t <= p => t <= s

Hit(cache, p, a) ==
    /\ \E s \in DOMAIN cache : s <= p
    /\ p - Nearest(cache, p) + a <= cache[Nearest(cache, p)]

(* take_fetch_request: what is fetched for a miss of a bytes at p. *)
FetchLengthReadAhead(len, p, a) == Least(ReadAhead, len - p)
FetchLength(len, p, a) ==
    Least(Least(Greatest(a, ReadAhead), len - p), Greatest(CacheLimit, a))

InsertedAlone(cache, p, n) == [o \in {p} |-> n]
Inserted(cache, p, n) == [o \in DOMAIN cache \cup {p} |-> IF o = p THEN n ELSE cache[o]]

(* The bytes held; cached_bytes is maintained incrementally. *)
Held(cache) == MapThenFoldSet(+, 0, LAMBDA o : cache[o],
                              LAMBDA S : CHOOSE o \in S : TRUE, DOMAIN cache)
Replaced(cache, p) == IF p \in DOMAIN cache THEN cache[p] ELSE 0
=============================================================================
