---------------------------- MODULE RangeReader ----------------------------
(* `RangeReader` (libarchive_oxide/src/range_source.rs): a `Read + Seek`     *)
(* cursor with one read-ahead buffer over an immutable positional source.   *)
(* The source is another party: between any two calls into it, it may turn  *)
(* into another object (a new identity or length), return short, too many   *)
(* or no bytes, or fail.  A byte is modelled by its offset and version:     *)
(* Byte(o) for the captured object, -Byte(o) for whatever replaced it, and  *)
(* 0 for the filler that `resize` writes into the buffer.                   *)
EXTENDS Integers, FiniteSets

CONSTANTS
    SourceLen,    \* captured length of the object
    CacheLimit,   \* Limits::metadata_bytes
    ReadAhead,    \* Limits::in_flight_bytes, capped, at least one
    MaxRequest,   \* largest caller buffer
    MaxMetric,    \* largest value of the 64-bit metric counters
    Retries       \* does a caller read again after a failed fill?

ASSUME RangeAssumption ==
    /\ SourceLen \in Nat /\ CacheLimit \in Nat /\ MaxMetric \in Nat
    /\ ReadAhead \in Nat \ {0} /\ MaxRequest \in Nat
    /\ Retries \in BOOLEAN

VARIABLES
    changed,      \* the object behind the source is no longer the captured one
    position, cache_offset,
    cache,        \* the buffer, a function from 0 .. length - 1
    filled,       \* bytes of the buffer that the source has supplied
    wanted,       \* bytes the caller will get once the buffer is filled
    pc,           \* where fill_cache is
    requests, transferred,  \* RangeMetrics
    broken,       \* a fill failed
    got           \* result of the last read: where it started and its bytes

rangeVars == <<changed, position, cache_offset, cache, filled, wanted, pc,
          requests, transferred, broken, got>>
buffer == <<cache_offset, cache, filled, wanted>>
metrics == <<requests, transferred>>

Byte(o) == o + 1
Least(a, b) == IF a <= b THEN a ELSE b
Greatest(a, b) == IF a >= b THEN a ELSE b
Size == Cardinality(DOMAIN cache)
None == [kind |-> "None"]
Err == [kind |-> "Err"]

RangeInit ==
    /\ changed = FALSE
    /\ position = 0 /\ cache_offset = 0
    /\ cache = [i \in {} |-> 0] /\ filled = 0 /\ wanted = 0
    /\ pc = "Idle"
    /\ requests = 0 /\ transferred = 0
    /\ broken = FALSE
    /\ got = None

(* The provider's object is replaced; validate_read_at_snapshot sees it. *)
SourceChanges == ~changed /\ changed' = TRUE
    /\ UNCHANGED <<position, buffer, pc, metrics, broken, got>>

(* A read that returns the next n bytes of the buffer. *)
Deliver(n) ==
    /\ got' = [kind |-> "Ok", at |-> position,
               bytes |-> [i \in 0..(n - 1) |-> cache[position - cache_offset + i]]]
    /\ position' = position + n

Reject == got' = Err /\ UNCHANGED position

(* fill_cache returns early with an error: the buffer keeps its filler.     *)
Abandon ==
    /\ pc' = "Idle" /\ broken' = TRUE /\ Reject
    /\ UNCHANGED buffer

Available(n) == Least(SourceLen - position, n)

(* The buffer holds the whole range. *)
Hit(n) ==
    /\ position >= cache_offset
    /\ position - cache_offset + Available(n) <= Size

(* The length fill_cache asks for: read ahead, within the source and budget.*)
FillLength(n) ==
    Least(Least(Greatest(n, ReadAhead), SourceLen - position), Greatest(CacheLimit, n))

(* Read::read up to the first call of the source. *)
Read(n) ==
    /\ pc = "Idle" /\ (broken => Retries)
    /\ UNCHANGED <<changed, metrics, broken>>
    /\ \/ changed /\ Reject /\ UNCHANGED <<buffer, pc>>
       \/ ~changed /\ position = SourceLen /\ Deliver(0) /\ UNCHANGED <<buffer, pc>>
       \/ ~changed /\ position < SourceLen /\ Hit(n)
          /\ Deliver(Available(n)) /\ UNCHANGED <<buffer, pc>>
       \/ ~changed /\ position < SourceLen /\ ~Hit(n) /\ Available(n) > CacheLimit
          /\ Reject /\ UNCHANGED <<buffer, pc>>
       \/ /\ ~changed /\ position < SourceLen /\ ~Hit(n) /\ Available(n) <= CacheLimit
          /\ wanted' = Available(n)
          /\ cache' = [i \in 0..(FillLength(Available(n)) - 1) |-> 0]
          /\ cache_offset' = position
          /\ filled' = 0
          /\ pc' = "Validate"
          /\ UNCHANGED <<position, got>>

(* The source is revalidated and the request counted before the call. *)
Validate ==
    /\ pc = "Validate"
    /\ UNCHANGED <<changed, transferred>>
    /\ \/ (changed \/ requests = MaxMetric) /\ Abandon /\ UNCHANGED requests
       \/ /\ ~changed /\ requests < MaxMetric
          /\ requests' = requests + 1
          /\ pc' = "Call"
          /\ UNCHANGED <<position, buffer, broken, got>>

(* The source fails, returns nothing, or claims more than the slice holds. *)
SourceFails ==
    /\ pc = "Call"
    /\ Abandon
    /\ UNCHANGED <<changed, metrics>>

(* record_bytes counts what the source returned, not what was asked for. *)
Recorded(k) == transferred + k

(* The source supplies k bytes of the object it is now. *)
Supply(k) ==
    /\ pc = "Call"
    /\ cache' = [i \in DOMAIN cache |->
                    IF i \in filled..(filled + k - 1)
                    THEN IF changed THEN -Byte(cache_offset + i) ELSE Byte(cache_offset + i)
                    ELSE cache[i]]
    /\ UNCHANGED <<changed, requests, cache_offset, wanted, position>>
    /\ \/ /\ Recorded(k) > MaxMetric
          /\ pc' = "Idle" /\ broken' = TRUE /\ got' = Err
          /\ UNCHANGED <<transferred, filled>>
       \/ /\ Recorded(k) <= MaxMetric
          /\ transferred' = Recorded(k)
          /\ filled' = filled + k
          /\ pc' = "Revalidate"
          /\ UNCHANGED <<broken, got>>

StillValidUnchecked == TRUE
StillValid == ~changed

(* Validation after the call; the last one completes the caller's read. *)
Revalidate ==
    /\ pc = "Revalidate"
    /\ UNCHANGED <<changed, metrics>>
    /\ \/ ~StillValid /\ Abandon
       \/ /\ StillValid /\ filled = Size
          /\ Deliver(wanted) /\ pc' = "Idle"
          /\ UNCHANGED <<buffer, broken>>
       \/ /\ StillValid /\ filled < Size
          /\ pc' = "Validate"
          /\ UNCHANGED <<position, buffer, broken, got>>

(* Seek::seek: never past the end, and the buffer is kept. *)
Seek(next) ==
    /\ pc = "Idle"
    /\ position' = IF changed \/ next > SourceLen THEN position ELSE next
    /\ got' = None
    /\ UNCHANGED <<changed, buffer, pc, metrics, broken>>

RangeNext ==
    \/ SourceChanges
    \/ \E n \in 1..MaxRequest : Read(n)
    \/ Validate
    \/ SourceFails
    \/ \E k \in 1..(Size - filled) : Supply(k)
    \/ Revalidate
    \/ \E next \in 0..(SourceLen + 1) : Seek(next)

RangeSpec == RangeInit /\ [][RangeNext]_rangeVars
-----------------------------------------------------------------------------
(* The cursor stays inside the object and the buffer within the configured  *)
(* metadata budget, however much read-ahead is configured.                  *)
RangeTypeOK ==
    /\ changed \in BOOLEAN /\ broken \in BOOLEAN
    /\ position \in 0..SourceLen
    /\ cache_offset \in Nat /\ filled \in Nat /\ wanted \in Nat
    /\ \E n \in 0..CacheLimit : cache \in [0..(n - 1) -> Int] /\ filled <= n
    /\ pc \in {"Idle", "Validate", "Call", "Revalidate"}
    /\ requests \in 0..MaxMetric /\ transferred \in 0..MaxMetric

(* "range reader must reproduce the blob exactly": a read that succeeds     *)
(* returns the captured object's bytes at the cursor, although the source   *)
(* may change or fail between any two of the calls that filled the buffer.  *)
ReadsAreSource ==
    got.kind = "Ok" => \A i \in DOMAIN got.bytes : got.bytes[i] = Byte(got.at + i)
=============================================================================
