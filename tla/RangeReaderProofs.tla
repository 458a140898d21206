------------------------- MODULE RangeReaderProofs -------------------------
(* Proofs about RangeReader for every source length, budget, read-ahead and *)
(* request size.  A read returns the captured bytes because the part of the *)
(* buffer the source has filled holds them, except between a call and the   *)
(* validation after it, when the source may have changed under the call.    *)
EXTENDS RangeReader, FiniteSetTheorems, TLAPS

(* The buffer has n cells. *)
Cells(n) == n \in 0..CacheLimit /\ cache \in [0..(n - 1) -> Int] /\ filled <= n

(* The cells the source supplied hold the captured object. *)
FilledIsSource ==
    /\ pc = "Idle" /\ ~broken =>
          \A i \in DOMAIN cache : cache[i] = Byte(cache_offset + i)
    /\ (pc \in {"Validate", "Call"} \/ (pc = "Revalidate" /\ ~changed)) =>
          \A i \in DOMAIN cache : i < filled => cache[i] = Byte(cache_offset + i)

(* While a fill runs, the buffer starts at the cursor, ends inside the      *)
(* object and is large enough for the caller; nothing has failed before.    *)
FillOK ==
    pc # "Idle" =>
        /\ cache_offset = position
        /\ wanted \in 1..Size
        /\ position + wanted <= SourceLen
        /\ broken => Retries

Inductive == RangeTypeOK /\ FilledIsSource /\ FillOK

(* An interval that starts at zero has as many elements as its bound. *)
LEMMA IntervalSize == ASSUME NEW n \in Nat PROVE Cardinality(0..(n - 1)) = n
  BY FS_Interval

(* Size is the number of cells. *)
LEMMA SizeIs == ASSUME NEW n \in Nat, cache \in [0..(n - 1) -> Int] PROVE Size = n
<1>1. DOMAIN cache = 0..(n - 1)
  OBVIOUS
<1>2. Cardinality(0..(n - 1)) = n
  BY IntervalSize
<1> QED
  BY <1>1, <1>2 DEF Size

(* An empty buffer behind a cursor at zero. *)
LEMMA InitInductive == RangeInit => Inductive
<1> SUFFICES ASSUME RangeInit PROVE Inductive
  OBVIOUS
<1>1. cache \in [0..(0 - 1) -> Int]
  BY DEF RangeInit
<1>2. RangeTypeOK
  <2>1. 0 \in 0..CacheLimit /\ cache \in [0..(0 - 1) -> Int] /\ filled <= 0
    BY <1>1, RangeAssumption DEF RangeInit
  <2>2. \E n \in 0..CacheLimit : cache \in [0..(n - 1) -> Int] /\ filled <= n
    BY <2>1
  <2>3. /\ changed \in BOOLEAN /\ broken \in BOOLEAN
        /\ position \in 0..SourceLen
        /\ cache_offset \in Nat /\ filled \in Nat /\ wanted \in Nat
        /\ pc \in {"Idle", "Validate", "Call", "Revalidate"}
        /\ requests \in 0..MaxMetric /\ transferred \in 0..MaxMetric
    <3>1. changed \in BOOLEAN /\ broken \in BOOLEAN
      BY DEF RangeInit
    <3> QED
      BY <3>1, RangeAssumption DEF RangeInit
  <2> QED
    BY <2>2, <2>3 DEF RangeTypeOK
<1> QED
  BY <1>2 DEF RangeInit, Inductive, FilledIsSource, FillOK

(* A step that leaves the buffer and the cursor alone. *)
LEMMA BufferKept ==
    ASSUME Inductive, UNCHANGED <<buffer, position>>,
           changed' = changed \/ changed' = TRUE,
           (pc' = pc /\ broken' = broken) \/ (pc' = "Idle" /\ broken' = TRUE),
           requests' \in 0..MaxMetric, transferred' \in 0..MaxMetric
    PROVE Inductive'
<1>1. RangeTypeOK'
  BY DEF Inductive, RangeTypeOK, buffer
<1>2. FilledIsSource'
  BY DEF Inductive, RangeTypeOK, FilledIsSource, buffer
<1>3. FillOK'
  BY DEF Inductive, RangeTypeOK, FillOK, Size, buffer
<1> QED
  BY <1>1, <1>2, <1>3 DEF Inductive

(* Read: the new buffer fits the budget, starts at the cursor and covers    *)
(* what the caller wants.                                                   *)
LEMMA ReadKeeps == ASSUME Inductive, NEW n \in 1..MaxRequest, Read(n) PROVE Inductive'
<1> USE DEF buffer, metrics
<1>1. PICK m \in 0..CacheLimit : Cells(m)
  BY DEF Inductive, RangeTypeOK, Cells
<1>2. Size = m
  BY <1>1, SizeIs, RangeAssumption DEF Cells
<1>3. CASE UNCHANGED <<buffer, pc>>
  <2>1. position' \in 0..SourceLen
    BY <1>3, RangeAssumption DEF Inductive, RangeTypeOK, Read, Deliver, Reject, Available, Least
  <2>2. pc = "Idle" /\ UNCHANGED <<changed, broken, metrics>>
    BY DEF Read
  <2>3. RangeTypeOK'
    BY <1>3, <2>1, <2>2 DEF Inductive, RangeTypeOK
  <2> QED
    BY <1>3, <2>2, <2>3 DEF Inductive, FilledIsSource, FillOK
<1>4. CASE ~UNCHANGED <<buffer, pc>>
  <2> DEFINE a == Available(n)
             l == FillLength(a)
  <2>1. /\ ~changed /\ position < SourceLen /\ a <= CacheLimit
        /\ wanted' = a /\ cache_offset' = position /\ filled' = 0 /\ pc' = "Validate"
        /\ cache' = [i \in 0..(l - 1) |-> 0]
        /\ UNCHANGED <<changed, position, metrics, broken>>
        /\ broken => Retries
    BY <1>4 DEF Read
  <2>2. position \in Nat /\ position <= SourceLen
    BY DEF Inductive, RangeTypeOK
  <2>3. a \in 1..n /\ a <= SourceLen - position
    BY <2>1, <2>2, RangeAssumption DEF Available, Least
  <2>4. l \in 0..CacheLimit /\ a <= l
    BY <2>1, <2>2, <2>3, RangeAssumption DEF FillLength, Least, Greatest
  <2>5. cache' \in [0..(l - 1) -> Int]
    BY <2>1
  <2>6. Size' = l
    <3>1. DOMAIN cache' = 0..(l - 1)
      BY <2>5
    <3>2. Cardinality(0..(l - 1)) = l
      <4>1. l \in Nat
        BY <2>4
      <4> HIDE DEF l
      <4> QED
        BY <4>1, IntervalSize
    <3> QED
      BY <3>1, <3>2 DEF Size
  <2> HIDE DEF a, l
  <2>7. RangeTypeOK'
    BY <2>1, <2>2, <2>3, <2>4, <2>5, RangeAssumption DEF Inductive, RangeTypeOK
  <2>8. FilledIsSource'
    BY <2>1, <2>4, <2>5 DEF FilledIsSource
  <2>9. FillOK'
    BY <2>1, <2>2, <2>3, <2>4, <2>6, RangeAssumption DEF FillOK
  <2> QED
    BY <2>7, <2>8, <2>9 DEF Inductive
<1> QED
  BY <1>3, <1>4

(* Supply: the new cells hold the captured object unless it has changed,    *)
(* which the validation after the call then reports.                        *)
LEMMA SupplyKeeps == ASSUME Inductive, NEW k \in 1..(Size - filled), Supply(k) PROVE Inductive'
<1> USE DEF buffer, metrics
<1>1. PICK m \in 0..CacheLimit : Cells(m)
  BY DEF Inductive, RangeTypeOK, Cells
<1>2. Size = m /\ m \in Nat /\ filled \in Nat
  BY <1>1, SizeIs, RangeAssumption DEF Cells, Inductive, RangeTypeOK
<1>3. k \in Nat /\ k >= 1 /\ filled + k <= m
  BY <1>2
<1>4. DOMAIN cache = 0..(m - 1) /\ DOMAIN cache' = DOMAIN cache
  BY <1>1 DEF Cells, Supply
<1>5. cache' \in [0..(m - 1) -> Int]
  BY <1>1, <1>4 DEF Supply, Byte, Cells, Inductive, RangeTypeOK
<1>6. Size' = m
  BY <1>2, <1>4 DEF Size
<1>7. filled' <= m /\ filled' \in Nat
  BY <1>2, <1>3 DEF Supply
<1>8. transferred' \in 0..MaxMetric
  BY <1>3, RangeAssumption DEF Supply, Recorded, Inductive, RangeTypeOK
<1>9. RangeTypeOK'
  BY <1>5, <1>7, <1>8 DEF Supply, Inductive, RangeTypeOK
<1>10. FilledIsSource'
  <2>1. CASE Recorded(k) > MaxMetric
    BY <2>1, <1>8, RangeAssumption DEF Supply, FilledIsSource, Recorded
  <2>2. CASE ~(Recorded(k) > MaxMetric)
    <3>1. pc' = "Revalidate" /\ filled' = filled + k /\ changed' = changed
      BY <2>2, <1>3 DEF Supply, Recorded, Inductive, RangeTypeOK
    <3>2. ASSUME ~changed, NEW i \in DOMAIN cache, i < filled + k
          PROVE cache'[i] = Byte(cache_offset + i)
      <4>1. CASE i < filled
        BY <3>2, <4>1, <1>2, <1>3, <1>4 DEF Supply, Inductive, FilledIsSource
      <4>2. CASE i >= filled
        BY <3>2, <4>2, <1>2, <1>3, <1>4 DEF Supply
      <4> QED
        BY <4>1, <4>2, <1>2, <1>4
    <3> QED
      BY <3>1, <3>2, <1>4 DEF FilledIsSource, Supply
  <2> QED
    BY <2>1, <2>2
<1>11. FillOK'
  BY <1>2, <1>6 DEF Supply, Inductive, FillOK
<1> QED
  BY <1>9, <1>10, <1>11 DEF Inductive

(* Revalidate: only a buffer full of the captured object becomes idle       *)
(* without the reader being broken.                                         *)
LEMMA RevalidateKeeps == ASSUME Inductive, Revalidate PROVE Inductive'
<1> USE DEF buffer, metrics
<1>1. PICK m \in 0..CacheLimit : Cells(m)
  BY DEF Inductive, RangeTypeOK, Cells
<1>2. Size = m /\ m \in Nat /\ DOMAIN cache = 0..(m - 1)
  BY <1>1, SizeIs, RangeAssumption DEF Cells
<1>3. CASE ~StillValid
  BY <1>3, BufferKept DEF Revalidate, StillValid, Abandon, Reject, Inductive, RangeTypeOK
<1>4. CASE StillValid /\ filled = Size
  <2>1. position + wanted \in 0..SourceLen
    BY <1>2, RangeAssumption DEF Revalidate, Inductive, RangeTypeOK, FillOK
  <2>2. RangeTypeOK'
    BY <1>4, <2>1 DEF Revalidate, StillValid, Deliver, Inductive, RangeTypeOK
  <2>3. FilledIsSource'
    BY <1>2, <1>4 DEF Revalidate, StillValid, Inductive, FilledIsSource
  <2>4. FillOK'
    BY <1>2, <1>4 DEF Revalidate, StillValid, FillOK
  <2> QED
    BY <2>2, <2>3, <2>4 DEF Inductive
<1>5. CASE StillValid /\ filled # Size
  <2>1. pc' = "Validate" /\ UNCHANGED <<changed, position, buffer, broken, metrics>>
    BY <1>5 DEF Revalidate
  <2>2. RangeTypeOK'
    BY <2>1 DEF Inductive, RangeTypeOK
  <2>3. FilledIsSource'
    BY <1>5, <2>1 DEF Revalidate, StillValid, Inductive, FilledIsSource
  <2>4. FillOK'
    BY <2>1 DEF Revalidate, Inductive, FillOK, Size
  <2> QED
    BY <2>2, <2>3, <2>4 DEF Inductive
<1> QED
  BY <1>3, <1>4, <1>5

(* Every step preserves the invariant. *)
LEMMA NextKeeps == Inductive /\ [RangeNext]_rangeVars => Inductive'
<1> SUFFICES ASSUME Inductive, [RangeNext]_rangeVars PROVE Inductive'
  OBVIOUS
<1> USE DEF buffer, metrics
<1>0. /\ requests \in 0..MaxMetric /\ transferred \in 0..MaxMetric
  BY DEF Inductive, RangeTypeOK
<1>1. CASE UNCHANGED rangeVars
  <2>1. /\ UNCHANGED <<buffer, position>> 
        /\ requests' \in 0..MaxMetric /\ transferred' \in 0..MaxMetric
        /\ changed' = changed /\ pc' = pc /\ broken' = broken
    BY <1>0, <1>1 DEF rangeVars
  <2> QED
    BY <1>0, <2>1, BufferKept, Zenon
<1>2. CASE SourceChanges
  <2>1. /\ UNCHANGED <<buffer, position>> 
        /\ requests' \in 0..MaxMetric /\ transferred' \in 0..MaxMetric
        /\ changed' = TRUE /\ pc' = pc /\ broken' = broken
    BY <1>0, <1>2 DEF SourceChanges
  <2> QED
    BY <1>0, <2>1, BufferKept, Zenon
<1>3. CASE Validate
  <2>1. CASE changed \/ requests = MaxMetric
    <3>1. Abandon /\ UNCHANGED <<changed, metrics>>
      BY <1>3, <2>1, <1>0, RangeAssumption DEF Validate
    <3> QED
      BY <1>0, <3>1, BufferKept DEF Abandon, Reject
  <2>2. CASE ~(changed \/ requests = MaxMetric)
    <3>1. /\ pc = "Validate" /\ pc' = "Call"
          /\ UNCHANGED <<changed, position, buffer, broken, transferred>>
      BY <1>3, <2>2 DEF Validate, Inductive, RangeTypeOK
    <3>2. requests' \in 0..MaxMetric
      BY <1>3, <2>2, RangeAssumption DEF Validate, Inductive, RangeTypeOK
    <3>3. RangeTypeOK'
      BY <3>1, <3>2 DEF Inductive, RangeTypeOK
    <3> QED
      BY <3>1, <3>3 DEF Inductive, FilledIsSource, FillOK, Size
  <2> QED
    BY <2>1, <2>2
<1>4. CASE SourceFails
  BY <1>4, BufferKept DEF SourceFails, Abandon, Reject, Inductive, RangeTypeOK
<1>5. ASSUME NEW next \in 0..(SourceLen + 1), Seek(next) PROVE Inductive'
  <2>1. position' \in 0..SourceLen
    BY <1>5, RangeAssumption DEF Seek, Inductive, RangeTypeOK
  <2>2. RangeTypeOK'
    BY <1>5, <2>1 DEF Seek, Inductive, RangeTypeOK
  <2> QED
    BY <1>5, <2>2 DEF Seek, Inductive, FilledIsSource, FillOK
<1> QED
  BY <1>1, <1>2, <1>3, <1>4, <1>5, ReadKeeps, SupplyKeeps, RevalidateKeeps DEF RangeNext

(* The invariant holds throughout. *)
THEOREM Invariance == RangeSpec => []Inductive
  BY InitInductive, NextKeeps, PTL DEF RangeSpec

(* The cursor never leaves the object and the buffer never exceeds the      *)
(* metadata budget, whatever the read-ahead and the size of the requests.   *)
THEOREM TypeCorrect == RangeSpec => []RangeTypeOK
<1>1. Inductive => RangeTypeOK
  BY DEF Inductive
<1> QED
  BY <1>1, Invariance, PTL

(* Unless a caller reads again after a failed fill, every successful read   *)
(* returns the captured object's bytes at the cursor.                       *)
THEOREM ReadsReturnTheSource == ASSUME ~Retries PROVE RangeSpec => []ReadsAreSource
<1>1. RangeInit => ReadsAreSource
  BY DEF RangeInit, None, ReadsAreSource
<1>2. Inductive /\ ReadsAreSource /\ [RangeNext]_rangeVars => ReadsAreSource'
  <2> SUFFICES ASSUME Inductive, ReadsAreSource, [RangeNext]_rangeVars PROVE ReadsAreSource'
    OBVIOUS
  <2>1. PICK m \in 0..CacheLimit : Cells(m)
    BY DEF Inductive, RangeTypeOK, Cells
  <2>2. Size = m /\ m \in Nat /\ DOMAIN cache = 0..(m - 1) /\ filled \in Nat
    BY <2>1, SizeIs, RangeAssumption DEF Cells, Inductive, RangeTypeOK
  <2>3. ASSUME NEW n \in Int, Deliver(n), position >= cache_offset,
               position - cache_offset + n <= m,
               \A i \in DOMAIN cache : cache[i] = Byte(cache_offset + i)
        PROVE ReadsAreSource'
    <3>1. /\ got'.at = position
          /\ got'.bytes = [i \in 0..(n - 1) |-> cache[position - cache_offset + i]]
      BY <2>3 DEF Deliver
    <3>2. ASSUME NEW i \in 0..(n - 1) PROVE got'.bytes[i] = Byte(got'.at + i)
      <4>1. position - cache_offset + i \in DOMAIN cache
        BY <2>2, <2>3 DEF Inductive, RangeTypeOK
      <4>2. cache[position - cache_offset + i] = Byte(cache_offset + (position - cache_offset + i))
        BY <4>1, <2>3
      <4> QED
        BY <3>1, <4>2 DEF Byte, Inductive, RangeTypeOK
    <3> QED
      BY <3>1, <3>2 DEF ReadsAreSource
  <2>4. ASSUME NEW n \in 1..MaxRequest, Read(n) PROVE ReadsAreSource'
    <3>1. pc = "Idle" /\ ~broken
      BY <2>4 DEF Read, Inductive, RangeTypeOK
    <3>2. \A i \in DOMAIN cache : cache[i] = Byte(cache_offset + i)
      BY <3>1 DEF Inductive, FilledIsSource
    <3>3. CASE Reject
      BY <3>3 DEF Reject, Err, ReadsAreSource
    <3>4. CASE got' = got
      BY <3>4 DEF ReadsAreSource
    <3>5. CASE Deliver(0)
      BY <3>5 DEF Deliver, ReadsAreSource
    <3>6. CASE Hit(n) /\ Deliver(Available(n))
      <4>1. Available(n) \in Int
        BY RangeAssumption DEF Available, Least, Inductive, RangeTypeOK
      <4> QED
        BY <2>2, <2>3, <3>2, <3>6, <4>1 DEF Hit
    <3> QED
      BY <2>4, <3>3, <3>4, <3>5, <3>6 DEF Read
  <2>5. CASE Revalidate
    <3>1. CASE ~StillValid
      BY <2>5, <3>1 DEF Revalidate, Abandon, Reject, Err, ReadsAreSource
    <3>2. CASE StillValid /\ filled = Size
      <4>1. Deliver(wanted) /\ pc = "Revalidate" /\ ~changed
        BY <2>2, <2>5, <3>2 DEF Revalidate, StillValid
      <4>2. \A i \in DOMAIN cache : cache[i] = Byte(cache_offset + i)
        BY <2>2, <3>2, <4>1 DEF Inductive, FilledIsSource
      <4>3. position = cache_offset /\ wanted \in Nat /\ wanted <= m /\ position \in Nat
        BY <2>2, <4>1 DEF Inductive, FillOK, RangeTypeOK
      <4> QED
        BY <2>2, <2>3, <4>1, <4>2, <4>3
    <3>3. CASE StillValid /\ filled # Size
      BY <2>5, <3>3 DEF Revalidate, ReadsAreSource
    <3> QED
      BY <3>1, <3>2, <3>3
  <2>6. CASE UNCHANGED got
    BY <2>6 DEF ReadsAreSource
  <2>7. CASE got' = Err \/ got' = None
    BY <2>7 DEF Err, None, ReadsAreSource
  <2> QED
    BY <2>4, <2>5, <2>6, <2>7
       DEF RangeNext, rangeVars, SourceChanges, Validate, Abandon, Reject, SourceFails, Supply, Seek
<1> QED
  BY <1>1, <1>2, Invariance, PTL DEF RangeSpec
=============================================================================
