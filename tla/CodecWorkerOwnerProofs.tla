------------------------ MODULE CodecWorkerOwnerProofs ------------------------
(***************************************************************************)
(* Proofs about the owner of the worker bridge of filter/xz.rs and         *)
(* filter/lzip.rs: the lemmas on linked queues, and that handling events, *)
(* polling, failing, entering a call and dropping the codec keep Inductive *)
(* (module CodecWorker).                                                   *)
(***************************************************************************)
EXTENDS CodecWorker, SequenceTheorems, TLAPS

USE DEF vars, caller, owner, flags, staging, outbuf, call, chans, wakers, worker

(* Sending a message whose bytes start where the queue ends keeps the      *)
(* queue linked.                                                           *)
LEMMA LinkedAppend ==
  ASSUME NEW K, NEW q \in Seq(Messages(K)), NEW e \in Messages(K),
         NEW a \in Nat, Linked(q, a, e.lo)
  PROVE  Linked(Append(q, e), a, e.hi)
<1>1. CASE q = <<>>
  BY <1>1 DEF Linked, Messages
<1>2. CASE q # <<>>
  <2>1. Len(Append(q, e)) = Len(q) + 1 /\ Append(q, e) # <<>>
    OBVIOUS
  <2>2. \A i \in 1..Len(q) : Append(q, e)[i] = q[i]
    OBVIOUS
  <2>3. Append(q, e)[Len(q) + 1] = e
    OBVIOUS
  <2>4. Len(q) \in Nat /\ Len(q) > 0
    BY <1>2
  <2> QED
    BY <1>2, <2>1, <2>2, <2>3, <2>4 DEF Linked
<1> QED
  BY <1>1, <1>2

(* What receiving the first message of a channel leaves.                   *)
LEMMA TailFacts ==
  ASSUME NEW K, NEW q \in Seq(Messages(K)), q # <<>>
  PROVE  /\ Head(q) = q[1] /\ Head(q) \in Messages(K)
         /\ Len(q) \in Nat /\ Len(q) > 0
         /\ Tail(q) \in Seq(Messages(K)) /\ Len(Tail(q)) = Len(q) - 1
         /\ \A i \in 1..Len(q) - 1 : Tail(q)[i] = q[i + 1]
         /\ Tail(q) = <<>> <=> Len(q) = 1
<1>1. Head(q) = q[1] /\ Len(q) \in Nat /\ Len(q) > 0
  OBVIOUS
<1>2. /\ Head(q) \in Messages(K) /\ Tail(q) \in Seq(Messages(K))
      /\ Len(Tail(q)) = Len(q) - 1
      /\ \A i \in 1..Len(q) - 1 : Tail(q)[i] = q[i + 1]
  BY HeadTailProperties
<1>3. Tail(q) # <<>> => Len(Tail(q)) > 0
  BY <1>2, EmptySeq
<1>4. Tail(q) = <<>> => Len(Tail(q)) = 0
  BY Zenon, EmptySeq
<1> QED
  BY <1>1, <1>2, <1>3, <1>4

(* The first message starts where the reader stopped; the rest follow it.  *)
LEMMA LinkedTail ==
  ASSUME NEW K, NEW q \in Seq(Messages(K)), NEW a, NEW b, q # <<>>, Linked(q, a, b)
  PROVE  Head(q).lo = a /\ Linked(Tail(q), Head(q).hi, b)
<1>1. CASE Len(q) = 1
  BY <1>1, TailFacts DEF Linked
<1>2. CASE Len(q) > 1
  BY <1>2, TailFacts DEF Linked
<1> QED
  BY <1>1, <1>2, TailFacts

(* CodecReader::fill: a refill only extends the caller's buffer, or ends   *)
(* the source.                                                             *)
LEMMA RefillInd == ASSUME Inductive, Refill PROVE Inductive'
<1>1. ControlTypes'
  BY DEF Inductive, TypeOK, ControlTypes, OwnerStates, WorkerStates, Refill
<1>2. FlagTypes'
  <2>1. eof' \in BOOLEAN
    BY Zenon DEF Refill
  <2>2. UNCHANGED <<owner, chans, wakers, cancel, worker>>
    BY DEF Refill
  <2> QED
    BY Zenon, <2>1, <2>2 DEF Inductive, TypeOK, FlagTypes, owner, chans, wakers, worker
<1>3. QueueTypes' /\ MessagesOK' /\ WorkerOK' /\ WakeOK'
  BY WorkerAssumption
  DEF Inductive, TypeOK, QueueTypes, MessagesOK, InFlight, WorkerOK, WakeOK, Refill
<1>4. CounterTypes' /\ EndOK'
  BY WorkerAssumption
  DEF Inductive, TypeOK, CounterTypes, EndOK, EffectiveEnd, InLen, Refill
<1>5. OwnerOK'
  BY WorkerAssumption DEF Inductive, TypeOK, OwnerOK, Busy, Live, Refill
<1>6. InputContiguous' /\ OutputContiguous' /\ NoEarlyEnd' /\ DoneMeansComplete'
  BY DEF Inductive, TypeOK, InputContiguous, Linked, OutputContiguous, Live, InFlight,
         NoEarlyEnd, DoneMeansComplete, Refill
<1> QED
  BY <1>1, <1>2, <1>3, <1>4, <1>5, <1>6 DEF Inductive, TypeOK

(* handle_event: with an empty pending_output the received bytes follow    *)
(* the delivered ones, whether they fit the slice or not; a NeedInput is   *)
(* an empty interval.                                                      *)
LEMMA HandleEventInd ==
  ASSUME Inductive, Busy, produced < outLen, evq # <<>>,
         NEW next \in {"poll1", "poll2"}, HandleEvent(Head(evq), next), UNCHANGED wakers
  PROVE  Inductive'
<1> DEFINE e == Head(evq)
<1> DEFINE copied == Min2(e.hi - e.lo, outLen - produced)
<1>a. /\ e = evq[1] /\ e \in Messages({NeedInput, Output})
      /\ Len(evq) \in Nat /\ Len(evq) > 0
      /\ Tail(evq) \in Seq(Messages({NeedInput, Output})) /\ Len(Tail(evq)) = Len(evq) - 1
      /\ \A i \in 1..Len(evq) - 1 : Tail(evq)[i] = evq[i + 1]
  BY TailFacts DEF Inductive, TypeOK, QueueTypes
<1>b. /\ e.kind \in {NeedInput, Output} /\ e.lo \in Nat /\ e.hi \in Nat
      /\ e.lo <= e.hi /\ (e.kind = NeedInput => e.lo = e.hi)
  BY <1>a DEF Inductive, MessagesOK, Messages
<1>c. Live /\ outLo = outHi
  BY DEF Inductive, OwnerOK
<1>d. e.lo = outHi /\ Linked(Tail(evq), e.hi, IF InFlight THEN wev.lo ELSE emitted)
  BY <1>c, LinkedTail DEF Inductive, OutputContiguous, TypeOK, QueueTypes
<1>e. /\ copied \in Nat /\ copied <= e.hi - e.lo /\ copied <= outLen - produced
      /\ produced + copied < outLen => copied = e.hi - e.lo
  BY <1>b DEF Min2, Inductive, TypeOK, CounterTypes
<1>f. /\ evq' = Tail(evq) /\ opc' = next
      /\ e.kind = Output => outLo' = e.lo + copied /\ outHi' = e.hi /\ produced' = produced + copied
      /\ e.kind # Output => outLo' = outLo /\ outHi' = outHi /\ produced' = produced
      /\ UNCHANGED <<caller, flags, staging, consumed, outLen, inq, inOpen, evOpen,
                     evRecv, cancel, worker, wakers>>
  BY DEF HandleEvent, Undrained
<1> HIDE DEF copied, e
<1>g. outLo' = e.lo + copied /\ outHi' = e.hi /\ produced' = produced + copied
  <2>1. CASE e.kind = Output
    BY <1>f, <2>1
  <2>2. CASE e.kind = NeedInput
    <3>1. copied = 0 /\ e.kind # Output
      BY <1>b, <1>e, <2>2 DEF Output, NeedInput
    <3> QED
      BY <1>b, <1>c, <1>d, <1>f, <2>2, <3>1 DEF Inductive, TypeOK, CounterTypes
  <2> QED
    BY <1>b, <2>1, <2>2
<1>1. ControlTypes' /\ FlagTypes'
  BY WorkerAssumption
  DEF Inductive, TypeOK, ControlTypes, OwnerStates, WorkerStates, FlagTypes, HandleEvent
<1>2. WorkerOK' /\ WakeOK'
  BY DEF Inductive, TypeOK, WorkerOK, WakeOK, HandleEvent
<1>3. QueueTypes'
  BY WorkerAssumption, <1>a, <1>f DEF Inductive, TypeOK, QueueTypes, HandleEvent
<1>4. MessagesOK'
  BY <1>a, <1>f DEF Inductive, TypeOK, MessagesOK, InFlight, HandleEvent
<1>5. EndOK'
  BY WorkerAssumption DEF Inductive, TypeOK, EndOK, EffectiveEnd, InLen, HandleEvent
<1>6. CounterTypes'
  BY <1>b, <1>c, <1>d, <1>e, <1>f, <1>g DEF Inductive, TypeOK, CounterTypes
<1>7. OwnerOK'
  BY <1>b, <1>c, <1>d, <1>e, <1>f, <1>g DEF Inductive, TypeOK, CounterTypes, OwnerOK, Busy, Live
<1>8. InputContiguous' /\ NoEarlyEnd' /\ DoneMeansComplete'
  BY DEF Inductive, TypeOK, InputContiguous, Linked, NoEarlyEnd, Live,
         DoneMeansComplete, HandleEvent
<1>9. OutputContiguous'
  BY <1>b, <1>c, <1>d, <1>e, <1>f, <1>g DEF Inductive, TypeOK, CounterTypes, OutputContiguous, Live, InFlight
<1> QED
  BY <1>1, <1>2, <1>3, <1>4, <1>5, <1>6, <1>7, <1>8, <1>9 DEF Inductive, TypeOK

(* finish_worker before the join: an empty, closed channel means that      *)
(* everything decoded is delivered or produced.                            *)
LEMMA DisconnectedInd ==
  ASSUME Inductive, Busy, produced < outLen, Disconnected, UNCHANGED wakers
  PROVE  Inductive'
<1>1. ControlTypes'
  BY DEF Inductive, TypeOK, ControlTypes, OwnerStates, WorkerStates, Disconnected,
         EventsClosed
<1>2. FlagTypes'
  BY Zenon, WorkerAssumption DEF Inductive, TypeOK, FlagTypes, Disconnected, EventsClosed
<1>3. QueueTypes' /\ MessagesOK' /\ WorkerOK' /\ WakeOK'
  BY WorkerAssumption
  DEF Inductive, TypeOK, QueueTypes, MessagesOK, InFlight, WorkerOK, WakeOK,
      Disconnected, EventsClosed
<1>4. CounterTypes' /\ EndOK'
  BY WorkerAssumption
  DEF Inductive, TypeOK, CounterTypes, EndOK, EffectiveEnd, InLen, Disconnected,
      EventsClosed
<1>5. OwnerOK'
  BY WorkerAssumption
  DEF Inductive, TypeOK, OwnerOK, Busy, Live, Disconnected, EventsClosed,
      OutputContiguous, InFlight, WorkerOK, Linked
<1>6. InputContiguous' /\ OutputContiguous' /\ NoEarlyEnd' /\ DoneMeansComplete'
  BY DEF Inductive, TypeOK, InputContiguous, Linked, OutputContiguous, Live, InFlight,
         NoEarlyEnd, DoneMeansComplete, Disconnected, EventsClosed
<1> QED
  BY <1>1, <1>2, <1>3, <1>4, <1>5, <1>6 DEF Inductive, TypeOK

(* fail: the decoder is no longer live, so nothing is promised of its      *)
(* bytes.                                                                  *)
LEMMA FailInd ==
  ASSUME Inductive, Busy \/ opc \in {"idle", "parked"},
         NEW kind \in {"malformed", "limit"}, Fail(kind),
         staged' = staged \/ staged' = accepted, pendLo' = pendLo \/ pendLo' = staged',
         UNCHANGED <<caller, accepted, outbuf, call, waker, worker>>,
         notified' \in BOOLEAN
  PROVE  Inductive'
<1>1. ControlTypes'
  BY DEF Inductive, TypeOK, ControlTypes, OwnerStates, WorkerStates, Fail, DrainEvents
<1>2. FlagTypes'
  BY Zenon, WorkerAssumption DEF Inductive, TypeOK, FlagTypes, Fail, DrainEvents
<1>3. MessagesOK' /\ WorkerOK' /\ WakeOK'
  BY DEF Inductive, TypeOK, MessagesOK, InFlight, WorkerOK, WakeOK, Fail, DrainEvents
<1>4. QueueTypes'
  BY WorkerAssumption, EmptySeq DEF Inductive, TypeOK, QueueTypes, Fail, DrainEvents
<1>5. EndOK'
  BY WorkerAssumption
  DEF Inductive, TypeOK, EndOK, EffectiveEnd, InLen, Fail, DrainEvents
<1>6. CounterTypes'
  BY WorkerAssumption DEF Inductive, TypeOK, CounterTypes
<1>7. OwnerOK'
  BY WorkerAssumption
  DEF Inductive, TypeOK, OwnerOK, Busy, Live, Fail, DrainEvents, WorkerOK
<1>8. InputContiguous' /\ OutputContiguous' /\ NoEarlyEnd' /\ DoneMeansComplete'
  BY DEF Inductive, TypeOK, InputContiguous, Linked, OutputContiguous, Live, InFlight,
         NoEarlyEnd, DoneMeansComplete, Fail, DrainEvents
<1> QED
  BY <1>1, <1>2, <1>3, <1>4, <1>5, <1>6, <1>7, <1>8 DEF Inductive, TypeOK

(* A move of drive between two steps without a promise of their own.       *)
LEMMA MoveInd ==
  ASSUME Inductive, Busy, NEW next \in {"poll1", "flush", "stage", "flush2", "poll2", "decide"},
         opc' = next,
         UNCHANGED <<caller, flags, staging, outbuf, call, chans, cancel, worker, wakers>>
  PROVE  Inductive'
<1>1. ControlTypes' /\ FlagTypes'
  BY WorkerAssumption
  DEF Inductive, TypeOK, ControlTypes, OwnerStates, WorkerStates, FlagTypes
<1>2. QueueTypes' /\ MessagesOK' /\ WorkerOK' /\ WakeOK'
  BY WorkerAssumption
  DEF Inductive, TypeOK, QueueTypes, MessagesOK, InFlight, WorkerOK, WakeOK
<1>3. CounterTypes' /\ EndOK'
  BY WorkerAssumption DEF Inductive, TypeOK, CounterTypes, EndOK, EffectiveEnd, InLen
<1>4. OwnerOK'
  BY WorkerAssumption DEF Inductive, TypeOK, OwnerOK, Busy, Live
<1>5. InputContiguous' /\ OutputContiguous' /\ NoEarlyEnd' /\ DoneMeansComplete'
  BY DEF Inductive, TypeOK, InputContiguous, Linked, OutputContiguous, Live, InFlight,
         NoEarlyEnd, DoneMeansComplete
<1> QED
  BY <1>1, <1>2, <1>3, <1>4, <1>5 DEF Inductive, TypeOK

(* The first polling loop of drive.                                        *)
LEMMA Poll1Ind == ASSUME Inductive, Poll1 PROVE Inductive'
<1>1. Busy
  BY DEF Poll1, Busy
<1>2. CASE produced < outLen /\ evq # <<>> /\ opc' # "flush"
  <2>1. PICK next \in {"poll1", "poll2"} : HandleEvent(Head(evq), next)
    BY <1>2 DEF Poll1, Disconnected, EventsClosed, AfterInputRequest
  <2> QED
    BY <1>1, <1>2, <2>1, HandleEventInd DEF Poll1
<1>3. CASE produced < outLen /\ Disconnected
  BY <1>1, <1>3, DisconnectedInd DEF Poll1
<1>4. CASE /\ opc' = "flush"
          /\ UNCHANGED <<caller, flags, staging, outbuf, call, chans, cancel, worker, wakers>>
  BY <1>1, <1>4, MoveInd
<1> QED
  BY <1>2, <1>3, <1>4 DEF Poll1, HandleEvent, AfterInputRequest

(* The second polling loop of drive.                                       *)
LEMMA Poll2Ind == ASSUME Inductive, Poll2 PROVE Inductive'
<1>1. Busy
  BY DEF Poll2, Busy
<1>2. CASE produced < outLen /\ evq # <<>> /\ opc' # "decide"
  <2>1. PICK next \in {"poll1", "poll2"} : HandleEvent(Head(evq), next)
    BY <1>2 DEF Poll2, Disconnected, EventsClosed, AfterInputRequest
  <2> QED
    BY <1>1, <1>2, <2>1, HandleEventInd DEF Poll2
<1>3. CASE produced < outLen /\ Disconnected
  BY <1>1, <1>3, DisconnectedInd DEF Poll2
<1>4. CASE /\ opc' = "decide"
          /\ UNCHANGED <<caller, flags, staging, outbuf, call, chans, cancel, worker, wakers>>
  BY <1>1, <1>4, MoveInd
<1> QED
  BY <1>2, <1>3, <1>4 DEF Poll2, HandleEvent, AfterInputRequest

(* Entry of drive on a running decoder: drain_output into the slice.       *)
LEMMA DriveOnInd ==
  ASSUME Inductive, opc \in {"idle", "parked"}, ~done, NEW len \in OutputSizes, Drive(len),
         notified' \in BOOLEAN
  PROVE  Inductive'
<1>a. len \in Nat /\ len > 0
  BY WorkerAssumption
<1>b. /\ outLo' = outLo + Min2(outHi - outLo, len) /\ produced' = Min2(outHi - outLo, len)
      /\ consumed' = 0 /\ outLen' = len /\ opc' = "poll1"
      /\ UNCHANGED <<outHi, flags, chans, cancel, caller, staging, waker, worker>>
  BY Zenon DEF Drive, DrainOutput
<1>1. ControlTypes' /\ FlagTypes'
  BY WorkerAssumption, <1>a, <1>b
  DEF Inductive, TypeOK, ControlTypes, OwnerStates, WorkerStates, FlagTypes, Min2
<1>2. QueueTypes' /\ MessagesOK' /\ WorkerOK' /\ WakeOK'
  BY WorkerAssumption, <1>a, <1>b
  DEF Inductive, TypeOK, QueueTypes, MessagesOK, InFlight, WorkerOK, WakeOK, Min2
<1>3. CounterTypes' /\ EndOK'
  BY WorkerAssumption, <1>a, <1>b
  DEF Inductive, TypeOK, CounterTypes, EndOK, EffectiveEnd, InLen, Min2
<1>4. OwnerOK'
  BY WorkerAssumption, <1>a, <1>b
  DEF Inductive, TypeOK, OwnerOK, Busy, Live, Min2, CounterTypes,
      OutputContiguous, DoneMeansComplete
<1>5. NoEarlyEnd' /\ DoneMeansComplete'
  BY <1>a, <1>b
  DEF Inductive, TypeOK, NoEarlyEnd, Live, DoneMeansComplete, Min2
<1>6. InputContiguous'
  BY Zenon, <1>a, <1>b
  DEF Inductive, TypeOK, InputContiguous, Linked, Min2, OwnerOK
<1>7. OutputContiguous'
  BY <1>a, <1>b
  DEF Inductive, TypeOK, OutputContiguous, Live, InFlight, Min2,
      CounterTypes, OwnerOK
<1> QED
  BY <1>1, <1>2, <1>3, <1>4, <1>5, <1>6, <1>7 DEF Inductive, TypeOK

(* A completed decoder reports Done again.                                 *)
LEMMA StopInd ==
  ASSUME Inductive, opc' = "done", notified' \in BOOLEAN,
         UNCHANGED <<caller, flags, staging, outbuf, call, chans, cancel, waker, worker>>
  PROVE  Inductive'
<1>1. ControlTypes' /\ FlagTypes'
  BY WorkerAssumption
  DEF Inductive, TypeOK, ControlTypes, OwnerStates, WorkerStates, FlagTypes
<1>2. QueueTypes' /\ MessagesOK' /\ WorkerOK' /\ WakeOK'
  BY WorkerAssumption
  DEF Inductive, TypeOK, QueueTypes, MessagesOK, InFlight, WorkerOK, WakeOK
<1>3. CounterTypes' /\ EndOK'
  BY WorkerAssumption DEF Inductive, TypeOK, CounterTypes, EndOK, EffectiveEnd, InLen
<1>4. OwnerOK'
  BY WorkerAssumption DEF Inductive, TypeOK, OwnerOK, Busy, Live
<1>5. InputContiguous' /\ OutputContiguous' /\ NoEarlyEnd' /\ DoneMeansComplete'
  BY DEF Inductive, TypeOK, InputContiguous, Linked, OutputContiguous, Live, InFlight,
         NoEarlyEnd, DoneMeansComplete
<1> QED
  BY <1>1, <1>2, <1>3, <1>4, <1>5 DEF Inductive, TypeOK

(* Entry of drive.                                                         *)
LEMMA DriveInd ==
  ASSUME Inductive, opc \in {"idle", "parked"}, NEW len \in OutputSizes, Drive(len),
         notified' \in BOOLEAN
  PROVE  Inductive'
<1>1. CASE ~done
  BY <1>1, DriveOnInd
<1>2. CASE done /\ InLen # 0
  <2>1. Fail("malformed") /\ UNCHANGED <<caller, staging, outbuf, call, waker, worker>>
    BY <1>2 DEF Drive
  <2> QED
    BY <2>1, FailInd
<1>3. CASE done /\ InLen = 0
  <2>1. opc' = "done" /\ UNCHANGED <<caller, flags, staging, outbuf, call, chans, cancel, waker, worker>>
    BY <1>3 DEF Drive
  <2> QED
    BY <2>1, StopInd
<1> QED
  BY <1>1, <1>2, <1>3

(* A call of a blocking or first async read.                               *)
LEMMA CallInd == ASSUME Inductive, Call PROVE Inductive'
  BY DriveInd DEF Call, Inductive, TypeOK, FlagTypes

(* A woken task polls again.                                               *)
LEMMA RepollInd == ASSUME Inductive, Repoll PROVE Inductive'
  BY Zenon, DriveInd DEF Repoll

(* cancel_worker drains and joins; the decoder is already cancelled.       *)
LEMMA CancellingInd == ASSUME Inductive, Cancelling PROVE Inductive'
<1>1. ControlTypes'
  BY DEF Inductive, TypeOK, ControlTypes, OwnerStates, WorkerStates, Cancelling,
         DrainEvents, WakeOwner
<1>2. FlagTypes'
  <2>1. CASE wpc = "finished"
    BY Zenon, <2>1 DEF Inductive, TypeOK, FlagTypes, Cancelling, WakeOwner
  <2>2. CASE wpc # "finished"
    BY <2>2 DEF Inductive, TypeOK, FlagTypes, Cancelling
  <2> QED
    BY <2>1, <2>2
<1>3. MessagesOK' /\ WorkerOK' /\ WakeOK'
  BY DEF Inductive, TypeOK, MessagesOK, InFlight, WorkerOK, WakeOK, Cancelling,
         DrainEvents, WakeOwner
<1>4. QueueTypes'
  BY WorkerAssumption, EmptySeq
  DEF Inductive, TypeOK, QueueTypes, Cancelling, DrainEvents, WakeOwner
<1>5. CounterTypes' /\ EndOK'
  BY WorkerAssumption
  DEF Inductive, TypeOK, CounterTypes, EndOK, EffectiveEnd, InLen, Cancelling,
      DrainEvents, WakeOwner
<1>6. OwnerOK'
  BY WorkerAssumption
  DEF Inductive, TypeOK, OwnerOK, Busy, Live, Cancelling, DrainEvents, WakeOwner
<1>7. InputContiguous' /\ DoneMeansComplete'
  BY DEF Inductive, TypeOK, InputContiguous, Linked, DoneMeansComplete, Cancelling,
         DrainEvents, WakeOwner
<1>8. OutputContiguous'
  BY DEF Inductive, TypeOK, OutputContiguous, Live, InFlight, Cancelling, DrainEvents,
         WakeOwner, OwnerOK
<1>9. NoEarlyEnd'
  BY DEF Inductive, TypeOK, NoEarlyEnd, Live, Cancelling, DrainEvents, WakeOwner,
         OwnerOK
<1> QED
  BY <1>1, <1>2, <1>3, <1>4, <1>5, <1>6, <1>7, <1>8, <1>9 DEF Inductive, TypeOK

(* finish_worker after the join: Done only for a worker that succeeded,    *)
(* hence after the end of its input.                                       *)
LEMMA JoinInd == ASSUME Inductive, Join PROVE Inductive'
<1>1. ControlTypes'
  BY DEF Inductive, TypeOK, ControlTypes, OwnerStates, WorkerStates, Join, Return
<1>2. FlagTypes'
  <2>1. CASE wresult = "ok"
    BY <2>1 DEF Inductive, TypeOK, FlagTypes, Join, Return
  <2>2. CASE wresult # "ok"
    BY <2>2, WorkerAssumption DEF Inductive, TypeOK, FlagTypes, Join
  <2> QED
    BY <2>1, <2>2
<1>3. QueueTypes' /\ MessagesOK' /\ WorkerOK' /\ WakeOK'
  BY WorkerAssumption
  DEF Inductive, TypeOK, QueueTypes, MessagesOK, InFlight, WorkerOK, WakeOK, Join,
      Return
<1>4. CounterTypes'
  BY WorkerAssumption DEF Inductive, TypeOK, CounterTypes, Join, Return
<1>5. EndOK'
  BY WorkerAssumption
  DEF Inductive, TypeOK, EndOK, EffectiveEnd, InLen, Join, Return, CounterTypes
<1>6. OwnerOK'
  <2>1. CASE wresult = "ok"
    BY <2>1 DEF Inductive, TypeOK, OwnerOK, Busy, Live, Join, Return, CounterTypes
  <2>2. CASE wresult # "ok"
    BY <2>2 DEF Inductive, OwnerOK, Busy, Live, Join
  <2> QED
    BY <2>1, <2>2
<1>7. NoEarlyEnd'
  BY DEF Inductive, TypeOK, NoEarlyEnd, Live, Join, Return
<1>8. InputContiguous'
  BY DEF Inductive, TypeOK, InputContiguous, Linked, Join, Return, CounterTypes
<1>9. OutputContiguous'
  BY DEF Inductive, TypeOK, OutputContiguous, Live, InFlight, Join, Return, CounterTypes
<1>10. DoneMeansComplete'
  BY Zenon DEF Inductive, TypeOK, DoneMeansComplete, Join, Return, OwnerOK, WorkerOK,
         NoEarlyEnd, Live, CounterTypes
<1> QED
  BY <1>1, <1>2, <1>3, <1>4, <1>5, <1>6, <1>7, <1>8, <1>9, <1>10 DEF Inductive, TypeOK

(* Dropping the decoder ends its promises.                                 *)
LEMMA DropInd == ASSUME Inductive, Drop PROVE Inductive'
<1>1. ControlTypes'
  BY DEF Inductive, TypeOK, ControlTypes, OwnerStates, WorkerStates, Drop, DrainEvents,
         ReceiverDuringDrop
<1>2. FlagTypes'
  BY Zenon, WorkerAssumption
  DEF Inductive, TypeOK, FlagTypes, Drop, DrainEvents, ReceiverDuringDrop
<1>3. MessagesOK' /\ WorkerOK' /\ WakeOK'
  <2>1. MessagesOK'
    BY DEF Inductive, MessagesOK, InFlight, Drop, DrainEvents
  <2>2. WorkerOK'
    BY DEF Inductive, WorkerOK, Drop
  <2>3. WakeOK'
    BY DEF Inductive, WakeOK, Drop, DrainEvents
  <2> QED
    BY <2>1, <2>2, <2>3
<1>4. QueueTypes'
  BY WorkerAssumption, EmptySeq
  DEF Inductive, TypeOK, QueueTypes, Drop, DrainEvents, ReceiverDuringDrop
<1>5. CounterTypes' /\ EndOK'
  BY WorkerAssumption
  DEF Inductive, TypeOK, CounterTypes, EndOK, EffectiveEnd, InLen, Drop, DrainEvents,
      ReceiverDuringDrop
<1>6. OwnerOK'
  BY WorkerAssumption
  DEF Inductive, TypeOK, OwnerOK, Busy, Live, Drop, DrainEvents, ReceiverDuringDrop
<1>7. InputContiguous' /\ OutputContiguous' /\ NoEarlyEnd' /\ DoneMeansComplete'
  BY DEF Inductive, TypeOK, InputContiguous, Linked, OutputContiguous, Live, InFlight,
         NoEarlyEnd, DoneMeansComplete, Drop, DrainEvents, ReceiverDuringDrop
<1> QED
  BY <1>1, <1>2, <1>3, <1>4, <1>5, <1>6, <1>7 DEF Inductive, TypeOK
=============================================================================
