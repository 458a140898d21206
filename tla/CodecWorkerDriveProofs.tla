------------------------ MODULE CodecWorkerDriveProofs ------------------------
(***************************************************************************)
(* Proofs about the rest of the owner of the worker bridge: the loop of    *)
(* drive from registering the waker to staging, flushing and ending the    *)
(* input, and waiting for an event, keeps Inductive (module CodecWorker).  *)
(***************************************************************************)
EXTENDS CodecWorkerOwnerProofs

USE DEF vars, caller, owner, flags, staging, outbuf, call, chans, wakers, worker

(* register_waker leaves a waker to wake.                                  *)
LEMMA RegisterInd == ASSUME Inductive, Register PROVE Inductive'
<1>1. ControlTypes' /\ FlagTypes'
  BY WorkerAssumption
  DEF Inductive, TypeOK, ControlTypes, OwnerStates, WorkerStates, FlagTypes, Register
<1>2. QueueTypes' /\ MessagesOK' /\ WorkerOK' /\ WakeOK'
  BY WorkerAssumption
  DEF Inductive, TypeOK, QueueTypes, MessagesOK, InFlight, WorkerOK, WakeOK, Register
<1>3. CounterTypes' /\ EndOK'
  BY WorkerAssumption
  DEF Inductive, TypeOK, CounterTypes, EndOK, EffectiveEnd, InLen, Register
<1>4. OwnerOK'
  BY WorkerAssumption DEF Inductive, TypeOK, OwnerOK, Busy, Live, Register
<1>5. InputContiguous' /\ OutputContiguous' /\ NoEarlyEnd' /\ DoneMeansComplete'
  BY DEF Inductive, TypeOK, InputContiguous, Linked, OutputContiguous, Live, InFlight,
         NoEarlyEnd, DoneMeansComplete, Register
<1> QED
  BY <1>1, <1>2, <1>3, <1>4, <1>5 DEF Inductive, TypeOK

(* The bottom of drive: wait with nothing produced, or return the step to  *)
(* the caller.                                                             *)
LEMMA DecideInd == ASSUME Inductive, Decide PROVE Inductive'
<1>1. ControlTypes' /\ FlagTypes'
  BY WorkerAssumption
  DEF Inductive, TypeOK, ControlTypes, OwnerStates, WorkerStates, FlagTypes, Decide,
      Return, MustWait, StepAccepted
<1>2. QueueTypes' /\ MessagesOK' /\ WorkerOK' /\ WakeOK'
  BY WorkerAssumption
  DEF Inductive, TypeOK, QueueTypes, MessagesOK, InFlight, WorkerOK, WakeOK, Decide,
      Return, MustWait, StepAccepted
<1>3. CounterTypes'
  BY WorkerAssumption
  DEF Inductive, TypeOK, CounterTypes, Decide, Return, MustWait, StepAccepted
<1>4. EndOK'
  BY WorkerAssumption
  DEF Inductive, TypeOK, EndOK, EffectiveEnd, InLen, Decide, Return, MustWait,
      StepAccepted, CounterTypes
<1>5. OwnerOK'
  BY WorkerAssumption
  DEF Inductive, TypeOK, OwnerOK, Busy, Live, Decide, Return, MustWait, StepAccepted,
      CounterTypes, EffectiveEnd, InLen, EndOK, PendingOutput, PendingInput
<1>6. NoEarlyEnd'
  BY DEF Inductive, TypeOK, NoEarlyEnd, Live, Decide, Return, MustWait, StepAccepted
<1>7. InputContiguous'
  BY DEF Inductive, TypeOK, InputContiguous, Linked, Decide, Return, MustWait,
         StepAccepted, CounterTypes
<1>8. OutputContiguous'
  BY DEF Inductive, TypeOK, OutputContiguous, Live, InFlight, Decide, Return, MustWait,
         StepAccepted, CounterTypes
<1>9. DoneMeansComplete'
  BY DEF Inductive, TypeOK, DoneMeansComplete, Decide, Return, MustWait, StepAccepted,
         OwnerOK, Busy
<1> QED
  BY <1>1, <1>2, <1>3, <1>4, <1>5, <1>6, <1>7, <1>8, <1>9 DEF Inductive, TypeOK

(* flush_input without a send: the retained bytes stay retained, and a     *)
(* disconnected channel is closed at the worker's side.                    *)
LEMMA FlushKeepsInd ==
  ASSUME Inductive, Busy, NEW hi, hi = staged \/ hi = accepted, staged' = hi,
         UNCHANGED <<caller, accepted, outbuf, call, wakers, worker>>,
         NEW next \in {"stage", "finish", "sendEnd", "poll2"},
         next \in {"finish", "sendEnd"} => EffectiveEnd,
         next = "sendEnd" => hi = accepted /\ pendLo' = hi,
         opc' = next, pendLo' = pendLo, UNCHANGED <<endSent, done, failure, chans, cancel>>,
         \/ UNCHANGED <<sender, inputDisconnected>>
         \/ ~inOpen /\ sender' = FALSE /\ inputDisconnected' = TRUE
  PROVE  Inductive'
<1>1. ControlTypes'
  BY DEF Inductive, TypeOK, ControlTypes, OwnerStates, WorkerStates
<1>2. FlagTypes'
  <2>1. CASE UNCHANGED <<sender, inputDisconnected>>
    BY <2>1 DEF Inductive, TypeOK, FlagTypes
  <2>2. CASE sender' = FALSE /\ inputDisconnected' = TRUE
    BY Zenon, <2>2 DEF Inductive, TypeOK, FlagTypes
  <2> QED
    BY <2>1, <2>2
<1>3. QueueTypes' /\ MessagesOK' /\ WorkerOK' /\ WakeOK'
  BY WorkerAssumption
  DEF Inductive, TypeOK, QueueTypes, MessagesOK, InFlight, WorkerOK, WakeOK
<1>4. CounterTypes'
  BY WorkerAssumption DEF Inductive, TypeOK, CounterTypes
<1>5. EndOK'
  BY WorkerAssumption DEF Inductive, TypeOK, EndOK, EffectiveEnd, InLen, CounterTypes
<1>6. OwnerOK'
  BY WorkerAssumption DEF Inductive, TypeOK, OwnerOK, Busy, Live, CounterTypes
<1>7. InputContiguous' /\ OutputContiguous' /\ NoEarlyEnd'
  BY DEF Inductive, TypeOK, InputContiguous, Linked, OutputContiguous, Live, InFlight,
         NoEarlyEnd
<1>8. DoneMeansComplete'
  BY DEF Inductive, TypeOK, DoneMeansComplete, OwnerOK
<1> QED
  BY <1>1, <1>2, <1>3, <1>4, <1>5, <1>6, <1>7, <1>8 DEF Inductive, TypeOK

(* flush_input with a send: the retained bytes follow the queue.           *)
LEMMA FlushSendsInd ==
  ASSUME Inductive, Busy, NEW hi, hi = staged \/ hi = accepted, staged' = hi,
         UNCHANGED <<caller, accepted, outbuf, call, wakers, worker>>,
         NEW next \in {"stage", "finish", "sendEnd", "poll2"},
         next \in {"finish", "sendEnd"} => EffectiveEnd,
         next = "sendEnd" => hi = accepted /\ pendLo' = hi,
         opc' = next, inOpen, pendLo < hi, pendLo' = hi,
         Len(inq) < QueueDepth,
         inq' = Append(inq, [kind |-> InputData, lo |-> pendLo, hi |-> hi]),
         UNCHANGED <<flags, inOpen, evq, evOpen, evRecv, cancel>>
  PROVE  Inductive'
<1> DEFINE e == [kind |-> InputData, lo |-> pendLo, hi |-> hi]
<1>a. e \in Messages({InputData, InputEnd}) /\ e.lo = pendLo /\ e.hi = hi /\ e.kind # InputEnd
  BY DEF Inductive, TypeOK, CounterTypes, Messages, InputData, InputEnd
<1>b. inq' = Append(inq, e)
  OBVIOUS
<1> HIDE DEF e
<1>c. /\ inq' \in Seq(Messages({InputData, InputEnd})) /\ Len(inq') = Len(inq) + 1
      /\ Len(inq) \in Nat /\ inq'[Len(inq) + 1] = e
      /\ \A i \in 1..Len(inq) : inq'[i] = inq[i]
  BY <1>a, <1>b, AppendProperties DEF Inductive, TypeOK, QueueTypes
<1>d. failure = "none" => Linked(inq', got, hi)
  BY <1>a, <1>b, LinkedAppend DEF Inductive, TypeOK, QueueTypes, CounterTypes, InputContiguous
<1>1. ControlTypes' /\ FlagTypes'
  BY WorkerAssumption
  DEF Inductive, TypeOK, ControlTypes, OwnerStates, WorkerStates, FlagTypes
<1>2. WorkerOK' /\ WakeOK'
  BY DEF Inductive, TypeOK, WorkerOK, WakeOK
<1>3. QueueTypes'
  BY <1>c, WorkerAssumption DEF Inductive, TypeOK, QueueTypes
<1>4. MessagesOK'
  BY <1>a, <1>c DEF Inductive, MessagesOK, InFlight
<1>5. CounterTypes'
  BY WorkerAssumption DEF Inductive, TypeOK, CounterTypes
<1>6. EndOK'
  BY WorkerAssumption DEF Inductive, TypeOK, EndOK, EffectiveEnd, InLen, CounterTypes
<1>7. OwnerOK'
  BY WorkerAssumption DEF Inductive, TypeOK, OwnerOK, Busy, Live, CounterTypes
<1>8. OutputContiguous' /\ NoEarlyEnd'
  BY DEF Inductive, TypeOK, OutputContiguous, Live, InFlight, NoEarlyEnd
<1>9. InputContiguous'
  BY <1>d DEF Inductive, InputContiguous
<1>10. DoneMeansComplete'
  BY DEF Inductive, TypeOK, DoneMeansComplete, OwnerOK
<1> QED
  BY <1>1, <1>2, <1>3, <1>4, <1>5, <1>6, <1>7, <1>8, <1>9, <1>10 DEF Inductive, TypeOK

(* flush_input, all outcomes.                                              *)
LEMMA FlushInputInd ==
  ASSUME Inductive, Busy, NEW hi, hi = staged \/ hi = accepted, staged' = hi,
         UNCHANGED <<caller, accepted, outbuf, call, wakers, worker>>,
         NEW ok \in {"stage", "finish", "sendEnd", "poll2"},
         ok \in {"finish", "sendEnd"} => EffectiveEnd,
         ok = "sendEnd" => hi = accepted,
         NEW blocked \in {"finish", "poll2"}, blocked = "finish" => EffectiveEnd,
         FlushInput(hi, ok, blocked)
  PROVE  Inductive'
<1>a. pendLo \in Nat /\ hi \in Nat /\ Len(inq) \in Nat
  BY DEF Inductive, TypeOK, CounterTypes, QueueTypes
<1>b. pendLo < hi => pendLo # hi
  BY <1>a
<1>1. CASE pendLo = hi
  <2>1. ~(pendLo < hi)
    BY <1>a, <1>1
  <2>2. opc' = ok /\ UNCHANGED <<pendLo, flags, chans, cancel>>
    BY Zenon, <1>1, <2>1 DEF FlushInput
  <2> QED
    BY <1>1, <2>2, FlushKeepsInd
<1>2. CASE pendLo < hi /\ (inputDisconnected \/ (inOpen /\ Len(inq) >= QueueDepth))
  <2>1. Len(inq) >= QueueDepth => ~(Len(inq) < QueueDepth)
    BY <1>a, WorkerAssumption
  <2>2. opc' = blocked /\ UNCHANGED <<pendLo, flags, chans, cancel>>
    BY Zenon, <1>b, <1>2, <2>1 DEF FlushInput, RetainedAfterFull
  <2> QED
    BY <2>2, FlushKeepsInd
<1>3. CASE pendLo < hi /\ ~inputDisconnected /\ inOpen /\ Len(inq) < QueueDepth
  <2>1. /\ opc' = ok /\ pendLo' = hi
        /\ inq' = Append(inq, [kind |-> InputData, lo |-> pendLo, hi |-> hi])
        /\ UNCHANGED <<flags, inOpen, evq, evOpen, evRecv, cancel>>
    <3>1. pendLo # hi /\ ~(Len(inq) >= QueueDepth)
      BY <1>3, WorkerAssumption DEF Inductive, TypeOK, CounterTypes, QueueTypes
    <3> QED
      BY Zenon, <1>3, <3>1 DEF FlushInput
  <2> QED
    BY <1>3, <2>1, FlushSendsInd
<1>4. CASE pendLo < hi /\ ~inputDisconnected /\ ~inOpen /\ KeepsAfterDisconnect
  <2>1. /\ opc' = blocked /\ pendLo' = pendLo /\ sender' = FALSE /\ inputDisconnected' = TRUE
        /\ UNCHANGED <<endSent, done, failure, chans, cancel>>
    BY Zenon, <1>b, <1>4 DEF FlushInput
  <2> QED
    BY Zenon, <1>4, <2>1, FlushKeepsInd
<1>5. CASE pendLo < hi /\ ~inputDisconnected /\ ~inOpen /\ ~KeepsAfterDisconnect
  <2>1. pendLo' = hi /\ Fail("malformed")
    BY Zenon, <1>b, <1>5 DEF FlushInput
  <2> QED
    BY <2>1, FailInd DEF Inductive, TypeOK, FlagTypes
<1>6. (pendLo = hi \/ pendLo < hi) /\ (Len(inq) < QueueDepth \/ Len(inq) >= QueueDepth)
  <2>1. pendLo <= hi
    BY DEF Inductive, TypeOK, CounterTypes
  <2> QED
    BY <1>a, <2>1, WorkerAssumption
<1>7. CASE pendLo < hi /\ ~inputDisconnected /\ inOpen
  BY <1>2, <1>3, <1>6, <1>7
<1> QED
  BY <1>1, <1>2, <1>4, <1>5, <1>6, <1>7

(* drive sends End only when effective_end holds.                          *)
LEMMA AfterStagingFacts ==
  AfterStaging \in {"finish", "poll2"} /\ (AfterStaging = "finish" => EffectiveEnd)
  BY DEF AfterStaging

(* The first flush of drive.                                               *)
LEMMA FlushInd == ASSUME Inductive, Flush PROVE Inductive'
<1>1. Busy /\ UNCHANGED <<caller, staged, accepted, outbuf, call, wakers, worker>>
  BY DEF Busy, Flush
<1>2. CASE consumed < InLen
  <2>1. FlushInput(staged, "stage", AfterStaging)
    BY <1>2 DEF Flush
  <2> QED
    BY <1>1, <2>1, AfterStagingFacts, FlushInputInd
<1>3. CASE ~(consumed < InLen)
  <2>1. FlushInput(staged, AfterStaging, AfterStaging)
    BY <1>3 DEF Flush
  <2> QED
    BY <1>1, <2>1, AfterStagingFacts, FlushInputInd
<1> QED
  BY <1>2, <1>3

(* The flush after staging.                                                *)
LEMMA Flush2Ind == ASSUME Inductive, Flush2 PROVE Inductive'
<1>1. /\ Busy /\ UNCHANGED <<caller, staged, accepted, outbuf, call, wakers, worker>>
      /\ FlushInput(staged, AfterStaging, AfterStaging)
  BY DEF Busy, Flush2
<1> QED
  BY <1>1, AfterStagingFacts, FlushInputInd

(* validator.finish and the flush before End.                              *)
LEMMA FinishInd == ASSUME Inductive, Finish PROVE Inductive'
<1>1. Busy /\ EffectiveEnd /\ UNCHANGED <<caller, accepted, outbuf, call, wakers, worker>>
  BY DEF Busy, Finish, Inductive, EndOK
<1>2. CASE staged' = accepted /\ FlushInput(accepted, "sendEnd", "poll2")
  BY <1>1, <1>2, FlushInputInd
<1>3. CASE Fail("malformed") /\ UNCHANGED <<pendLo, staged>>
  BY <1>1, <1>3, FailInd DEF Inductive, TypeOK, FlagTypes
<1> QED
  BY <1>2, <1>3 DEF Finish

(* Staging accepts at most the remaining room, and exactly the bytes it    *)
(* reports as consumed.                                                    *)
LEMMA StageOnInd ==
  ASSUME Inductive, opc = "stage", opc' = "flush2", NEW taken \in Nat,
         taken <= MaxStaged - (accepted - pendLo), taken <= InLen - consumed,
         accepted' = accepted + taken, consumed' = consumed + taken,
         staged' = staged \/ staged' \in accepted..accepted + taken,
         UNCHANGED <<caller, pendLo, flags, chans, cancel, outbuf, produced, outLen, wakers, worker>>
  PROVE  Inductive'
<1>1. ControlTypes' /\ FlagTypes'
  BY WorkerAssumption
  DEF Inductive, TypeOK, ControlTypes, OwnerStates, WorkerStates, FlagTypes
<1>2. QueueTypes' /\ MessagesOK' /\ WorkerOK' /\ WakeOK'
  BY WorkerAssumption
  DEF Inductive, TypeOK, QueueTypes, MessagesOK, InFlight, WorkerOK, WakeOK
<1>3. EndOK'
  BY WorkerAssumption DEF Inductive, TypeOK, EndOK, EffectiveEnd, InLen
<1>4. CounterTypes'
  BY WorkerAssumption DEF Inductive, TypeOK, CounterTypes, InLen
<1>5. OwnerOK'
  BY WorkerAssumption DEF Inductive, TypeOK, OwnerOK, Busy, Live, InLen, CounterTypes
<1>6. OutputContiguous' /\ NoEarlyEnd'
  BY DEF Inductive, TypeOK, OutputContiguous, Live, InFlight, NoEarlyEnd
<1>7. InputContiguous'
  BY DEF Inductive, TypeOK, InputContiguous, Linked, CounterTypes
<1>8. DoneMeansComplete'
  BY DEF Inductive, TypeOK, DoneMeansComplete, OwnerOK
<1> QED
  BY <1>1, <1>2, <1>3, <1>4, <1>5, <1>6, <1>7, <1>8 DEF Inductive, TypeOK

(* Staging, or its rejection by the validator.                             *)
LEMMA StageInd == ASSUME Inductive, Stage PROVE Inductive'
<1> DEFINE taken == Min2(StagingRoom, InLen - consumed)
<1>1. /\ taken \in Nat /\ taken <= MaxStaged - (accepted - pendLo) /\ taken <= InLen - consumed
  BY WorkerAssumption DEF Min2, StagingRoom, InLen, Inductive, TypeOK, CounterTypes
<1>2. CASE \E kind \in {"malformed", "limit"} : Fail(kind)
  <2>1. /\ Busy /\ pendLo' = pendLo
        /\ UNCHANGED <<caller, outbuf, produced, outLen, wakers, worker>>
    BY DEF Stage, Busy
  <2>2. UNCHANGED <<accepted, staged, consumed>>
    BY <1>2 DEF Stage, Fail
  <2>3. notified' \in BOOLEAN
    BY <2>1 DEF Inductive, TypeOK, FlagTypes
  <2> QED
    BY <1>2, <2>1, <2>2, <2>3, FailInd
<1>3. CASE opc' = "flush2"
  <2>1. /\ opc = "stage" /\ accepted' = accepted + taken /\ consumed' = consumed + taken
        /\ UNCHANGED <<caller, pendLo, flags, chans, cancel, outbuf, produced, outLen, wakers, worker>>
    BY <1>3 DEF Stage, Fail
  <2>2. staged' = staged \/ staged' \in accepted..accepted + taken
    BY <1>3 DEF Stage, Fail
  <2> HIDE DEF taken
  <2> QED
    BY <1>1, <1>3, <2>1, <2>2, StageOnInd
<1> QED
  BY <1>2, <1>3 DEF Stage

(* try_send_end: everything accepted, hence the whole stream, is in front  *)
(* of End.                                                                 *)
LEMMA EndSentInd ==
  ASSUME Inductive, opc = "sendEnd", opc' = "poll2", inOpen, Len(inq) < QueueDepth,
         inq' = Append(inq, [kind |-> InputEnd, lo |-> pendLo, hi |-> pendLo]),
         endSent' = TRUE,
         UNCHANGED <<caller, staging, outbuf, call, wakers, worker, sender, inputDisconnected,
                     done, failure, inOpen, evq, evOpen, evRecv, cancel>>
  PROVE  Inductive'
<1> DEFINE e == [kind |-> InputEnd, lo |-> pendLo, hi |-> pendLo]
<1>a. e \in Messages({InputData, InputEnd}) /\ e.lo = pendLo /\ e.hi = pendLo
  BY DEF Inductive, TypeOK, CounterTypes, Messages
<1>b. inq' = Append(inq, e)
  OBVIOUS
<1> HIDE DEF e
<1>c. /\ inq' \in Seq(Messages({InputData, InputEnd})) /\ Len(inq') = Len(inq) + 1
      /\ Len(inq) \in Nat /\ inq'[Len(inq) + 1] = e
      /\ \A i \in 1..Len(inq) : inq'[i] = inq[i]
  <2>1. inq \in Seq(Messages({InputData, InputEnd}))
    BY DEF Inductive, TypeOK, QueueTypes
  <2> QED
    BY <1>a, <1>b, <2>1, AppendProperties
<1>d. failure = "none" => Linked(inq', got, pendLo)
  BY <1>a, <1>b, LinkedAppend DEF Inductive, TypeOK, QueueTypes, CounterTypes, InputContiguous
<1>e. pendLo = Supply
  BY DEF Inductive, TypeOK, CounterTypes, EndOK, EffectiveEnd, InLen, OwnerOK, Busy, Live
<1>1. ControlTypes' /\ FlagTypes'
  BY WorkerAssumption
  DEF Inductive, TypeOK, ControlTypes, OwnerStates, WorkerStates, FlagTypes
<1>2. WorkerOK' /\ WakeOK'
  BY DEF Inductive, TypeOK, WorkerOK, WakeOK
<1>3. QueueTypes'
  BY <1>c, WorkerAssumption DEF Inductive, TypeOK, QueueTypes
<1>4. MessagesOK'
  <2>1. ASSUME NEW i \in 1..Len(inq'), inq'[i].kind = InputEnd PROVE inq'[i].hi = Supply
    <3>1. CASE i \in 1..Len(inq)
      BY <1>c, <2>1, <3>1 DEF Inductive, MessagesOK
    <3>2. CASE i = Len(inq) + 1
      BY <1>a, <1>c, <1>e, <3>2
    <3>3. \A n \in Nat : \A j \in 1..n + 1 : j \in 1..n \/ j = n + 1
      OBVIOUS
    <3>4. i \in 1..Len(inq) + 1
      BY Zenon, <1>c
    <3> QED
      BY Zenon, <1>c, <3>1, <3>2, <3>3, <3>4
  <2>2. UNCHANGED <<evq, wev, wpc, emitted>>
    BY DEF worker
  <2> QED
    BY <2>1, <2>2 DEF Inductive, MessagesOK, InFlight
<1>5. CounterTypes' /\ EndOK'
  BY WorkerAssumption DEF Inductive, TypeOK, CounterTypes, EndOK, EffectiveEnd, InLen
<1>6. OwnerOK'
  BY WorkerAssumption DEF Inductive, TypeOK, OwnerOK, Busy, Live, CounterTypes
<1>7. OutputContiguous' /\ NoEarlyEnd'
  BY DEF Inductive, TypeOK, OutputContiguous, Live, InFlight, NoEarlyEnd
<1>8. InputContiguous'
  BY <1>d DEF Inductive, InputContiguous
<1>9. DoneMeansComplete'
  BY DEF Inductive, TypeOK, DoneMeansComplete, OwnerOK
<1> QED
  BY <1>1, <1>2, <1>3, <1>4, <1>5, <1>6, <1>7, <1>8, <1>9 DEF Inductive, TypeOK

(* try_send_end, all outcomes.                                             *)
LEMMA SendEndInd == ASSUME Inductive, SendEnd PROVE Inductive'
<1>1. Busy /\ EffectiveEnd /\ UNCHANGED <<caller, staging, outbuf, call, wakers, worker>>
  BY DEF Busy, SendEnd, Inductive, EndOK
<1>2. CASE ~endSent /\ ~inputDisconnected /\ inOpen /\ Len(inq) < QueueDepth
  <2>1. ~(Len(inq) >= QueueDepth)
    BY <1>2, WorkerAssumption DEF Inductive, TypeOK, QueueTypes
  <2> QED
    BY Zenon, <1>1, <1>2, <2>1, EndSentInd DEF SendEnd
<1>3. CASE ~endSent /\ ~inputDisconnected /\ ~inOpen /\ ~KeepsAfterDisconnect
  BY Zenon, <1>1, <1>3, FailInd DEF SendEnd, Inductive, TypeOK, FlagTypes
<1>4. CASE endSent \/ inputDisconnected \/ (inOpen /\ Len(inq) >= QueueDepth)
  <2>1. Len(inq) >= QueueDepth => ~(Len(inq) < QueueDepth)
    BY WorkerAssumption DEF Inductive, TypeOK, QueueTypes
  <2>2. opc' = "poll2" /\ UNCHANGED <<flags, chans, cancel>>
    BY <1>4, <2>1 DEF SendEnd, EndSentAfterFull
  <2> QED
    BY <1>1, <2>2, MoveInd
<1>5. CASE ~endSent /\ ~inputDisconnected /\ ~inOpen /\ KeepsAfterDisconnect
  <2>1. /\ opc' = "poll2" /\ sender' = FALSE /\ inputDisconnected' = TRUE
        /\ UNCHANGED <<endSent, done, failure, chans, cancel>>
    BY <1>5 DEF SendEnd
  <2> QED
    BY <1>1, <1>5, <2>1, FlushKeepsInd
<1>6. CASE ~endSent /\ ~inputDisconnected /\ inOpen
  BY <1>2, <1>4, <1>6, WorkerAssumption DEF Inductive, TypeOK, QueueTypes
<1> QED
  BY <1>3, <1>4, <1>5, <1>6

(* wait_event.                                                             *)
LEMMA WaitInd == ASSUME Inductive, Wait PROVE Inductive'
<1>1. Busy /\ produced < outLen /\ UNCHANGED wakers
  BY DEF Wait, Busy, Inductive, OwnerOK
<1> QED
  BY <1>1, HandleEventInd, DisconnectedInd DEF Wait

(* An empty poll after registering parks the task.                         *)
LEMMA ParkInd ==
  ASSUME Inductive, opc = "pollOnce", opc' = "parked", evq = <<>>, evOpen, consumed' = 0,
         UNCHANGED <<caller, flags, staging, outbuf, produced, outLen, chans, cancel, worker, wakers>>
  PROVE  Inductive'
<1>1. ControlTypes' /\ FlagTypes'
  BY WorkerAssumption
  DEF Inductive, TypeOK, ControlTypes, OwnerStates, WorkerStates, FlagTypes
<1>2. QueueTypes' /\ MessagesOK' /\ WorkerOK' /\ WakeOK'
  BY WorkerAssumption
  DEF Inductive, TypeOK, QueueTypes, MessagesOK, InFlight, WorkerOK, WakeOK
<1>3. EndOK'
  BY WorkerAssumption DEF Inductive, TypeOK, EndOK, EffectiveEnd, InLen
<1>4. CounterTypes'
  BY WorkerAssumption DEF Inductive, TypeOK, CounterTypes, OwnerOK
<1>5. OwnerOK'
  BY WorkerAssumption DEF Inductive, TypeOK, OwnerOK, Busy, Live, CounterTypes
<1>6. OutputContiguous' /\ NoEarlyEnd' /\ DoneMeansComplete'
  BY DEF Inductive, TypeOK, OutputContiguous, Live, InFlight, NoEarlyEnd,
         DoneMeansComplete
<1>7. InputContiguous'
  BY DEF Inductive, TypeOK, InputContiguous, Linked, OwnerOK
<1> QED
  BY <1>1, <1>2, <1>3, <1>4, <1>5, <1>6, <1>7 DEF Inductive, TypeOK

(* pump with a waker.                                                      *)
LEMMA PollOnceInd == ASSUME Inductive, PollOnce PROVE Inductive'
<1>1. Busy /\ produced < outLen /\ UNCHANGED wakers
  BY DEF PollOnce, Busy, Inductive, OwnerOK
<1> QED
  BY <1>1, HandleEventInd, DisconnectedInd, ParkInd DEF PollOnce
=============================================================================
