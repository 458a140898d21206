-------------------------- MODULE CodecWorkerProofs --------------------------
(***************************************************************************)
(* Proofs about the worker bridge of filter/xz.rs and filter/lzip.rs for   *)
(* every value of the constants: that the steps of the worker keep Inductive *)
(* (module CodecWorker), with the owner's from CodecWorkerOwnerProofs and  *)
(* CodecWorkerDriveProofs, and the theorems that follow from it.           *)
(***************************************************************************)
EXTENDS CodecWorkerDriveProofs

USE DEF vars, caller, owner, flags, staging, outbuf, call, chans, wakers, worker

(* The worker starts to send an event whose bytes follow what it emitted.  *)
LEMMA SendInd ==
  ASSUME Inductive, wpc \in {"decode", "ask"}, NEW n \in Nat, NEW kind \in {NeedInput, Output},
         kind = NeedInput => n = 0, NEW next \in {"decode", "recv"},
         Send([kind |-> kind, lo |-> emitted, hi |-> emitted + n], next),
         emitted' = emitted + n,
         UNCHANGED <<caller, owner, chans, wakers, cancel, got, ended, wresult>>
  PROVE  Inductive'
<1>a. /\ wev' \in Messages({NeedInput, Output}) /\ wev'.lo = emitted /\ wev'.hi = emitted + n
      /\ wev'.kind = kind
  BY DEF Send, Inductive, TypeOK, CounterTypes, Messages
<1>b. wpc' = "trySend" /\ wnext' = next
  BY DEF Send
<1>1. ControlTypes' /\ FlagTypes'
  BY WorkerAssumption
  DEF Inductive, TypeOK, ControlTypes, OwnerStates, WorkerStates, FlagTypes, Send
<1>2. WorkerOK'
  BY DEF Inductive, TypeOK, WorkerOK, Send
<1>3. QueueTypes'
  BY <1>a DEF Inductive, TypeOK, QueueTypes
<1>4. MessagesOK'
  BY <1>a, <1>b DEF Inductive, TypeOK, CounterTypes, MessagesOK, InFlight
<1>5. WakeOK'
  BY DEF Inductive, TypeOK, WakeOK, Send, WorkerOK
<1>6. CounterTypes' /\ EndOK'
  BY WorkerAssumption
  DEF Inductive, TypeOK, CounterTypes, EndOK, EffectiveEnd, InLen, Send
<1>7. OwnerOK'
  BY WorkerAssumption DEF Inductive, TypeOK, OwnerOK, Busy, Live, Send, WorkerOK
<1>8. InputContiguous' /\ NoEarlyEnd'
  BY DEF Inductive, TypeOK, InputContiguous, Linked, NoEarlyEnd, Live, Send
<1>9. OutputContiguous'
  BY <1>a, <1>b DEF Inductive, OutputContiguous, Live, InFlight
<1>10. DoneMeansComplete'
  BY DEF Inductive, TypeOK, DoneMeansComplete, Send, OwnerOK
<1> QED
  BY <1>1, <1>2, <1>3, <1>4, <1>5, <1>6, <1>7, <1>8, <1>9, <1>10 DEF Inductive, TypeOK

(* decode_worker leaves its loop.                                          *)
LEMMA ExitInd ==
  ASSUME Inductive, wpc \in {"decode", "ask", "recv", "tryRecv", "trySend", "blockSend"},
         wpc \in {"trySend", "blockSend"} => ~Live,
         NEW result \in {"ok", "malformed", "limit", "panic", "broken"}, Exit(result),
         result = "ok" => ended, result = "panic" => MayPanic,
         UNCHANGED <<caller, owner, chans, cancel, wnext, wev, got, ended, emitted>>,
         UNCHANGED wakers \/ WakeOwner
  PROVE  Inductive'
<1>1. ControlTypes'
  BY DEF Inductive, TypeOK, ControlTypes, OwnerStates, WorkerStates, Exit
<1>2. FlagTypes'
  <2>1. CASE UNCHANGED wakers
    BY <2>1 DEF Inductive, TypeOK, FlagTypes
  <2>2. CASE WakeOwner
    BY Zenon, <2>2 DEF WakeOwner, Inductive, TypeOK, FlagTypes
  <2> QED
    BY <2>1, <2>2
<1>3. QueueTypes' /\ MessagesOK' /\ WorkerOK'
  BY WorkerAssumption
  DEF Inductive, TypeOK, QueueTypes, MessagesOK, InFlight, WorkerOK, Exit
<1>4. WakeOK'
  BY Zenon DEF Inductive, TypeOK, WakeOK, Exit, WorkerOK, WakeOwner, OwnerOK, Live
<1>5. CounterTypes' /\ EndOK'
  BY WorkerAssumption
  DEF Inductive, TypeOK, CounterTypes, EndOK, EffectiveEnd, InLen, Exit
<1>6. OwnerOK'
  BY WorkerAssumption DEF Inductive, TypeOK, OwnerOK, Busy, Live, Exit, WorkerOK
<1>7. InputContiguous' /\ OutputContiguous' /\ NoEarlyEnd'
  BY DEF Inductive, TypeOK, InputContiguous, Linked, OutputContiguous, Live, InFlight,
         NoEarlyEnd, Exit
<1>8. DoneMeansComplete'
  BY DEF Inductive, TypeOK, DoneMeansComplete, Exit, OwnerOK
<1> QED
  BY <1>1, <1>2, <1>3, <1>4, <1>5, <1>6, <1>7, <1>8 DEF Inductive, TypeOK

(* The worker receives the next input message.                             *)
LEMMA ReadInd ==
  ASSUME Inductive, wpc \in {"recv", "tryRecv"}, inq # <<>>, wpc' = "decode",
         inq' = Tail(inq), got' = Head(inq).hi, ended' = (Head(inq).kind = InputEnd),
         UNCHANGED <<caller, owner, inOpen, evq, evOpen, evRecv, wakers, cancel, wnext, wev,
                     emitted, wresult>>
  PROVE  Inductive'
<1> DEFINE e == Head(inq)
<1>a. /\ e = inq[1] /\ e \in Messages({InputData, InputEnd})
      /\ Len(inq) \in Nat /\ Len(inq) > 0
      /\ Tail(inq) \in Seq(Messages({InputData, InputEnd})) /\ Len(Tail(inq)) = Len(inq) - 1
      /\ \A i \in 1..Len(inq) - 1 : Tail(inq)[i] = inq[i + 1]
  BY TailFacts DEF Inductive, TypeOK, QueueTypes
<1>b. e.hi \in Nat /\ (e.kind = InputEnd => e.hi = Supply)
  BY <1>a DEF Inductive, MessagesOK, Messages
<1>c. failure = "none" => Linked(Tail(inq), e.hi, pendLo)
  BY LinkedTail DEF Inductive, InputContiguous, WorkerOK, TypeOK, QueueTypes
<1>d. inq' = Tail(inq) /\ got' = e.hi /\ ended' = (e.kind = InputEnd)
  OBVIOUS
<1> HIDE DEF e
<1>1. ControlTypes'
  BY <1>d DEF Inductive, TypeOK, ControlTypes, OwnerStates, WorkerStates
<1>2. FlagTypes'
  BY <1>d DEF Inductive, TypeOK, FlagTypes
<1>3. WorkerOK'
  BY <1>d DEF Inductive, TypeOK, WorkerOK
<1>4. QueueTypes'
  BY <1>a, <1>d, WorkerAssumption DEF Inductive, TypeOK, QueueTypes
<1>5. MessagesOK'
  BY <1>a, <1>d DEF Inductive, MessagesOK, InFlight
<1>6. WakeOK'
  BY <1>d DEF Inductive, TypeOK, WakeOK, WorkerOK
<1>7. EndOK'
  BY WorkerAssumption, <1>d DEF Inductive, TypeOK, EndOK, EffectiveEnd, InLen
<1>8. CounterTypes'
  BY WorkerAssumption, <1>d, <1>b DEF Inductive, TypeOK, CounterTypes
<1>9. OwnerOK'
  BY WorkerAssumption, <1>d DEF Inductive, TypeOK, OwnerOK, Busy, Live, WorkerOK
<1>10. OutputContiguous'
  BY <1>d DEF Inductive, TypeOK, OutputContiguous, Live, InFlight
<1>11. InputContiguous'
  BY <1>c, <1>d DEF Inductive, InputContiguous
<1>12. NoEarlyEnd'
  BY Zenon, <1>b, <1>d DEF NoEarlyEnd
<1>13. DoneMeansComplete'
  BY <1>d DEF Inductive, TypeOK, DoneMeansComplete, OwnerOK
<1> QED
  BY <1>1, <1>2, <1>3, <1>4, <1>5, <1>6, <1>7, <1>8, <1>9, <1>10, <1>11, <1>12, <1>13
  DEF Inductive, TypeOK

(* A live owner keeps its sender while the worker can receive, so a        *)
(* disconnection ends no live stream.                                      *)
LEMMA InputGoneInd ==
  ASSUME Inductive, wpc \in {"recv", "tryRecv"}, ~sender, wpc' = "decode", ended' = TRUE,
         UNCHANGED <<caller, owner, chans, wakers, cancel, wnext, wev, got, emitted, wresult>>
  PROVE  Inductive'
<1>1. ControlTypes' /\ FlagTypes'
  BY WorkerAssumption
  DEF Inductive, TypeOK, ControlTypes, OwnerStates, WorkerStates, FlagTypes
<1>2. QueueTypes' /\ MessagesOK' /\ WorkerOK'
  BY WorkerAssumption DEF Inductive, TypeOK, QueueTypes, MessagesOK, InFlight, WorkerOK
<1>3. WakeOK'
  BY DEF Inductive, TypeOK, WakeOK, WorkerOK
<1>4. CounterTypes' /\ EndOK'
  BY WorkerAssumption DEF Inductive, TypeOK, CounterTypes, EndOK, EffectiveEnd, InLen
<1>5. OwnerOK'
  BY WorkerAssumption DEF Inductive, TypeOK, OwnerOK, Busy, Live, WorkerOK
<1>6. InputContiguous' /\ OutputContiguous'
  BY DEF Inductive, TypeOK, InputContiguous, Linked, OutputContiguous, Live, InFlight
<1>7. NoEarlyEnd'
  BY DEF Inductive, TypeOK, NoEarlyEnd, Live, OwnerOK, WorkerOK
<1>8. DoneMeansComplete'
  BY DEF Inductive, TypeOK, DoneMeansComplete, OwnerOK
<1> QED
  BY <1>1, <1>2, <1>3, <1>4, <1>5, <1>6, <1>7, <1>8 DEF Inductive, TypeOK

(* A receive that has nothing yet.                                         *)
LEMMA TimeoutInd ==
  ASSUME Inductive, wpc \in {"recv", "tryRecv", "decode"}, wpc' \in {"ask", "tryRecv"},
         UNCHANGED <<caller, owner, chans, wakers, cancel, wnext, wev, got, ended, emitted, wresult>>
  PROVE  Inductive'
<1>1. ControlTypes' /\ FlagTypes'
  BY WorkerAssumption
  DEF Inductive, TypeOK, ControlTypes, OwnerStates, WorkerStates, FlagTypes
<1>2. QueueTypes' /\ MessagesOK' /\ WorkerOK'
  BY WorkerAssumption DEF Inductive, TypeOK, QueueTypes, MessagesOK, InFlight, WorkerOK
<1>3. WakeOK'
  BY DEF Inductive, TypeOK, WakeOK, WorkerOK
<1>4. CounterTypes' /\ EndOK'
  BY WorkerAssumption DEF Inductive, TypeOK, CounterTypes, EndOK, EffectiveEnd, InLen
<1>5. OwnerOK'
  BY WorkerAssumption DEF Inductive, TypeOK, OwnerOK, Busy, Live, WorkerOK
<1>6. InputContiguous' /\ OutputContiguous' /\ NoEarlyEnd'
  BY DEF Inductive, TypeOK, InputContiguous, Linked, OutputContiguous, Live, InFlight,
         NoEarlyEnd
<1>7. DoneMeansComplete'
  BY DEF Inductive, TypeOK, DoneMeansComplete, OwnerOK
<1> QED
  BY <1>1, <1>2, <1>3, <1>4, <1>5, <1>6, <1>7 DEF Inductive, TypeOK

(* A receive of InputPipe::read.                                           *)
LEMMA ReceiveInd ==
  ASSUME Inductive, wpc \in {"recv", "tryRecv"}, Receive,
         UNCHANGED <<caller, owner, inOpen, evq, evOpen, evRecv, wakers, cancel, wnext, wev, emitted>>
  PROVE  Inductive'
<1>1. CASE inq # <<>>
  BY <1>1, ReadInd DEF Receive
<1>2. CASE inq = <<>> /\ Cancelled
  BY <1>2, ExitInd DEF Receive
<1>3. CASE inq = <<>> /\ ~Cancelled
  BY <1>3, InputGoneInd DEF Receive
<1> QED
  BY <1>1, <1>2, <1>3

(* The blocking receive.                                                   *)
LEMMA RecvInd == ASSUME Inductive, Recv PROVE Inductive'
  BY ReceiveInd, ExitInd, TimeoutInd DEF Recv

(* The lzip try_recv.                                                      *)
LEMMA TryRecvInd == ASSUME Inductive, TryRecv PROVE Inductive'
  BY ReceiveInd, TimeoutInd DEF TryRecv

(* A step of the decoding library.                                         *)
LEMMA DecodeInd == ASSUME Inductive, Decode PROVE Inductive'
<1>1. CASE \E result \in {"ok", "malformed", "limit", "panic", "broken"} :
             /\ Exit(result) /\ UNCHANGED <<wev, wnext, emitted>>
             /\ result = "ok" => ended
             /\ result = "panic" => MayPanic
  BY <1>1, ExitInd DEF Decode
<1>2. CASE wpc' = "tryRecv" /\ UNCHANGED <<wev, wnext, emitted, wresult>>
  BY <1>2, TimeoutInd DEF Decode
<1>3. CASE /\ Send([kind |-> NeedInput, lo |-> emitted, hi |-> emitted], "recv")
           /\ UNCHANGED <<emitted, wresult>>
  <2>1. emitted + 0 = emitted
    BY DEF Inductive, TypeOK, CounterTypes
  <2> QED
    BY Zenon, <1>3, <2>1, SendInd DEF Decode
<1>4. CASE \E n \in 1..MaxChunk :
             /\ emitted' = emitted + n
             /\ Send([kind |-> Output, lo |-> emitted, hi |-> emitted + n], "decode")
             /\ UNCHANGED wresult
  <2>1. PICK n \in 1..MaxChunk :
          /\ emitted' = emitted + n
          /\ Send([kind |-> Output, lo |-> emitted, hi |-> emitted + n], "decode")
          /\ UNCHANGED wresult
    BY <1>4
  <2>2. n \in Nat /\ Output # NeedInput
    BY WorkerAssumption DEF Output, NeedInput
  <2>3. /\ wpc = "decode"
        /\ UNCHANGED <<caller, owner, chans, wakers, cancel, got, ended>>
    BY DEF Decode
  <2> QED
    BY Zenon, <2>1, <2>2, <2>3, SendInd
<1> QED
  BY <1>1, <1>2, <1>3, <1>4 DEF Decode

(* The lzip worker asks again.                                             *)
LEMMA AskInd == ASSUME Inductive, Ask PROVE Inductive'
<1>1. CASE Cancelled
  BY <1>1, ExitInd DEF Ask
<1>2. CASE ~Cancelled
  <2>1. emitted + 0 = emitted
    BY DEF Inductive, TypeOK, CounterTypes
  <2> QED
    BY Zenon, <1>2, <2>1, SendInd DEF Ask
<1> QED
  BY <1>1, <1>2

(* An event enters the channel.                                            *)
LEMMA DeliverInd ==
  ASSUME Inductive, wpc \in {"trySend", "blockSend"}, evRecv, Len(evq) < QueueDepth,
         evq' = Append(evq, wev), wpc' = "wake",
         UNCHANGED <<caller, owner, inq, inOpen, evOpen, evRecv, wakers, cancel, wnext, wev,
                     got, ended, emitted, wresult>>
  PROVE  Inductive'
<1>a. /\ evq' \in Seq(Messages({NeedInput, Output})) /\ Len(evq') = Len(evq) + 1
      /\ Len(evq) \in Nat /\ evq'[Len(evq) + 1] = wev
      /\ \A i \in 1..Len(evq) : evq'[i] = evq[i]
  BY AppendProperties DEF Inductive, TypeOK, QueueTypes
<1>b. Live => Linked(evq', outHi, wev.hi)
  BY LinkedAppend DEF Inductive, OutputContiguous, InFlight, TypeOK, QueueTypes, CounterTypes
<1>c. wev.hi = emitted
  BY DEF Inductive, MessagesOK, InFlight
<1>1. ControlTypes' /\ FlagTypes'
  BY WorkerAssumption
  DEF Inductive, TypeOK, ControlTypes, OwnerStates, WorkerStates, FlagTypes
<1>2. WorkerOK'
  BY DEF Inductive, TypeOK, WorkerOK
<1>3. QueueTypes'
  BY <1>a, WorkerAssumption DEF Inductive, TypeOK, QueueTypes
<1>4. MessagesOK'
  BY <1>a DEF Inductive, MessagesOK, InFlight
<1>5. WakeOK'
  BY DEF Inductive, TypeOK, WakeOK, WorkerOK
<1>6. CounterTypes' /\ EndOK'
  BY WorkerAssumption DEF Inductive, TypeOK, CounterTypes, EndOK, EffectiveEnd, InLen
<1>7. OwnerOK'
  BY WorkerAssumption DEF Inductive, TypeOK, OwnerOK, Busy, Live, WorkerOK
<1>8. InputContiguous' /\ NoEarlyEnd'
  BY Zenon DEF Inductive, TypeOK, InputContiguous, Linked, NoEarlyEnd, Live
<1>9. OutputContiguous'
  BY Zenon, <1>b, <1>c DEF Inductive, OutputContiguous, Live, InFlight
<1>10. DoneMeansComplete'
  BY DEF Inductive, TypeOK, DoneMeansComplete, OwnerOK
<1> QED
  BY <1>1, <1>2, <1>3, <1>4, <1>5, <1>6, <1>7, <1>8, <1>9, <1>10 DEF Inductive, TypeOK

(* try_send finds the channel full.                                        *)
LEMMA TrySendFullInd ==
  ASSUME Inductive, wpc = "trySend", wpc' = "wakeFull",
         UNCHANGED <<caller, owner, chans, wakers, cancel, wnext, wev, got, ended, emitted, wresult>>
  PROVE  Inductive'
<1>1. ControlTypes' /\ FlagTypes'
  BY WorkerAssumption
  DEF Inductive, TypeOK, ControlTypes, OwnerStates, WorkerStates, FlagTypes
<1>2. QueueTypes' /\ MessagesOK' /\ WorkerOK'
  BY WorkerAssumption DEF Inductive, TypeOK, QueueTypes, MessagesOK, InFlight, WorkerOK
<1>3. WakeOK'
  BY DEF Inductive, TypeOK, WakeOK, WorkerOK
<1>4. CounterTypes' /\ EndOK'
  BY WorkerAssumption DEF Inductive, TypeOK, CounterTypes, EndOK, EffectiveEnd, InLen
<1>5. OwnerOK'
  BY WorkerAssumption DEF Inductive, TypeOK, OwnerOK, Busy, Live, WorkerOK
<1>6. InputContiguous' /\ OutputContiguous' /\ NoEarlyEnd'
  BY Zenon DEF Inductive, TypeOK, InputContiguous, Linked, OutputContiguous, Live, InFlight,
         NoEarlyEnd
<1>7. DoneMeansComplete'
  BY DEF Inductive, TypeOK, DoneMeansComplete, OwnerOK
<1> QED
  BY <1>1, <1>2, <1>3, <1>4, <1>5, <1>6, <1>7 DEF Inductive, TypeOK

(* The fast path of EventSink::send.                                       *)
LEMMA TrySendInd == ASSUME Inductive, TrySend PROVE Inductive'
<1>1. CASE evRecv /\ Len(evq) < QueueDepth /\ wpc' = "wake"
  BY <1>1, DeliverInd DEF TrySend, Exit
<1>2. CASE ~evRecv
  BY <1>2, ExitInd DEF TrySend, Live
<1>3. CASE /\ wpc' = "wakeFull"
           /\ UNCHANGED <<evq, wresult>>
  BY <1>3, TrySendFullInd DEF TrySend
<1> QED
  BY <1>1, <1>2, <1>3 DEF TrySend

(* The blocking path of EventSink::send.                                   *)
LEMMA BlockSendInd == ASSUME Inductive, BlockSend PROVE Inductive'
<1>1. CASE evRecv
  BY <1>1, DeliverInd DEF BlockSend
<1>2. CASE ~evRecv
  BY <1>2, ExitInd DEF BlockSend, Live
<1> QED
  BY <1>1, <1>2

(* The wake before a blocking send.                                        *)
LEMMA WakeFullInd == ASSUME Inductive, WakeFull PROVE Inductive'
<1>1. ControlTypes'
  BY DEF Inductive, TypeOK, ControlTypes, OwnerStates, WorkerStates, WakeFull, WakeOwner
<1>2. FlagTypes'
  BY Zenon, WorkerAssumption DEF Inductive, TypeOK, FlagTypes, WakeFull, WakeOwner
<1>3. QueueTypes' /\ WakeOK'
  BY Zenon, WorkerAssumption DEF Inductive, TypeOK, QueueTypes, WakeOK, WakeFull, WakeOwner
<1>4. MessagesOK'
  BY DEF Inductive, TypeOK, MessagesOK, InFlight, WakeFull, WakeOwner, ControlTypes
<1>5. WorkerOK'
  BY DEF Inductive, TypeOK, WorkerOK, WakeFull, WakeOwner, ControlTypes
<1>6. CounterTypes' /\ EndOK'
  BY WorkerAssumption
  DEF Inductive, TypeOK, CounterTypes, EndOK, EffectiveEnd, InLen, WakeFull, WakeOwner
<1>7. OwnerOK'
  BY WorkerAssumption DEF Inductive, TypeOK, OwnerOK, Busy, Live, WakeFull, WakeOwner
<1>8. InputContiguous' /\ NoEarlyEnd' /\ DoneMeansComplete'
  BY Zenon DEF Inductive, TypeOK, InputContiguous, Linked, NoEarlyEnd, Live,
         DoneMeansComplete, WakeFull, WakeOwner
<1>9. OutputContiguous'
  BY DEF Inductive, TypeOK, OutputContiguous, Live, InFlight, WakeFull, WakeOwner,
         ControlTypes
<1> QED
  BY <1>1, <1>2, <1>3, <1>4, <1>5, <1>6, <1>7, <1>8, <1>9 DEF Inductive, TypeOK

(* The wake after a delivered event: whoever was parked is notified.       *)
LEMMA WakeInd == ASSUME Inductive, Wake PROVE Inductive'
<1>1. ControlTypes'
  BY DEF Inductive, TypeOK, ControlTypes, OwnerStates, WorkerStates, Wake, WakeOwner
<1>2. FlagTypes'
  BY Zenon, WorkerAssumption DEF Inductive, TypeOK, FlagTypes, Wake, WakeOwner
<1>3. QueueTypes' /\ WakeOK'
  BY Zenon, WorkerAssumption DEF Inductive, TypeOK, QueueTypes, WakeOK, Wake, WakeOwner
<1>4. MessagesOK'
  BY DEF Inductive, TypeOK, MessagesOK, InFlight, Wake, WakeOwner, ControlTypes
<1>5. WorkerOK'
  BY DEF Inductive, TypeOK, WorkerOK, Wake, WakeOwner, ControlTypes
<1>6. CounterTypes' /\ EndOK'
  BY WorkerAssumption
  DEF Inductive, TypeOK, CounterTypes, EndOK, EffectiveEnd, InLen, Wake, WakeOwner
<1>7. OwnerOK'
  BY WorkerAssumption DEF Inductive, TypeOK, OwnerOK, Busy, Live, Wake, WakeOwner
<1>8. InputContiguous' /\ NoEarlyEnd' /\ DoneMeansComplete'
  BY Zenon DEF Inductive, TypeOK, InputContiguous, Linked, NoEarlyEnd, Live,
         DoneMeansComplete, Wake, WakeOwner
<1>9. OutputContiguous'
  BY DEF Inductive, TypeOK, OutputContiguous, Live, InFlight, Wake, WakeOwner,
         ControlTypes
<1> QED
  BY <1>1, <1>2, <1>3, <1>4, <1>5, <1>6, <1>7, <1>8, <1>9 DEF Inductive, TypeOK

(* The wake after the senders are gone.                                    *)
LEMMA FinalWakeInd == ASSUME Inductive, FinalWake PROVE Inductive'
<1>1. ControlTypes'
  BY DEF Inductive, TypeOK, ControlTypes, OwnerStates, WorkerStates, FinalWake,
         WakeOwner
<1>2. FlagTypes'
  BY Zenon, WorkerAssumption DEF Inductive, TypeOK, FlagTypes, FinalWake, WakeOwner
<1>3. QueueTypes' /\ WakeOK'
  BY Zenon, WorkerAssumption DEF Inductive, TypeOK, QueueTypes, WakeOK, FinalWake, WakeOwner
<1>4. MessagesOK'
  BY DEF Inductive, TypeOK, MessagesOK, InFlight, FinalWake, WakeOwner, ControlTypes
<1>5. WorkerOK'
  BY DEF Inductive, TypeOK, WorkerOK, FinalWake, WakeOwner, ControlTypes
<1>6. CounterTypes' /\ EndOK'
  BY WorkerAssumption
  DEF Inductive, TypeOK, CounterTypes, EndOK, EffectiveEnd, InLen, FinalWake, WakeOwner
<1>7. OwnerOK'
  BY WorkerAssumption DEF Inductive, TypeOK, OwnerOK, Busy, Live, FinalWake, WakeOwner
<1>8. InputContiguous' /\ NoEarlyEnd' /\ DoneMeansComplete'
  BY Zenon DEF Inductive, TypeOK, InputContiguous, Linked, NoEarlyEnd, Live,
         DoneMeansComplete, FinalWake, WakeOwner
<1>9. OutputContiguous'
  BY DEF Inductive, TypeOK, OutputContiguous, Live, InFlight, FinalWake, WakeOwner,
         ControlTypes
<1> QED
  BY <1>1, <1>2, <1>3, <1>4, <1>5, <1>6, <1>7, <1>8, <1>9 DEF Inductive, TypeOK

(* The worker drops its input receiver.                                    *)
LEMMA DropInputInd == ASSUME Inductive, DropInput PROVE Inductive'
<1>1. ControlTypes'
  BY DEF Inductive, TypeOK, ControlTypes, OwnerStates, WorkerStates, DropInput
<1>2. FlagTypes'
  BY Zenon, WorkerAssumption DEF Inductive, TypeOK, FlagTypes, DropInput
<1>3. MessagesOK' /\ WorkerOK' /\ WakeOK'
  <2>1. MessagesOK'
    BY DEF Inductive, MessagesOK, InFlight, DropInput
  <2>2. WorkerOK'
    BY DEF Inductive, WorkerOK, DropInput
  <2>3. WakeOK'
    BY DEF Inductive, WakeOK, DropInput
  <2> QED
    BY <2>1, <2>2, <2>3
<1>4. QueueTypes'
  BY WorkerAssumption, EmptySeq DEF Inductive, TypeOK, QueueTypes, DropInput
<1>5. CounterTypes' /\ EndOK'
  BY WorkerAssumption
  DEF Inductive, TypeOK, CounterTypes, EndOK, EffectiveEnd, InLen, DropInput
<1>6. OwnerOK'
  BY WorkerAssumption DEF Inductive, TypeOK, OwnerOK, Busy, Live, DropInput
<1>7. InputContiguous' /\ OutputContiguous' /\ NoEarlyEnd' /\ DoneMeansComplete'
  BY DEF Inductive, TypeOK, InputContiguous, Linked, OutputContiguous, Live, InFlight,
         NoEarlyEnd, DoneMeansComplete, DropInput
<1> QED
  BY <1>1, <1>2, <1>3, <1>4, <1>5, <1>6, <1>7 DEF Inductive, TypeOK

(* The worker drops its last event sender.                                 *)
LEMMA DropEventsInd == ASSUME Inductive, DropEvents PROVE Inductive'
<1>1. ControlTypes'
  BY DEF Inductive, TypeOK, ControlTypes, OwnerStates, WorkerStates, DropEvents
<1>2. FlagTypes'
  BY Zenon, WorkerAssumption DEF Inductive, TypeOK, FlagTypes, DropEvents
<1>3. MessagesOK' /\ WorkerOK' /\ WakeOK'
  BY DEF Inductive, TypeOK, MessagesOK, InFlight, WorkerOK, WakeOK, DropEvents
<1>4. QueueTypes'
  BY WorkerAssumption, EmptySeq DEF Inductive, TypeOK, QueueTypes, DropEvents
<1>5. CounterTypes' /\ EndOK'
  BY WorkerAssumption
  DEF Inductive, TypeOK, CounterTypes, EndOK, EffectiveEnd, InLen, DropEvents
<1>6. OwnerOK'
  BY WorkerAssumption DEF Inductive, TypeOK, OwnerOK, Busy, Live, DropEvents
<1>7. InputContiguous' /\ OutputContiguous' /\ NoEarlyEnd' /\ DoneMeansComplete'
  BY Zenon DEF Inductive, TypeOK, InputContiguous, Linked, OutputContiguous, Live, InFlight,
         NoEarlyEnd, DoneMeansComplete, DropEvents
<1> QED
  BY <1>1, <1>2, <1>3, <1>4, <1>5, <1>6, <1>7 DEF Inductive, TypeOK

(* Nothing changes.                                                        *)
LEMMA StutterInd == ASSUME Inductive, UNCHANGED vars PROVE Inductive'
<1>1. ControlTypes' /\ FlagTypes'
  BY WorkerAssumption
  DEF Inductive, TypeOK, ControlTypes, OwnerStates, WorkerStates, FlagTypes
<1>2. QueueTypes' /\ MessagesOK' /\ WorkerOK' /\ WakeOK'
  BY WorkerAssumption
  DEF Inductive, TypeOK, QueueTypes, MessagesOK, InFlight, WorkerOK, WakeOK
<1>3. CounterTypes' /\ EndOK'
  BY WorkerAssumption DEF Inductive, TypeOK, CounterTypes, EndOK, EffectiveEnd, InLen
<1>4. OwnerOK'
  BY WorkerAssumption DEF Inductive, TypeOK, OwnerOK, Busy, Live
<1>5. InputContiguous' /\ OutputContiguous' /\ NoEarlyEnd' /\ DoneMeansComplete'
  BY DEF Inductive, TypeOK, InputContiguous, Linked, OutputContiguous, Live, InFlight,
         NoEarlyEnd, DoneMeansComplete
<1> QED
  BY <1>1, <1>2, <1>3, <1>4, <1>5 DEF Inductive, TypeOK

(* A new decoder satisfies the invariant.                                  *)
LEMMA InitInd == Init => Inductive
<1> SUFFICES ASSUME Init PROVE Inductive
  OBVIOUS
<1>1. TypeOK
  <2>1. ControlTypes /\ FlagTypes
    BY Zenon DEF Init, ControlTypes, FlagTypes, OwnerStates, WorkerStates
  <2>2. QueueTypes
    BY WorkerAssumption, EmptySeq DEF Init, QueueTypes, Messages
  <2>3. CounterTypes
    BY WorkerAssumption DEF Init, CounterTypes
  <2> QED
    BY <2>1, <2>2, <2>3 DEF TypeOK
<1>2. MessagesOK /\ WorkerOK /\ OwnerOK /\ EndOK /\ WakeOK
  <2>1. MessagesOK
    BY DEF Init, MessagesOK, InFlight
  <2>2. WorkerOK /\ WakeOK
    BY DEF Init, WorkerOK, WakeOK
  <2>3. OwnerOK
    BY DEF Init, OwnerOK, Live, Busy
  <2>4. EndOK
    BY WorkerAssumption DEF Init, EndOK
  <2> QED
    BY <2>1, <2>2, <2>3, <2>4
<1>3. InputContiguous /\ OutputContiguous /\ NoEarlyEnd /\ DoneMeansComplete
  BY DEF Init, InputContiguous, OutputContiguous, NoEarlyEnd, DoneMeansComplete, Linked,
         InFlight, Live
<1> QED
  BY <1>1, <1>2, <1>3 DEF Inductive

(* Every step preserves the invariant.                                     *)
LEMMA NextInd == Inductive /\ [Next]_vars => Inductive'
<1> SUFFICES ASSUME Inductive, [Next]_vars PROVE Inductive'
  OBVIOUS
<1>1. CASE OwnerStep
  BY <1>1, CancellingInd, RefillInd, CallInd, RepollInd, JoinInd, Poll1Ind, FlushInd, StageInd,
     Flush2Ind, FinishInd, SendEndInd, Poll2Ind, DecideInd, WaitInd, RegisterInd, PollOnceInd
  DEF OwnerStep
<1>2. CASE Drop
  BY <1>2, DropInd
<1>3. CASE WorkerStep
  BY <1>3, DecodeInd, RecvInd, TryRecvInd, AskInd, TrySendInd, WakeFullInd, BlockSendInd, WakeInd,
     DropInputInd, DropEventsInd, FinalWakeInd
  DEF WorkerStep
<1>4. CASE UNCHANGED vars
  BY <1>4, StutterInd
<1> QED
  BY <1>1, <1>2, <1>3, <1>4 DEF Next

(* The bridge of XzDecoder and LzipDecoder always satisfies its inductive  *)
(* invariant, for every queue depth, staging bound, stream length and      *)
(* slice size.                                                             *)
THEOREM Invariance == Spec => []Inductive
  BY InitInd, NextInd, PTL DEF Spec

(* Types and bounds: channels never exceed QUEUE_DEPTH, retained input     *)
(* never exceeds MAX_STAGED.                                               *)
THEOREM TypeCorrect == Spec => []TypeOK
<1>1. Inductive => TypeOK
  BY DEF Inductive
<1> QED
  BY <1>1, Invariance, PTL

(* Compressed bytes reach the decoder thread once and in order             *)
(* (flush_input, InputPipe::read).                                         *)
THEOREM InputOnceInOrder == Spec => []InputContiguous
<1>1. Inductive => InputContiguous
  BY DEF Inductive
<1> QED
  BY <1>1, Invariance, PTL

(* Decoded bytes reach the caller once and in order (EventSink::send,      *)
(* handle_event, drain_output).                                            *)
THEOREM OutputOnceInOrder == Spec => []OutputContiguous
<1>1. Inductive => OutputContiguous
  BY DEF Inductive
<1> QED
  BY <1>1, Invariance, PTL

(* Done is reported only after all output, a successful worker and the     *)
(* whole input (finish_worker).                                            *)
THEOREM DoneIsComplete == Spec => []DoneMeansComplete
<1>1. Inductive => DoneMeansComplete
  BY DEF Inductive
<1> QED
  BY <1>1, Invariance, PTL

(* The worker sees the end of input only after the whole stream            *)
(* (try_send_end).                                                         *)
THEOREM EndNeverOvertakes == Spec => []NoEarlyEnd
<1>1. Inductive => NoEarlyEnd
  BY DEF Inductive
<1> QED
  BY <1>1, Invariance, PTL

(* A parked task is never forgotten when the decoding library does not     *)
(* panic (pump, EventSink::send, decode_worker).                           *)
THEOREM WakeupsAreKept == ~MayPanic => (Spec => []NoLostWakeup)
<1> SUFFICES ASSUME ~MayPanic PROVE Spec => []NoLostWakeup
  OBVIOUS
<1>1. Inductive => NoLostWakeup
  BY DEF Inductive, WakeOK, WorkerOK, NoLostWakeup
<1> QED
  BY <1>1, Invariance, PTL

(* Only handle_event moves pending_output, and the owner reaches it with an *)
(* empty one: drive polls for events only while the output slice has room. *)
THEOREM PendingOutputIsDrained == Spec => PendingOutputDrained
<1>1. ASSUME Inductive, [Next]_vars, outHi' # outHi PROVE outLo = outHi
  <2>1. Poll1 \/ Poll2 \/ Wait \/ PollOnce
    BY Zenon, <1>1 DEF Next, OwnerStep, WorkerStep, Cancelling, Refill, Call, Repoll, Drive, Fail, Join,
                Flush, FlushInput, Stage, Flush2, Finish, SendEnd, Decide, Register, Drop,
                Decode, Recv, TryRecv, Ask, TrySend, WakeFull, BlockSend, Wake, DropInput,
                DropEvents, FinalWake
  <2>2. Busy /\ produced < outLen
    BY Zenon, <1>1, <2>1 DEF Poll1, Poll2, Wait, PollOnce, Disconnected, Busy, Inductive, OwnerOK,
                      TypeOK, CounterTypes
  <2> QED
    BY <1>1, <2>2 DEF Inductive, OwnerOK
<1> QED
  BY <1>1, Invariance, PTL DEF Spec, PendingOutputDrained

=============================================================================
