----------------------------- MODULE CodecWorker -----------------------------
(***************************************************************************)
(* The bounded worker bridge of filter/xz.rs and filter/lzip.rs: a caller  *)
(* drives a codec object (the owner); a decoder thread (the worker) pulls  *)
(* compressed bytes from one bounded channel and pushes events into        *)
(* another.  One step is one channel, waker or join operation.             *)
(*                                                                         *)
(* Bytes are positions in their stream: a message or a buffer that holds   *)
(* the bytes lo+1..hi is an interval with the fields lo and hi.            *)
(***************************************************************************)
EXTENDS Naturals, Sequences

CONSTANTS
  Lzip,         \* TRUE: LzipDecoder, FALSE: XzDecoder
  Async,        \* TRUE: poll_process with a waker, FALSE: blocking process
  MayPanic,     \* TRUE: the decoding library may panic on the worker thread
  QueueDepth,   \* QUEUE_DEPTH, the capacity of each channel
  MaxStaged,    \* MAX_STAGED, the bound on retained input
  MaxHeld,      \* the longest header the XZ validator withholds
  Supply,       \* bytes of the compressed stream
  MaxRefill,    \* the longest read of the caller's source
  EndWithInput, \* TRUE: the last bytes may be passed together with End
  OutputSizes,  \* lengths of the output slices the caller offers
  MaxChunk,     \* BUFFER, the longest output message of the worker
  MaxOutput     \* bytes the worker can decode from the stream

ASSUME WorkerAssumption ==
  /\ Lzip \in BOOLEAN /\ Async \in BOOLEAN
  /\ MayPanic \in BOOLEAN /\ EndWithInput \in BOOLEAN
  /\ QueueDepth \in Nat \ {0} /\ MaxStaged \in Nat /\ MaxHeld \in Nat
  /\ MaxHeld < MaxStaged
  /\ Supply \in Nat /\ MaxRefill \in Nat \ {0}
  /\ OutputSizes \subseteq Nat \ {0}   \* no reader offers an empty slice
  /\ ~(Async /\ EndWithInput)          \* AsyncCodecReader ends on no bytes
  /\ MaxChunk \in Nat \ {0} /\ MaxOutput \in Nat

VARIABLES
  \* the caller: its buffer is the interval start..bufEnd of the source
  start, bufEnd, eof, delivered,
  \* the codec object
  opc, sender, inputDisconnected, endSent, done, failure,
  pendLo, staged, accepted,   \* pending_input is pendLo..staged,
                              \* validator.held is staged..accepted
  outLo, outHi,               \* the undrained part of pending_output
  \* the call in progress
  consumed, produced, outLen,
  \* the channels, the waker cell and the cancellation flag
  inq, inOpen, evq, evOpen, evRecv, waker, notified, cancel,
  \* the worker thread
  wpc, wnext, wev, got, ended, emitted, wresult

caller  == <<start, bufEnd, eof, delivered>>
flags   == <<sender, inputDisconnected, endSent, done, failure>>
staging == <<pendLo, staged, accepted>>
outbuf  == <<outLo, outHi>>
call    == <<consumed, produced, outLen>>
chans   == <<inq, inOpen, evq, evOpen, evRecv>>
wakers  == <<waker, notified>>
worker  == <<wpc, wnext, wev, got, ended, emitted, wresult>>
owner   == <<opc, flags, staging, outbuf, call>>

vars == <<caller, owner, chans, wakers, cancel, worker>>

Min2(a, b) == IF a < b THEN a ELSE b

InputEnd == "End"      \* the kinds of channel messages
InputData == "Data"
NeedInput == "NeedInput"
Output == "Output"

InLen == bufEnd - start
PendingInput == pendLo < staged
PendingOutput == outLo < outHi
EffectiveEnd == eof /\ consumed = InLen

-----------------------------------------------------------------------------
(* Failure.  XzDecoder::fail only drops the sender.  LzipDecoder::fail     *)
(* also cancels, drains and joins the worker.                              *)

(* drain_events *)
DrainEventsSkipped(q) == q
DrainEvents(q) == <<>>

Fail(kind) ==
  /\ failure' = kind
  /\ sender' = FALSE
  /\ opc' = IF Lzip THEN "cancelling" ELSE "error"
  /\ cancel' = Lzip
  /\ evq' = IF Lzip THEN DrainEvents(evq) ELSE evq
  /\ UNCHANGED <<inputDisconnected, endSent, done, inq, inOpen, evOpen, evRecv>>

(* wake_cell: take the parked waker and wake it. *)
WakeOwner ==
  /\ waker' = FALSE
  /\ notified' = (notified \/ waker)

(* cancel_worker's loop: drain until the thread has finished, then join.   *)
Cancelling ==
  /\ opc \in {"cancelling", "dropping"}
  /\ evq' = DrainEvents(evq)
  /\ IF wpc = "finished"
     THEN /\ opc' = IF opc = "dropping" THEN "dropped" ELSE "error"
          /\ evRecv' = (opc # "dropping")
          /\ WakeOwner
     ELSE evq' # evq /\ UNCHANGED <<opc, evRecv, wakers>>
  /\ UNCHANGED <<caller, flags, staging, outbuf, call, inq, inOpen, evOpen,
                 cancel, worker>>

-----------------------------------------------------------------------------
(* The caller: CodecReader::read, AsyncCodecReader::poll_read.             *)

(* The source yields between one and MaxRefill bytes, or its end.          *)
Refill ==
  /\ opc = "idle" /\ start = bufEnd /\ ~eof
  /\ \/ /\ bufEnd = Supply
        /\ eof' = TRUE
        /\ UNCHANGED bufEnd
     \/ \E n \in 1..MaxRefill :
          /\ bufEnd + n <= Supply
          /\ bufEnd' = bufEnd + n
          /\ eof' = (EndWithInput /\ bufEnd + n = Supply)
  /\ UNCHANGED <<start, delivered, owner, chans, wakers, cancel, worker>>

(* drain_output into a slice of this length.                               *)
DrainOutput(len) == Min2(outHi - outLo, len)

(* Entry of drive: sticky failure, completed stream, then drain_output.    *)
Drive(len) ==
  LET copied == DrainOutput(len) IN
  /\ IF done
     THEN /\ IF InLen = 0
             THEN opc' = "done" /\ UNCHANGED <<flags, evq, cancel, inq, inOpen, evOpen, evRecv>>
             ELSE Fail("malformed")
          /\ UNCHANGED <<outbuf, call>>
     ELSE /\ outLo' = outLo + copied
          /\ produced' = copied
          /\ consumed' = 0
          /\ outLen' = len
          /\ opc' = "poll1"
          /\ UNCHANGED <<outHi, flags, chans, cancel>>
  /\ UNCHANGED <<caller, staging, waker, worker>>

Call ==
  /\ opc = "idle" /\ (start < bufEnd \/ eof)
  /\ \E len \in OutputSizes : Drive(len)
  /\ UNCHANGED notified

(* The executor polls a parked task again after its waker has fired.       *)
Repoll ==
  /\ opc = "parked" /\ notified
  /\ notified' = FALSE
  /\ \E len \in OutputSizes : Drive(len)

(* The caller's reaction to a returned CodecStep, CodecStep::validate      *)
(* included; "misuse" stands for the errors "made no progress" and         *)
(* "requested input after the source ended".                               *)
StepAccepted(status) ==
  \/ produced > 0
  \/ status = "NeedInput" /\ start + consumed = bufEnd /\ ~eof
  \/ status = "NeedOutput" /\ consumed > 0
  \/ status = "NeedOutput" /\ outLen = 0

Return(status) ==
  /\ start' = start + consumed
  /\ delivered' = delivered + produced
  /\ consumed' = 0
  /\ produced' = 0
  /\ opc' = IF status = "Done" /\ produced = 0 THEN "done"
            ELSE IF status = "Done" \/ StepAccepted(status) THEN "idle" ELSE "misuse"
  /\ UNCHANGED <<bufEnd, eof, outLen>>

-----------------------------------------------------------------------------
(* Channel operations of the owner.                                        *)

(* What handle_event leaves in pending_output: drain_output copies a       *)
(* prefix and keeps the rest.                                              *)
UndrainedLost(event, copied) == event.hi
Undrained(event, copied) == event.lo + copied

(* handle_event with the slice output[produced..].                         *)
HandleEvent(event, next) ==
  LET copied == Min2(event.hi - event.lo, outLen - produced) IN
  /\ evq' = Tail(evq)
  /\ opc' = next
  /\ IF event.kind = Output
     THEN /\ outLo' = Undrained(event, copied)
          /\ outHi' = event.hi
          /\ produced' = produced + copied
     ELSE UNCHANGED <<outLo, outHi, produced>>
  /\ UNCHANGED <<caller, flags, staging, consumed, outLen, inq, inOpen, evOpen,
                 evRecv, cancel, worker>>

(* TryRecvError::Disconnected and RecvError: buffered events come first.   *)
EventsClosedEarly == ~evOpen
EventsClosed == evq = <<>> /\ ~evOpen

(* finish_worker, up to the join. *)
Disconnected ==
  /\ EventsClosed
  /\ sender' = FALSE
  /\ opc' = "join"
  /\ UNCHANGED <<caller, inputDisconnected, endSent, done, failure, staging,
                 outbuf, call, chans, cancel, worker>>

Join ==
  /\ opc = "join" /\ wpc = "finished"
  /\ IF wresult = "ok"
     THEN /\ done' = TRUE
          /\ Return("Done")
          /\ UNCHANGED <<sender, inputDisconnected, endSent, failure, cancel>>
     ELSE /\ failure' = IF wresult = "limit" THEN "limit" ELSE "malformed"
          /\ cancel' = Lzip
          /\ opc' = "error"
          /\ UNCHANGED <<sender, inputDisconnected, endSent, done, caller, call>>
  /\ UNCHANGED <<staging, outbuf, chans, wakers, worker>>

(* The first polling loop swallows NeedInput: the input is flushed next.   *)
Poll1 ==
  /\ opc = "poll1"
  /\ \/ /\ produced < outLen /\ evq # <<>>
        /\ HandleEvent(Head(evq), "poll1")
     \/ produced < outLen /\ Disconnected
     \/ /\ produced = outLen \/ (evq = <<>> /\ evOpen)
        /\ opc' = "flush"
        /\ UNCHANGED <<caller, flags, staging, outbuf, call, chans, cancel, worker>>
  /\ UNCHANGED wakers

(* try_send returns the bytes of a full channel; they stay pending.        *)
RetainedAfterFullLost(hi) == hi
RetainedAfterFull(hi) == pendLo

(* LzipDecoder keeps the bytes of a disconnected channel and waits for the *)
(* worker's own error; XzDecoder fails at once.                            *)
KeepsAfterDisconnectNever == FALSE
KeepsAfterDisconnect == Lzip

(* flush_input of pending_input = pendLo..hi. *)
FlushInput(hi, ok, blocked) ==
  \/ /\ pendLo = hi
     /\ opc' = ok
     /\ UNCHANGED <<pendLo, flags, chans, cancel>>
  \/ /\ pendLo < hi /\ inputDisconnected
     /\ opc' = blocked
     /\ UNCHANGED <<pendLo, flags, chans, cancel>>
  \/ /\ pendLo < hi /\ ~inputDisconnected /\ inOpen /\ Len(inq) < QueueDepth
     /\ inq' = Append(inq, [kind |-> InputData, lo |-> pendLo, hi |-> hi])
     /\ pendLo' = hi
     /\ opc' = ok
     /\ UNCHANGED <<flags, inOpen, evq, evOpen, evRecv, cancel>>
  \/ /\ pendLo < hi /\ ~inputDisconnected /\ inOpen /\ Len(inq) >= QueueDepth
     /\ pendLo' = RetainedAfterFull(hi)
     /\ opc' = blocked
     /\ UNCHANGED <<flags, chans, cancel>>
  \/ /\ pendLo < hi /\ ~inputDisconnected /\ ~inOpen /\ KeepsAfterDisconnect
     /\ inputDisconnected' = TRUE
     /\ sender' = FALSE
     /\ opc' = blocked
     /\ UNCHANGED <<pendLo, endSent, done, failure, chans, cancel>>
  \/ /\ pendLo < hi /\ ~inputDisconnected /\ ~inOpen /\ ~KeepsAfterDisconnect
     /\ pendLo' = hi
     /\ Fail("malformed")

AfterStaging == IF EffectiveEnd THEN "finish" ELSE "poll2"

Flush ==
  /\ opc = "flush"
  /\ FlushInput(staged, IF consumed < InLen THEN "stage" ELSE AfterStaging, AfterStaging)
  /\ UNCHANGED <<caller, staged, accepted, outbuf, call, wakers, worker>>

(* The room for new input counts the bytes the validator withholds.        *)
StagingRoom == MaxStaged - (accepted - pendLo)

(* Staging of accepted bytes.  XzValidator::push withholds a header until  *)
(* it is complete, releases it whole, and may reject it.                   *)
Stage ==
  LET taken == Min2(StagingRoom, InLen - consumed) IN
  /\ opc = "stage"
  /\ \/ /\ accepted' = accepted + taken
        /\ \E s \in {staged} \cup (accepted..accepted + taken) :
             /\ accepted + taken - s <= (IF Lzip THEN 0 ELSE MaxHeld)
             /\ staged' = s
        /\ consumed' = consumed + taken
        /\ opc' = "flush2"
        /\ UNCHANGED <<flags, chans, cancel>>
     \/ /\ ~Lzip
        /\ \E kind \in {"malformed", "limit"} : Fail(kind)
        /\ UNCHANGED <<accepted, staged, consumed>>
  /\ UNCHANGED <<caller, pendLo, outbuf, produced, outLen, wakers, worker>>

Flush2 ==
  /\ opc = "flush2"
  /\ FlushInput(staged, AfterStaging, AfterStaging)
  /\ UNCHANGED <<caller, staged, accepted, outbuf, call, wakers, worker>>

(* At the end of input the validator releases what it holds (or rejects    *)
(* the padding), then the rest is flushed.                                 *)
Finish ==
  /\ opc = "finish"
  /\ \/ staged' = accepted /\ FlushInput(accepted, "sendEnd", "poll2")
     \/ ~Lzip /\ accepted > 0 /\ Fail("malformed") /\ UNCHANGED <<pendLo, staged>>
  /\ UNCHANGED <<caller, accepted, outbuf, call, wakers, worker>>

(* A full channel leaves end_sent unset, so that End is offered again.     *)
EndSentAfterFull == endSent

(* try_send_end *)
SendEnd ==
  /\ opc = "sendEnd"
  /\ \/ /\ endSent \/ inputDisconnected
        /\ opc' = "poll2"
        /\ UNCHANGED <<flags, chans, cancel>>
     \/ /\ ~endSent /\ ~inputDisconnected /\ inOpen /\ Len(inq) >= QueueDepth
        /\ endSent' = EndSentAfterFull
        /\ opc' = "poll2"
        /\ UNCHANGED <<sender, inputDisconnected, done, failure, chans, cancel>>
     \/ /\ ~endSent /\ ~inputDisconnected /\ inOpen /\ Len(inq) < QueueDepth
        /\ inq' = Append(inq, [kind |-> InputEnd, lo |-> pendLo, hi |-> pendLo])
        /\ endSent' = TRUE
        /\ opc' = "poll2"
        /\ UNCHANGED <<sender, inputDisconnected, done, failure, inOpen, evq,
                       evOpen, evRecv, cancel>>
     \/ /\ ~endSent /\ ~inputDisconnected /\ ~inOpen /\ KeepsAfterDisconnect
        /\ inputDisconnected' = TRUE
        /\ sender' = FALSE
        /\ opc' = "poll2"
        /\ UNCHANGED <<endSent, done, failure, chans, cancel>>
     \/ /\ ~endSent /\ ~inputDisconnected /\ ~inOpen /\ ~KeepsAfterDisconnect
        /\ Fail("malformed")
  /\ UNCHANGED <<caller, staging, outbuf, call, wakers, worker>>

AfterInputRequestWaits == "poll2"
AfterInputRequest == "poll1"

(* The second polling loop: a request for input restarts the driving loop, *)
(* so that retained input is offered again before the owner waits.         *)
Poll2 ==
  /\ opc = "poll2"
  /\ \/ /\ produced < outLen /\ evq # <<>>
        /\ HandleEvent(Head(evq), IF Head(evq).kind = NeedInput THEN AfterInputRequest ELSE "poll2")
     \/ produced < outLen /\ Disconnected
     \/ /\ produced = outLen \/ (evq = <<>> /\ evOpen)
        /\ opc' = "decide"
        /\ UNCHANGED <<caller, flags, staging, outbuf, call, chans, cancel, worker>>
  /\ UNCHANGED wakers

(* Wait for an event or return, at the bottom of the driving loop.         *)
ReturnStatusShort ==
  IF PendingOutput \/ PendingInput \/ produced = outLen THEN "NeedOutput" ELSE "NeedInput"
ReturnStatus ==
  IF \/ PendingOutput \/ PendingInput \/ consumed # InLen
     \/ EffectiveEnd /\ ~endSent
     \/ produced = outLen
  THEN "NeedOutput" ELSE "NeedInput"

MustWait ==
  \/ EffectiveEnd /\ produced = 0 /\ ~PendingOutput /\ outLen > 0
  \/ /\ produced = 0 /\ consumed = 0
     /\ IF EffectiveEnd THEN ~(outLen = 0 /\ PendingOutput)
                        ELSE InLen > 0 \/ PendingInput

Decide ==
  /\ opc = "decide"
  /\ IF MustWait
     THEN /\ opc' = IF Async THEN "register" ELSE "wait"
          /\ UNCHANGED <<caller, call>>
     ELSE IF produced > 0 \/ consumed > 0 THEN Return(ReturnStatus)
     ELSE Return(IF outLen = 0 /\ PendingOutput THEN "NeedOutput" ELSE "NeedInput")
  /\ UNCHANGED <<flags, staging, outbuf, chans, wakers, cancel, worker>>

(* pump, blocking: wait_event.                                             *)
Wait ==
  /\ opc = "wait"
  /\ \/ evq # <<>> /\ HandleEvent(Head(evq), "poll1")
     \/ Disconnected
  /\ UNCHANGED wakers

(* pump, async: the waker is parked before the deciding poll_event.        *)
Register ==
  /\ opc = "register"
  /\ waker' = TRUE
  /\ opc' = "pollOnce"
  /\ UNCHANGED <<caller, flags, staging, outbuf, call, chans, notified, cancel, worker>>

PollOnce ==
  /\ opc = "pollOnce"
  /\ \/ evq # <<>> /\ HandleEvent(Head(evq), "poll1")
     \/ Disconnected
     \/ /\ evq = <<>> /\ evOpen
        /\ opc' = "parked"
        /\ consumed' = 0
        /\ UNCHANGED <<caller, flags, staging, outbuf, produced, outLen, chans,
                       cancel, worker>>
  /\ UNCHANGED wakers

(* cancel_worker still holds the event receiver; dropping XzDecoder does   *)
(* not.                                                                    *)
ReceiverDuringDrop == Lzip

(* Dropping the codec between two calls: LzipDecoder cancels and joins,    *)
(* XzDecoder drops its channel ends and detaches the thread.               *)
Drop ==
  /\ opc \in {"idle", "parked", "done", "error", "misuse"}
  /\ sender' = FALSE
  /\ evq' = IF Lzip THEN DrainEvents(evq) ELSE <<>>
  /\ opc' = IF Lzip THEN "dropping" ELSE "dropped"
  /\ cancel' = Lzip
  /\ evRecv' = ReceiverDuringDrop
  /\ UNCHANGED <<caller, inputDisconnected, endSent, done, failure, staging,
                 outbuf, call, inq, inOpen, evOpen, wakers, worker>>

OwnerStep ==
  \/ Cancelling \/ Refill \/ Call \/ Repoll \/ Join \/ Poll1 \/ Flush \/ Stage
  \/ Flush2 \/ Finish \/ SendEnd \/ Poll2 \/ Decide \/ Wait \/ Register \/ PollOnce

-----------------------------------------------------------------------------
(* The worker thread: decode_worker, InputPipe::read and EventSink::send.  *)
(* The decoding library is external: between two channel operations it may *)
(* ask for input, produce bytes, reach the end of the stream once the      *)
(* input has ended, or fail.                                               *)

Exit(result) ==
  /\ wresult' = result
  /\ wpc' = "dropInput"

Send(event, next) ==
  /\ wev' = event
  /\ wnext' = next
  /\ wpc' = "trySend"

(* ensure_worker_active *)
Cancelled == Lzip /\ cancel

Decode ==
  /\ wpc = "decode"
  /\ IF Cancelled
     THEN Exit("broken") /\ UNCHANGED <<wev, wnext, emitted>>
     ELSE \/ /\ ~ended
             /\ IF Lzip THEN wpc' = "tryRecv" /\ UNCHANGED <<wev, wnext>>
                ELSE Send([kind |-> NeedInput, lo |-> emitted, hi |-> emitted], "recv")
             /\ UNCHANGED <<emitted, wresult>>
          \/ \E n \in 1..MaxChunk :
               /\ got > 0 /\ emitted + n <= MaxOutput
               /\ emitted' = emitted + n
               /\ Send([kind |-> Output, lo |-> emitted, hi |-> emitted + n], "decode")
               /\ UNCHANGED wresult
          \/ ended /\ Exit("ok") /\ UNCHANGED <<wev, wnext, emitted>>
          \/ \E kind \in {"malformed", "limit"} :
               (got > 0 \/ ended) /\ Exit(kind) /\ UNCHANGED <<wev, wnext, emitted>>
          \/ MayPanic /\ got > 0 /\ Exit("panic") /\ UNCHANGED <<wev, wnext, emitted>>
  /\ UNCHANGED <<caller, owner, chans, wakers, cancel, got, ended>>

(* A message or, when every sender is gone, the end of the input.          *)
Receive ==
  IF inq # <<>>
  THEN /\ got' = Head(inq).hi
       /\ ended' = (Head(inq).kind = InputEnd)
       /\ inq' = Tail(inq)
       /\ wpc' = "decode"
       /\ UNCHANGED wresult
  ELSE /\ ~sender
       /\ IF Cancelled THEN Exit("broken") /\ UNCHANGED ended
          ELSE ended' = TRUE /\ wpc' = "decode" /\ UNCHANGED wresult
       /\ UNCHANGED <<got, inq>>

(* XZ: a blocking recv after NeedInput.  lzip: recv_timeout, whose timeout *)
(* asks again.                                                             *)
Recv ==
  /\ wpc = "recv"
  /\ \/ Cancelled /\ Exit("broken") /\ UNCHANGED <<got, ended, inq>>
     \/ Receive
     \/ /\ Lzip /\ inq = <<>> /\ sender
        /\ wpc' = "ask"
        /\ UNCHANGED <<got, ended, inq, wresult>>
  /\ UNCHANGED <<caller, owner, inOpen, evq, evOpen, evRecv, wakers, cancel,
                 wnext, wev, emitted>>

(* lzip only: try_recv, then ask for input.                                *)
TryRecv ==
  /\ wpc = "tryRecv"
  /\ IF inq = <<>> /\ sender
     THEN wpc' = "ask" /\ UNCHANGED <<got, ended, inq, wresult>>
     ELSE Receive
  /\ UNCHANGED <<caller, owner, inOpen, evq, evOpen, evRecv, wakers, cancel,
                 wnext, wev, emitted>>

Ask ==
  /\ wpc = "ask"
  /\ IF Cancelled
     THEN Exit("broken") /\ UNCHANGED <<wev, wnext>>
     ELSE /\ Send([kind |-> NeedInput, lo |-> emitted, hi |-> emitted], "recv")
          /\ UNCHANGED wresult
  /\ UNCHANGED <<caller, owner, chans, wakers, cancel, got, ended, emitted>>

(* EventSink::send: try_send, wake; when full wake first, then block.      *)
TrySend ==
  /\ wpc = "trySend"
  /\ \/ /\ evRecv /\ Len(evq) < QueueDepth
        /\ evq' = Append(evq, wev)
        /\ wpc' = "wake"
        /\ UNCHANGED wresult
     \/ /\ evRecv /\ Len(evq) >= QueueDepth
        /\ wpc' = "wakeFull"
        /\ UNCHANGED <<evq, wresult>>
     \/ ~evRecv /\ Exit("broken") /\ UNCHANGED evq
  /\ UNCHANGED <<caller, owner, inq, inOpen, evOpen, evRecv, wakers, cancel,
                 wnext, wev, got, ended, emitted>>

WakeFull ==
  /\ wpc = "wakeFull"
  /\ WakeOwner
  /\ wpc' = "blockSend"
  /\ UNCHANGED <<caller, owner, chans, cancel, wnext, wev, got, ended, emitted, wresult>>

BlockSend ==
  /\ wpc = "blockSend"
  /\ \/ /\ evRecv /\ Len(evq) < QueueDepth
        /\ evq' = Append(evq, wev)
        /\ wpc' = "wake"
        /\ UNCHANGED <<wakers, wresult>>
     \/ ~evRecv /\ WakeOwner /\ Exit("broken") /\ UNCHANGED evq
  /\ UNCHANGED <<caller, owner, inq, inOpen, evOpen, evRecv, cancel, wnext,
                 wev, got, ended, emitted>>

Wake ==
  /\ wpc = "wake"
  /\ WakeOwner
  /\ wpc' = wnext
  /\ UNCHANGED <<caller, owner, chans, cancel, wnext, wev, got, ended, emitted, wresult>>

(* The decoding scope ends: the input receiver goes first, then the last   *)
(* event sender; only then is the owner woken.  A panic skips the wake.    *)
DropInput ==
  /\ wpc = "dropInput"
  /\ inOpen' = FALSE
  /\ inq' = <<>>
  /\ wpc' = "dropEvents"
  /\ UNCHANGED <<caller, owner, evq, evOpen, evRecv, wakers, cancel, wnext,
                 wev, got, ended, emitted, wresult>>

DropEvents ==
  /\ wpc = "dropEvents"
  /\ evOpen' = FALSE
  /\ wpc' = IF wresult = "panic" THEN "finished" ELSE "finalWake"
  /\ UNCHANGED <<caller, owner, inq, inOpen, evq, evRecv, wakers, cancel, wnext,
                 wev, got, ended, emitted, wresult>>

FinalWakeSilent ==
  /\ wpc = "finalWake"
  /\ wpc' = "finished"
  /\ UNCHANGED <<caller, owner, chans, wakers, cancel, wnext, wev, got, ended, emitted, wresult>>
FinalWake ==
  /\ wpc = "finalWake"
  /\ WakeOwner
  /\ wpc' = "finished"
  /\ UNCHANGED <<caller, owner, chans, cancel, wnext, wev, got, ended, emitted, wresult>>

WorkerStep ==
  \/ Decode \/ Recv \/ TryRecv \/ Ask \/ TrySend \/ WakeFull \/ BlockSend
  \/ Wake \/ DropInput \/ DropEvents \/ FinalWake

-----------------------------------------------------------------------------
Init ==
  /\ start = 0 /\ bufEnd = 0 /\ eof = FALSE /\ delivered = 0
  /\ opc = "idle" /\ sender = TRUE /\ inputDisconnected = FALSE
  /\ endSent = FALSE /\ done = FALSE /\ failure = "none"
  /\ pendLo = 0 /\ staged = 0 /\ accepted = 0 /\ outLo = 0 /\ outHi = 0
  /\ consumed = 0 /\ produced = 0 /\ outLen = 0
  /\ inq = <<>> /\ inOpen = TRUE /\ evq = <<>> /\ evOpen = TRUE /\ evRecv = TRUE
  /\ waker = FALSE /\ notified = FALSE /\ cancel = FALSE
  /\ wpc = "decode" /\ wnext = "decode" /\ got = 0 /\ ended = FALSE
  /\ wev = [kind |-> NeedInput, lo |-> 0, hi |-> 0]
  /\ emitted = 0 /\ wresult = "running"

Next == OwnerStep \/ Drop \/ WorkerStep

(* Both threads are scheduled by the operating system and a woken task is  *)
(* polled again; nothing forces the caller to drop the codec.  A turn of   *)
(* the lzip driving loop restarts on every NeedInput, and the worker sends *)
(* one per INPUT_WAIT (10 ms): the loop ends because a turn is shorter.    *)
Driving ==
  opc \in {"poll1", "flush", "stage", "flush2", "finish", "sendEnd", "poll2"}
Fairness ==
  /\ WF_vars(OwnerStep) /\ WF_vars(WorkerStep)
  /\ Lzip => []<>~Driving

Spec == Init /\ [][Next]_vars
FairSpec == Spec /\ Fairness

-----------------------------------------------------------------------------
(* The messages of q cover the positions from a to b without gap, overlap  *)
(* or reordering.                                                          *)
Linked(q, a, b) ==
  IF q = <<>> THEN a = b
  ELSE /\ q[1].lo = a /\ q[Len(q)].hi = b
       /\ \A i \in 1..Len(q) - 1 : q[i].hi = q[i + 1].lo

InFlight == wpc \in {"trySend", "wakeFull", "blockSend"}
Live == failure = "none" /\ ~cancel /\ evRecv

OwnerStates ==
  {"idle", "poll1", "flush", "stage", "flush2", "finish", "sendEnd", "poll2",
   "decide", "wait", "register", "pollOnce", "parked", "join", "cancelling",
   "dropping", "done", "error", "misuse", "dropped"}
WorkerStates ==
  {"decode", "recv", "tryRecv", "ask", "trySend", "wakeFull", "blockSend",
   "wake", "dropInput", "dropEvents", "finalWake", "finished"}
Messages(kinds) == [kind : kinds, lo : Nat, hi : Nat]

ControlTypes ==
  /\ opc \in OwnerStates /\ failure \in {"none", "malformed", "limit"}
  /\ wpc \in WorkerStates /\ wnext \in {"decode", "recv"}
  /\ wresult \in {"running", "ok", "malformed", "limit", "panic", "broken"}
FlagTypes ==
  /\ eof \in BOOLEAN /\ sender \in BOOLEAN /\ inputDisconnected \in BOOLEAN
  /\ endSent \in BOOLEAN /\ done \in BOOLEAN /\ inOpen \in BOOLEAN
  /\ evOpen \in BOOLEAN /\ evRecv \in BOOLEAN /\ waker \in BOOLEAN
  /\ notified \in BOOLEAN /\ cancel \in BOOLEAN /\ ended \in BOOLEAN
QueueTypes ==
  /\ inq \in Seq(Messages({InputData, InputEnd})) /\ Len(inq) <= QueueDepth
  /\ evq \in Seq(Messages({NeedInput, Output})) /\ Len(evq) <= QueueDepth
  /\ wev \in Messages({NeedInput, Output})
CounterTypes ==
  /\ start \in Nat /\ bufEnd \in Nat /\ delivered \in Nat
  /\ pendLo \in Nat /\ staged \in Nat /\ accepted \in Nat
  /\ pendLo <= staged /\ staged <= accepted /\ accepted - pendLo <= MaxStaged
  /\ outLo \in Nat /\ outHi \in Nat /\ outLo <= outHi
  /\ consumed \in Nat /\ produced \in Nat /\ outLen \in Nat /\ produced <= outLen
  /\ start + consumed <= bufEnd
  /\ got \in Nat /\ emitted \in Nat

(* Types, and the bounds the bridge promises: QUEUE_DEPTH messages per     *)
(* channel and MAX_STAGED retained input bytes.                            *)
TypeOK == ControlTypes /\ FlagTypes /\ QueueTypes /\ CounterTypes

(* Compressed bytes reach the worker once and in order: what it received,  *)
(* the input channel and the retained input are consecutive, and the codec *)
(* accepted exactly the bytes it reported as consumed (drive, flush_input).*)
InputContiguous ==
  failure = "none" /\ inOpen =>
    /\ Linked(inq, got, pendLo)
    /\ start + consumed = accepted

(* Decoded bytes reach the caller once and in order: what it was given,    *)
(* pending_output and the event channel are consecutive (handle_event,     *)
(* drain_output, EventSink::send).                                         *)
OutputContiguous ==
  Live =>
    /\ delivered + produced = outLo
    /\ Linked(evq, outHi, IF InFlight THEN wev.lo ELSE emitted)

(* finish_worker reports Done only after the worker ended successfully on  *)
(* the whole stream and everything it decoded has been handed out.         *)
DoneMeansComplete ==
  done => delivered = emitted /\ wresult = "ok" /\ got = Supply

(* The worker sees the end of its input only after the whole stream: End   *)
(* never overtakes retained or withheld bytes (try_send_end, finish).      *)
NoEarlyEnd == ended /\ Live => got = Supply

(* No call is wasted.  A returned step never makes a reader fail with      *)
(* "made no progress" or "requested input after the source ended"          *)
(* (codec_read.rs, async_filter.rs, CodecStep::validate), and the owner    *)
(* never waits for an event while the XZ worker waits for input: retained  *)
(* input is retried first (docs/codec-worker-progress.md).                 *)
NeverStuck ==
  /\ opc # "misuse"
  /\ ~(/\ opc \in {"wait", "parked"} /\ ~notified /\ evq = <<>>
       /\ wpc = "recv" /\ inq = <<>> /\ sender /\ ~Lzip)

(* A parked task has been woken, or its waker is registered and every      *)
(* event it could act on is followed by a wake (pump, EventSink::send, the *)
(* wake after the senders are dropped in decode_worker).                   *)
NoLostWakeup ==
  opc = "parked" /\ ~notified =>
    /\ waker
    /\ evq # <<>> => wpc = "wake"
    /\ ~evOpen => wpc = "finalWake"

(* The lzip bridge reports a resource limit as a limit and a malformed     *)
(* stream as malformed, however the disconnected channels are noticed      *)
(* (input_disconnected, finish_worker).                                    *)
ErrorClassPreserved ==
  Lzip /\ failure # "none" => (failure = "limit" <=> wresult = "limit")

Busy ==
  opc \in {"poll1", "flush", "stage", "flush2", "finish", "sendEnd", "poll2",
           "decide", "wait", "register", "pollOnce"}

(* The inductive invariant behind the properties above.  It relates the    *)
(* control state of drive to the call's counters, the channels to the      *)
(* worker's exit, and says what a queued message carries.                  *)
MessagesOK ==
  /\ \A i \in 1..Len(inq) : inq[i].kind = InputEnd => inq[i].hi = Supply
  /\ \A i \in 1..Len(evq) :
       evq[i].lo <= evq[i].hi /\ (evq[i].kind = NeedInput => evq[i].lo = evq[i].hi)
  /\ wev.lo <= wev.hi /\ (wev.kind = NeedInput => wev.lo = wev.hi)
  /\ InFlight => wev.hi = emitted

WorkerOK ==
  /\ inOpen <=> wpc \notin {"dropEvents", "finalWake", "finished"}
  /\ evOpen <=> wpc \notin {"finalWake", "finished"}
  /\ wresult = "ok" => ended
  /\ wresult = "panic" => MayPanic
  /\ wpc \in {"dropInput", "dropEvents", "finalWake", "finished"} <=> wresult # "running"

OwnerOK ==
  /\ Busy \/ opc \in {"idle", "parked", "join"} => Live
  /\ Live /\ ~sender => ~inOpen
  /\ Live => start + consumed = accepted
  /\ opc \in {"idle", "parked"} => consumed = 0 /\ produced = 0
  /\ opc \in {"wait", "register", "pollOnce"} => produced = 0
  /\ opc \in {"register", "pollOnce"} => consumed = 0 /\ Async
  /\ Busy => outLen > 0 /\ (produced < outLen => outLo = outHi)
  /\ opc = "join" => ~evOpen /\ delivered + produced = emitted
  /\ opc \in {"cancelling", "dropping"} => cancel
  /\ done => opc \in {"idle", "done", "error", "cancelling", "dropping", "dropped"}
  /\ done => wpc = "finished"

EndOK ==
  /\ bufEnd <= Supply
  /\ eof => bufEnd = Supply
  /\ eof /\ ~EndWithInput => start = bufEnd
  /\ opc \in {"finish", "sendEnd"} => EffectiveEnd
  /\ opc = "sendEnd" => pendLo = accepted /\ staged = accepted

WakeOK ==
  /\ opc = "pollOnce" => waker \/ notified
  /\ opc = "parked" /\ ~notified =>
       /\ waker
       /\ evq # <<>> => wpc = "wake"
       /\ ~evOpen /\ wresult # "panic" => wpc = "finalWake"

(* The conjunction every step of drive, pump, EventSink::send and          *)
(* decode_worker preserves.                                                *)
Inductive ==
  /\ TypeOK /\ MessagesOK /\ WorkerOK /\ OwnerOK /\ EndOK /\ WakeOK
  /\ InputContiguous /\ OutputContiguous /\ NoEarlyEnd /\ DoneMeansComplete

(* handle_event asserts that pending_output is empty when a chunk arrives. *)
PendingOutputDrained == [][outHi' # outHi => outLo = outHi]_vars

(* Both sides end.  A caller that keeps reading reaches the end of the     *)
(* stream or an error, and dropping the codec, or failing it in the lzip   *)
(* bridge, ends the worker thread (cancel_worker; disconnected channels in *)
(* XzDecoder).                                                             *)
BothEnd ==
  /\ <>(opc \in {"done", "error", "dropping", "dropped"})
  /\ (opc \in {"cancelling", "dropping", "dropped"}) ~>
       (opc \in {"error", "dropping", "dropped"} /\ wpc = "finished")

=============================================================================
