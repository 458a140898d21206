-------------------------- MODULE AsyncSeekWriter --------------------------
(* AsyncSeekArchiveWriter (async_seek.rs) around the 7z seek writer          *)
(* (sevenz.rs).  The synchronous writer runs over an in-memory output that  *)
(* records seeks and writes; every command then drains the record into the  *)
(* asynchronous destination, which may write part of a chunk, fail, or      *)
(* have the command's future dropped.  A 7z archive is, in units: the       *)
(* signature header, the payload, the end of the packed stream, the header. *)
EXTENDS Integers, Sequences, SequencesExt

CONSTANTS
    MaxPayload,   \* bound: units of payload the caller writes
    MaxEntries,   \* bound: entries the caller writes
    Declared,     \* the sizes an entry may declare, None included
    QueueLimit,   \* the larger of the metadata and in-flight limits
    DecodedLimit, \* Limits::decoded_total
    MayCancel,    \* whether the caller may drop a pending command
    None

VARIABLES
    pending, entries, decoded_total, \* SevenZSeekWriter
    buffered,                        \* units the LZMA2 encoder holds back
    position, queue, bytes,          \* OperationWriter and its queue
    file, cursor,                    \* the destination
    operation, offset,               \* the operation being applied, how far
    failed, live,                    \* the flag; whether the writer is there
    pc, result,
    mode,       \* "Open" until the first flush, "Command", "Finish"
    torn        \* payload was given up by a command before finish (history)

vars == <<pending, entries, decoded_total, buffered, position, queue, bytes, file, cursor,
          operation, offset, failed, live, pc, mode, result, torn>>
seven == <<pending, entries, decoded_total, buffered>>
record == <<position, queue, bytes>>
destination == <<file, cursor>>
current == <<operation, offset>>

Blank == [tag |-> "Blank"]
Payload(n) == [tag |-> "Payload", n |-> n]
Hole == [tag |-> "Hole"]
End == [tag |-> "End"]
Header(sizes, total) == [tag |-> "Header", sizes |-> sizes, total |-> total]
Signature(packed, header) == [tag |-> "Signature", packed |-> packed, header |-> header]

Seek(p) == [seek |-> p, units |-> << >>]
Write(units) == [seek |-> None, units |-> units]
Total(s) == FoldLeft(LAMBDA acc, n : acc + n, 0, s)

Init ==
    /\ pending = None /\ entries = << >> /\ decoded_total = 0 /\ buffered = 0
    /\ position = 1 /\ queue = <<Seek(0), Write(<<Blank>>)>> /\ bytes = 1
    /\ file = << >> /\ cursor = 0
    /\ operation = None /\ offset = 0
    /\ failed = FALSE /\ live = TRUE
    /\ pc = "Flush" /\ mode = "Open" /\ result = "None"
    /\ torn = FALSE
-----------------------------------------------------------------------------
(* Recording: a write that would exceed the queue's budget fails the inner  *)
(* writer, with the operations recorded before it left in the queue.        *)
Units(ops) == Total([i \in DOMAIN ops |-> Len(ops[i].units)])
Fits(n) == bytes + n <= QueueLimit
Recorded(ops) ==
    LET upTo == {k \in 0..Len(ops) : \A j \in 1..k : ops[j].units = << >> \/ Fits(Units(SubSeq(ops, 1, j)))}
    IN SubSeq(ops, 1, CHOOSE k \in upTo : \A j \in upTo : j <= k)
PositionAfter(ops) ==
    FoldLeft(LAMBDA p, o : IF o.seek # None THEN o.seek ELSE p + Len(o.units), position, ops)

Fails == pc' = "Caller" /\ result' = "Err"
Drains == pc' = "Flush" /\ result' = "None"
RecordAll(ops) ==
    LET done == Recorded(ops) IN
    /\ queue' = queue \o done
    /\ bytes' = bytes + Units(done)
    /\ position' = PositionAfter(done)

Refuse == Fails /\ UNCHANGED <<seven, record, torn>>

(* The caller, who may go on after an error or a dropped future; writer()    *)
(* refuses every command but finish once the destination has failed.        *)
Calls == pc = "Caller" /\ live

StartEntry ==
    /\ Calls /\ Len(entries) < MaxEntries
    /\ \E d \in Declared, k \in {"File", "Symlink"} :
       IF failed \/ pending # None THEN Refuse
       ELSE /\ pending' = [kind |-> k, declared |-> d, size |-> 0]
            /\ Drains
            /\ UNCHANGED <<entries, decoded_total, buffered, record, torn>>
    /\ UNCHANGED <<destination, current, failed, live, mode>>

(* The encoder takes a unit and writes out n of those it then holds; if the *)
(* queue refuses them the unit is not accounted, and may be lost.           *)
Emitted(n) ==
    IF n = 0 THEN << >> ELSE <<Write([j \in 1..n |-> Payload(decoded_total - buffered + j)])>>
Encode(n) ==
    /\ RecordAll(Emitted(n))
    /\ IF Recorded(Emitted(n)) = Emitted(n)
       THEN decoded_total' = decoded_total + 1 /\ buffered' = buffered + 1 - n
       ELSE UNCHANGED <<decoded_total, buffered>>
Refused(n) == Recorded(Emitted(n)) # Emitted(n)

WriteData ==
    /\ Calls /\ decoded_total < MaxPayload
    /\ IF failed \/ pending = None \/ decoded_total + 1 > DecodedLimit THEN Refuse
       ELSE IF pending.kind # "File" THEN Refuse
       ELSE \E n \in 0..(buffered + 1) :
            /\ Encode(n)
            /\ IF Refused(n) THEN Fails /\ torn' = TRUE /\ UNCHANGED pending
               ELSE Drains /\ pending' = [pending EXCEPT !.size = @ + 1] /\ UNCHANGED torn
            /\ UNCHANGED entries
    /\ UNCHANGED <<destination, current, failed, live, mode>>

(* The entry is taken first, then a link's target is encoded and the         *)
(* declared size checked: an error loses the entry and keeps its payload.   *)
EndedUnlinked(size) == Drains /\ entries' = Append(entries, pending.size) /\ UNCHANGED torn
Ended(size) ==
    IF pending.declared \in {None, size}
    THEN Drains /\ entries' = Append(entries, size) /\ UNCHANGED torn
    ELSE Fails /\ torn' = (torn \/ size > 0) /\ UNCHANGED entries
EndEntry ==
    /\ Calls
    /\ IF failed \/ pending = None THEN Refuse
       ELSE /\ pending' = None
            /\ \/ /\ pending.kind = "File"
                  /\ Ended(pending.size) /\ UNCHANGED <<decoded_total, buffered, record>>
               \/ /\ pending.kind = "Symlink" /\ decoded_total + 1 > DecodedLimit
                  /\ Fails /\ UNCHANGED <<entries, decoded_total, buffered, record, torn>>
               \/ /\ pending.kind = "Symlink" /\ decoded_total + 1 <= DecodedLimit
                  /\ \E n \in 0..(buffered + 1) :
                        /\ Encode(n)
                        /\ IF Refused(n) THEN Fails /\ torn' = TRUE /\ UNCHANGED entries
                           ELSE Ended(1)
    /\ UNCHANGED <<destination, current, failed, live, mode>>

(* finish takes the writer without looking at the failed flag; the          *)
(* signature is recorded last.                                              *)
FinishOperationsEarly(packed, header) ==
    << Seek(0), Write(<<Signature(packed, header)>>), Seek(1 + decoded_total - buffered),
       Write([j \in 1..buffered |-> Payload(decoded_total - buffered + j)] \o <<End>>), Seek(1 + packed),
       Write(<<header>>), Seek(2 + packed) >>
FinishOperations(packed, header) ==
    << Write([j \in 1..buffered |-> Payload(decoded_total - buffered + j)] \o <<End>>), Seek(1 + packed),
       Write(<<header>>), Seek(2 + packed), Seek(0), Write(<<Signature(packed, header)>>), Seek(2 + packed) >>
Finish ==
    /\ Calls
    /\ live' = FALSE
    /\ IF pending # None
       THEN pc' = "Gone" /\ result' = "Err" /\ UNCHANGED <<seven, record, mode>>
       ELSE /\ LET packed == position - 1 + buffered + 1
                   ops == FinishOperations(packed, Header(entries, decoded_total))
               IN IF Recorded(ops) = ops
                  THEN RecordAll(ops) /\ Drains /\ mode' = "Finish"
                  ELSE pc' = "Gone" /\ result' = "Err" /\ UNCHANGED <<record, mode>>
            /\ buffered' = 0 /\ UNCHANGED <<pending, entries, decoded_total>>
    /\ UNCHANGED <<destination, current, failed, torn>>

Abort ==
    /\ pc = "Caller" /\ live
    /\ live' = FALSE /\ pc' = "Gone" /\ result' = "Aborted"
    /\ queue' = << >> /\ bytes' = 0
    /\ UNCHANGED <<seven, position, destination, current, failed, mode, torn>>
-----------------------------------------------------------------------------
(* flush_operations: an operation leaves the queue before it is awaited.     *)
BytesAfter(o) == bytes - Len(o.units)
QueueAfterKept == queue
QueueAfter == Tail(queue)
Pop ==
    /\ pc = "Flush" /\ queue # << >>
    /\ operation' = Head(queue) /\ offset' = 0
    /\ queue' = QueueAfter /\ bytes' = BytesAfter(Head(queue))
    /\ pc' = "Await"
    /\ UNCHANGED <<seven, position, destination, failed, live, mode, result, torn>>

Empty == queue = << >>
Drained ==
    /\ pc = "Flush" /\ Empty
    /\ IF mode = "Finish" THEN pc' = "Gone" /\ result' = "Finished" /\ UNCHANGED mode
       ELSE pc' = "Caller" /\ result' = "Ok" /\ mode' = "Command"
    /\ UNCHANGED <<seven, record, destination, current, failed, live, torn>>

Placed(f, p, u) ==
    [i \in 1..(IF p < Len(f) THEN Len(f) ELSE p + 1) |->
        IF i = p + 1 THEN u ELSE IF i <= Len(f) THEN f[i] ELSE Hole]
OutputSeek ==
    /\ pc = "Await" /\ operation.seek # None
    /\ cursor' = operation.seek
    /\ operation' = None /\ pc' = "Flush"
    /\ UNCHANGED <<seven, record, file, offset, failed, live, mode, result, torn>>

(* The destination takes a unit; a chunk is complete after its last.         *)
OutputWrite ==
    /\ pc = "Await" /\ operation.seek = None
    /\ file' = Placed(file, cursor, operation.units[offset + 1])
    /\ cursor' = cursor + 1
    /\ IF offset + 1 = Len(operation.units)
       THEN operation' = None /\ offset' = 0 /\ pc' = "Flush"
       ELSE offset' = offset + 1 /\ UNCHANGED <<operation, pc>>
    /\ UNCHANGED <<seven, record, failed, live, mode, result, torn>>

Stop(r) ==
    /\ operation' = None /\ offset' = 0
    /\ pc' = (IF mode = "Command" THEN "Caller" ELSE "Gone") /\ result' = r
    /\ torn' = (torn \/ mode = "Command")
    /\ UNCHANGED <<seven, record, destination, live, mode>>
OutputFails == pc = "Await" /\ failed' = TRUE /\ Stop("Err")
Cancel == pc = "Await" /\ MayCancel /\ UNCHANGED failed /\ Stop("Cancelled")

Flush == Pop \/ Drained \/ OutputSeek \/ OutputWrite \/ OutputFails
Next == StartEntry \/ WriteData \/ EndEntry \/ Finish \/ Abort \/ Flush \/ Cancel

(* A command that is awaited runs on; callers may stop at any time.          *)
Spec == Init /\ [][Next]_vars /\ WF_vars(Flush)
-----------------------------------------------------------------------------

(* A signature that points at its header, behind payload that is all there  *)
(* and that the header's entries add up to.                                 *)
Readable(f) ==
    LET packed == f[1].packed IN
    /\ Len(f) >= 2 + packed
    /\ \A j \in 1..(packed - 1) : f[1 + j] = Payload(j)
    /\ f[1 + packed] = End
    /\ f[2 + packed] = f[1].header
    /\ f[1].header.total = packed - 1
    /\ Total(f[1].header.sizes) = packed - 1

(* The destination carries a signature only once the archive behind it is   *)
(* complete, at every step: a command that was refused, and a finish that   *)
(* fails or is dropped anywhere, leave nothing that is taken for an archive.*)
(* The exception is a caller that finishes although a command before it     *)
(* gave payload up: the destination failed or the command's future was      *)
(* dropped with an operation out of the queue, the queue refused the        *)
(* encoder's output, or end_entry lost an entry of the wrong size.  finish  *)
(* does not look at the failed flag, which most of these do not set, and    *)
(* signs what there is.  A finish that succeeds has written the signature,  *)
(* with the entries that were ended.                                        *)
SignatureLast ==
    /\ ~torn /\ file # << >> /\ file[1].tag = "Signature" => Readable(file)
    /\ result = "Finished" =>
        /\ file # << >> /\ file[1].tag = "Signature"
        /\ file[1].header.sizes = entries

(* Every command returns.                                                    *)
CommandsReturn == pc \in {"Flush", "Await"} ~> pc \in {"Caller", "Gone"}
=============================================================================
