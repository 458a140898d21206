--------------------------- MODULE IndexedReader ---------------------------
(* The indexed ZIP and ISO reader (`IndexedArchiveReader`, seek_stream.rs),  *)
(* read directly (~async) or through the demand reader of the               *)
(* asynchronous adapters (async), where any read may miss the cache, *)
(* fail the command with WouldBlock, and have it run again once the range   *)
(* is fetched.  An entry is [kind, data, size, stream]: its coder, the      *)
(* units of payload stored, the units they decode to, and whether the coded *)
(* stream ends with the stored extent ("Whole"), after it ("Short") or      *)
(* before it ("Long"), decodes to more than the declared size ("Larger") or *)
(* contradicts its checksum or authentication code ("Damaged").  Headers,   *)
(* salts and authentication codes are a unit.                               *)
EXTENDS DemandCache, Sequences, SequencesExt

CONSTANTS
    Archives,      \* the archives that may be read
    BUFFER,        \* the size of the read and decode buffers
    DecodedLimit,  \* Limits::decoded_total
    Cancels,       \* how often the caller may drop a pending future
    None

ASSUME ReaderAssumption == BUFFER \in Nat \ {0} /\ DecodedLimit \in Nat /\ Cancels \in Nat

VARIABLES
    async,         \* whether reads go through the demand reader
    archive,
    pos, cache, demand,   \* the input: position, cached ranges, recorded miss
    next_entry, body, decoded_total,
    chunk,                \* units in event_data
    pc,                   \* "Caller", "Run", "Decode", "Refill", "Auth", "Fetch"
    event,                \* what the last command returned
    delivered, skipped,   \* what the caller got of the current entry
    received,             \* what it got of the archive
    cancels

opened == <<async, archive>>
vars == <<opened, pos, cache, demand, next_entry, body, decoded_total, chunk, pc, event,
          delivered, skipped, received, cancels>>
input == <<pos, cache, demand>>
caller == <<event, delivered, skipped, received, cancels>>

Coded == {"Deflate", "Deflate64", "Bzip2", "Zstd", "AesDeflate", "AesDeflate64"}
Copied == {"Stored", "AesStored", "Raw"}
Encrypted == {"AesStored", "AesDeflate", "AesDeflate64"}
Deflate64s == {"Deflate64", "AesDeflate64"}
-----------------------------------------------------------------------------
(* Layout: a ZIP entry has a local header; an ISO extent (Raw) has none.     *)
HeaderUnits(e) == IF e.kind = "Raw" THEN 0 ELSE 1
FrameUnits(e) == IF e.kind \in Encrypted THEN 2 ELSE IF e.kind = "Lzma" THEN 1 ELSE 0
EntryUnits(e) == HeaderUnits(e) + FrameUnits(e) + e.data
LocalOffset(i) == FoldLeft(LAMBDA acc, e : acc + EntryUnits(e), 0, SubSeq(archive, 1, i - 1))
DataOffset(i) == LocalOffset(i) + HeaderUnits(archive[i])
EndOffset(i) == LocalOffset(i) + EntryUnits(archive[i])
InputLen == LocalOffset(Len(archive) + 1) + 1
Current == archive[next_entry]

NoBody(k) == [kind |-> k, unread |-> 0, compressed |-> << >>, start |-> 0,
              fed |-> 0, produced |-> 0]

Init ==
    /\ async \in BOOLEAN /\ archive \in Archives
    /\ pos = 0 /\ cache = EmptyCache /\ demand = None
    /\ next_entry = 0 /\ body = NoBody("Idle") /\ decoded_total = 0 /\ chunk = 0
    /\ pc = "Caller" /\ event = "ArchiveMetadata"
    /\ delivered = 0 /\ skipped = FALSE /\ received = 0 /\ cancels = 0
-----------------------------------------------------------------------------
(* Reads.  A direct read always succeeds within the input; one through the  *)
(* demand reader needs the range to be cached.                              *)
CanRead(p, n) == ~async \/ n = 0 \/ Hit(cache, p, n)

(* A read that misses fails the command with everything the handler has     *)
(* done so far kept, and event_data cleared when the command is run again.  *)
Miss(p, n) ==
    /\ ~CanRead(p, n)
    /\ demand' = <<p, n>>
    /\ chunk' = 0 /\ pc' = "Fetch"
    /\ UNCHANGED <<cache, opened, next_entry, decoded_total, caller>>

(* The command returns; the adapter then empties the cache.                 *)
Emit(e, n) ==
    /\ event' = e /\ pc' = "Caller" /\ chunk' = 0
    /\ delivered' = delivered + n /\ received' = received + n
    /\ cache' = EmptyCache
    /\ UNCHANGED <<opened, demand, skipped, cancels>>

(* An error of the reader itself; the adapter keeps its cache.              *)
Fail(e) ==
    /\ event' = e /\ pc' = "Caller" /\ chunk' = 0
    /\ UNCHANGED <<opened, cache, demand, delivered, skipped, received, cancels>>

(* account_decoded adds before it checks; the decoders check before they add. *)
ExceedsBefore(n) == decoded_total > DecodedLimit
Exceeds(n) == decoded_total + n > DecodedLimit
-----------------------------------------------------------------------------
(* fulfill and take_fetch_request, then the command is run again; see       *)
(* DemandReader for the steps in between.  The future may be dropped here.  *)
Fetch ==
    /\ pc = "Fetch"
    /\ demand' = None
    /\ LET len == FetchLength(InputLen, demand[1], demand[2])
           after == Inserted(cache, demand[1], len)
       IN IF demand[2] > CacheLimit \/ Held(after) > CacheLimit
          THEN /\ event' = "CacheLimit" /\ pc' = "Caller"
               /\ UNCHANGED <<cache, delivered, skipped, received, cancels>>
          ELSE cache' = after /\ pc' = "Run" /\ UNCHANGED caller
    /\ UNCHANGED <<opened, pos, next_entry, body, decoded_total, chunk>>

Cancel ==
    /\ pc = "Fetch" /\ cancels < Cancels
    /\ cancels' = cancels + 1
    /\ demand' = None /\ event' = "Cancelled" /\ pc' = "Caller"
    /\ UNCHANGED <<opened, pos, cache, next_entry, body, decoded_total, chunk,
                   delivered, skipped, received>>
-----------------------------------------------------------------------------
Errors == {"Limit", "CacheLimit", "Malformed", "Integrity", "Unsupported"}
Payload == Coded \cup Copied \cup {"Lzma", "Unsupported"}

(* A caller goes on after a dropped future; after an error it may skip.      *)
NextEvent ==
    /\ pc = "Caller" /\ event \notin Errors
    /\ pc' = "Run"
    /\ UNCHANGED <<opened, input, next_entry, body, decoded_total, chunk, caller>>

SkipEntry ==
    /\ pc = "Caller"
    /\ \/ /\ body.kind \in Payload
          /\ pos' = EndOffset(next_entry) /\ body' = NoBody("EndEntry")
          /\ event' = "Skipped" /\ skipped' = TRUE /\ cache' = EmptyCache
       \/ /\ body.kind = "EndEntry"
          /\ event' = "Skipped" /\ cache' = EmptyCache /\ UNCHANGED <<pos, body, skipped>>
       \/ /\ body.kind \in {"Idle", "Done"}
          /\ event' = "Protocol" /\ UNCHANGED <<cache, pos, body, skipped>>
    /\ UNCHANGED <<opened, demand, next_entry, decoded_total, chunk, pc, delivered,
                   received, cancels>>
-----------------------------------------------------------------------------
(* The next entry: prepare_zip_body, prepare_lzma_body, prepare_aes_body and *)
(* prepare_iso_body start over from the local header whenever a read misses. *)
PrepareReads(i) ==
    LET e == archive[i] IN
    CASE e.kind = "Raw" -> << >>
      [] e.kind = "Lzma" -> << <<LocalOffset(i), 1>> >> \o [j \in 1..(e.data + 1) |-> <<LocalOffset(i) + j, 1>>]
      [] e.kind \in Encrypted -> << <<LocalOffset(i), 1>>, <<DataOffset(i), 1>> >>
      [] OTHER -> << <<LocalOffset(i), 1>> >>
PreparedFramed(e) == [NoBody(e.kind) EXCEPT !.unread = IF e.kind \in Coded \cup Copied THEN e.data + FrameUnits(e) ELSE 0]
Prepared(e) == [NoBody(e.kind) EXCEPT !.unread = IF e.kind \in Coded \cup Copied THEN e.data ELSE 0]

Prepare ==
    /\ pc = "Run" /\ body.kind = "Idle" /\ next_entry < Len(archive)
    /\ LET i == next_entry + 1
           reads == PrepareReads(i)
           misses == {r \in DOMAIN reads : ~CanRead(reads[r][1], reads[r][2])}
       IN \/ \E r \in misses :
                /\ \A s \in misses : r <= s
                /\ Miss(reads[r][1], reads[r][2])
                /\ pos' = reads[r][1] /\ UNCHANGED body
          \/ /\ misses = {}
             /\ body' = Prepared(archive[i]) /\ next_entry' = i
             /\ pos' = DataOffset(i) + Len(reads) - HeaderUnits(archive[i])
             /\ event' = "Entry" /\ pc' = "Caller" /\ cache' = EmptyCache
             /\ delivered' = 0 /\ skipped' = FALSE
             /\ UNCHANGED <<opened, demand, decoded_total, chunk, received, cancels>>

Finished ==
    /\ pc = "Run"
    /\ body.kind = "Done" \/ (body.kind = "Idle" /\ next_entry = Len(archive))
    /\ body' = NoBody("Done")
    /\ Emit("Done", 0)
    /\ UNCHANGED <<pos, next_entry, decoded_total>>

EndEntry ==
    /\ pc = "Run" /\ body.kind = "EndEntry"
    /\ body' = NoBody("Idle")
    /\ Emit("EndEntry", 0)
    /\ UNCHANGED <<pos, next_entry, decoded_total>>

Unsupported ==
    /\ pc = "Run" /\ body.kind = "Unsupported"
    /\ Fail("Unsupported")
    /\ UNCHANGED <<pos, body, next_entry, decoded_total>>
-----------------------------------------------------------------------------
(* Stored, AesStored and Raw payloads.  A checksum or authentication code is *)
(* compared once the payload has been delivered.                            *)
CopyRefused == Current.stream = "Damaged" \/ (body.kind = "AesStored" /\ body.produced # Current.size)
CopyEnd(auth) ==
    /\ body.unread = 0
    /\ \/ Miss(pos, auth) /\ UNCHANGED <<pos, body>>
       \/ /\ CanRead(pos, auth) /\ CopyRefused
          /\ pos' = pos + auth /\ Fail("Integrity")
          /\ UNCHANGED <<body, next_entry, decoded_total>>
       \/ /\ CanRead(pos, auth) /\ ~CopyRefused
          /\ pos' = pos + auth /\ body' = NoBody("EndEntry")
          /\ UNCHANGED <<opened, cache, demand, next_entry, decoded_total, chunk, pc, caller>>

CopyCount == Least(body.unread, BUFFER)
Copy ==
    /\ body.unread # 0
    /\ LET count == CopyCount IN
       \/ Miss(pos, count) /\ UNCHANGED <<pos, body>>
       \/ /\ CanRead(pos, count)
          /\ pos' = pos + count
          /\ body' = [body EXCEPT !.unread = @ - count, !.produced = @ + count]
          /\ IF body.kind = "AesStored" /\ body'.produced > Current.size
             THEN Fail("Integrity") /\ UNCHANGED decoded_total
             ELSE /\ decoded_total' = decoded_total + count
                  /\ IF Exceeds(count) THEN Fail("Limit") ELSE Emit("Data", count)
          /\ UNCHANGED next_entry

Stored == pc = "Run" /\ body.kind = "Stored" /\ (Copy \/ CopyEnd(0))
AesStored == pc = "Run" /\ body.kind = "AesStored" /\ (Copy \/ CopyEnd(1))
Raw == pc = "Run" /\ body.kind = "Raw" /\ (Copy \/ CopyEnd(0))
-----------------------------------------------------------------------------
(* The decoders, by what they promise: the coded stream is Needs units long *)
(* and decodes to Makes units, everything by its last unit.  A decoder takes *)
(* all the input it can, fills the output it is given, and rejects units    *)
(* that are not the stream's next.  At the end of the payload one that has  *)
(* neither taken nor made a unit reports the cut stream, the zstd decoder   *)
(* by itself.  Filler left in a buffer is 0.                                *)
Needs(e) == CASE e.stream = "Short" -> e.data + 1 [] e.stream = "Long" -> e.data - 1 [] OTHER -> e.data
Makes(e) == IF e.stream = "Larger" THEN e.size + 1 ELSE e.size
Ready(e, fed) == IF fed >= Needs(e) THEN Makes(e) ELSE Least(2 * fed, Makes(e) - 1)

Process(e, b, units) ==
    LET k == Least(Len(units), Needs(e) - b.fed)
        n == Least(BUFFER, Ready(e, b.fed + k) - b.produced)
    IN [consumed |-> k, made |-> n,
        done |-> b.fed + k = Needs(e) /\ b.produced + n = Makes(e),
        rejected |-> \E j \in 1..k : units[j] # b.fed + j]

(* inflate64_extent_step keeps the last declared unit back while it can.     *)
ExtentStep(e, b, units) ==
    LET held == Process(e, b, Front(units)) IN
    IF b.unread # 0 \/ units = << >> THEN Process(e, b, units)
    ELSE IF held.done \/ held.rejected \/ held.consumed # 0 \/ held.made # 0 THEN held
    ELSE Process(e, b, units)

(* A Deflate64 decoder may leave the last unit until it sees the one behind. *)
Steps(e, b) ==
    LET units == SubSeq(b.compressed, b.start + 1, Len(b.compressed)) IN
    IF b.kind \notin Deflate64s THEN {Process(e, b, units)}
    ELSE {ExtentStep(e, b, units)} \cup (IF b.unread # 0 THEN {Process(e, b, Front(units))} ELSE {})

NextUnits(n) == [j \in 1..n |-> Current.data - body.unread + j]
Filler(n) == [j \in 1..n |-> 0]
Resized(s, n) == SubSeq(s, 1, Least(Len(s), n)) \o Filler(n - Least(Len(s), n))

(* The next buffer of payload.  Deflate64 reads into its own buffer, the     *)
(* others into a fresh one that replaces theirs once it is full.            *)
Fill ==
    /\ pc = "Run" /\ body.kind \in Coded
    /\ LET count == Least(body.unread, BUFFER) IN
       \/ /\ body.start # Len(body.compressed) \/ body.unread = 0
          /\ pc' = "Decode"
          /\ UNCHANGED <<opened, input, next_entry, body, decoded_total, chunk, caller>>
       \/ /\ body.start = Len(body.compressed) /\ body.unread # 0
          /\ Miss(pos, count) /\ UNCHANGED pos
          /\ body' = IF body.kind \in Deflate64s
                     THEN [body EXCEPT !.compressed = Resized(@, count)] ELSE body
       \/ /\ body.start = Len(body.compressed) /\ body.unread # 0 /\ CanRead(pos, count)
          /\ body' = [body EXCEPT !.compressed = NextUnits(count), !.start = 0, !.unread = @ - count]
          /\ pos' = pos + count /\ pc' = "Decode"
          /\ UNCHANGED <<opened, cache, demand, next_entry, decoded_total, chunk, caller>>

(* What the loop does with a decoded chunk: an event, or another iteration. *)
Yield(n) ==
    IF n # 0 THEN Emit("Data", n)
    ELSE pc' = "Run" /\ chunk' = 0 /\ UNCHANGED <<opened, cache, demand, caller>>

(* The checks on a decoded chunk and on a finished stream.                   *)
Oversized(e, b, bounded) == bounded /\ b.produced > e.size
StalledUnmade(r) == r.consumed = 0
StalledNever(r) == FALSE
Stalled(r) == r.consumed = 0 /\ r.made = 0
MisplacedUnsized(e, b, extent) == b.start # Len(b.compressed) \/ b.unread # 0
Misplaced(e, b, extent) ==
    \/ b.produced # e.size
    \/ extent /\ (b.start # Len(b.compressed) \/ b.unread # 0)
Refused(e, b, extent) ==
    Misplaced(e, b, extent) \/ (e.stream = "Damaged" /\ b.kind \notin Encrypted)

(* One decoding step.  extent: a stream that ends before its extent is an    *)
(* error; bounded: output beyond the declared size is one at once.          *)
Decode(extent, bounded) ==
    /\ UNCHANGED <<pos, next_entry>>
    /\ \E r \in Steps(Current, body) :
       LET e == Current
           b == [body EXCEPT !.start = @ + r.consumed, !.fed = @ + r.consumed, !.produced = @ + r.made]
       IN \/ /\ r.rejected
             /\ Fail("Malformed") /\ body' = [body EXCEPT !.start = @ + r.consumed]
             /\ UNCHANGED decoded_total
          \/ /\ ~r.rejected /\ Oversized(e, b, bounded)
             /\ Fail("Integrity") /\ body' = b /\ UNCHANGED decoded_total
          \/ /\ ~r.rejected /\ ~Oversized(e, b, bounded) /\ Exceeds(r.made)
             /\ Fail("Limit") /\ body' = b /\ UNCHANGED decoded_total
          \/ /\ ~r.rejected /\ ~Oversized(e, b, bounded) /\ ~Exceeds(r.made)
             /\ decoded_total' = decoded_total + r.made
             /\ \/ r.done /\ Refused(e, b, extent) /\ Fail("Integrity") /\ body' = b
                \/ /\ r.done /\ ~Refused(e, b, extent) /\ b.kind \in Encrypted
                   /\ body' = b /\ chunk' = r.made /\ pc' = "Auth"
                   /\ UNCHANGED <<opened, cache, demand, caller>>
                \/ /\ r.done /\ ~Refused(e, b, extent) /\ b.kind \notin Encrypted
                   /\ body' = NoBody("EndEntry") /\ Yield(r.made)
                \/ ~r.done /\ ~Stalled(r) /\ body' = b /\ Yield(r.made)
                \/ /\ ~r.done /\ Stalled(r) /\ b.unread = 0
                   /\ Fail("Malformed") /\ body' = b
                \/ /\ ~r.done /\ Stalled(r) /\ b.unread # 0
                   /\ body' = b /\ chunk' = 0
                   /\ pc' = IF b.kind \in Deflate64s THEN "Refill" ELSE "Run"
                   /\ UNCHANGED <<opened, cache, demand, caller>>

Deflate == pc = "Decode" /\ body.kind = "Deflate" /\ Decode(TRUE, FALSE)
Deflate64 == pc = "Decode" /\ body.kind = "Deflate64" /\ Decode(TRUE, TRUE)
Bzip2 == pc = "Decode" /\ body.kind = "Bzip2" /\ Decode(FALSE, FALSE)
Zstd == pc = "Decode" /\ body.kind = "Zstd" /\ Decode(FALSE, FALSE)
AesDeflate == pc = "Decode" /\ body.kind = "AesDeflate" /\ Decode(TRUE, TRUE)
AesDeflate64 == pc = "Decode" /\ body.kind = "AesDeflate64" /\ Decode(TRUE, TRUE)

(* The authentication code is read after the last chunk was decoded.         *)
Auth ==
    /\ pc = "Auth"
    /\ UNCHANGED next_entry
    /\ \/ Miss(pos, 1) /\ UNCHANGED <<pos, body>>
       \/ /\ CanRead(pos, 1) /\ Current.stream = "Damaged"
          /\ pos' = pos + 1 /\ Fail("Integrity") /\ UNCHANGED <<body, decoded_total>>
       \/ /\ CanRead(pos, 1) /\ Current.stream # "Damaged"
          /\ pos' = pos + 1 /\ body' = NoBody("EndEntry")
          /\ Yield(chunk) /\ UNCHANGED decoded_total

(* Deflate64 made no progress: what it left moves to the front of its buffer *)
(* and more payload is read behind it.                                      *)
Refill ==
    /\ pc = "Refill"
    /\ LET retained == SubSeq(body.compressed, body.start + 1, Len(body.compressed))
           count == Least(body.unread, BUFFER - Len(retained))
       IN \/ /\ Len(retained) = BUFFER
             /\ Fail("Malformed") /\ body' = [body EXCEPT !.compressed = retained]
             /\ UNCHANGED <<pos, next_entry, decoded_total>>
          \/ /\ Len(retained) < BUFFER /\ Miss(pos, count)
             /\ body' = [body EXCEPT !.compressed = retained \o Filler(count)]
             /\ UNCHANGED pos
          \/ /\ Len(retained) < BUFFER /\ CanRead(pos, count)
             /\ body' = [body EXCEPT !.compressed = retained \o NextUnits(count),
                                     !.start = 0, !.unread = @ - count]
             /\ pos' = pos + count /\ pc' = "Run"
             /\ UNCHANGED <<opened, cache, demand, next_entry, decoded_total, chunk, caller>>

(* LZMA: the payload was buffered when the entry was prepared.  A stream     *)
(* that is cut is malformed; one whose end marker comes early has the wrong *)
(* size.                                                                    *)
Lzma ==
    /\ pc = "Run" /\ body.kind = "Lzma"
    /\ LET n == Least(BUFFER, (IF Current.stream = "Short" THEN Current.size - 1 ELSE Current.size) - body.produced)
       IN \/ /\ n = 0 /\ body.produced = Current.size /\ Current.stream # "Damaged"
             /\ body' = NoBody("EndEntry") /\ Yield(0) /\ UNCHANGED decoded_total
          \/ /\ n = 0 /\ body.produced # Current.size
             /\ Fail("Malformed") /\ UNCHANGED <<body, decoded_total>>
          \/ /\ n = 0 /\ (body.produced # Current.size \/ Current.stream = "Damaged")
             /\ Fail("Integrity") /\ UNCHANGED <<body, decoded_total>>
          \/ /\ n # 0
             /\ body' = [body EXCEPT !.produced = @ + n]
             /\ \/ Exceeds(n) /\ Fail("Limit") /\ UNCHANGED decoded_total
                \/ ~Exceeds(n) /\ decoded_total' = decoded_total + n /\ Emit("Data", n)
    /\ UNCHANGED <<pos, next_entry>>

Step ==
    \/ Prepare \/ Finished \/ EndEntry \/ Unsupported \/ Stored \/ AesStored \/ Raw
    \/ Fill \/ Deflate \/ Deflate64 \/ Bzip2 \/ Zstd \/ AesDeflate \/ AesDeflate64
    \/ Auth \/ Refill \/ Lzma \/ Fetch
Next == NextEvent \/ SkipEntry \/ Step \/ Cancel

(* A command that runs goes on, and the caller asks for the next event.      *)
Spec == Init /\ [][Next]_vars /\ WF_vars(NextEvent \/ Step)
-----------------------------------------------------------------------------

(* An entry whose end is reported was delivered whole, unless it was        *)
(* skipped: no decoded byte is lost between the decoder and the caller, and *)
(* no entry whose stream does not fit its extent, its size or its checksum  *)
(* passes for a whole one.                                                  *)
EntryComplete ==
    event = "EndEntry" /\ ~skipped =>
        /\ delivered = Current.size
        /\ Current.stream \in {"Whole"} \cup (IF Current.kind \in {"Bzip2", "Zstd"} THEN {"Long"} ELSE {})

(* A reader error is about the archive or a limit, never about the way the  *)
(* archive is read: an intact entry is not reported malformed, and the      *)
(* decoded-total limit is reported when, and before, the caller would       *)
(* receive more than it.                                                    *)
ErrorsAreJustified ==
    /\ received <= DecodedLimit
    /\ event \in {"Malformed", "Integrity"} => Current.stream # "Whole"
    /\ event = "Unsupported" => Current.kind = "Unsupported"
    /\ event = "Limit" => received < DecodedLimit + BUFFER /\ DecodedLimit < decoded_total + BUFFER

(* While a payload is open the input stands where its unread part begins,   *)
(* through misses, dropped futures and refills of the buffer; a refused     *)
(* entry, whose code may have been read, can only be skipped.               *)
ExtentExact ==
    pc = "Caller" /\ event # "Integrity" /\ body.kind \in Coded \cup Copied =>
        pos + body.unread + (IF body.kind \in Encrypted THEN 1 ELSE 0) = EndOffset(next_entry)

(* A caller that keeps asking reaches the end of the archive or an error.    *)
ReaderFinishes == <>(event \in Errors \cup {"Done"})
=============================================================================
