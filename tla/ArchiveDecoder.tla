--------------------------- MODULE ArchiveDecoder ---------------------------
(***************************************************************************)
(* What the sequential decoders of libarchive_oxide-core share: the units  *)
(* an archive is made of, the events a decoder reports and the result of   *)
(* one call of ArchiveDecoder::step (protocol.rs).                         *)
(*                                                                         *)
(* A unit stands for a run of bytes that no property tells apart: a payload *)
(* byte, a magic, the fixed part of a header, its rest.  A header unit      *)
(* carries the fields the decoder parses out of it.  A cut between two      *)
(* units is a chunk boundary between the runs they stand for.               *)
(***************************************************************************)
EXTENDS Integers, Sequences, SequencesExt

Byte(v) == [t |-> "byte", v |-> v]

Zero == Byte(0)

\* Payload bytes that spell a name.
NameByte(name) == [t |-> "name", name |-> name]

\* The second half of a header: bytes that matter only by being there.
Rest == [t |-> "rest"]

Take(s, n) == SubSeq(s, 1, n)

Drop(s, n) == SubSeq(s, n + 1, Len(s))

\* F applied to the value of v, which is computed once.
With(v, F(_)) == CHOOSE y \in {F(x) : x \in {v}} : TRUE

Least(a, b) == IF a < b THEN a ELSE b

None == "none"

NoNumber == -1

NoEvent == [k |-> "None"]

NeedInput == [k |-> "NeedInput"]

Metadata == [k |-> "ArchiveMetadata"]

Entry(name, link) == [k |-> "Entry", name |-> name, link |-> link]

Data(units) == [k |-> "Data", units |-> units]

EndEntry == [k |-> "EndEntry"]

Done == [k |-> "Done"]

\* DecodeStep: the decoder afterwards, the units consumed and the event.
Step(d, n, ev) == [d |-> d, n |-> n, ev |-> ev]

\* An Err of step: the decoder is not used again.
Fail(d, kind) == Step(d, 0, [k |-> "Error", kind |-> kind])

\* The answer to a shortage of input: a truncation once the input has ended.
Starved(d, n, end) ==
    IF end THEN Fail(d, "Malformed") ELSE Step(d, n, NeedInput)

\* limits is [total, entries, entry]: decoded_total, entries and entry_bytes.
Exceeds(actual, limit) == actual > limit

-----------------------------------------------------------------------------
(***************************************************************************)
(* The cpio decoder (libarchive_oxide-core/src/format/cpio.rs): header      *)
(* accumulation in growing targets, payload, padding, the CRC dialect's     *)
(* checksum and the regrouping of hard links, whose records carry a payload *)
(* only once and in any position.                                           *)
(*                                                                         *)
(* On the wire a header is CpioMagic, CpioFields(m) and m.namesize name     *)
(* units; the name itself travels in m.                                     *)
(***************************************************************************)

CpioMagic == [t |-> "cpio"]

CpioFields(m) == [t |-> "fields", m |-> m]

Trailer == "TRAILER!!!"

CpioNew ==
    [f |-> "cpio", st |-> "Header", header |-> <<>>, left |-> 0, pad |-> 0,
     sum |-> NoNumber, actual |-> 0, emit |-> TRUE, entries |-> 0, total |-> 0,
     groups |-> <<>>, queued |-> <<>>]

\* target_from_prefix: how long the header is known to be.
HeaderTarget(h) ==
    IF Len(h) < 1 THEN 1 ELSE IF Len(h) < 2 THEN 2 ELSE 2 + h[2].m.namesize

QueueEntry(q, e) == q \o <<e, EndEntry>>

QueueLinks(q, names, target) ==
    FoldLeft(LAMBDA acc, name : QueueEntry(acc, Entry(name, target)), q, names)

\* An empty-file group: the first pending record is the file, the others link to it.
QueueEmptyGroup(q, names) ==
    QueueLinks(QueueEntry(q, Entry(names[1], None)), Tail(names), names[1])

\* d.groups maps the inodes seen so far to their link groups.
Group(d, m) ==
    IF m.ino \in DOMAIN d.groups THEN d.groups[m.ino]
    ELSE [expected |-> m.links, seen |-> 0, target |-> None, pending |-> <<>>]

PutGroup(d, ino, g) ==
    [i \in DOMAIN d.groups \cup {ino} |-> IF i = ino THEN g ELSE d.groups[i]]

(***************************************************************************)
(* classify_hardlink: e is the entry to report now, or NoEvent when the record *)
(* waits for the record of its group that carries the payload.              *)
(***************************************************************************)
Classify(d, m) ==
    LET g == [Group(d, m) EXCEPT !.seen = @ + 1]
        wait == Append(g.pending, m.name)
        refuse == [d |-> d, e |-> NoEvent, ok |-> FALSE]
        keep(grp, q, e) ==
            [d  |-> [d EXCEPT !.groups = PutGroup(d, m.ino, grp), !.queued = q],
             e  |-> e, ok |-> TRUE]
    IN  IF m.links <= 1
        THEN [d |-> d, e |-> Entry(m.name, None), ok |-> TRUE]
        ELSE IF g.expected # m.links \/ g.seen > g.expected
        THEN refuse
        ELSE IF m.size # 0 /\ g.target # None
        THEN refuse
        ELSE IF m.size # 0
        THEN keep([g EXCEPT !.target = m.name, !.pending = <<>>],
                  QueueLinks(d.queued, g.pending, m.name), Entry(m.name, None))
        ELSE IF g.target # None
        THEN keep(g, d.queued, Entry(m.name, g.target))
        ELSE IF g.seen = g.expected
        THEN keep([g EXCEPT !.target = wait[1], !.pending = <<>>],
                  QueueEmptyGroup(d.queued, wait), NoEvent)
        ELSE keep([g EXCEPT !.pending = wait], d.queued, NoEvent)

\* resolve_incomplete_hardlinks: groups still waiting at the trailer, by inode.
ResolveIncomplete(d) ==
    LET open == {i \in DOMAIN d.groups :
                    d.groups[i].target = None /\ d.groups[i].pending # <<>>}
        resolved(g) == [g EXCEPT !.target = g.pending[1], !.pending = <<>>]
    IN  [d EXCEPT
           !.queued = FoldLeft(LAMBDA q, i : QueueEmptyGroup(q, d.groups[i].pending),
                               @, SetToSortSeq(open, <)),
           !.groups = [i \in DOMAIN @ |-> IF i \in open THEN resolved(@[i]) ELSE @[i]]]

PopQueued(d, n) == Step([d EXCEPT !.queued = Tail(@)], n, Head(d.queued))

\* The bytes of one payload window, added up for the CRC dialect.
Sum(units) == FoldLeft(LAMBDA acc, u : acc + u.v, 0, units)

\* DecoderState::Data with bytes left.
CpioData(d, input, end, limits) ==
    LET n == Least(d.left, Len(input))
        total == d.total + n
    IN  IF input = <<>> THEN Starved(d, 0, end)
        ELSE IF Exceeds(total, limits.total) THEN Fail(d, "Limit")
        ELSE Step([d EXCEPT !.left = @ - n, !.total = total,
                            !.actual = @ + Sum(Take(input, n))],
                  n, Data(Take(input, n)))

\* A complete header of n further units: trailer, waiting link or entry.
CpioEntry(d, n, limits) ==
    LET m == d.header[2].m
        fresh == [d EXCEPT !.header = <<>>]
        done == ResolveIncomplete([fresh EXCEPT !.st = "Done"])
        c == Classify([fresh EXCEPT !.entries = @ + 1], m)
        next == [c.d EXCEPT !.st = "Data", !.left = m.size, !.pad = m.pad,
                            !.sum = m.sum, !.actual = 0, !.emit = c.e # NoEvent]
    IN  IF Exceeds(m.size, limits.entry) THEN Fail(d, "Limit")
        ELSE IF m.name = Trailer
        THEN IF done.queued # <<>> THEN PopQueued(done, n) ELSE Step(done, n, Done)
        ELSE IF Exceeds(d.entries + 1, limits.entries) THEN Fail(d, "Limit")
        ELSE IF ~c.ok THEN Fail(d, "Malformed")
        ELSE IF c.e # NoEvent THEN Step(next, n, c.e)
        ELSE Step(next, n, [k |-> "Again"])

(***************************************************************************)
(* The header loop: take units up to each target in turn; the magic is      *)
(* checked as soon as the first target is reached.                          *)
(***************************************************************************)
CpioHeader(d, input, end, limits) ==
    LET all == d.header \o input
        target == HeaderTarget(all)
        n == target - Len(d.header)
    IN  IF all # <<>> /\ all[1] # CpioMagic THEN Fail(d, "Malformed")
        ELSE IF Len(all) < target
        THEN Starved([d EXCEPT !.header = all], Len(input), end)
        ELSE CpioEntry([d EXCEPT !.header = Take(all, target)], n, limits)

\* DecoderState::EndEntry: the padding goes in one piece, then the checksum is judged.
CpioEndEntryUnsummed(d, input, end) ==
    IF Len(input) < d.pad THEN Starved(d, 0, end)
    ELSE Step([d EXCEPT !.st = "Header"], d.pad,
              IF d.emit THEN EndEntry ELSE [k |-> "Again"])

CpioEndEntry(d, input, end) ==
    IF Len(input) < d.pad THEN Starved(d, 0, end)
    ELSE IF d.sum # NoNumber /\ d.sum # d.actual THEN Fail(d, "Integrity")
    ELSE Step([d EXCEPT !.st = "Header"], d.pad,
              IF d.emit THEN EndEntry ELSE [k |-> "Again"])

\* One match of step on the state; "Again" is the decoder's call of itself.
CpioState(d, input, end, limits) ==
    CASE d.st = "Data" /\ d.left = 0 ->
           Step([d EXCEPT !.st = "EndEntry"], 0, [k |-> "Again"])
      [] d.st = "Data" /\ d.left # 0 -> CpioData(d, input, end, limits)
      [] d.st = "EndEntry" -> CpioEndEntry(d, input, end)
      [] d.st = "Header" -> CpioHeader(d, input, end, limits)
      [] d.st = "Done" -> IF input # <<>> THEN Fail(d, "Protocol") ELSE Step(d, 0, Done)

RECURSIVE CpioStep(_, _, _, _)

(***************************************************************************)
(* step: queued link entries come out between records and after the         *)
(* trailer; a call of itself goes on with the rest of input.                *)
(***************************************************************************)
CpioStep(d, input, end, limits) ==
    IF d.st \in {"Header", "Done"} /\ d.queued # <<>> THEN PopQueued(d, 0)
    ELSE With(CpioState(d, input, end, limits), LAMBDA r :
           IF r.ev.k # "Again" THEN r
           ELSE With(CpioStep(r.d, Drop(input, r.n), end, limits), LAMBDA again :
                  IF again.ev.k = "Error" THEN again ELSE [again EXCEPT !.n = @ + r.n]))

-----------------------------------------------------------------------------
(***************************************************************************)
(* The ar decoder (libarchive_oxide-core/src/format/ar.rs): the global      *)
(* magic, member headers, the special members (symbol index, GNU string     *)
(* table), BSD inline names, payload and padding.                           *)
(*                                                                         *)
(* A member header is ArHeader(m) followed by Rest, with m.kind one of      *)
(* "plain" (m.name), "gnu" (m.offset into the string table), "bsd"          *)
(* (m.namelen leading body units are the name), "index" and "table".        *)
(***************************************************************************)

ArMagic(thin) == [t |-> "armagic", thin |-> thin]

ArHeader(m) == [t |-> "ar", m |-> m]

ArHeaderLen == 2

ArNew ==
    [f |-> "ar", st |-> "Magic", pending |-> <<>>, left |-> 0, pad |-> 0, body |-> 0,
     keep |-> FALSE, table |-> <<>>, thin |-> FALSE, entries |-> 0, total |-> 0]

\* metadata, count_entry and the state after a member's name is known.
ArEntry(d, n, name, size, pad, limits) ==
    LET next == IF d.thin THEN [d EXCEPT !.st = "EndEntry", !.pad = 0]
                ELSE [d EXCEPT !.st = "Data", !.left = size, !.pad = pad]
    IN  IF Exceeds(size, limits.entry) \/ Exceeds(d.entries + 1, limits.entries)
        THEN Fail(d, "Limit")
        ELSE Step([next EXCEPT !.entries = @ + 1, !.pending = <<>>], n, Entry(name, None))

ArData(d, input, end, limits) ==
    LET n == Least(d.left, Len(input))
    IN  IF input = <<>> THEN Starved(d, 0, end)
        ELSE IF Exceeds(d.total + n, limits.total) THEN Fail(d, "Limit")
        ELSE Step([d EXCEPT !.left = @ - n, !.total = @ + n], n, Data(Take(input, n)))

\* The padding goes in one piece.
ArEndEntry(d, input, end) ==
    IF Len(input) < d.pad THEN Starved(d, 0, end)
    ELSE Step([d EXCEPT !.st = "Header"], d.pad, EndEntry)

(***************************************************************************)
(* A special member: its body is kept when it is the string table; then     *)
(* its padding, again in one piece.                                         *)
(***************************************************************************)
ArSpecial(d, input, end) ==
    LET n == Least(d.left, Len(input))
        next == [d EXCEPT !.left = @ - n,
                          !.table = IF d.keep THEN @ \o Take(input, n) ELSE @]
    IN  IF next.left # 0 \/ Len(input) - n < d.pad THEN Starved(next, n, end)
        ELSE Step([next EXCEPT !.st = "Header"], n + d.pad, NeedInput)

\* A BSD name stored in front of the member's body.
ArBsdName(d, input, end, limits) ==
    LET n == Least(d.left, Len(input))
        next == [d EXCEPT !.left = @ - n, !.pending = @ \o Take(input, n)]
    IN  IF next.left # 0 THEN Starved(next, n, end)
        ELSE ArEntry(next, n, next.pending[1].name, d.body, d.pad, limits)

\* A complete member header.
ArMember(d, n, limits) ==
    LET m == d.pending[1].m
        clear == [d EXCEPT !.pending = <<>>]
        pad == m.size % 2
    IN  CASE d.pending[1].t # "ar" -> Fail(d, "Malformed")
          [] m.kind \in {"index", "table"} ->
               Step([clear EXCEPT !.st = "Special", !.left = m.size, !.pad = pad,
                                  !.keep = m.kind = "table",
                                  !.table = IF m.kind = "table" THEN <<>> ELSE @],
                    n, NeedInput)
          [] m.kind = "bsd" ->
               IF m.namelen > m.size THEN Fail(d, "Malformed")
               ELSE Step([clear EXCEPT !.st = "BsdName", !.left = m.namelen,
                                       !.body = m.size - m.namelen, !.pad = pad],
                         n, NeedInput)
          [] m.kind = "gnu" ->
               IF m.offset >= Len(d.table) THEN Fail(d, "Malformed")
               ELSE ArEntry(clear, n, d.table[m.offset + 1].name, m.size, pad, limits)
          [] m.kind = "plain" -> ArEntry(clear, n, m.name, m.size, pad, limits)

\* The end of input is the end of the archive only between two members.
ArHeaderStep(d, n, input, end, limits) ==
    LET rest == Drop(input, n)
        c == Least(ArHeaderLen - Len(d.pending), Len(rest))
        next == [d EXCEPT !.pending = @ \o Take(rest, c)]
    IN  IF d.pending = <<>> /\ rest = <<>> /\ end
        THEN Step([d EXCEPT !.st = "Done"], n, Done)
        ELSE IF Len(next.pending) < ArHeaderLen THEN Starved(next, n + c, end)
        ELSE ArMember(next, n + c, limits)

ArMagicStep(d, input, end, limits) ==
    IF input = <<>> THEN Starved(d, 0, end)
    ELSE IF input[1].t # "armagic" THEN Fail(d, "Malformed")
    ELSE ArHeaderStep([d EXCEPT !.st = "Header", !.thin = input[1].thin],
                      1, input, end, limits)

ArStep(d, input, end, limits) ==
    CASE d.st = "Done" -> IF input # <<>> THEN Fail(d, "Protocol") ELSE Step(d, 0, Done)
      [] d.st = "Data" -> IF d.left = 0 THEN ArEndEntry(d, input, end)
                          ELSE ArData(d, input, end, limits)
      [] d.st = "EndEntry" -> ArEndEntry(d, input, end)
      [] d.st = "Special" -> ArSpecial(d, input, end)
      [] d.st = "BsdName" -> ArBsdName(d, input, end, limits)
      [] d.st = "Magic" -> ArMagicStep(d, input, end, limits)
      [] d.st = "Header" -> ArHeaderStep(d, 0, input, end, limits)

-----------------------------------------------------------------------------
(***************************************************************************)
(* The WARC decoder (libarchive_oxide-core/src/format/warc.rs), with the     *)
(* two formats that have no framing of their own: raw.rs and empty.rs.      *)
(*                                                                         *)
(* A record is WarcSignature, any number of field units, WarcBlank(m) (the  *)
(* empty line, carrying what the fields said), m.size payload units and the *)
(* two units of RecordEnd.                                                  *)
(***************************************************************************)

WarcSignature == [t |-> "warc"]

WarcBlank(m) == [t |-> "blank", m |-> m]

\* RECORD_END, CRLF CRLF.
RecordEnd == <<[t |-> "crlf", i |-> 1], [t |-> "crlf", i |-> 2]>>

WarcNew ==
    [f |-> "warc", st |-> "Header", header |-> <<>>, left |-> 0, matched |-> 0,
     entries |-> 0, total |-> 0]

WarcData(d, input, end, limits) ==
    LET n == Least(d.left, Len(input))
    IN  IF d.left = 0
        THEN Step([d EXCEPT !.st = "Trailer", !.matched = 0], 0, EndEntry)
        ELSE IF input = <<>> THEN Starved(d, 0, end)
        ELSE IF Exceeds(d.total + n, limits.total) THEN Fail(d, "Limit")
        ELSE Step([d EXCEPT !.left = @ - n, !.total = @ + n], n, Data(Take(input, n)))

WarcTrailer(d, input, end) ==
    LET n == Least(Len(RecordEnd) - d.matched, Len(input))
    IN  IF Take(input, n) # SubSeq(RecordEnd, d.matched + 1, d.matched + n)
        THEN Fail(d, "Malformed")
        ELSE IF d.matched + n = Len(RecordEnd)
        THEN Step([d EXCEPT !.st = "Header"], n, NeedInput)
        ELSE Starved([d EXCEPT !.matched = @ + n], n, end)

\* A record whose header has just been completed by its n-th further unit.
WarcRecord(d, n, limits) ==
    LET m == d.header[Len(d.header)].m
    IN  IF Exceeds(d.entries + 1, limits.entries) THEN Fail(d, "Limit")
        ELSE IF d.header[1] # WarcSignature THEN Fail(d, "Malformed")
        ELSE IF Exceeds(m.size, limits.entry) THEN Fail(d, "Limit")
        ELSE Step([d EXCEPT !.st = "Data", !.header = <<>>, !.left = m.size,
                            !.entries = @ + 1],
                  n, Entry(m.name, None))

WarcHeader(d, input, end, limits) ==
    LET blank == {i \in DOMAIN input : input[i].t = "blank"}
        n == CHOOSE i \in blank : \A j \in blank : i <= j
    IN  IF input = <<>> /\ end /\ d.header = <<>> /\ d.entries # 0
        THEN Step([d EXCEPT !.st = "Done"], 0, Done)
        ELSE IF blank = {} THEN Starved([d EXCEPT !.header = @ \o input], Len(input), end)
        ELSE WarcRecord([d EXCEPT !.header = @ \o Take(input, n)], n, limits)

WarcStep(d, input, end, limits) ==
    CASE d.st = "Done" -> IF input # <<>> THEN Fail(d, "Protocol") ELSE Step(d, 0, Done)
      [] d.st = "Data" -> WarcData(d, input, end, limits)
      [] d.st = "Trailer" -> WarcTrailer(d, input, end)
      [] d.st = "Header" -> WarcHeader(d, input, end, limits)

RawNew(limits) == [f |-> "raw", st |-> "ArchiveMetadata", left |-> limits.total]

\* RawDecoder::step: one entry, as many bytes as the total allows.
RawStep(d, input, end) ==
    LET n == Least(d.left, Len(input))
    IN  CASE d.st = "ArchiveMetadata" -> Step([d EXCEPT !.st = "Entry"], 0, Metadata)
          [] d.st = "Entry" -> Step([d EXCEPT !.st = "Data"], 0, Entry("data", None))
          [] d.st = "Data" /\ input # <<>> ->
               IF d.left = 0 THEN Fail(d, "Limit")
               ELSE Step([d EXCEPT !.left = @ - n], n, Data(Take(input, n)))
          [] d.st = "Data" /\ input = <<>> /\ ~end -> Step(d, 0, NeedInput)
          [] d.st = "Data" /\ input = <<>> /\ end ->
               Step([d EXCEPT !.st = "Done"], 0, EndEntry)
          [] d.st = "Done" -> Step(d, 0, Done)

EmptyNew == [f |-> "empty", st |-> "Start"]

EmptyStep(d, input, end) ==
    CASE input # <<>> -> Fail(d, IF d.st = "Start" THEN "Malformed" ELSE "Protocol")
      [] input = <<>> /\ d.st = "Start" /\ ~end -> Step(d, 0, NeedInput)
      [] input = <<>> /\ d.st = "Start" /\ end -> Step([d EXCEPT !.st = "Done"], 0, Metadata)
      [] input = <<>> /\ d.st = "Done" -> Step(d, 0, Done)
=============================================================================
