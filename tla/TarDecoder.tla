------------------------------ MODULE TarDecoder ------------------------------
(***************************************************************************)
(* The tar decoder (libarchive_oxide-core/src/format/tar.rs): TarSource, a  *)
(* pull parser over a buffer that is compacted once per pull, and           *)
(* TarDecoder, which feeds it, turns sparse maps into holes and keeps the   *)
(* budgets.                                                                 *)
(*                                                                         *)
(* A block is two units.  A header block is TarHeader(m), Rest, with m.type *)
(* "file", "x" (PAX, next entry), "g" (PAX, global), "L", "K" (GNU long      *)
(* name and link) or "S" (old GNU sparse).  PAX bodies start with a Pax unit *)
(* that carries the overrides; a sparse extension block is SparseBlock(m),   *)
(* Rest.                                                                    *)
(***************************************************************************)
EXTENDS ArchiveDecoder, FiniteSets, SequencesExt

BLOCK == 2

TarHeader(m) == [t |-> "tar", m |-> m]

SparseBlock(extents, more) == [t |-> "sparse", extents |-> extents, more |-> more]

Pax(ov) == [t |-> "pax", ov |-> ov]

\* struct Overrides; map is the extents of the GNU.sparse records.
NoOverrides ==
    [path |-> None, link |-> None, size |-> NoNumber, real |-> NoNumber, map |-> <<>>]

Or(a, b, unset) == IF a # unset THEN a ELSE b

\* merge_owned: what src sets replaces what dst had.
MergeFirstWins(dst, src) ==
    [path |-> Or(dst.path, src.path, None), link |-> Or(dst.link, src.link, None),
     size |-> Or(dst.size, src.size, NoNumber), real |-> Or(dst.real, src.real, NoNumber),
     map  |-> Or(dst.map, src.map, <<>>)]

Merge(dst, src) ==
    [path |-> Or(src.path, dst.path, None), link |-> Or(src.link, dst.link, None),
     size |-> Or(src.size, dst.size, NoNumber), real |-> Or(src.real, dst.real, NoNumber),
     map  |-> Or(src.map, dst.map, <<>>)]

TarNew ==
    [f |-> "tar", buf |-> <<>>, cur |-> 0, st |-> "Header", left |-> 0, pad |-> 0,
     kind |-> "x", ended |-> FALSE, pending |-> NoOverrides, global |-> NoOverrides,
     record |-> <<>>, staged |-> NoOverrides, logical |-> 0, map |-> <<>>, sparse |-> FALSE,
     window |-> 0, changed |-> FALSE, chunk |-> NoNumber,
     needs |-> TRUE, done |-> FALSE, entries |-> 0, ebytes |-> 0, total |-> 0,
     active |-> FALSE, index |-> 1, lpos |-> 0]

Available(d) == Len(d.buf) - d.cur

Compact(d) == [d EXCEPT !.buf = Drop(@, d.cur), !.cur = 0]

RoundUp(size) == ((size + BLOCK - 1) \div BLOCK) * BLOCK

ExtentEnd(e) == e.offset + e.length

\* validate_sparse_extents
ExtentsValid(extents, logical, stored) ==
    /\ \A i \in DOMAIN extents :
          /\ ExtentEnd(extents[i]) <= logical
          /\ i > 1 => extents[i].offset >= ExtentEnd(extents[i - 1])
    /\ FoldLeft(LAMBDA acc, e : acc + e.length, 0, extents) = stored

\* Poll: the source afterwards and what it has to say.
Poll(d, r) == [d |-> d, r |-> r]

TarStarved(d) == Poll(d, IF d.ended THEN "Malformed" ELSE "NeedInput")

\* apply_record: a long name replaces the path, PAX records are merged.
ApplyRecord(d) ==
    LET first == d.record[1]
    IN  CASE d.kind = "L" -> [d EXCEPT !.pending.path = first.name]
          [] d.kind = "K" -> [d EXCEPT !.pending.link = first.name]
          [] d.kind = "x" -> [d EXCEPT !.pending = Merge(@, first.ov)]
          [] d.kind = "g" -> [d EXCEPT !.global = Merge(@, first.ov), !.changed = TRUE]

\* stage_header_metadata: what the Entry event and the payload need.
StageHeader(d, m, size) ==
    LET p == d.pending
        old == m.type = "S"
        map == Or(p.map, d.global.map, <<>>) \o (IF old THEN m.map ELSE <<>>)
        real == Or(p.real, d.global.real, NoNumber)
    IN  [d EXCEPT !.pending = NoOverrides, !.staged = p, !.map = map,
                  !.sparse = old \/ real # NoNumber \/ map # <<>>,
                  !.logical = IF old THEN m.real ELSE Or(real, size, NoNumber),
                  !.chunk = NoNumber]

(***************************************************************************)
(* poll_header: a zero block, or an end of input short of a block, is the   *)
(* end of the archive; an extended header opens a record; anything else is  *)
(* an entry.                                                                *)
(***************************************************************************)
PollHeader(d) ==
    LET hdr == SubSeq(d.buf, d.cur + 1, d.cur + BLOCK)
        m == hdr[1].m
        next == [d EXCEPT !.cur = @ + BLOCK]
        size == Or(Or(d.pending.size, d.global.size, NoNumber), m.size, NoNumber)
        s == [StageHeader(next, m, size) EXCEPT !.left = size, !.pad = RoundUp(size) - size]
        extended == m.type = "S" /\ m.more
    IN  IF Available(d) < BLOCK
        THEN IF d.ended THEN Poll([d EXCEPT !.st = "Done"], "Done") ELSE Poll(d, "NeedInput")
        ELSE IF \A i \in DOMAIN hdr : hdr[i] = Zero
        THEN Poll([d EXCEPT !.st = "Done"], "Done")
        ELSE IF hdr[1].t # "tar" THEN Poll(d, "Malformed")
        ELSE IF m.type \in {"x", "g", "L", "K"}
        THEN Poll([next EXCEPT !.st = "Meta", !.kind = m.type, !.record = <<>>,
                               !.left = m.size, !.pad = RoundUp(m.size) - m.size],
                  "Continue")
        ELSE IF s.sparse /\ ~ExtentsValid(s.map, s.logical, size) THEN Poll(d, "Malformed")
        ELSE IF extended THEN Poll([s EXCEPT !.st = "SparseExtensions"], "Continue")
        ELSE Poll([s EXCEPT !.st = "Payload"], "Entry")

PollSparseExtension(d) ==
    LET block == d.buf[d.cur + 1]
        next == [d EXCEPT !.cur = @ + BLOCK, !.map = @ \o block.extents]
    IN  IF Available(d) < BLOCK THEN TarStarved(d)
        ELSE IF block.more THEN Poll(next, "Continue")
        ELSE IF ~ExtentsValid(next.map, d.logical, d.left) THEN Poll(d, "Malformed")
        ELSE Poll([next EXCEPT !.st = "Payload"], "Entry")

\* poll_meta: the record's bytes, then its padding, then its effect.
PollMeta(d) ==
    LET n == Least(d.left, Available(d))
        p == Least(d.pad, Available(d))
    IN  IF d.left + d.pad > 0 /\ Available(d) = 0 THEN TarStarved(d)
        ELSE IF d.left > 0
        THEN Poll([d EXCEPT !.cur = @ + n, !.left = @ - n,
                            !.record = @ \o SubSeq(d.buf, d.cur + 1, d.cur + n)], "Continue")
        ELSE IF d.pad > 0 THEN Poll([d EXCEPT !.cur = @ + p, !.pad = @ - p], "Continue")
        ELSE Poll([ApplyRecord(d) EXCEPT !.record = <<>>, !.st = "Header"], "Continue")

\* poll_payload: windows up to the chunk limit, then the padding.
PollPayload(d) ==
    LET room == Least(d.left, Available(d))
        want == IF d.chunk = NoNumber THEN room ELSE Least(room, d.chunk)
        p == Least(d.pad, Available(d))
    IN  IF d.left + d.pad > 0 /\ Available(d) = 0 THEN TarStarved(d)
        ELSE IF d.left > 0
        THEN IF want = 0 THEN Poll(d, "NeedInput")
             ELSE Poll([d EXCEPT !.cur = @ + want, !.left = @ - want, !.window = want], "Data")
        ELSE IF d.pad > 0 THEN Poll([d EXCEPT !.cur = @ + p, !.pad = @ - p], "Continue")
        ELSE Poll([d EXCEPT !.st = "Header"], "EndEntry")

PollState(d) ==
    CASE d.st = "Done" -> Poll(d, "Done")
      [] d.st = "Header" -> PollHeader(d)
      [] d.st = "Meta" -> PollMeta(d)
      [] d.st = "SparseExtensions" -> PollSparseExtension(d)
      [] d.st = "Payload" -> PollPayload(d)

RECURSIVE Pull(_)

\* The loop of pull_v2: a changed global header is reported before anything else.
Pull(d) ==
    IF d.changed THEN Poll([d EXCEPT !.changed = FALSE], "ArchiveMetadata")
    ELSE With(PollState(d), LAMBDA p : IF p.r = "Continue" THEN Pull(p.d) ELSE p)

(***************************************************************************)
(* Where pull_v2 looks for the header of the entry it reports: the block    *)
(* before the cursor, else the last block of the buffer that carries a      *)
(* valid checksum, else the start of the buffer.                            *)
(***************************************************************************)
StagedHeader(d) ==
    LET valid == {i \in 1 .. d.cur - BLOCK + 1 : d.buf[i].t = "tar"}
        last == CHOOSE i \in valid : \A j \in valid : j <= i
    IN  d.buf[IF valid = {} THEN 1 ELSE last]

\* A block that is no header parses as one all the same.
Garbled == [type |-> "file", name |-> "garbled", link |-> None]

\* parse_source_header and rich_metadata: overrides before header fields.
TarEntry(d) ==
    LET m == IF StagedHeader(d).t = "tar" THEN StagedHeader(d).m ELSE Garbled
        ov == Merge(d.global, d.staged)
    IN  Entry(Or(ov.path, m.name, None),
              IF m.link = None THEN None ELSE Or(ov.link, m.link, None))

Account(d, n) == [d EXCEPT !.ebytes = @ + n, !.total = @ + n]

OverBudgetEntryOnly(d, limits) == Exceeds(d.ebytes, limits.entry)

OverBudget(d, limits) == Exceeds(d.ebytes, limits.entry) \/ Exceeds(d.total, limits.total)

\* sparse_hole, part one: extents that are used up are left behind.
SkipExtents(d) ==
    LET behind == {i \in d.index .. Len(d.map) :
                      \A j \in d.index .. i : d.lpos = ExtentEnd(d.map[j])}
    IN  [d EXCEPT !.index = @ + IF d.active THEN Cardinality(behind) ELSE 0]

\* The logical position the next stored byte belongs to.
NextData(d) == IF d.index <= Len(d.map) THEN d.map[d.index].offset ELSE d.logical

\* sparse_hole, part two: zeros up to the next extent, as many as output takes.
Hole(d, room, limits) ==
    LET n == Least(NextData(d) - d.lpos, room)
        next == Account([d EXCEPT !.lpos = @ + n], n)
    IN  IF OverBudget(next, limits) THEN Fail(d, "Limit")
        ELSE Step(next, 0, Data([i \in 1 .. n |-> Zero]))

\* sparse_hole, part three: no window crosses the end of its extent.
ChunkLimit(d) ==
    IF d.active /\ d.index <= Len(d.map) THEN ExtentEnd(d.map[d.index]) - d.lpos
    ELSE NoNumber

\* What TarDecoder::step makes of the source's event, having consumed n units.
TarEvent(d, n, r, limits) ==
    LET window == SubSeq(d.buf, d.cur - d.window + 1, d.cur)
        len == Len(window)
        inside == /\ d.index <= Len(d.map)
                  /\ d.lpos >= d.map[d.index].offset
                  /\ d.lpos + len <= ExtentEnd(d.map[d.index])
        opened == [d EXCEPT !.entries = @ + 1, !.ebytes = 0, !.active = d.sparse,
                            !.index = 1, !.lpos = 0]
        stored == Account([d EXCEPT !.lpos = IF d.active THEN @ + len ELSE @], len)
    IN  CASE r = "Malformed" -> Fail(d, "Malformed")
          [] r = "NeedInput" ->
               IF d.ended THEN Fail(d, "Malformed")
               ELSE Step([d EXCEPT !.needs = TRUE], n, NeedInput)
          [] r = "ArchiveMetadata" -> Step(d, n, Metadata)
          [] r = "Entry" ->
               IF Exceeds(d.entries + 1, limits.entries) \/ Exceeds(d.logical, limits.entry)
               THEN Fail(d, "Limit") ELSE Step(opened, n, TarEntry(d))
          [] r = "Data" ->
               IF d.active /\ ~inside THEN Fail(d, "Malformed")
               ELSE IF OverBudget(stored, limits) THEN Fail(d, "Limit")
               ELSE Step(stored, n, Data(window))
          [] r = "EndEntry" ->
               IF d.active /\ d.lpos # d.logical THEN Fail(d, "Malformed")
               ELSE Step([d EXCEPT !.active = FALSE], n, EndEntry)
          [] r = "Done" -> Step([d EXCEPT !.done = TRUE], n, Done)

(***************************************************************************)
(* TarDecoder::step: holes first; input is taken only after the source has  *)
(* asked for it, and no more than the in-flight budget leaves.              *)
(***************************************************************************)
TarFeed(d, input, end, limits, inflight, room) ==
    LET feeds == d.needs /\ input # <<>>
        budget == Least(inflight - Len(d.buf), Len(input))
        n == IF feeds THEN budget ELSE 0
        fed == [d EXCEPT !.chunk = ChunkLimit(d), !.buf = @ \o Take(input, n),
                         !.needs = @ /\ ~feeds, !.ended = @ \/ (end /\ n = Len(input))]
    IN  IF d.done
        THEN IF input # <<>> THEN Fail(d, "Protocol") ELSE Step(d, 0, Done)
        ELSE IF d.active /\ d.lpos < NextData(d) THEN Hole(d, room, limits)
        ELSE IF feeds /\ budget <= 0 THEN Fail(d, "Limit")
        ELSE With(With(Compact(fed), Pull), LAMBDA p : TarEvent(p.d, n, p.r, limits))

TarStep(d, input, end, limits, inflight, room) ==
    With(SkipExtents(d), LAMBDA s : TarFeed(s, input, end, limits, inflight, room))

=============================================================================
