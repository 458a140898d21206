------------------------------ MODULE Pipeline ------------------------------
(***************************************************************************)
(* The sequential archive reader (libarchive_oxide/src/stream.rs): bounded   *)
(* input, a stack of decoding layers found by probing, the format decoder    *)
(* and the loop of ArchiveReader::next_event around poll_event.              *)
(*                                                                         *)
(* poll_event only returns to ask for input, to report an event or to fail.  *)
(* Its nested loops are followed one iteration at a time: frames is the      *)
(* stack of drive_layer calls in progress, each with its minimum.  Every     *)
(* caller of fill_plain and fill_source starts its loop again when the call  *)
(* is Ready, so a frame that ends simply gives control back to it; look    *)
(* remembers that the call was poll_event's lookahead.                       *)
(*                                                                         *)
(* A compressed member is its magic, one Packed unit per plain unit and      *)
(* Check.  A codec is external: it consumes and produces any amounts that    *)
(* CodecStep::validate lets pass.                                           *)
(***************************************************************************)
EXTENDS TarDecoder

CONSTANTS
    Archives,   \* the inputs: [wire, forced, events, kind, eager]
    Limits,     \* the budgets: [total, entries, entry]
    Capacity,   \* units of the input buffer and of each layer's output buffer
    DetectMin,  \* DETECTION_MINIMUM, the longest prefix probing asks for
    FilterDepth,
    XzAlign     \* the multiple of XZ stream padding

ASSUME PipelineAssumption ==
    /\ Capacity \in Nat /\ DetectMin \in BLOCK .. Capacity
    /\ FilterDepth \in Nat /\ XzAlign \in Nat \ {0}

VARIABLES
    archive, limits, eager,     \* chosen once
    pos,                        \* units the reader has taken from the wire
    input, finished,            \* the pipeline's input buffer
    layers,                     \* the codec layers, outermost first
    dec, format, stalled,       \* the format decoder
    phase,                      \* PipelinePhase
    frames, look,               \* drive_layer calls in progress
    pc,                         \* "run", "input" (NeedInput was returned) or "end"
    log, err                    \* what the caller has been told

vars == <<archive, limits, eager, pos, input, finished, layers, dec, format, stalled,
          phase, frames, look, pc, log, err>>

XzMagic == <<[t |-> "xz", i |-> 1], [t |-> "xz", i |-> 2]>>

GzMagic == <<[t |-> "gz"]>>

Packed(u) == [t |-> "packed", u |-> u]

Check == [t |-> "check"]

MagicOf(f) == IF f = "xz" THEN XzMagic ELSE GzMagic

NoDecoder == [f |-> "none"]

Match(x) == [r |-> "Match", x |-> x]

NeedMore(n) == [r |-> "NeedMore", min |-> n]

NoMatch == [r |-> "NoMatch"]

\* FilterId::probe: a signature matches, or may still match.
ProbeCodec(prefix) ==
    LET starts(a, b) == Len(a) <= Len(b) /\ Take(b, Len(a)) = a
        full == {f \in {"xz", "gz"} : starts(MagicOf(f), prefix)}
        part == {f \in {"xz", "gz"} : starts(prefix, MagicOf(f)) /\ f \notin full}
    IN  IF full # {} THEN Match(CHOOSE f \in full : TRUE)
        ELSE IF part = {} THEN NoMatch
        ELSE NeedMore(CHOOSE n \in {Len(MagicOf(f)) : f \in part} :
                          \A f \in part : n <= Len(MagicOf(f)))

(***************************************************************************)
(* FormatId::probe: signatures first; a leading zero block is a tar archive *)
(* only when DetectMin units show no disc-image signature.                  *)
(***************************************************************************)
ProbeFormat(prefix) ==
    LET n == Len(prefix)
        signature == IF n = 0 THEN "none" ELSE prefix[1].t
        zeros == n >= BLOCK /\ \A i \in 1 .. BLOCK : prefix[i] = Zero
    IN  CASE signature \in {"warc", "zip"} -> Match(signature)
          [] signature = "cpio" -> Match("cpio")
          [] signature = "armagic" -> Match("ar")
          [] signature = "tar" /\ n >= BLOCK -> Match("tar")
          [] zeros /\ n >= DetectMin -> Match("tar")
          [] n = 0 -> NeedMore(1)
          [] n = 1 /\ signature \notin {"warc", "zip", "cpio", "armagic"} -> NeedMore(BLOCK)
          [] OTHER -> IF n < DetectMin THEN NeedMore(DetectMin) ELSE NoMatch

\* BuiltinFormatDecoder::sequential
NewDecoder(f) ==
    CASE f = "tar" -> TarNew [] f = "cpio" -> CpioNew [] f = "ar" -> ArNew
      [] f = "warc" -> WarcNew [] f = "raw" -> RawNew(limits) [] f = "empty" -> EmptyNew

\* The tar decoder's in-flight budget, of which with_filter_mode gives each buffer a share.
InFlight == Capacity * (FilterDepth + 3)

DecoderStep(d, in, end) ==
    CASE d.f = "tar" -> TarStep(d, in, end, limits, InFlight, Capacity)
      [] d.f = "cpio" -> CpioStep(d, in, end, limits)
      [] d.f = "ar" -> ArStep(d, in, end, limits)
      [] d.f = "warc" -> WarcStep(d, in, end, limits)
      [] d.f = "raw" -> RawStep(d, in, end)
      [] d.f = "empty" -> EmptyStep(d, in, end)

NewLayer(f) == [f |-> f, st |-> "Running", pad |-> 0, out |-> <<>>,
                held |-> <<>>, over |-> FALSE]

\* source, source_finished and consume_source: a layer reads the one before it.
Source(l) == IF l = 1 THEN input ELSE layers[l - 1].out

SourceFinished(l) ==
    IF l = 1 THEN finished /\ input = <<>>
    ELSE layers[l - 1].st = "Done" /\ layers[l - 1].out = <<>>

\* plain: what the format decoder reads, the source of the layer after the last.
Top == Len(layers) + 1

Plain == Source(Top)

PlainFinished == SourceFinished(Top)

\* plain_exhausted: no more will be added to what the decoder reads.
PlainExhaustedByInput == finished

PlainExhausted == IF layers = <<>> THEN finished ELSE layers[Len(layers)].st = "Done"

\* Layer l becomes new after n units of its source are consumed.
Consume(l, n, new) ==
    /\ input' = IF l = 1 THEN Drop(input, n) ELSE input
    /\ layers' = [i \in DOMAIN layers |->
                    IF i = l THEN new
                    ELSE IF i = l - 1 THEN [layers[i] EXCEPT !.out = Drop(@, n)]
                    ELSE layers[i]]

ConsumePlain(n) == Consume(Top, n, NoDecoder)

FeedCapacity == Capacity - Len(input)

\* The call returns an error.
Error(kind) ==
    /\ pc' = "end" /\ err' = kind /\ frames' = <<>> /\ look' = FALSE
    /\ UNCHANGED <<archive, limits, eager, pos, finished, dec, format, stalled, phase, log>>

\* Drive::NeedInput unwinds every call up to poll_event, which returns it.
AskInput(looking, d) ==
    /\ UNCHANGED <<input, layers>>
    /\ IF looking /\ FeedCapacity = 0 THEN Error("Protocol")
       ELSE /\ pc' = "input" /\ frames' = <<>> /\ look' = FALSE /\ dec' = d
            /\ UNCHANGED <<archive, limits, eager, pos, finished, format, stalled,
                           phase, log, err>>

\* fill_plain, when the plain bytes do not suffice; d is the decoder by then.
FillPlain(min, looking, d) ==
    IF layers = <<>> THEN AskInput(looking, d)
    ELSE /\ frames' = <<[l |-> Len(layers), min |-> min]>> /\ look' = looking /\ dec' = d
         /\ UNCHANGED <<archive, limits, eager, pos, input, finished, layers, format,
                        stalled, phase, pc, log, err>>

Running == pc = "run" /\ frames = <<>>

Detecting == Running /\ phase = "Reading" /\ dec = NoDecoder

Decoding == Running /\ phase = "Reading" /\ dec # NoDecoder

Starving == Plain = <<>> /\ ~PlainFinished

\* detect_decoder and poll_event start by getting something to look at.
Starve ==
    /\ Detecting \/ Decoding
    /\ Starving
    /\ FillPlain(1, FALSE, dec)

\* detect_decoder: a filter signature puts one more layer on the stack.
DetectFilter ==
    /\ Detecting /\ ~Starving
    /\ ProbeCodec(Plain).r = "Match"
    /\ IF Len(layers) >= FilterDepth THEN Error("Limit") /\ UNCHANGED <<input, layers>>
       ELSE /\ layers' = Append(layers, NewLayer(ProbeCodec(Plain).x))
            /\ UNCHANGED <<archive, limits, eager, pos, input, finished, dec, format,
                           stalled, phase, frames, look, pc, log, err>>

DetectFilterMore ==
    /\ Detecting /\ ~Starving
    /\ ProbeCodec(Plain).r = "NeedMore" /\ ~PlainExhausted
    /\ FillPlain(ProbeCodec(Plain).min, FALSE, dec)

\* The probe has settled that no filter follows.
NoFilter ==
    \/ ProbeCodec(Plain).r = "NoMatch"
    \/ ProbeCodec(Plain).r = "NeedMore" /\ PlainExhausted

Install(f) ==
    /\ UNCHANGED <<input, layers>>
    /\ IF f = "zip" THEN Error("Capability")
       ELSE /\ dec' = NewDecoder(f) /\ format' = f
            /\ UNCHANGED <<archive, limits, eager, pos, finished, stalled, phase, frames,
                           look, pc, log, err>>

\* What is left when no signature matched: nothing at all, or an empty tar archive.
LastResort ==
    IF PlainExhausted /\ Plain = <<>> THEN "empty"
    ELSE IF /\ PlainExhausted /\ Len(Plain) >= 2 * BLOCK
            /\ \A i \in 1 .. 2 * BLOCK : Plain[i] = Zero THEN "tar"
    ELSE "none"

DetectFormat ==
    /\ Detecting /\ ~Starving /\ NoFilter
    /\ LET probe == ProbeFormat(Plain)
       IN  CASE archive.forced # "none" -> Install(archive.forced)
             [] archive.forced = "none" /\ probe.r = "Match" -> Install(probe.x)
             [] archive.forced = "none" /\ probe.r = "NeedMore" /\ ~PlainExhausted ->
                  FillPlain(probe.min, FALSE, dec)
             [] OTHER -> IF LastResort # "none" THEN Install(LastResort)
                         ELSE Error("Unsupported") /\ UNCHANGED <<input, layers>>

\* The events the caller sees, payload windows taken apart.
Told(ev) ==
    CASE ev.k = "Data" -> [i \in DOMAIN ev.units |-> [k |-> "D", v |-> ev.units[i].v]]
      [] ev.k \in {"NeedInput", "Done"} -> <<>>
      [] OTHER -> <<ev>>

(***************************************************************************)
(* poll_event: one step of the format decoder.  A decoder that asks for     *)
(* input without consuming any is tried once more and then given one unit   *)
(* more than it had.                                                        *)
(***************************************************************************)
Decode ==
    /\ Decoding /\ ~Starving
    /\ \E r \in {DecoderStep(dec, Plain, PlainFinished)} :
       LET need == r.ev.k = "NeedInput"
           idle == need /\ r.n = 0
       IN  IF r.ev.k = "Error" THEN Error(r.ev.kind) /\ UNCHANGED <<input, layers>>
           ELSE IF need /\ PlainExhausted /\ r.n = Len(Plain)
           THEN Error("Malformed") /\ UNCHANGED <<input, layers>>
           ELSE IF idle /\ (stalled \/ Plain = <<>>) THEN FillPlain(Len(Plain) + 1, TRUE, r.d)
           ELSE /\ ConsumePlain(r.n)
                /\ dec' = r.d
                /\ stalled' = idle
                /\ log' = log \o Told(r.ev)
                /\ phase' = IF r.ev.k = "Done" THEN "ArchiveDone" ELSE phase
                /\ UNCHANGED <<archive, limits, eager, pos, finished, format, frames, look,
                               pc, err>>

\* poll_after_archive: only a tar archive may be followed by anything, by zeros.
AfterArchive ==
    /\ Running /\ phase = "ArchiveDone"
    /\ IF Plain # <<>>
       THEN IF format = "tar" /\ \A i \in DOMAIN Plain : Plain[i] = Zero
            THEN /\ ConsumePlain(Len(Plain))
                 /\ UNCHANGED <<archive, limits, eager, pos, finished, dec, format, stalled,
                                phase, frames, look, pc, log, err>>
            ELSE Error("Malformed") /\ UNCHANGED <<input, layers>>
       ELSE IF PlainFinished
       THEN /\ phase' = "Done" /\ pc' = "end"
            /\ UNCHANGED <<archive, limits, eager, pos, input, finished, layers, dec, format,
                           stalled, frames, look, log, err>>
       ELSE FillPlain(1, FALSE, dec)

Frame == frames[Len(frames)]

Driving == pc = "run" /\ frames # <<>>

Pop ==
    /\ frames' = Front(frames)
    /\ UNCHANGED <<archive, limits, eager, pos, input, finished, layers, dec, format,
                   stalled, phase, look, pc, log, err>>

\* fill_source, when the layer's source does not suffice.
FillSource(l, min) ==
    IF l = 1 THEN AskInput(look, dec)
    ELSE /\ frames' = Append(frames, [l |-> l - 1, min |-> min])
         /\ UNCHANGED <<archive, limits, eager, pos, input, finished, layers, dec, format,
                        stalled, phase, look, pc, log, err>>

\* Layer l becomes new and n units of its source are gone; the call goes on.
DriveStep(l, n, new) ==
    /\ Consume(l, n, new)
    /\ UNCHANGED <<archive, limits, eager, pos, finished, dec, format, stalled, phase,
                   frames, look, pc, log, err>>

DriveError(kind) == Error(kind) /\ UNCHANGED <<input, layers>>

\* drive_layer returns: enough output, or no more to come.
DriveReadyUndone ==
    /\ Driving
    /\ Len(layers[Frame.l].out) >= Frame.min
    /\ Pop

DriveReady ==
    /\ Driving
    /\ Len(layers[Frame.l].out) >= Frame.min \/ layers[Frame.l].st = "Done"
    /\ Pop

\* Neither: the layer has to work.
Lacking(st) ==
    /\ Driving
    /\ Len(layers[Frame.l].out) < Frame.min
    /\ layers[Frame.l].st = st

DriveStarve ==
    /\ Lacking("Running")
    /\ Source(Frame.l) = <<>> /\ ~SourceFinished(Frame.l)
    /\ FillSource(Frame.l, 1)

\* The units of src a codec may take: none past the Check that ends its member.
Takeable(y, src) ==
    IF y.over THEN 0
    ELSE LET ends == {i \in DOMAIN src : src[i] = Check}
         IN  IF ends = {} THEN Len(src) ELSE CHOOSE i \in ends : \A j \in ends : i <= j

\* The plain units that units of a member stand for.
Unpacked(src) == [i \in DOMAIN SelectSeq(src, LAMBDA u : u.t = "packed") |->
                    SelectSeq(src, LAMBDA u : u.t = "packed")[i].u]

\* A layer whose codec consumed the units c and produced p units.
Processed(y, c, p) ==
    LET held == y.held \o Unpacked(c)
        over == y.over \/ (c # <<>> /\ c[Len(c)] = Check)
    IN  [y EXCEPT !.out = @ \o Take(held, p), !.held = Drop(held, p),
                  !.over = over,
                  !.st = IF over /\ p = Len(held) THEN "Between" ELSE "Running"]

(***************************************************************************)
(* drive_layer: one call of the codec, which makes progress, or fails for   *)
(* want of input once there is none.                                        *)
(***************************************************************************)
DriveCodec ==
    /\ Lacking("Running")
    /\ Source(Frame.l) # <<>> \/ SourceFinished(Frame.l)
    /\ LET y == layers[Frame.l]
           src == Source(Frame.l)
           room == Capacity - Len(y.out)
       IN  IF room = 0 THEN DriveError("Protocol")
           ELSE \/ \E n \in 0 .. Takeable(y, src), p \in 0 .. room :
                      /\ n + p > 0
                      /\ p <= Len(y.held) + Len(Unpacked(Take(src, n)))
                      /\ DriveStep(Frame.l, n, Processed(y, Take(src, n), p))
                \/ /\ src = <<>> /\ y.held = <<>>
                   /\ DriveError("Malformed")

\* drive_between_members: XZ padding is skipped, whole words of it.
SkipPadding ==
    /\ Lacking("Between") /\ layers[Frame.l].f = "xz"
    /\ Source(Frame.l) # <<>> /\ Source(Frame.l)[1] = Zero
    /\ DriveStep(Frame.l, 1, [layers[Frame.l] EXCEPT !.pad = @ + 1])

(***************************************************************************)
(* drive_between_members, with the padding skipped: the end of the source   *)
(* ends the layer, another member of the same filter starts a fresh codec,  *)
(* anything else is trailing data.                                          *)
(***************************************************************************)
BetweenMembers ==
    /\ Lacking("Between")
    /\ LET y == layers[Frame.l]
           src == Source(Frame.l)
           fin == SourceFinished(Frame.l)
           probe == ProbeCodec(src)
           misaligned == y.f = "xz" /\ y.pad % XzAlign # 0
       IN  /\ ~(y.f = "xz" /\ src # <<>> /\ src[1] = Zero)
           /\ CASE src = <<>> /\ fin ->
                     IF misaligned THEN DriveError("Malformed")
                     ELSE DriveStep(Frame.l, 0, [y EXCEPT !.st = "Done"])
                [] src = <<>> /\ ~fin -> FillSource(Frame.l, 1)
                [] src # <<>> /\ misaligned -> DriveError("Malformed")
                [] src # <<>> /\ ~misaligned /\ probe.r = "Match" /\ probe.x = y.f ->
                     DriveStep(Frame.l, 0, [NewLayer(y.f) EXCEPT !.out = y.out])
                [] src # <<>> /\ ~misaligned /\ probe.r = "NeedMore" ->
                     FillSource(Frame.l, probe.min)
                [] OTHER -> DriveError("Malformed")

\* next_event: read as much as there is room for, at least one unit.
ReaderFeeds ==
    /\ pc = "input" /\ pos < Len(archive.wire) /\ FeedCapacity > 0
    /\ \E n \in 1 .. Least(FeedCapacity, Len(archive.wire) - pos) :
          /\ pos' = pos + n
          /\ input' = input \o SubSeq(archive.wire, pos + 1, pos + n)
          /\ finished' = (eager /\ pos + n = Len(archive.wire))
    /\ pc' = "run"
    /\ UNCHANGED <<archive, limits, eager, layers, dec, format, stalled, phase, frames,
                   look, log, err>>

\* next_event: a read of nothing ends the input.
ReaderFinishes ==
    /\ pc = "input" /\ pos = Len(archive.wire) /\ FeedCapacity > 0 /\ ~finished
    /\ finished' = TRUE
    /\ pc' = "run"
    /\ UNCHANGED <<archive, limits, eager, pos, input, layers, dec, format, stalled, phase,
                   frames, look, log, err>>

\* next_event: no room to read into, or the input has already been ended.
ReaderRefused ==
    /\ pc = "input"
    /\ FeedCapacity = 0 \/ (pos = Len(archive.wire) /\ finished)
    /\ Error("Protocol") /\ UNCHANGED <<input, layers>>

Init ==
    /\ archive \in Archives /\ limits \in Limits /\ eager \in archive.eager
    /\ pos = 0 /\ input = <<>> /\ finished = FALSE /\ layers = <<>>
    /\ dec = NoDecoder /\ format = "none" /\ stalled = FALSE /\ phase = "Reading"
    /\ frames = <<>> /\ look = FALSE /\ pc = "run" /\ log = <<>> /\ err = "none"

Next ==
    \/ Starve \/ DetectFilter \/ DetectFilterMore \/ DetectFormat \/ Decode \/ AfterArchive
    \/ DriveReady \/ DriveStarve \/ DriveCodec \/ SkipPadding \/ BetweenMembers
    \/ ReaderFeeds \/ ReaderFinishes \/ ReaderRefused

Spec == Init /\ [][Next]_vars /\ WF_vars(Next)

-----------------------------------------------------------------------------

Payload(events) == SelectSeq(events, LAMBDA ev : ev.k = "D")

Opened(events) == SelectSeq(events, LAMBDA ev : ev.k = "Entry")

\* The payload units between entry i of events and its end.
EntrySize(events, i) ==
    LET ends == {j \in i .. Len(events) : events[j].k = "EndEntry"}
    IN  IF ends = {} THEN Len(events) - i
        ELSE (CHOOSE j \in ends : \A k \in ends : j <= k) - i - 1

WithinLimits(events) ==
    /\ Len(Payload(events)) <= limits.total
    /\ Len(Opened(events)) <= limits.entries
    /\ archive.forced # "raw" =>
         \A i \in DOMAIN events : events[i].k = "Entry" => EntrySize(events, i) <= limits.entry

(***************************************************************************)
(* The caller is told what the archive says, in order, from the start:      *)
(* however the input is cut into reads, however the codecs cut their        *)
(* output, and whether or not the archive later turns out to be broken.     *)
(***************************************************************************)
EventsFollow == IsPrefix(log, archive.events)

(***************************************************************************)
(* Done is reported only when every unit of the input and of every layer    *)
(* has been used, never for a broken archive, and never before all of an    *)
(* intact one has been told.                                                *)
(***************************************************************************)
DoneIsWhole ==
    phase = "Done" =>
        /\ pos = Len(archive.wire) /\ input = <<>>
        /\ \A l \in DOMAIN layers : layers[l].st = "Done" /\ layers[l].out = <<>>
        /\ archive.kind # "broken"
        /\ archive.kind = "intact" => log = archive.events

(***************************************************************************)
(* The budgets decide, and nothing else: what the caller has been told      *)
(* never exceeds one, sparse holes included, and an intact archive is       *)
(* refused only for one that what it holds really exceeds.  No cut of the   *)
(* input makes the reader fail, ask for input it has no room for, or run    *)
(* out of its own buffers.  (The raw decoder has one entry and only looks   *)
(* at the total.)                                                           *)
(***************************************************************************)
IntactIsRead ==
    /\ WithinLimits(log)
    /\ (archive.kind = "intact" /\ err # "none") =>
           (err = "Limit" /\ ~WithinLimits(archive.events))

\* Reading ends, with Done or an error, if reads and codec calls return.
ReaderEnds == <>(pc = "end")

=============================================================================
