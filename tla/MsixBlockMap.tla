---------------------------- MODULE MsixBlockMap -----------------------------
(***************************************************************************)
(* Verification of an MSIX package against its AppxBlockMap.xml             *)
(* (libarchive_oxide-package/src/msix_blockmap.rs): the central directory,  *)
(* one pass over the decoded entries that hashes them in blocks, the parse  *)
(* of the block map, and the comparison of the three.                       *)
(*                                                                         *)
(* A failure is the finding code it reports.  A block's hash is             *)
(* <<content, from, to>>: which bytes of which body were hashed; an XML     *)
(* element is [type, element, attributes].                                  *)
(***************************************************************************)
EXTENDS ZipProfiles

CONSTANTS
  MsixBlockSize,                       \* BLOCK_SIZE
  LocalHeaderLength, LfhMax        \* LOCAL_HEADER_LEN and 65536

ASSUME MsixAssumption == MsixBlockSize \in Nat \ {0} /\ {LocalHeaderLength, LfhMax} \subseteq Nat

MsixInvalid == "InvalidIntegrityMetadata"
MsixRead == "IntegrityReadFailure"
MsixResource == "IntegrityResourceLimit"

(* is_excluded_footprint and block_count. *)
IsExcludedFootprint(name) ==
  name.class \in {"block-map", "content-types", "msix-signature", "code-integrity"}
BlockCount(size) == (size + MsixBlockSize - 1) \div MsixBlockSize

-----------------------------------------------------------------------------
(* read_local_header_size. *)
ReadLocalHeader(entry) ==
  FirstFailure(<<Check(entry.local.readable, MsixRead),
                 Check(entry.local.signature /\ entry.local.sameMethod, MsixInvalid),
                 Check(entry.local.size \in LocalHeaderLength..LfhMax, MsixInvalid),
                 Check(entry.local.sameName, MsixInvalid)>>)

(* collect_central_entries: what each directory entry costs is one unit of  *)
(* the budget; its names are distinct when their ASCII case is folded.      *)
CollectCentral(zip, limits) ==
  LET directory == zip.directory
      entry(e)  == FirstFailure(
                     <<Check(directory[e].path \notin {"unsafe", "invalid-encoding"}, MsixInvalid),
                       Check(\A f \in 1..e - 1 : directory[f].folded # directory[e].folded,
                             MsixInvalid),
                       ReadLocalHeader(directory[e])>>)
  IN  IF ReadCentralDirectory(zip, limits) # "ok" THEN MsixRead
      ELSE IF Len(directory) > limits.metadata THEN MsixResource
      ELSE FirstFailure([e \in DOMAIN directory |-> entry(e)])

-----------------------------------------------------------------------------
(* CurrentEntry::feed and finish_block: bytes enter the hash of the block   *)
(* they lie in, however the reader cuts them.                               *)
FeedCurrentPerPiece(current, count) ==
  [current EXCEPT !.size = @ + count,
                  !.hashes = Append(@, <<current.content, current.size, current.size + count>>)]
FeedCurrent(current, count) ==
  LET step(state, byte) ==
        LET filled == [state EXCEPT !.inBlock = @ + 1, !.size = @ + 1]
        IN  IF filled.inBlock < MsixBlockSize THEN filled
            ELSE [filled EXCEPT !.inBlock = 0,
                    !.hashes = Append(@, <<state.content, filled.size - MsixBlockSize, filled.size>>)]
  IN  IF IsExcludedFootprint(current.name) THEN [current EXCEPT !.size = @ + count]
      ELSE FoldLeft(step, current, [byte \in 1..count |-> byte])

(* CurrentEntry::finish: the last block may be short.                       *)
FinishCurrent(current) ==
  IF current.inBlock = 0 \/ IsExcludedFootprint(current.name) THEN current
  ELSE [current EXCEPT !.inBlock = 0,
          !.hashes = Append(@, <<current.content, current.size - current.inBlock, current.size>>)]

(* collect_archive. *)
MsixStart(used) ==
  [used |-> used, current |-> << >>, entries |-> << >>, done |-> FALSE, failure |-> "ok"]

MsixEntry(state, event, central, limits) ==
  LET known   == \E entry \in Range(central) : entry.name = event.name
      blocks  == IF IsExcludedFootprint(event.name) THEN 0 ELSE BlockCount(event.declared)
      charged == state.used + 1 + blocks
      failure == FirstFailure(<<Check(state.current = << >> /\ known, MsixRead),
                                Check(charged <= limits.metadata, MsixResource)>>)
  IN  [state EXCEPT !.failure = failure, !.used = charged,
         !.current = <<[name |-> event.name, content |-> event.content, size |-> 0,
                        inBlock |-> 0, hashes |-> << >>]>>]

MsixData(state, event, limits) ==
  LET charged == state.used + (IF state.current[1].name.class = "block-map" THEN event.size ELSE 0)
  IN  IF state.current = << >> THEN [state EXCEPT !.failure = MsixRead]
      ELSE IF charged > limits.metadata THEN [state EXCEPT !.failure = MsixResource]
      ELSE [state EXCEPT !.used = charged, !.current = <<FeedCurrent(@[1], event.size)>>]

MsixEndEntry(state) ==
  LET entry == FinishCurrent(state.current[1])
  IN  IF state.current = << >> THEN [state EXCEPT !.failure = MsixRead]
      ELSE IF \E other \in Range(state.entries) : other.name = entry.name
      THEN [state EXCEPT !.failure = MsixInvalid]
      ELSE [state EXCEPT !.entries = Append(@, entry), !.current = << >>]

CollectArchive(events, central, limits) ==
  LET step(state, event) ==
        IF state.failure # "ok" \/ state.done THEN state
        ELSE CASE event.type = "Entry" -> MsixEntry(state, event, central, limits)
               [] event.type = "Data" -> MsixData(state, event, limits)
               [] event.type = "EndEntry" -> MsixEndEntry(state)
               [] event.type = "Error" ->
                    [state EXCEPT !.failure = IF event.kind = "Limit" THEN MsixResource ELSE MsixRead]
               [] event.type = "Done" ->
                    [state EXCEPT !.done = TRUE,
                                  !.failure = Check(state.current = << >>, MsixRead)]
      end    == FoldLeft(step, MsixStart(Len(central)), events)
      names(entries) == {entry.name : entry \in Range(entries)}
  IN  IF end.failure # "ok" THEN end
      ELSE [end EXCEPT !.failure =
              FirstFailure(<<Check(\E name \in names(end.entries) : name.class = "block-map",
                                   MsixInvalid),
                             Check(names(end.entries) = names(central), MsixRead)>>)]

-----------------------------------------------------------------------------
(* BlockMapParser.  Attributes that are malformed, repeated, unknown or     *)
(* missing make an element unsound; too many of them exceed a resource.     *)
ParserStart(used) ==
  [used |-> used, depth |-> 0, document |-> "BeforeRoot", declared |-> FALSE, current |-> << >>,
   blockOpen |-> FALSE, files |-> << >>, ignorable |-> {}, skip |-> 0, total |-> 0,
   failure |-> "ok", ended |-> FALSE]

Broken(parser, failure) == [parser EXCEPT !.failure = failure]
DecodedAttributes(event) ==
  FirstFailure(<<Check(~event.tooMany, MsixResource), Check(event.sound, MsixInvalid)>>)

(* parse_root_attributes. *)
ParseRoot(parser, event) ==
  LET failure == FirstFailure(
        <<DecodedAttributes(event),
          CASE event.namespace = "core" -> "ok"
            [] event.namespace \in {"2015", "2017"} -> "UnsupportedIntegrityScope"
            [] OTHER -> MsixInvalid,
          CASE event.method = "SHA-256" -> "ok"
            [] event.method = "missing" -> MsixInvalid
            [] OTHER -> "UnsupportedIntegrityAlgorithm",
          Check(event.prefixes \subseteq event.bound, MsixInvalid)>>)
  IN  [parser EXCEPT !.failure = failure, !.ignorable = event.prefixes, !.document = "InRoot"]

(* parse_file_attributes, validate_file_size and allocate_file.             *)
ParseFile(parser, event, limits) ==
  LET used    == parser.used + 1 + BlockCount(event.size)
      failure == FirstFailure(
        <<Check(parser.current = << >> /\ ~parser.blockOpen, MsixInvalid),
          Check(Len(parser.files) < limits.entries, MsixResource),
          DecodedAttributes(event),
          Check(~IsExcludedFootprint(event.name), MsixInvalid),
          Check(\A file \in Range(parser.files) : file.folded # event.folded, MsixInvalid),
          Check(event.size <= limits.entry, MsixResource),
          Check(parser.total + event.size <= limits.decoded, MsixResource),
          Check(event.lfh \in LocalHeaderLength..LfhMax, MsixInvalid),
          Check(used <= limits.metadata, MsixResource)>>)
  IN  [parser EXCEPT !.failure = failure, !.used = used, !.total = @ + event.size,
         !.current = <<[name |-> event.name, folded |-> event.folded, size |-> event.size,
                        lfh |-> event.lfh, blocks |-> << >>]>>]

(* parse_block_attributes; NoBlockSize stands for an absent Size.           *)
NoBlockSize == -1

ParseBlock(parser, event) ==
  LET file    == parser.current[1]
      failure == FirstFailure(
        <<Check(~parser.blockOpen, MsixInvalid), DecodedAttributes(event),
          Check(event.blockSize # 0, MsixInvalid),
          Check(Len(file.blocks) < BlockCount(file.size), MsixInvalid)>>)
  IN  [parser EXCEPT !.failure = failure, !.blockOpen = event.type = "start",
         !.current = <<[file EXCEPT !.blocks =
                          Append(@, [hash |-> event.hash, size |-> event.blockSize])]>>]

(* close_file. *)
CloseFile(parser) ==
  LET file == parser.current[1]
  IN  IF Len(file.blocks) # BlockCount(file.size) THEN Broken(parser, MsixInvalid)
      ELSE [parser EXCEPT !.files = Append(@, file), !.current = << >>]

(* BlockMapParser::start, for <element> and <element/>.                     *)
Leave(parser, event) == IF event.type = "empty" THEN [parser EXCEPT !.depth = @ - 1] ELSE parser

StartElement(parser, event, limits) ==
  LET down   == [parser EXCEPT !.depth = @ + 1]
      opened == ParseFile(down, event, limits)
      depth  == down.depth
  IN  IF depth > limits.nesting THEN Broken(down, MsixResource)
      ELSE IF parser.document = "Closed" THEN Broken(down, MsixInvalid)
      ELSE IF parser.skip # 0 THEN Leave(down, event)
      ELSE IF event.prefix # "none"
      THEN IF depth > 1 /\ event.prefix \in parser.ignorable
           THEN IF event.type = "empty" THEN Leave(down, event) ELSE [down EXCEPT !.skip = depth]
           ELSE Broken(down, MsixInvalid)
      ELSE IF /\ depth = 1 /\ event.element = "BlockMap" /\ event.type = "start"
              /\ parser.document = "BeforeRoot"
      THEN ParseRoot(down, event)
      ELSE IF depth = 2 /\ event.element = "File" /\ parser.document = "InRoot"
      THEN IF event.type = "empty" /\ opened.failure = "ok"
           THEN Leave(CloseFile(opened), event) ELSE opened
      ELSE IF depth = 3 /\ event.element = "Block" /\ parser.current # << >>
      THEN Leave(ParseBlock(down, event), event)
      ELSE Broken(down, MsixInvalid)

(* BlockMapParser::end. *)
EndElement(parser, event) ==
  LET up == [parser EXCEPT !.depth = @ - 1]
      closed == CloseFile(parser)
  IN  IF parser.depth = 0 THEN Broken(parser, MsixInvalid)
      ELSE IF parser.skip # 0 THEN [up EXCEPT !.skip = IF parser.depth = @ THEN 0 ELSE @]
      ELSE IF parser.depth = 3 /\ event.element = "Block" /\ parser.blockOpen
      THEN [up EXCEPT !.blockOpen = FALSE]
      ELSE IF /\ parser.depth = 2 /\ event.element = "File"
              /\ parser.current # << >> /\ ~parser.blockOpen
      THEN [closed EXCEPT !.depth = @ - 1]
      ELSE IF /\ parser.depth = 1 /\ event.element = "BlockMap" /\ parser.document = "InRoot"
              /\ parser.current = << >>
      THEN [up EXCEPT !.document = "Closed"]
      ELSE Broken(parser, MsixInvalid)

(* BlockMapParser::event.  A comment or white space changes nothing; a      *)
(* construct outside the schema ("other") is invalid.                       *)
ParserEvent(parser, event, limits) ==
  IF parser.failure # "ok" \/ parser.ended THEN parser
  ELSE CASE event.type = "decl" ->
              IF parser.document = "BeforeRoot" /\ ~parser.declared
              THEN [parser EXCEPT !.declared = TRUE] ELSE Broken(parser, MsixInvalid)
         [] event.type \in {"start", "empty"} -> StartElement(parser, event, limits)
         [] event.type = "end" -> EndElement(parser, event)
         [] event.type = "comment" -> parser
         [] event.type = "eof" -> [parser EXCEPT !.ended = TRUE]
         [] OTHER -> Broken(parser, MsixInvalid)

(* parse_block_map and finish. *)
ParseBlockMap(xml, used, limits) ==
  LET step(parser, event) == ParserEvent(parser, event, limits)
      end == FoldLeft(step, ParserStart(used), xml)
      manifest == \E file \in Range(end.files) : file.name.class = "msix-manifest"
  IN  IF xml = << >> THEN Broken(end, MsixInvalid)
      ELSE IF end.failure # "ok" THEN end
      ELSE [end EXCEPT !.failure =
              Check(/\ end.document = "Closed" /\ end.depth = 0 /\ end.skip = 0
                    /\ end.files # << >> /\ manifest, MsixInvalid)]

-----------------------------------------------------------------------------
(* compare_compression: Store declares no block size; a Deflate body is its *)
(* blocks and a two-byte terminator.                                        *)
CompareCompression(file, entry) ==
  LET sizes == [b \in DOMAIN file.blocks |-> file.blocks[b].size]
      total == FoldLeft(LAMBDA sum, size : sum + size, 0, sizes)
  IN  CASE entry.method = "store" ->
             IF Range(sizes) \subseteq {NoBlockSize} THEN {} ELSE {MsixInvalid}
        [] entry.method = "deflate" ->
             IF NoBlockSize \in Range(sizes) THEN {MsixInvalid}
             ELSE IF total + 2 = Zip64Sizes(entry).sizes[2] THEN {} ELSE {"IntegrityMismatch"}
        [] OTHER -> {"UnsupportedIntegrityScope"}

(* compare_block_hashes: the count, and pairwise what both sides have.      *)
CompareBlockHashes(file, actual) ==
  LET common == DOMAIN file.blocks \cap DOMAIN actual.hashes
  IN  IF /\ Len(file.blocks) = Len(actual.hashes)
         /\ \A b \in common : file.blocks[b].hash = actual.hashes[b]
      THEN {} ELSE {"IntegrityMismatch"}

(* compare_declared_file and compare_file_sizes. *)
CompareDeclaredFile(file, directory, entries) ==
  LET c == SelectInSeq(directory, LAMBDA entry : entry.name = file.name)
      a == SelectInSeq(entries, LAMBDA entry : entry.name = file.name)
      sized == /\ file.size = UncompressedSize(directory[c]) /\ file.size = entries[a].size
               /\ file.lfh = directory[c].local.size
  IN  IF c = 0 THEN {"MissingIntegrityRecord"}
      ELSE IF a = 0 THEN {MsixRead}
      ELSE (IF sized THEN {} ELSE {"IntegrityMismatch"})
             \cup CompareCompression(file, directory[c])
             \cup CompareBlockHashes(file, entries[a])

(* compare_block_map. *)
CompareBlockMap(files, directory, entries) ==
  LET covered(entry) == \/ IsExcludedFootprint(entry.name)
                        \/ \E file \in Range(files) : file.name = entry.name
  IN  Gather(Range(files), LAMBDA file : CompareDeclaredFile(file, directory, entries))
        \cup (IF \A entry \in Range(directory) : covered(entry) THEN {}
              ELSE {"MissingIntegrityRecord"})

(* verify_msix_block_map and failure_verification. *)
MsixFailure(code) ==
  Outcome(IF code \in {"UnsupportedIntegrityAlgorithm", "UnsupportedIntegrityScope"}
          THEN "Unsupported" ELSE "Invalid", {code})

MsixVerdict(findings) ==
  Outcome(IF findings \ {"UnsupportedIntegrityScope"} # {} THEN "Invalid"
          ELSE IF findings # {} THEN "Unsupported" ELSE "Verified", findings)

CompareParsed(zip, parsed, collected) ==
  IF parsed.failure # "ok" THEN MsixFailure(parsed.failure)
  ELSE MsixVerdict(CompareBlockMap(parsed.files, zip.directory, collected.entries))

MsixContent(zip, xml, limits, collected) ==
  IF collected.failure # "ok" THEN MsixFailure(collected.failure)
  ELSE CompareParsed(zip, ParseBlockMap(xml, collected.used, limits), collected)

VerifyMsix(zip, events, xml, limits) ==
  LET central == CollectCentral(zip, limits)
  IN  IF central # "ok" THEN MsixFailure(central)
      ELSE IF ~zip.seekable THEN MsixFailure(MsixRead)
      ELSE MsixContent(zip, xml, limits, CollectArchive(events, zip.directory, limits))
=============================================================================
