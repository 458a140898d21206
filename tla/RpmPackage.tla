----------------------------- MODULE RpmPackage ------------------------------
(***************************************************************************)
(* The RPM package profile (libarchive_oxide-package/src/rpm.rs): the lead, *)
(* the signature and main headers, and then one pass over the payload that  *)
(* feeds two consumers, the nested cpio pipeline and the payload digests.   *)
(* The pipeline may end first; the digests need every byte to the end.      *)
(*                                                                         *)
(* A file is its length and the sections its builder laid out; a digest is  *)
(* the range <<from, to>> of the file it was computed over, NoDigest a      *)
(* value that does not decode.                                              *)
(***************************************************************************)
EXTENDS DebPackage

CONSTANTS
  LeadLength, IntroLength, IndexEntryLength, Alignment,   \* 96, 16, 16, 8
  PayloadChunk       \* PAYLOAD_CHUNK

ASSUME RpmAssumption ==
  /\ {LeadLength, IntroLength, IndexEntryLength} \subseteq Nat
  /\ Alignment \in Nat \ {0} /\ PayloadChunk \in Nat \ {0}

VARIABLES
  rpm,               \* the package being read
  parse,             \* what its headers gave: failure, tags, where the reader stands
  nested,            \* Payload
  hashing            \* PayloadIntegrity and the phase of the loop

rpmVars == <<rpm, parse, nested, hashing>>

NoDigest == <<0, 0>>
Algorithms == {"sha256", "sha512", "sha3_256"}
Scopes == {"payload", "alt"}

-----------------------------------------------------------------------------
(* read_header: an intro of its own magic, a budget on index and store, and *)
(* for the signature header padding up to the alignment.                    *)
Padding(store) == (Alignment - (store % Alignment)) % Alignment

HeaderEnd(header, start, signature) ==
  start + IntroLength + header.entries * IndexEntryLength + header.store
    + (IF signature THEN Padding(header.store) ELSE 0)

ReadHeader(file, header, start, signature) ==
  FirstFailure(
    <<Check(start + IntroLength <= file.length /\ file.readable, "InvalidHeader"),
      Check(header.magic /\ start = header.at, "InvalidHeader"),
      Check(header.entries * IndexEntryLength + header.store <= file.metadata, "HeaderTooLarge"),
      Check(HeaderEnd(header, start, signature) <= file.length, "InvalidHeader")>>)

(* parse_containers: read_lead, then both headers.                          *)
ParseContainers(file) ==
  LET main  == HeaderEnd(file.signature, LeadLength, TRUE)
      after == HeaderEnd(file.main, main, FALSE)
  IN  [failure |-> FirstFailure(
         <<Check(file.lead /\ LeadLength <= file.length, "InvalidLead"),
           ReadHeader(file, file.signature, LeadLength, TRUE),
           ReadHeader(file, file.main, main, FALSE)>>),
       at |-> after]

-----------------------------------------------------------------------------
(* PayloadDigestDeclarations::observe: one integrity tag of the main        *)
(* header.  PAYLOADSHA256 and its ALT are arrays, the others are scalars.   *)
IsArray(tag) == tag.algorithm = "sha256"

(* extract_int32, extract_hex_array and extract_hex_string.                 *)
Extracts(tag) ==
  CASE tag.algorithm = "sha256algo" -> tag.kind = "int32" /\ Len(tag.values) = 1
    [] IsArray(tag) -> /\ tag.kind = "array" /\ tag.values # << >>
                       /\ NoDigest \notin Range(tag.values)
    [] OTHER -> /\ tag.kind = "string" /\ Len(tag.values) = 1
                /\ NoDigest \notin Range(tag.values)

Observe(declared, tag) ==
  LET present == [declared EXCEPT !.present = TRUE]
  IN  IF ~Extracts(tag) THEN [present EXCEPT !.invalid = TRUE]
      ELSE IF tag.algorithm = "sha256algo" THEN [present EXCEPT !.algo = tag.values[1]]
      ELSE [present EXCEPT !.digests[tag.scope][tag.algorithm] = Range(tag.values)]

(* finish_metadata. *)
Sha256Algorithm == <<8, 8>>

FinishMetadata(declared) ==
  IF declared.algo = NoDigest THEN declared
  ELSE IF declared.digests["payload"]["sha256"] = {} THEN [declared EXCEPT !.invalid = TRUE]
  ELSE IF declared.algo = Sha256Algorithm THEN declared
  ELSE [declared EXCEPT !.digests["payload"]["sha256"] = {},
                        !.digests["alt"]["sha256"] = {},
                        !.unsupported = TRUE,
                        !.findings = @ \cup {"UnsupportedIntegrityAlgorithm"}]

(* extract_main_tags: a repeated integrity tag is invalid.                  *)
NoDeclarations ==
  [present |-> FALSE, invalid |-> FALSE, unsupported |-> FALSE, algo |-> NoDigest,
   findings |-> {}, digests |-> [s \in Scopes |-> [a \in Algorithms |-> {}]]]

ExtractDigests(tags) ==
  LET same(t, u) == tags[t].algorithm = tags[u].algorithm /\ tags[t].scope = tags[u].scope
      repeats(t) == \E u \in 1..t - 1 : same(t, u)
      step(declared, t) == IF repeats(t) THEN [declared EXCEPT !.present = TRUE, !.invalid = TRUE]
                           ELSE Observe(declared, tags[t])
      finished == FinishMetadata(FoldLeft(step, NoDeclarations, [t \in DOMAIN tags |-> t]))
  IN  [finished EXCEPT !.findings =
         @ \cup (IF finished.invalid THEN {"InvalidIntegrityMetadata"} ELSE {})]

HasAlt(declared) == \E a \in Algorithms : declared.digests["alt"][a] # {}
HasSupported(declared) == \E a \in Algorithms : declared.digests["payload"][a] # {}

(* PayloadIntegrity::new: which hashers run.                                *)
NewIntegrity(file) ==
  LET declared  == ExtractDigests(file.main.tags)
      candidate == HasAlt(declared) /\ file.compressor = "none"
      outside   == HasAlt(declared) /\ ~candidate /\ ~declared.invalid
      marked    == [declared EXCEPT !.unsupported = @ \/ outside,
                                    !.findings = @ \cup (IF outside
                                      THEN {"UnsupportedIntegrityScope"} ELSE {})]
      wanted(a) == \/ declared.digests["payload"][a] # {}
                   \/ candidate /\ declared.digests["alt"][a] # {}
  IN  [declared |-> marked, candidate |-> candidate, failed |-> FALSE,
       hashers |-> IF declared.invalid THEN {} ELSE {a \in Algorithms : wanted(a)},
       hashed |-> 0, reached |-> 0, phase |-> "read", findings |-> {}, verdict |-> "NotEvaluated"]

NeedsEof(integrity) ==
  ~integrity.failed /\ ~integrity.declared.invalid /\ integrity.hashers # {}

FailIntegrity(integrity, code) ==
  [integrity EXCEPT !.failed = TRUE, !.hashers = {}, !.declared.findings = @ \cup {code}]

(* PayloadIntegrity::feed. *)
FeedIntegrity(integrity, count, limit) ==
  IF ~NeedsEof(integrity) THEN integrity
  ELSE IF integrity.hashed + count > limit
  THEN FailIntegrity(integrity, "IntegrityResourceLimit")
  ELSE [integrity EXCEPT !.hashed = @ + count]

(* PayloadIntegrity::finish. *)
FinishIntegrity(integrity, filter, decided, start) ==
  LET eligible == integrity.candidate /\ decided /\ filter = "none"
      outside  == integrity.candidate /\ ~eligible /\ ~integrity.declared.invalid
      declared == [integrity.declared EXCEPT
                     !.unsupported = @ \/ outside,
                     !.findings = @ \cup (IF outside
                                    THEN {"UnsupportedIntegrityScope"} ELSE {})]
      actual   == <<start, start + integrity.hashed>>
      expected(a) == declared.digests["payload"][a]
                       \cup (IF eligible THEN declared.digests["alt"][a] ELSE {})
      mismatch == \E a \in integrity.hashers : expected(a) \ {actual} # {}
  IN  Outcome(
        IF ~declared.present THEN "NotPresent"
        ELSE IF declared.invalid \/ integrity.failed THEN "Invalid"
        ELSE IF mismatch THEN "Invalid"
        ELSE IF declared.unsupported THEN "Unsupported"
        ELSE IF HasSupported(declared) \/ (eligible /\ HasAlt(declared)) THEN "Verified"
        ELSE "NotEvaluated",
        declared.findings \cup (IF ~declared.invalid /\ ~integrity.failed /\ mismatch
                                THEN {"IntegrityMismatch"} ELSE {}))

-----------------------------------------------------------------------------
(* RpmValidator::validate on a file, and no RPM at all.                     *)
RpmInit(file) ==
  /\ rpm = file
  /\ parse = ParseContainers(file)
  /\ nested = NestedStart
  /\ hashing = NewIntegrity(file)

NoRpm ==
  /\ rpm = [length |-> 0]
  /\ parse = [failure |-> "idle", at |-> 0]
  /\ nested = NestedStart
  /\ hashing = [phase |-> "idle"]

(* One read of validate_payload's loop, of any length the reader returns:   *)
(* the digests first, then the pipeline unless it is done.                  *)
Feeding == parse.failure = "ok" /\ hashing.phase = "read"
NeededUntilArchiveEnds == ~IsTerminal(nested)
Needed == ~IsTerminal(nested) \/ NeedsEof(hashing)
Unread == rpm.length - parse.at - hashing.reached

ReadPayload(count) ==
  /\ Feeding /\ Needed /\ count <= Unread
  /\ hashing' = [FeedIntegrity(hashing, count, rpm.limit) EXCEPT !.reached = @ + count]
  /\ nested' = IF IsTerminal(nested) THEN nested ELSE FeedNested(nested, rpm.payload, count)
  /\ UNCHANGED <<rpm, parse>>

(* The reader fails instead, also where the file would have ended.          *)
PayloadReadError ==
  /\ Feeding /\ Needed
  /\ hashing' = [(IF NeedsEof(hashing) THEN FailIntegrity(hashing, "IntegrityReadFailure")
                  ELSE hashing) EXCEPT !.phase = "finish"]
  /\ nested' = IF IsTerminal(nested) THEN nested
               ELSE [nested EXCEPT !.findings = @ \cup {"TruncatedMember"}]
  /\ UNCHANGED <<rpm, parse>>

(* The loop ends: nobody needs more, or the file is read.                   *)
PayloadEnds ==
  /\ Feeding /\ (~Needed \/ Unread = 0)
  /\ hashing' = [hashing EXCEPT !.phase = "finish"]
  /\ UNCHANGED <<rpm, parse, nested>>

(* The rest of validate_payload, and RpmState::finalize.                    *)
DeclaredFilters == {"gzip", "xz", "zstd", "bzip2", "lz4", "none"}

FinalizeWith(payload, integrity) ==
  LET structure == payload.findings
                     \cup (IF rpm.format = "cpio" THEN {} ELSE {"PayloadFormatMismatch"})
                     \cup (IF /\ rpm.compressor \in DeclaredFilters /\ payload.decided
                              /\ payload.filter # rpm.compressor
                           THEN {"CompressorMismatch"} ELSE {})
  IN  /\ nested' = payload
      /\ hashing' = [hashing EXCEPT !.phase = "done", !.verdict = integrity.verdict,
                                    !.findings = structure \cup integrity.findings]
      /\ parse' = [parse EXCEPT !.failure = IF structure = {} /\ payload.done
                                            THEN "profile valid" ELSE "profile invalid"]

FinalizePayload(payload) ==
  FinalizeWith(payload, FinishIntegrity(hashing, payload.filter, payload.decided, parse.at))

FinalizeRpm ==
  /\ parse.failure = "ok" /\ hashing.phase = "finish"
  /\ FinalizePayload(FinishNested(nested, rpm.payload))
  /\ UNCHANGED rpm

RpmNext ==
  \/ \E count \in 1..PayloadChunk : ReadPayload(count)
  \/ PayloadReadError
  \/ PayloadEnds
  \/ FinalizeRpm

-----------------------------------------------------------------------------
(* A payload is Verified only when the digests were computed over every     *)
(* byte from the end of the main header to the end of the file, wherever    *)
(* the archive inside it ended and whatever pieces it was read in, and each *)
(* digest that applies equals it; a profile is valid only when the archive  *)
(* inside was read to its end (rpm.rs validate_payload, PayloadIntegrity).  *)
RpmReadWhole ==
  LET whole == <<rpm.payloadAt, rpm.length>>
      declared == hashing.declared.digests
  IN  /\ hashing.phase = "done" /\ hashing.verdict = "Verified" =>
           /\ <<parse.at, parse.at + hashing.hashed>> = whole
           /\ \A a \in Algorithms : declared["payload"][a] \subseteq {whole}
           /\ rpm.compressor = "none" =>
                \A a \in Algorithms : declared["alt"][a] \subseteq {whole}
           /\ \E s \in Scopes, a \in Algorithms : declared[s][a] # {}
      /\ parse.failure = "profile valid" => NestedIntact(rpm.payload)
=============================================================================
