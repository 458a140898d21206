----------------------------- MODULE AlpineApk ------------------------------
(***************************************************************************)
(* Alpine packages (libarchive_oxide-package/src/alpine.rs and              *)
(* alpine_signature.rs): the tar entries in their required order, the       *)
(* fields of .PKGINFO, its datahash over the compressed data member and the *)
(* RSA signatures over the compressed control member.                       *)
(*                                                                         *)
(* The second part has the reader that gathers the compressed members.      *)
(***************************************************************************)
EXTENDS PackageFindings, FiniteSetsExt

(* from_bytes, from_der, from_pem and normalize_public_key_der: a key is    *)
(* accepted as PKCS #1 or as an SPKI around it.  key.der is what the        *)
(* bytes are once the PEM boundary, if any, is taken off.                   *)
ValidateKeyId(id) == id \notin {"empty", "unsafe"}

ValidatePkcs1PublicKey(der) ==
  der.form = "pkcs1" /\ der.bits \in 2048..8192 /\ der.exponent >= 3 /\ der.exponent % 2 = 1

NormalizePublicKeyDer(der) ==
  ValidatePkcs1PublicKey(der)
    \/ (der.form = "spki" /\ ValidatePkcs1PublicKey([der EXCEPT !.form = "pkcs1"]))

AcceptsKey(key) ==
  /\ ValidateKeyId(key.id)
  /\ key.small
  /\ key.pem \in {"none", "whole"}    \* decode_public_key_pem
  /\ NormalizePublicKeyDer(key.der)

TrustedKeys(offered) ==
  LET accepted == {key \in offered : AcceptsKey(key)}
  IN  [id \in {key.id : key \in accepted} |-> (CHOOSE key \in accepted : key.id = id).certificate]

-----------------------------------------------------------------------------
(* validate_pkginfo: one line of the body.                                  *)
NoHash == [state |-> "Absent", of |-> 0]

PkginfoLine(info, line) ==
  LET invalid == [info EXCEPT !.sound = FALSE, !.findings = @ \cup {"InvalidPackageMetadata"}]
  IN  CASE line.form = "blank" -> info
        [] line.form \in {"no-separator", "bad-field"} -> invalid
        [] line.form = "field" /\ line.key \in info.keys ->
             IF line.key = "datahash"
             THEN [invalid EXCEPT !.hash = [state |-> "Invalid", of |-> 0]] ELSE invalid
        [] line.form = "field" /\ line.key \notin info.keys /\ line.key = "datahash" ->
             IF line.value = 0
             THEN [info EXCEPT !.keys = @ \cup {"datahash"},
                               !.hash = [state |-> "Invalid", of |-> 0],
                               !.findings = @ \cup {"InvalidIntegrityMetadata"}]
             ELSE [info EXCEPT !.keys = @ \cup {"datahash"},
                               !.hash = [state |-> "Valid", of |-> line.value]]
        [] OTHER -> [info EXCEPT !.keys = @ \cup {line.key}]

ValidatePkginfo(lines) ==
  LET info == FoldLeft(PkginfoLine,
                       [keys |-> {}, sound |-> TRUE, hash |-> NoHash, findings |-> {}], lines)
  IN  IF info.sound /\ ~({"pkgname", "pkgver", "arch"} \subseteq info.keys)
      THEN [info EXCEPT !.findings = @ \cup {"MissingRequiredMember"}] ELSE info

-----------------------------------------------------------------------------
(* AlpineState.  current is 0 for an entry whose bytes are not kept, -1 for *)
(* .PKGINFO and n for the n-th signature; -2 is None.                       *)
OtherEntry == 0
PackageInfo == -1
NoCurrent == -2

AlpineStart ==
  [readable |-> TRUE, stopped |-> FALSE, findings |-> {}, names |-> {}, current |-> NoCurrent,
   lines |-> << >>, used |-> 0, tooLarge |-> FALSE, signatures |-> << >>,
   seenPkginfo |-> FALSE, seenNonSignature |-> FALSE, seenData |-> FALSE, signed |-> FALSE]

Report(state, code) == [state EXCEPT !.findings = @ \cup {code}]
Ignore(state, code) == [Report(state, code) EXCEPT !.current = OtherEntry]

(* begin_signature and parse_signature_name.                                *)
BeginSignature(state, entry) ==
  LET seen  == [state EXCEPT !.signed = TRUE]
      known == IF state.seenNonSignature THEN Report(seen, "UnexpectedMemberOrder") ELSE seen
  IN  IF entry.algorithm = "unknown" \/ entry.key = "unsafe" \/ entry.kind # "File"
      THEN Ignore(known, "InvalidSignatureMember")
      ELSE [known EXCEPT !.signatures = Append(@, [algorithm |-> entry.algorithm,
                                                   key |-> entry.key, over |-> entry.over,
                                                   by |-> entry.by, tooLarge |-> FALSE]),
                         !.current = Len(state.signatures) + 1]

BeginPkginfo(state, entry) ==
  LET late == IF state.seenData THEN Report(state, "UnexpectedMemberOrder") ELSE state
  IN  IF state.seenPkginfo THEN Ignore(state, "DuplicateMember")
      ELSE IF entry.kind = "File"
      THEN [late EXCEPT !.seenPkginfo = TRUE, !.current = PackageInfo, !.lines = entry.lines]
      ELSE Ignore(late, "InvalidPackageMetadata")

(* begin_entry. *)
BeginEntry(state, entry) ==
  LET closed == IF state.current = NoCurrent THEN state
                ELSE [Report(state, "ContainerUnreadable") EXCEPT !.readable = FALSE,
                                                                  !.current = NoCurrent]
      named  == IF entry.name \in state.names THEN Report(closed, "DuplicateEntryPath")
                ELSE [closed EXCEPT !.names = @ \cup {entry.name}]
      later  == [named EXCEPT !.seenNonSignature = TRUE]
      data   == IF entry.class = "data" THEN [later EXCEPT !.seenData = TRUE] ELSE later
  IN  CASE entry.class = "unsafe"  -> Ignore(closed, "UnsafeEntryPath")
        [] entry.class = "sign"    -> BeginSignature(named, entry)
        [] entry.class = "pkginfo" -> BeginPkginfo(later, entry)
        [] OTHER -> IF state.seenPkginfo THEN [data EXCEPT !.current = OtherEntry]
                    ELSE Ignore(data, "UnexpectedMemberOrder")

(* feed, feed_signature, reserve_metadata, mark_pkginfo_too_large.          *)
FeedEntry(state, size, limit) ==
  LET fits == state.used + size <= limit
  IN  CASE state.current = PackageInfo /\ ~state.tooLarge ->
             IF fits THEN [state EXCEPT !.used = @ + size]
             ELSE [Report(state, "MetadataTooLarge") EXCEPT !.tooLarge = TRUE]
        [] state.current > 0 /\ ~state.signatures[state.current].tooLarge ->
             IF fits THEN [state EXCEPT !.used = @ + size]
             ELSE [Report(state, "SignatureResourceLimit")
                     EXCEPT !.signatures[state.current].tooLarge = TRUE]
        [] OTHER -> state

(* validate, one event of the archive reader.  metadata_limit_error and the *)
(* kinds of an error decide its code.                                       *)
ErrorCode(kind) ==
  CASE kind = "metadata" -> "MetadataTooLarge"
    [] kind = "limit" -> "DecompressionBomb"
    [] OTHER -> "ContainerUnreadable"

ValidateEvent(state, event, limit) ==
  IF state.stopped THEN state
  ELSE CASE event.type = "Entry"    -> BeginEntry(state, event.entry)
         [] event.type = "Data"     -> FeedEntry(state, event.size, limit)
         [] event.type = "EndEntry" -> [state EXCEPT !.current = NoCurrent]
         [] event.type = "Error"    ->
              [Report(state, ErrorCode(event.kind)) EXCEPT !.readable = FALSE,
                                                           !.stopped = TRUE]
         [] OTHER -> state

(* finish. *)
FinishValidation(state, evidence) ==
  LET missing == IF state.readable /\ ~state.seenPkginfo
                 THEN {"MissingRequiredMember"} ELSE {}
      info    == IF state.seenPkginfo /\ ~state.tooLarge
                 THEN ValidatePkginfo(state.lines) ELSE [hash |-> NoHash, findings |-> {}]
      scheme  == IF state.signed THEN {"SigningSchemeDetected"} ELSE {"UnsignedPackage"}
      all     == state.findings \cup missing \cup info.findings \cup scheme
  IN  [readable |-> state.readable, findings |-> all, signed |-> state.signed,
       profileValid |-> /\ state.readable /\ state.seenPkginfo
                        /\ \A code \in all : Severity(code) = "Info",
       signatures |-> state.signatures, hash |-> info.hash, evidence |-> evidence]

(* The package does not begin with a gzip member: unreadable, and           *)
(* format_mismatch.                                                         *)
NotGzip(code) ==
  [readable |-> FALSE, findings |-> {code}, signed |-> FALSE, profileValid |-> FALSE,
   signatures |-> << >>, hash |-> NoHash, evidence |-> << >>]

(* validate.  The gzip stream is drained after the tar reader stops: the    *)
(* evidence is lost, and the container fails, when that fails.              *)
ValidateAlpine(apk, limit) ==
  LET state == FoldLeft(LAMBDA s, event : ValidateEvent(s, event, limit),
                        AlpineStart, apk.events)
      drained == IF apk.drains THEN state
                 ELSE [Report(state, "ContainerUnreadable") EXCEPT !.readable = FALSE]
  IN  IF apk.prefix # "gzip"
      THEN NotGzip(IF apk.prefix = "unreadable" THEN "ContainerUnreadable"
                   ELSE "ContainerFormatMismatch")
      ELSE FinishValidation(drained, IF apk.drains THEN apk.evidence ELSE << >>)

-----------------------------------------------------------------------------
(* verify_datahash: the data member follows the signature, if there is one, *)
(* and the control member.                                                  *)
VerifyDatahash(validation) ==
  LET member == IF validation.signed THEN 3 ELSE 2
  IN  CASE validation.hash.state = "Absent"  -> Outcome("NotPresent", {})
        [] validation.hash.state = "Invalid" -> Outcome("Invalid", {})
        [] validation.hash.state = "Valid"   ->
             IF member \notin DOMAIN validation.evidence
             THEN Outcome("Invalid", {"IntegrityReadFailure"})
             ELSE IF validation.evidence[member].of = validation.hash.of
             THEN Outcome("Verified", {})
             ELSE Outcome("Invalid", {"IntegrityMismatch"})

(* verify_signature_record: the outcome, and the finding it leaves.         *)
VerifySignatureRecord(record, validation, keys) ==
  LET control == 2 \in DOMAIN validation.evidence /\ validation.evidence[2].captured
  IN  CASE record.tooLarge -> "ResourceLimited"
        [] ~record.tooLarge /\ record.algorithm = "DSA" -> "Unsupported"
        [] ~record.tooLarge /\ record.algorithm # "DSA" /\ record.key \notin DOMAIN keys ->
             "MissingKey"
        [] OTHER ->
             IF validation.hash.state # "Valid" THEN "UnsupportedScope"
             ELSE IF ~control THEN "ResourceLimited"
             ELSE IF record.by = keys[record.key] /\ record.over = validation.evidence[2].of
             THEN "Valid" ELSE "Invalid"

RecordFinding(outcome, record) ==
  CASE outcome = "Unsupported"      -> {"UnsupportedSignatureAlgorithm"}
    [] outcome = "MissingKey"       -> {"MissingVerificationKey"}
    [] outcome = "UnsupportedScope" -> {"UnsupportedIntegrityScope"}
    [] outcome = "ResourceLimited"  ->
         IF record.tooLarge THEN {} ELSE {"SignatureResourceLimit"}
    [] outcome = "Invalid"          -> {"SignatureMismatch"}
    [] outcome = "Valid"            -> {}

(* verify_signatures: keys maps a key identifier to a public key.           *)
VerifyAlpineSignatures(validation, keys) ==
  LET records  == Range(validation.signatures)
      of(r)    == VerifySignatureRecord(r, validation, keys)
      outcomes == {of(r) : r \in records}
      signers  == {keys[r.key] : r \in {x \in records : of(x) = "Valid"}}
      verdict  == IF signers # {} THEN "Verified"
                  ELSE IF outcomes \cap {"Invalid", "ResourceLimited"} # {} THEN "Invalid"
                  ELSE IF "MissingKey" \in outcomes THEN "NotEvaluated"
                  ELSE "Unsupported"
  IN  IF ~validation.signed THEN Signed("NotPresent", {}, {})
      ELSE IF records = {} THEN Signed("Invalid", {"InvalidSignatureMetadata"}, {})
      ELSE Signed(verdict, Gather(records, LAMBDA r : RecordFinding(of(r), r)), signers)

(* verify_alpine. *)
VerifyAlpine(validation, keys) ==
  LET hash  == VerifyDatahash(validation)
      signs == VerifyAlpineSignatures(validation, keys)
  IN  [integrity |-> hash.verdict, signature |-> signs.verdict, signers |-> signs.signers,
       findings |-> hash.findings \cup signs.findings]

-----------------------------------------------------------------------------
(***************************************************************************)
(* TrackingGzipReader (libarchive_oxide-package/src/alpine_signature.rs):   *)
(* it decodes a file of concatenated gzip members for the tar reader, and   *)
(* keeps the digest of every member's exact compressed bytes and, within a  *)
(* budget, the bytes of the first two.  Alpine signs those bytes, so it     *)
(* matters that no read boundary moves a byte from one member to the next.  *)
(*                                                                         *)
(* A byte of the file is its offset; a digest over bytes is the sequence of *)
(* their offsets.  The decoder is external: one call may consume and        *)
(* produce anything up to the end of its member.                            *)
(***************************************************************************)

CONSTANTS
  GzipBuffer,     \* BUFFER
  CaptureLimit,   \* the budget for retained compressed bytes
  DecodedLimit,   \* limits.decoded_total()
  MaxTracked      \* MAX_TRACKED_MEMBERS

ASSUME GzipMembersAssumption ==
  /\ GzipBuffer \in Nat \ {0, 1}
  /\ {CaptureLimit, DecodedLimit, MaxTracked} \subseteq Nat

VARIABLES
  file,       \* the input: [members: Seq([length, decoded]), trailing, cut]
  filled,     \* bytes read into the buffer so far
  start,      \* the offset of the first byte not consumed
  inputEof,
  state,      \* GzipReaderState
  left,       \* decoder: [input, output] still to come of its member
  captureUsed, captureExhausted, decodedTotal,
  memberCount, members,
  current,    \* MemberAccumulator: [capture, encoded, hashed]
  gzFailure

gzVars == <<file, filled, start, inputEof, state, left, captureUsed, captureExhausted,
            decodedTotal, memberCount, members, current, gzFailure>>

GzSizes(f) == [m \in DOMAIN f.members |-> f.members[m].length]
GzLength(f) == FoldLeft(LAMBDA a, b : a + b, f.trailing, GzSizes(f)) - f.cut
NoMember == [input |-> 0, output |-> 0]
GzMember(f, m) ==
  IF m \in DOMAIN f.members
  THEN [input |-> f.members[m].length, output |-> f.members[m].decoded]
  ELSE NoMember

Accumulator(capture) == [capture |-> capture, encoded |-> << >>, hashed |-> << >>]

GzInit(f) ==
  /\ file = f
  /\ filled = 0 /\ start = 0 /\ inputEof = FALSE
  /\ state = "Decoding" /\ left = GzMember(file, 1)
  /\ captureUsed = 0 /\ captureExhausted = FALSE /\ decodedTotal = 0
  /\ memberCount = 0 /\ members = << >>
  /\ current = Accumulator(TRUE)
  /\ gzFailure = "ok"

GzRunning == state # "Done" /\ gzFailure = "ok"
Buffered == filled - start

(* fill: a read of the input may be short; none at the end is end of file.  *)
Fill ==
  /\ GzRunning
  /\ ~inputEof
  /\ \/ state = "BetweenMembers" /\ Buffered < 2
     \/ state = "Decoding" /\ Buffered = 0
  /\ IF filled = GzLength(file)
     THEN inputEof' = TRUE /\ UNCHANGED filled
     ELSE /\ \E count \in 1..Min({GzipBuffer - Buffered, GzLength(file) - filled}) :
               filled' = filled + count
          /\ UNCHANGED inputEof
  /\ UNCHANGED <<file, start, state, left, captureUsed, captureExhausted, decodedTotal,
                 memberCount, members, current, gzFailure>>

(* What follows a member: the end, another member or trailing data.         *)
BetweenMembers ==
  /\ GzRunning
  /\ state = "BetweenMembers"
  /\ Buffered >= 2 \/ inputEof
  /\ LET next == memberCount + 1
     IN  \/ /\ Buffered = 0
            /\ state' = "Done" /\ UNCHANGED <<gzFailure, left>>
         \/ /\ Buffered > 0
            /\ Buffered < 2 \/ next > Len(file.members)  \* no room for, or not, the magic
            /\ gzFailure' = "trailing" /\ UNCHANGED <<state, left>>
         \/ /\ Buffered >= 2 /\ next <= Len(file.members)
            /\ state' = "Decoding" /\ left' = GzMember(file, next) /\ UNCHANGED gzFailure
  /\ UNCHANGED <<file, filled, start, inputEof, captureUsed, captureExhausted, decodedTotal,
                 memberCount, members, current>>

(* account_encoded_range. *)
AccountEncoded(bytes) ==
  LET fits == captureUsed + Len(bytes) <= CaptureLimit
      hashed == current.hashed \o bytes
  IN  IF ~current.capture
      THEN [captured |-> captureUsed, exhausted |-> captureExhausted,
            current |-> [current EXCEPT !.hashed = hashed]]
      ELSE IF fits
      THEN [captured |-> captureUsed + Len(bytes), exhausted |-> captureExhausted,
            current |-> [current EXCEPT !.hashed = hashed, !.encoded = @ \o bytes]]
      ELSE [captured |-> captureUsed, exhausted |-> TRUE,
            current |-> [capture |-> FALSE, encoded |-> << >>, hashed |-> hashed]]

(* finish_member. *)
FinishMemberWithCapture(accumulated) ==
  /\ memberCount' = memberCount + 1
  /\ members' = IF Len(members) < MaxTracked THEN Append(members, accumulated) ELSE members
  /\ current' = [accumulated EXCEPT !.hashed = << >>]
  /\ state' = "BetweenMembers"
FinishMember(accumulated) ==
  /\ memberCount' = memberCount + 1
  /\ members' = IF Len(members) < MaxTracked THEN Append(members, accumulated) ELSE members
  /\ current' = Accumulator(memberCount + 1 < 2)
  /\ state' = "BetweenMembers"

(* read: one call of the decoder and what is accounted for it.              *)
Decode ==
  /\ GzRunning
  /\ state = "Decoding"
  /\ Buffered > 0 \/ inputEof
  /\ \E consumed \in 0..Min({Buffered, left.input}), produced \in 0..left.output :
       LET rest  == [input |-> left.input - consumed, output |-> left.output - produced]
           after == AccountEncoded([b \in 1..consumed |-> start + b - 1])
       IN  /\ consumed > 0 \/ produced > 0
           /\ rest.input = 0 => rest.output = 0  \* the trailer is read last
           /\ captureUsed' = after.captured /\ captureExhausted' = after.exhausted
           /\ left' = rest
           /\ IF decodedTotal + produced > DecodedLimit
              THEN /\ gzFailure' = "limit"
                   /\ current' = after.current
                   /\ UNCHANGED <<start, decodedTotal, memberCount, members, state>>
              ELSE /\ decodedTotal' = decodedTotal + produced
                   /\ start' = start + consumed
                   /\ IF rest = NoMember THEN FinishMember(after.current)
                      ELSE current' = after.current /\ UNCHANGED <<memberCount, members, state>>
                   /\ UNCHANGED gzFailure
  /\ UNCHANGED <<file, filled, inputEof>>

(* The decoder refuses a member the input ends inside.                      *)
DecoderRefuses ==
  /\ GzRunning
  /\ state = "Decoding"
  /\ inputEof /\ Buffered = 0
  /\ gzFailure' = "invalid"
  /\ UNCHANGED <<file, filled, start, inputEof, state, left, captureUsed, captureExhausted,
                 decodedTotal, memberCount, members, current>>

GzNext == Fill \/ BetweenMembers \/ Decode \/ DecoderRefuses

-----------------------------------------------------------------------------
(* The bytes of member m, as the format lays them out.                      *)
BytesOfMember(m) ==
  LET before == FoldLeft(LAMBDA a, b : a + b, 0, SubSeq(GzSizes(file), 1, m - 1))
  IN  [b \in 1..file.members[m].length |-> before + b - 1]

(* The evidence is of whole members: each tracked member's digest is over   *)
(* its exact compressed bytes, a retained copy is those bytes and is only   *)
(* ever of the first two, the copies stay within the budget and one of the  *)
(* first two is missing only when the budget ran out; a file read to its    *)
(* end had no byte outside a member (alpine_signature.rs: the signature is  *)
(* checked over members[1].encoded and datahash over members[n].sha256).    *)
MembersExact ==
  /\ \A m \in DOMAIN members :
       /\ members[m].hashed = BytesOfMember(m)
       /\ members[m].capture => m <= 2 /\ members[m].encoded = BytesOfMember(m)
       /\ (m <= 2 /\ ~members[m].capture) => captureExhausted
  /\ captureUsed <= CaptureLimit
  /\ Len(members) = Min({memberCount, MaxTracked})
  /\ state = "Done" => /\ memberCount = Len(file.members)
                       /\ file.trailing = 0 /\ file.cut = 0
  /\ gzFailure = "trailing" => file.trailing > 0 \/ file.cut > 0
  /\ gzFailure = "invalid" => file.cut > 0
=============================================================================
