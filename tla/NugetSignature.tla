--------------------------- MODULE NugetSignature ---------------------------
(***************************************************************************)
(* NuGet packages (libarchive_oxide-package/src/nuget_signature.rs): the    *)
(* ZIP layout a signature is defined over, the CMS envelope of the member   *)
(* .signature.p7s, and the canonical package hash, which is the hash of the *)
(* package as it was before that member was added.                          *)
(*                                                                         *)
(* A package is the record of what the raw bytes hold.  Its positions are   *)
(* offsets into the file: the hash is over the sequence of the positions it *)
(* reads and the EOCD fields it recomputes.                                 *)
(***************************************************************************)
EXTENDS JarSignature

CONSTANTS
  MaxCountersignatures,  \* MAX_COUNTERSIGNATURES
  CentralFixed,          \* CENTRAL_FIXED, and the fixed part of the EOCD
  RawEntrySize           \* size_of::<RawEntry>()

ASSUME NugetAssumption ==
  {MaxCountersignatures, CentralFixed, RawEntrySize} \subseteq Nat

SignatureName == "signature"

(* Failure::unsupported is only ever made with these codes.                 *)
NugetUnsupported ==
  {"UnsupportedIntegrityScope", "UnsupportedSignatureAlgorithm",
   "UnsupportedIntegrityAlgorithm"}

NugetDimension(failure) == IF failure \in NugetUnsupported THEN "Unsupported" ELSE "Invalid"

-----------------------------------------------------------------------------
(* validate_nuspec_xml, one XML event at a time.                            *)
Required == {"id", "version", "authors", "description"}

NuspecStart ==
  [depth |-> 0, root |-> FALSE, closed |-> FALSE, metadata |-> FALSE,
   active |-> 0, filled |-> FALSE, seen |-> {}, failure |-> "ok"]

NuspecOpen(state, name, nesting) ==
  LET depth == state.depth + 1
      deep  == [state EXCEPT !.depth = depth]
  IN  CASE depth > nesting -> [deep EXCEPT !.failure = "MetadataTooLarge"]
        [] depth <= nesting /\ depth = 1 ->
             IF name = "package" /\ ~state.root /\ ~state.closed
             THEN [deep EXCEPT !.root = TRUE]
             ELSE [deep EXCEPT !.failure = "InvalidPackageMetadata"]
        [] depth <= nesting /\ depth = 2 ->
             [deep EXCEPT !.metadata = @ \/ (state.root /\ name = "metadata")]
        [] depth <= nesting /\ depth = 3 /\ state.metadata /\ name \in Required ->
             IF name \in state.seen
             THEN [deep EXCEPT !.failure = "InvalidPackageMetadata"]
             ELSE [deep EXCEPT !.seen = @ \cup {name}, !.active = depth, !.filled = FALSE]
        [] OTHER -> deep

NuspecText(state, blank) ==
  IF state.active # 0 THEN [state EXCEPT !.filled = @ \/ ~blank]
  ELSE IF (state.depth = 0 \/ state.closed) /\ ~blank
       THEN [state EXCEPT !.failure = "InvalidPackageMetadata"]
       ELSE state

NuspecClose(state) ==
  IF state.active = state.depth /\ state.active # 0 /\ ~state.filled
  THEN [state EXCEPT !.failure = "InvalidPackageMetadata"]
  ELSE IF state.depth = 0 THEN [state EXCEPT !.failure = "InvalidPackageMetadata"]
  ELSE [state EXCEPT !.active = IF @ = state.depth THEN 0 ELSE @,
                     !.closed = @ \/ state.depth = 1,
                     !.depth = @ - 1]

NuspecEvent(state, event, nesting) ==
  IF state.failure # "ok" THEN state
  ELSE CASE event.type = "Start" -> NuspecOpen(state, event.name, nesting)
         [] event.type = "Empty" ->
              IF event.name \in Required
              THEN [state EXCEPT !.failure = "InvalidPackageMetadata"] ELSE state
         [] event.type = "Text"  -> NuspecText(state, event.name = "blank")
         [] event.type = "End"   -> NuspecClose(state)
         [] event.type = "Other" -> [state EXCEPT !.failure = "InvalidPackageMetadata"]

ValidateNuspecXml(events, nesting) ==
  LET end == FoldLeft(LAMBDA state, event : NuspecEvent(state, event, nesting),
                      NuspecStart, events)
  IN  IF end.failure # "ok" THEN end.failure
      ELSE Check(/\ end.depth = 0 /\ end.root /\ end.closed /\ end.metadata
                 /\ Required \subseteq end.seen, "InvalidPackageMetadata")

(* inspect_nuspec: the findings, and whether the one root manifest is sound.*)
InspectNuspec(collected, nesting) ==
  LET manifests == SelectSeq(collected.entries, LAMBDA e : e.name.class = "nuspec")
      failure   == ValidateNuspecXml(manifests[1].body, nesting)
  IN  IF collected.failure # "ok"
      THEN [sound |-> FALSE,
            findings |-> {IF collected.failure = "limit" THEN "MetadataTooLarge"
                          ELSE "InvalidPackageMetadata"}]
      ELSE IF Len(manifests) # 1 THEN [sound |-> FALSE, findings |-> {}]
      ELSE [sound |-> failure = "ok", findings |-> {failure} \ {"ok"}]

-----------------------------------------------------------------------------
(* The layout of a raw ZIP: where each central record lies, and where each  *)
(* local entry, with its data descriptor, ends.                             *)
CentralPosition(zip, e) ==
  zip.centralOffset + FoldLeft(LAMBDA sum, entry : sum + entry.centralLength, 0,
                               SubSeq(zip.entries, 1, e - 1))
LocalEnd(entry) ==
  entry.localOffset + entry.localHeader + entry.compressed + entry.descriptor
Length(zip) == zip.eocdOffset + zip.eocdLength

(* validate_local_entry: local and central headers agree.                   *)
ValidateLocalEntry(entry, centralOffset) ==
  FirstFailure(<<Check(entry.agrees, "InvalidIntegrityMetadata"),
                 Check(LocalEnd(entry) <= centralOffset, "InvalidIntegrityMetadata")>>)

(* parse_raw_zip, one central record.                                       *)
ParseCentralEntry(zip, limits, e) ==
  LET entry == zip.entries[e]
      used  == FoldLeft(LAMBDA sum, other :
                          sum + other.centralLength - CentralFixed + RawEntrySize,
                        0, SubSeq(zip.entries, 1, e))
  IN  FirstFailure(<<Check(entry.header, "InvalidIntegrityMetadata"),
                     Check(used <= limits.metadata, "IntegrityResourceLimit"),
                     Check(entry.nameLength <= limits.path, "IntegrityResourceLimit"),
                     Check(~entry.zip64, "UnsupportedIntegrityScope"),
                     ValidateLocalEntry(entry, zip.centralOffset)>>)

(* validate_raw_entries: no two names collide, no two local entries         *)
(* overlap, and the signature is the last of both orders.                   *)
ByOffset(entries) ==
  SortSeq(entries, LAMBDA a, b : a.localOffset < b.localOffset)

ValidateRawEntries(zip) ==
  LET names    == [e \in DOMAIN zip.entries |-> zip.entries[e].folded]
      ordered  == ByOffset(zip.entries)
      like     == SelectSeq(zip.entries, LAMBDA e : e.folded = SignatureName)
      final    == /\ Last(zip.entries).name = SignatureName
                  /\ Last(ordered).name = SignatureName
                  /\ LocalEnd(like[1]) = zip.centralOffset
  IN  FirstFailure(
        <<Check(Distinct(names), "DuplicateEntryPath"),
          Check(\A p \in 1..Len(ordered) - 1 :
                  LocalEnd(ordered[p]) <= ordered[p + 1].localOffset,
                "InvalidIntegrityMetadata"),
          IF like = << >> THEN "ok"
          ELSE FirstFailure(
                 <<Check(Len(like) = 1 /\ like[1].name = SignatureName, "InvalidSignatureMember"),
                   Check(like[1].stored /\ like[1].descriptor = 0
                           /\ like[1].compressed = like[1].uncompressed,
                         "InvalidSignatureMember"),
                   Check(final, "InvalidSignatureMember")>>)>>)

(* parse_raw_zip. *)
ParseRawZip(zip, limits) ==
  FirstFailure(
    <<Check(zip.readable /\ zip.eocd, "InvalidIntegrityMetadata"),
      Check(~zip.multiDisk, "UnsupportedIntegrityScope"),
      Check(zip.count = zip.onDisk, "InvalidIntegrityMetadata"),
      Check(~zip.zip64, "UnsupportedIntegrityScope"),
      Check(zip.count <= limits.entries, "IntegrityResourceLimit"),
      Check(zip.centralOffset + zip.centralSize = zip.eocdOffset, "InvalidIntegrityMetadata"),
      FirstFailure([e \in DOMAIN zip.entries |-> ParseCentralEntry(zip, limits, e)]),
      Check(CentralPosition(zip, Len(zip.entries) + 1) = zip.eocdOffset,
            "InvalidIntegrityMetadata"),
      ValidateRawEntries(zip)>>)

SignatureEntry(zip) == SelectInSeq(zip.entries, LAMBDA e : e.name = SignatureName)

(* read_signature_body: the bounds on what is read into memory.             *)
ReadSignatureBody(zip, limits) ==
  LET size == zip.entries[SignatureEntry(zip)].uncompressed
  IN  FirstFailure(<<Check(size <= limits.metadata /\ size <= limits.inFlight,
                           "SignatureResourceLimit"),
                     Check(zip.bodyReadable, "InvalidSignatureMetadata")>>)

-----------------------------------------------------------------------------
(* single_attribute, with the check for exactly one value: an attribute     *)
(* is the sequence of its occurrences, each the sequence of its values.     *)
SingleValue(attribute) == Len(attribute) = 1 /\ Len(attribute[1]) = 1
Invalid == "InvalidSignatureMetadata"

(* signature_type: Author or Repository.                                    *)
SignatureTypeFailure(signer) ==
  FirstFailure(<<Check(signer.attributes.present, Invalid),
                 Check(SingleValue(signer.attributes.commitment), Invalid),
                 Check(SingleValue(signer.attributes.commitment)
                         => signer.attributes.commitment[1][1] \in {"author", "repository"},
                       "UnsupportedIntegrityScope")>>)
SignatureType(signer) == signer.attributes.commitment[1][1]

(* validate_content_type, validate_message_digest and                       *)
(* validate_signing_certificate_v2.                                         *)
ValidateContentType(signer) ==
  LET type == signer.attributes.contentType
  IN  IF ~SingleValue(type) THEN Invalid
      ELSE Check(type[1][1] = "data", "UnsupportedIntegrityScope")

ValidateMessageDigest(signer, content) ==
  LET digest == signer.attributes.messageDigest
  IN  IF ~SingleValue(digest) THEN Invalid
      ELSE Check(digest[1][1] = content, "SignatureMismatch")

ValidateSigningCertificateV2(signer) ==
  LET wanted == signer.attributes.signingCertificate
  IN  IF ~SingleValue(wanted) THEN Invalid
      ELSE IF wanted[1][1] = "sha1" THEN "UnsupportedSignatureAlgorithm"
      ELSE Check({wanted[1][1]} = signer.certificates, "SignatureMismatch")

(* find_signer_certificate: the identifier names exactly one certificate.   *)
FindSignerCertificate(signer, cms) ==
  FirstFailure(<<Check(cms.onlyX509, "UnsupportedSignatureAlgorithm"),
                 Check(Cardinality(signer.certificates) = 1, Invalid)>>)

(* verify_signer. *)
VerifyNugetSigner(signer, content, cms) ==
  FirstFailure(<<Check(signer.digest = "SHA-2", "UnsupportedSignatureAlgorithm"),
                 Check(signer.algorithm = "RSA", "UnsupportedSignatureAlgorithm"),
                 FindSignerCertificate(signer, cms),
                 Check(signer.key = "RSA", "UnsupportedSignatureAlgorithm"),
                 Check(signer.attributes.present, Invalid),
                 ValidateContentType(signer),
                 ValidateMessageDigest(signer, content),
                 ValidateSigningCertificateV2(signer),
                 Check(signer.valid, "SignatureMismatch")>>)

(* validate_repository_attributes. *)
ValidateRepositoryAttributes(signer) ==
  LET service == signer.attributes.service
      owners  == signer.attributes.owners
  IN  IF SignatureType(signer) = "author"
      THEN Check(service = << >> /\ owners = << >>, Invalid)
      ELSE Check(/\ SingleValue(service)
                 /\ (SingleValue(service) => service[1][1] = "https")
                 /\ (owners = << >> \/ SingleValue(owners))
                 /\ (SingleValue(owners) => owners[1][1] = "named"), Invalid)

(* The failure of one countersignature, which signs the primary signature.  *)
VerifyCountersignature(counter, primary, cms) ==
  FirstFailure(<<SignatureTypeFailure(counter),
                 IF SignatureTypeFailure(counter) # "ok" THEN "ok"
                 ELSE FirstFailure(<<Check(SignatureType(counter) = "repository", Invalid),
                                     ValidateRepositoryAttributes(counter)>>),
                 VerifyNugetSigner(counter, primary.signature, cms)>>)

(* parse_signature_content. *)
ParseSignatureContent(content) ==
  FirstFailure(<<Check(content.utf8, "InvalidIntegrityMetadata"),
                 Check(content.version = 1, "UnsupportedIntegrityScope"),
                 Check(content.sections, "InvalidIntegrityMetadata"),
                 Check(content.algorithm \in {"SHA-256", "SHA-384", "SHA-512"},
                       "UnsupportedIntegrityAlgorithm"),
                 Check(content.canonical, "InvalidIntegrityMetadata")>>)

(* verify_signature_envelope. *)
VerifySignatureEnvelope(cms) ==
  LET primary  == cms.signers[1]
      counters == primary.counters
      typed    == SignatureTypeFailure(primary)
      framed   == FirstFailure(
                    <<IF PreflightDer(cms.der) = "ok" THEN "ok" ELSE Invalid,
                      Check(cms.decodes, Invalid),
                      Check(Len(cms.signers) = 1, Invalid),
                      Check(cms.certificates > 0, Invalid),
                      Check(cms.certificates <= MaxCmsCertificates, "SignatureResourceLimit"),
                      Check(cms.content.present, Invalid),
                      Check(cms.content.isData, "UnsupportedIntegrityScope")>>)
  IN  IF framed # "ok" THEN framed
      ELSE IF typed # "ok" THEN typed
      ELSE FirstFailure(
             <<VerifyNugetSigner(primary, cms.content.id, cms),
               ValidateRepositoryAttributes(primary),
               Check(primary.countersDecode, Invalid),
               Check(Len(counters) <= MaxCountersignatures, "SignatureResourceLimit"),
               Check(SignatureType(primary) = "repository" => counters = << >>, Invalid),
               FirstFailure([c \in DOMAIN counters |->
                               VerifyCountersignature(counters[c], primary, cms)]),
               ParseSignatureContent(cms.content)>>)

NugetSigners(cms) ==
  UNION {signer.certificates : signer \in {cms.signers[1]} \cup Range(cms.signers[1].counters)}

-----------------------------------------------------------------------------
(* canonical_package_hash: the positions hashed, in order.  The EOCD counts *)
(* and offsets between EocdPrefix and EocdComment are hashed as recomputed  *)
(* for the package without its signature member.                            *)
Positions(from, length) == [p \in 1..length |-> from + p - 1]
EocdPrefix == 8     \* up to the entry counts
EocdComment == 20   \* the comment length and the comment

CanonicalRanges(zip) ==
  LET signature == SignatureEntry(zip)
      central(e) == IF e = signature THEN << >>
                    ELSE Positions(CentralPosition(zip, e), zip.entries[e].centralLength)
  IN  Positions(0, zip.entries[signature].localOffset)
        \o FoldLeft(LAMBDA all, e : all \o central(e), << >>,
                    [e \in DOMAIN zip.entries |-> e])
        \o Positions(zip.eocdOffset, EocdPrefix)
        \o Positions(zip.eocdOffset + EocdComment, zip.eocdLength - EocdComment)

(* verify_nuget.  cms.content.of is the content the package hash was taken  *)
(* from, zip.content the content of the bytes hashed now.                   *)
NugetResult(integrity, signature, signers, findings) ==
  [integrity |-> integrity, signature |-> signature, signers |-> signers,
   findings |-> findings]

VerifyNuget(zip, cms, limits) ==
  LET parsed   == ParseRawZip(zip, limits)
      envelope == FirstFailure(<<ReadSignatureBody(zip, limits), VerifySignatureEnvelope(cms)>>)
  IN  IF parsed # "ok"
      THEN NugetResult(NugetDimension(parsed), NugetDimension(parsed), {}, {parsed})
      ELSE IF SignatureEntry(zip) = 0
      THEN NugetResult("NotPresent", "NotPresent", {}, {})
      ELSE IF envelope # "ok"
      THEN NugetResult("NotEvaluated", NugetDimension(envelope), {}, {envelope})
      ELSE IF ~zip.rereadable
      THEN NugetResult("Invalid", "Invalid", NugetSigners(cms), {"IntegrityReadFailure"})
      ELSE IF zip.content # cms.content.of
      THEN NugetResult("Invalid", "Invalid", NugetSigners(cms), {"IntegrityMismatch"})
      ELSE NugetResult("Verified", "Verified", NugetSigners(cms), {})
=============================================================================
