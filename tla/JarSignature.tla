---------------------------- MODULE JarSignature ----------------------------
(***************************************************************************)
(* JAR signatures, also APK signature scheme v1                             *)
(* (libarchive_oxide-package/src/jar_signature.rs): signature files (.SF)   *)
(* that authenticate the manifest or single sections of it, and the CMS     *)
(* blocks (.RSA, .DSA, .EC) that authenticate the signature files.          *)
(*                                                                         *)
(* The bodies of the signature members are records of what the code reads   *)
(* out of them.  Bytes that are only ever digested are numbers.             *)
(***************************************************************************)
EXTENDS ZipIntegrity

CONSTANTS
  MaxSignatureMembers,  \* MAX_SIGNATURE_MEMBERS
  MaxSignatureBlocks,   \* MAX_SIGNATURE_BLOCKS
  MaxCmsSigners,        \* MAX_CMS_SIGNERS
  MaxCmsCertificates,   \* MAX_CMS_CERTIFICATES
  MaxCmsDerNodes,       \* MAX_CMS_DER_NODES
  MaxCmsNesting         \* MAX_CMS_NESTING and the configured nesting limit

ASSUME JarSignatureAssumption ==
  {MaxSignatureMembers, MaxSignatureBlocks, MaxCmsSigners, MaxCmsCertificates,
   MaxCmsDerNodes, MaxCmsNesting} \subseteq Nat

(* SignatureFailure::code. *)
SignatureFailureCode(failure) ==
  CASE failure = "InvalidMetadata" -> "InvalidSignatureMetadata"
    [] failure = "Mismatch"        -> "SignatureMismatch"
    [] failure = "Unsupported"     -> "UnsupportedSignatureAlgorithm"
    [] failure = "ResourceLimit"   -> "SignatureResourceLimit"

-----------------------------------------------------------------------------
(* preflight_der: one header of the walk.  der.at[c] is what the bytes at   *)
(* offset c decode to as a tag and a length: `header` bytes long, or a      *)
(* failure of parse_der_tag or parse_der_length.                            *)
DerStart == [cursor |-> 0, ends |-> << >>, nodes |-> 0, failure |-> "ok"]

PopEnded(state) ==
  [state EXCEPT !.ends = SelectSeq(@, LAMBDA end : end # state.cursor)]

DerNode(state, der) ==
  LET open   == PopEnded(state)
      node   == der.at[state.cursor]
      start  == state.cursor + node.header
      end    == start + node.length
      parent == IF open.ends = << >> THEN der.length ELSE Last(open.ends)
      failed(failure) == [open EXCEPT !.nodes = @ + 1, !.failure = failure]
  IN  IF state.nodes + 1 > MaxCmsDerNodes THEN failed("ResourceLimit")
      ELSE IF node.failure # "ok" THEN failed(node.failure)
      ELSE IF end > parent \/ end > der.length THEN failed("InvalidMetadata")
      ELSE IF node.constructed /\ node.length # 0
           THEN IF Len(open.ends) >= MaxCmsNesting
                THEN failed("ResourceLimit")
                ELSE [open EXCEPT !.nodes = @ + 1, !.cursor = start,
                                  !.ends = Append(@, end)]
           ELSE [open EXCEPT !.nodes = @ + 1, !.cursor = end]

PreflightDer(der) ==
  LET walk == FoldLeft(LAMBDA state, turn :
                         IF state.failure # "ok" \/ state.cursor >= der.length
                         THEN state ELSE DerNode(state, der),
                       DerStart, [turn \in 1..der.length |-> turn])
  IN  IF der.length = 0 THEN "InvalidMetadata"
      ELSE IF walk.failure # "ok" THEN walk.failure
      ELSE IF PopEnded(walk).ends # << >> THEN "InvalidMetadata"
      ELSE "ok"

-----------------------------------------------------------------------------
(* verify_signer_algorithms. *)
VerifySignerAlgorithms(signer) ==
  IF signer.algorithm = "weak" THEN "Unsupported" ELSE "ok"

(* The signature of one signer over the signature file `sf`.  A signature   *)
(* without attributes covers the encapsulated content or the file itself;   *)
(* with attributes it covers them, and their message digest covers the file.*)
SignerVerifies(block, signer, sf) ==
  /\ signer.valid
  /\ (signer.attributes \/ block.content = Malformed) => signer.over = sf.id

(* The certificate the signer names: exactly one of the block's.            *)
SignerCertificate(signer) ==
  IF signer.certificates = {} THEN "InvalidMetadata"
  ELSE IF Cardinality(signer.certificates) # 1 THEN "InvalidMetadata"
  ELSE "ok"

(* verify_cms_inner.  content is Malformed when nothing is encapsulated.    *)
VerifyCmsInner(block, sf) ==
  LET of(signer) ==
        FirstFailure(<<VerifySignerAlgorithms(signer),
                       IF SignerVerifies(block, signer, sf) THEN "ok" ELSE "Mismatch",
                       IF signer.identified THEN "ok" ELSE "Unsupported",
                       SignerCertificate(signer)>>)
  IN  IF block.parse # "ok" THEN block.parse
      ELSE IF block.certificates > MaxCmsCertificates THEN "ResourceLimit"
      ELSE IF block.signers = << >> THEN "InvalidMetadata"
      ELSE IF Len(block.signers) > MaxCmsSigners THEN "ResourceLimit"
      ELSE IF block.content \notin {Malformed, sf.id} THEN "Mismatch"
      ELSE FirstFailure([s \in DOMAIN block.signers |-> of(block.signers[s])])

(* verify_cms: the DER preflight first, and a panic of the CMS parser is    *)
(* a failure to parse.                                                      *)
VerifyCms(block, sf) ==
  FirstFailure(<<PreflightDer(block.der), VerifyCmsInner(block, sf)>>)

-----------------------------------------------------------------------------
(* verify_digest_attributes, for the digests of one scope over the bytes    *)
(* `raw`.                                                                   *)
DigestCheck(digests, raw) ==
  LET known == {digest \in digests : JarDigestKind(digest) > 0}
  IN  [failure     |-> IF \E d \in known : d.of = Malformed THEN "InvalidMetadata" ELSE "ok",
       supported   |-> known # {},
       mismatched  |-> \E d \in known : d.of # raw,
       unsupported |-> digests \ known # {}]

(* verify_signature_main: the failure of the main section.  The outcome for *)
(* the whole manifest is read off WholeCheck.                               *)
WholeCheck(sf, manifest) == DigestCheck(sf.whole, manifest.raw)

VerifySignatureMain(sf, manifest) ==
  LET whole == WholeCheck(sf, manifest)
      main  == DigestCheck(sf.main, manifest.mainRaw)
  IN  FirstFailure(<<whole.failure, main.failure,
                     IF main.mismatched THEN "Mismatch" ELSE "ok",
                     IF ~main.supported /\ main.unsupported THEN "Unsupported" ELSE "ok">>)

(* manifest_sections_by_name. *)
ManifestSectionsByName(manifest) ==
  IF Distinct([s \in DOMAIN manifest.sections |-> manifest.sections[s].name])
  THEN "ok" ELSE "InvalidMetadata"

(* verify_signature_sections, for the section at one position.              *)
VerifySignatureSection(sf, manifest, position) ==
  LET section  == sf.sections[position]
      repeated == \E before \in 1..position - 1 : sf.sections[before].name = section.name
      at       == SelectInSeq(manifest.sections, LAMBDA s : s.name = section.name)
      check    == DigestCheck(section.digests, manifest.sections[at].raw)
  IN  IF repeated \/ at = 0 THEN "InvalidMetadata"
      ELSE IF check.failure # "ok" THEN check.failure
      ELSE IF check.mismatched THEN "Mismatch"
      ELSE IF check.supported THEN "ok"
      ELSE IF check.unsupported THEN "Unsupported"
      ELSE "InvalidMetadata"

(* validate_signature_file_layout and validate_manifest_section_layout.     *)
ValidateSignatureFileLayout(sf) ==
  IF sf.version /\ ~sf.mainHasName THEN "ok" ELSE "InvalidMetadata"
ValidateManifestSectionLayout(manifest) ==
  IF manifest.version THEN "ok" ELSE "InvalidMetadata"

(* verify_signature_file: a failure, or what the file authenticates.        *)
VerifySignatureFile(sf, manifest) ==
  LET whole    == WholeCheck(sf, manifest)
      covers   == whole.supported /\ ~whole.mismatched
      sections == [s \in DOMAIN sf.sections |-> VerifySignatureSection(sf, manifest, s)]
      covered  == {sf.sections[s].name : s \in DOMAIN sf.sections}
      nothing  == IF covers \/ covered # {} THEN "ok"
                  ELSE IF whole.supported THEN "Mismatch" ELSE "Unsupported"
  IN  [failure |-> FirstFailure(
                     <<IF sf.parses THEN "ok" ELSE "InvalidMetadata",
                       IF ManifestParses(manifest) THEN "ok" ELSE "InvalidMetadata",
                       ValidateSignatureFileLayout(sf),
                       ValidateManifestSectionLayout(manifest),
                       VerifySignatureMain(sf, manifest),
                       ManifestSectionsByName(manifest),
                       FirstFailure(sections),
                       nothing>>),
       whole |-> covers, covered |-> covered]

(* required_apk_signature_schemes: the ids of X-Android-APK-Signed, zero    *)
(* for one that is empty or no number in range.                             *)
RequiredApkSignatureSchemes(sf) ==
  IF Malformed \in Range(sf.apk) \/ ~Distinct(sf.apk)
  THEN [failure |-> "InvalidMetadata", required |-> {}]
  ELSE [failure |-> "ok", required |-> Range(sf.apk) \cap {2, 3}]

(* verify_apk_signature_references. *)
VerifyApkSignatureReferences(sf, detected) ==
  LET schemes == RequiredApkSignatureSchemes(sf)
  IN  IF schemes.failure # "ok" THEN schemes.failure
      ELSE IF schemes.required \subseteq detected THEN "ok" ELSE "Mismatch"

-----------------------------------------------------------------------------
(* group_signature_members: the members of one signer base.                 *)
SignatureBases(entries) ==
  {entry.name.id : entry \in {e \in Range(entries) : e.name.class \in {"sf", "block"}}}
SignatureFiles(entries, base) ==
  SelectSeq(entries, LAMBDA e : e.name.class = "sf" /\ e.name.id = base)
SignatureBlocks(entries, base) ==
  SelectSeq(entries, LAMBDA e : e.name.class = "block" /\ e.name.id = base)

(* verify_signature_group.  `schemes` is None for a JAR and the detected    *)
(* APK schemes for an APK.                                                  *)
NoSchemes == {0}

NoGroup == [failures |-> {"InvalidMetadata"}, signers |-> {}, blocks |-> 0, groups |-> {}]

(* What the group amounts to, given its verified file and blocks.           *)
GroupResult(base, sf, blocks, present, schemes, file, cms) ==
  LET good  == {b \in DOMAIN blocks : cms[b] = "ok"}
      valid == present /\ file.failure = "ok"
      apk   == IF good # {} /\ valid /\ schemes # NoSchemes
               THEN VerifyApkSignatureReferences(sf, schemes) ELSE "ok"
  IN  [failures |-> ({apk} \cup Range(cms)
                      \cup (IF present THEN {file.failure} ELSE {})) \ {"ok"},
       signers  |-> UNION {UNION {signer.certificates :
                                    signer \in Range(blocks[b].body.signers)} : b \in good},
       blocks   |-> Cardinality(good),
       groups   |-> IF good # {} /\ valid
                    THEN {[base |-> base, whole |-> file.whole, covered |-> file.covered]}
                    ELSE {}]

VerifySignatureGroup(entries, base, manifest, schemes) ==
  LET files  == SignatureFiles(entries, base)
      blocks == SignatureBlocks(entries, base)
      sf     == files[1].body
  IN  IF \/ base = "?"  \* valid_signer_base
         \/ Len(files) # 1 \/ blocks = << >>
      THEN NoGroup
      ELSE GroupResult(base, sf, blocks, manifest # NoEntry, schemes,
                       VerifySignatureFile(sf, manifest.body),
                       [b \in DOMAIN blocks |-> VerifyCms(blocks[b].body, sf)])

(* apply_signature_coverage: every payload entry is authenticated, by every *)
(* signer of an APK and by some signer of a JAR.                            *)
Authenticates(group, name) == group.whole \/ name \in group.covered

ApplySignatureCoverage(entries, groups, uniform) ==
  LET payload == {e.name : e \in {x \in Range(entries) : IsJarPayload(x)}}
      covered == IF uniform
                 THEN \A name \in payload : \A group \in groups : Authenticates(group, name)
                 ELSE \/ \E group \in groups : group.whole
                      \/ \A name \in payload : \E group \in groups : name \in group.covered
  IN  IF groups = {} \/ covered THEN {} ELSE {"Mismatch"}

(* apply_integrity_verdict. *)
ApplyIntegrityVerdict(integrity) ==
  CASE integrity = "Verified"    -> {}
    [] integrity = "Unsupported" -> {"Unsupported"}
    [] integrity = "Invalid"     -> {"Mismatch"}
    [] OTHER                     -> {"InvalidMetadata"}

(* verify_jar_signatures, from the results of the groups on.  A payload     *)
(* digest nobody could compute is no finding of the signatures.             *)
SignatureFailures(entries, results, integrity, schemes) ==
  (IF FirstOfClass(entries, "manifest") = NoEntry THEN {"InvalidMetadata"} ELSE {})
    \cup Gather(results, LAMBDA r : r.failures)
    \cup ApplySignatureCoverage(entries, Gather(results, LAMBDA r : r.groups),
                                schemes # NoSchemes)
    \cup (IF integrity = "Unsupported" THEN {} ELSE ApplyIntegrityVerdict(integrity))

SignatureReport(results, failures, integrity) ==
  Signed(IF failures \ {"Unsupported"} # {} THEN "Invalid"
         ELSE IF failures # {} \/ integrity = "Unsupported" THEN "Unsupported"
         ELSE IF \A r \in results : r.blocks = 0 THEN "Invalid"
         ELSE "Verified",
         {SignatureFailureCode(f) : f \in failures},
         Gather(results, LAMBDA r : r.signers))

GroupsReport(entries, results, integrity, schemes) ==
  SignatureReport(results, SignatureFailures(entries, results, integrity, schemes), integrity)

VerifyJarSignatures(entries, integrity, schemes) ==
  LET bases    == SignatureBases(entries)
      members  == SelectSeq(entries, LAMBDA e : e.name.class \in {"sf", "block"})
      cmsCount == Len(SelectSeq(entries, LAMBDA e : e.name.class = "block"))
      manifest == FirstOfClass(entries, "manifest")
  IN  IF bases = {} THEN Signed("NotPresent", {}, {})
      ELSE IF Len(members) > MaxSignatureMembers \/ cmsCount > MaxSignatureBlocks
      THEN Signed("Invalid", {"SignatureResourceLimit"}, {})
      ELSE GroupsReport(entries,
                        {VerifySignatureGroup(entries, base, manifest, schemes) : base \in bases},
                        integrity, schemes)
=============================================================================
