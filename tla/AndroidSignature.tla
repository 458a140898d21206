-------------------------- MODULE AndroidSignature --------------------------
(***************************************************************************)
(* APK signature schemes v2, v3 and v3.1                                    *)
(* (libarchive_oxide-package/src/android_signature.rs): finding the signing *)
(* block, verifying its signers, the proof of rotation between their        *)
(* certificates, the SDK ranges they are meant for, and the digests of the  *)
(* package they sign.                                                       *)
(*                                                                         *)
(* The layout of the file is kept in numbers; certificates, keys and the    *)
(* digested bytes are names of small sets.  A value made of length-prefixed *)
(* fields carries `framed`: its fields fill it exactly.                     *)
(***************************************************************************)
EXTENDS PackageFindings

CONSTANTS
  MaxApkSigners,       \* MAX_SIGNERS
  MaxApkRecords,       \* MAX_RECORDS
  MaxApkCertificates,  \* MAX_CERTIFICATES
  MaxApkPairs,         \* MAX_PAIRS
  MaxLineageLevels,    \* MAX_LINEAGE_LEVELS
  VerityBlock          \* VERITY_BLOCK_SIZE

ASSUME AndroidSignatureAssumption ==
  {MaxApkSigners, MaxApkRecords, MaxApkCertificates, MaxApkPairs, MaxLineageLevels,
   VerityBlock} \subseteq Nat \ {0}

Schemes == {"v2", "v3", "v3.1"}
HasSdkRange(scheme) == scheme \in {"v3", "v3.1"}

(* Failure::code. *)
AndroidFailureCode(failure) ==
  CASE failure = "Invalid"     -> "InvalidSignatureMetadata"
    [] failure = "Mismatch"    -> "SignatureMismatch"
    [] failure = "Unsupported" -> "UnsupportedSignatureAlgorithm"
    [] failure = "Resource"    -> "SignatureResourceLimit"
    [] failure = "Read"        -> "IntegrityReadFailure"

-----------------------------------------------------------------------------
(* SignatureAlgorithm::from_id, content_digest, minimum_sdk and the key the *)
(* algorithm is for.  Content digests are ordered as ContentDigestKind.     *)
AlgorithmNames ==
  {"RsaPssSha256", "RsaPssSha512", "RsaPkcs1Sha256", "RsaPkcs1Sha512", "EcdsaSha256",
   "EcdsaSha512", "DsaSha256", "VerityRsaSha256", "VerityEcdsaSha256", "VerityDsaSha256"}

ChunkedSha256 == 1
VeritySha256 == 2
ChunkedSha512 == 3

ContentDigest(id) ==
  CASE id \in {"RsaPssSha512", "RsaPkcs1Sha512", "EcdsaSha512"} -> ChunkedSha512
    [] id \in {"VerityRsaSha256", "VerityEcdsaSha256", "VerityDsaSha256"} -> VeritySha256
    [] OTHER -> ChunkedSha256

AndroidN == 24
AndroidP == 28
AndroidT == 33
MaxSdk == 2147483647

MinimumSdk(id) == IF ContentDigest(id) = VeritySha256 THEN AndroidP ELSE AndroidN

(* SignatureAlgorithm::verifier and validate_key_support.                   *)
UsesRsa(id) == id \in {"RsaPssSha256", "RsaPssSha512", "RsaPkcs1Sha256", "RsaPkcs1Sha512",
                       "VerityRsaSha256"}

Verifier(id, key) ==
  IF id \in {"DsaSha256", "VerityDsaSha256"} THEN "Unsupported"
  ELSE IF key = "unknown" THEN "Unsupported"
  ELSE IF UsesRsa(id)
       THEN CASE key = "rsa" -> "ok"
              [] key = "rsa-short" -> "Unsupported"
              [] OTHER -> "Invalid"
       ELSE IF key # "ec" THEN "Invalid"
       ELSE IF id = "EcdsaSha512" THEN "Unsupported" ELSE "ok"

-----------------------------------------------------------------------------
(* locate_zip_sections. *)
LocateZipSections(apk) ==
  FirstFailure(<<Check(apk.readable, "Read"),
                 Check(apk.eocd, "Invalid"),
                 Check(apk.zip64 # "locator", "Unsupported"),
                 Check(~apk.multiDisk, "Invalid"),
                 Check(apk.zip64 # "sentinel", "Unsupported"),
                 Check(apk.central + apk.centralSize = apk.eocdOffset, "Invalid")>>)

(* signing_region_length. *)
FooterSize == 24
RegionLength(apk) == apk.trailing - FooterSize

(* parse_id_value_pairs: only the three known ids may not repeat.           *)
ParsePair(apk, position) ==
  LET pair == apk.pairs[position]
  IN  FirstFailure(
        <<Check(position <= MaxApkPairs, "Resource"),
          Check(pair.length >= 4 /\ pair.fits, "Invalid"),
          Check(pair.id \in Schemes =>
                  \A before \in 1..position - 1 : apk.pairs[before].id # pair.id, "Invalid")>>)

ParseIdValuePairs(apk) ==
  FirstFailure([position \in DOMAIN apk.pairs |-> ParsePair(apk, position)])

(* locate_signing_block. *)
BlockStart(apk) == apk.central - (apk.trailing + 8)

LocateSigningBlock(apk, limits) ==
  FirstFailure(<<LocateZipSections(apk),
                 Check(apk.central >= FooterSize, "Invalid"),
                 Check(apk.magic, "Invalid"),
                 Check(apk.trailing >= FooterSize, "Invalid"),
                 Check(BlockStart(apk) >= 0, "Invalid"),
                 Check(apk.leading = apk.trailing, "Invalid"),
                 Check(RegionLength(apk) <= limits.metadata, "Resource"),
                 ParseIdValuePairs(apk)>>)

(* The value of a scheme in the block, and the schemes that are present.    *)
Present(apk) == {pair.id : pair \in Range(apk.pairs)} \cap Schemes
SchemeValue(apk, scheme) ==
  apk.pairs[SelectInSeq(apk.pairs, LAMBDA pair : pair.id = scheme)].value

-----------------------------------------------------------------------------
(* select_signatures: for every SDK that introduced an algorithm the signer *)
(* uses, the strongest of the algorithms it introduced; an earlier one      *)
(* wins a tie.                                                              *)
Usable(signer, maximum) ==
  {i \in DOMAIN signer.signatures :
     /\ signer.signatures[i].id \in AlgorithmNames
     /\ MinimumSdk(signer.signatures[i].id) <= maximum}

StrongestOf(signer, candidates) ==
  LET kind(i) == ContentDigest(signer.signatures[i].id)
  IN  CHOOSE i \in candidates :
        \A j \in candidates : kind(j) < kind(i) \/ (kind(j) = kind(i) /\ i <= j)

SelectSignatures(signer, maximum) ==
  LET usable == Usable(signer, maximum)
      introduced(sdk) == {i \in usable : MinimumSdk(signer.signatures[i].id) = sdk}
  IN  {StrongestOf(signer, introduced(sdk)) :
         sdk \in {MinimumSdk(signer.signatures[i].id) : i \in usable}}

SelectFailure(signer, minimum, maximum) ==
  LET usable == Usable(signer, maximum)
  IN  Check(\E i \in usable : MinimumSdk(signer.signatures[i].id) <= minimum, "Unsupported")

(* validate_sdk_range. *)
ValidateSdkRange(range) ==
  Check(range.max <= MaxSdk /\ range.min <= range.max /\ range.max >= AndroidP, "Invalid")

(* parse_signature_records and parse_digest_records.                        *)
ParseRecords(records) ==
  FirstFailure(<<Check(Len(records) <= MaxApkRecords, "Resource"),
                 Check(Distinct([r \in DOMAIN records |-> records[r].id]), "Invalid"),
                 Check(records # << >>, "Invalid")>>)

(* parse_first_certificate: every certificate must parse, the first signs.  *)
ParseCertificates(signer) ==
  FirstFailure(<<Check(Len(signer.certificates) <= MaxApkCertificates, "Resource"),
                 Check("malformed" \notin {c.id : c \in Range(signer.certificates)}, "Invalid"),
                 Check(signer.certificates # << >>, "Invalid")>>)

(* The certificate that signs; a signer without one is refused.             *)
SigningCertificate(signer) ==
  IF signer.certificates = << >>
  THEN [id |-> "malformed", key |-> "unknown"] ELSE signer.certificates[1]

(* The signature loop of verify_signer. *)
VerifySelected(signer, selected) ==
  LET certificate == SigningCertificate(signer)
      one(i) == FirstFailure(<<Verifier(signer.signatures[i].id, certificate.key),
                               Check(signer.signatures[i].good, "Mismatch")>>)
      order  == SetToSortSeq(selected, LAMBDA i, j : i < j)
  IN  FirstFailure([k \in DOMAIN order |-> one(order[k])])

(* collect_content_digests: the digests of the selected kinds.              *)
SelectedKinds(signer, selected) == {ContentDigest(signer.signatures[i].id) : i \in selected}

KnownDigests(signer, kinds) ==
  {d \in Range(signer.digests) : d.id \in AlgorithmNames /\ ContentDigest(d.id) \in kinds}

CollectContentDigests(signer, kinds) ==
  LET known == KnownDigests(signer, kinds)
  IN  Check(\A d \in known : /\ d.sized
                             /\ \A e \in known : ContentDigest(d.id) = ContentDigest(e.id)
                                                   => d.of = e.of, "Invalid")

-----------------------------------------------------------------------------
(* verify_proof_of_rotation: one level of the lineage, after the levels     *)
(* before it.                                                               *)
LineageLevel(lineage, position) ==
  LET level  == lineage.levels[position]
      before == lineage.levels[position - 1]
  IN  FirstFailure(
        <<Check(level.framed /\ level.certificate # "malformed", "Invalid"),
          Check(\A p \in 1..position - 1 :
                  lineage.levels[p].certificate # level.certificate, "Invalid"),
          IF position = 1 THEN "ok"
          ELSE FirstFailure(
                 <<Check(before.next = level.signedWith, "Mismatch"),
                   Check(before.next \in AlgorithmNames, "Unsupported"),
                   Verifier(before.next, before.key),
                   Check(level.good, "Mismatch")>>),
          Check(level.next \in AlgorithmNames \cup {"none"}, "Unsupported")>>)

Terminal(lineage) ==
  IF lineage.levels = << >> THEN "malformed" ELSE Last(lineage.levels).certificate

VerifyProofOfRotationUnchained(lineage, certificate) ==
  FirstFailure(<<Check(lineage.version, "Invalid"),
                 Check(lineage.levels # << >>, "Invalid"),
                 Check(Terminal(lineage) = certificate, "Mismatch")>>)
VerifyProofOfRotation(lineage, certificate) ==
  FirstFailure(<<Check(lineage.version, "Invalid"),
                 Check(Len(lineage.levels) <= MaxLineageLevels, "Resource"),
                 FirstFailure([p \in DOMAIN lineage.levels |-> LineageLevel(lineage, p)]),
                 Check(lineage.levels # << >>, "Invalid"),
                 Check(Terminal(lineage) = certificate, "Mismatch")>>)

(* check_attributes: one attribute of a signer.                             *)
NamedScheme(reference) ==
  CASE reference = 2 -> {"v2"} [] reference = 3 -> {"v3"} [] reference = 31 -> {"v3.1"}
    [] OTHER -> {}

CheckAttribute(signer, scheme, present, position) ==
  LET attribute == signer.attributes[position]
      id == attribute.id
  IN  FirstFailure(
        <<Check(position <= MaxApkRecords, "Resource"),
          Check(\A b \in 1..position - 1 : signer.attributes[b].id # id, "Invalid"),
          CASE scheme = "v2" /\ id = "stripping" ->
                 FirstFailure(<<Check(attribute.sized, "Invalid"),
                                Check(NamedScheme(attribute.value) \subseteq present,
                                      "Mismatch")>>)
            [] HasSdkRange(scheme) /\ id = "lineage" ->
                 VerifyProofOfRotation(attribute.lineage, SigningCertificate(signer).id)
            [] scheme = "v3" /\ id = "rotation-min-sdk" ->
                 Check(attribute.sized /\ attribute.value <= MaxSdk, "Invalid")
            [] scheme = "v3.1" /\ id = "rotation-min-sdk" -> "Invalid"
            [] HasSdkRange(scheme) /\ id = "dev-release" -> Check(attribute.sized, "Invalid")
            [] OTHER -> "ok">>)

CheckAttributes(signer, scheme, present) ==
  FirstFailure([p \in DOMAIN signer.attributes |-> CheckAttribute(signer, scheme, present, p)])

(* The attributes of a signer that later checks read.                       *)
Has(signer, id) == \E a \in Range(signer.attributes) : a.id = id
The(signer, id) == CHOOSE a \in Range(signer.attributes) : a.id = id
NoSdk == -1
RotationMinSdk(signer) ==
  IF Has(signer, "rotation-min-sdk") THEN The(signer, "rotation-min-sdk").value ELSE NoSdk
TargetsDevRelease(signer) == Has(signer, "dev-release")

(* effective_lineage: the certificates of the lineage, or the signer's own. *)
EffectiveLineage(signer) ==
  IF Has(signer, "lineage")
  THEN LET levels == The(signer, "lineage").lineage.levels
       IN  [p \in DOMAIN levels |-> levels[p].certificate]
  ELSE <<SigningCertificate(signer).id>>

(* verify_signer. *)
SignerRange(signer, scheme) ==
  IF HasSdkRange(scheme) THEN signer.sdk ELSE [min |-> AndroidN, max |-> MaxSdk]

VerifySigner(signer, scheme, present) ==
  LET range    == SignerRange(signer, scheme)
      selected == SelectSignatures(signer, range.max)
      ids(records) == [r \in DOMAIN records |-> records[r].id]
      ranged   == HasSdkRange(scheme)
  IN  FirstFailure(
        <<Check(signer.framed, "Invalid"),
          IF ranged THEN ValidateSdkRange(signer.sdk) ELSE "ok",
          ParseRecords(signer.signatures),
          IF ranged THEN ValidateSdkRange(signer.signedSdk) ELSE "ok",
          ParseRecords(signer.digests),
          Check(ranged => signer.sdk = signer.signedSdk, "Invalid"),
          Check(ids(signer.signatures) = ids(signer.digests), "Invalid"),
          SelectFailure(signer, range.min, range.max),
          ParseCertificates(signer),
          Check(signer.publicKey = SigningCertificate(signer).id, "Invalid"),
          VerifySelected(signer, selected),
          CheckAttributes(signer, scheme, present),
          CollectContentDigests(signer, SelectedKinds(signer, selected))>>)

-----------------------------------------------------------------------------
(* validate_lineage_extension. *)
ValidateLineageExtension(previous, current) ==
  Check(IsPrefix(EffectiveLineage(previous), EffectiveLineage(current)), "Mismatch")

(* validate_v3_ranges: neighbours in the order of their ranges.             *)
BySdk(signers) ==
  SortSeq(signers, LAMBDA a, b : a.sdk.min < b.sdk.min
                                   \/ (a.sdk.min = b.sdk.min /\ a.sdk.max < b.sdk.max))

ValidateV3Ranges(signers) ==
  LET sorted == BySdk(signers)
      neighbours(previous, current) ==
        FirstFailure(<<Check(\/ previous.sdk.max + 1 = current.sdk.min
                             \/ /\ TargetsDevRelease(current)
                                /\ previous.sdk.max = current.sdk.min, "Invalid"),
                       ValidateLineageExtension(previous, current)>>)
  IN  FirstFailure([p \in 1..Len(sorted) - 1 |-> neighbours(sorted[p], sorted[p + 1])])

(* verify_scheme. *)
VerifyScheme(value, scheme, present) ==
  LET signers == value.signers
      upTo    == SubSeq(signers, 1, Min({MaxApkSigners, Len(signers)}))
  IN  FirstFailure(
        <<Check(value.framed /\ signers # << >>, "Invalid"),
          FirstFailure([s \in DOMAIN upTo |-> VerifySigner(upTo[s], scheme, present)]),
          Check(Len(signers) <= MaxApkSigners, "Resource"),
          IF HasSdkRange(scheme) THEN ValidateV3Ranges(signers) ELSE "ok">>)

VerifyOptionalScheme(apk, scheme) ==
  IF scheme \in Present(apk)
  THEN VerifyScheme(SchemeValue(apk, scheme), scheme, Present(apk))
  ELSE "ok"

SignersOf(apk, scheme) ==
  IF scheme \in Present(apk) THEN SchemeValue(apk, scheme).signers ELSE << >>

(* validate_targeted_rotation: a v3.1 block continues the v3 block where    *)
(* every v3 signer says it does.                                            *)
ValidateTargetedRotation(v3, v31) ==
  LET first  == Head(BySdk(v31))
      last   == Last(BySdk(v3))
      start  == first.sdk.min
      dev    == TargetsDevRelease(first)
  IN  IF v31 = << >>
      THEN Check(\A signer \in Range(v3) : RotationMinSdk(signer) = NoSdk, "Mismatch")
      ELSE IF v3 = << >> THEN "Mismatch"
      ELSE FirstFailure(
             <<Check(start >= AndroidT \/ (dev /\ start + 1 >= AndroidT), "Invalid"),
               Check(\A signer \in Range(v3) : RotationMinSdk(signer) = start, "Mismatch"),
               Check(IF dev THEN last.sdk.max = start ELSE last.sdk.max + 1 = start,
                     "Mismatch"),
               ValidateLineageExtension(last, first),
               Check(Len(EffectiveLineage(first)) >= 2, "Mismatch")>>)

(* verify_signing_schemes. *)
VerifySigningSchemes(apk) ==
  FirstFailure(<<VerifyOptionalScheme(apk, "v3.1"),
                 VerifyOptionalScheme(apk, "v3"),
                 VerifyOptionalScheme(apk, "v2"),
                 Check(Present(apk) # {}, "Unsupported"),
                 ValidateTargetedRotation(SignersOf(apk, "v3"), SignersOf(apk, "v3.1"))>>)

-----------------------------------------------------------------------------
(* Every signer of the block with the scheme it is of, the digests it       *)
(* authenticates and the certificate it signs with.                         *)
Evidence(apk) ==
  UNION {{[scheme |-> scheme, signer |-> signer] : signer \in Range(SignersOf(apk, scheme))} :
           scheme \in Present(apk)}

AuthenticatedDigests(item) ==
  LET selected == SelectSignatures(item.signer, SignerRange(item.signer, item.scheme).max)
  IN  KnownDigests(item.signer, SelectedKinds(item.signer, selected))

Fingerprints(apk) == {SigningCertificate(item.signer).id : item \in Evidence(apk)}

(* compute_chunked_digests and compute_apk_verity_digest: the bytes before  *)
(* the block, the central directory and the EOCD are digested.              *)
SignedLength(apk) == BlockStart(apk) + apk.centralSize + apk.eocdLength

ComputeChunkedDigests(apk, limits) ==
  FirstFailure(<<Check(SignedLength(apk) <= limits.decoded, "Resource"),
                 Check(limits.inFlight > 0, "Resource"),
                 Check(apk.rereadable, "Read")>>)

ComputeApkVerityDigest(apk, limits) ==
  FirstFailure(<<Check(BlockStart(apk) % VerityBlock = 0, "Invalid"),
                 Check((apk.central - BlockStart(apk)) % VerityBlock = 0, "Invalid"),
                 Check(limits.inFlight >= VerityBlock, "Resource"),
                 Check(SignedLength(apk) <= limits.decoded, "Resource"),
                 Check(apk.rereadable, "Read")>>)

NeededKinds(apk) ==
  {ContentDigest(d.id) : d \in Gather(Evidence(apk), AuthenticatedDigests)}

ComputeContentDigests(apk, limits) ==
  FirstFailure(<<IF NeededKinds(apk) \cap {ChunkedSha256, ChunkedSha512} # {}
                 THEN ComputeChunkedDigests(apk, limits) ELSE "ok",
                 IF VeritySha256 \in NeededKinds(apk)
                 THEN ComputeApkVerityDigest(apk, limits) ELSE "ok">>)

(* The digest computed now is the one of the bytes the package has now.     *)
ContentMatches(apk) ==
  \A item \in Evidence(apk) : \A d \in AuthenticatedDigests(item) : d.of = apk.content

(* verify_android_apk_v2_v3 and failed_verification.                        *)
ApkResult(integrity, signature, signers, findings) ==
  [integrity |-> integrity, signature |-> signature, signers |-> signers,
   findings |-> findings]

FailedVerification(failure) ==
  ApkResult("NotEvaluated", IF failure = "Unsupported" THEN "Unsupported" ELSE "Invalid",
            {}, {AndroidFailureCode(failure)})

VerifyAndroidApkV2V3(apk, limits) ==
  LET block   == FirstFailure(<<LocateSigningBlock(apk, limits), VerifySigningSchemes(apk)>>)
      digests == ComputeContentDigests(apk, limits)
  IN  IF block # "ok" THEN FailedVerification(block)
      ELSE IF digests # "ok"
      THEN ApkResult("NotEvaluated", "Verified", Fingerprints(apk),
                     {AndroidFailureCode(digests)})
      ELSE IF ContentMatches(apk)
      THEN ApkResult("Verified", "Verified", Fingerprints(apk), {})
      ELSE ApkResult("Invalid", "Verified", Fingerprints(apk), {"IntegrityMismatch"})

(* build_rotation_evidence: the signers in SDK order, the longest lineage   *)
(* and the SDK at which v3.1 takes over.                                    *)
BuildRotationEvidence(apk) ==
  LET v3  == SignersOf(apk, "v3")
      v31 == SignersOf(apk, "v3.1")
      all == BySdk(v3 \o v31)
      lineages == {EffectiveLineage(s) : s \in {x \in Range(all) : Has(x, "lineage")}}
      longest  == CHOOSE l \in lineages : \A m \in lineages : Len(m) <= Len(l)
  IN  [present |-> lineages # {} \/ v31 # << >>,
       v31     |-> v31 # << >>,
       minSdk  |-> IF v31 = << >> THEN NoSdk ELSE Head(BySdk(v31)).sdk.min,
       dev     |-> v31 # << >> /\ TargetsDevRelease(Head(BySdk(v31))),
       signers |-> [s \in DOMAIN all |-> SigningCertificate(all[s]).id],
       lineage |-> IF lineages = {} THEN << >> ELSE longest]

(* verify_android_apk_v4_bindings: the one signer of v3, or of v2, and the  *)
(* one signer of v3.1 a sidecar has to agree with.                          *)
PrimaryScheme(apk) == IF "v3" \in Present(apk) THEN "v3" ELSE "v2"

VerifyAndroidApkV4Bindings(apk, limits) ==
  FirstFailure(<<LocateSigningBlock(apk, limits),
                 VerifyOptionalScheme(apk, "v2"),
                 VerifyOptionalScheme(apk, "v3"),
                 VerifyOptionalScheme(apk, "v3.1"),
                 Check(Present(apk) \cap {"v2", "v3"} # {}, "Unsupported"),
                 ComputeContentDigests(apk, limits),
                 Check(ContentMatches(apk), "Mismatch"),
                 Check(Len(SignersOf(apk, PrimaryScheme(apk))) = 1, "Mismatch"),
                 Check("v3.1" \in Present(apk) => Len(SignersOf(apk, "v3.1")) = 1,
                       "Mismatch")>>)

-----------------------------------------------------------------------------
(***************************************************************************)
(* APK signature scheme v4                                                  *)
(* (libarchive_oxide-package/src/android_v4_signature.rs): a sidecar file   *)
(* holds the root of a Merkle tree over the whole APK, signed, and must     *)
(* name the signers and digests of the signing block inside the APK.        *)
(***************************************************************************)

CONSTANTS
  MaxSigningInfosSize,   \* MAX_SIGNING_INFOS_SIZE
  MaxHeaderSize,         \* INCFS_MAX_SIGNATURE_SIZE
  MaxSigningInfoBlocks,  \* MAX_SIGNING_INFO_BLOCKS
  MaxSaltSize            \* MAX_SALT_SIZE

ASSUME AndroidV4Assumption ==
  {MaxSigningInfosSize, MaxHeaderSize, MaxSigningInfoBlocks, MaxSaltSize} \subseteq Nat

(* Failure::code, signature_dimension and integrity_dimension.              *)
V4FailureCode(failure) ==
  CASE failure = "Invalid"              -> "InvalidSignatureSidecar"
    [] failure = "Binding"              -> "SignatureSidecarMismatch"
    [] failure = "Signature"            -> "SignatureMismatch"
    [] failure = "UnsupportedSignature" -> "UnsupportedSignatureAlgorithm"
    [] failure = "UnsupportedIntegrity" -> "UnsupportedIntegrityAlgorithm"
    [] failure = "Integrity"            -> "IntegrityMismatch"
    [] failure = "Resource"             -> "SignatureResourceLimit"
    [] failure = "Read"                 -> "IntegrityReadFailure"

V4SignatureDimension(failure) ==
  CASE failure \in {"UnsupportedSignature", "UnsupportedIntegrity"} -> "Unsupported"
    [] failure = "Integrity" -> "Verified"
    [] OTHER -> "Invalid"

V4IntegrityDimension(failure) ==
  CASE failure = "Integrity" -> "Invalid"
    [] failure = "UnsupportedIntegrity" -> "Unsupported"
    [] OTHER -> "NotEvaluated"

(* map_binding_failure and map_certificate_failure.                         *)
MapBindingFailure(failure) ==
  CASE failure = "Mismatch" -> "Binding"
    [] failure = "Unsupported" -> "UnsupportedSignature"
    [] OTHER -> failure
MapCertificateFailure(failure) ==
  CASE failure = "Mismatch" -> "Signature"
    [] failure = "Unsupported" -> "UnsupportedSignature"
    [] OTHER -> failure

-----------------------------------------------------------------------------
(* measure_apk. *)
ApkSize(apk) == apk.eocdOffset + apk.eocdLength

MeasureApk(apk, limits) ==
  FirstFailure(<<Check(apk.readable, "Read"),
                 Check(ApkSize(apk) > 0, "Invalid"),
                 Check(ApkSize(apk) <= limits.decoded, "Resource")>>)

(* calculate_level_layout: the size of the serialized tree; ApkDigest has   *)
(* its levels.                                                              *)
DigestSize == 32
TreeSize(size) ==
  LET digests(n) == ((n + VerityBlock - 1) \div VerityBlock) * DigestSize
      pages(n) == (n + VerityBlock - 1) \div VerityBlock
      total[n \in 1..size + DigestSize] ==
        pages(digests(n)) * VerityBlock
          + (IF digests(n) <= VerityBlock THEN 0 ELSE total[digests(n)])
  IN  total[size]

(* read_bounded_sidecar: no more is read than a header and a tree may take. *)
ReadBoundedSidecar(sidecar, tree, limits) ==
  LET readable == IF tree < limits.metadata THEN tree ELSE limits.metadata
  IN  FirstFailure(<<Check(sidecar.readable, "Read"),
                     Check(sidecar.size <= MaxHeaderSize + 4 + readable, "Resource")>>)

(* parse_hashing_info. *)
ParseHashingInfo(hashing) ==
  FirstFailure(<<Check(hashing.supported, "UnsupportedIntegrity"),
                 Check(hashing.salt <= MaxSaltSize /\ hashing.framed, "Invalid")>>)

(* parse_signing_info and parse_signing_infos.                              *)
ParseSigningInfo(info) == Check(info.framed, "Invalid")

ParseSigningInfoBlock(sidecar, position) ==
  LET block == sidecar.blocks[position]
  IN  FirstFailure(<<Check(position <= MaxSigningInfoBlocks, "Resource"),
                     Check(\A b \in 1..position - 1 : sidecar.blocks[b].id # block.id,
                           "Invalid"),
                     ParseSigningInfo(block.info)>>)

(* parse_sidecar. *)
ParseSidecar(sidecar, tree, limits) ==
  FirstFailure(<<Check(sidecar.version /\ sidecar.framed, "Invalid"),
                 Check(sidecar.infosSize <= MaxSigningInfosSize, "Resource"),
                 Check(sidecar.headerSize <= MaxHeaderSize, "Resource"),
                 IF sidecar.treeSize = 0 THEN "ok"
                 ELSE FirstFailure(<<Check(sidecar.treeSize = tree, "Invalid"),
                                     Check(sidecar.treeSize <= limits.metadata, "Resource")>>),
                 ParseHashingInfo(sidecar.hashing),
                 ParseSigningInfo(sidecar.primary),
                 FirstFailure([b \in DOMAIN sidecar.blocks |->
                                 ParseSigningInfoBlock(sidecar, b)])>>)

Revision(sidecar) == IF sidecar.blocks = << >> THEN "v4.0" ELSE "v4.1"

-----------------------------------------------------------------------------
(* verify_signing_info: the signature is over build_signed_data, which is   *)
(* the size of the APK, the hashing info and this signing info.             *)
VerifySigningInfo(apk, sidecar, info) ==
  FirstFailure(<<Check(info.certificate # "malformed", "Invalid"),
                 Check(info.publicKey = info.certificate, "Invalid"),
                 Check(info.algorithm \in AlgorithmNames, "UnsupportedSignature"),
                 MapCertificateFailure(Verifier(info.algorithm, info.key)),
                 Check(info.over = [size |-> ApkSize(apk), root |-> sidecar.hashing.root,
                                    digest |-> info.digest], "Signature")>>)

(* bind_one: the sidecar names the certificate of the block's signer and    *)
(* the strongest digest it authenticates (best_v4_digest).                  *)
BestV4Digest(item) ==
  LET digests == AuthenticatedDigests(item)
  IN  CHOOSE d \in digests :
        \A e \in digests : ContentDigest(e.id) <= ContentDigest(d.id)

BindOne(info, item) ==
  FirstFailure(<<Check(info.certificate = SigningCertificate(item.signer).id, "Binding"),
                 Check(AuthenticatedDigests(item) # {}
                         /\ info.digest = [of |-> BestV4Digest(item).of,
                                           kind |-> ContentDigest(BestV4Digest(item).id)],
                       "Binding")>>)

(* bind_signing_infos. *)
Binding(apk, scheme) == [scheme |-> scheme, signer |-> SignersOf(apk, scheme)[1]]

BindSigningInfos(apk, sidecar) ==
  LET blocks == sidecar.blocks
      rotated == "v3.1" \in Present(apk)
      primary == BindOne(sidecar.primary, Binding(apk, PrimaryScheme(apk)))
  IN  IF primary # "ok" THEN primary
      ELSE IF ~rotated THEN Check(blocks = << >>, "Binding")
      ELSE IF Len(blocks) = 1 /\ blocks[1].id = "v3.1"
           THEN BindOne(blocks[1].info, Binding(apk, "v3.1"))
           ELSE "Binding"

(* build_verity_tree and the comparisons with the sidecar's root and tree.  *)
BuildTree(apk, limits) ==
  FirstFailure(<<Check(TreeSize(ApkSize(apk)) <= limits.metadata, "Resource"),
                 Check(limits.inFlight > 0, "Resource"),
                 Check(apk.rereadable, "Read")>>)

V4Certificates(infos) == {info.certificate : info \in infos}

(* verify_android_apk_v4 and failed.                                        *)
V4Result(revision, failure, signers) ==
  [revision |-> revision,
   integrity |-> IF failure = "ok" THEN "Verified" ELSE V4IntegrityDimension(failure),
   signature |-> IF failure = "ok" THEN "Verified" ELSE V4SignatureDimension(failure),
   signers |-> signers,
   findings |-> IF failure = "ok" THEN {} ELSE {V4FailureCode(failure)}]

VerifyAndroidApkV4(apk, sidecar, limits) ==
  LET sized    == MeasureApk(apk, limits)
      tree     == IF sized = "ok" THEN TreeSize(ApkSize(apk)) ELSE 0
      parsed   == FirstFailure(<<sized, ReadBoundedSidecar(sidecar, tree, limits),
                                 ParseSidecar(sidecar, tree, limits)>>)
      bindings == MapBindingFailure(VerifyAndroidApkV4Bindings(apk, limits))
      primary  == VerifySigningInfo(apk, sidecar, sidecar.primary)
      blocks   == [b \in DOMAIN sidecar.blocks |->
                     VerifySigningInfo(apk, sidecar, sidecar.blocks[b].info)]
      firstBad == SelectInSeq(blocks, Fails)
      upTo(n)  == {sidecar.primary} \cup {sidecar.blocks[b].info : b \in 1..n}
      all      == V4Certificates(upTo(Len(blocks)))
      bound    == BindSigningInfos(apk, sidecar)
      built    == FirstFailure(<<BuildTree(apk, limits),
                                 Check(sidecar.hashing.root = apk.whole, "Integrity"),
                                 Check(sidecar.treeSize = 0 \/ sidecar.tree = apk.whole,
                                       "Integrity")>>)
      revision == Revision(sidecar)
  IN  CASE parsed # "ok"   -> V4Result("none", parsed, {})
        [] parsed = "ok" /\ bindings # "ok" -> V4Result(revision, bindings, {})
        [] parsed = "ok" /\ bindings = "ok" /\ primary # "ok" ->
             V4Result(revision, primary, {})
        [] parsed = "ok" /\ bindings = "ok" /\ primary = "ok" /\ firstBad # 0 ->
             V4Result(revision, blocks[firstBad], V4Certificates(upTo(firstBad - 1)))
        [] OTHER -> V4Result(revision, FirstFailure(<<bound, built>>), all)
=============================================================================
