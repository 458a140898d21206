--------------------------- MODULE PackageVerifier ---------------------------
(***************************************************************************)
(* PackageVerifier with the verifiers it calls                              *)
(* (libarchive_oxide-package/src/verification.rs and integrity.rs): the     *)
(* steps of PackageReport, each taken with the result the modelled verifier *)
(* computes for the package at hand.                                        *)
(*                                                                         *)
(* A shipment names a package; PackageOf gives the record the verifiers     *)
(* read.  Every rewind of the reader may succeed or fail.                   *)
(***************************************************************************)
EXTENDS PackageReport, AndroidSignature, MsixBlockMap, AlpineApk, RpmPackage

CONSTANTS
  Shipments,         \* names of packages: [profile, faults]
  TrustPolicies,     \* the policies a caller may set
  PackageOf(_)       \* what the reader of a shipment would find

VARIABLES
  shipment,
  rewound            \* no rewind failed so far (history)

verifierVars == <<reportVars, rpmVars, shipment, rewound>>

Package == PackageOf(shipment)

-----------------------------------------------------------------------------
(* verify_zip: which bodies are kept, and what a failed collection reports. *)
RetainedBody(profile, name) ==
  CASE profile = "Jar"   -> IsJarSignatureMetadata(name)
    [] profile = "Wheel" -> name.class = "record"
    [] OTHER -> FALSE

Collected(profile, package) ==
  CollectEntries(EventsOf(package.entries, package.cut),
                 {name \in NamesOf(package.entries) : RetainedBody(profile, name)},
                 package.limits.metadata)

Result(integrity, signature, signers, findings) ==
  [integrity |-> integrity, signature |-> signature, signers |-> signers, findings |-> findings]

Both(content, signed) ==
  Result(content.verdict, signed.verdict, signed.signers, content.findings \cup signed.findings)

JarResult(entries, content, schemes) ==
  Both(content, VerifyJarSignatures(entries, content.verdict, schemes))

ContentResult(profile, entries) ==
  CASE profile = "Jar"   -> JarResult(entries, VerifyJar(entries), NoSchemes)
    [] profile = "Wheel" -> Both(VerifyWheel(entries),
                                 Signed(SignatureState(profile, entries), {}, {}))
    [] OTHER -> Both(Outcome("NotPresent", {}), Signed(SignatureState(profile, entries), {}, {}))

CollectedResult(profile, collected) ==
  IF collected.failure = "ok" THEN ContentResult(profile, collected.entries)
  ELSE Result("Invalid", IF profile = "Jar" THEN "Invalid" ELSE "NotEvaluated", {},
              {IF collected.failure # "limit" THEN "IntegrityReadFailure"
               ELSE IF profile = "Jar" THEN "SignatureResourceLimit"
               ELSE "IntegrityResourceLimit"})

VerifyZip(profile, package) ==
  IF profile = "NuGet" THEN VerifyNuget(package.raw, package.cms, package.limits)
  ELSE CollectedResult(profile, Collected(profile, package))

(* verify_android_apk_v1: the schemes the signing block was seen to hold    *)
(* are what X-Android-APK-Signed is compared with.                          *)
DetectedSchemes(ids) ==
  (IF "v2" \in ids THEN {2} ELSE {}) \cup (IF "v3" \in ids THEN {3} ELSE {})

V1Result(collected, ids) ==
  IF collected.failure = "ok"
  THEN JarResult(collected.entries, VerifyJar(collected.entries), DetectedSchemes(ids))
  ELSE Result("Invalid", "Invalid", {},
              {IF collected.failure = "limit" THEN "SignatureResourceLimit"
               ELSE "IntegrityReadFailure"})

VerifyAndroidApkV1(package) ==
  V1Result(Collected("Jar", package),
           ValidateApp("AndroidApk", package.zip, package.apk, package.limits).signatures.ids)

-----------------------------------------------------------------------------
(* What the validator of each profile reports.                              *)
Found(result, signatures) ==
  [readable |-> result.readable, findings |-> result.findings,
   detected |-> [v1Metadata |-> signatures.v1Metadata, block |-> signatures.block,
                 any |-> AnySignature(signatures), embedded |-> signatures.embedded]]

RpmReadable == parse.failure \in {"profile valid", "profile invalid"}

Validation(profile) ==
  CASE profile = "Alpine" ->
         Found(ValidateAlpine(Package.alpine, Package.limits.metadata), NoSignatures)
    [] profile = "Deb" -> Found(ValidateDeb(Package.events), NoSignatures)
    [] profile = "Rpm" ->
         Found([readable |-> RpmReadable,
                findings |-> IF RpmReadable THEN hashing.findings ELSE {parse.failure}],
               NoSignatures)
    [] profile \in ZipProfile ->
         Found(ValidateZip(profile, Package.zip, Package.limits,
                           CollectEntries(EventsOf(Package.entries, Package.cut),
                                          {name \in NamesOf(Package.entries) : name.class = "nuspec"},
                                          Package.limits.metadata)),
               NoSignatures)
    [] profile \in AppProfile ->
         LET found == ValidateApp(profile, Package.zip, Package.apk, Package.limits)
         IN  Found(found, found.signatures)

(* alpine_apk, deb, rpm and zip. *)
WholeResult(profile) ==
  CASE profile = "Alpine" ->
         VerifyAlpine(ValidateAlpine(Package.alpine, Package.limits.metadata),
                      TrustedKeys(Package.keys))
    [] profile = "Deb" -> Nothing("NotEvaluated")
    [] profile = "Rpm" -> [Nothing("NotEvaluated") EXCEPT !.integrity = hashing.verdict]
    [] profile \in ZipProfile -> VerifyZip(profile, Package)

-----------------------------------------------------------------------------
IsRpm == request.profile = "Rpm"

VerifierStart(item, policy) ==
  /\ shipment = item
  /\ request = [profile |-> item.profile, policy |-> policy,
                sidecar |-> PackageOf(item).sidecar # << >>]
  /\ ReportInit
  /\ IF item.profile = "Rpm" THEN RpmInit(PackageOf(item).rpm) ELSE NoRpm
  /\ rewound = TRUE

VerifierInit ==
  \E item \in Shipments, policy \in TrustPolicies : VerifierStart(item, policy)

(* An RPM is validated and hashed in one pass over its payload.             *)
ReadRpm ==
  /\ IsRpm /\ RpmNext
  /\ UNCHANGED <<reportVars, shipment, rewound>>

Rewind(ok) == rewound' = (rewound /\ ok)
Quiet == UNCHANGED <<rpmVars, shipment>>

ValidatePackage ==
  /\ IsRpm => parse.failure # "ok"
  /\ Validate(Validation(request.profile)) /\ Rewind(TRUE) /\ Quiet

VerifyPackage ==
  /\ request.profile \notin AppProfile
  /\ VerifyWhole(WholeResult(request.profile)) /\ Rewind(TRUE) /\ Quiet

MsixResult(result) == VerifyMsixApp(result.verdict, result.findings)

VerifyMsixPackage ==
  /\ stage = "verify" /\ request.profile = "Msix"
  /\ MsixResult(VerifyMsix(Package.zip, Package.events, Package.xml, Package.limits))
  /\ Rewind(TRUE) /\ Quiet

VerifyBlockOfPackage ==
  /\ stage = "verify" /\ IsApk
  /\ VerifySigningBlock(VerifyAndroidApkV2V3(Package.apk, Package.limits))
  /\ Rewind(TRUE) /\ Quiet

VerifyV1OfPackage ==
  /\ \/ stage = "v1" /\ VerifyV1Too(VerifyAndroidApkV1(Package)) /\ Rewind(TRUE)
     \/ stage = "verify" /\ IsApk /\ VerifyV1Only(VerifyAndroidApkV1(Package))
          /\ Rewind(~validation.detected.block)
     \/ RewindForV1Fails /\ Rewind(FALSE)
  /\ Quiet

(* Nothing is left to verify, or the rewind for it failed.                  *)
SkipPackage ==
  /\ VerifyNothing
  /\ Rewind(~validation.readable \/ ~(\/ request.profile \in ZipProfile \cup {"Msix"}
                                      \/ validation.detected.block
                                      \/ validation.detected.v1Metadata))
  /\ Quiet

SidecarResult(v4) == VerifySidecar(Result(v4.integrity, v4.signature, v4.signers, v4.findings))

VerifySidecarOfPackage ==
  /\ stage = "sidecar"
  /\ SidecarResult(VerifyAndroidApkV4(Package.apk, Package.sidecar[1], Package.limits))
  /\ Rewind(TRUE) /\ Quiet

VerifierNext ==
  \/ ReadRpm
  \/ ValidatePackage
  \/ VerifyPackage
  \/ VerifyMsixPackage
  \/ VerifyBlockOfPackage
  \/ VerifyV1OfPackage
  \/ SkipPackage
  \/ VerifySidecarOfPackage

-----------------------------------------------------------------------------
(* What a package is, whoever looks at it.  Every payload entry of a JAR    *)
(* has a section with a digest of its content; an entry whose name occurs   *)
(* twice may instead have been reported.                                    *)
JarCovered(entries) ==
  LET manifest == FirstOfClass(entries, "manifest").body
      covered(entry) == \E section \in Range(manifest.sections) :
                          /\ section.name = entry.name
                          /\ \E digest \in section.digests : digest.of = entry.content
  IN  \A entry \in {e \in Range(entries) : IsJarPayload(e)} :
        \/ covered(entry)
        \/ "DuplicateEntryPath" \in report.findings

WheelCovered(entries) ==
  LET record == FirstOfClass(entries, "record")
      listed == {e \in Range(entries) : e.name.class \notin {"dir", "record-signature", "record"}}
  IN  \A entry \in listed : \E row \in Range(record.body.rows) :
        row.path = entry.name /\ row.hash.of = entry.content /\ row.size = entry.size

(* Every file of an MSIX package is listed with the hashes of exactly its   *)
(* blocks.                                                                  *)
MsixCovered(package) ==
  LET blocks(body) == [b \in 1..BlockCount(body.size) |->
                         <<body.content, (b - 1) * MsixBlockSize,
                           IF b * MsixBlockSize > body.size THEN body.size ELSE b * MsixBlockSize>>]
  IN  \A body \in {x \in Range(package.bodies) : ~IsExcludedFootprint(x.name)} :
        \E listed \in Range(package.files) :
          /\ listed.name = body.name
          /\ [b \in DOMAIN listed.blocks |-> listed.blocks[b].hash] = blocks(body)

(* The bytes a NuGet signature leaves out are its own member, its own       *)
(* central record, and the counts and offsets of the end record.            *)
NugetCovered(package) ==
  LET zip       == package.raw
      signature == SignatureEntry(zip)
      local     == zip.entries[signature].localOffset..LocalEnd(zip.entries[signature]) - 1
      central   == CentralPosition(zip, signature)..CentralPosition(zip, signature + 1) - 1
      fields    == zip.eocdOffset + EocdPrefix..zip.eocdOffset + EocdComment - 1
  IN  /\ Range(CanonicalRanges(zip)) = (0..Length(zip) - 1) \ (local \cup central \cup fields)
      /\ package.cms.content.of = zip.content

BlockCovers(apk) ==
  /\ Evidence(apk) # {}
  /\ \A item \in Evidence(apk) : \E d \in Range(item.signer.digests) : d.of = apk.content

AlpineCovered(package) ==
  LET member == IF \E e \in Range(package.alpine.events) : e.type = "Entry" /\ e.entry.class = "sign"
                THEN 3 ELSE 2
      hashes == {line.value : line \in {x \in Range(package.info) : x.key = "datahash"}}
  IN  hashes = {package.alpine.evidence[member].of}

Intact(package) ==
  CASE request.profile = "Jar"    -> JarCovered(package.entries)
    [] request.profile = "Wheel"  -> WheelCovered(package.entries)
    [] request.profile = "Msix"   -> MsixCovered(package)
    [] request.profile = "NuGet"  -> NugetCovered(package)
    [] request.profile = "Alpine" -> AlpineCovered(package)
    [] request.profile = "AndroidApk" ->
         /\ validation.detected.v1Metadata => JarCovered(package.entries)
         /\ validation.detected.block => BlockCovers(package.apk)
         /\ package.sidecar # << >> => package.sidecar[1].hashing.root = package.apk.whole
    [] OTHER -> TRUE

(* A package whose integrity is reported Verified is covered, entry for     *)
(* entry or byte for byte, by the digests it carries                        *)
(* (integrity.rs, msix_blockmap.rs, nuget_signature.rs, android_signature.rs*)
(* and alpine_signature.rs); for an APK, by every scheme it has.            *)
VerifiedIsIntact ==
  stage = "done" /\ rewound /\ report.integrity = "Verified" => Intact(Package)

-----------------------------------------------------------------------------
(* Who stands behind a package.  A JAR entry is authenticated by a signer   *)
(* whose signature covers a signature file that covers the entry's section. *)
JarAuthentic(entries) ==
  LET manifest == FirstOfClass(entries, "manifest").body
      covers(sf, name) ==
        \/ \E digest \in sf.whole : digest.of = manifest.raw
        \/ \E section \in Range(sf.sections), listed \in Range(manifest.sections) :
             /\ section.name = name /\ listed.name = name
             /\ \E digest \in section.digests : digest.of = listed.raw
      signs(block, sf) == \E signer \in Range(block.signers) : signer.valid /\ signer.over = sf.id
  IN  \A entry \in {e \in Range(entries) : IsJarPayload(e)} :
        \E sf, block \in Range(entries) :
          /\ sf.name.class = "sf" /\ block.name.class = "block" /\ sf.name.id = block.name.id
          /\ covers(sf.body, entry.name) /\ signs(block.body, sf.body)

(* Every signer of a signing block verified with its own certificate, and   *)
(* along the SDK ranges one signer hands over to the next: no release has   *)
(* two or none, the later one's lineage continues the earlier one's with    *)
(* every link signed, and the lineage reported has every one of them.       *)
HandsOver(earlier, later) ==
  LET chain == EffectiveLineage(later)
      links == The(later, "lineage").lineage.levels
  IN  /\ \/ later.sdk.min = earlier.sdk.max + 1
         \/ TargetsDevRelease(later) /\ later.sdk.min = earlier.sdk.max
      /\ SigningCertificate(earlier).id \in Range(chain)
      /\ Last(chain) = SigningCertificate(later).id
      /\ Len(chain) > 1 =>
           \A l \in 2..Len(links) : links[l].good /\ links[l].signedWith = links[l - 1].next

BlockAuthentic(apk) ==
  LET order    == BySdk(SignersOf(apk, "v3") \o SignersOf(apk, "v3.1"))
      rotation == BuildRotationEvidence(apk)
  IN  /\ rotation.lineage # << >> => Range(rotation.signers) \subseteq Range(rotation.lineage)
      /\ \A item \in Evidence(apk) :
           /\ \E s \in Range(item.signer.signatures) : s.good /\ s.id \in AlgorithmNames
           /\ item.signer.publicKey = SigningCertificate(item.signer).id
      /\ \A s \in 1..Len(order) - 1 : HandsOver(order[s], order[s + 1])

(* A sidecar's signatures are over this package's size and the sidecar's    *)
(* root, by the certificates the signing block names.                       *)
SidecarAuthentic(apk, sidecar) ==
  LET infos == <<sidecar.primary>> \o [b \in DOMAIN sidecar.blocks |-> sidecar.blocks[b].info]
      digests == {d.of : d \in UNION {Range(item.signer.digests) : item \in Evidence(apk)}}
  IN  \A i \in DOMAIN infos :
        /\ infos[i].over = [size |-> ApkSize(apk), root |-> sidecar.hashing.root,
                            digest |-> infos[i].digest]
        /\ infos[i].certificate \in Fingerprints(apk)
        /\ infos[i].digest.of \in digests

NugetAuthentic(package) ==
  LET primary == package.cms.signers[1]
  IN  \A signer \in {primary} \cup Range(primary.counters) :
        /\ signer.valid
        /\ signer.attributes.messageDigest =
             <<<<IF signer = primary THEN package.cms.content.id ELSE primary.signature>>>>

AlpineAuthentic(package) ==
  \E event \in Range(package.alpine.events) :
    /\ event.type = "Entry" /\ event.entry.class = "sign"
    /\ \E key \in package.keys :
         /\ event.entry.key = key.id /\ event.entry.by = key.certificate
         /\ key.der.bits >= 2048 /\ key.pem # "torn"
    /\ event.entry.over = package.alpine.evidence[2].of

Authentic(package) ==
  CASE request.profile = "Jar"    -> JarAuthentic(package.entries)
    [] request.profile = "NuGet"  -> NugetAuthentic(package)
    [] request.profile = "Alpine" -> AlpineAuthentic(package)
    [] request.profile = "AndroidApk" ->
         /\ validation.detected.v1Metadata => JarAuthentic(package.entries)
         /\ validation.detected.block => BlockAuthentic(package.apk)
         /\ package.sidecar # << >> => SidecarAuthentic(package.apk, package.sidecar[1])
    [] OTHER -> FALSE

(* A package whose signature is reported Verified is signed, from the       *)
(* certificate down to every entry, by a chain with no gap (jar_signature.rs*)
(* verify_jar_signatures, android_signature.rs verify_signing_schemes,      *)
(* android_v4_signature.rs bind_signing_infos, nuget_signature.rs           *)
(* verify_signature_envelope, alpine_signature.rs verify_signatures).       *)
SignedIsAuthentic ==
  stage = "done" /\ rewound /\ report.signature = "Verified" => Authentic(Package)

(* The other direction: a package nothing is wrong with is reported so,     *)
(* however many schemes, signers and unknown extensions it carries          *)
(* (verification.rs: each entry point of PackageVerifier).                  *)
Sound(package) ==
  CASE request.profile \in {"Jar", "NuGet", "Alpine", "AndroidApk"} ->
         report.integrity = "Verified" /\ report.signature = "Verified"
    [] request.profile = "Wheel" -> report.integrity = "Verified"
    [] request.profile = "Rpm" ->
         "IntegrityReadFailure" \in report.findings \/ report.integrity = "Verified"
    [] request.profile = "Msix" ->
         report.integrity = "Verified" /\ report.signature = "NotEvaluated"
    [] OTHER -> "ContainerUnreadable" \notin report.findings

SoundIsVerified ==
  stage = "done" /\ rewound /\ Package.sound => Sound(Package)

(* What is inside a package is judged only after it was read whole.  A      *)
(* Debian package has exactly its three members, in order and each read to  *)
(* its end, precisely when the validator finds nothing wrong with it        *)
(* (deb.rs DebValidator::validate); an RPM payload is Verified only over    *)
(* all of its bytes, and valid only with its archive read to the end        *)
(* (rpm.rs validate_payload).                                               *)
PayloadsReadWhole ==
  /\ request.profile = "Deb" /\ stage = "done" =>
       (DebConforms(Package.events) <=> ValidateDeb(Package.events).profileValid)
  /\ RpmReadWhole
=============================================================================
