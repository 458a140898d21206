----------------------------- MODULE ZipProfiles -----------------------------
(***************************************************************************)
(* What the ZIP package profiles require of the central directory           *)
(* (libarchive_oxide-package/src/zip_reader.rs, zip_profile.rs and          *)
(* app_profile.rs): JAR, NuGet, wheel, EPUB, Android APK, IPA and MSIX.     *)
(*                                                                         *)
(* A directory entry's name is [class, id], as in ZipIntegrity; `folded` is *)
(* the name with its case folded, `path` the sanitized path or "unsafe".    *)
(***************************************************************************)
EXTENDS NugetSignature

CONSTANTS
  Max16, Max32,      \* u16::MAX and u32::MAX, the ZIP64 escapes
  ZipEntrySize       \* size_of::<ZipEntry>()

ASSUME ZipProfilesAssumption == {Max16, Max32, ZipEntrySize} \subseteq Nat

-----------------------------------------------------------------------------
(* zip64_sizes: each escaped field takes the next value of the extra field. *)
Zip64Take(state, field) ==
  IF state.failure # "ok" THEN state
  ELSE IF field # Max32 THEN [state EXCEPT !.sizes = Append(@, field)]
  ELSE IF state.extra = << >> THEN [state EXCEPT !.failure = "truncated ZIP64 value"]
  ELSE [state EXCEPT !.sizes = Append(@, Head(state.extra)), !.extra = Tail(@)]

Zip64Sizes(entry) ==
  FoldLeft(Zip64Take, [sizes |-> << >>, extra |-> entry.extra,
                       failure |-> IF entry.extraFramed THEN "ok" ELSE "truncated"],
           entry.fields)

UncompressedSize(entry) == Zip64Sizes(entry).sizes[1]
LocalOffset(entry) == Zip64Sizes(entry).sizes[3]

(* read_zip64_directory: the count and offset of a directory the classic    *)
(* record cannot describe.                                                  *)
DirectoryOf(zip) ==
  IF zip.count = Max16 \/ zip.offset = Max32
  THEN zip.zip64
  ELSE [failure |-> "ok", count |-> zip.count, offset |-> zip.offset]

(* read_central_directory_with_offset. *)
ReadDirectoryEntry(zip, limits, e) ==
  LET entry == zip.directory[e]
      used  == FoldLeft(LAMBDA sum, other : sum + other.variable + ZipEntrySize, 0,
                        SubSeq(zip.directory, 1, e))
  IN  FirstFailure(<<Check(entry.header, "bad central-directory signature"),
                     Check(used <= limits.metadata, "metadata exceeds limit"),
                     Zip64Sizes(entry).failure,
                     Check(entry.nameLength <= limits.path, "pathname exceeds limit")>>)

ReadCentralDirectory(zip, limits) ==
  LET directory == DirectoryOf(zip)
      wanted    == [e \in 1..directory.count |-> e]
  IN  IF ~zip.readable \/ zip.eocd # "found" THEN "unreadable"
      ELSE IF directory.failure # "ok" THEN directory.failure
      ELSE IF directory.count > limits.entries THEN "entry count exceeds limit"
      ELSE FirstFailure([e \in DOMAIN wanted |->
             IF e \in DOMAIN zip.directory THEN ReadDirectoryEntry(zip, limits, e)
             ELSE "cannot read central-directory header"])

(* check_common_structure: a name that does not decode skips the rest.      *)
CheckCommonStructure(entries, limits) ==
  LET decoded(entry) == entry.path # "invalid-encoding"
      total == FoldLeft(LAMBDA sum, e : sum + UncompressedSize(e), 0,
                        SelectSeq(entries, decoded))
      repeated(e) == \E f \in 1..e - 1 : entries[f].path = entries[e].path
      codes(e) ==
        (IF entries[e].path \in {"unsafe", "invalid-encoding"} THEN {"UnsafeEntryPath"}
         ELSE IF repeated(e) THEN {"DuplicateEntryPath"} ELSE {})
          \cup (IF ~decoded(entries[e]) THEN {}
                ELSE IF entries[e].encrypted \/ entries[e].method = "aes"
                THEN {"UnexpectedEncryption"}
                ELSE IF entries[e].method \notin {"store", "deflate"}
                THEN {"UnsupportedCompression"} ELSE {})
  IN  Gather(DOMAIN entries, codes)
        \cup (IF total > limits.decoded THEN {"DecompressionBomb"} ELSE {})

-----------------------------------------------------------------------------
HasClass(entries, class) == \E entry \in Range(entries) : entry.name.class = class
Requires(entries, classes) ==
  IF \A class \in classes : HasClass(entries, class) THEN {} ELSE {"MissingRequiredMember"}

(* check_jar, check_wheel, check_ipa. *)
CheckJar(entries) == Requires(entries, {"manifest"})
CheckWheel(entries) == Requires(entries, {"metadata", "record", "wheel"})
CheckIpa(entries) == Requires(entries, {"info-plist"})

(* check_nuget. *)
CheckNuget(entries) ==
  LET nuspecs  == SelectSeq(entries, LAMBDA e : e.name.class = "nuspec")
      like     == SelectSeq(entries, LAMBDA e : e.folded = SignatureName)
      first    == like[1]
      collides == \E e, f \in DOMAIN entries :
                    entries[e].folded = entries[f].folded /\ entries[e].name # entries[f].name
      last     == /\ Last(entries).name.class = SignatureName
                  /\ \A e \in Range(entries) : LocalOffset(e) <= LocalOffset(first)
  IN  (IF collides THEN {"DuplicateEntryPath"} ELSE {})
        \cup Requires(entries, {"content-types", "nuspec"})
        \cup (IF Len(nuspecs) > 1 THEN {"DuplicateMember"} ELSE {})
        \cup (IF like # << >>
                   /\ ~(/\ Len(like) = 1 /\ first.name.class = SignatureName
                        /\ first.method = "store" /\ ~first.utf8 /\ last)
              THEN {"InvalidSignatureMember"} ELSE {})

(* check_epub and mimetype_body_matches. *)
CheckEpub(entries) ==
  LET mimetype == entries[SelectInSeq(entries, LAMBDA e : e.name.class = "mimetype")]
      first    == \A e \in Range(entries) : LocalOffset(mimetype) <= LocalOffset(e)
  IN  Requires(entries, {"mimetype", "container"})
        \cup (IF ~HasClass(entries, "mimetype") THEN {}
              ELSE (IF first THEN {} ELSE {"MimetypeNotFirst"})
                     \cup (IF mimetype.method # "store" THEN {"MimetypeNotStored"}
                           ELSE IF mimetype.body = "epub" THEN {}
                           ELSE {"MimetypeInvalidContent"}))

(* detect_apk_v1: an .SF and a block of the same base, or any of them.      *)
DetectApkV1(entries) ==
  LET files  == {e.name.id : e \in {x \in Range(entries) : x.name.class = "sf"}}
      blocks == {e.name.id : e \in {x \in Range(entries) : x.name.class = "block"}}
  IN  [pair |-> files \cap blocks # {}, metadata |-> files \cup blocks # {}]

(* scan_apk_id_value_pairs: the schemes of the pairs that fit in what was   *)
(* read of the block.                                                       *)
ScanApkPairs(pairs, length) ==
  LET step(state, pair) ==
        IF state.stopped \/ state.cursor + 12 > length \/ pair.length < 4
             \/ state.cursor + 8 + pair.length > length
        THEN [state EXCEPT !.stopped = TRUE]
        ELSE [state EXCEPT !.cursor = @ + 8 + pair.length, !.ids = @ \cup {pair.id}]
  IN  FoldLeft(step, [cursor |-> 0, ids |-> {}, stopped |-> FALSE], pairs).ids

(* detect_apk_signing_block: whether a block is there, and its schemes.     *)
ApkFooterSize == 24
NoBlock == [block |-> FALSE, ids |-> {}, cut |-> FALSE]

DetectApkSigningBlock(apk, limits) ==
  LET length == apk.trailing - ApkFooterSize
      read   == IF length > limits.metadata THEN limits.metadata ELSE length
  IN  IF ~apk.readable \/ apk.central < ApkFooterSize \/ ~apk.magic THEN NoBlock
      ELSE IF apk.central - 8 - apk.trailing < 0 \/ length < 0
      THEN [NoBlock EXCEPT !.block = TRUE]
      ELSE [block |-> TRUE, ids |-> ScanApkPairs(apk.pairs, read), cut |-> length > limits.metadata]

(* AppSignatureReport of an Android package, and any().                     *)
ApkSignatures(entries, apk, limits) ==
  LET v1    == DetectApkV1(entries)
      block == DetectApkSigningBlock(apk, limits)
  IN  [v1 |-> v1.pair, v1Metadata |-> v1.metadata, block |-> block.block,
       ids |-> block.ids, embedded |-> FALSE]

NoSignatures ==
  [v1 |-> FALSE, v1Metadata |-> FALSE, block |-> FALSE, ids |-> {}, embedded |-> FALSE]
AnySignature(signatures) ==
  signatures.v1 \/ signatures.block \/ signatures.embedded
    \/ signatures.ids \cap {"v2", "v3", "v3.1"} # {}

(* report_signatures. *)
ReportSignatures(signed) == IF signed THEN {"SigningSchemeDetected"} ELSE {"UnsignedPackage"}

(* check_apk and check_msix: findings and signatures.                       *)
CheckApk(entries, apk, limits) ==
  LET signatures == ApkSignatures(entries, apk, limits)
  IN  [findings |-> Requires(entries, {"android-manifest"})
                      \cup ReportSignatures(AnySignature(signatures)),
       signatures |-> signatures]

CheckMsix(entries) ==
  LET embedded == HasClass(entries, "msix-signature")
  IN  [findings |-> Requires(entries, {"msix-manifest", "content-types", "block-map"})
                      \cup ReportSignatures(embedded),
       signatures |-> [NoSignatures EXCEPT !.embedded = embedded]]

-----------------------------------------------------------------------------
(* ZipPackageValidator::validate and AppPackageValidator::validate.  A      *)
(* NuGet manifest is read after a rewind, when that succeeds.               *)
Unreadable ==
  [readable |-> FALSE, profileValid |-> FALSE, findings |-> {"ContainerUnreadable"},
   signatures |-> NoSignatures]

Validated(findings, satisfied, signatures) ==
  [readable |-> TRUE, findings |-> findings, signatures |-> signatures,
   profileValid |-> satisfied /\ \A code \in findings : Severity(code) = "Info"]

CheckZipProfile(profile, entries) ==
  CASE profile = "Jar"   -> CheckJar(entries)
    [] profile = "NuGet" -> CheckNuget(entries)
    [] profile = "Wheel" -> CheckWheel(entries)
    [] profile = "Epub"  -> CheckEpub(entries)

ValidateZip(profile, zip, limits, collected) ==
  LET found  == CheckZipProfile(profile, zip.directory)
      nuspec == IF profile = "NuGet" /\ zip.seekable
                THEN InspectNuspec(collected, limits.nesting)
                ELSE [sound |-> TRUE, findings |-> {}]
  IN  IF ReadCentralDirectory(zip, limits) # "ok" THEN Unreadable
      ELSE Validated(found \cup nuspec.findings \cup CheckCommonStructure(zip.directory, limits),
                     found = {} /\ nuspec.sound, NoSignatures)

ValidateApp(profile, zip, apk, limits) ==
  LET checked == CASE profile = "AndroidApk" -> CheckApk(zip.directory, apk, limits)
                   [] profile = "Msix" -> CheckMsix(zip.directory)
                   [] profile = "Ipa" -> [findings |-> CheckIpa(zip.directory),
                                          signatures |-> NoSignatures]
  IN  IF ReadCentralDirectory(zip, limits) # "ok" THEN Unreadable
      ELSE Validated(checked.findings \cup CheckCommonStructure(zip.directory, limits),
                     "MissingRequiredMember" \notin checked.findings, checked.signatures)
=============================================================================
