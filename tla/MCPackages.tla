----------------------------- MODULE MCPackages -----------------------------
(***************************************************************************)
(* Packages for PackageVerifier: an intact package of every profile, and    *)
(* the ways one or two of its parts may differ from it.  A name in `faults` *)
(* is one such difference; the ones in Harmless leave the package sound.    *)
(***************************************************************************)
EXTENDS PackageVerifier, ApkDigest

MCLimits(faults) ==
  [metadata |-> IF "limit" \in faults THEN 1 ELSE 400, decoded |-> 5000, inFlight |-> 4096,
   entries |-> 20, path |-> 10, nesting |-> 4, entry |-> 100]

Name(class, id) == [class |-> class, id |-> id]
If(holds, seq) == IF holds THEN seq ELSE << >>
Pick(holds, yes, no) == IF holds THEN yes ELSE no

(* Directory entries of a ZIP container.                                    *)
ZipMember(name, size) ==
  [name |-> name, folded |-> name.id, path |-> name.class \o name.id, method |-> "store", encrypted |-> FALSE,
   utf8 |-> FALSE, header |-> TRUE, variable |-> 0, nameLength |-> 1,
   fields |-> <<size, size, 0>>, extra |-> << >>, extraFramed |-> TRUE, body |-> "epub",
   local |-> [readable |-> TRUE, signature |-> TRUE, sameMethod |-> TRUE, size |-> 30,
              sameName |-> TRUE]]
MCZip(directory, faults) ==
  [readable |-> "unreadable" \notin faults, eocd |-> "found", count |-> Len(directory),
   offset |-> 0, zip64 |-> [failure |-> "ok", count |-> 0, offset |-> 0],
   directory |-> directory, seekable |-> TRUE]

-----------------------------------------------------------------------------
(* JAR entries, which an Android package also has.  Contents 1 and 2 are    *)
(* the payload's, 9 is what a digest of something else is over.             *)
Sha(of) == {[alg |-> "SHA-256", of |-> of]}
Body == [none |-> TRUE]

ManifestSections(faults, first) ==
  LET two == Name("file", "b")
      digests == CASE "digest-malformed" \in faults -> Sha(Malformed)
                   [] "digest-unknown" \in faults -> {[alg |-> "MD5", of |-> 2]}
                   [] "digest-both" \in faults -> Sha(2) \cup {[alg |-> "SHA-512", of |-> 2]}
                   [] OTHER -> Sha(2)
  IN  <<[name |-> first, raw |-> 11, digests |-> Sha(1)]>>
        \o If("section-missing" \notin faults, <<[name |-> two, raw |-> 12, digests |-> digests]>>)
        \o If("section-twice" \in faults, <<[name |-> two, raw |-> 13, digests |-> Sha(9)]>>)
        \o If("section-without-entry" \in faults,
              <<[name |-> Name("file", "z"), raw |-> 14, digests |-> Sha(9)]>>)

MCManifest(faults, first) ==
  [parses |-> "manifest-broken" \notin faults, version |-> TRUE, mainHasName |-> FALSE,
   mainRaw |-> 10, raw |-> IF "manifest-changed" \in faults THEN 21 ELSE 20,
   sections |-> ManifestSections(faults, first)]

SignatureFile(id, faults, first) ==
  LET one == [name |-> first, digests |-> Sha(11)]
      two == [name |-> Name("file", "b"), digests |-> Sha(IF "sf-section-wrong" \in faults
                                                          THEN 9 ELSE 12)]
      single == "sf-sections" \in faults \/ "sf-sections-short" \in faults
                  \/ "sf-section-wrong" \in faults
  IN  [id |-> id, parses |-> TRUE, version |-> "sf-version" \notin faults, mainHasName |-> FALSE,
       whole |-> IF single THEN {} ELSE Sha(20), main |-> Sha(10),
       sections |-> If(single, <<one>>)
                      \o If(single /\ "sf-sections-short" \notin faults, <<two>>),
       apk |-> CASE "sf-needs-v2" \in faults -> <<2>>
                 [] "sf-needs-v3" \in faults -> <<2, 3>>
                 [] "sf-needs-junk" \in faults -> <<Malformed>>
                 [] OTHER -> << >>]

(* A constructed value of three: a primitive of one byte and an empty one.  *)
MCDer(faults) ==
  LET node(header, length, constructed) ==
        [header |-> header, length |-> length, constructed |-> constructed, failure |-> "ok"]
      inner == IF "der-overrun" \in faults THEN 5 ELSE 1
  IN  [length |-> 5,
       at |-> [c \in 0..4 |-> CASE c = 0 -> node(1, 4, TRUE)
                                [] c = 1 -> node(1, inner, "der-deep" \in faults)
                                [] c = 2 -> node(1, 0, TRUE)
                                [] c = 3 -> node(1, 1, FALSE)
                                [] c = 4 -> node(1, 0, FALSE)]]

MCBlock(id, certificate, faults) ==
  LET over == Pick("block-over-other" \in faults, 99, id) IN
  [der |-> MCDer(faults), parse |-> "ok", certificates |-> 1,
   content |-> IF "encapsulated" \in faults THEN over ELSE Malformed,
   signers |-> <<[algorithm |-> IF "block-weak" \in faults THEN "weak" ELSE "RSA",
                  valid |-> "block-forged" \notin faults, attributes |-> FALSE,
                  over |-> over,
                  identified |-> TRUE,
                  certificates |-> IF "certificate-twice" \in faults
                                   THEN {certificate, "c9"} ELSE {certificate}]>>]

MCJarEntries(faults, first) ==
  LET entry(name, content, body) ==
        [name |-> name, size |-> 2, content |-> content, body |-> body]
      signed == "unsigned" \notin faults
      second == "second-signer" \in faults
      short  == Pick("second-short" \in faults, {"sf-sections-short"}, {})
  IN  <<entry(Name("manifest", "m"), 30, MCManifest(faults, first))>>
        \o If(signed, <<entry(Name("sf", "S"), 31, SignatureFile(41, faults, first))>>)
        \o If(signed /\ "block-missing" \notin faults,
              <<entry(Name("block", "S"), 32, MCBlock(41, "c1", faults))>>)
        \o If(second, <<entry(Name("sf", "T"), 33, SignatureFile(42, short, first)),
                        entry(Name("block", "T"), 34, MCBlock(42, "c2", {}))>>)
        \o <<entry(first, 1, Body)>>
        \o If("duplicate" \in faults, <<entry(Name("file", "b"), 9, Body)>>)
        \o <<entry(Name("file", "b"), Pick("payload-changed" \in faults, 9, 2), Body)>>
        \o If("payload-added" \in faults, <<entry(Name("file", "c"), 3, Body)>>)
        \o If("directory" \in faults, <<entry(Name("dir", "d"), 0, Body)>>)

MCDirectory(entries) ==
  [e \in DOMAIN entries |-> ZipMember(entries[e].name, entries[e].size)]

JarFaults ==
  {"digest-malformed", "digest-unknown", "digest-both", "section-missing", "section-twice",
   "section-without-entry", "manifest-broken", "manifest-changed", "sf-sections",
   "sf-sections-short", "sf-section-wrong", "sf-version", "block-forged", "block-weak",
   "block-over-other", "block-missing", "certificate-twice", "encapsulated", "unsigned",
   "second-signer", "second-short", "der-overrun", "der-deep", "duplicate", "payload-changed",
   "payload-added", "directory", "cut", "limit", "unreadable"}
JarHarmless == {"digest-both", "sf-sections", "encapsulated", "second-signer", "directory"}

MCJar(faults) ==
  LET entries == MCJarEntries(faults, Name("file", "a"))
  IN  [entries |-> entries, cut |-> Pick("cut" \in faults, "read", "ok"),
       limits |-> MCLimits(faults), zip |-> MCZip(MCDirectory(entries), faults),
       sidecar |-> << >>, sound |-> faults \subseteq JarHarmless]

-----------------------------------------------------------------------------
(* A wheel of two files and its RECORD.                                     *)
WheelFaults ==
  {"row-missing", "row-twice", "row-malformed", "row-other-hash", "row-other-size", "row-no-hash",
   "row-unknown-hash", "row-no-separator", "row-bad-size", "record-hashed", "record-signed",
   "payload-added", "directory", "cut", "limit", "unreadable"}
WheelHarmless == {"record-signed", "directory"}

MCWheel(faults) ==
  LET row(name, of) == [fields |-> 3, path |-> name, hash |-> [alg |-> "SHA-256", of |-> of],
                        size |-> 2]
      plain == row(Name("wheel", "b"), Pick("row-other-hash" \in faults, 9, 2))
      two   == [plain EXCEPT
                  !.fields = Pick("row-malformed" \in faults, 2, 3),
                  !.hash.alg = CASE "row-unknown-hash" \in faults -> "MD5"
                                 [] "row-no-hash" \in faults -> "empty"
                                 [] "row-no-separator" \in faults -> "no-separator"
                                 [] OTHER -> @,
                  !.size = CASE "row-other-size" \in faults -> 3
                             [] "row-bad-size" \in faults -> BadSize
                             [] OTHER -> @]
      own   == [row(Name("record", "r"), 0) EXCEPT
                  !.hash.alg = Pick("record-hashed" \in faults, "SHA-256", "empty"),
                  !.size = NoSize]
      rows  == <<row(Name("metadata", "a"), 1), own>>
                 \o If("row-missing" \notin faults, <<two>>)
                 \o If("row-twice" \in faults, <<row(Name("wheel", "b"), 9)>>)
      entry(name, content, body) == [name |-> name, size |-> 2, content |-> content, body |-> body]
      entries == <<entry(Name("metadata", "a"), 1, Body), entry(Name("wheel", "b"), 2, Body),
                   entry(Name("record", "r"), 5, [rows |-> rows])>>
                   \o If("record-signed" \in faults,
                         <<entry(Name("record-signature", "j"), 6, Body)>>)
                   \o If("payload-added" \in faults, <<entry(Name("file", "c"), 3, Body)>>)
                   \o If("directory" \in faults, <<entry(Name("dir", "d"), 0, Body)>>)
  IN  [entries |-> entries, cut |-> Pick("cut" \in faults, "read", "ok"),
       limits |-> MCLimits(faults), sidecar |-> << >>, sound |-> faults \subseteq WheelHarmless,
       zip |-> MCZip(MCDirectory(entries), faults)]

-----------------------------------------------------------------------------
(* An EPUB and an IPA, whose structure alone is judged.                     *)
EpubFaults == {"mimetype-late", "mimetype-packed", "mimetype-other", "container-missing",
               "zip64-short", "duplicate", "unsafe", "encrypted", "cut", "unreadable"}
MCStructure(directory, faults, sound) ==
  [entries |-> << >>, cut |-> Pick("cut" \in faults, "read", "ok"), limits |-> MCLimits(faults),
   sidecar |-> << >>, sound |-> sound, apk |-> [readable |-> FALSE],
   zip |-> MCZip(directory, faults)]

MCEpub(faults) ==
  LET at(member, place) == [member EXCEPT !.fields[3] = place]
      mimetype == [at(ZipMember(Name("mimetype", "m"), 2), Pick("mimetype-late" \in faults, 9, 0))
                     EXCEPT !.method = Pick("mimetype-packed" \in faults, "deflate", "store"),
                            !.body = Pick("mimetype-other" \in faults, "other", "epub")]
      escaped  == [at(ZipMember(Name("container", "c"), 2), 5)
                     EXCEPT !.fields = <<Max32, 2, Max32>>,
                            !.extra = Pick("zip64-short" \in faults, <<2>>, <<2, 5>>)]
      other    == [at(ZipMember(Name("file", "f"), 2), 7)
                     EXCEPT !.path = CASE "unsafe" \in faults -> "unsafe"
                                       [] "duplicate" \in faults -> "containerc"
                                       [] OTHER -> @,
                            !.encrypted = "encrypted" \in faults]
  IN  MCStructure(<<mimetype>> \o If("container-missing" \notin faults, <<escaped>>) \o <<other>>,
                  faults, faults = {})

MCIpa(faults) ==
  MCStructure(If("plist-missing" \notin faults, <<ZipMember(Name("info-plist", "p"), 2)>>),
              faults, faults = {})

-----------------------------------------------------------------------------
(* A signed NuGet package of three members.                                 *)
NugetSigner(certificate, type, over, signature, faults) ==
  [digest |-> "SHA-2", algorithm |-> IF "signer-weak" \in faults THEN "DSA" ELSE "RSA",
   key |-> "RSA", certificates |-> {certificate}, valid |-> "signer-forged" \notin faults,
   signature |-> signature, countersDecode |-> TRUE, counters |-> << >>,
   attributes |->
     [present |-> "no-attributes" \notin faults,
      commitment |-> IF "commitment-twice" \in faults THEN <<<<type>>, <<type>>>> ELSE <<<<type>>>>,
      contentType |-> <<<<"data">>>>,
      messageDigest |-> <<<<IF "digest-of-other" \in faults THEN 99 ELSE over>>>>,
      signingCertificate |-> <<<<IF "certificate-other" \in faults THEN "c9" ELSE certificate>>>>,
      service |-> IF type = "repository" THEN <<<<"https">>>> ELSE << >>, owners |-> << >>]]

MCCms(faults) ==
  LET author  == NugetSigner("c1", Pick("repository" \in faults, "repository", "author"),
                             50, 51, faults)
      counter == NugetSigner("c2", Pick("counter-author" \in faults, "author", "repository"),
                             Pick("counter-of-content" \in faults, 50, 51), 52, {})
      countered == {"counter", "counter-author", "counter-of-content"} \cap faults # {}
      primary == [author EXCEPT !.counters = If(countered, <<counter>>)]
  IN  [der |-> MCDer(faults), decodes |-> TRUE, certificates |-> 2, onlyX509 |-> TRUE,
       signers |-> IF "two-signers" \in faults THEN <<primary, primary>> ELSE <<primary>>,
       content |-> [present |-> "no-content" \notin faults, isData |-> TRUE, id |-> 50,
                    utf8 |-> TRUE, version |-> Pick("content-v2" \in faults, 2, 1),
                    sections |-> TRUE,
                    algorithm |-> Pick("content-sha1" \in faults, "SHA-1", "SHA-256"),
                    canonical |-> TRUE, of |-> 60]]

MCRaw(faults) ==
  LET member(name, at) ==
        [name |-> name, folded |-> name, header |-> TRUE, nameLength |-> 1, zip64 |-> FALSE,
         agrees |-> "local-differs" \notin faults, localOffset |-> at, localHeader |-> 2,
         compressed |-> 2, uncompressed |-> 2, descriptor |-> 0, stored |-> TRUE,
         centralLength |-> 3]
      types   == member("types", 0)
      nuspec  == [member("nuspec", Pick("overlap" \in faults, 3, 4))
                    EXCEPT !.folded = Pick("names-collide" \in faults, "types", @)]
      signing == [member(SignatureName, Pick("gap" \in faults, 9, 8))
                    EXCEPT !.stored = "signature-packed" \notin faults,
                           !.name = Pick("signature-cased" \in faults, "Signature", @)]
      central == 12 + Pick("gap" \in faults, 1, 0) + Pick("gap-after" \in faults, 1, 0)
      entries == IF "unsigned" \in faults THEN <<types, nuspec>>
                 ELSE IF "signature-early" \in faults THEN <<types, signing, nuspec>>
                 ELSE <<types, nuspec, signing>>
  IN  [readable |-> TRUE, eocd |-> TRUE, multiDisk |-> FALSE, count |-> Len(entries),
       onDisk |-> Len(entries) + Pick("count-differs" \in faults, 1, 0), zip64 |-> FALSE,
       centralOffset |-> central, centralSize |-> 3 * Len(entries),
       eocdOffset |-> central + 3 * Len(entries) + Pick("central-gap" \in faults, 1, 0),
       eocdLength |-> 22, entries |-> entries, bodyReadable |-> TRUE,
       rereadable |-> "reread-fails" \notin faults,
       content |-> Pick("content-changed" \in faults, 61, 60)]

NugetFaults ==
  {"signer-weak", "signer-forged", "no-attributes", "commitment-twice", "digest-of-other",
   "certificate-other", "repository", "counter", "counter-author", "counter-of-content",
   "der-overrun", "two-signers", "no-content", "content-v2", "content-sha1", "local-differs",
   "overlap", "names-collide", "gap", "gap-after", "signature-packed", "signature-cased",
   "signature-early", "count-differs", "central-gap", "reread-fails", "content-changed",
   "nuspec-empty-id", "nuspec-deep", "cut", "unsigned"}
NugetHarmless == {"gap", "counter"}

MCNuget(faults) ==
  LET raw == MCRaw(faults)
      tag(type, name) == [type |-> type, name |-> name]
      field(name) == <<tag("Start", name), tag("Text", Pick("nuspec-empty-id" \in faults
                                                              /\ name = "id", "blank", "text")),
                       tag("End", name)>>
      xml == <<tag("Start", "package"), tag("Start", "metadata")>> \o field("id")
               \o field("version") \o field("authors") \o field("description")
               \o If("nuspec-deep" \in faults, <<tag("Start", "x"), tag("Start", "y"),
                                                 tag("Start", "z")>>)
               \o <<tag("End", "metadata"), tag("End", "package")>>
      class(name) == CASE name = "types" -> "content-types" [] name = "nuspec" -> "nuspec"
                       [] OTHER -> SignatureName
      one(e) == [name |-> Name(class(raw.entries[e].name), raw.entries[e].name), size |-> 2,
                 content |-> e, body |-> If(raw.entries[e].name = "nuspec", xml)]
      entries == [e \in DOMAIN raw.entries |-> one(e)]
      listed(e) == [ZipMember(entries[e].name, 2) EXCEPT
                      !.folded = raw.entries[e].folded,
                      !.fields[3] = raw.entries[e].localOffset,
                      !.method = Pick(raw.entries[e].stored, "store", "deflate")]
  IN  [entries |-> entries, cut |-> Pick("cut" \in faults, "read", "ok"), raw |-> raw,
       cms |-> MCCms(faults), limits |-> MCLimits(faults), sidecar |-> << >>,
       zip |-> MCZip([e \in DOMAIN entries |-> listed(e)], faults),
       sound |-> faults \subseteq NugetHarmless]

-----------------------------------------------------------------------------
(* An Android package: the JAR members above, a signing block and, where    *)
(* "sidecar" says so, a v4 sidecar.  70 is the content the block signs, 80  *)
(* the root over the whole file.                                            *)
MCAttribute(id, value, lineage) ==
  [id |-> id, sized |-> TRUE, value |-> value, lineage |-> lineage]
NoLineage == [version |-> TRUE, levels |-> << >>]

MCLineage(faults) ==
  LET level(certificate, signedWith, next, good) ==
        [framed |-> TRUE, certificate |-> certificate, key |-> "rsa", signedWith |-> signedWith,
         next |-> next, good |-> good]
      old == Pick("lineage-foreign" \in faults, "c9", "c1")
  IN  [version |-> TRUE,
       levels |-> <<level(old, "none", "RsaPkcs1Sha256", TRUE),
                    level("c3", Pick("lineage-relabelled" \in faults, "RsaPkcs1Sha512",
                                     "RsaPkcs1Sha256"),
                          "none", "lineage-forged" \notin faults)>>]

ApkSigner(certificate, range, attributes, faults) ==
  LET good == "apk-signature-forged" \notin faults
      ids  == CASE "apk-verity-too" \in faults -> <<"RsaPkcs1Sha256", "VerityRsaSha256">>
                [] "apk-two-strengths" \in faults -> <<"RsaPkcs1Sha256", "RsaPkcs1Sha512">>
                [] "apk-unknown-too" \in faults -> <<"RsaPkcs1Sha256", "0x9999">>
                [] "apk-dsa" \in faults -> <<"DsaSha256">>
                [] OTHER -> <<"RsaPkcs1Sha256">>
  IN  [framed |-> "apk-unframed" \notin faults, sdk |-> range,
       signedSdk |-> IF "apk-sdk-differs" \in faults THEN [range EXCEPT !.max = 40] ELSE range,
       signatures |-> [i \in DOMAIN ids |->
                         [id |-> ids[i], good |-> good /\ ~("apk-second-forged" \in faults /\ i = 2)]],
       digests |-> [i \in DOMAIN ids |->
                      [id |-> ids[i], of |-> Pick("apk-digest-other" \in faults /\ i = Len(ids),
                                                  71, 70), sized |-> TRUE]],
       certificates |-> <<[id |-> certificate, key |-> Pick("apk-key-ec" \in faults, "ec", "rsa")]>>,
       publicKey |-> Pick("apk-key-other" \in faults, "c9", certificate),
       attributes |-> attributes]

MCPairs(faults) ==
  LET rotated == "rotated" \in faults \/ "rotated-dev" \in faults
      dev   == "rotated-dev" \in faults
      since == CASE "sdk-hole" \in faults -> 35 [] dev -> 33 [] OTHER -> 34
      pair(id, signers) ==
        [id |-> id, length |-> 8, fits |-> TRUE, value |-> [framed |-> TRUE, signers |-> signers]]
      v2 == ApkSigner("c1", [min |-> AndroidN, max |-> MaxSdk],
                      If("stripping" \in faults, <<MCAttribute("stripping", 3, NoLineage)>>), faults)
      v3 == ApkSigner("c1", [min |-> AndroidP, max |-> IF rotated THEN 33 ELSE MaxSdk],
                      If(rotated /\ "rotation-unsaid" \notin faults,
                         <<MCAttribute("rotation-min-sdk", since, NoLineage)>>), faults)
      early == [v3 EXCEPT !.sdk.max = 30, !.signedSdk.max = 30]
      late  == LET from == Pick("v3-hole" \in faults, 32, 31)
               IN  [v3 EXCEPT !.sdk.min = from, !.signedSdk.min = from]
      v31 == ApkSigner("c3", [min |-> since, max |-> MaxSdk],
                       If("lineage-missing" \notin faults,
                          <<MCAttribute("lineage", 0, MCLineage(faults))>>)
                         \o If(dev, <<MCAttribute("dev-release", 0, NoLineage)>>), {})
  IN  <<pair("v2", <<v2>>)>>
        \o If("v3-missing" \notin faults,
              <<pair("v3", IF "v3-split" \in faults THEN <<early, late>> ELSE <<v3>>)>>)
        \o If("v3-twice" \in faults, <<pair("v3", <<v3>>)>>)
        \o If(rotated, <<pair("v3.1", <<v31>>)>>)
        \o If("pair-unknown" \in faults, <<pair("padding", << >>)>>)

MCApk(faults) ==
  [readable |-> TRUE, eocd |-> TRUE, zip64 |-> Pick("apk-zip64" \in faults, "locator", "none"),
   multiDisk |-> FALSE, central |-> 192, centralSize |-> 10,
   eocdOffset |-> 202 + Pick("apk-eocd-moved" \in faults, 1, 0), eocdLength |-> 22,
   magic |-> "block-missing-magic" \notin faults, trailing |-> 120,
   leading |-> Pick("block-sizes-differ" \in faults, 121, 120), pairs |-> MCPairs(faults),
   rereadable |-> "reread-fails" \notin faults,
   content |-> Pick("apk-changed" \in faults, 72, 70),
   whole |-> Pick("apk-changed" \in faults \/ "whole-changed" \in faults, 82, 80)]

MCSidecar(faults) ==
  LET info(certificate) ==
        [framed |-> TRUE, certificate |-> Pick("sidecar-certificate" \in faults, "c2", certificate),
         publicKey |-> Pick("sidecar-certificate" \in faults, "c2", certificate),
         algorithm |-> "RsaPkcs1Sha256", key |-> "rsa",
         digest |-> [of |-> Pick("sidecar-digest" \in faults, 71, 70), kind |-> ChunkedSha256],
         over |-> [size |-> 224 + Pick("sidecar-size" \in faults, 1, 0),
                   root |-> Pick("sidecar-root" \in faults, 81, 80),
                   digest |-> [of |-> Pick("sidecar-digest" \in faults, 71, 70),
                               kind |-> ChunkedSha256]]]
      rotated == "rotated" \in faults \/ "rotated-dev" \in faults
  IN  [readable |-> "sidecar-unreadable" \notin faults, size |-> 100,
       version |-> "sidecar-version" \notin faults, framed |-> TRUE, infosSize |-> 50,
       headerSize |-> 60, treeSize |-> Pick("sidecar-tree" \in faults, 0, TreeSize(224)),
       tree |-> 80, hashing |-> [supported |-> TRUE, salt |-> 0, framed |-> TRUE, root |-> 80],
       primary |-> info("c1"),
       blocks |-> If(rotated /\ "sidecar-unrotated" \notin faults,
                     <<[id |-> "v3.1", info |-> info("c3")]>>)]

ApkV1Faults == {"unsigned", "block-forged", "payload-changed", "payload-added", "second-signer",
                "second-short", "sf-needs-v3", "sf-needs-junk", "sf-sections-short", "cut"}
ApkBlockFaults ==
  {"lineage-foreign", "lineage-relabelled", "lineage-forged", "lineage-missing",
   "apk-signature-forged", "apk-verity-too", "apk-two-strengths", "apk-second-forged",
   "apk-unknown-too", "apk-dsa", "apk-unframed", "apk-sdk-differs", "apk-digest-other",
   "apk-key-ec", "apk-key-other", "sdk-hole", "stripping", "rotation-unsaid", "v3-missing",
   "v3-twice", "v3-split", "v3-hole", "pair-unknown", "apk-zip64", "apk-eocd-moved", "block-missing-magic",
   "block-sizes-differ", "reread-fails", "apk-changed"}
SidecarFaults ==
  {"sidecar-certificate", "sidecar-digest", "sidecar-size", "sidecar-root", "sidecar-unreadable",
   "sidecar-version", "sidecar-tree", "sidecar-unrotated", "whole-changed"}
ApkHarmless == {"unsigned", "second-signer", "sf-needs-v3", "apk-verity-too", "apk-two-strengths",
                "apk-unknown-too", "stripping", "v3-split", "pair-unknown", "rotated", "rotated-dev", "sidecar"}

MCAndroid(faults) ==
  LET entries == MCJarEntries(faults, Name("android-manifest", "a"))
      strong  == {"apk-verity-too", "apk-two-strengths", "v3-split"} \cap faults # {}
  IN  [entries |-> entries, cut |-> Pick("cut" \in faults, "read", "ok"), apk |-> MCApk(faults),
       limits |-> MCLimits(faults), zip |-> MCZip(MCDirectory(entries), faults),
       sidecar |-> If("sidecar" \in faults, <<MCSidecar(faults)>>),
       sound |-> faults \subseteq ApkHarmless /\ ~("sidecar" \in faults /\ strong)]

-----------------------------------------------------------------------------
(* An MSIX package: `bodies` is what its reader delivers, `files` what its  *)
(* block map lists.                                                         *)
MsixFaults ==
  {"hash-other", "blocks-short", "file-unlisted", "listed-missing", "size-differs", "lfh-differs",
   "hash-method", "namespace", "prefix-foreign", "prefix-ignorable", "footprint-listed",
   "names-collide", "body-changed", "body-short", "packed", "packed-total", "empty-file",
   "block-open", "after-root", "unsigned", "cut", "limit", "unreadable"}
MsixHarmless == {"prefix-ignorable", "packed", "empty-file"}

MCMsixFiles(faults) ==
  LET packed == {"packed", "packed-total"} \cap faults # {}
      span(content, from, to) ==
        [hash |-> <<content, from, to>>, size |-> IF packed THEN 1 ELSE NoBlockSize]
      data == [name |-> Name("file", "f"), folded |-> "f",
               size |-> Pick("size-differs" \in faults, 4, 3),
               lfh |-> Pick("lfh-differs" \in faults, 31, 30),
               blocks |-> <<span(2, 0, 2)>>
                            \o If("blocks-short" \notin faults,
                                  <<span(Pick("hash-other" \in faults, 9, 2), 2, 3)>>)]
      base == [name |-> Name("msix-manifest", "n"), folded |-> "n", size |-> 2, lfh |-> 30,
               blocks |-> <<[hash |-> <<1, 0, 2>>, size |-> NoBlockSize]>>]
  IN  <<base, data>>
        \o If("empty-file" \in faults, <<[base EXCEPT !.name = Name("file", "e"), !.folded = "e",
                                                      !.size = 0, !.blocks = << >>]>>)
        \o If("listed-missing" \in faults, <<[base EXCEPT !.name = Name("file", "g"),
                                                          !.folded = "g"]>>)
        \o If("footprint-listed" \in faults, <<[base EXCEPT !.name = Name("content-types", "t"),
                                                            !.folded = "t"]>>)
        \o If("names-collide" \in faults, <<[data EXCEPT !.name = Name("file", "F")]>>)

MCMsixXml(faults) ==
  LET plain(type, element) ==
        [type |-> type, element |-> element, prefix |-> "none", tooMany |-> FALSE, sound |-> TRUE,
         namespace |-> Pick("namespace" \in faults, "2017", "core"),
         method |-> Pick("hash-method" \in faults, "SHA-1", "SHA-256"), prefixes |-> {"x"},
         bound |-> {"x"}, name |-> NoEntry.name, folded |-> "", size |-> 0, lfh |-> 0,
         hash |-> <<0, 0, 0>>, blockSize |-> NoBlockSize]
      one(span) == <<[plain(Pick("block-open" \in faults, "start", "empty"), "Block") EXCEPT
                        !.hash = span.hash, !.blockSize = span.size]>>
      listed(f) == [plain(IF f.blocks = << >> THEN "empty" ELSE "start", "File") EXCEPT
                      !.name = f.name, !.folded = f.folded, !.size = f.size, !.lfh = f.lfh]
      whole(f) == <<listed(f)>> \o FoldLeft(LAMBDA all, b : all \o one(b), << >>, f.blocks)
                    \o If(f.blocks # << >>, <<plain("end", "File")>>)
      extension == <<[plain("start", "y") EXCEPT
                        !.prefix = Pick("prefix-foreign" \in faults, "q", "x")],
                     plain("end", "y")>>
      extended  == {"prefix-foreign", "prefix-ignorable"} \cap faults # {}
  IN  <<plain("decl", ""), plain("start", "BlockMap")>> \o If(extended, extension)
        \o FoldLeft(LAMBDA all, f : all \o whole(f), << >>, MCMsixFiles(faults))
        \o <<plain("end", "BlockMap")>> \o If("after-root" \in faults, <<plain("empty", "File")>>)
        \o <<plain("comment", ""), plain("eof", "")>>

MCMsix(faults) ==
  LET body(name, content, size) == [name |-> name, content |-> content, size |-> size]
      bodies ==
        <<body(Name("msix-manifest", "n"), 1, 2),
          body(Name("file", "f"), Pick("body-changed" \in faults, 9, 2),
               Pick("body-short" \in faults, 2, 3))>>
          \o If("empty-file" \in faults, <<body(Name("file", "e"), 4, 0)>>)
          \o If("file-unlisted" \in faults, <<body(Name("file", "u"), 5, 1)>>)
          \o <<body(Name("content-types", "t"), 6, 1), body(Name("block-map", "k"), 7, 1)>>
          \o If("unsigned" \notin faults, <<body(Name("msix-signature", "s"), 8, 1)>>)
      packed == {"packed", "packed-total"} \cap faults # {}
      declared(b) == IF b.name.id = "f" THEN 3 ELSE b.size
      member(b) ==
        [ZipMember(b.name, declared(b)) EXCEPT
           !.method = Pick(packed /\ b.name.id = "f", "deflate", "store"),
           !.fields[2] = Pick(packed /\ b.name.id = "f",
                              Pick("packed-total" \in faults, 5, 4), declared(b))]
      one(b) == <<[type |-> "Entry", name |-> b.name, declared |-> declared(b),
                   content |-> b.content]>>
                  \o If(b.size > 0, <<[type |-> "Data", size |-> 1]>>)
                  \o If(b.size > 1, <<[type |-> "Data", size |-> b.size - 1]>>)
                  \o <<[type |-> "EndEntry"]>>
      last == IF "cut" \in faults THEN [type |-> "Error", kind |-> "Read"] ELSE [type |-> "Done"]
  IN  [bodies |-> bodies, files |-> MCMsixFiles(faults), xml |-> MCMsixXml(faults),
       events |-> Append(FoldLeft(LAMBDA all, b : all \o one(b), << >>, bodies), last),
       zip |-> MCZip([b \in DOMAIN bodies |-> member(bodies[b])], faults),
       limits |-> MCLimits(faults), apk |-> [readable |-> FALSE], sidecar |-> << >>,
       sound |-> faults \subseteq MsixHarmless]

-----------------------------------------------------------------------------
(* A signed Alpine package; its members have the contents 101 to 103.       *)
AlpineFaults ==
  {"other-key", "unknown-key", "dsa", "sign-other", "sign-second", "sign-late", "sign-directory",
   "hash-missing", "hash-twice", "hash-malformed", "hash-other", "data-changed", "control-lost",
   "field-missing", "pkginfo-twice", "pkginfo-late", "duplicate", "unsafe", "unsigned",
   "error", "drain-fails", "not-gzip", "limit", "key-large", "key-torn", "key-pem", "key-short"}
AlpineHarmless == {"sign-second", "key-pem"}

MCAlpine(faults) ==
  LET line(key, value) == [form |-> "field", key |-> key, value |-> value]
      hash  == Pick("hash-malformed" \in faults, 0, Pick("hash-other" \in faults, 999, 103))
      info  == <<line("pkgname", 1), line("pkgver", 1)>>
                 \o If("field-missing" \notin faults, <<line("arch", 1)>>)
                 \o If("hash-missing" \notin faults, <<line("datahash", hash)>>)
                 \o If("hash-twice" \in faults, <<line("datahash", 103)>>)
      entry(name, class) ==
        [name |-> name, class |-> class, kind |-> "File", algorithm |-> "RSA256", key |-> "k1",
         over |-> 102, by |-> "c1", lines |-> << >>]
      sign  == [entry("sign", "sign") EXCEPT
                  !.algorithm = Pick("dsa" \in faults, "DSA", @),
                  !.key = Pick("unknown-key" \in faults, "k9", @),
                  !.by = Pick("other-key" \in faults, "c9", @),
                  !.over = Pick("sign-other" \in faults, 101, @),
                  !.kind = Pick("sign-directory" \in faults, "Directory", @)]
      again == [entry("sign2", "sign") EXCEPT !.key = "k9"]
      meta  == [entry("pkginfo", "pkginfo") EXCEPT !.lines = info]
      data  == entry(Pick("duplicate" \in faults, "pkginfo", "data"),
                     Pick("unsafe" \in faults, "unsafe", "data"))
      one(e) == <<[type |-> "Entry", entry |-> e], [type |-> "Data", size |-> 2],
                  [type |-> "EndEntry"]>>
      order == If("unsigned" \notin faults /\ "sign-late" \notin faults, one(sign))
                 \o If("sign-second" \in faults, one(again))
                 \o If("pkginfo-late" \notin faults, one(meta))
                 \o If("pkginfo-twice" \in faults, one(meta)) \o one(data)
                 \o If("pkginfo-late" \in faults, one(meta)) \o If("sign-late" \in faults, one(sign))
      last  == IF "error" \in faults THEN [type |-> "Error", kind |-> "format"]
               ELSE [type |-> "Done"]
      member(of, captured) == [of |-> of, captured |-> captured]
      signs == {"unsigned", "sign-second"} \cap faults # {"unsigned"}
      after == <<member(102, "control-lost" \notin faults),
                 member(Pick("data-changed" \in faults, 104, 103), FALSE)>>
  IN  [alpine |-> [prefix |-> Pick("not-gzip" \in faults, "other", "gzip"),
                   events |-> Append(order, last), drains |-> "drain-fails" \notin faults,
                   evidence |-> If(signs, <<member(101, TRUE)>>) \o after],
       info |-> info,
       keys |-> {[id |-> "k1", certificate |-> "c1", small |-> "key-large" \notin faults,
                  pem |-> CASE "key-torn" \in faults -> "torn"
                            [] "key-pem" \in faults -> "whole" [] OTHER -> "none",
                  der |-> [form |-> Pick("key-pem" \in faults, "spki", "pkcs1"),
                           bits |-> Pick("key-short" \in faults, 1024, 2048), exponent |-> 3]]},
       limits |-> MCLimits(faults),
       sidecar |-> << >>, sound |-> faults \subseteq AlpineHarmless]

-----------------------------------------------------------------------------
(* The archive inside a Debian or RPM package, and a Debian package.        *)
MCNested(faults) ==
  LET size == Pick("nested-tiny" \in faults, 1, 5)
  IN  [length |-> size,
       filter |-> CASE "nested-xz" \in faults -> "xz" [] "nested-odd" \in faults -> "lzma"
                    [] OTHER -> "none",
       entries |-> <<[at |-> 1, path |-> "root"]>> \o If("nested-tiny" \notin faults,
                     <<[at |-> 2, path |-> "p"],
                       [at |-> 4, path |-> CASE "nested-unsafe" \in faults -> "unsafe"
                                             [] "nested-twice" \in faults -> "p" [] OTHER -> "q"]>>),
       end |-> CASE "nested-early" \in faults -> Pick(size = 1, 1, 3)
                 [] "nested-endless" \in faults -> Never
                 [] "nested-tiny" \in faults -> AtFinish
                 [] "nested-at-finish" \in faults -> AtFinish [] OTHER -> 5,
       error |-> [at |-> CASE "nested-error" \in faults -> Pick(size = 1, 1, 3) [] "nested-late" \in faults -> AtFinish
                           [] OTHER -> Never,
                  kind |-> "Malformed"]]

NestedFaults == {"nested-tiny", "nested-xz", "nested-odd", "nested-unsafe", "nested-twice",
                 "nested-early", "nested-endless", "nested-at-finish", "nested-error", "nested-late"}
DebFaults == NestedFaults \cup
  {"swapped", "stamp-last", "control-missing", "data-twice", "stamp-bad", "stamp-long",
   "member-unknown", "member-unsafe", "pieces", "error", "error-early"}
DebHarmless == {"pieces", "nested-xz", "nested-early", "nested-tiny", "nested-at-finish"}

MCDeb(faults) ==
  LET member(role, version, archive) ==
        [role |-> role, safe |-> TRUE, version |-> version, archive |-> archive]
      stamp   == [member("DebianBinary", CASE "stamp-bad" \in faults -> 0
                                           [] "stamp-long" \in faults -> 9 [] OTHER -> 4,
                         NoDebMember.archive) EXCEPT !.archive.length = 9]
      control == member("Control", 0, MCNested({}))
      data    == [member("Data", 0, MCNested(faults)) EXCEPT
                    !.safe = "member-unsafe" \notin faults]
      other   == [stamp EXCEPT !.role = "Unknown"]
      pieces(n) == IF "pieces" \in faults THEN [i \in 1..n |-> [type |-> "Data", size |-> 1]]
                   ELSE <<[type |-> "Data", size |-> n]>>
      one(m) == <<[type |-> "Entry", member |-> m]>> \o pieces(m.archive.length)
                  \o <<[type |-> "EndEntry"]>>
      broken == <<[type |-> "Error"]>>
  IN  [events |-> If("stamp-last" \notin faults, one(stamp))
                    \o If("swapped" \in faults, one(data)) \o If("error-early" \in faults, broken)
                    \o If("control-missing" \notin faults, one(control))
                    \o If("member-unknown" \in faults, one(other))
                    \o If("swapped" \notin faults, one(data)) \o If("data-twice" \in faults, one(data))
                    \o If("stamp-last" \in faults, one(stamp))
                    \o IF "error" \in faults THEN broken ELSE <<[type |-> "Done"]>>,
       limits |-> MCLimits(faults), sidecar |-> << >>, sound |-> faults \subseteq DebHarmless]

-----------------------------------------------------------------------------
(* An RPM package: its payload lies at 12..17 of the file.                  *)
RpmFaults == NestedFaults \cup
  {"digest-of-archive", "digest-twice", "digest-list", "digest-malformed", "digest-kind",
   "algo", "algo-other", "algo-alone", "alt", "alt-other", "sha512-too", "sha512-other",
   "undigested", "payload-limit", "lead", "store-large", "truncated", "format", "gzip-declared"}
RpmHarmless == {"nested-early", "nested-at-finish", "alt", "algo", "sha512-too"}

MCRpmFile(faults) ==
  LET whole == <<12, 17>>
      other == <<12, 15>>
      tag(algorithm, scope, kind, values) ==
        [algorithm |-> algorithm, scope |-> scope, kind |-> kind, values |-> values]
      main == tag("sha256", "payload", Pick("digest-kind" \in faults, "string", "array"),
                  CASE "digest-of-archive" \in faults -> <<other>>
                    [] "digest-list" \in faults -> <<whole, other>>
                    [] "digest-malformed" \in faults -> <<NoDigest>> [] OTHER -> <<whole>>)
      algo == tag("sha256algo", "payload", "int32",
                  <<Pick("algo-other" \in faults, <<9, 9>>, Sha256Algorithm)>>)
      tags == If({"undigested", "algo-alone"} \cap faults = {}, <<main>>)
                \o If("digest-twice" \in faults, <<main>>)
                \o If({"algo", "algo-other", "algo-alone"} \cap faults # {}, <<algo>>)
                \o If({"alt", "alt-other"} \cap faults # {},
                      <<tag("sha256", "alt", "array", <<Pick("alt-other" \in faults, other, whole)>>)>>)
                \o If({"sha512-too", "sha512-other"} \cap faults # {},
                      <<tag("sha512", "payload", "string",
                            <<Pick("sha512-other" \in faults, other, whole)>>)>>)
  IN  [length |-> Pick("truncated" \in faults, 10, 17), readable |-> TRUE,
       lead |-> "lead" \notin faults, metadata |-> 6,
       limit |-> Pick("payload-limit" \in faults, 3, 20),
       signature |-> [magic |-> TRUE, at |-> 2, entries |-> 1, store |-> 3],
       main |-> [magic |-> TRUE, at |-> 8, entries |-> 1,
                 store |-> Pick("store-large" \in faults, 9, 2), tags |-> tags],
       compressor |-> CASE "gzip-declared" \in faults -> "gzip"
                        [] "nested-xz" \in faults -> "xz" [] OTHER -> "none",
       format |-> Pick("format" \in faults, "other", "cpio"), payload |-> MCNested(faults),
       payloadAt |-> 12]

MCRpm(faults) == [rpm |-> MCRpmFile(faults), sidecar |-> << >>, limits |-> MCLimits(faults),
                  sound |-> faults \subseteq RpmHarmless]

-----------------------------------------------------------------------------
MCPackageOf(item) ==
  LET faults == item.faults
  IN  CASE item.profile = "Jar"    -> MCJar(faults)
        [] item.profile = "Wheel"  -> MCWheel(faults)
        [] item.profile = "Epub"   -> MCEpub(faults)
        [] item.profile = "Ipa"    -> MCIpa(faults)
        [] item.profile = "NuGet"  -> MCNuget(faults)
        [] item.profile = "AndroidApk" -> MCAndroid(faults)
        [] item.profile = "Msix"   -> MCMsix(faults)
        [] item.profile = "Alpine" -> MCAlpine(faults)
        [] item.profile = "Deb"    -> MCDeb(faults)
        [] item.profile = "Rpm"    -> MCRpm(faults)

(* At most two differences at once, at most one in a second family.         *)
UpTo1(S) == {{}} \cup {{x} : x \in S}
UpTo2(S) == {{x, y} : x, y \in S} \cup {{}}
Of(profile, sets) == [profile : {profile}, faults : sets]

MCShipments ==
  Of("Jar", UpTo2(JarFaults)) \cup Of("Wheel", UpTo2(WheelFaults))
    \cup Of("Epub", UpTo2(EpubFaults)) \cup Of("Ipa", UpTo1({"plist-missing", "unreadable"}))
    \cup Of("NuGet", UpTo2(NugetFaults)) \cup Of("Msix", UpTo2(MsixFaults))
    \cup Of("Alpine", UpTo2(AlpineFaults)) \cup Of("Deb", UpTo2(DebFaults))
    \cup Of("AndroidApk", {base \cup one \cup two :
              base \in {{}, {"rotated"}, {"rotated-dev"}},
              one \in UpTo1(ApkBlockFaults), two \in UpTo1(ApkV1Faults)})
    \cup Of("AndroidApk", {base \cup two : base \in {{}, {"rotated"}, {"unsigned"}},
                                           two \in UpTo2(ApkBlockFaults)})
    \cup Of("AndroidApk", {{"sidecar"} \cup base \cup one \cup two :
              base \in {{}, {"rotated"}}, one \in UpTo1(SidecarFaults),
              two \in UpTo1(ApkBlockFaults)})
    \cup Of("Rpm", UpTo2(RpmFaults))

MCPolicies == {[trusted |-> {}, allowUnsigned |-> TRUE],
               [trusted |-> {"c1", "c2"}, allowUnsigned |-> FALSE]}

-----------------------------------------------------------------------------
(***************************************************************************)
(* The package run: one package verified end to end (PackageVerifier), or   *)
(* one file of gzip members tracked (AlpineApk), or the digests of one      *)
(* APK computed (ApkDigest).  The three never share state; `job` is the one *)
(* this behaviour is about and the others keep a fixed initial state.       *)
(***************************************************************************)

VARIABLE job

(* Members of two bytes, the first of them without content or all alike,    *)
(* more of them than are tracked or captured, data after them, and a file   *)
(* cut inside its last member.                                              *)
MCFiles ==
  {[members |-> [m \in 1..count |-> [length |-> 2, decoded |-> IF m = 1 THEN first ELSE 2]],
    trailing |-> damage[1], cut |-> damage[2]] :
     count \in {1, 2, 4}, first \in {0, 3}, damage \in {<<0, 0>>, <<1, 0>>, <<2, 0>>, <<0, 1>>}}

OneFile == [members |-> << >>, trailing |-> 0, cut |-> 0]

Init_Package ==
  /\ job = "package"
  /\ VerifierInit
  /\ GzInit(OneFile)
  /\ DigestInit(<<0, 0, 1>>)

Init_Gzip ==
  /\ job = "gzip"
  /\ \E f \in MCFiles : GzInit(f)
  /\ VerifierStart([profile |-> "Deb", faults |-> {}], [trusted |-> {}, allowUnsigned |-> TRUE])
  /\ DigestInit(<<0, 0, 1>>)

Init_Digest ==
  /\ job = "digest"
  /\ \E lengths \in [1..3 -> SectionLengths] : DigestInit(lengths)
  /\ VerifierStart([profile |-> "Deb", faults |-> {}], [trusted |-> {}, allowUnsigned |-> TRUE])
  /\ GzInit(OneFile)

RunInit == Init_Package \/ Init_Gzip \/ Init_Digest

RunNext ==
  \/ job = "package" /\ VerifierNext /\ UNCHANGED <<job, gzVars, digestVars>>
  \/ job = "gzip" /\ GzNext /\ UNCHANGED <<job, verifierVars, digestVars>>
  \/ job = "digest" /\ DigestNext /\ UNCHANGED <<job, verifierVars, gzVars>>

Spec == RunInit /\ [][RunNext]_<<job, verifierVars, gzVars, digestVars>>

(* The two incremental computations behind a signature are exact, however   *)
(* the source is cut into reads: the evidence of each gzip member is of its *)
(* own compressed bytes (alpine_signature.rs TrackingGzipReader), and the   *)
(* digests of an APK are those of its three sections (android_signature.rs, *)
(* android_v4_signature.rs).                                                *)
DigestsAreExact == MembersExact /\ DigestIsOfSource
=============================================================================
