---------------------------- MODULE ZipIntegrity ----------------------------
(***************************************************************************)
(* Integrity of ZIP packages (libarchive_oxide-package/src/integrity.rs):   *)
(* collecting the entries of the archive under a metadata budget, and       *)
(* checking them against a JAR manifest or against a wheel's RECORD.        *)
(*                                                                         *)
(* The bytes of an entry are a number, its content; a digest over them is   *)
(* [alg, of], where `of` is the content it was computed from and Malformed  *)
(* is a value that does not decode.  A name is [class, id]: the class is    *)
(* what the code reads off the name's spelling.                             *)
(***************************************************************************)
EXTENDS PackageFindings

Malformed == 0
NoEntry == [name |-> [class |-> "none", id |-> 0]]

(* jar_signature.rs: the names a signature may be made of, and the names    *)
(* no manifest has to cover.                                                *)
IsJarSignatureMetadata(name) == name.class \in {"manifest", "sf", "block"}
IsJarSignatureRelated(name) == IsJarSignatureMetadata(name) \/ name.class = "sig"

(* A payload entry: neither a directory nor part of a signature.            *)
IsJarPayload(entry) ==
  entry.name.class # "dir" /\ ~IsJarSignatureRelated(entry.name)

-----------------------------------------------------------------------------
(* collect_entries: one reader event.  A failure ends the collection and is *)
(* "read" or "limit", the two CollectErrors.  retained has the names of the  *)
(* entries whose bodies are kept.                                           *)
CollectStart ==
  [current |-> NoEntry, used |-> 0, entries |-> << >>, failure |-> "ok", done |-> FALSE]

Feed(state, size, retained, limit) ==
  LET used == IF retained THEN state.used + size ELSE state.used
  IN  IF retained /\ used > limit
      THEN [state EXCEPT !.used = used, !.failure = "limit"]
      ELSE [state EXCEPT !.used = used]

CollectEvent(state, event, retained, limit) ==
  IF state.done \/ state.failure # "ok"
  THEN state
  ELSE CASE event.type = "Error" -> [state EXCEPT !.failure = event.kind]
         [] event.type = "Entry" ->
              IF state.current # NoEntry
              THEN [state EXCEPT !.failure = "read"]
              ELSE [state EXCEPT !.current = event.entry]
         [] event.type = "Data" ->
              IF state.current = NoEntry
              THEN [state EXCEPT !.failure = "read"]
              ELSE Feed(state, event.size, state.current.name \in retained, limit)
         [] event.type = "EndEntry" ->
              IF state.current = NoEntry
              THEN [state EXCEPT !.failure = "read"]
              ELSE [state EXCEPT !.current = NoEntry,
                                 !.entries = Append(@, state.current)]
         [] event.type = "Done" ->
              IF state.current # NoEntry
              THEN [state EXCEPT !.failure = "read"]
              ELSE [state EXCEPT !.done = TRUE]

(* The events SeekArchiveReader gives for a sequence of entries, cut short  *)
(* by a failure of the reader when `cut` is not "ok".                       *)
EventsOf(entries, cut) ==
  LET one(entry) == <<[type |-> "Entry", entry |-> entry],
                      [type |-> "Data", size |-> entry.size],
                      [type |-> "EndEntry"]>>
      all == FoldLeft(LAMBDA events, entry : events \o one(entry), << >>, entries)
  IN  IF cut = "ok"
      THEN Append(all, [type |-> "Done"])
      ELSE Append(SubSeq(all, 1, Len(all) - 1), [type |-> "Error", kind |-> cut])

NamesOf(entries) == {entries[i].name : i \in 1..Len(entries)}
CollectEntries(events, retained, limit) ==
  FoldLeft(LAMBDA state, event : CollectEvent(state, event, retained, limit),
           CollectStart, events)

-----------------------------------------------------------------------------
(* integrity_outcome: what the findings and the count of checked entries    *)
(* amount to.                                                               *)
IntegrityOutcome(checked, unsupported, findings) ==
  Outcome(IF findings \cap BreaksIntegrity # {} THEN "Invalid"
          ELSE IF unsupported THEN "Unsupported"
          ELSE IF checked = 0 THEN "NotPresent"
          ELSE "Verified", findings)

(* manifest_sections: the manifest's text is well formed, no section        *)
(* repeats a header, and the last one is terminated.                        *)
ManifestParses(manifest) == manifest.parses

(* validate_jar_manifest_layout. *)
ValidateJarManifestLayout(manifest) == manifest.version /\ ~manifest.mainHasName

(* JarDigestKind: SHA-256 < SHA-384 < SHA-512; no other header is a digest  *)
(* the verifier computes.                                                   *)
JarDigestKind(digest) ==
  CASE digest.alg = "SHA-256" -> 1
    [] digest.alg = "SHA-384" -> 2
    [] digest.alg = "SHA-512" -> 3
    [] OTHER -> 0

SelectedDigest(section) ==
  CHOOSE digest \in section.digests :
    \A other \in section.digests : JarDigestKind(other) <= JarDigestKind(digest)

(* verify_jar_digest. *)
VerifyJarDigest(digest, entry) ==
  IF digest.of = entry.content THEN {}
  ELSE IF digest.of = Malformed THEN {"InvalidIntegrityMetadata"}
       ELSE {"IntegrityMismatch"}

(* by_name: the last entry of a name is the one its section is checked      *)
(* against.                                                                 *)
EntryNamed(entries, name) ==
  SelectLastInSeq(entries, LAMBDA entry : entry.name = name)

(* verify_jar_section, for the section at one position of the manifest.     *)
(* `findings` are the codes it adds, `checked` whether a digest was         *)
(* compared, `unsupported` whether only unknown digests were there.         *)
VerifyJarSection(manifest, entries, position) ==
  LET section  == manifest.sections[position]
      repeated == \E before \in 1..position - 1 :
                    manifest.sections[before].name = section.name
      again    == IF repeated THEN {"InvalidIntegrityMetadata"} ELSE {}
      at       == EntryNamed(entries, section.name)
      known    == {digest \in section.digests : JarDigestKind(digest) > 0}
  IN  IF at = 0
      THEN [findings |-> again \cup {"MissingIntegrityRecord"},
            checked |-> FALSE, unsupported |-> FALSE]
      ELSE IF known # {}
      THEN [findings |-> again \cup VerifyJarDigest(SelectedDigest(section), entries[at]),
            checked |-> TRUE, unsupported |-> FALSE]
      ELSE IF section.digests = {}
      THEN [findings |-> again \cup {"MissingIntegrityRecord"},
            checked |-> FALSE, unsupported |-> FALSE]
      ELSE [findings |-> again \cup {"UnsupportedIntegrityAlgorithm"},
            checked |-> FALSE, unsupported |-> TRUE]

(* require_jar_coverage: every payload entry has a section.                 *)
RequireJarCoverageOfNone(manifest, entries) == {}
RequireJarCoverage(manifest, entries) ==
  IF \E at \in DOMAIN entries :
       /\ IsJarPayload(entries[at])
       /\ \A s \in DOMAIN manifest.sections :
            manifest.sections[s].name # entries[at].name
  THEN {"MissingIntegrityRecord"}
  ELSE {}

(* The first entry of a class, as `find` returns it; NoEntry when none is.  *)
FirstOfClass(entries, class) ==
  LET at == SelectInSeq(entries, LAMBDA entry : entry.name.class = class)
  IN  IF at = 0 THEN NoEntry ELSE entries[at]

(* verify_jar. *)
VerifyJar(entries) ==
  LET found    == FirstOfClass(entries, "manifest")
      manifest == found.body
      checks   == {VerifyJarSection(manifest, entries, s) : s \in DOMAIN manifest.sections}
      checked  == Cardinality({s \in DOMAIN manifest.sections :
                                 VerifyJarSection(manifest, entries, s).checked})
  IN  IF found = NoEntry
      THEN Outcome("NotEvaluated", {})
      ELSE IF ~ManifestParses(manifest) \/ ~ValidateJarManifestLayout(manifest)
      THEN Outcome("Invalid", {"InvalidIntegrityMetadata"})
      ELSE IntegrityOutcome(checked,
                            \E check \in checks : check.unsupported,
                            Gather(checks, LAMBDA check : check.findings)
                              \cup RequireJarCoverage(manifest, entries))

-----------------------------------------------------------------------------
(* parse_wheel_rows: a line that is not three CSV fields (csv_fields) is    *)
(* left out with a finding; the last row of a path is the one kept.         *)
WheelRows(record) == SelectSeq(record.rows, LAMBDA row : row.fields = 3)

RowFor(record, name) ==
  LET rows == WheelRows(record)
      at   == SelectLastInSeq(rows, LAMBDA row : row.path = name)
  IN  IF at = 0 THEN [path |-> NoEntry.name] ELSE rows[at]

ParseWheelFindings(record) ==
  LET rows == WheelRows(record)
  IN  IF \/ Len(rows) # Len(record.rows)
         \/ ~Distinct([r \in DOMAIN rows |-> rows[r].path])
      THEN {"InvalidIntegrityMetadata"}
      ELSE {}

(* verify_wheel_size: NoSize is an empty field, BadSize one that is no      *)
(* unsigned decimal.                                                        *)
NoSize == -1
BadSize == -2

VerifyWheelSize(entry, row) ==
  IF row.size = entry.size THEN {}
  ELSE IF row.size = BadSize THEN {"InvalidIntegrityMetadata"}
       ELSE {"IntegrityMismatch"}

(* verify_wheel_row. *)
VerifyWheelRow(entry, row, recordName) ==
  LET result(findings, checked, unsupported) ==
        [findings |-> findings, checked |-> checked, unsupported |-> unsupported]
      size == VerifyWheelSize(entry, row)
  IN  IF entry.name = recordName
      THEN result(IF row.hash.alg # "empty" \/ row.size # NoSize
                  THEN {"InvalidIntegrityMetadata"} ELSE {}, FALSE, FALSE)
      ELSE IF row.hash.alg = "empty" \/ row.size = NoSize
      THEN result({"MissingIntegrityRecord"}, FALSE, FALSE)
      ELSE IF row.hash.alg = "no-separator"
      THEN result(size \cup {"InvalidIntegrityMetadata"}, FALSE, FALSE)
      ELSE IF JarDigestKind(row.hash) = 0
      THEN result(size \cup {"UnsupportedIntegrityAlgorithm"}, FALSE, TRUE)
      ELSE result(size \cup VerifyJarDigest(row.hash, entry), TRUE, FALSE)

(* verify_wheel: every entry but a directory or a RECORD signature needs a  *)
(* row that matches it.                                                     *)
VerifyWheel(entries) ==
  LET found  == FirstOfClass(entries, "record")
      record == found.body
      listed == {at \in DOMAIN entries :
                   entries[at].name.class \notin {"dir", "record-signature"}}
      row(at) == RowFor(record, entries[at].name)
      check(at) ==
        IF row(at).path = NoEntry.name
        THEN [findings |-> {"MissingIntegrityRecord"}, checked |-> FALSE,
              unsupported |-> FALSE]
        ELSE VerifyWheelRow(entries[at], row(at), found.name)
      checks == {check(at) : at \in listed}
  IN  IF found = NoEntry
      THEN Outcome("NotEvaluated", {})
      ELSE IntegrityOutcome(Cardinality({at \in listed : check(at).checked}),
                            \E result \in checks : result.unsupported,
                            ParseWheelFindings(record)
                              \cup Gather(checks, LAMBDA result : result.findings))

(* signature_state, for the profiles whose signature is only noticed.       *)
SignatureState(profile, entries) ==
  IF profile = "Wheel" /\ FirstOfClass(entries, "record-signature") # NoEntry
  THEN "NotEvaluated"
  ELSE "NotPresent"
=============================================================================
