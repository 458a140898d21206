----------------------------- MODULE DebPackage -----------------------------
(***************************************************************************)
(* The Debian package profile (libarchive_oxide-package/src/deb.rs), after  *)
(* the reading of an archive inside a package member that it shares with    *)
(* the RPM profile.                                                         *)
(***************************************************************************)
EXTENDS PackageFindings

-----------------------------------------------------------------------------
(***************************************************************************)
(* An archive inside a package member, read through a nested Pipeline as    *)
(* its bytes arrive: deb.rs TarMember and rpm.rs Payload, which share their *)
(* control (libarchive_oxide-package/src).                                  *)
(*                                                                         *)
(* The member is a record: `length` bytes, its outer `filter`, and what the *)
(* pipeline makes of them: entries [at, path] reported once `at` bytes were *)
(* fed, the end of the archive reported at byte `end` (or, for AtFinish,    *)
(* only after finish_input; for Never, not at all) and an error             *)
(* [at, kind] when `at` <= length, or at finish_input for AtFinish.         *)
(***************************************************************************)

CONSTANTS
  ProbeLength,       \* PROBE_LEN
  Codecs             \* filters the provider set can decode

ASSUME NestedArchiveAssumption == ProbeLength \in Nat /\ IsFiniteSet(Codecs)

AtFinish == 1000     \* only finish_input makes it happen
Never == 2000

NestedStart ==
  [prefix |-> 0, fed |-> 0, decided |-> FALSE, skip |-> FALSE, failed |-> FALSE,
   done |-> FALSE, finished |-> FALSE, filter |-> "none", seen |-> {}, findings |-> {}]

IsTerminal(nested) == nested.skip \/ nested.failed \/ nested.done

(* record_error. *)
NestedErrorCode(kind, afterFinish) ==
  CASE kind = "Limit" -> "DecompressionBomb"
    [] kind = "Capability" -> "UnsupportedCompression"
    [] kind = "Malformed" /\ afterFinish -> "TruncatedMember"
    [] OTHER -> "MalformedNesting"

RecordError(nested, kind, afterFinish) ==
  IF nested.failed THEN nested
  ELSE [nested EXCEPT !.failed = TRUE,
                      !.findings = @ \cup {NestedErrorCode(kind, afterFinish)}]

(* check_entry: the root itself is not checked.                             *)
CheckEntry(nested, entry) ==
  IF entry.path = "root" THEN nested
  ELSE IF entry.path = "unsafe"
  THEN [nested EXCEPT !.findings = @ \cup {"UnsafeEntryPath"}]
  ELSE IF entry.path \in nested.seen
  THEN [nested EXCEPT !.findings = @ \cup {"DuplicateEntryPath"}]
  ELSE [nested EXCEPT !.seen = @ \cup {entry.path}]

(* drive: everything the pipeline reports between two positions of its      *)
(* input.                                                                   *)
Drive(nested, archive, from, to) ==
  LET arrives(at) == from < at /\ at <= to
      reported == SelectSeq(archive.entries, LAMBDA entry :
                    arrives(entry.at) /\ entry.at <= archive.end /\ entry.at <= archive.error.at)
      checked  == FoldLeft(CheckEntry, nested, reported)
  IN  IF arrives(archive.error.at) /\ archive.error.at <= archive.end
      THEN RecordError(checked, archive.error.kind, nested.finished)
      ELSE IF arrives(archive.end) THEN [checked EXCEPT !.done = TRUE] ELSE checked

(* feed_pipeline. *)
FeedPipeline(nested, archive, count) ==
  IF IsTerminal(nested) THEN nested
  ELSE Drive([nested EXCEPT !.fed = @ + count], archive, nested.fed, nested.fed + count)

(* decide: FilterId::probe on the first bytes, then they are fed.           *)
DecideDroppingPrefix(nested, archive) ==
  [nested EXCEPT !.decided = TRUE, !.filter = archive.filter, !.prefix = 0]
Decide(nested, archive) ==
  LET probed == [nested EXCEPT !.decided = TRUE, !.filter = archive.filter]
  IN  IF archive.filter \notin Codecs \cup {"none"}
      THEN [probed EXCEPT !.skip = TRUE, !.findings = @ \cup {"UnsupportedCompression"}]
      ELSE FeedPipeline([probed EXCEPT !.prefix = 0], archive, nested.prefix)

(* feed. *)
FeedNested(nested, archive, count) ==
  LET need    == ProbeLength - nested.prefix
      take    == IF need < count THEN need ELSE count
      prefixed == [nested EXCEPT !.prefix = @ + take]
      decided == Decide(prefixed, archive)
  IN  IF IsTerminal(nested) THEN nested
      ELSE IF nested.decided THEN FeedPipeline(nested, archive, count)
      ELSE IF prefixed.prefix < ProbeLength THEN prefixed
      ELSE FeedPipeline(decided, archive, count - take)

(* finish. *)
FinishNested(nested, archive) ==
  LET decided == IF nested.decided THEN nested ELSE Decide(nested, archive)
      ended   == Drive([decided EXCEPT !.finished = TRUE], archive, AtFinish - 1, AtFinish)
  IN  IF nested.skip \/ nested.failed THEN nested
      ELSE IF IsTerminal(decided) THEN decided
      ELSE IF IsTerminal(ended) THEN ended
      ELSE [ended EXCEPT !.failed = TRUE, !.findings = @ \cup {"TruncatedMember"}]

-----------------------------------------------------------------------------
(* What the archive is, whatever pieces it came in: read to its end before  *)
(* any error, by a codec the build has.                                     *)
NestedIntact(archive) ==
  /\ archive.filter \in Codecs \cup {"none"}
  /\ archive.end <= archive.length \/ archive.end = AtFinish
  /\ archive.error.at > archive.end

-----------------------------------------------------------------------------
(***************************************************************************)
(* The Debian package profile (libarchive_oxide-package/src/deb.rs): an ar  *)
(* container of debian-binary, control.tar and data.tar, the last two read  *)
(* through a nested pipeline while the container is read.                   *)
(*                                                                         *)
(* The container's events are Entry [member], Data [size], EndEntry, Error  *)
(* and Done; a member is [role, safe, version, archive], where `version` is *)
(* the number of bytes of the stamp up to and including its line feed, or 0 *)
(* when it is no 2.x stamp.                                                 *)
(***************************************************************************)

CONSTANT VersionCap     \* VERSION_CAP

ASSUME DebAssumption == VersionCap \in Nat

(* Role::rank. *)
Rank(role) == CASE role = "DebianBinary" -> 0 [] role = "Control" -> 1 [] role = "Data" -> 2

NoDebMember == [role |-> "none", safe |-> TRUE, version |-> 0,
             archive |-> [length |-> 0, filter |-> "none", entries |-> << >>,
                          end |-> Never, error |-> [at |-> Never, kind |-> "ok"]]]

DebStart ==
  [readable |-> TRUE, stopped |-> FALSE, findings |-> {}, index |-> 0, seen |-> {},
   versionOk |-> FALSE, reported |-> FALSE, lastRank |-> -1, current |-> NoDebMember,
   body |-> 0, nested |-> NestedStart, compression |-> [Control |-> "none", Data |-> "none"]]

(* begin_member, with push_duplicate and check_order.                       *)
BeginMember(state, member) ==
  LET first   == state.index = 0 /\ member.role # "DebianBinary"
      counted == [state EXCEPT !.index = @ + 1]
      begun   == [counted EXCEPT !.findings = @ \cup (IF first THEN {"MissingDebianBinary"} ELSE {}),
                                 !.reported = @ \/ first]
  IN  IF ~member.safe
      THEN [counted EXCEPT !.findings = @ \cup {"UnsafeMemberName"}, !.current = NoDebMember]
      ELSE IF member.role = "Unknown"
      THEN [begun EXCEPT !.findings = @ \cup {"UnknownMember"}, !.current = NoDebMember]
      ELSE [begun EXCEPT
              !.findings = @ \cup (IF member.role \in state.seen THEN {"DuplicateMember"} ELSE {})
                             \cup (IF Rank(member.role) < state.lastRank
                                   THEN {"UnexpectedMemberOrder"} ELSE {}),
              !.seen = @ \cup {member.role},
              !.lastRank = IF Rank(member.role) > @ THEN Rank(member.role) ELSE @,
              !.current = member, !.body = 0, !.nested = NestedStart]

(* Member::feed: the stamp is kept up to VERSION_CAP bytes.                 *)
FeedMember(state, size) ==
  CASE state.current.role = "DebianBinary" ->
         [state EXCEPT !.body = IF @ + size > VersionCap THEN VersionCap ELSE @ + size]
    [] state.current.role \in {"Control", "Data"} ->
         LET nested == FeedNested(state.nested, state.current.archive, size)
         IN  [state EXCEPT !.nested = nested, !.findings = @ \cup nested.findings]
    [] OTHER -> state

(* finish_member. *)
FinishDebMember(state) ==
  LET member  == state.current
      stamped == member.version # 0 /\ member.version <= state.body
      nested  == FinishNested(state.nested, member.archive)
      closed  == [state EXCEPT !.current = NoDebMember]
  IN  CASE member.role = "DebianBinary" ->
             [closed EXCEPT !.versionOk = stamped,
                            !.findings = @ \cup (IF stamped THEN {} ELSE {"InvalidVersionStamp"})]
        [] member.role \in {"Control", "Data"} ->
             [closed EXCEPT !.findings = @ \cup nested.findings,
                            !.compression[member.role] = nested.filter]
        [] OTHER -> closed

(* The loop of DebValidator::validate. *)
DebEvent(state, event) ==
  IF state.stopped THEN state
  ELSE CASE event.type = "Entry" -> BeginMember(FinishDebMember(state), event.member)
         [] event.type = "Data" -> FeedMember(state, event.size)
         [] event.type = "EndEntry" -> FinishDebMember(state)
         [] event.type = "Error" ->
              [FinishDebMember(state) EXCEPT !.readable = FALSE, !.stopped = TRUE,
                                          !.findings = @ \cup {"ContainerUnreadable"}]
         [] event.type = "Done" -> [state EXCEPT !.stopped = TRUE]

(* finalize. *)
DebFinalize(state) ==
  LET missing == IF ~state.readable THEN {}
                 ELSE (IF "DebianBinary" \notin state.seen /\ ~state.reported
                       THEN {"MissingDebianBinary"} ELSE {})
                        \cup (IF {"Control", "Data"} \subseteq state.seen
                              THEN {} ELSE {"MissingRequiredMember"})
      findings == state.findings \cup missing
  IN  [readable |-> state.readable, findings |-> findings,
       profileValid |-> /\ state.readable /\ state.versionOk
                        /\ \A code \in findings : Severity(code) = "Info"
                        /\ {"DebianBinary", "Control", "Data"} \subseteq state.seen]

ValidateDeb(events) == DebFinalize(FoldLeft(DebEvent, DebStart, events))

-----------------------------------------------------------------------------
(* The profile without the reader: exactly the three members, in order,     *)
(* each whole and of its kind, and the container read to its end.           *)
DebMembers(events) == SelectSeq(events, LAMBDA event : event.type = "Entry")
DebConforms(events) ==
  LET entries == DebMembers(events)
      safe(archive) ==
        /\ NestedIntact(archive)
        /\ \A i, j \in DOMAIN archive.entries :
             LET path == archive.entries[i].path
             IN  archive.entries[i].at <= archive.end =>
                   /\ path # "unsafe"
                   /\ path = archive.entries[j].path /\ path # "root" /\ i # j
                        => archive.entries[j].at > archive.end
  IN  /\ \A i \in DOMAIN events : events[i].type # "Error"
      /\ Len(entries) = 3
      /\ \A i \in DOMAIN entries :
           entries[i].member.safe /\ entries[i].member.role = <<"DebianBinary", "Control", "Data">>[i]
      /\ entries[1].member.version \in 1..VersionCap
      /\ safe(entries[2].member.archive) /\ safe(entries[3].member.archive)
=============================================================================
