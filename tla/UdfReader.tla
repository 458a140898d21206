----------------------------- MODULE UdfReader ------------------------------
(***************************************************************************)
(* The UDF reader of libarchive_oxide/src/udf.rs.  UdfSeekReader::new      *)
(* finds a volume through one of three anchors, walks the file sets, the   *)
(* directories and the stream directories into an index, and starts over   *)
(* through the metadata mirror when the first walk meets damage; then      *)
(* next_event and skip_entry play the index back.                          *)
(*                                                                         *)
(* Every directory record is a step, so that a walk can be abandoned after *)
(* any of them.  A path is a sequence of names.  The parsers of single     *)
(* structures are parameters here; an instance gives the operators of      *)
(* UdfFiles for them.                                                      *)
(***************************************************************************)
EXTENDS UdfFiles

CONSTANTS Anchor,                  \* block of the first anchor, 256 in the format
          Buffer,                  \* BUFFER, in cells
          VolumeSequence(_, _, _), \* ParseVolumeSequence
          FileSets(_, _, _, _),    \* FileSetSequence
          FileEntry(_, _, _, _),   \* ParseFileEntry
          NextRecord(_, _)         \* NextFid

VARIABLES image,    \* what the input holds
          lim,      \* Limits
          phase,    \* where UdfSeekReader::new, then the caller, is
          err,      \* the error the caller was given
          anchors,  \* the anchors still to try, and the error of the last
          volume,   \* VolumeSet
          st,       \* what UdfParser keeps from step to step
          stack,    \* directories to read
          streams,  \* stream directories to read
          open,     \* the directory that is being read
          body,     \* UdfBody and next_entry
          out       \* what next_event has returned of each entry

vars == <<image, lim, phase, err, anchors, volume, st, stack, streams, open, body, out>>

(***************************************************************************)
(* The parser.                                                             *)
(***************************************************************************)

(* probe_vrs: an NSR descriptor between BEA01 and TEA01.                    *)
ProbeVrs(vrs) ==
  \E i \in 1..Len(vrs) :
    /\ vrs[i] = "NSR"
    /\ \E j \in 1..(i - 1) : vrs[j] = "BEA" /\ \A k \in (j + 1)..(i - 1) : vrs[k] # "TEA"

(* UdfParser as UdfParser::new makes it.                                    *)
NewParser == [err |-> "ok", used |-> 0, decoded |-> 0, partitions |-> << >>, paths |-> {},
              icbs |-> [k \in {} |-> << >>], sdirs |-> {}, sicbs |-> {}, entries |-> << >>,
              file |-> NoFile]

(* reset_volume_contents.                                                   *)
ResetVolumeContentsButEntries(s) ==
  [s EXCEPT !.used = 0, !.decoded = 0, !.paths = {}, !.icbs = [k \in {} |-> << >>],
            !.sdirs = {}, !.sicbs = {}]
ResetVolumeContents(s) ==
  [s EXCEPT !.used = 0, !.decoded = 0, !.paths = {}, !.icbs = [k \in {} |-> << >>],
            !.sdirs = {}, !.sicbs = {}, !.entries = << >>]

(* activate_metadata_mirror: once, for the partition of the file set.       *)
CanActivateMirror(s, part) ==
  /\ s.partitions[part + 1].kind = "Metadata"
  /\ ~s.partitions[part + 1].using_mirror
  /\ s.partitions[part + 1].has_mirror
ActivateMirrorUnnoted(s, part) == s
ActivateMirror(s, part) == [s EXCEPT !.partitions[part + 1].using_mirror = TRUE]

Context(s) ==
  [image |-> image, lim |-> lim, partitions |-> s.partitions, revision |-> volume.revision]

(* account_decoded.                                                         *)
AccountDecoded(s, count) ==
  IF s.err # "ok" THEN s
  ELSE Guard([s EXCEPT !.decoded = @ + count], s.decoded + count <= lim.decoded, "Limit")

(* account_entry, then the push: the count is compared before the entry is  *)
(* added.                                                                   *)
AddEntry(s, entry) ==
  LET s0 == Account(Guard(s, Len(s.entries) < lim.entries, "Limit"),
                    1 + Len(entry.payload.extents), lim.metadata)
  IN  IF s0.err # "ok" THEN s0 ELSE [s0 EXCEPT !.entries = Append(@, entry)]

(* The path is new and within its limit.                                    *)
AddPath(s, path) ==
  LET s0 == Guard(Guard(s, Len(path) <= lim.path, "Limit"), path \notin s.paths, "Malformed")
  IN  IF s0.err # "ok" THEN s0 ELSE [s0 EXCEPT !.paths = @ \union {path}]

(***************************************************************************)
(* Directories.                                                            *)
(***************************************************************************)
Key(icb) == <<icb.part, icb.block>>
DirectoryTask(path, file, depth, icb, parent) ==
  [path |-> path, payload |-> file.payload, length |-> file.size, depth |-> depth,
   icb |-> icb, parent |-> parent]
StreamTask(system, path, icb, file, sdir, depth) ==
  [system |-> system, path |-> path, owner |-> icb, inode |-> file.inode,
   size |-> file.size, object |-> file.object, sdir |-> sdir, depth |-> depth]

Closed == [on |-> FALSE]

(* The body of parse_volume_contents before its two loops.                  *)
BeginContents(s) ==
  LET ctx  == Context(s)
      s0   == Account(s, 1, lim.metadata)
      sets == FileSets(ctx, volume.fileset, 0, FileSetWalk(s0.used))
      s1   == Guard(s0, sets.err = "ok", sets.err)
      fs   == sets.sets[1]
      s2   == IF s1.err # "ok" THEN s1
              ELSE FileEntry(ctx, [s1 EXCEPT !.used = sets.used], fs.root, "Main")
      s3   == Guard(s2, s2.file.kind = "Dir" /\ s2.file.inode = 0, "Malformed")
      s4   == Account(s3, 1, lim.metadata)
      s5   == Account(s4, 1 + Len(s4.file.payload.extents), lim.metadata)
      named  == IF s5.file.sdir = NoIcb THEN << >>
                ELSE <<StreamTask(FALSE, << >>, fs.root, s5.file, s5.file.sdir, 1)>>
      system == IF fs.sdir = NoIcb THEN << >>
                ELSE <<StreamTask(TRUE, << >>, fs.sdir, NoFile, fs.sdir, 1)>>
      s6   == Account(s5, Len(named \o system), lim.metadata)
  IN  IF s6.err # "ok" THEN [s |-> s6, root |-> << >>, streams |-> << >>]
      ELSE [s |-> [s6 EXCEPT !.icbs = (Key(fs.root) :> <<"/">>) @@ @],
            root |-> <<DirectoryTask(<< >>, s6.file, 0, fs.root, fs.root)>>,
            streams |-> named \o system]

(* parse_directory, up to its loop.                                         *)
OpenDirectory(s, task) ==
  LET s0 == AccountDecoded(Guard(s, task.depth <= lim.nesting, "Limit"), task.length)
      dc == DirectoryCursor(task.payload, task.length, task.parent, NoBlock)
  IN  [s |-> Guard(s0, dc.err = "ok", dc.err), dc |-> dc]

(* One record in the loop of parse_directory.  A control block met before   *)
(* becomes a hard link to the first path that named it, and is not walked   *)
(* again.                                                                   *)
DirectoryRecord(s, task, fid) ==
  LET s0 == Guard(s, IcbValid(fid.icb, s.partitions) /\ fid.name # "", "Malformed")
      s1 == IF s0.err # "ok" THEN s0 ELSE FileEntry(Context(s), s0, fid.icb, "Main")
      file == s1.file
      path == Append(task.path, fid.name)
      s2 == AddPath(Guard(s1, fid.directory <=> file.kind = "Dir", "Malformed"), path)
      known == Key(fid.icb) \in DOMAIN s.icbs
      s3 == Guard(s2, known \/ fid.unique = file.inode, "Malformed")
      s4 == IF s3.err # "ok" \/ known THEN s3
            ELSE [s3 EXCEPT !.icbs = (Key(fid.icb) :> path) @@ @]
      entry == IF known
               THEN [path |-> path, kind |-> "Hardlink", size |-> 0, payload |-> NoPayload,
                     target |-> s.icbs[Key(fid.icb)]]
               ELSE [path |-> path, kind |-> file.kind, size |-> file.size,
                     payload |-> IF file.kind = "File" THEN file.payload ELSE NoPayload,
                     target |-> << >>]
      s5 == IF s4.err # "ok" THEN s4 ELSE AddEntry(s4, entry)
      dirs == IF known \/ file.kind # "Dir" THEN << >>
              ELSE <<DirectoryTask(path, file, task.depth + 1, fid.icb, task.icb)>>
      subs == IF known \/ file.sdir = NoIcb THEN << >>
              ELSE <<StreamTask(FALSE, path, fid.icb, file, file.sdir, task.depth + 1)>>
      s6 == Account(s5, Len(dirs) + Len(subs), lim.metadata)
  IN  [s |-> s6, dirs |-> dirs, streams |-> subs]

(* parse_stream_directory, up to its loop.                                  *)
SeenIcb(s, key) == key \in DOMAIN s.icbs \/ key \in s.sicbs \/ key \in s.sdirs
OpenStreamDirectory(s, task) ==
  LET key == Key(task.sdir)
      s0 == Guard(s, task.depth <= lim.nesting, "Limit")
      s1 == Guard(s0, ~SeenIcb(s, key), "Malformed")
      s2 == Account([s1 EXCEPT !.sdirs = @ \union {key}], 1, lim.metadata)
      s3 == IF s2.err # "ok" THEN s2
            ELSE FileEntry(Context(s), s2, task.sdir, "StreamDirectory")
      s4 == Guard(s3, s3.file.inode = IF task.system THEN 0 ELSE task.inode, "Malformed")
      s5 == AccountDecoded(s4, s4.file.size)
      dc == DirectoryCursor(s5.file.payload, s5.file.size, task.owner, s5.file.inode)
  IN  [s |-> Guard(s5, dc.err = "ok", dc.err), dc |-> dc]

(* udf_defined_stream_metadata: the metadata bit a name may come with.      *)
DefinedStreamMetadata(name) ==
  CASE name = "*UDF NT ACL" -> {FALSE} [] name = "*UDF Backup" -> {TRUE} [] OTHER -> BOOLEAN

(* udf_stream_archive_path.                                                 *)
StreamPath(task, name) ==
  IF task.system THEN <<"streams", "system", name>>
  ELSE <<"streams", "named">> \o (IF task.path = << >> THEN <<"root">> ELSE task.path)
       \o <<name>>

(* One record in the loop of parse_stream_directory.                        *)
StreamRecord(s, task, unique, fid) ==
  LET key == Key(fid.icb)
      s0 == Guard(s, /\ ~fid.directory /\ IcbValid(fid.icb, s.partitions) /\ fid.name # ""
                     /\ (task.system => fid.metadata)
                     /\ fid.metadata \in DefinedStreamMetadata(fid.name)
                     /\ fid.unique = unique /\ ~SeenIcb(s, key), "Malformed")
      s1 == Account([s0 EXCEPT !.sicbs = @ \union {key}], 1, lim.metadata)
      s2 == IF s1.err # "ok" THEN s1 ELSE FileEntry(Context(s), s1, fid.icb, "NamedStream")
      file == s2.file
      path == StreamPath(task, fid.name)
      s3 == AddPath(Guard(s2, file.links = 1 /\ file.inode = unique, "Malformed"), path)
  IN  IF s3.err # "ok" THEN s3
      ELSE AddEntry(s3, [path |-> path, kind |-> file.kind, size |-> file.size,
                         payload |-> file.payload, target |-> << >>])

(***************************************************************************)
(* The steps of UdfSeekReader::new.                                        *)
(***************************************************************************)
Fail(kind) == phase' = "failed" /\ err' = kind

Init0(chosen) ==
  /\ image = chosen.image /\ lim = chosen.lim
  /\ phase = "probe" /\ err = "ok" /\ anchors = [left |-> << >>, last |-> "Malformed"]
  /\ volume = [fileset |-> NoIcb, revision |-> 0, partitions |-> << >>]
  /\ st = NewParser /\ stack = << >> /\ streams = << >> /\ open = Closed
  /\ body = [state |-> "Metadata", next |-> 1] /\ out = << >>

(* The candidates of find_volume_set, without repetition.                   *)
Candidates ==
  LET last  == image.length \div BlockSize - 1
      wide  == Max({0, last - Anchor})
      first == <<Anchor>> \o (IF wide # Anchor THEN <<wide>> ELSE << >>)
  IN  first \o (IF last \in Range(first) THEN << >> ELSE <<last>>)

Probe ==
  /\ phase = "probe"
  /\ \/ /\ ProbeVrs(image.vrs) /\ image.length % BlockSize = 0
        /\ image.length \div BlockSize > Anchor /\ lim.inflight >= BlockSize
        /\ phase' = "anchors" /\ anchors' = [anchors EXCEPT !.left = Candidates]
        /\ UNCHANGED err
     \/ /\ ~(ProbeVrs(image.vrs) /\ image.length % BlockSize = 0) /\ Fail("Unsupported")
        /\ UNCHANGED anchors
     \/ /\ ProbeVrs(image.vrs) /\ image.length % BlockSize = 0
        /\ image.length \div BlockSize <= Anchor /\ Fail("Malformed") /\ UNCHANGED anchors
     \/ /\ ProbeVrs(image.vrs) /\ image.length % BlockSize = 0
        /\ image.length \div BlockSize > Anchor /\ lim.inflight < BlockSize /\ Fail("Limit")
        /\ UNCHANGED anchors
  /\ UNCHANGED <<image, lim, volume, st, stack, streams, open, body, out>>

(* What an anchor leads to: its main sequence or, after damage, its         *)
(* reserve; "retry" asks for the next anchor.                               *)
TryAnchor(block) ==
  LET r == Descriptor(image, block, "AVDP", block)
      d == r.d
      main == VolumeSequence(image, lim, d.main)
      reserve == VolumeSequence(image, lim, d.reserve)
      next(kind) == [err |-> kind, retry |-> TRUE]
      stop(kind) == [err |-> kind, retry |-> FALSE]
      settle(found) == IF found.err = "ok" THEN found ELSE stop(found.err)
  IN  CASE r.err # "ok" -> next(r.err)
        [] d.fault = "short" -> stop("Malformed")
        [] ~CanFallbackToReserve(main.err) -> settle(main)
        [] CanFallbackToReserve(reserve.err) -> next(reserve.err)
        [] OTHER -> settle(reserve)

FindVolumeSet ==
  /\ phase = "anchors" /\ anchors.left # << >>
  /\ LET found == TryAnchor(Head(anchors.left))
     IN  \/ /\ found.err = "ok"
            /\ volume' = found /\ st' = [st EXCEPT !.partitions = found.partitions]
            /\ phase' = "contents" /\ UNCHANGED <<err, anchors>>
         \/ /\ found.err # "ok" /\ found.retry
            /\ anchors' = [left |-> Tail(anchors.left), last |-> found.err]
            /\ UNCHANGED <<volume, st, phase, err>>
         \/ /\ found.err # "ok" /\ ~found.retry
            /\ Fail(found.err) /\ UNCHANGED <<volume, st, anchors>>
  /\ UNCHANGED <<image, lim, stack, streams, open, body, out>>

NoVolumeSet ==
  /\ phase = "anchors" /\ anchors.left = << >>
  /\ Fail(anchors.last)
  /\ UNCHANGED <<image, lim, anchors, volume, st, stack, streams, open, body, out>>

(* The end of parse_volume_contents with an error: parse starts it again    *)
(* through the mirror, or gives up.                                         *)
Abandon(kind) ==
  /\ IF CanFallbackToReserve(kind) /\ CanActivateMirror(st, volume.fileset.part)
     THEN /\ st' = ResetVolumeContents(ActivateMirror(st, volume.fileset.part))
          /\ phase' = "contents" /\ UNCHANGED err
     ELSE Fail(kind) /\ UNCHANGED st
  /\ stack' = << >> /\ streams' = << >> /\ open' = Closed

Contents ==
  /\ phase = "contents"
  /\ LET begun == BeginContents(st)
     IN  \/ /\ begun.s.err = "ok"
            /\ st' = begun.s /\ stack' = begun.root /\ streams' = begun.streams
            /\ phase' = "walk" /\ UNCHANGED <<err, open>>
         \/ begun.s.err # "ok" /\ Abandon(begun.s.err)
  /\ UNCHANGED <<image, lim, anchors, volume, body, out>>

(* stack.pop and parse_directory, then stream_tasks.pop and                 *)
(* parse_stream_directory once no directory is left.                        *)
NextDirectory ==
  /\ phase = "walk" /\ ~open.on /\ stack # << >>
  /\ LET o == OpenDirectory(st, Last(stack))
     IN  \/ /\ o.s.err = "ok" /\ st' = o.s /\ stack' = Front(stack)
            /\ open' = [on |-> TRUE, stream |-> FALSE, task |-> Last(stack), dc |-> o.dc,
                        total |-> 0]
            /\ UNCHANGED <<phase, err, streams>>
         \/ o.s.err # "ok" /\ Abandon(o.s.err)
  /\ UNCHANGED <<image, lim, anchors, volume, body, out>>

NextStreamDirectory ==
  /\ phase = "walk" /\ ~open.on /\ stack = << >> /\ streams # << >>
  /\ LET o == OpenStreamDirectory(st, Last(streams))
     IN  \/ /\ o.s.err = "ok" /\ st' = o.s /\ streams' = Front(streams)
            /\ open' = [on |-> TRUE, stream |-> TRUE, task |-> Last(streams), dc |-> o.dc,
                        total |-> Last(streams).size]
            /\ UNCHANGED <<phase, err, stack>>
         \/ o.s.err # "ok" /\ Abandon(o.s.err)
  /\ UNCHANGED <<image, lim, anchors, volume, body, out>>

DirectoryStep ==
  /\ phase = "walk" /\ open.on /\ ~open.stream
  /\ LET dc == NextRecord(Context(st), open.dc)
         r  == DirectoryRecord(st, open.task, dc.fid)
     IN  \/ dc.err # "ok" /\ Abandon(dc.err)
         \/ /\ dc.err = "ok" /\ dc.fid.zero /\ open' = Closed
            /\ UNCHANGED <<phase, err, st, stack, streams>>
         \/ /\ dc.err = "ok" /\ ~dc.fid.zero /\ r.s.err = "ok"
            /\ st' = r.s /\ stack' = stack \o r.dirs /\ streams' = streams \o r.streams
            /\ open' = [open EXCEPT !.dc = dc] /\ UNCHANGED <<phase, err>>
         \/ dc.err = "ok" /\ ~dc.fid.zero /\ r.s.err # "ok" /\ Abandon(r.s.err)
  /\ UNCHANGED <<image, lim, anchors, volume, body, out>>

(* The object size of the owner counts the streams that were listed.        *)
StreamStep ==
  /\ phase = "walk" /\ open.on /\ open.stream
  /\ LET dc == NextRecord(Context(st), open.dc)
         s  == StreamRecord(st, open.task, open.dc.unique, dc.fid)
         whole == open.task.system \/ open.total = open.task.object
     IN  \/ dc.err # "ok" /\ Abandon(dc.err)
         \/ dc.err = "ok" /\ dc.fid.zero /\ ~whole /\ Abandon("Malformed")
         \/ /\ dc.err = "ok" /\ dc.fid.zero /\ whole /\ open' = Closed
            /\ UNCHANGED <<phase, err, st, stack, streams>>
         \/ /\ dc.err = "ok" /\ ~dc.fid.zero /\ s.err = "ok" /\ st' = s
            /\ open' = [open EXCEPT !.dc = dc, !.total = @ + s.file.size]
            /\ UNCHANGED <<phase, err, stack, streams>>
         \/ dc.err = "ok" /\ ~dc.fid.zero /\ s.err # "ok" /\ Abandon(s.err)
  /\ UNCHANGED <<image, lim, anchors, volume, body, out>>

Parsed ==
  /\ phase = "walk" /\ ~open.on /\ stack = << >> /\ streams = << >>
  /\ phase' = "reading"
  /\ UNCHANGED <<image, lim, err, anchors, volume, st, stack, streams, open, body, out>>

(***************************************************************************)
(* next_event and skip_entry.                                              *)
(***************************************************************************)
ArchiveMetadata ==
  /\ phase = "reading" /\ body.state = "Metadata"
  /\ body' = [state |-> "Idle", next |-> 1]
  /\ UNCHANGED <<image, lim, phase, err, anchors, volume, st, stack, streams, open, out>>

EntryEvent ==
  /\ phase = "reading" /\ body.state = "Idle" /\ body.next <= Len(st.entries)
  /\ LET entry  == st.entries[body.next]
         cursor == Cursor(entry.payload, entry.size)
     IN  IF entry.payload.kind # "None" /\ cursor.err # "ok"
         THEN Fail(cursor.err) /\ UNCHANGED <<body, out>>
         ELSE /\ body' = [state |-> IF entry.payload.kind = "None" THEN "EndEntry" ELSE "Data",
                          next |-> body.next + 1, cursor |-> cursor]
              /\ out' = Append(out, [path |-> entry.path, cells |-> << >>, ended |-> FALSE,
                                     skipped |-> FALSE])
              /\ UNCHANGED <<phase, err>>
  /\ UNCHANGED <<image, lim, anchors, volume, st, stack, streams, open>>

(* A read of at most the event chunk; the total is compared with its limit  *)
(* after the bytes were read.                                               *)
DataEvent ==
  /\ phase = "reading" /\ body.state = "Data" /\ body.cursor.remaining # 0
  /\ LET count == Min({body.cursor.remaining, lim.inflight, Buffer})
         read  == ReadExact(image, [body.cursor EXCEPT !.cells = << >>], count)
         total == st.decoded + count
     IN  \/ /\ read.err # "ok" /\ Fail(read.err) /\ UNCHANGED <<st, body, out>>
         \/ /\ read.err = "ok" /\ total > lim.decoded /\ Fail("Limit")
            /\ st' = [st EXCEPT !.decoded = total] /\ body' = [body EXCEPT !.cursor = read]
            /\ UNCHANGED out
         \/ /\ read.err = "ok" /\ total <= lim.decoded
            /\ st' = [st EXCEPT !.decoded = total] /\ body' = [body EXCEPT !.cursor = read]
            /\ out' = [out EXCEPT ![Len(out)].cells = @ \o read.cells]
            /\ UNCHANGED <<phase, err>>
  /\ UNCHANGED <<image, lim, anchors, volume, stack, streams, open>>

EndEntryEvent ==
  /\ phase = "reading"
  /\ \/ body.state = "EndEntry"
     \/ body.state = "Data" /\ body.cursor.remaining = 0
  /\ body' = [body EXCEPT !.state = "Idle"]
  /\ out' = [out EXCEPT ![Len(out)].ended = TRUE]
  /\ UNCHANGED <<image, lim, phase, err, anchors, volume, st, stack, streams, open>>

(* skip_entry; a second one before the next event would change nothing.     *)
SkipEntry ==
  /\ phase = "reading" /\ body.state \in {"Data", "EndEntry"}
  /\ ~out[Len(out)].skipped
  /\ body' = [body EXCEPT !.state = "EndEntry"]
  /\ out' = [out EXCEPT ![Len(out)].skipped = TRUE]
  /\ UNCHANGED <<image, lim, phase, err, anchors, volume, st, stack, streams, open>>

DoneEvent ==
  /\ phase = "reading" /\ body.state = "Idle" /\ body.next > Len(st.entries)
  /\ phase' = "done" /\ body' = [body EXCEPT !.state = "Done"]
  /\ UNCHANGED <<image, lim, err, anchors, volume, st, stack, streams, open, out>>

ReaderStep ==
  \/ Probe \/ FindVolumeSet \/ NoVolumeSet \/ Contents \/ NextDirectory \/ DirectoryStep
  \/ NextStreamDirectory \/ StreamStep \/ Parsed
  \/ ArchiveMetadata \/ EntryEvent \/ DataEvent \/ EndEntryEvent \/ DoneEvent
=============================================================================
