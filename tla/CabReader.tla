----------------------------- MODULE CabReader ------------------------------
(***************************************************************************)
(* Microsoft cabinets (libarchive_oxide/src/cab.rs and cab/volume.rs).      *)
(* CabSeekReader reads one cabinet.  CabVolumeReader resolves the cabinets  *)
(* of a set one after the other, merges their tables into one logical       *)
(* cabinet whose data stays in the volumes, and reads that one.             *)
(*                                                                         *)
(* A cabinet is a record: the fields of its header, its two tables, and     *)
(* data, the data record at an offset.  Lengths count cells: a fixed record *)
(* and a name are one cell, the header two.  Checksums are one bit wide.    *)
(* Metadata is counted in items.  The build has the LZX and Quantum codecs. *)
(***************************************************************************)
EXTENDS Integers, Sequences, FiniteSets, SequencesExt, FiniteSetsExt, TLC

CONSTANT Frame     \* MSZIP_WINDOW, LZX_FRAME and QUANTUM_FRAME, in cells

CabHeaderSize == 2
CabFolderSize == 1
CabFileSize == 1
CabDataHeaderSize == 1

(* A computation carries the kind of its error, "ok" while it has none.     *)
Guard(s, holds, kind) ==
  IF s.err = "ok" /\ ~holds THEN [s EXCEPT !.err = kind] ELSE s
Total(seq) == FoldLeft(LAMBDA n, m : n + m, 0, seq)
Indexes(n) == [i \in 1..n |-> i]

-----------------------------------------------------------------------------
(* Names: empty, or an identity and the case it is written in.              *)
NameLength(name) == IF name = << >> THEN 0 ELSE 1
(* Mutant: the case of a name matters. *)
CabinetNameEqExact(left, right) == left = right
CabinetNameEq(left, right) ==
  Len(left) = Len(right) /\ (left # << >> => left[1] = right[1])

(* ensure_stream_extent. *)
Within(s, length, image) == Guard(s, s.pos + length <= image, "Malformed")

(* read_cstring and skip_cstring, which has no metadata to stay within.     *)
ReadCString(s, name, path, metadata, image) ==
  LET n  == NameLength(name)
      s1 == Guard(Within(s, 1, image), n <= path /\ n <= metadata, "Limit")
  IN  [Within(s1, n + 1, image) EXCEPT !.pos = @ + n + 1]
SkipCString(s, name, path, image) == ReadCString(s, name, path, 1, image)

(* The cabinet and disk names a header carries, in their order, and the     *)
(* names of the neighbours, each a sequence of at most one name.            *)
Names(c) ==
  (IF "prev" \in c.flags THEN <<c.prev, c.prevDisk>> ELSE << >>)
    \o (IF "next" \in c.flags THEN <<c.next, c.nextDisk>> ELSE << >>)
PreviousName(c) == IF "prev" \in c.flags THEN <<c.prev>> ELSE << >>
NextName(c) == IF "next" \in c.flags THEN <<c.next>> ELSE << >>

(* read_single_cab_header: cbCabinet is the boundary of everything read.    *)
SingleCabHeader(c) ==
  /\ c.length >= CabHeaderSize /\ c.signature
  /\ c.size >= CabHeaderSize /\ c.size <= c.length

(* The offset of the file table and the reserve fields.                     *)
FilesInside(c) == c.coff # 0 /\ c.coff < c.size
HasReserve(c) == "reserve" \in c.flags
ReserveFolder(c) == IF HasReserve(c) THEN c.reserve.folder ELSE 0
ReserveData(c) == IF HasReserve(c) THEN c.reserve.data ELSE 0
AfterReserve(c, s) ==
  IF HasReserve(c)
  THEN LET s1 == Within(s, 1 + c.reserve.header, c.size)
       IN  [s1 EXCEPT !.pos = @ + 1 + c.reserve.header]
  ELSE s

-----------------------------------------------------------------------------
(* parse_folder_method: a setting is refused, or asks for more memory than  *)
(* the codec may have.                                                      *)
Framed == {"Lzx", "Quantum"}
ParseFolderMethod(s, method, memory) ==
  IF method.kind \in Framed
  THEN Guard(Guard(s, method.valid, "Malformed"), method.window + 1 <= memory, "Limit")
  ELSE s

(* The data record at an offset; bytes that nothing laid out as a record    *)
(* declare more output than a frame holds.                                  *)
DataAt(c, offset) ==
  IF offset \in DOMAIN c.data THEN c.data[offset]
  ELSE [stored |-> 0, psum |-> 0, rsum |-> 0, cells |-> << >>, uncomp |-> Frame + 1, source |-> 1]
RecordHeader(c) == CabDataHeaderSize + ReserveData(c)

(* validate_cfdata_in_flight and validate_quantum_cfdata_in_flight.         *)
InFlight(data, uncomp) == Max({data + uncomp, 2 * uncomp})
QuantumInFlight(data, uncomp) == Max({2 * (data + 1) + uncomp, 2 * uncomp})
InFlightOf(method, data, uncomp) ==
  IF method.kind = "Quantum" THEN QuantumInFlight(data, uncomp) ELSE InFlight(data, uncomp)

(* validate_folder_record_extents: every record that is claimed is inside   *)
(* the cabinet, and no two folders share one.                               *)
WalkRecord(c, s) ==
  LET d  == DataAt(c, s.pos)
      s1 == Within(s, RecordHeader(c), c.size)
      s2 == Guard(s1, d.uncomp <= Frame, "Malformed")
      s3 == [s2 EXCEPT !.pos = @ + RecordHeader(c) + Len(d.cells), !.split = d.uncomp = 0]
  IN  IF s.err # "ok" THEN s ELSE Within(s3, 0, c.size)
Walk(c, folder) ==
  FoldLeft(LAMBDA s, i : WalkRecord(c, s),
           [err |-> "ok", pos |-> folder.offset, split |-> FALSE], Indexes(folder.count))

FolderRecordExtents(c, s, spanning) ==
  LET claimed == Total([i \in 1..Len(s.folders) |-> s.folders[i].count])
      end == [i \in 1..Len(s.folders) |-> Walk(c, s.folders[i])]
      s1 == Guard(s, claimed <= c.size \div RecordHeader(c), "Limit")
      s2 == Guard(s1, \A i \in DOMAIN end : /\ end[i].err = "ok"
                                            /\ ~(spanning /\ end[i].split), "Malformed")
      shared == \E i, j \in DOMAIN end :
                  /\ i # j /\ s.folders[i].count # 0 /\ s.folders[j].count # 0
                  /\ s.folders[i].offset <= s.folders[j].offset
                  /\ s.folders[j].offset < end[i].pos
  IN  Guard(s2, ~shared, "Malformed")

(* scan_lzx_folder and scan_quantum_folder: the output a folder declares,   *)
(* unknown (-1) when a record continues in another cabinet.                 *)
NoSize == -1
ScanRecord(c, method, bound, last, s) ==
  LET d  == DataAt(c, s.pos)
      n  == Len(d.cells)
      s1 == Within(s, RecordHeader(c), c.size)
      s2 == IF d.uncomp = 0
            THEN [Guard(s1, InFlightOf(method, n, 0) <= bound.inFlight, "Limit") EXCEPT
                    !.spanning = TRUE, !.pending = @ + n]
            ELSE [Guard(Guard(s1, /\ d.uncomp <= Frame
                                  /\ (method.kind = "Quantum" /\ ~last) => d.uncomp = Frame,
                              "Malformed"),
                        InFlightOf(method, s.pending + n, d.uncomp) <= bound.inFlight, "Limit")
                    EXCEPT !.decoded = @ + d.uncomp, !.pending = 0]
  IN  IF s.err # "ok" THEN s
      ELSE Within([s2 EXCEPT !.pos = @ + RecordHeader(c) + n], 0, c.size)
ScanFolder(c, folder, bound, spanning) ==
  LET s == FoldLeft(LAMBDA t, i : ScanRecord(c, folder.method, bound, i = folder.count, t),
                    [err |-> "ok", pos |-> folder.offset, decoded |-> 0, spanning |-> FALSE,
                     pending |-> 0], Indexes(folder.count))
  IN  [err |-> Guard(s, spanning => s.pending = 0, "Malformed").err,
       size |-> IF spanning \/ ~s.spanning THEN s.decoded ELSE NoSize]

(* scan_folder_outputs. *)
Scanned(s, i, scan) ==
  [Guard(s, scan.err = "ok", scan.err) EXCEPT !.folders[i].decoded = scan.size]
ScanKind(c, bound, spanning, kind, s) ==
  FoldLeft(LAMBDA t, i :
             IF t.err # "ok" \/ t.folders[i].method.kind # kind THEN t
             ELSE Scanned(t, i, ScanFolder(c, t.folders[i], bound, spanning)),
           s, Indexes(Len(s.folders)))
DecodedOf(folders, kind) ==
  Total([i \in 1..Len(folders) |->
           IF folders[i].method.kind = kind /\ folders[i].decoded # NoSize
           THEN folders[i].decoded ELSE 0])
TotalsWithin(bound, s) ==
  Guard(s, \A kind \in Framed : DecodedOf(s.folders, kind) <= bound.total, "Limit")
ScanFolderOutputs(c, bound, spanning, s) ==
  TotalsWithin(bound, ScanKind(c, bound, spanning, "Quantum",
                               ScanKind(c, bound, spanning, "Lzx",
                                        FolderRecordExtents(c, s, spanning))))

(* read_folders. *)
ReadFolder(c, bound, s, record) ==
  LET length == CabFolderSize + ReserveFolder(c)
      s1 == Guard(Within(s, length, c.size), record.offset < c.size, "Malformed")
      s2 == ParseFolderMethod(s1, record.method, bound.memory)
  IN  [s2 EXCEPT !.pos = @ + length,
                 !.folders = Append(@, [offset |-> record.offset, count |-> record.count,
                                        method |-> record.method, decoded |-> NoSize])]
ReadFolders(c, bound, spanning, s) ==
  LET s1 == Guard([err |-> s.err, pos |-> s.pos, folders |-> << >>],
                  Len(c.folders) <= bound.metadata, "Limit")
      s2 == FoldLeft(LAMBDA t, r : ReadFolder(c, bound, t, r), s1, c.folders)
  IN  IF s2.err # "ok" THEN s2 ELSE ScanFolderOutputs(c, bound, spanning, s2)

-----------------------------------------------------------------------------
(* Where a file goes on: the sentinels of iFolder.                          *)
FromPrevious == 65533
ToNext == 65534
PreviousAndNext == 65535
StartsBefore(file) == file.continuation \in {FromPrevious, PreviousAndNext}
ContinuesAfter(file) == file.continuation \in {ToNext, PreviousAndNext}
Whole == 0

(* validate_cabinet_file_order: by folder, then by offset, the continued    *)
(* files at the two ends.                                                   *)
CabinetFileOrder(files) ==
  \A i \in 1..Len(files) :
    /\ StartsBefore(files[i]) => i = 1
    /\ ContinuesAfter(files[i]) => i = Len(files)
    /\ i > 1 => \/ files[i - 1].folder < files[i].folder
                \/ /\ files[i - 1].folder = files[i].folder
                   /\ files[i - 1].offset <= files[i].offset

(* One record of read_files.                                                *)
ReadFile(c, folders, bound, s, record) ==
  LET continuation == IF record.iFolder >= FromPrevious THEN record.iFolder ELSE Whole
      s1 == Within(s, CabFileSize, c.size)
      s2 == ReadCString([s1 EXCEPT !.pos = @ + CabFileSize], record.name, bound.path,
                        bound.metadata - s.used, c.size)
      s3 == Guard(s2, record.size <= bound.entry, "Limit")
      s4 == Guard(s3, CASE continuation = FromPrevious -> TRUE
                        [] continuation = ToNext -> folders # << >>
                        [] continuation = PreviousAndNext -> Len(folders) = 1
                        [] OTHER -> record.iFolder < Len(folders), "Malformed")
      folder == CASE continuation \in {FromPrevious, PreviousAndNext} -> 0
                  [] continuation = ToNext -> Len(folders) - 1
                  [] OTHER -> record.iFolder
  IN  [s4 EXCEPT !.used = @ + NameLength(record.name),
                 !.files = Append(@, [name |-> record.name, size |-> record.size,
                                      offset |-> record.offset, folder |-> folder,
                                      continuation |-> continuation, stamp |-> record.stamp])]
ReadFiles(c, folders, bound, err) ==
  LET n  == Len(c.files)
      s1 == Guard([err |-> err, pos |-> c.coff, used |-> n, files |-> << >>],
                  n <= bound.metadata, "Limit")
      s2 == FoldLeft(LAMBDA s, r : IF s.err # "ok" THEN s ELSE ReadFile(c, folders, bound, s, r),
                     s1, c.files)
  IN  Guard(s2, CabinetFileOrder(s2.files), "Malformed")

LessMetadata(bound, used) == [bound EXCEPT !.metadata = Max({0, @ - used})]

(* CabSeekReader::new_with_spanning: the two tables, after the header.      *)
Index(table, files) == [err |-> files.err, folders |-> table.folders, files |-> files.files]
Tables(c, bound, used, table) ==
  Index(table, ReadFiles(c, table.folders, LessMetadata(bound, used), table.err))
NewCabReader(c, bound, spanning) ==
  LET s1 == Guard([err |-> "ok", pos |-> CabHeaderSize], SingleCabHeader(c) /\ FilesInside(c),
                  "Malformed")
      s2 == AfterReserve(c, Guard(s1, Len(c.files) <= bound.entries, "Limit"))
      s3 == FoldLeft(LAMBDA s, name : SkipCString(s, name, bound.path, c.size), s2, Names(c))
  IN  Tables(c, bound, Len(c.folders), ReadFolders(c, bound, spanning, s3))

-----------------------------------------------------------------------------
(* parse_cabinet: one volume of a set, with an index of its data records.   *)
VolumeNames(c, bound, s) ==
  FoldLeft(LAMBDA t, name : ReadCString(t, name, bound.path, bound.metadata, c.size),
           s, Names(c))
LengthOf(names) == Total([i \in 1..Len(names) |-> NameLength(names[i])])

(* A record that another cabinet completes is the last one of its cabinet.  *)
(* Its checksum loses the part of the reserved field, which the logical     *)
(* cabinet does not have.                                                   *)
Xor(a, b) == (a + b) % 2
PhysicalRecord(c, volume, folder, k, s) ==
  LET d  == DataAt(c, s.pos)
      f  == c.folders[folder]
      s1 == Guard(Within(s, RecordHeader(c), c.size),
                  d.uncomp = 0 => folder = Len(c.folders) /\ k = f.count, "Malformed")
      s2 == Within([s1 EXCEPT !.pos = @ + RecordHeader(c) + Len(d.cells)], 0, c.size)
  IN  [s2 EXCEPT !.records =
         Append(@, [d EXCEPT !.source = volume, !.rsum = 0,
                             !.stored = IF @ = 0 THEN 0 ELSE Xor(@, d.rsum)])]
FolderFragment(c, volume, folder) ==
  FoldLeft(LAMBDA s, k : IF s.err # "ok" THEN s ELSE PhysicalRecord(c, volume, folder, k, s),
           [err |-> "ok", pos |-> c.folders[folder].offset, records |-> << >>],
           Indexes(c.folders[folder].count))

(* What the parsed volume retains, and what was charged while it was read.  *)
RecordCount(folders) == Total([i \in 1..Len(folders) |-> Len(folders[i].records)])
PathLengths(files) == LengthOf([i \in 1..Len(files) |-> files[i].name])
RetainedMetadata(c, fragments, files) ==
  Len(fragments) + RecordCount(fragments) + Len(files) + PathLengths(files)
    + LengthOf(PreviousName(c) \o NextName(c))
ChargedMetadata(c, fragments, files) ==
  LengthOf(Names(c)) + Len(c.folders) + Len(files) + PathLengths(files) + RecordCount(fragments)

VolumeHeader(c) == SingleCabHeader(c) /\ c.version /\ FilesInside(c)

ParsedCabinet(c, bound, tables, scans) ==
  LET fragments == [i \in 1..Len(scans) |->
                      [method |-> c.folders[i].method, records |-> scans[i].records]]
      used == Max({ChargedMetadata(c, fragments, tables.files),
                   RetainedMetadata(c, fragments, tables.files)})
      s1 == Guard(tables, \A i \in DOMAIN scans : scans[i].err = "ok", "Malformed")
  IN  [err |-> Guard(s1, used <= bound.metadata, "Limit").err, setId |-> c.setId,
       index |-> c.index, flags |-> c.flags, prev |-> PreviousName(c), next |-> NextName(c),
       folders |-> fragments, files |-> tables.files, metadata |-> used]
ScannedVolume(c, volume, bound, tables) ==
  ParsedCabinet(c, bound, tables,
                [i \in 1..(IF tables.err = "ok" THEN Len(c.folders) ELSE 0) |->
                   FolderFragment(c, volume, i)])
ParseCabinet(c, volume, bound) ==
  LET s1 == Guard([err |-> "ok", pos |-> CabHeaderSize], VolumeHeader(c), "Malformed")
      s2 == AfterReserve(c, Guard(s1, Len(c.files) <= bound.entries, "Limit"))
  IN  ScannedVolume(c, volume, bound,
                    Tables(c, bound, LengthOf(Names(c)) + Len(c.folders),
                           ReadFolders(c, bound, FALSE, VolumeNames(c, bound, s2))))

(* The metadata of the sources captured, of a set of parsed volumes, of the *)
(* workspace that merges them and of the logical cabinet.                   *)
SourceIndexMetadata(count) == 2 * count
PhysicalSetMetadata(cabinets) ==
  SourceIndexMetadata(Len(cabinets)) + Len(cabinets)
    + Total([i \in 1..Len(cabinets) |-> cabinets[i].metadata])
FragmentCount(cabinets) == Total([i \in 1..Len(cabinets) |-> Len(cabinets[i].folders)])
FileCount(cabinets) == Total([i \in 1..Len(cabinets) |-> Len(cabinets[i].files)])
MergeWorkspaceMetadata(cabinets) ==
  FragmentCount(cabinets) + FileCount(cabinets) + Len(cabinets)
    + Max({Len(cabinets[i].folders) : i \in DOMAIN cabinets})
    + Total([i \in 1..Len(cabinets) |-> LengthOf(cabinets[i].prev \o cabinets[i].next)])
LogicalCabMetadata(cabinets, m) ==
  FragmentCount(cabinets) + RecordCount(m.folders) + FileCount(cabinets) + PathLengths(m.files)

(* validate_cabinet_names: each link names a cabinet not met before, and    *)
(* each cabinet names an earlier one as the one before it.                  *)
KnownName(names, name) ==
  \E i \in DOMAIN names : names[i] # << >> /\ CabinetNameEq(names[i][1], name)
NameLink(cabinets, bound, s, i) ==
  LET next == cabinets[i].next[1]
      prev == cabinets[i + 1].prev[1]
      s1 == Guard(s, next # << >> /\ ~KnownName(s.names, next), "Malformed")
      s2 == [s1 EXCEPT !.names[i + 1] = <<next>>, !.used = @ + NameLength(next)]
      s3 == Guard(s2, s2.used <= bound.metadata, "Limit")
  IN  IF s.err # "ok" THEN s
      ELSE IF i = 1
      THEN LET s4 == [Guard(s3, ~CabinetNameEq(prev, next), "Malformed") EXCEPT
                        !.names[1] = <<prev>>, !.used = @ + NameLength(prev)]
           IN  Guard(s4, s4.used <= bound.metadata, "Limit")
      ELSE Guard(s3, KnownName(SubSeq(s3.names, 1, i), prev), "Malformed")
CabinetNames(cabinets, bound) ==
  LET n  == Len(cabinets)
      s1 == [err |-> "ok", names |-> [i \in 1..n |-> << >>],
             used |-> PhysicalSetMetadata(cabinets) + n]
      s2 == FoldLeft(LAMBDA s, i : NameLink(cabinets, bound, s, i),
                     Guard(s1, s1.used <= bound.metadata, "Limit"), Indexes(n - 1))
  IN  Guard(s2, s2.used + MergeWorkspaceMetadata(cabinets) <= bound.metadata, "Limit").err

-----------------------------------------------------------------------------
(* merge_cabinets, one cabinet: m holds the logical folders and files so    *)
(* far, and at most one open file, which the next cabinet continues.        *)
NameOfCabinet(cabinets, i) == IF i = 1 THEN cabinets[2].prev ELSE cabinets[i - 1].next
ExpectedPrevious(cabinets, m, i) ==
  NameOfCabinet(cabinets, IF m.open # << >> THEN m.open[1].origin ELSE i - 1)
(* Mutant: a file is known by its name alone. *)
SameFileByName(left, right) == left.name = right.name
SameFile(left, right) ==
  /\ left.name = right.name /\ left.size = right.size /\ left.offset = right.offset
  /\ left.stamp = right.stamp

MergeFragment(m, continued, fragment) ==
  LET last == Len(m.folders)
  IN  IF continued
      THEN [Guard(m, last # 0 /\ m.folders[last].method = fragment.method, "Malformed") EXCEPT
              !.folders = IF last = 0 THEN @
                          ELSE [@ EXCEPT ![last].records = @ \o fragment.records],
              !.map = Append(@, last - 1)]
      ELSE [m EXCEPT !.folders = Append(@, fragment), !.map = Append(@, last)]

MergeFile(cabinet, bound, i, m, k) ==
  LET file == cabinet.files[k]
      m1 == Guard(m, /\ StartsBefore(file) => k = 1
                     /\ ContinuesAfter(file) => k = Len(cabinet.files)
                     /\ file.folder < Len(m.map), "Malformed")
      folder == m.map[file.folder + 1]
      merged == [file EXCEPT !.folder = folder, !.continuation = Whole]
  IN  IF m1.err # "ok" THEN m1
      ELSE IF StartsBefore(file)
      THEN [Guard(m1, /\ m.open # << >>
                      /\ m.open[1].folder = folder /\ SameFile(m.open[1].file, file), "Malformed")
              EXCEPT !.open = IF file.continuation = FromPrevious THEN << >> ELSE @]
      ELSE [Guard(m1, Len(m.files) + 1 <= bound.entries, "Limit") EXCEPT
              !.files = Append(@, merged),
              !.open = IF ContinuesAfter(file)
                       THEN <<[file |-> merged, folder |-> folder, origin |-> i]>> ELSE @]

MergeCabinet(cabinets, bound, m, i) ==
  LET cabinet == cabinets[i]
      continues == m.open # << >>
      declared == cabinet.files # << >> /\ StartsBefore(cabinet.files[1])
      m1 == Guard([m EXCEPT !.map = << >>], declared = continues, "Malformed")
      m2 == Guard(m1, i > 1 => CabinetNameEq(ExpectedPrevious(cabinets, m, i)[1], cabinet.prev[1]),
                  "Malformed")
      m3 == FoldLeft(LAMBDA s, k : IF s.err # "ok" THEN s
                                   ELSE MergeFragment(s, k = 1 /\ continues, cabinet.folders[k]),
                     m2, Indexes(Len(cabinet.folders)))
      m4 == FoldLeft(LAMBDA s, k : IF s.err # "ok" THEN s ELSE MergeFile(cabinet, bound, i, s, k),
                     m3, Indexes(Len(cabinet.files)))
  IN  Guard(m4, m4.open # << >> => "next" \in cabinet.flags, "Malformed")

(* What must hold once all are merged.                                      *)
MergedWhole(m) ==
  /\ m.open = << >>
  /\ \A f \in Range(m.folders) : f.records # << >> => Last(f.records).uncomp # 0
  /\ CabinetFileOrder(m.files)

-----------------------------------------------------------------------------
(* synthesize_cab: the tables of one logical cabinet, followed by the data  *)
(* records of its folders, each still in its volume.                        *)
TablesLength(m) ==
  CabHeaderSize + CabFolderSize * Len(m.folders) + (CabFileSize + 1) * Len(m.files)
    + PathLengths(m.files)
PlaceRecord(s, record) ==
  [pos |-> s.pos + CabDataHeaderSize + Len(record.cells), data |-> s.data @@ (s.pos :> record)]
PlaceFolder(s, folder) ==
  LET t == FoldLeft(PlaceRecord, [pos |-> s.pos, data |-> s.data], folder.records)
  IN  [pos |-> t.pos, data |-> t.data,
       folders |-> Append(s.folders, [offset |-> s.pos, count |-> Len(folder.records),
                                      method |-> folder.method])]
SynthesizeCab(m, setId) ==
  LET placed == FoldLeft(PlaceFolder, [pos |-> TablesLength(m), data |-> << >>,
                                       folders |-> << >>], m.folders)
  IN  [length |-> placed.pos, size |-> placed.pos, signature |-> TRUE, version |-> TRUE,
       coff |-> CabHeaderSize + CabFolderSize * Len(m.folders), flags |-> {}, setId |-> setId,
       index |-> 0, folders |-> placed.folders, data |-> placed.data,
       files |-> [i \in 1..Len(m.files) |->
                    [name |-> m.files[i].name, size |-> m.files[i].size,
                     offset |-> m.files[i].offset, iFolder |-> m.files[i].folder,
                     stamp |-> m.files[i].stamp]]]
JoinedMetadata(cabinets, m) ==
  SourceIndexMetadata(Len(cabinets)) + TablesLength(m) + RecordCount(m.folders)
Joins(cabinets, m, bound) ==
  LET logical == LogicalCabMetadata(cabinets, m)
  IN  /\ SourceIndexMetadata(Len(cabinets)) + logical <= bound.metadata
      /\ TablesLength(m) <= bound.metadata
      /\ JoinedMetadata(cabinets, m) + logical <= bound.metadata

-----------------------------------------------------------------------------
(* The state.  source is what is opened: one cabinet, or the volumes of a   *)
(* set as the resolver answers, each a cabinet with the identity of its     *)
(* source; changed, the sources that are no longer what they were when      *)
(* their identity was captured.  stream is the FolderStream, its buffer     *)
(* without what was consumed, and the decoder of the folder; call, the call *)
(* of next_event or skip_entry in progress; events, what the entries gave.  *)
VARIABLES source, limits, changed, opening, cabinet, reader, stream, call, events

readVars == <<reader, stream, call, events>>
vars == <<source, limits, changed, opening, cabinet, reader, stream, call, events>>

NoCabinet == [image |-> << >>, spanning |-> FALSE, folders |-> << >>, files |-> << >>]
NoMerge == [err |-> "ok", folders |-> << >>, files |-> << >>, open |-> << >>, map |-> << >>]
NoStream == [folder |-> -1, block |-> 0, cursor |-> 0, produced |-> 0, buf |-> << >>, blocks |-> 0,
             id |-> 0, pending |-> 0, held |-> << >>, finished |-> FALSE]
NoCall == [op |-> "none", left |-> 0, pc |-> "run", payload |-> << >>, cells |-> << >>, sum |-> 0]
NewReader == [phase |-> "Idle", next |-> 0, remaining |-> 0, total |-> 0]
NewOpening(s) == [stage |-> IF s.single THEN "open" ELSE "resolve", err |-> "ok",
                  cabinets |-> << >>, merged |-> NoMerge, next |-> 1]

Init0(s, bound) ==
  /\ source = s /\ limits = bound /\ changed = {}
  /\ opening = NewOpening(s)
  /\ cabinet = [NoCabinet EXCEPT !.image = IF s.single THEN s.volumes[1].cab ELSE @]
  /\ reader = NewReader /\ stream = NoStream /\ call = NoCall /\ events = << >>

(* An error ends the opening, or poisons the reader.                        *)
Fail(kind) == opening' = [opening EXCEPT !.stage = "failed", !.err = kind]

-----------------------------------------------------------------------------
(* build_joined_cab, volume by volume.                                      *)
Captured == 1..(Len(opening.cabinets) + IF opening.stage = "parse" THEN 1 ELSE 0)

OpenVolume ==
  LET i == Len(opening.cabinets) + 1
  IN  /\ opening.stage = "resolve"
      /\ IF i > Len(source.volumes) THEN Fail("Io")
         ELSE IF \E j \in 1..(i - 1) : source.volumes[j].id = source.volumes[i].id
         THEN Fail("Malformed")
         ELSE opening' = [opening EXCEPT !.stage = "parse"]
      /\ UNCHANGED <<source, limits, changed, cabinet, readVars>>

AcceptVolume(cabinets, parsed, bound) ==
  LET i  == Len(cabinets) + 1
      s1 == Guard(parsed, parsed.index = i - 1, "Malformed")
      s2 == Guard(s1, i > 1 => parsed.setId = cabinets[1].setId, "Malformed")
      s3 == Guard(s2, ("prev" \in parsed.flags) <=> (i > 1), "Malformed")
  IN  IF parsed.err # "ok" THEN parsed
      ELSE Guard(s3, PhysicalSetMetadata(Append(cabinets, parsed)) <= bound.metadata, "Limit")

(* The snapshot is compared once more after the volume was parsed; what a   *)
(* changed volume parses to is anything.                                    *)
Accepted(parsed) ==
  IF parsed.err # "ok" THEN Fail(parsed.err)
  ELSE opening' = [opening EXCEPT
                     !.stage = IF "next" \in parsed.flags THEN "resolve" ELSE "names",
                     !.cabinets = Append(@, parsed)]
ParseVolume ==
  LET i == Len(opening.cabinets) + 1
  IN  /\ opening.stage = "parse"
      /\ \/ /\ i \in changed
            /\ \E kind \in {"Io", "Malformed", "Limit"} : Fail(kind)
         \/ /\ i \notin changed
            /\ Accepted(AcceptVolume(opening.cabinets,
                                     ParseCabinet(source.volumes[i].cab, i, limits), limits))
      /\ UNCHANGED <<source, limits, changed, cabinet, readVars>>

ValidateCabinetNames ==
  /\ opening.stage = "names"
  /\ LET err == CabinetNames(opening.cabinets, limits)
     IN  IF err # "ok" THEN Fail(err) ELSE opening' = [opening EXCEPT !.stage = "merge"]
  /\ UNCHANGED <<source, limits, changed, cabinet, readVars>>

Merged(m, last) ==
  LET err == IF last THEN Guard(m, MergedWhole(m), "Malformed").err ELSE m.err
  IN  IF err # "ok" THEN Fail(err)
      ELSE opening' = [opening EXCEPT !.merged = m, !.next = @ + 1,
                                      !.stage = IF last THEN "join" ELSE @]
MergeCabinets ==
  /\ opening.stage = "merge"
  /\ Merged(MergeCabinet(opening.cabinets, limits, opening.merged, opening.next),
            opening.next = Len(opening.cabinets))
  /\ UNCHANGED <<source, limits, changed, cabinet, readVars>>

(* The end of build_joined_cab, and CabVolumeReader::with_limits.           *)
JoinVolumes ==
  /\ opening.stage = "join"
  /\ LET m == opening.merged
     IN  IF ~Joins(opening.cabinets, m, limits)
         THEN Fail("Limit") /\ UNCHANGED <<limits, cabinet>>
         ELSE /\ opening' = [opening EXCEPT !.stage = "open"]
              /\ cabinet' = [cabinet EXCEPT !.spanning = TRUE,
                               !.image = SynthesizeCab(m, opening.cabinets[1].setId)]
              /\ limits' = LessMetadata(limits, JoinedMetadata(opening.cabinets, m))
  /\ UNCHANGED <<source, changed, readVars>>

Opened(new) ==
  IF new.err # "ok" THEN Fail(new.err) /\ UNCHANGED cabinet
  ELSE /\ opening' = [opening EXCEPT !.stage = "read"]
       /\ cabinet' = [cabinet EXCEPT !.folders = new.folders, !.files = new.files]
OpenReader ==
  /\ opening.stage = "open"
  /\ Opened(NewCabReader(cabinet.image, limits, cabinet.spanning))
  /\ UNCHANGED <<source, limits, changed, readVars>>

(* The owner of a source replaces what it holds.                            *)
SourceChanges ==
  /\ ~source.single /\ opening.stage # "failed" /\ reader.phase # "Done"
  /\ \E i \in Captured \ changed : changed' = changed \union {i}
  /\ UNCHANGED <<source, limits, opening, cabinet, readVars>>

-----------------------------------------------------------------------------
(* The codecs, behind decompress, decompress_next and decode: the payload   *)
(* of the next block of the same stream, whole and with the size declared,  *)
(* decodes to that block.  Any other is refused, or decodes to anything.    *)
Junk == [stream |-> 0, block |-> 0, at |-> 0]
Block(id, b, n) == [j \in 1..n |-> [stream |-> id, block |-> b, at |-> j]]
Coded(id, b, parts, n) ==
  [i \in 1..parts |-> [stream |-> id, block |-> b, part |-> i, parts |-> parts, size |-> n]]
IsNextBlock(s, payload, n) ==
  \E id \in {payload[i].stream : i \in DOMAIN payload} :
    s.id \in {0, id} /\ payload = Coded(id, s.blocks + 1, Len(payload), n)
Decoded(s, payload, n) ==
  IF IsNextBlock(s, payload, n) THEN {Block(payload[1].stream, s.blocks + 1, n)}
  ELSE {<< >>, [j \in 1..n |-> Junk]}

(* quantum_decode_block and quantum_finish_folder: lookahead may hold back  *)
(* the last cells of a block until more input, or the end of the folder,    *)
(* where a decoder that was fed anything else may stop short.               *)
QuantumCapacity(pending) == Min({pending, Frame})
QuantumBlock(s, block, lag) ==
  LET ready   == s.held \o block
      pending == s.pending + Len(block)
      written == Min({Max({0, Len(ready) - lag}), QuantumCapacity(pending)})
  IN  [s EXCEPT !.buf = SubSeq(ready, 1, written), !.pending = pending - written,
                !.held = SubSeq(ready, written + 1, Len(ready))]
QuantumFinish(s) ==
  LET written == Min({Len(s.held), QuantumCapacity(s.pending)})
  IN  [s EXCEPT !.buf = SubSeq(s.held, 1, written), !.pending = @ - written,
                !.held = SubSeq(s.held, written + 1, Len(s.held)),
                !.finished = s.pending = written]

(* decode_cfdata_payload, on the payload of a whole block: the streams it   *)
(* can lead to, none when it is refused.                                    *)
DecodePayload(s, method, payload, n) ==
  IF method.kind = "Store"
  THEN IF Len(payload) = n THEN {[s EXCEPT !.buf = payload, !.blocks = @ + 1]} ELSE {}
  ELSE {LET t == [s EXCEPT !.blocks = @ + 1, !.id = block[1].stream]
        IN  IF method.kind = "Quantum" THEN QuantumBlock(t, block, method.lag)
            ELSE [t EXCEPT !.buf = block] : block \in Decoded(s, payload, n) \ {<< >>}}
Refusable(s, method, payload, n) ==
  IF method.kind = "Store" THEN Len(payload) # n ELSE << >> \in Decoded(s, payload, n)

-----------------------------------------------------------------------------
(* next_event and skip_entry between calls.                                 *)
Ready == opening.stage = "read" /\ call.op = "none"
File == cabinet.files[reader.next + 1]
Folder == cabinet.folders[stream.folder + 1]
Entry(name) == [name |-> name, cells |-> << >>, ended |-> FALSE, skipped |-> FALSE]
WithLast(seq, field, value) == [seq EXCEPT ![Len(seq)][field] = value]

NoMoreFiles ==
  /\ Ready /\ reader.phase = "Idle" /\ reader.next = Len(cabinet.files)
  /\ reader' = [reader EXCEPT !.phase = "Done"]
  /\ UNCHANGED <<source, limits, changed, opening, cabinet, stream, call, events>>

(* ensure_folder_stream: what keeps a folder from being decoded.            *)
FolderError(folder) ==
  LET s1 == Guard([err |-> "ok"], folder.method.kind = "Mszip" => 2 * Frame <= limits.memory,
                  "Limit")
  IN  Guard(s1, folder.method.kind \in Framed => folder.decoded # NoSize, "Unsupported").err
FolderStream(index) ==
  IF stream.folder = index THEN stream
  ELSE [NoStream EXCEPT !.folder = index, !.cursor = cabinet.folders[index + 1].offset]

(* prepare_file, up to the data that drain_to discards.                     *)
Undecodable(file) ==
  \/ file.continuation # Whole
  \/ cabinet.folders[file.folder + 1].method.kind = "Unsupported"
ListUndecodable ==
  /\ Ready /\ reader.phase = "Idle" /\ reader.next < Len(cabinet.files) /\ Undecodable(File)
  /\ reader' = [reader EXCEPT !.phase = "Unsupported", !.next = @ + 1]
  /\ events' = Append(events, Entry(File.name))
  /\ UNCHANGED <<source, limits, changed, opening, cabinet, stream, call>>
PrepareFile ==
  /\ Ready /\ reader.phase = "Idle" /\ reader.next < Len(cabinet.files) /\ ~Undecodable(File)
  /\ LET s   == FolderStream(File.folder)
         err == IF stream.folder = File.folder THEN "ok"
                ELSE FolderError(cabinet.folders[File.folder + 1])
     IN  IF err # "ok" \/ File.offset < s.produced
         THEN Fail(IF err # "ok" THEN err ELSE "Malformed") /\ UNCHANGED <<stream, call>>
         ELSE /\ stream' = s
              /\ call' = [NoCall EXCEPT !.op = "prepare", !.left = File.offset - s.produced]
              /\ UNCHANGED opening
  /\ UNCHANGED <<source, limits, changed, cabinet, reader, events>>
ListFile ==
  /\ call.op = "prepare" /\ call.left = 0 /\ opening.stage = "read"
  /\ reader' = [reader EXCEPT !.phase = "Data", !.remaining = File.size, !.next = @ + 1]
  /\ events' = Append(events, Entry(File.name))
  /\ call' = NoCall
  /\ UNCHANGED <<source, limits, changed, opening, cabinet, stream>>

ReadData ==
  /\ Ready /\ reader.phase = "Data" /\ reader.remaining # 0
  /\ call' = [NoCall EXCEPT !.op = "data", !.left = reader.remaining]
  /\ UNCHANGED <<source, limits, changed, opening, cabinet, reader, stream, events>>
EndEntry ==
  /\ Ready
  /\ \/ reader.phase = "Data" /\ reader.remaining = 0
     \/ reader.phase = "EndEntry"
  /\ reader' = [reader EXCEPT !.phase = "Idle"]
  /\ events' = WithLast(events, "ended", TRUE)
  /\ UNCHANGED <<source, limits, changed, opening, cabinet, stream, call>>

SkipEntry ==
  /\ Ready /\ reader.phase \in {"Data", "Unsupported"}
  /\ events' = WithLast(events, "skipped", TRUE)
  /\ IF reader.phase = "Data" /\ reader.remaining # 0
     THEN call' = [NoCall EXCEPT !.op = "skip", !.left = reader.remaining] /\ UNCHANGED reader
     ELSE reader' = [reader EXCEPT !.phase = "EndEntry"] /\ UNCHANGED call
  /\ UNCHANGED <<source, limits, changed, opening, cabinet, stream>>

-----------------------------------------------------------------------------
(* A call consumes what is decoded (discard_decoded, pull_into_event), and  *)
(* ensure_block decodes the next block when nothing is left.                *)
Running == opening.stage = "read" /\ call.op # "none" /\ call.left # 0 /\ call.pc = "run"
Taken == Min({Len(stream.buf), call.left})
Consume ==
  /\ Running /\ stream.buf # << >>
  /\ stream' = [stream EXCEPT !.buf = SubSeq(@, Taken + 1, Len(@)), !.produced = @ + Taken]
  /\ IF call.op = "data"
     THEN /\ events' = WithLast(events, "cells",
                                Last(events).cells \o SubSeq(stream.buf, 1, Taken))
          /\ reader' = [reader EXCEPT !.remaining = @ - Taken]
          /\ call' = NoCall
     ELSE /\ IF call.op = "skip" /\ Taken = call.left
             THEN call' = NoCall /\ reader' = [reader EXCEPT !.phase = "EndEntry"]
             ELSE call' = [call EXCEPT !.left = @ - Taken] /\ UNCHANGED reader
          /\ UNCHANGED events
  /\ UNCHANGED <<source, limits, changed, opening, cabinet>>

NeedsQuantumFinish ==
  Folder.method.kind = "Quantum" /\ ~stream.finished /\ stream.pending # 0
EndOfFolder ==
  /\ Running /\ stream.buf = << >> /\ stream.block >= Folder.count /\ ~NeedsQuantumFinish
  /\ Fail("Malformed")
  /\ UNCHANGED <<source, limits, changed, cabinet, readVars>>
FinishQuantum ==
  /\ Running /\ stream.buf = << >> /\ stream.block >= Folder.count /\ NeedsQuantumFinish
  /\ \/ /\ stream' = QuantumFinish(stream)
        /\ reader' = [reader EXCEPT !.total = @ + Len(stream'.buf)]
        /\ UNCHANGED opening
     \/ /\ Junk \in Range(stream.held) /\ Fail("Malformed")
        /\ UNCHANGED <<stream, reader>>
  /\ UNCHANGED <<source, limits, changed, cabinet, call, events>>

(* append_cfdata_piece, up to the read of the payload: the header of a      *)
(* joined cabinet is in memory, its payload is read from the volume, whose  *)
(* snapshot is compared before and after (JoinedCabInput::read).            *)
Piece == DataAt(cabinet.image, stream.cursor)
PieceError(d, length) ==
  LET header == RecordHeader(cabinet.image)
      s1 == Within([err |-> "ok", pos |-> stream.cursor], header, cabinet.image.size)
      s2 == Guard(s1, d.uncomp <= Frame, "Malformed")
      s3 == Guard(s2, InFlight(Len(d.cells), d.uncomp) <= limits.inFlight, "Limit")
      s4 == Within(s3, header + Len(d.cells), cabinet.image.size)
  IN  Guard(s4, length + Len(d.cells) <= limits.inFlight, "Limit").err
SnapshotHolds(d) == d.cells # << >> => d.source \notin changed

NextPiece ==
  /\ opening.stage = "read"
  /\ \/ Running /\ stream.buf = << >> /\ stream.block < Folder.count
     \/ call.pc = "piece"
  /\ LET err == IF stream.block >= Folder.count THEN "Malformed"
                ELSE PieceError(Piece, Len(call.payload))
     IN  IF err # "ok" \/ ~SnapshotHolds(Piece)
         THEN Fail(IF err # "ok" THEN err ELSE "Io") /\ UNCHANGED call
         ELSE call' = [call EXCEPT !.pc = "fetch"] /\ UNCHANGED opening
  /\ UNCHANGED <<source, limits, changed, cabinet, reader, stream, events>>

FetchPayload ==
  /\ opening.stage = "read" /\ call.pc = "fetch"
  /\ call' = IF Piece.source \in changed
             THEN [call EXCEPT !.pc = "check", !.sum = 1 - Piece.psum,
                               !.cells = [i \in DOMAIN Piece.cells |-> Junk]]
             ELSE [call EXCEPT !.pc = "check", !.sum = Piece.psum, !.cells = Piece.cells]
  /\ UNCHANGED <<source, limits, changed, opening, cabinet, reader, stream, events>>

(* validate_cfdata_checksum: zero stands for no checksum.                   *)
ChecksumHolds(d, sum) == d.stored = 0 \/ d.stored = Xor(sum, d.rsum)
(* Mutant: the snapshot is not compared after the read. *)
ReadHoldsUnchecked(d) == TRUE
ReadHolds(d) == SnapshotHolds(d)

(* decode_next_block after a piece: the sizes of the whole block.           *)
BlockError(method, last, d, length) ==
  LET quantum == method.kind = "Quantum"
      s1 == Guard([err |-> "ok"], InFlight(length, d.uncomp) <= limits.inFlight, "Limit")
      s2 == Guard(s1, quantum => QuantumInFlight(length, d.uncomp) <= limits.inFlight, "Limit")
      s3 == Guard(s2, quantum /\ ~last => d.uncomp = Frame, "Malformed")
      base == reader.total + IF quantum THEN stream.pending ELSE 0
  IN  Guard(s3, base + d.uncomp <= limits.total, "Limit").err
(* Mutant: the block index stays. *)
AfterPieceUncounted(s, d) ==
  [s EXCEPT !.cursor = @ + RecordHeader(cabinet.image) + Len(d.cells)]
AfterPiece(s, d) ==
  [s EXCEPT !.block = @ + 1, !.cursor = @ + RecordHeader(cabinet.image) + Len(d.cells)]

CheckPiece ==
  LET d == Piece
      payload == call.payload \o call.cells
      s == AfterPiece(stream, d)
      err == IF ~ReadHolds(d) THEN "Io"
             ELSE IF ~ChecksumHolds(d, call.sum) THEN "Malformed"
             ELSE IF d.uncomp = 0 THEN IF cabinet.spanning THEN "ok" ELSE "Unsupported"
             ELSE BlockError(Folder.method, s.block = Folder.count, d, Len(payload))
  IN  /\ opening.stage = "read" /\ call.pc = "check"
      /\ \/ /\ err # "ok" /\ Fail(err)
            /\ UNCHANGED <<reader, stream, call>>
         \/ /\ err = "ok" /\ d.uncomp = 0
            /\ stream' = s
            /\ call' = [call EXCEPT !.pc = "piece", !.payload = payload, !.cells = << >>]
            /\ UNCHANGED <<reader, opening>>
         \/ /\ err = "ok" /\ d.uncomp # 0
            /\ \E t \in DecodePayload(s, Folder.method, payload, d.uncomp) :
                 /\ stream' = t
                 /\ reader' = [reader EXCEPT !.total = @ + Len(t.buf)]
            /\ call' = [call EXCEPT !.pc = "run", !.payload = << >>, !.cells = << >>, !.sum = 0]
            /\ UNCHANGED opening
         \/ /\ err = "ok" /\ d.uncomp # 0
            /\ Refusable(s, Folder.method, payload, d.uncomp) /\ Fail("Malformed")
            /\ UNCHANGED <<reader, stream, call>>
      /\ UNCHANGED <<source, limits, changed, cabinet, events>>

ReaderStep ==
  \/ OpenVolume \/ ParseVolume \/ ValidateCabinetNames \/ MergeCabinets \/ JoinVolumes
  \/ OpenReader \/ NoMoreFiles \/ ListUndecodable \/ PrepareFile \/ ListFile \/ ReadData
  \/ EndEntry \/ Consume \/ EndOfFolder \/ FinishQuantum \/ NextPiece \/ FetchPayload
  \/ CheckPiece
Ended == opening.stage = "failed" \/ reader.phase = "Done"
=============================================================================
