----------------------------- MODULE MCSeekable -----------------------------
(***************************************************************************)
(* The two largest readers of seekable input, on small inputs.             *)
(*                                                                         *)
(* UDF images for the reader of UdfReader, one for each way a              *)
(* partition can be mapped, with one or two of their descriptors damaged.  *)
(* All hold the same tree: a file a in two extents and a hole behind a     *)
(* continuation, with a named stream; a hard link h to it; a directory d   *)
(* with a file, and a record that leads back to the root.  An image        *)
(* carries what it is meant to hold (copies) and whether its damage spares *)
(* a copy of everything that is recorded twice (sound).                    *)
(*                                                                         *)
(* Cabinets and sets of up to three for the reader of CabReader, whole,    *)
(* contradicting themselves, torn, or changed while they are read.  A      *)
(* source carries what it is meant to hold (meaning) and whether it is to  *)
(* be read to the end (sound).                                             *)
(***************************************************************************)
EXTENDS UdfReader

VARIABLES job,        \* "udf" or "cab": what is read
          source, limits, changed, opening, cabinet, reader, stream, call, events
cabVars == <<source, limits, changed, opening, cabinet, reader, stream, call, events>>
Cab == INSTANCE CabReader WITH Frame <- 2

-----------------------------------------------------------------------------
(* UDF images.                                                              *)

S == 12            \* start of the partition
MetaBlocks == 12   \* blocks of the tree's descriptors

(* Where block L of the tree's copy k lies, and block B of the data.        *)
Phys(v, k, L) ==
  CASE v = "plain" -> S + L
    [] v = "sparable" -> IF L \in 2..3 THEN 42 + L ELSE S + L
    [] v \in {"metadata", "nested"} ->
         LET b == 4 + MetaBlocks * (k - 1) + L
         IN  IF v = "nested" /\ b \in 6..7 THEN 38 + b ELSE S + b
    [] v = "virtual" -> S + (11 - L)
Data(v, B) == IF v \in {"sparable", "nested"} /\ B \in 28..29 THEN B + 18 ELSE S + B
Part(v) == IF v \in {"plain", "sparable"} THEN 0 ELSE 1
At(v, k, L) == 1000 * k + 10 * L

Plain(tag, loc) == [tag |-> tag, loc |-> loc, fault |-> "none", flaw |-> "ok"]
Ad(type, length, block, part) ==
  [ZeroAd EXCEPT !.type = type, !.length = length, !.block = block, !.part = part]
Node(v, L) == Icb(Part(v), L, BlockSize)

Entry(tag, loc, type, alloc, ads, at, size) ==
  [tag |-> tag, loc |-> loc, fault |-> "none", flaw |-> "ok", type |-> type, alloc |-> alloc,
   ads |-> ads, cells |-> << >>, at |-> at, size |-> size, object |-> size, recorded |-> 0,
   inode |-> 0, links |-> 1, sdir |-> NoIcb, ea |-> NoIcb, stream |-> FALSE, body |-> "ok",
   header |-> Plain("SBD", loc)]

Inline(v, k, L, tag, type, size) == Entry(tag, L, type, "inline", << >>, At(v, k, L), size)

(* The tree's descriptors, as <<block, descriptor>>.                        *)
Tree(v, k) ==
  LET at(L, d) == <<Phys(v, k, L), d>>
      root == IF v = "virtual" THEN Inline(v, k, 1, "FE", "directory", 4)
              ELSE [Entry("FE", 1, "directory", "short", <<Ad(Recorded, 4, 2, 0)>>, 0, 4)
                    EXCEPT !.recorded = 2]
      b    == IF v = "plain"
              THEN [Entry("FE", 8, "file", "ext", <<[Ad(Recorded, 2, 30, 0) EXCEPT
                      !.info = 2, !.recorded = 2], [Ad(Unrecorded, 2, 30, 0) EXCEPT !.info = 0]>>,
                      0, 2) EXCEPT !.recorded = 1, !.inode = 18]
              ELSE [Inline(v, k, 8, "FE", "file", 2) EXCEPT !.inode = 18]
  IN  <<at(0, [tag |-> "FSD", loc |-> 0, fault |-> "none", flaw |-> "ok", revision |-> 260,
               number |-> 0, set |-> 0, root |-> Node(v, 1), next |-> NoIcb,
               sdir |-> Node(v, 9)]),
        at(1, root),
        at(4, [Entry("EFE", 4, "file", "long",
                     <<Ad(Recorded, 2, 28, 0), Ad(Continuation, 1, 27, 0)>>, 0, 5)
               EXCEPT !.recorded = 2, !.inode = 16, !.links = 3, !.object = 6,
                      !.sdir = Node(v, 6)]),
        at(5, [Inline(v, k, 5, "FE", "directory", 5) EXCEPT !.inode = 17]),
        at(6, [Inline(v, k, 6, "EFE", "streams", 2) EXCEPT !.inode = 16]),
        at(7, [Inline(v, k, 7, "EFE", "file", 1) EXCEPT !.inode = 16, !.stream = TRUE]),
        at(8, [b EXCEPT !.ea = IF v = "plain" THEN Node(v, 11) ELSE NoIcb]),
        at(9, Inline(v, k, 9, "EFE", "streams", 2)),
        at(10, [Inline(v, k, 10, "EFE", "file", 1) EXCEPT !.stream = TRUE])>>
      \o IF v = "plain" THEN <<at(11, [Inline(v, k, 11, "FE", "attributes", 1) EXCEPT
                                         !.links = 0])>> ELSE << >>

(* Directory records, as <<cell, record>>.                                  *)
Fid(loc, icb, unique, name, directory) ==
  [ZeroFid EXCEPT !.zero = FALSE, !.loc = loc, !.icb = icb, !.unique = unique, !.name = name,
                  !.directory = directory]
ParentFid(loc, icb, unique) == [Fid(loc, icb, unique, "", TRUE) EXCEPT !.parent = TRUE]
NameOf(k) == IF k = 1 THEN "b" ELSE "c"

Records(v, k) ==
  LET rootCell(i) == IF v = "virtual" THEN At(v, k, 1) + i
                     ELSE Phys(v, k, 2 + i \div 2) * BlockSize + (i % 2)
      rootLoc(i)  == IF v = "virtual" THEN 1 ELSE 2 + i \div 2
      in(L, i)    == At(v, k, L) + i
  IN  <<<<rootCell(0), ParentFid(rootLoc(0), Node(v, 1), 0)>>,
        <<rootCell(1), Fid(rootLoc(1), Node(v, 4), 16, "a", FALSE)>>,
        <<rootCell(2), Fid(rootLoc(2), Node(v, 5), 17, "d", TRUE)>>,
        <<rootCell(3), Fid(rootLoc(3), Node(v, 4), 0, "h", FALSE)>>,
        <<in(5, 0), ParentFid(5, Node(v, 1), 0)>>,
        <<in(5, 1), [Fid(5, Node(v, 4), 0, "old", FALSE) EXCEPT !.deleted = TRUE]>>,
        <<in(5, 2), Fid(5, Node(v, 8), 18, NameOf(k), FALSE)>>,
        <<in(5, 3), Fid(5, Node(v, 1), 0, "up", TRUE)>>,
        <<in(6, 0), ParentFid(6, Node(v, 4), 16)>>,
        <<in(6, 1), Fid(6, Node(v, 7), 16, "s", FALSE)>>,
        <<in(9, 0), ParentFid(9, Node(v, 9), 0)>>,
        <<in(9, 1), [Fid(9, Node(v, 10), 0, "*UDF Backup", FALSE) EXCEPT !.metadata = TRUE]>>>>

(* What a copy of the tree means: the index and the cells of every file.    *)
Meaning(v, k) ==
  LET f(path, cells) == [path |-> path, kind |-> "File", target |-> << >>, cells |-> cells]
      l(path, to) == [path |-> path, kind |-> "Hardlink", target |-> to, cells |-> << >>]
      data(B) == Data(v, B) * BlockSize
      in(L, n) == [i \in 1..n |-> At(v, k, L) + i - 1]
  IN  {f(<<"a">>, <<data(28), data(28) + 1, NoBlock, NoBlock, data(29)>>),
       [path |-> <<"d">>, kind |-> "Dir", target |-> << >>, cells |-> << >>],
       l(<<"h">>, <<"a">>), l(<<"d", "up">>, <<"/">>),
       f(<<"d", NameOf(k)>>, IF v = "plain" THEN <<data(30), data(30) + 1>> ELSE in(8, 2)),
       f(<<"streams", "named", "a", "s">>, in(7, 1)),
       f(<<"streams", "system", "*UDF Backup">>, in(10, 1))}

(* The descriptors outside the tree.                                        *)
Map(kind) == [kind |-> kind, number |-> 0, volume |-> 1]
SparableMapOf == [kind |-> "Sparable", number |-> 0, volume |-> 1, packet |-> 2, size |-> 4,
                  tables |-> <<48, 52>>]
MetadataMapOf == [kind |-> "Metadata", number |-> 0, volume |-> 1, file |-> 0, mirror |-> 1,
                  bitmap |-> 2, unit |-> 1, alignment |-> 1, duplicate |-> TRUE]
Maps(v) ==
  CASE v = "plain" -> <<Map("Physical")>>
    [] v = "sparable" -> <<SparableMapOf>>
    [] v = "metadata" -> <<Map("Physical"), MetadataMapOf>>
    [] v = "nested"   -> <<SparableMapOf, MetadataMapOf>>
    [] v = "virtual" -> <<Map("Physical"), Map("Virtual")>>
Access(v) == CASE v \in {"sparable", "nested"} -> 3 [] v = "virtual" -> 2 [] OTHER -> 1

Pvd(loc) == [tag |-> "PVD", loc |-> loc, fault |-> "none", flaw |-> "ok", seq |-> 1,
             volume |-> 1, name |-> "disc"]
Pd(v, loc) == [tag |-> "PD", loc |-> loc, fault |-> "none", flaw |-> "ok", seq |-> 2,
               number |-> 0, start |-> S, blocks |-> 32, access |-> Access(v)]
Lvd(v, loc) == [tag |-> "LVD", loc |-> loc, fault |-> "none", flaw |-> "ok", seq |-> 3,
                revision |-> 260, maps |-> Maps(v), fileset |-> Icb(Part(v), 0, BlockSize),
                name |-> "vol"]
Ext(block, blocks) == [block |-> block, length |-> blocks * BlockSize]
Vdp(loc, extent) == [tag |-> "VDP", loc |-> loc, fault |-> "none", flaw |-> "ok", seq |-> 4,
                     extent |-> extent]
Avdp(loc) == [tag |-> "AVDP", loc |-> loc, fault |-> "none", flaw |-> "ok",
              main |-> Ext(2, 2), reserve |-> Ext(7, 4)]

LastBlock == 57
Frame(v) ==
  [i \in 1..3 |-> LET b == <<1, LastBlock - 1, LastBlock>>[i] IN <<b, Avdp(b)>>]
  \o <<<<2, Pvd(2)>>, <<3, Vdp(3, Ext(4, 3))>>, <<4, Pd(v, 4)>>, <<5, Lvd(v, 5)>>,
       <<6, Plain("TD", 6)>>, <<7, Pvd(7)>>, <<8, Pd(v, 8)>>, <<9, Lvd(v, 9)>>,
       <<10, Plain("TD", 10)>>,
       <<Data(v, 27), [tag |-> "AED", loc |-> 27, fault |-> "none", flaw |-> "ok", back |-> 0,
                       ads |-> <<Ad(Unallocated, 2, 0, 0), Ad(Recorded, 1, 29, 0)>>]>>>>

(* Sparing tables: a packet of the tree and the packet of the data moved.   *)
Sparing(loc, v) ==
  [tag |-> "zero", loc |-> loc, fault |-> "none", flaw |-> "ok", sequence |-> 1,
   entries |-> <<[original |-> IF v = "nested" THEN 6 ELSE 2, mapped |-> 44],
                 [original |-> 28, mapped |-> 46], [original |-> Available, mapped |-> 56]>>]

(* The Metadata File, its mirror and its bitmap.                            *)
MetaFile(k) ==
  [Entry("FE", k - 1, IF k = 1 THEN "metadata" ELSE "mirror", "short",
         <<Ad(Recorded, 2 * MetaBlocks, 4 + MetaBlocks * (k - 1), 0)>>, 0, 2 * MetaBlocks)
   EXCEPT !.recorded = MetaBlocks, !.links = 0]
Bitmap ==
  [Entry("FE", 2, "bitmap", "inline", << >>, 0, 1) EXCEPT
     !.links = 0, !.header = [tag |-> "SBD", loc |-> 2, fault |-> "none", flaw |-> "ok",
                              bits |-> MetaBlocks]]

(* The newest table in two extents behind a continuation, and an older one. *)
Vat(loc) == [Entry("FE", loc, "vat", "long",
                   <<Ad(Recorded, 6, 18, 0), Ad(Continuation, 1, 21, 0)>>, 0, 12)
             EXCEPT !.recorded = 6, !.links = 0]
OldVat == [Entry("FE", 30, "vat", "inline", << >>, 0, 2) EXCEPT !.links = 0,
             !.cells = <<NoBlock, 25>>]
VatAed == [tag |-> "AED", loc |-> 21, fault |-> "none", flaw |-> "ok", back |-> 0,
           ads |-> <<Ad(Recorded, 6, 22, 0)>>]
VatWords ==
  LET word(i) == IF i = 0 THEN 30 ELSE 12 - i
      cell(i) == IF i < 6 THEN (S + 18) * BlockSize + i ELSE (S + 22) * BlockSize + i - 6
  IN  [c \in {cell(i) : i \in 0..11} |-> word(CHOOSE i \in 0..11 : cell(i) = c)]

Tables(v) ==
  (IF v \in {"sparable", "nested"} THEN <<<<48, Sparing(48, v)>>, <<52, Sparing(52, v)>>>>
   ELSE << >>)
  \o (IF v \in {"metadata", "nested"}
      THEN <<<<S, MetaFile(1)>>, <<S + 1, MetaFile(2)>>, <<S + 2, Bitmap>>>> ELSE << >>)
  \o (IF v = "virtual"
      THEN <<<<S + 31, Vat(31)>>, <<S + 30, OldVat>>, <<S + 21, VatAed>>>> ELSE << >>)

Copies(v) == IF v \in {"metadata", "nested"} THEN {1, 2} ELSE {1}
Pairs(v) == Frame(v) \o Tables(v) \o FlattenSeq([k \in 1..Cardinality(Copies(v)) |-> Tree(v, k)])
AllRecords(v) == FlattenSeq([k \in 1..Cardinality(Copies(v)) |-> Records(v, k)])
FunctionOf(pairs) ==
  [x \in {pairs[i][1] : i \in 1..Len(pairs)} |->
     pairs[CHOOSE i \in 1..Len(pairs) : pairs[i][1] = x][2]]

Build(v) ==
  [length |-> (LastBlock + 1) * BlockSize, vrs |-> <<"CD001", "BEA", "NSR", "TEA">>,
   desc |-> FunctionOf(Pairs(v)), fids |-> FunctionOf(AllRecords(v)),
   words |-> IF v = "virtual" THEN VatWords ELSE [c \in {} |-> 0], bad |-> {},
   copies |-> {Meaning(v, k) : k \in Copies(v)}, sound |-> TRUE,
   clean |-> TRUE]

Ample == [metadata |-> 500, inflight |-> 40, nesting |-> 4, entries |-> 20, entry |-> 10,
          path |-> 6, decoded |-> 60]
Variants == {"plain", "sparable", "metadata", "nested", "virtual"}

(* Damage: a set of blocks whose descriptors, or a cell whose record, have  *)
(* the fault.  It is sound when it only breaks checksums, and leaves whole  *)
(* an anchor, a descriptor sequence, a sparing table and a copy of the tree *)
(* with the entry of the Metadata File that leads to it.                    *)
TreeBlocks(v, k) == {Tree(v, k)[i][1] : i \in 1..Len(Tree(v, k))}
CopyOf(v, k) == IF k \in Copies(v) /\ Cardinality(Copies(v)) = 2
                THEN TreeBlocks(v, k) \union {S + k - 1} ELSE {}
Twice(v) == <<{1, LastBlock - 1}, {LastBlock}, 2..6, 7..10,
              IF v \in {"sparable", "nested"} THEN {48} ELSE {},
              IF v \in {"sparable", "nested"} THEN {52} ELSE {}, CopyOf(v, 1), CopyOf(v, 2)>>
Spared(v, hit) ==
  LET groups == Twice(v)
  IN  /\ hit \subseteq UNION Range(groups)
      /\ \A g \in {1, 3, 5, 7} :
           hit \intersect groups[g] = {} \/ hit \intersect groups[g + 1] = {}

Damaged(base, v, hit, fault) ==
  [base EXCEPT !.desc = [b \in DOMAIN @ |-> IF b \in hit THEN [@[b] EXCEPT !.fault = fault]
                                            ELSE @[b]],
               !.sound = fault = "checksum" /\ Spared(v, hit), !.clean = FALSE]
DamagedFid(base, v, cell, fault) ==
  [base EXCEPT !.fids[cell].fault = fault, !.clean = FALSE,
               !.sound = fault = "crc" /\ Cardinality(Copies(v)) = 2]
Unsound(base) == [base EXCEPT !.sound = FALSE, !.clean = FALSE]

(* Images that contradict themselves: cycles, wrong totals, missing parts.  *)
Twisted(base, v) ==
  LET with(b, d) == [Unsound(base) EXCEPT !.desc[b] = d]
      at(L) == Phys("plain", 1, L)
      d(b)  == base.desc[b]
  IN  CASE v = "plain" ->
             {with(3, [d(3) EXCEPT !.extent = Ext(2, 2)]),
              with(4, [d(4) EXCEPT !.blocks = 60]),
              with(S + 27, [d(S + 27) EXCEPT !.ads = <<Ad(Unallocated, 2, 0, 0),
                                                       Ad(Continuation, 1, 27, 0)>>]),
              with(at(0), [d(at(0)) EXCEPT !.next = Node("plain", 0)]),
              with(at(1), [d(at(1)) EXCEPT !.size = 6]),
              with(at(4), [d(at(4)) EXCEPT !.object = 7]),
              with(at(6), [d(at(6)) EXCEPT !.inode = 3]),
              with(at(7), [d(at(7)) EXCEPT !.links = 2]),
              with(at(8), [d(at(8)) EXCEPT !.recorded = 2]),
              with(at(8), [d(at(8)) EXCEPT !.type = "symlink", !.body = "io"]),
              with(at(8), [d(at(8)) EXCEPT !.type = "symlink", !.body = "bad"]),
              with(at(11), [d(at(11)) EXCEPT !.body = "io"]),
              with(at(11), [d(at(11)) EXCEPT !.body = "bad"]),
              [Unsound(base) EXCEPT !.vrs = <<"BEA", "TEA", "NSR">>],
              [Unsound(base) EXCEPT !.length = @ - 1],
              [Unsound(base) EXCEPT !.length = BlockSize],
              [Unsound(base) EXCEPT !.bad = {Data("plain", 28) * BlockSize + 1}]}
        [] v = "virtual" -> {with(S + 30, [d(S + 30) EXCEPT !.cells = <<31, 25>>])}
        [] v = "metadata" -> {with(S + 2, [d(S + 2) EXCEPT !.header.bits = 3])}
        [] OTHER -> {}

(* The limits a run is tried with.                                          *)
Scarce == {[Ample EXCEPT !.metadata = n] : n \in 0..40}
          \union {[Ample EXCEPT ![f] = n] : f \in {"inflight", "nesting", "entries", "entry",
                                                   "path", "decoded"}, n \in 0..6}
          \union {[Ample EXCEPT !.decoded = n] : n \in {8, 12, 16, 20, 24}}

Chosen(chosenImage, chosenLimits) == Init0([image |-> chosenImage, lim |-> chosenLimits])

UdfInit ==
  \E v \in Variants : \E base \in {Build(v)} :
    \/ Chosen(base, Ample)
    \/ \E b \in DOMAIN base.desc, f \in {"checksum", "version", "io", "short"} :
         Chosen(Damaged(base, v, {b}, f), Ample)
    \/ /\ v \in {"sparable", "metadata", "nested"}
       /\ \E b, c \in DOMAIN base.desc :
            b < c /\ Chosen(Damaged(base, v, {b, c}, "checksum"), Ample)
    \/ \E c \in DOMAIN base.fids, f \in {"crc", "version"} :
         Chosen(DamagedFid(base, v, c, f), Ample)
    \/ \E i \in Twisted(base, v) : Chosen(i, Ample)
    \/ \E l \in Scarce : Chosen(Unsound(base), l)

UdfNext == ReaderStep \/ (SkipEntry /\ image.clean /\ \A i \in 1..Len(out) : ~out[i].skipped)

-----------------------------------------------------------------------------
(* Cabinets.                                                                *)

(* A data record, with or without a checksum, and a reserved field.         *)
Rec(cells, uncomp, check, rsum) ==
  [stored |-> IF check THEN 1 ELSE 0, psum |-> 1 - rsum, rsum |-> rsum, cells |-> cells,
   uncomp |-> uncomp, source |-> 1]
CabFile(name, offset, size, iFolder) ==
  [name |-> <<name, 0>>, size |-> size, offset |-> offset, iFolder |-> iFolder, stamp |-> 0]
CabName(x) == <<x, 0>>

(* A cabinet laid out: the tables, then the records of the folders.         *)
LayFolder(d, s, folder) ==
  LET step(t, r) == [pos |-> t.pos + 1 + d.reserve.data + Len(r.cells),
                     data |-> [x \in DOMAIN t.data \union {t.pos} |->
                                 IF x = t.pos THEN r ELSE t.data[x]]]
      t == FoldLeft(step, [pos |-> s.pos, data |-> s.data], folder.records)
  IN  [pos |-> t.pos, data |-> t.data,
       folders |-> Append(s.folders, [offset |-> s.pos, count |-> Len(folder.records),
                                      method |-> folder.method])]
Lay(d) ==
  LET names == (IF "prev" \in d.flags THEN 4 ELSE 0) + (IF "next" \in d.flags THEN 4 ELSE 0)
      table == 2 + (IF "reserve" \in d.flags THEN 1 + d.reserve.header ELSE 0) + names
      coff  == table + Len(d.folders) * (1 + d.reserve.folder)
      t == FoldLeft(LAMBDA s, f : LayFolder(d, s, f),
                    [pos |-> coff + 3 * Len(d.files), data |-> << >>, folders |-> << >>], d.folders)
  IN  [length |-> t.pos + 1, size |-> t.pos, signature |-> TRUE, version |-> TRUE, coff |-> coff,
       flags |-> d.flags, setId |-> 7, index |-> d.index, reserve |-> d.reserve,
       prev |-> CabName(d.prev), prevDisk |-> CabName("disk"), next |-> CabName(d.next),
       nextDisk |-> CabName("disk"), folders |-> t.folders, files |-> d.files, data |-> t.data]

Methods == {[kind |-> "Store"], [kind |-> "Mszip"], [kind |-> "Lzx", valid |-> TRUE, window |-> 1],
            [kind |-> "Quantum", valid |-> TRUE, window |-> 1, lag |-> 0],
            [kind |-> "Quantum", valid |-> TRUE, window |-> 1, lag |-> 1]}
Stored == [kind |-> "Store"]
Payload(m, id, b, n) == IF m.kind = "Store" THEN Cab!Block(id, b, n) ELSE Cab!Coded(id, b, 2, n)
CabAt(id, b, j) == [stream |-> id, block |-> b, at |-> j]

(* What the reserved fields of the cabinets hold.                           *)
NoReserve == [header |-> 0, folder |-> 0, data |-> 0, rsum |-> 0]
Laid(index, flags, prev, next, folders, files, res) ==
  Lay([index |-> index, flags |-> flags \union (IF res = NoReserve THEN {} ELSE {"reserve"}),
       reserve |-> res, prev |-> prev, next |-> next, folders |-> folders, files |-> files])
Fold(m, records) == [method |-> m, records |-> records]
Volume(i, c) == [cab |-> c, id |-> i]

(* Three cabinets: the file y begins in the first and ends in the third,    *)
(* and two blocks of its folder are split between two cabinets.             *)
Chain(m, check, res) ==
  LET rec(cells, n) == Rec(cells, n, check, res.rsum)
      p(b) == Payload(m, 1, b, IF b = 4 THEN 1 ELSE 2)
      head(b) == rec(SubSeq(p(b), 1, 1), 0)
      tail(b) == rec(SubSeq(p(b), 2, 2), 2)
      y(i) == CabFile("y", 1, 4, i)
  IN  <<Volume(1, Laid(0, {"next"}, "A", "B", <<Fold(m, <<rec(p(1), 2), head(2)>>)>>,
                        <<CabFile("x", 0, 1, 0), y(Cab!ToNext)>>, res)),
        Volume(2, Laid(1, {"prev", "next"}, "A", "C", <<Fold(m, <<tail(2), head(3)>>)>>,
                        <<y(Cab!PreviousAndNext)>>, res)),
        Volume(3, Laid(2, {"prev"}, "A", "A",
                        <<Fold(m, <<tail(3), rec(p(4), 1)>>),
                          Fold(Stored, <<rec(Cab!Block(2, 1, 1), 1)>>)>>,
                        <<y(Cab!FromPrevious), CabFile("z", 5, 2, 0), CabFile("w", 0, 1, 1)>>,
                        res))>>
ChainMeaning ==
  <<[name |-> "x", cells |-> <<CabAt(1, 1, 1)>>],
    [name |-> "y", cells |-> <<CabAt(1, 1, 2), CabAt(1, 2, 1), CabAt(1, 2, 2), CabAt(1, 3, 1)>>],
    [name |-> "z", cells |-> <<CabAt(1, 3, 2), CabAt(1, 4, 1)>>],
    [name |-> "w", cells |-> <<CabAt(2, 1, 1)>>]>>

(* Two cabinets, whose folder goes on between two blocks, or ends.          *)
Pair(m, joined) ==
  LET rec(b) == Rec(Payload(m, IF joined THEN 1 ELSE b, IF joined THEN b ELSE 1, 2), 2, TRUE, 0)
  IN  <<Volume(1, Laid(0, {"next"}, "A", "B", <<Fold(m, <<rec(1)>>)>>,
                        IF joined THEN <<CabFile("y", 0, 3, Cab!ToNext)>>
                        ELSE <<CabFile("y", 0, 2, 0)>>, NoReserve)),
        Volume(2, Laid(1, {"prev"}, "A", "A", <<Fold(m, <<rec(2)>>)>>,
                        IF joined
                        THEN <<CabFile("y", 0, 3, Cab!FromPrevious), CabFile("z", 3, 1, 0)>>
                        ELSE <<CabFile("z", 1, 1, 0)>>, NoReserve))>>
PairMeaning(joined) ==
  IF joined
  THEN <<[name |-> "y", cells |-> <<CabAt(1, 1, 1), CabAt(1, 1, 2), CabAt(1, 2, 1)>>],
         [name |-> "z", cells |-> <<CabAt(1, 2, 2)>>]>>
  ELSE <<[name |-> "y", cells |-> <<CabAt(1, 1, 1), CabAt(1, 1, 2)>>],
         [name |-> "z", cells |-> <<CabAt(2, 1, 2)>>]>>

(* One cabinet with a folder of a method that is not known.                 *)
Lone(m) ==
  <<Volume(1, Laid(0, {}, "A", "A",
                    <<Fold([kind |-> "Unsupported"], <<Rec(Cab!Block(3, 1, 1), 1, TRUE, 0)>>),
                      Fold(m, <<Rec(Payload(m, 1, 1, 2), 2, TRUE, 0),
                                Rec(Payload(m, 1, 2, 1), 1, TRUE, 0)>>)>>,
                    <<CabFile("u", 0, 1, 0), CabFile("y", 1, 2, 1)>>, NoReserve))>>
LoneMeaning == <<[name |-> "u", cells |-> << >>],
                 [name |-> "y", cells |-> <<CabAt(1, 1, 2), CabAt(1, 2, 1)>>]>>
FirstMeaning == <<ChainMeaning[1], [name |-> "y", cells |-> << >>]>>

(* A source: its cabinets, what they hold, whether it is to be read to the  *)
(* end, whether its volumes may change meanwhile, and whether payloads that *)
(* nothing checks are torn.                                                 *)
CabSource(volumes, single, meaning, sound) ==
  [volumes |-> volumes, single |-> single, meaning |-> meaning, sound |-> sound,
   volatile |-> FALSE, torn |-> FALSE]
Reserves == {[header |-> 1, folder |-> 1, data |-> 1, rsum |-> 0],
             [header |-> 0, folder |-> 0, data |-> 2, rsum |-> 1]}
Recased(v) ==
  [v EXCEPT ![1].cab.next = <<"B", 1>>, ![2].cab.prev = <<"A", 1>>, ![3].cab.prev = <<"A", 2>>]
SoundSources ==
  {CabSource(Chain(m, TRUE, NoReserve), FALSE, {ChainMeaning}, TRUE) : m \in Methods}
  \union {CabSource(Chain(Stored, TRUE, res), FALSE, {ChainMeaning}, TRUE) : res \in Reserves}
  \union {CabSource(Recased(Chain(Stored, TRUE, NoReserve)), FALSE, {ChainMeaning}, TRUE)}
  \union {CabSource(Pair(m, joined), FALSE, {PairMeaning(joined)}, TRUE) :
            m \in Methods, joined \in BOOLEAN}
  \union {CabSource(Lone(m), single, {LoneMeaning}, TRUE) : m \in Methods, single \in BOOLEAN}
  \union {CabSource(SubSeq(Chain(m, TRUE, NoReserve), 1, 1), TRUE, {FirstMeaning},
                 m.kind \in {"Store", "Mszip"}) : m \in Methods}
VolatileSources ==
  {[CabSource(Chain(m, FALSE, NoReserve), FALSE, {ChainMeaning}, TRUE) EXCEPT !.volatile = TRUE] :
     m \in Methods}

(* Sets whose cabinets do not belong together, or contradict themselves.    *)
Broken(v) ==
  LET cab(k, field, value) == [v EXCEPT ![k].cab[field] = value]
      file(k, i, field, value) == [v EXCEPT ![k].cab.files[i][field] = value]
  IN  {SubSeq(v, 1, 2), <<v[1], v[3], v[2]>>, <<v[1], v[1], v[3]>>}
      \union {[v EXCEPT ![k].id = 1] : k \in 2..3}
      \union {cab(k, "setId", 8) : k \in 2..3}
      \union {cab(k, "index", 5) : k \in 1..3}
      \union {cab(k, f, FALSE) : k \in 1..3, f \in {"signature", "version"}}
      \union {cab(k, "size", n) : k \in 1..3, n \in {1, 99}}
      \union {cab(k, "coff", n) : k \in 1..3, n \in {0, 99}}
      \union {cab(k, "flags", v[k].cab.flags \ {f}) : k \in 1..3, f \in {"prev", "next"}}
      \union {cab(k, "flags", v[k].cab.flags \union {f}) : k \in {1, 3}, f \in {"prev", "next"}}
      \union {cab(k, "prev", n) : k \in 2..3, n \in {<< >>, CabName("B"), CabName("C")}}
      \union {cab(k, "next", n) : k \in 1..2, n \in {<< >>, CabName("B"), CabName("C")}}
      \union {file(k, 1, f, 2) : k \in 2..3, f \in {"size", "offset", "stamp"}}
      \union {file(k, 1, "name", <<"q", 0>>) : k \in 2..3}
      \union {file(1, 2, "iFolder", n) : n \in {0, Cab!FromPrevious}}
      \union {file(2, 1, "iFolder", n) : n \in {0, Cab!FromPrevious, Cab!ToNext}}
      \union {file(3, 1, "iFolder", n) : n \in {0, Cab!PreviousAndNext, Cab!ToNext}}
      \union {file(3, 3, "iFolder", 2)}
      \union {[v EXCEPT ![k].cab.folders[1].method =
                  [kind |-> "Lzx", valid |-> TRUE, window |-> 2]] : k \in 1..3}
      \union {[v EXCEPT ![3].cab.folders[1].count = 0],
              [v EXCEPT ![3].cab.folders[1].offset = 99],
              [v EXCEPT ![3].cab.folders[2].offset = v[3].cab.folders[1].offset]}
Torn(v) ==
  {[v EXCEPT ![k].cab.data = [x \in DOMAIN @ |->
      IF x # o THEN @[x]
      ELSE [@[x] EXCEPT !.cells = [i \in DOMAIN @ |-> Cab!Junk], !.psum = 1 - @]]] :
     k \in 1..3, o \in UNION {DOMAIN v[i].cab.data : i \in 1..3}}
BrokenSources ==
  UNION {{CabSource(v, FALSE, {}, FALSE) :
            v \in Broken(Chain(m, TRUE, NoReserve)) \ {Chain(m, TRUE, NoReserve)}} :
           m \in {Stored, [kind |-> "Mszip"]}}
  \union UNION {{CabSource(v, FALSE, {ChainMeaning}, FALSE) :
                   v \in Torn(Chain(m, TRUE, NoReserve))} : m \in Methods}
  \union UNION {{[CabSource(v, FALSE, {ChainMeaning}, FALSE) EXCEPT !.torn = TRUE] :
                   v \in Torn(Chain(m, FALSE, NoReserve))} : m \in Methods}
  \union {CabSource([Chain(m, TRUE, NoReserve) EXCEPT ![3].cab.files[k].size = 4], FALSE,
                 {ChainMeaning}, FALSE) : m \in Methods, k \in 2..3}

CabAmple == [entries |-> 9, metadata |-> 90, path |-> 2, entry |-> 9, inFlight |-> 12, total |-> 20,
          memory |-> 9]
CabScarce == {[CabAmple EXCEPT ![f] = n] : f \in {"entries", "path", "entry", "inFlight", "total",
                                           "memory"}, n \in 0..7}
CabScarceMetadata == {[CabAmple EXCEPT !.metadata = n] : n \in 0..89}

CabInit ==
  \/ \E s \in SoundSources \union VolatileSources \union BrokenSources : Cab!Init0(s, CabAmple)
  \/ \E m \in Methods, b \in CabScarce :
       Cab!Init0(CabSource(Chain(m, TRUE, NoReserve), FALSE, {ChainMeaning}, FALSE), b)
  \/ \E b \in CabScarceMetadata :
       \/ Cab!Init0(CabSource(Chain(Stored, TRUE, NoReserve), FALSE, {ChainMeaning}, FALSE), b)
       \/ Cab!Init0(CabSource(Lone(Stored), FALSE, {LoneMeaning}, FALSE), b)
  \/ \E b \in CabScarce :
       Cab!Init0(CabSource(Lone([kind |-> "Mszip"]), TRUE, {LoneMeaning}, FALSE), b)

CabNext ==
  \/ Cab!ReaderStep
  \/ /\ \/ reader.phase = "Unsupported"
        \/ source.sound /\ ~source.volatile /\ \A i \in DOMAIN events : ~events[i].skipped
     /\ Cab!SkipEntry
  \/ source.volatile /\ changed = {} /\ Cab!SourceChanges

-----------------------------------------------------------------------------
(* One of the two readers works; the other has nothing to do.               *)
Init ==
  \/ job = "udf" /\ UdfInit /\ Cab!Init0(CabSource(<< >>, FALSE, {}, FALSE), CabAmple)
  \/ job = "cab" /\ CabInit /\ Chosen(Unsound(Build("plain")), Ample)
Next ==
  \/ job = "udf" /\ UdfNext /\ UNCHANGED <<job, cabVars>>
  \/ job = "cab" /\ CabNext /\ UNCHANGED <<job, vars>>
  \/ phase \in {"failed", "done"} /\ UNCHANGED <<job, vars, cabVars>>
  \/ Cab!Ended /\ UNCHANGED <<job, vars, cabVars>>
Spec == Init /\ [][Next]_<<job, vars, cabVars>>

Listing(set) == {[path |-> e.path, kind |-> e.kind, target |-> e.target] : e \in set}
Lists(copy) ==
  Len(st.entries) = Cardinality(copy) /\ Listing(Range(st.entries)) = Listing(copy)
LinksFollow ==
  \A i \in 1..Len(st.entries) :
    st.entries[i].kind = "Hardlink" =>
      \/ st.entries[i].target = <<"/">>
      \/ \E j \in 1..(i - 1) : /\ st.entries[j].path = st.entries[i].target
                               /\ st.entries[j].kind # "Hardlink"

CabLists(m) ==
  [i \in 1..Len(m) |-> <<m[i].name, 0>>]
    = [i \in 1..Len(cabinet.files) |-> cabinet.files[i].name]
CabAgrees(got, want) ==
  /\ Len(got) <= Len(want)
  /\ \A j \in DOMAIN got : got[j] = want[j] \/ (source.torn /\ got[j] = Cab!Junk)

(* The index the reader hands out lists exactly what one copy of the tree   *)
(* holds, never a mixture of an abandoned walk and its repetition through   *)
(* the mirror, and every hard link follows the entry it links to            *)
(* (UdfParser::parse, reset_volume_contents, parse_directory).  The index   *)
(* of a set of cabinets lists each file once, also one that is continued    *)
(* through several, and is only made when every link between them holds     *)
(* (validate_cabinet_names, merge_cabinets).                                *)
IndexIsOneCopy ==
  /\ phase \in {"reading", "done"} => LinksFollow /\ \E c \in image.copies : Lists(c)
  /\ opening.stage = "read" => \E m \in source.meaning : CabLists(m)

(* The bytes returned for an entry are the bytes of that file in the copy   *)
(* that is listed, through every kind of partition mapping, hole and        *)
(* continuation; all of them when the entry ended and was not skipped       *)
(* (next_event, UdfDataCursor::read_exact, partition_extents).  The bytes   *)
(* of a file of a set of cabinets come from its own place in the folder,    *)
(* through blocks split between two cabinets and skipped entries, and none  *)
(* from a volume that changed since it was opened (decode_next_block,       *)
(* drain_to, JoinedCabInput::read).                                         *)
ContentIsTheFile ==
  /\ out # << >> =>
       \E c \in image.copies :
         /\ Lists(c)
         /\ \A i \in 1..Len(out) : \E f \in c :
              /\ f.path = out[i].path
              /\ IsPrefix(out[i].cells, f.cells)
              /\ (out[i].ended /\ ~out[i].skipped) => out[i].cells = f.cells
  /\ \A i \in 1..Len(events) : \E m \in source.meaning :
       /\ CabAgrees(events[i].cells, m[i].cells)
       /\ (events[i].ended /\ ~events[i].skipped) => Len(events[i].cells) = Len(m[i].cells)

(* An image is read to the end while a copy of each thing that is recorded  *)
(* twice is whole: an anchor, the main or the reserve descriptor sequence,  *)
(* a sparing table, the metadata tree or its mirror (can_fallback_to_reserve *)
(* and the places that use it).  A set of cabinets that belong together and *)
(* do not change is read to the end: whatever fields are reserved, however  *)
(* the names of the cabinets are written, wherever its blocks are split     *)
(* (parse_cabinet, cabinet_name_eq, merge_cabinets).                        *)
SoundIsRead ==
  /\ image.sound => phase # "failed"
  /\ (source.sound /\ changed = {}) => opening.stage # "failed"

(* What is left to do: the walk through the mirror, the stage, the anchors  *)
(* and control blocks not yet met, the directories waiting, the cells of    *)
(* the one being read, the entries, the cells of the entry to return, and   *)
(* whether it may still be skipped.                                         *)
Stage(p) == CASE p = "probe" -> 5 [] p = "anchors" -> 4 [] p = "contents" -> 3
              [] p = "walk" -> 2 [] p = "reading" -> 1 [] OTHER -> 0
Rank ==
  <<IF \/ phase \in {"probe", "anchors"}
       \/ phase \in {"contents", "walk"} /\ CanActivateMirror(st, volume.fileset.part)
    THEN 1 ELSE 0,
    Stage(phase), Len(anchors.left),
    Cardinality(DOMAIN image.desc) - Cardinality(DOMAIN st.icbs) - Cardinality(st.sdirs)
      - Cardinality(st.sicbs),
    Len(stack) + Len(streams), IF open.on THEN 1 + open.dc.data.remaining ELSE 0,
    Len(st.entries) - body.next,
    CASE body.state = "Metadata" -> 100 [] body.state = "Data" -> 2 + body.cursor.remaining
      [] body.state = "EndEntry" -> 1 [] OTHER -> 0,
    IF out # << >> /\ ~out[Len(out)].skipped THEN 1 ELSE 0>>

(* The same for cabinets: the volumes that may still change, the stage, the *)
(* volumes to open and to merge, the files, the state of the one being      *)
(* read, what is left of it, of the call and of the folder.                 *)
CabStage(x) == CASE x \in {"resolve", "parse"} -> 6 [] x = "names" -> 5 [] x = "merge" -> 4
                 [] x = "join" -> 3 [] x = "open" -> 2 [] x = "read" -> 1 [] x = "failed" -> 0
CabRank ==
  <<Len(source.volumes) - Cardinality(changed), CabStage(opening.stage),
    Len(source.volumes) - Len(opening.cabinets), IF opening.stage = "resolve" THEN 1 ELSE 0,
    Len(opening.cabinets) - opening.next, Len(cabinet.files) - reader.next,
    CASE reader.phase \in {"Data", "Unsupported"} -> 3 [] reader.phase = "EndEntry" -> 2
      [] reader.phase = "Idle" /\ call.op = "none" -> 1 [] OTHER -> 0,
    reader.remaining, IF call.op = "none" THEN 1 ELSE 0, call.left,
    IF stream.folder = -1 THEN 0 ELSE Cab!Folder.count - stream.block, stream.pending,
    CASE call.pc \in {"run", "piece"} -> 2 [] call.pc = "fetch" -> 1 [] OTHER -> 0>>
Below(a, b) ==
  \E i \in 1..Len(a) : a[i] < b[i] /\ \A j \in 1..(i - 1) : a[j] = b[j]

(* Every step of opening and reading an image leaves less to do, and none   *)
(* is undone: cycles of directories, continuations and descriptor pointers  *)
(* are cut, and the walk is repeated at most once.  As the reader only      *)
(* stops when it is done or has failed, it always ends (UdfParser::parse,   *)
(* parse_volume_contents, next_event).  So does every step on cabinets,     *)
(* where an entry that precedes what is decoded, a folder that ends early   *)
(* and a block without its last piece fail (prepare_file, ensure_block).    *)
EveryStepAdvances ==
  [][IF job = "udf" THEN Below(Rank', Rank) ELSE Below(CabRank', CabRank)]_<<vars, cabVars>>
=============================================================================
