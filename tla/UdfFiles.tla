------------------------------ MODULE UdfFiles ------------------------------
(***************************************************************************)
(* What a UDF volume describes (libarchive_oxide/src/udf.rs): the logical   *)
(* volume of its descriptor sequence, then its file sets, file entries and  *)
(* directories.                                                             *)
(***************************************************************************)
EXTENDS UdfPartition, TLC

-----------------------------------------------------------------------------
(***************************************************************************)
(* From the anchors of a UDF image to its logical volume                   *)
(* (libarchive_oxide/src/udf.rs, find_volume_set and                       *)
(* parse_volume_sequence): a Volume Descriptor Sequence is walked from     *)
(* extent to extent, its prevailing descriptors are kept, and the          *)
(* partition maps of the logical volume are checked against each other and *)
(* loaded.                                                                 *)
(***************************************************************************)

CONSTANT Supported     \* the revisions the reader knows

(***************************************************************************)
(* The descriptor sequence.                                                *)
(***************************************************************************)

(* vds_descriptors_identical: equal but for the place and the checksums.    *)
Identical(a, b) ==
  [a EXCEPT !.loc = 0, !.fault = "none"] = [b EXCEPT !.loc = 0, !.fault = "none"]

(* consider_descriptor: the higher sequence number prevails, and two with   *)
(* the same number must be the same descriptor.  A slot is a sequence of at *)
(* most one descriptor.                                                     *)
Considered(slot, d) ==
  IF slot = << >> \/ d.seq > slot[1].seq THEN <<d>> ELSE slot
Conflicts(slot, d) ==
  slot # << >> /\ d.seq = slot[1].seq /\ ~Identical(slot[1], d)

PartSlot(s, number) == IF number \in DOMAIN s.parts THEN s.parts[number] ELSE << >>

(* One descriptor of the sequence.                                          *)
VdsDescriptor(image, s, block) ==
  LET d  == DescriptorAt(image, block)
      s0 == Guard(s, (block + 1) * BlockSize <= image.length, "Malformed")
      s1 == Guard(s0, d.fault # "io", "Io")
      s2 == Guard(s1, ValidateTag(d, "any", block) = "ok", ValidateTag(d, "any", block))
      same == (d.tag \in {"PVD", "VDP", "IUVD", "PD", "LVD", "USD"}
               /\ d.seq \in DOMAIN s.numbered) => Identical(s.numbered[d.seq], d)
      s3 == Guard(s2, same, "Malformed")
      s4 == IF s3.err = "ok" /\ d.tag \in {"PVD", "VDP", "IUVD", "PD", "LVD", "USD"}
            THEN [s3 EXCEPT !.numbered = (d.seq :> d) @@ @] ELSE s3
  IN  CASE s.err # "ok" \/ s.ended -> s
        [] s4.err # "ok" -> s4
        [] d.tag = "PVD" -> [Guard(s4, ~Conflicts(s.primary, d), "Malformed") EXCEPT
                               !.primary = Considered(@, d)]
        [] d.tag = "PD"  -> [Guard(s4, ~Conflicts(PartSlot(s, d.number), d), "Malformed")
                             EXCEPT !.parts =
                               (d.number :> Considered(PartSlot(s, d.number), d)) @@ @]
        [] d.tag = "LVD" -> [Guard(s4, ~Conflicts(s.logical, d), "Malformed") EXCEPT
                               !.logical = Considered(@, d)]
        [] d.tag = "TD"  -> [s4 EXCEPT !.ended = TRUE, !.terminated = TRUE]
        [] d.tag = "VDP" -> [RequireVerified(s4, d) EXCEPT !.ended = TRUE, !.next = <<d.extent>>]
        [] d.tag \in {"IUVD", "USD", "LVID"} -> s4
        [] OTHER -> [s4 EXCEPT !.err = "Unsupported"]

(* The loop of parse_volume_sequence over the extents of a sequence: none   *)
(* is empty, unaligned, outside the image or visited twice, and each ends   *)
(* with a terminator or a pointer to the next.                              *)
RECURSIVE WalkVds(_, _, _, _)
WalkVds(image, lim, extent, s) ==
  LET s0 == Guard(s, extent.length # 0 /\ extent.length % BlockSize = 0, "Malformed")
      s1 == Guard(s0, extent \notin s.seen, "Malformed")
      s2 == Guard(s1, extent.block * BlockSize + extent.length <= image.length, "Malformed")
      s3 == Account(s2, extent.length, lim.metadata)
      s4 == IF s3.err # "ok" THEN s3
            ELSE FoldLeft(LAMBDA t, i : VdsDescriptor(image, t, extent.block + i - 1),
                          [s3 EXCEPT !.seen = @ \union {extent}, !.ended = FALSE,
                                     !.next = << >>],
                          [i \in 1..(extent.length \div BlockSize) |-> i])
      s5 == Guard(s4, s4.ended, "Malformed")
  IN  IF s5.err # "ok" \/ s5.terminated THEN s5 ELSE WalkVds(image, lim, s5.next[1], s5)

EmptyVds ==
  [err |-> "ok", used |-> 0, primary |-> << >>, logical |-> << >>,
   parts |-> [n \in {} |-> << >>], numbered |-> [n \in {} |-> ZeroBlock],
   seen |-> {}, ended |-> FALSE, terminated |-> FALSE, next |-> << >>]

(***************************************************************************)
(* The partitions.                                                         *)
(***************************************************************************)

(* The partition descriptors in the order of their numbers.                 *)
PhysicalPartition(image, s, number) ==
  LET d  == s.raw[number][1]
      s0 == RequireVerified(Guard(s, d.flaw = "ok", d.flaw), d)
      s1 == Guard(s0, (d.start + d.blocks) * BlockSize <= image.length, "Malformed")
  IN  IF s.err # "ok" THEN s
      ELSE [s1 EXCEPT !.physical =
              (number :> [start |-> d.start, blocks |-> d.blocks, access |-> d.access]) @@ @]

PhysicalPartitions(image, parts) ==
  FoldLeft(LAMBDA s, n : PhysicalPartition(image, s, n),
           [err |-> "ok", raw |-> parts, physical |-> [n \in {} |-> << >>]],
           SetToSortSeq(DOMAIN parts, <))

(* The kinds of partition map a revision knows.                             *)
MapAllowed(revision, map) ==
  CASE map.kind = "Metadata" -> revision >= 250
    [] map.kind = "Physical" -> TRUE
    [] OTHER -> revision >= 150

(* parse_logical_volume: known revision, maps the revision allows, and at   *)
(* least one map that is not built on another.                              *)
LogicalVolume(d, s) ==
  LET s0 == Guard(RequireVerified(s, d), d.flaw = "ok", d.flaw)
      s1 == Guard(s0, \A i \in 1..Len(d.maps) : MapAllowed(d.revision, d.maps[i]), "Unsupported")
      s2 == Guard(s1, \E i \in 1..Len(d.maps) : d.maps[i].kind \in {"Physical", "Sparable"},
                  "Malformed")
  IN  Guard(s2, d.revision \in Supported, "Unsupported")

(* The maps of one kind that name a partition, and those partitions.        *)
MapsOf(maps, kind, number) ==
  {i \in 1..Len(maps) : maps[i].kind = kind /\ maps[i].number = number}
NumbersOf(maps, kind) ==
  {maps[i].number : i \in {j \in 1..Len(maps) : maps[j].kind = kind}}

(* A partition is either read as it is or through sparing tables, and a     *)
(* virtual partition is neither sparable nor a metadata partition's base.   *)
MapsAgree(maps) ==
  /\ NumbersOf(maps, "Sparable") \intersect NumbersOf(maps, "Physical") = {}
  /\ NumbersOf(maps, "Metadata") \intersect NumbersOf(maps, "Virtual") = {}
  /\ NumbersOf(maps, "Sparable") \intersect NumbersOf(maps, "Virtual") = {}

(* The first loop over the maps: sparable partitions, rewritable and made   *)
(* of whole packets, are loaded before anything is built on them.           *)
SparableMap(image, lim, volume, maps, physical, s, map) ==
  LET p  == physical[map.number]
      s0 == Guard(s, map.volume = volume, "Malformed")
      s1 == Guard(s0, Cardinality(MapsOf(maps, "Sparable", map.number)) = 1, "Malformed")
      s2 == Guard(s1, map.number \in DOMAIN physical, "Malformed")
      s3 == Guard(s2, p.access = 3 /\ p.start % map.packet = 0 /\ p.blocks % map.packet = 0,
                  "Malformed")
      loaded == LoadSparablePartition(image, lim, p, map)
      s4 == Guard(s3, loaded.err = "ok", loaded.err)
  IN  IF s.err # "ok" \/ map.kind # "Sparable" THEN s
      ELSE IF s4.err # "ok" THEN s4
      ELSE [s4 EXCEPT !.sparable = (map.number :> loaded.partition) @@ @]

PlainPartition(p) == [kind |-> "Physical", blocks |-> p.blocks, start |-> p.start]

(* A metadata partition has exactly one base, physical or sparable.         *)
MetadataMap(image, lim, maps, physical, s, map) ==
  LET plain == MapsOf(maps, "Physical", map.number)
      bases == plain \union MapsOf(maps, "Sparable", map.number)
      s0 == Guard(s, map.number \notin s.metadata /\ Cardinality(bases) = 1
                     /\ map.number \in DOMAIN physical, "Malformed")
      s1 == Guard(s0, plain # {} => physical[map.number].access \in {0, 1, 4}, "Malformed")
      base == IF plain # {} THEN PlainPartition(physical[map.number])
              ELSE s.sparable[map.number]
      loaded == LoadMetadataPartition([image |-> image, lim |-> lim, base |-> base, map |-> map])
      s2 == Guard(s1, loaded.err = "ok", loaded.err)
  IN  IF s2.err # "ok" THEN s2
      ELSE [s2 EXCEPT !.metadata = @ \union {map.number},
                      !.partitions = Append(@, loaded.partition)]

(* A virtual partition is on the only map of a write-once partition.        *)
VirtualMap(image, lim, revision, maps, physical, s, map) ==
  LET bases == MapsOf(maps, "Physical", map.number)
      s0 == Guard(s, map.number \notin s.virtual /\ Cardinality(bases) = 1
                     /\ map.number \in DOMAIN physical, "Malformed")
      s1 == Guard(s0, physical[map.number].access = 2, "Malformed")
      loaded == LoadVirtualPartition(
                  [image |-> image, lim |-> lim, physical |-> physical[map.number],
                   reference |-> Min(bases) - 1, revision |-> revision])
      s2 == Guard(s1, loaded.err = "ok", loaded.err)
  IN  IF s2.err # "ok" THEN s2
      ELSE [s2 EXCEPT !.virtual = @ \union {map.number},
                      !.partitions = Append(@, loaded.partition)]

(* The second loop: every map becomes a partition, in the order of maps.    *)
PartitionMap(image, lim, volume, revision, maps, physical, s, map) ==
  LET s0 == Guard(s, map.volume = volume, "Malformed")
      s1 == Guard(s0, map.number \in DOMAIN physical, "Malformed")
  IN  CASE s0.err # "ok" -> s0
        [] map.kind = "Metadata" -> MetadataMap(image, lim, maps, physical, s0, map)
        [] map.kind = "Virtual" -> VirtualMap(image, lim, revision, maps, physical, s0, map)
        [] s1.err # "ok" -> s1
        [] map.kind = "Sparable" ->
             [s1 EXCEPT !.partitions = Append(@, s.sparable[map.number])]
        [] OTHER -> [s1 EXCEPT !.partitions = Append(@, PlainPartition(physical[map.number]))]

(* validate_icb_with_partitions.                                            *)
IcbValid(icb, partitions) ==
  /\ icb.length # 0
  /\ icb.part + 1 \in 1..Len(partitions)
  /\ InPartition(partitions[icb.part + 1], icb.block, icb.length)

(* What parse_volume_sequence makes of the descriptors it has kept.         *)
LoadVolume(image, lim, raw) ==
  LET s0 == Guard([err |-> "ok"], raw.primary # << >>, "Malformed")
      p  == raw.primary[1]
      s1 == IF s0.err # "ok" THEN s0 ELSE Guard(RequireVerified(s0, p), p.flaw = "ok", p.flaw)
      parts == PhysicalPartitions(image, raw.parts)
      s2 == Guard(s1, parts.err = "ok", parts.err)
      s3 == Guard(s2, raw.logical # << >>, "Malformed")
      l  == raw.logical[1]
      s4 == IF s3.err # "ok" THEN s3 ELSE LogicalVolume(l, s3)
      s5 == Guard(s4, MapsAgree(l.maps), "Malformed")
      s6 == FoldLeft(LAMBDA s, m : SparableMap(image, lim, p.volume, l.maps, parts.physical, s, m),
                     [err |-> s5.err, sparable |-> [n \in {} |-> << >>], partitions |-> << >>,
                      metadata |-> {}, virtual |-> {}], l.maps)
      s7 == FoldLeft(LAMBDA s, m : PartitionMap(image, lim, p.volume, l.revision, l.maps,
                                                parts.physical, s, m), s6, l.maps)
      s8 == Guard(s7, IcbValid(l.fileset, s7.partitions), "Malformed")
  IN  IF s5.err # "ok" THEN [err |-> s5.err]
      ELSE IF s8.err # "ok" THEN [err |-> s8.err]
      ELSE [err |-> "ok", partitions |-> s8.partitions, fileset |-> l.fileset,
            revision |-> l.revision, name |-> IF l.name # "" THEN l.name ELSE p.name]

(* parse_volume_sequence.                                                   *)
ParseVolumeSequence(image, lim, extent) ==
  LET raw == WalkVds(image, lim, extent, EmptyVds)
  IN  IF raw.err # "ok" THEN [err |-> raw.err] ELSE LoadVolume(image, lim, raw)

-----------------------------------------------------------------------------
(***************************************************************************)
(* What an information control block of a UDF volume says of a file        *)
(* (libarchive_oxide/src/udf.rs): the file entry in each of its roles, its *)
(* allocation descriptors, the cursor over a payload and the cursor over   *)
(* the records of a directory.                                             *)
(*                                                                         *)
(* A context is the image, the limits, the partitions and the revision.  A *)
(* cell of a payload is its place in the image, or NoBlock in a hole; the  *)
(* cells embedded in a file entry are at the place its field "at" gives.   *)
(* A directory record takes one cell.                                      *)
(***************************************************************************)

CONSTANT MaxFsdExtents   \* MAX_FSD_EXTENTS

(***************************************************************************)
(* File entries.                                                           *)
(***************************************************************************)

(* read_partition_block: one block of a partition, zeros or not.            *)
PartitionBlock(ctx, part, block) ==
  LET found == PartitionExtents(ctx.image, ctx.partitions[part + 1], block, BlockSize)
      e     == found.extents[1]
      d     == DescriptorAt(ctx.image, e.source \div BlockSize)
  IN  IF part + 1 \notin 1..Len(ctx.partitions) THEN [err |-> "Malformed", d |-> ZeroBlock]
      ELSE IF found.err # "ok" THEN [err |-> found.err, d |-> ZeroBlock]
      ELSE IF Len(found.extents) # 1 \/ e.source = NoBlock
      THEN [err |-> "Malformed", d |-> ZeroBlock]
      ELSE [err |-> IF d.fault = "io" THEN "Io" ELSE "ok", d |-> d]

(* read_icb_descriptor_any: a descriptor always fits in one cell.           *)
IcbDescriptor(ctx, icb) ==
  LET r == PartitionBlock(ctx, icb.part, icb.block)
  IN  IF ~IcbValid(icb, ctx.partitions) THEN [err |-> "Malformed", d |-> ZeroBlock]
      ELSE IF r.err # "ok" THEN r
      ELSE [r EXCEPT !.err = ValidateTag(r.d, "any", icb.block)]

NoPayload == [kind |-> "None", at |-> 0, tag |-> 0, size |-> 0, extents |-> << >>]
InlinePayload(d, block) ==
  [NoPayload EXCEPT !.kind = "Inline", !.at = d.at, !.tag = block, !.size = d.size]
ExtentPayload(extents) == [NoPayload EXCEPT !.kind = "Extents", !.extents = extents]

(* payload_length.                                                          *)
PayloadLength(payload) ==
  IF payload.kind = "Extents"
  THEN FoldLeft(LAMBDA n, e : n + e.length, 0, payload.extents) ELSE payload.size

(* The branch of parse_allocation_descriptors for a continuation.           *)
FileContinuation(ctx, ads, i, part, s) ==
  LET ad == ads[i]
      r  == IcbDescriptor(ctx, Icb(part, ad.block, ad.length))
      s0 == Guard(s, ZerosAfter(ads, i), "Malformed")
      s1 == Guard(s0, <<part, ad.block>> \notin s.chains, "Malformed")
      s2 == Guard(Guard(s1, r.err = "ok", r.err), r.d.tag = "AED", "Malformed")
      s3 == IF s2.err # "ok" THEN s2 ELSE RequireVerified(s2, r.d)
  IN  IF s3.err # "ok" THEN s3
      ELSE [Account(s3, Len(r.d.ads), ctx.lim.metadata) EXCEPT
              !.chains = @ \union {<<part, ad.block>>}, !.stop = TRUE,
              !.next = [ad EXCEPT !.part = part]]

(* Its branch for an extent: recorded ones are translated by their          *)
(* partition, the others are holes, and past the information length only    *)
(* whole unrecorded blocks may follow.                                      *)
FileExtent(ctx, alloc, size, ad, part, s) ==
  LET ext     == alloc = "ext"
      p       == ctx.partitions[part + 1]
      logical == IF ext THEN ad.info ELSE ad.length
      written == IF ext THEN ad.recorded ELSE IF ad.type = Recorded THEN ad.length ELSE 0
      found   == CASE ad.type = Recorded -> PartitionExtents(ctx.image, p, ad.block, logical)
                   [] ad.type = Unrecorded /\ ~InPartition(p, ad.block, ad.length)
                        -> Mapped("Malformed", << >>)
                   [] ad.type = Unallocated /\ ~(ad.block = 0 /\ (alloc = "short" \/ part = 0))
                        -> Mapped("Malformed", << >>)
                   [] OTHER -> Mapped("ok", <<Extent(NoBlock, logical, ad.block)>>)
      next    == s.offset + logical
      s0 == Guard(s, part + 1 \in 1..Len(ctx.partitions), "Malformed")
      s1 == Guard(s0, ext => ad.recorded <= ad.length, "Malformed")
      s2 == Guard(s1, (ext /\ ad.type = Recorded) => ad.recorded = ad.info, "Unsupported")
      s3 == Guard(s2, (ext /\ ad.type # Recorded) => ad.recorded = 0, "Malformed")
      s4 == Guard(s3, found.err = "ok", found.err)
      tail == ad.type = Unrecorded /\ ad.length % BlockSize = 0 /\ (ext => logical = 0)
      s5 == Guard(s4, next <= size /\ (next < size => ad.length % BlockSize = 0), "Malformed")
  IN  IF s4.err = "ok" /\ s.offset >= size THEN Guard(s4, tail, "Malformed")
      ELSE IF s5.err # "ok" THEN s5
      ELSE [s5 EXCEPT !.recorded = @ + IF ad.type = Recorded THEN CeilDiv(written, BlockSize)
                                       ELSE 0,
                      !.extents = @ \o found.extents, !.offset = next]

FileAllocation(ctx, alloc, onlyPhysical, size, ads, default, s, i) ==
  LET ad   == ads[i]
      part == IF alloc = "short" THEN default ELSE ad.part
      physical == part + 1 \in 1..Len(ctx.partitions)
                  /\ ctx.partitions[part + 1].kind = "Physical"
  IN  CASE s.err # "ok" \/ s.stop -> s
        [] ad.length = 0 -> Terminated(s, ads, i)
        [] onlyPhysical /\ ~physical -> [s EXCEPT !.err = "Malformed"]
        [] ad.type = Continuation -> FileContinuation(ctx, ads, i, part, s)
        [] OTHER -> FileExtent(ctx, alloc, size, ad, part, s)

(* parse_allocation_descriptors: array after array of the chain.            *)
RECURSIVE FileAllocations(_, _, _, _, _, _, _)
FileAllocations(ctx, alloc, onlyPhysical, size, ads, default, s) ==
  LET s0 == FoldLeft(LAMBDA t, i : FileAllocation(ctx, alloc, onlyPhysical, size, ads,
                                                  default, t, i),
                     Restart(s), Indices(ads))
  IN  IF s0.err # "ok" THEN s0
      ELSE IF s0.next = ZeroAd THEN Guard(s0, s0.offset >= size, "Malformed")
      ELSE FileAllocations(ctx, alloc, onlyPhysical, size,
                           IcbDescriptor(ctx, Icb(s0.next.part, s0.next.block, 1)).d.ads,
                           s0.next.part, s0)

(* The file types and allocations a role and a partition mapping admit.     *)
TypeFits(role, type) ==
  CASE role = "Main" -> type \in {"directory", "file", "symlink"}
    [] role = "StreamDirectory" -> type = "streams"
    [] role = "NamedStream" -> type = "file"
    [] OTHER -> type = "attributes"
AllocationFits(mapping, type, alloc) ==
  /\ mapping = "Metadata" =>
       alloc \in (IF type \in {"directory", "streams"} THEN {"short"} ELSE {"long"})
                 \union {"inline"}
  /\ mapping = "Virtual" => alloc \in {"long", "inline"}

(* The control blocks a file entry may refer to: its stream directory, which *)
(* its object size counts, and its extended attributes.                     *)
FileReferences(ctx, d, role, s) ==
  LET s0 == Guard(s, d.sdir # NoIcb => ctx.revision >= 200 /\ role = "Main", "Malformed")
      s1 == Guard(s0, IF role = "Main" /\ d.sdir # NoIcb THEN d.object >= d.size
                      ELSE d.object = d.size, "Malformed")
      s2 == Guard(s1, d.sdir # NoIcb => IcbValid(d.sdir, ctx.partitions), "Malformed")
  IN  Guard(s2, d.ea # NoIcb => IcbValid(d.ea, ctx.partitions) /\ role = "Main", "Malformed")

(* parse_file_entry_for_role, up to the allocation.                         *)
FileHeader(ctx, d, icb, role, s) ==
  LET streams == role \in {"StreamDirectory", "NamedStream"}
      s0 == Guard(s, d.tag \in {"FE", "EFE"} /\ (streams => d.tag = "EFE"), "Malformed")
      s1 == Guard(s0, d.flaw = "ok", d.flaw)
      s2 == Guard(s1, TypeFits(role, d.type), IF role = "Main" THEN "Unsupported" ELSE "Malformed")
      s3 == Guard(s2, ~(role = "Main" /\ d.stream), "Unsupported")
      s4 == Guard(s3, d.stream <=> role = "NamedStream", "Malformed")
      s5 == Guard(s4, AllocationFits(ctx.partitions[icb.part + 1].kind, d.type, d.alloc),
                  "Malformed")
      s6 == RequireVerified(Guard(s5, d.size <= ctx.lim.entry, "Limit"), d)
  IN  FileReferences(ctx, d, role, s6)

FileKind(type) ==
  CASE type \in {"directory", "streams"} -> "Dir" [] type = "symlink" -> "Symlink"
    [] OTHER -> "File"

FileRecord(d, icb, payload) ==
  [kind |-> FileKind(d.type), size |-> d.size, object |-> d.object, inode |-> d.inode,
   links |-> d.links, sdir |-> d.sdir, payload |-> payload, body |-> d.body]
NoFile == [kind |-> "File", size |-> 0, object |-> 0, inode |-> 0, links |-> 0,
           sdir |-> NoIcb, payload |-> NoPayload, body |-> "ok"]

(* read_external_extended_attributes: what the file parsed in that role     *)
(* must satisfy; "body" is the verdict on the bytes it holds.               *)
AttributesRead(ctx, file, s) ==
  LET s0 == Guard(s, file.links = 0, "Malformed")
      s1 == Guard(s0, file.size <= ctx.lim.inflight
                      /\ s.used + file.size <= ctx.lim.metadata, "Limit")
      s2 == Guard(Guard(s1, file.size # 0, "Malformed"), file.body # "io", "Io")
  IN  Guard(s2, file.body = "ok", "Malformed")

(* read_symlink: limits, then the whole target is read and decoded.         *)
SymlinkRead(ctx, d, s) ==
  LET s0 == Guard(s, d.size <= ctx.lim.path /\ d.size <= ctx.lim.inflight, "Limit")
      s1 == IF s0.err # "ok" THEN s0
            ELSE Guard([s0 EXCEPT !.decoded = @ + d.size],
                       s0.decoded + d.size <= ctx.lim.decoded, "Limit")
  IN  Guard(Guard(s1, d.body # "io", "Io"), d.body = "ok", "Malformed")

(* parse_file_entry_for_role.                                               *)
RECURSIVE ParseFileEntry(_, _, _, _)
ParseFileEntry(ctx, s, icb, role) ==
  LET r  == IcbDescriptor(ctx, icb)
      d  == r.d
      s0 == Guard(s, r.err = "ok", r.err)
      s1 == IF s0.err # "ok" THEN s0 ELSE FileHeader(ctx, d, icb, role, s0)
      w  == IF d.alloc = "inline" THEN Walk(s1.used, << >>)
            ELSE FileAllocations(ctx, d.alloc, ctx.partitions[icb.part + 1].kind = "Virtual",
                                 d.size, d.ads, icb.part, Walk(s1.used, << >>))
      s2 == Guard(s1, w.err = "ok", w.err)
      s3 == IF s2.err # "ok" THEN s2
            ELSE Guard([s2 EXCEPT !.used = w.used], d.recorded = w.recorded, "Malformed")
      ea == ParseFileEntry(ctx, s3, d.ea, "ExternalAttributes")
      s4 == IF s3.err # "ok" \/ d.ea = NoIcb THEN s3
            ELSE IF ea.err # "ok" THEN ea ELSE AttributesRead(ctx, ea.file, ea)
      s5 == IF s4.err # "ok" \/ d.type # "symlink" THEN s4 ELSE SymlinkRead(ctx, d, s4)
      s6 == Guard(s5, (role = "Main" /\ d.sdir # NoIcb) => d.links >= 2, "Malformed")
      payload == CASE d.type = "symlink" -> NoPayload
                   [] d.alloc = "inline" -> InlinePayload(d, icb.block)
                   [] OTHER -> ExtentPayload(w.extents)
  IN  IF s6.err # "ok" THEN s6 ELSE [s6 EXCEPT !.file = FileRecord(d, icb, payload)]

(***************************************************************************)
(* Cursors.                                                                *)
(***************************************************************************)

(* UdfDataCursor::new.                                                      *)
Cursor(payload, length) ==
  [err |-> IF PayloadLength(payload) < length THEN "Malformed" ELSE "ok",
   payload |-> payload, index |-> 1, within |-> 0, position |-> 0, remaining |-> length,
   cells |-> << >>]

(* advance_exhausted_extents.                                               *)
RECURSIVE Advance(_)
Advance(c) ==
  IF c.payload.kind = "Extents" /\ c.index <= Len(c.payload.extents)
     /\ c.within = c.payload.extents[c.index].length
  THEN Advance([c EXCEPT !.index = @ + 1, !.within = 0]) ELSE c

(* tag_location, of a cursor that has been advanced.                        *)
TagLocation(c) ==
  IF c.payload.kind = "Inline" THEN c.payload.tag
  ELSE c.payload.extents[c.index].block + c.within \div BlockSize

(* read_exact: from extent to extent, a hole gives zeros; the input may     *)
(* fail on some cells.                                                      *)
RECURSIVE ReadExact(_, _, _)
ReadExact(image, c, count) ==
  LET inline == c.payload.kind = "Inline"
      e      == c.payload.extents[c.index]
      length == IF inline THEN c.payload.size ELSE e.length
      take   == Min({count, length - c.within})
      cell(k) == CASE inline -> c.payload.at + c.within + k
                   [] e.source = NoBlock -> NoBlock
                   [] OTHER -> e.source + c.within + k
  IN  IF count = 0 \/ c.err # "ok" THEN c
      ELSE IF c.payload.kind = "None" \/ (~inline /\ c.index > Len(c.payload.extents))
      THEN [c EXCEPT !.err = "Malformed"]
      ELSE IF take = 0 /\ inline THEN [c EXCEPT !.err = "Malformed"]
      ELSE IF \E k \in 0..(take - 1) : cell(k) \in image.bad THEN [c EXCEPT !.err = "Io"]
      ELSE IF take = 0 THEN ReadExact(image, [c EXCEPT !.index = @ + 1, !.within = 0], count)
      ELSE ReadExact(image, [c EXCEPT !.within = @ + take, !.position = @ + take,
                                      !.remaining = @ - take,
                                      !.cells = @ \o [k \in 1..take |-> cell(k - 1)]],
                     count - take)

(* A record of a directory, and the zeros that pad one.                     *)
ZeroFid == [zero |-> TRUE, loc |-> 0, fault |-> "none", flaw |-> "ok", directory |-> FALSE,
            parent |-> FALSE, deleted |-> FALSE, metadata |-> FALSE, icb |-> NoIcb, unique |-> 0,
            name |-> ""]
FidAt(image, cell) == IF cell \in DOMAIN image.fids THEN image.fids[cell] ELSE ZeroFid

DirectoryCursor(payload, length, parent, unique) ==
  [err |-> Cursor(payload, length).err, data |-> Cursor(payload, length), parent |-> parent,
   unique |-> unique, saw |-> FALSE, fid |-> ZeroFid]

(* The checks of UdfDirectoryCursor::next on one record.                    *)
FidChecked(dc, fid, location) ==
  LET verdict == ValidateTag([tag |-> "FID", loc |-> fid.loc, fault |-> fid.fault], "FID",
                             location)
      s0 == Guard(Guard(dc, fid.flaw # "Limit", "Limit"), verdict = "ok", verdict)
      s1 == Guard(RequireVerified(s0, fid), fid.flaw = "ok", "Malformed")
      s2 == Guard(s1, dc.saw \/ fid.parent, "Malformed")
      good == /\ fid.directory /\ fid.name = "" /\ ~dc.saw /\ fid.icb = dc.parent
              /\ dc.unique # NoBlock => fid.unique = dc.unique
  IN  Guard(s2, (fid.parent /\ ~fid.deleted) => good, "Malformed")

(* UdfDirectoryCursor::next: padding runs to the end of its block, deleted  *)
(* records are passed over, and the first record is the parent's.           *)
RECURSIVE NextFid(_, _)
NextFid(ctx, dc) ==
  LET at     == Advance(dc.data)
      read   == ReadExact(ctx.image, [at EXCEPT !.cells = << >>], 1)
      fid    == FidAt(ctx.image, read.cells[1])
      after  == read.position % BlockSize
      pad    == Min({read.remaining, IF after = 0 THEN 0 ELSE BlockSize - after})
      padded == ReadExact(ctx.image, [read EXCEPT !.cells = << >>], pad)
      clean  == \A i \in 1..Len(padded.cells) : FidAt(ctx.image, padded.cells[i]) = ZeroFid
      next   == [FidChecked(dc, fid, TagLocation(at)) EXCEPT !.data = read]
  IN  CASE dc.err # "ok" -> dc
        [] dc.data.remaining = 0 -> Guard([dc EXCEPT !.fid = ZeroFid], dc.saw, "Malformed")
        [] read.err # "ok" -> [dc EXCEPT !.err = read.err]
        [] fid.zero /\ padded.err # "ok" -> [dc EXCEPT !.err = padded.err]
        [] fid.zero -> IF ~clean THEN [dc EXCEPT !.err = "Malformed"]
                       ELSE NextFid(ctx, [dc EXCEPT !.data = padded])
        [] next.err # "ok" -> next
        [] fid.deleted -> NextFid(ctx, next)
        [] fid.parent -> NextFid(ctx, [next EXCEPT !.saw = TRUE])
        [] OTHER -> [next EXCEPT !.fid = fid]

(***************************************************************************)
(* File sets.                                                              *)
(***************************************************************************)

(* parse_file_set_descriptor.                                               *)
FileSetDescriptor(ctx, d, s) ==
  LET s0 == Guard(RequireVerified(s, d), d.flaw = "ok", d.flaw)
      s1 == Guard(s0, d.revision = ctx.revision, "Malformed")
      s2 == Guard(s1, d.sdir # NoIcb => ctx.revision >= 200, "Malformed")
  IN  Guard(s2, \A icb \in {d.next, d.sdir} \ {NoIcb} : IcbValid(icb, ctx.partitions),
            "Malformed")

(* One block of parse_file_set_sequence.                                    *)
FileSetBlock(ctx, extent, s, i) ==
  LET block == extent.block + i - 1
      r  == PartitionBlock(ctx, extent.part, block)
      d  == r.d
      s0 == Guard(Guard(s, r.err = "ok", r.err),
                  d = ZeroBlock \/ ValidateTag(d, "any", block) = "ok",
                  ValidateTag(d, "any", block))
      s1 == FileSetDescriptor(ctx, d, s0)
      same == \A n \in DOMAIN s.sets \intersect {d.number} : Identical(s.sets[n], d)
      s2 == Guard(s1, same, "Malformed")
      s3 == Guard([s2 EXCEPT !.sets = IF d.number \in DOMAIN @ THEN @ ELSE (d.number :> d) @@ @,
                             !.found = @ + 1],
                  s.used + s.found + 1 <= ctx.lim.metadata, "Limit")
  IN  CASE s.err # "ok" \/ s.stop -> s
        [] s0.err # "ok" -> s0
        [] d = ZeroBlock -> [s0 EXCEPT !.stop = TRUE]
        [] d.tag = "FSD" -> IF s2.err # "ok" THEN s2
                            ELSE [s3 EXCEPT !.stop = d.next # NoIcb, !.next = d.next]
        [] d.tag = "TD"  -> [Guard(s0, d.flaw = "ok", d.flaw) EXCEPT !.stop = TRUE]
        [] OTHER -> [s0 EXCEPT !.err = "Malformed"]

(* parse_file_set_sequence: extent after extent, the highest descriptor     *)
(* number of file set zero prevails.                                        *)
RECURSIVE FileSetSequence(_, _, _, _)
FileSetSequence(ctx, extent, count, s) ==
  LET s0 == Guard(s, count < MaxFsdExtents /\ count <= ctx.lim.nesting, "Limit")
      s1 == Guard(s0, IcbValid(extent, ctx.partitions) /\ extent.length % BlockSize = 0,
                  "Malformed")
      s2 == Guard(s1, <<extent.part, extent.block>> \notin s.seen, "Malformed")
      s3 == IF s2.err # "ok" THEN s2
            ELSE FoldLeft(LAMBDA t, i : FileSetBlock(ctx, extent, t, i),
                          [s2 EXCEPT !.seen = @ \union {<<extent.part, extent.block>>},
                                     !.stop = FALSE, !.next = NoIcb],
                          [i \in 1..(extent.length \div BlockSize) |-> i])
      zero == {n \in DOMAIN s3.sets : s3.sets[n].set = 0}
      s4 == Guard(s3, zero # {}, "Malformed")
  IN  IF s3.err # "ok" THEN s3
      ELSE IF s3.next # NoIcb THEN FileSetSequence(ctx, s3.next, count + 1, s3)
      ELSE IF s4.err # "ok" THEN s4
      ELSE [s4 EXCEPT !.used = @ + s4.found, !.sets = <<s4.sets[Max(zero)]>>]

FileSetWalk(used) ==
  [err |-> "ok", used |-> used, sets |-> [n \in {} |-> ZeroBlock], found |-> 0, seen |-> {},
   stop |-> FALSE, next |-> NoIcb]
=============================================================================
