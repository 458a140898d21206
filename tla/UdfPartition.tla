---------------------------- MODULE UdfPartition ----------------------------
(***************************************************************************)
(* How the UDF reader turns a block of a partition into bytes of the image *)
(* (libarchive_oxide/src/udf.rs): the four partition mappings, and the     *)
(* loading of the three that are built from tables in the image: sparing   *)
(* tables, the Virtual Allocation Table with its history, and the Metadata *)
(* File with its mirror and bitmap.                                        *)
(*                                                                         *)
(* An image is a record: its length, desc (the descriptor a block holds),  *)
(* words (a cell of a Virtual Allocation Table) and fids (a directory      *)
(* record).  Lengths and offsets count cells, BlockSize of them to a       *)
(* block, so that an extent may end inside a block.  A descriptor keeps    *)
(* the fields the code acts on; "fault" is what is wrong with its tag and  *)
(* "flaw" the kind of error one of its reserved, fixed or redundant fields *)
(* is refused with ("ok" when none is).  Budgets count items, not bytes.   *)
(***************************************************************************)
EXTENDS Integers, Sequences, FiniteSets, SequencesExt, FiniteSetsExt

CONSTANTS BlockSize,         \* cells of a block
          MaxVatDiscovery,   \* MAX_VAT_DISCOVERY_BLOCKS
          MaxVatHistory      \* MAX_VAT_HISTORY_DEPTH

(* None and u32::MAX, and an extent that no part of the image backs.        *)
NoBlock == -1

(* An address of an information control block: partition map, block and     *)
(* length in cells; NoIcb is the empty one.                                 *)
Icb(part, block, length) == [part |-> part, block |-> block, length |-> length]
NoIcb == Icb(NoBlock, NoBlock, 0)

CeilDiv(n, d) == (n + d - 1) \div d

(* A computation carries the kind of its error, "ok" while it has none: the *)
(* first guard that does not hold decides it.                               *)
Guard(s, holds, kind) ==
  IF s.err = "ok" /\ ~holds THEN [s EXCEPT !.err = kind] ELSE s

(* account_vat_budget, account_local_metadata_budget: the budget grows, and *)
(* is compared with the limit after it has grown.                           *)
Account(s, count, maximum) ==
  IF s.err # "ok" THEN s
  ELSE Guard([s EXCEPT !.used = @ + count], s.used + count <= maximum, "Limit")

CanFallbackToReserveMalformed(kind) == kind = "Malformed"
CanFallbackToReserve(kind) == kind \in {"Malformed", "Integrity"}

RangesOverlap(left, right) == left[1] < right[2] /\ right[1] < left[2]

(* A range joins the ranges already taken only when it overlaps none.       *)
InsertRange(s, range) ==
  LET free == \A i \in 1..Len(s.occupied) : ~RangesOverlap(s.occupied[i], range)
  IN  Guard(IF free THEN [s EXCEPT !.occupied = Append(@, range)] ELSE s,
            free, "Malformed")

(***************************************************************************)
(* Descriptors.                                                            *)
(***************************************************************************)

(* A block of zeros: tag 0, which is also the tag of a sparing table, and   *)
(* descriptor version 0.                                                    *)
ZeroBlock == [tag |-> "zero", loc |-> 0, fault |-> "version", flaw |-> "ok"]

DescriptorAt(image, block) ==
  IF block \in DOMAIN image.desc THEN image.desc[block] ELSE ZeroBlock

(* validate_descriptor_tag: the checks in the code's order. A fault "short" *)
(* is a CRC that does not cover the fields, refused where they are used.    *)
ValidateTag(d, expected, location) ==
  LET s0 == Guard([err |-> "ok"], expected \in {"any", d.tag}, "Malformed")
      s1 == Guard(s0, d.fault # "version", "Unsupported")
      s2 == Guard(s1, d.fault # "checksum", "Integrity")
      s3 == Guard(s2, d.loc = location, "Integrity")
  IN  Guard(s3, d.fault # "crc", "Integrity").err

RequireVerified(s, d) == Guard(s, d.fault # "short", "Malformed")

(* A block read at its place in the image, refused when it is all zeros.    *)
Descriptor(image, block, expected, location) ==
  LET d  == DescriptorAt(image, block)
      s0 == Guard([err |-> "ok", d |-> d], d.fault # "io", "Io")
      s1 == Guard(s0, d # ZeroBlock, "Malformed")
  IN  Guard(s1, ValidateTag(d, expected, location) = "ok",
            ValidateTag(d, expected, location))

(* physical_block_range.                                                    *)
PhysicalRange(physical, block, blocks) ==
  <<physical.start + block, physical.start + block + blocks>>
InPhysical(physical, block, blocks) ==
  blocks # 0 /\ block + blocks <= physical.blocks

PhysicalDescriptor(image, physical, block, expected) ==
  IF ~InPhysical(physical, block, 1) THEN [err |-> "Malformed", d |-> ZeroBlock]
  ELSE Descriptor(image, physical.start + block, expected, block)

(***************************************************************************)
(* Partition mappings.                                                     *)
(***************************************************************************)
Extent(source, length, block) ==
  [source |-> source, length |-> length, block |-> block]

Mapped(err, extents) == [err |-> err, extents |-> extents]
Followed(extent, rest) ==
  IF rest.err # "ok" THEN rest ELSE Mapped("ok", <<extent>> \o rest.extents)

PhysicalExtent(image, start, block, length) ==
  LET offset == (start + block) * BlockSize
  IN  IF offset + length > image.length THEN Mapped("Malformed", << >>)
      ELSE Mapped("ok", <<Extent(offset, length, block)>>)

(* sparable_partition_extents: packet by packet, the first from its middle. *)
RECURSIVE SparableExtents(_, _, _, _)
SparableExtents(image, p, block, length) ==
  LET within   == block % p.packet
      packet   == block - within
      count    == Min({length, (p.packet - within) * BlockSize})
      physical == IF packet \in DOMAIN p.mapped THEN p.mapped[packet] + within
                  ELSE p.start + block
  IN  IF length = 0 THEN Mapped("ok", << >>)
      ELSE IF physical * BlockSize + count > image.length
      THEN Mapped("Malformed", << >>)
      ELSE Followed(Extent(physical * BlockSize, count, block),
                    SparableExtents(image, p, block + CeilDiv(count, BlockSize),
                                    length - count))

(* virtual_partition_extents: one block at a time.                          *)
RECURSIVE VirtualExtents(_, _, _, _)
VirtualExtents(image, p, block, length) ==
  LET count  == Min({length, BlockSize})
      source == (p.start + p.entries[block + 1]) * BlockSize
  IN  IF length = 0 THEN Mapped("ok", << >>)
      ELSE IF p.entries[block + 1] = NoBlock \/ source + BlockSize > image.length
      THEN Mapped("Malformed", << >>)
      ELSE Followed(Extent(source, count, block),
                    VirtualExtents(image, p, block + 1, length - count))

(* metadata_partition_extents: through the extents of the copy in use.      *)
RECURSIVE FileExtents(_, _, _)
FileExtents(file, offset, length) ==
  LET holds(e) == e.logical <= offset /\ offset < e.logical + e.length
      found    == SelectInSeq(file.extents, holds)
      e        == file.extents[found]
      within   == offset - e.logical
      count    == Min({length, e.length - within})
  IN  IF length = 0 THEN Mapped("ok", << >>)
      ELSE IF found = 0 THEN Mapped("Malformed", << >>)
      ELSE Followed(Extent(IF e.source = NoBlock THEN NoBlock ELSE e.source + within,
                           count, offset \div BlockSize),
                    FileExtents(file, offset + count, length - count))

MetadataExtents(p, block, length) ==
  FileExtents(IF p.using_mirror THEN p.mirror ELSE p.primary,
              block * BlockSize, length)

(* partition_extents, after validate_partition_extent.                      *)
InPartition(p, block, length) == block + CeilDiv(length, BlockSize) <= p.blocks
PartitionExtentsUnspared(image, p, block, length) ==
  CASE ~InPartition(p, block, length) -> Mapped("Malformed", << >>)
    [] p.kind \in {"Physical", "Sparable"} -> PhysicalExtent(image, p.start, block, length)
    [] p.kind = "Virtual"  -> VirtualExtents(image, p, block, length)
    [] p.kind = "Metadata" -> MetadataExtents(p, block, length)
PartitionExtents(image, p, block, length) ==
  CASE ~InPartition(p, block, length) -> Mapped("Malformed", << >>)
    [] p.kind = "Physical" -> PhysicalExtent(image, p.start, block, length)
    [] p.kind = "Sparable" -> SparableExtents(image, p, block, length)
    [] p.kind = "Virtual"  -> VirtualExtents(image, p, block, length)
    [] p.kind = "Metadata" -> MetadataExtents(p, block, length)

(* udf_extent_block_ranges: the blocks of the image behind some extents.    *)
BlockRanges(extents) ==
  [i \in 1..Len(extents) |->
     <<extents[i].source \div BlockSize,
       (extents[i].source + extents[i].length) \div BlockSize>>]

(* read_partition_block, read_base_partition_descriptor.                    *)
PartitionDescriptor(image, p, block, expected) ==
  LET found == PartitionExtents(image, p, block, BlockSize)
      e     == found.extents[1]
  IN  IF found.err # "ok" THEN [err |-> found.err, d |-> ZeroBlock]
      ELSE IF Len(found.extents) # 1 \/ e.source = NoBlock
      THEN [err |-> "Malformed", d |-> ZeroBlock]
      ELSE Descriptor(image, e.source \div BlockSize, expected, block)

(***************************************************************************)
(* Sparing tables.                                                         *)
(***************************************************************************)

(* SPARING_ENTRY_DEFECTIVE and SPARING_ENTRY_AVAILABLE.                      *)
Defective == 1000
Available == 1001

(* The loop of parse_sparing_table over a table's entries: originals sorted *)
(* and unique, aligned, inside the partition; replacements inside the image *)
(* and clear of the tables and of each other.                               *)
SparingEntriesValid(image, physical, map, ranges, entries) ==
  LET mapped(i) == <<entries[i].mapped, entries[i].mapped + map.packet>>
  IN  \A i \in 1..Len(entries) :
        /\ i > 1 => /\ entries[i].original >= entries[i - 1].original
                    /\ entries[i].original < Defective =>
                         entries[i].original # entries[i - 1].original
        /\ \/ entries[i].original \in {Defective, Available}
           \/ /\ entries[i].original % map.packet = 0
              /\ entries[i].original + map.packet <= physical.blocks
        /\ mapped(i)[2] <= image.length \div BlockSize
        /\ \A j \in 1..Len(ranges) : ~RangesOverlap(ranges[j], mapped(i))
        /\ \A j \in 1..(i - 1) : ~RangesOverlap(mapped(j), mapped(i))

ParseSparingTable(image, lim, physical, map, ranges, retained, location) ==
  LET d  == DescriptorAt(image, location)
      s0 == Guard([err |-> "ok", sequence |-> 0, entries |-> << >>],
                  Len(ranges) + retained + map.size <= lim.metadata, "Limit")
      s1 == Guard(s0, d.fault # "io", "Io")
      s2 == Guard(s1, ValidateTag(d, "zero", location) = "ok",
                  ValidateTag(d, "zero", location))
      s3 == Guard(RequireVerified(s2, d), d.flaw = "ok", d.flaw)
      s4 == Guard(s3, Len(d.entries) < map.size, "Malformed")
      s5 == Guard(s4, Len(ranges) + retained + map.size + Len(d.entries) <= lim.metadata,
                  "Limit")
      s6 == Guard(s5, SparingEntriesValid(image, physical, map, ranges, d.entries),
                  "Malformed")
  IN  IF s6.err # "ok" THEN s6
      ELSE [err |-> "ok", sequence |-> d.sequence, entries |-> d.entries]

(* The bookkeeping of load_sparable_partition before any table is read: the *)
(* copies are inside the image, and share neither a block nor a packet.     *)
TableRanges(map) ==
  [i \in 1..Len(map.tables) |->
     <<map.tables[i], map.tables[i] + CeilDiv(map.size, BlockSize)>>]
TablesPlaced(image, map) ==
  LET ranges  == TableRanges(map)
      packets == [i \in 1..Len(ranges) |->
                    <<(ranges[i][1] \div map.packet) * map.packet,
                      CeilDiv(ranges[i][2], map.packet) * map.packet>>]
  IN  /\ \A i \in 1..Len(ranges) : ranges[i][2] <= image.length \div BlockSize
      /\ \A i, j \in 1..Len(ranges) :
           i < j => /\ map.tables[i] # map.tables[j]
                    /\ ~RangesOverlap(ranges[i], ranges[j])
                    /\ ~RangesOverlap(packets[i], packets[j])

(* One copy is read: a damaged one is set aside, any other error ends it.   *)
ReadSparingCopy(image, lim, physical, map, s, location) ==
  LET t == ParseSparingTable(image, lim, physical, map, TableRanges(map),
                             s.retained, location)
  IN  IF s.err # "ok" THEN s
      ELSE IF t.err = "ok"
      THEN [s EXCEPT !.tables = Append(@, t), !.retained = @ + Len(t.entries)]
      ELSE IF CanFallbackToReserve(t.err)
      THEN [s EXCEPT !.first = IF @ = "ok" THEN t.err ELSE @]
      ELSE [s EXCEPT !.err = t.err]

(* load_sparable_partition: the readable copy with the highest sequence     *)
(* number prevails; copies with that number must agree.                     *)
LoadSparablePartition(image, lim, physical, map) ==
  LET s0 == Guard([err |-> "ok", tables |-> << >>, retained |-> 0, first |-> "ok"],
                  map.size <= lim.inflight /\ map.size <= lim.metadata, "Limit")
      s1 == Guard(s0, TablesPlaced(image, map), "Malformed")
      s2 == Guard(s1, Len(map.tables) <= lim.metadata, "Limit")
      s3 == FoldLeft(LAMBDA s, location :
                       ReadSparingCopy(image, lim, physical, map, s, location),
                     s2, map.tables)
      s4 == Guard(s3, s3.tables # << >>, s3.first)
      highest == Max({s4.tables[i].sequence : i \in 1..Len(s4.tables)})
      newest  == SelectSeq(s4.tables, LAMBDA t : t.sequence = highest)
      s5 == Guard(s4, \A i \in 1..Len(newest) : newest[i].entries = newest[1].entries,
                  "Integrity")
      active  == SelectSeq(newest[1].entries, LAMBDA e : e.original < Defective)
      s6 == Guard(s5, Len(map.tables) + s5.retained + Len(active) <= lim.metadata, "Limit")
  IN  IF s6.err # "ok" THEN [err |-> s6.err]
      ELSE [err |-> "ok",
            partition |->
              [kind |-> "Sparable", blocks |-> physical.blocks,
               start |-> physical.start, packet |-> map.packet,
               mapped |-> [o \in {active[i].original : i \in 1..Len(active)} |->
                             (CHOOSE e \in Range(active) : e.original = o).mapped]]]

(***************************************************************************)
(* Allocation descriptors, shared by the walks over a file's allocation.   *)
(* An allocation is its extent type, its length in cells, a block, the     *)
(* partition it is in and, for extended descriptors, the information and   *)
(* recorded lengths.                                                       *)
(***************************************************************************)
Recorded == 0
Unrecorded == 1
Unallocated == 2
Continuation == 3
ZeroAd == [type |-> Recorded, length |-> 0, block |-> 0, part |-> 0,
           info |-> 0, recorded |-> 0]

(* Nothing but zeros follows a terminator or a continuation.                *)
ZerosAfter(ads, i) == \A j \in (i + 1)..Len(ads) : ads[j] = ZeroAd

(* The first descriptor of length zero, itself all zeros, ends the array.   *)
Terminated(s, ads, i) ==
  [Guard(s, ads[i] = ZeroAd /\ ZerosAfter(ads, i), "Malformed") EXCEPT !.stop = TRUE]

(* A walk over an allocation array: what it has gathered, the continuation  *)
(* blocks already visited and the one to visit next.                        *)
Walk(used, occupied) ==
  [err |-> "ok", used |-> used, occupied |-> occupied, extents |-> << >>,
   offset |-> 0, recorded |-> 0, chains |-> {}, depth |-> 0, back |-> 0,
   stop |-> FALSE, next |-> ZeroAd]
Restart(s) == [s EXCEPT !.stop = FALSE, !.next = ZeroAd]
Indices(seq) == [i \in 1..Len(seq) |-> i]

(***************************************************************************)
(* The Virtual Allocation Table.  A context carries the image, the limits, *)
(* the physical partition and its map's index, and the revision.           *)
(***************************************************************************)
VatType(revision) == IF revision = 150 THEN "unspecified" ELSE "vat"

(* The branch of parse_vat_allocations for a continuation.                  *)
VatContinuation(ctx, ads, i, s) ==
  LET ad == ads[i]
      s0 == Guard(s, ZerosAfter(ads, i) /\ ad.length <= BlockSize, "Malformed")
      s1 == Guard(s0, ad.block \notin s.chains, "Malformed")
      s2 == Account(s1, 1, ctx.lim.metadata)
      s3 == Guard(s2, s.depth + 1 <= Min({MaxVatHistory, ctx.lim.nesting}), "Limit")
      s4 == Guard(s3, InPhysical(ctx.physical, ad.block, 1), "Malformed")
      s5 == IF s4.err # "ok" THEN s4
            ELSE InsertRange(s4, PhysicalRange(ctx.physical, ad.block, 1))
  IN  [Account(s5, 1, ctx.lim.metadata) EXCEPT
         !.chains = @ \union {ad.block}, !.depth = @ + 1, !.next = ad, !.stop = TRUE]

(* Its branch for data: recorded, inside the partition, block-aligned but   *)
(* for the last extent, and never past the information length.              *)
VatData(ctx, size, ad, s) ==
  LET next   == s.offset + ad.length
      blocks == CeilDiv(ad.length, BlockSize)
      range  == PhysicalRange(ctx.physical, ad.block, blocks)
      s0 == Guard(s, ad.type = Recorded, "Malformed")
      s1 == Guard(s0, next <= size /\ (next < size => ad.length % BlockSize = 0),
                  "Malformed")
      s2 == Guard(s1, InPhysical(ctx.physical, ad.block, blocks), "Malformed")
      s3 == IF s2.err # "ok" THEN s2 ELSE InsertRange(s2, range)
  IN  [Account(s3, 2, ctx.lim.metadata) EXCEPT
         !.extents = Append(@, Extent(range[1] * BlockSize, ad.length, ad.block)),
         !.offset = next, !.recorded = @ + blocks]

VatAllocation(ctx, size, long, ads, s, i) ==
  LET ad == ads[i]
  IN  CASE s.err # "ok" \/ s.stop -> s
        [] ad.length = 0 -> Terminated(s, ads, i)
        [] long /\ ad.part # ctx.reference -> [s EXCEPT !.err = "Malformed"]
        [] ad.type = Continuation -> VatContinuation(ctx, ads, i, s)
        [] OTHER -> VatData(ctx, size, ad, s)

(* parse_vat_allocations: array after array, each Allocation Extent         *)
(* Descriptor pointing back to the one before it.                           *)
RECURSIVE VatAllocations(_, _, _, _, _)
VatAllocations(ctx, size, long, ads, s) ==
  LET s0 == FoldLeft(LAMBDA t, i : VatAllocation(ctx, size, long, ads, t, i),
                     Restart(s), Indices(ads))
      r  == PhysicalDescriptor(ctx.image, ctx.physical, s0.next.block, "AED")
      s1 == Account(Guard(s0, r.err = "ok", r.err), 1, ctx.lim.metadata)
      s2 == Guard(s1, r.d.flaw = "ok" /\ r.d.back = s0.back, "Malformed")
      s3 == Account(RequireVerified(s2, r.d), Len(r.d.ads), ctx.lim.metadata)
  IN  IF s0.err # "ok" THEN s0
      ELSE IF s0.next = ZeroAd THEN Guard(s0, s0.offset = size, "Malformed")
      ELSE IF s3.err # "ok" THEN s3
      ELSE VatAllocations(ctx, size, long, r.d.ads, [s3 EXCEPT !.back = s0.next.block])

(* The words of a table's body, read through its extents.                   *)
WordAt(image, offset) == IF offset \in DOMAIN image.words THEN image.words[offset] ELSE 0
BodyWords(image, extents) ==
  FlattenSeq([i \in 1..Len(extents) |->
    [k \in 1..extents[i].length |-> WordAt(image, extents[i].source + k - 1)]])

(* parse_vat_contents: the pointer to the previous table follows the        *)
(* entries in revision 1.50 and precedes them since 2.00.                   *)
VatEntries(revision, body) ==
  IF revision = 150 THEN SubSeq(body, 1, Len(body) - 1) ELSE Tail(body)
VatPrevious(revision, body) ==
  IF revision = 150 THEN body[Len(body)] ELSE body[1]

(* validate_vat_entry_ranges: every entry is a block of the partition that  *)
(* holds no part of a table.                                                *)
VatEntriesPlaced(physical, entries, occupied) ==
  \A i \in 1..Len(entries) :
    entries[i] # NoBlock =>
      /\ InPhysical(physical, entries[i], 1)
      /\ \A j \in 1..Len(occupied) :
           ~RangesOverlap(occupied[j], PhysicalRange(physical, entries[i], 1))
VatEntriesDistinct(entries) ==
  \A i, j \in 1..Len(entries) :
    (i # j /\ entries[i] # NoBlock) => entries[i] # entries[j]

(* The checks of parse_vat on the fields of the file entry of a table.      *)
VatHeader(ctx, d, s) ==
  LET s0 == Guard(s, d.tag \in {"FE", "EFE"}, "Malformed")
      s1 == Guard(s0, d.flaw = "ok", d.flaw)
      s2 == Guard(s1, /\ d.type = VatType(ctx.revision)
                      /\ d.alloc \in {"short", "long", "inline"}
                      /\ d.links = 0 /\ d.ea = NoIcb /\ d.sdir = NoIcb
                      /\ d.size # 0 /\ d.object = d.size, "Malformed")
      s3 == Guard(s2, d.size <= ctx.lim.inflight, "Limit")
  IN  RequireVerified(Account(s3, d.size, ctx.lim.metadata), d)

(* parse_vat: one table, its entries and the place of the previous one.     *)
ParseVat(ctx, used, location) ==
  LET r  == PhysicalDescriptor(ctx.image, ctx.physical, location, "any")
      d  == r.d
      s0 == [Walk(used, <<PhysicalRange(ctx.physical, location, 1)>>) EXCEPT !.err = r.err]
      s1 == Account(s0, 1, ctx.lim.metadata)
      s2 == IF s1.err # "ok" THEN s1
            ELSE Account(VatHeader(ctx, d, s1), 1, ctx.lim.metadata)
      s3 == IF s2.err # "ok" THEN s2
            ELSE IF d.alloc = "inline"
            THEN Guard(s2, Len(d.cells) = d.size, "Malformed")
            ELSE VatAllocations(ctx, d.size, d.alloc = "long", d.ads,
                                Account(s2, Len(d.ads), ctx.lim.metadata))
      s4 == Guard(s3, d.recorded = s3.recorded, "Malformed")
      body    == IF d.alloc = "inline" THEN d.cells ELSE BodyWords(ctx.image, s4.extents)
      entries == VatEntries(ctx.revision, body)
      s5 == Account(s4, 2 * Len(entries), ctx.lim.metadata)
      s6 == Guard(s5, VatEntriesDistinct(entries), "Malformed")
      s7 == Guard(s6, VatEntriesPlaced(ctx.physical, entries, s6.occupied), "Malformed")
  IN  IF s7.err # "ok" THEN [err |-> s7.err]
      ELSE [err |-> "ok", used |-> s7.used, entries |-> entries,
            previous |-> VatPrevious(ctx.revision, body), occupied |-> s7.occupied]

(* discover_latest_vat: the last file entry of the right type, looked for   *)
(* backwards from the end of the partition.                                 *)
RECURSIVE DiscoverVat(_, _, _)
DiscoverVat(ctx, used, distance) ==
  LET location == ctx.physical.blocks - distance - 1
      d  == DescriptorAt(ctx.image, ctx.physical.start + location)
      s  == Account(Guard([err |-> "ok", used |-> used], d.fault # "io", "Io"), 1,
                    ctx.lim.metadata)
  IN  IF distance = Min({ctx.physical.blocks, MaxVatDiscovery})
      THEN [err |-> IF distance < ctx.physical.blocks THEN "Limit" ELSE "Malformed"]
      ELSE IF s.err # "ok" THEN [err |-> s.err]
      ELSE IF d.tag \in {"FE", "EFE"} /\ d.type = VatType(ctx.revision)
      THEN [err |-> "ok", used |-> s.used, location |-> location]
      ELSE DiscoverVat(ctx, s.used, distance + 1)

(* The loop of load_virtual_partition over the earlier tables: every one is *)
(* parsed, and lies before the one that points to it.                       *)
RECURSIVE VatHistory(_, _, _, _, _, _)
VatHistory(ctx, used, occupied, previous, newer, depth) ==
  LET vat == ParseVat(ctx, used + 1, previous)
  IN  CASE previous = NoBlock -> [err |-> "ok", occupied |-> occupied]
        [] previous >= newer -> [err |-> "Malformed"]
        [] depth + 1 > Min({MaxVatHistory, ctx.lim.nesting}) -> [err |-> "Limit"]
        [] used + 1 > ctx.lim.metadata -> [err |-> "Limit"]
        [] vat.err # "ok" -> [err |-> vat.err]
        [] OTHER -> VatHistory(ctx, vat.used, occupied \o vat.occupied, vat.previous,
                               previous, depth + 1)

LoadVirtualPartition(ctx) ==
  LET found   == DiscoverVat(ctx, 2, 0)
      latest  == ParseVat(ctx, found.used, found.location)
      history == VatHistory(ctx, latest.used + 1, latest.occupied, latest.previous,
                            found.location, 0)
  IN  CASE ctx.lim.metadata < 2 -> [err |-> "Limit"]
        [] found.err # "ok" -> [err |-> found.err]
        [] latest.err # "ok" -> [err |-> latest.err]
        [] latest.used + 1 > ctx.lim.metadata -> [err |-> "Limit"]
        [] history.err # "ok" -> [err |-> history.err]
        [] ~VatEntriesPlaced(ctx.physical, latest.entries, history.occupied)
             -> [err |-> "Malformed"]
        [] latest.entries = << >> -> [err |-> "Malformed"]
        [] OTHER ->
             [err |-> "ok",
              partition |-> [kind |-> "Virtual", blocks |-> Len(latest.entries),
                             start |-> ctx.physical.start, entries |-> latest.entries]]

(***************************************************************************)
(* The Metadata File, its mirror and its bitmap, in a base partition.      *)
(***************************************************************************)
InsertRanges(lim, s, ranges) ==
  FoldLeft(LAMBDA t, range :
             LET t1 == Account(t, 1, lim.metadata)
             IN  IF t1.err # "ok" THEN t1 ELSE InsertRange(t1, range),
           s, ranges)

(* The branch of parse_metadata_file_allocations for a continuation.        *)
MetadataContinuation(ctx, ads, i, s) ==
  LET ad    == ads[i]
      found == PartitionExtents(ctx.image, ctx.base, ad.block, BlockSize)
      s0 == Guard(s, ZerosAfter(ads, i) /\ ad.length <= BlockSize, "Malformed")
      s1 == Guard(s0, ad.block \notin s.chains, "Malformed")
      s2 == Account(s1, 1, ctx.lim.metadata)
      s3 == Guard(s2, s.depth + 1 <= ctx.lim.nesting, "Limit")
      s4 == Guard(s3, found.err = "ok", found.err)
  IN  [IF s4.err # "ok" THEN s4 ELSE InsertRanges(ctx.lim, s4, BlockRanges(found.extents))
       EXCEPT !.chains = @ \union {ad.block}, !.depth = @ + 1, !.next = ad, !.stop = TRUE]

(* The extents of the file behind some extents of the base partition.       *)
FileParts(extents, offset) ==
  [i \in 1..Len(extents) |->
     [logical |-> offset + FoldLeft(LAMBDA n, e : n + e.length, 0, SubSeq(extents, 1, i - 1)),
      length  |-> extents[i].length, source |-> extents[i].source]]

(* Its branch for a recorded extent, translated by the base partition.      *)
MetadataRecorded(ctx, ad, s) ==
  LET found == PartitionExtents(ctx.image, ctx.base, ad.block, ad.length)
      s0 == Guard(s, ad.block % ctx.map.alignment = 0, "Malformed")
      s1 == Guard(s0, found.err = "ok", found.err)
      s2 == IF s1.err # "ok" THEN s1
            ELSE InsertRanges(ctx.lim, s1, BlockRanges(found.extents))
      s3 == Account(s2, Len(found.extents), ctx.lim.metadata)
  IN  [s3 EXCEPT !.recorded = @ + ad.length \div BlockSize,
                 !.extents = @ \o FileParts(found.extents, s.offset),
                 !.offset = @ + ad.length]

(* Its branch for an unallocated one.                                       *)
MetadataHole(ctx, ad, s) ==
  [Account(Guard(s, ad.block = 0, "Malformed"), 1, ctx.lim.metadata) EXCEPT
     !.extents = Append(@, [logical |-> s.offset, length |-> ad.length,
                            source |-> NoBlock]),
     !.offset = @ + ad.length]

MetadataAllocation(ctx, size, ads, s, i) ==
  LET ad == ads[i]
      s0 == Guard(s, ad.type \in {Recorded, Unallocated}, "Malformed")
      s1 == Guard(s0, ad.length % (ctx.map.unit * BlockSize) = 0, "Malformed")
      s2 == Guard(s1, s.offset + ad.length <= size, "Malformed")
  IN  CASE s.err # "ok" \/ s.stop -> s
        [] ad.length = 0 -> Terminated(s, ads, i)
        [] ad.type = Continuation -> MetadataContinuation(ctx, ads, i, s)
        [] s2.err # "ok" -> s2
        [] ad.type = Recorded -> MetadataRecorded(ctx, ad, s2)
        [] OTHER -> MetadataHole(ctx, ad, s2)

RECURSIVE MetadataAllocations(_, _, _, _)
MetadataAllocations(ctx, size, ads, s) ==
  LET s0 == FoldLeft(LAMBDA t, i : MetadataAllocation(ctx, size, ads, t, i),
                     Restart(s), Indices(ads))
      r  == PartitionDescriptor(ctx.image, ctx.base, s0.next.block, "AED")
      s1 == Guard(s0, r.err = "ok", r.err)
      s2 == RequireVerified(Guard(s1, r.d.flaw = "ok", "Malformed"), r.d)
      s3 == Account(s2, Len(r.d.ads), ctx.lim.metadata)
  IN  IF s0.err # "ok" THEN s0
      ELSE IF s0.next = ZeroAd THEN Guard(s0, s0.offset = size, "Malformed")
      ELSE IF s3.err # "ok" THEN s3
      ELSE MetadataAllocations(ctx, size, r.d.ads, s3)

(* The checks all three auxiliary file entries of the map share.            *)
MetadataHeader(d, type, allocs, s) ==
  LET s0 == Guard(s, d.tag \in {"FE", "EFE"}, "Malformed")
      s1 == Guard(s0, d.flaw = "ok", d.flaw)
      s2 == Guard(s1, d.type = type /\ d.alloc \in allocs /\ d.links = 0 /\ d.inode = 0
                      /\ d.ea = NoIcb /\ d.sdir = NoIcb, "Malformed")
  IN  Guard(RequireVerified(s2, d), d.object = d.size, "Malformed")

(* parse_metadata_file: whole blocks, in extents that overlap neither each  *)
(* other nor the file entry and continuations that describe them.           *)
ParseMetadataFile(ctx, used, location, type) ==
  LET r  == PartitionDescriptor(ctx.image, ctx.base, location, "any")
      d  == r.d
      s0 == [Walk(used, << >>) EXCEPT !.err = r.err]
      s1 == Account(s0, 1, ctx.lim.metadata)
      s2 == IF s1.err # "ok" THEN s1 ELSE MetadataHeader(d, type, {"short"}, s1)
      s3 == Guard(s2, d.size # 0 /\ d.size % BlockSize = 0, "Malformed")
      own == PartitionExtents(ctx.image, ctx.base, location, BlockSize)
      s4 == IF s3.err # "ok" THEN s3
            ELSE Account([s3 EXCEPT !.occupied = BlockRanges(own.extents)],
                         2 + Len(d.ads), ctx.lim.metadata)
      s5 == IF s4.err # "ok" THEN s4 ELSE MetadataAllocations(ctx, d.size, d.ads, s4)
      s6 == Guard(s5, s5.recorded = d.recorded, "Malformed")
  IN  [err |-> s6.err, used |-> s6.used,
       file |-> IF s6.err # "ok" THEN [blocks |-> 0, extents |-> << >>]
                ELSE [blocks |-> d.size \div BlockSize, extents |-> s6.extents]]

(* metadata_files_overlap.                                                  *)
FilesOverlap(first, second) ==
  \E i \in 1..Len(first.extents), j \in 1..Len(second.extents) :
    LET a == first.extents[i]
        b == second.extents[j]
    IN  /\ a.source # NoBlock /\ b.source # NoBlock
        /\ RangesOverlap(<<a.source, a.source + a.length>>, <<b.source, b.source + b.length>>)

(* The allocation loop of validate_metadata_bitmap: it stops at the first   *)
(* zero length without a look at what follows, and reads the header from    *)
(* the first extent.                                                        *)
HeaderAt(ctx, extents) == DescriptorAt(ctx.image, extents[1].source \div BlockSize)
BitmapAllocation(ctx, ads, s, i) ==
  LET ad    == ads[i]
      found == PartitionExtents(ctx.image, ctx.base, ad.block,
                                CeilDiv(ad.length, BlockSize) * BlockSize)
      s0 == Guard(Guard(s, ad.type = Recorded, "Malformed"), found.err = "ok", found.err)
      s1 == IF s0.err # "ok" THEN s0
            ELSE InsertRanges(ctx.lim, s0, BlockRanges(found.extents))
      s2 == Guard(s1, s.extents = << >> => HeaderAt(ctx, found.extents).fault # "io", "Io")
  IN  IF s.err # "ok" \/ s.stop THEN s
      ELSE IF ad.length = 0
      THEN [Guard(s, ad = ZeroAd, "Malformed") EXCEPT !.stop = TRUE]
      ELSE [s2 EXCEPT !.recorded = @ + CeilDiv(ad.length, BlockSize),
                      !.offset = @ + ad.length,
                      !.extents = @ \o found.extents]

(* Its Space Bitmap Descriptor, wherever that was recorded.                 *)
SpaceBitmap(h, at, blocks, s) ==
  LET s0 == Guard(s, ValidateTag(h, "SBD", at) = "ok", ValidateTag(h, "SBD", at))
  IN  Guard(s0, h.flaw = "ok" /\ h.bits = blocks, "Malformed").err

(* validate_metadata_bitmap: its Space Bitmap Descriptor has one bit for    *)
(* every block of the metadata partition.                                   *)
ValidateBitmap(ctx, used, location, blocks) ==
  LET r  == PartitionDescriptor(ctx.image, ctx.base, location, "any")
      d  == r.d
      s0 == Account([Walk(used, << >>) EXCEPT !.err = r.err], 1, ctx.lim.metadata)
      s1 == IF s0.err # "ok" THEN s0
            ELSE MetadataHeader(d, "bitmap", {"short", "inline"}, s0)
      own == PartitionExtents(ctx.image, ctx.base, location, BlockSize)
      s2 == IF s1.err # "ok" \/ d.alloc = "inline" THEN s1
            ELSE FoldLeft(LAMBDA t, i : BitmapAllocation(ctx, d.ads, t, i),
                          Account([s1 EXCEPT !.occupied = BlockRanges(own.extents)], 1,
                                  ctx.lim.metadata),
                          Indices(d.ads))
      s3 == Guard(s2, d.alloc = "inline" \/ (s2.offset = d.size /\ s2.extents # << >>),
                  "Malformed")
      s4 == Guard(s3, d.recorded = s3.recorded, "Malformed")
      at == IF d.alloc = "inline" THEN location ELSE s4.extents[1].block
      h  == IF d.alloc = "inline" THEN d.header
            ELSE HeaderAt(ctx, s4.extents)
  IN  SpaceBitmap(h, at, blocks, s4)

(* The choice of load_metadata_partition between the two copies: one that   *)
(* is damaged is left out, and when the first is, its mirror takes its      *)
(* place and has no mirror of its own.                                      *)
ChooseCopies(map, first, second) ==
  LET mirrored == map.mirror # NoBlock
      lost     == mirrored /\ second.err # "ok" /\ ~CanFallbackToReserve(second.err)
      copies(err, primary, mirror) == [err |-> err, primary |-> primary, mirror |-> mirror]
  IN  CASE first.err # "ok" /\ ~CanFallbackToReserve(first.err)
             -> copies(first.err, first.file, << >>)
        [] lost -> copies(second.err, first.file, << >>)
        [] first.err = "ok" ->
             copies("ok", first.file,
                    IF mirrored /\ second.err = "ok" THEN <<second.file>> ELSE << >>)
        [] mirrored /\ second.err = "ok" -> copies("ok", second.file, << >>)
        [] OTHER -> copies(first.err, first.file, << >>)

(* What the two copies must satisfy together, and whether the mirror stays  *)
(* usable: only copies that share no block are worth falling back to.       *)
LoadMetadataPartition(ctx) ==
  LET map    == ctx.map
      first  == ParseMetadataFile(ctx, 3, map.file, "metadata")
      second == ParseMetadataFile(ctx, first.used, map.mirror, "mirror")
      chosen == ChooseCopies(map, first, second)
      both   == chosen.mirror # << >>
      s0 == Guard([err |-> chosen.err], both => chosen.primary.blocks = chosen.mirror[1].blocks,
                  "Malformed")
      s1 == Guard(s0, both =>
                    IF map.duplicate THEN ~FilesOverlap(chosen.primary, chosen.mirror[1])
                    ELSE chosen.primary = chosen.mirror[1], "Malformed")
      s2 == Guard(s1, map.bitmap # NoBlock => map.bitmap \notin {map.file, map.mirror},
                  "Malformed")
      used   == IF map.mirror = NoBlock THEN first.used ELSE second.used
      bitmap == ValidateBitmap(ctx, used, map.bitmap, chosen.primary.blocks)
      s3 == Guard(s2, map.bitmap = NoBlock \/ bitmap = "ok", bitmap)
      kept   == both /\ map.duplicate
  IN  IF ctx.lim.metadata < 3 THEN [err |-> "Limit"]
      ELSE IF s3.err # "ok" THEN [err |-> s3.err]
      ELSE [err |-> "ok",
            partition |->
              [kind |-> "Metadata", blocks |-> chosen.primary.blocks,
               primary |-> chosen.primary, has_mirror |-> kept,
               mirror |-> IF kept THEN chosen.mirror[1] ELSE chosen.primary,
               using_mirror |-> FALSE]]
=============================================================================
