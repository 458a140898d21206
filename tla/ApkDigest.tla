----------------------------- MODULE ApkDigest ------------------------------
(***************************************************************************)
(* How the digests of an APK are computed while it is read                  *)
(* (libarchive_oxide-package/src/android_signature.rs: the chunked digests  *)
(* and the streaming fs-verity tree; android_v4_signature.rs: the Merkle    *)
(* tree of a v4 sidecar).                                                   *)
(*                                                                         *)
(* The source is three sections, the bytes before the signing block, the    *)
(* central directory and the EOCD, each read in pieces no larger than the   *)
(* in-flight limit.  A byte is its position; a hash is an injective name    *)
(* for what was hashed.                                                     *)
(***************************************************************************)
EXTENDS Integers, Sequences, SequencesExt, TLC

CONSTANTS
  ChunkSize,        \* CHUNK_SIZE, in bytes
  BlockSize,        \* VERITY_BLOCK_SIZE and BLOCK_SIZE, in bytes
  DigestsPerBlock,  \* VERITY_DIGESTS_PER_BLOCK, how many digests fill a block
  Buffer,           \* the largest read: the in-flight limit
  SectionLengths    \* the lengths a section may have

ASSUME ApkDigestAssumption ==
  /\ {ChunkSize, BlockSize, Buffer} \subseteq Nat \ {0}
  /\ DigestsPerBlock \in Nat \ {0, 1}
  /\ SectionLengths \subseteq Nat

VARIABLES
  sections,  \* the lengths of the three sections
  section,   \* the section being read
  offset,    \* how much of it was read
  chunk,     \* chunked: the bytes of the chunk being hashed
  top,       \* chunked: the chunk digests so far
  block,     \* verity: data_block
  levels,    \* verity: the digest buffers, lowest first
  root,      \* verity: the root, NoRoot before it is known
  failure,   \* "ok" or the Failure that ended the computation
  phase      \* "read", "finish" or "done"

digestVars == <<sections, section, offset, chunk, top, block, levels, root, failure, phase>>

NoRoot == "none"
Zero == "0"

(* SHA-256 and SHA-512, and the fs-verity hash over one padded block.       *)
Hash(bytes) == ToString(bytes)

CeilDiv(value, divisor) == (value + divisor - 1) \div divisor
PadTo(seq, length) == seq \o [i \in 1..length - Len(seq) |-> Zero]
VerityHashBlock(bytes, length) == Hash(PadTo(bytes, length))

(* The bytes of the source, in the order they are digested.                 *)
Total == FoldLeft(LAMBDA sum, length : sum + length, 0, sections)
StartOf(s) == FoldLeft(LAMBDA sum, length : sum + length, 0, SubSeq(sections, 1, s - 1))
ByteAt(position) == ToString(position)
Bytes(first, last) == [i \in 1..last - first + 1 |-> ByteAt(first + i - 1)]

(* StreamingVerityTree::new: as many levels as it takes to get one block.   *)
LevelCount(leaves) ==
  LET count[n \in 1..leaves] ==
        IF n <= DigestsPerBlock THEN 1 ELSE 1 + count[CeilDiv(n, DigestsPerBlock)]
  IN  count[leaves]

(* push_digest: a digest enters a level; a level that fills is hashed into  *)
(* the next, and the last one into the root.                                *)
PushDigest(tree, level, digest) ==
  LET step(state, l) ==
        IF state.carry = NoRoot THEN state
        ELSE LET filled == Append(state.levels[l], state.carry)
             IN  IF Len(filled) < DigestsPerBlock
                 THEN [state EXCEPT !.levels[l] = filled, !.carry = NoRoot]
                 ELSE IF l < Len(state.levels)
                 THEN [state EXCEPT !.levels[l] = << >>, !.carry = Hash(filled)]
                 ELSE [state EXCEPT !.levels[l] = << >>, !.carry = NoRoot,
                                    !.root = Hash(filled),
                                    !.failure = IF state.root = NoRoot THEN @ ELSE "Invalid"]
      end == FoldLeft(step, [levels |-> tree.levels, root |-> tree.root,
                             failure |-> tree.failure, carry |-> digest],
                      [i \in 1..Len(tree.levels) - level + 1 |-> level + i - 1])
  IN  [levels |-> end.levels, root |-> end.root, failure |-> end.failure]

(* StreamingVerityTree::update, for bytes that stay within one block: a     *)
(* read that crosses a block boundary is several of these.                  *)
UpdateBlock(state, byte) ==
  LET filled == Append(state.block, byte)
  IN  IF Len(filled) < BlockSize
      THEN [state EXCEPT !.block = filled]
      ELSE LET tree == PushDigest(state, 1, Hash(filled))
           IN  [block |-> << >>, levels |-> tree.levels, root |-> tree.root,
                failure |-> tree.failure]

Tree == [block |-> block, levels |-> levels, root |-> root, failure |-> failure]

(* StreamingVerityTree::finish: the open block, then every open level from  *)
(* the lowest up, is padded with zeros and hashed.                          *)
FinishLevel(tree, l) ==
  IF tree.levels[l] = << >> THEN tree
  ELSE LET digest  == VerityHashBlock(tree.levels[l], DigestsPerBlock)
           cleared == [tree EXCEPT !.levels[l] = << >>]
       IN  IF l < Len(tree.levels)
           THEN PushDigest(cleared, l + 1, digest)
           ELSE [cleared EXCEPT !.root = digest,
                                !.failure = IF tree.root = NoRoot THEN @ ELSE "Invalid"]

FinishTree(tree) ==
  LET start == [levels |-> tree.levels, root |-> tree.root, failure |-> tree.failure]
      data  == IF tree.block = << >> THEN start
               ELSE PushDigest(start, 1, VerityHashBlock(tree.block, BlockSize))
      end   == FoldLeft(FinishLevel, data, [l \in DOMAIN tree.levels |-> l])
  IN  [end EXCEPT !.failure = IF end.failure = "ok" /\ end.root = NoRoot
                              THEN "Invalid" ELSE @]

(* hash_reader_section: a chunk ends when it is full or its section ends;   *)
(* its digest covers its length and its bytes.                              *)
ChunkDigest(bytes) == Hash(<<Len(bytes), bytes>>)

-----------------------------------------------------------------------------
DigestInit(lengths) ==
  /\ sections = lengths
  /\ Total > 0
  /\ section = 1 /\ offset = 0
  /\ chunk = << >> /\ top = << >>
  /\ block = << >> /\ root = NoRoot /\ failure = "ok"
  /\ levels = [l \in 1..LevelCount(CeilDiv(Total, BlockSize)) |-> << >>]
  /\ phase = "read"

(* One read of hash_reader_section and feed_verity_reader: at most a buffer,*)
(* at most what the section has left and, for the chunked digest, at most   *)
(* what the chunk has left.                                                 *)
ReadPieceAcrossSections(n) ==
  LET left == sections[section] - offset
      piece == Bytes(StartOf(section) + offset + 1, StartOf(section) + offset + n)
      tree == FoldLeft(UpdateBlock, Tree, piece)
      hashed == chunk \o piece
      full == Len(hashed) = ChunkSize \/ (n = left /\ section = 3)
  IN  /\ phase = "read" /\ failure = "ok"
      /\ n <= left /\ n <= ChunkSize - Len(chunk)
      /\ block' = tree.block /\ levels' = tree.levels /\ root' = tree.root
      /\ failure' = tree.failure
      /\ chunk' = IF full THEN << >> ELSE hashed
      /\ top' = IF full THEN Append(top, ChunkDigest(hashed)) ELSE top
      /\ offset' = offset + n
      /\ UNCHANGED <<sections, section, phase>>
ReadPiece(n) ==
  LET left == sections[section] - offset
      piece == Bytes(StartOf(section) + offset + 1, StartOf(section) + offset + n)
      tree == FoldLeft(UpdateBlock, Tree, piece)
      hashed == chunk \o piece
      full == Len(hashed) = ChunkSize \/ n = left
  IN  /\ phase = "read" /\ failure = "ok"
      /\ n <= left /\ n <= ChunkSize - Len(chunk)
      /\ block' = tree.block /\ levels' = tree.levels /\ root' = tree.root
      /\ failure' = tree.failure
      /\ chunk' = IF full THEN << >> ELSE hashed
      /\ top' = IF full THEN Append(top, ChunkDigest(hashed)) ELSE top
      /\ offset' = offset + n
      /\ UNCHANGED <<sections, section, phase>>

(* The next of the three sections, the EOCD from memory included            *)
(* (hash_memory_section).                                                   *)
NextSection ==
  /\ phase = "read" /\ offset = sections[section]
  /\ IF section = 3
     THEN phase' = "finish" /\ UNCHANGED <<section, offset>>
     ELSE section' = section + 1 /\ offset' = 0 /\ UNCHANGED phase
  /\ UNCHANGED <<sections, chunk, top, block, levels, root, failure>>

Finish ==
  /\ phase = "finish"
  /\ LET tree == FinishTree(Tree)
     IN  levels' = tree.levels /\ root' = tree.root /\ failure' = tree.failure
  /\ block' = << >>
  /\ phase' = "done"
  /\ UNCHANGED <<sections, section, offset, chunk, top>>

DigestNext ==
  \/ \E n \in 1..Buffer : ReadPiece(n)
  \/ NextSection
  \/ Finish

-----------------------------------------------------------------------------
(* calculate_level_layout of a v4 sidecar: the digests of each level, top   *)
(* first, and where its pages start in the serialized tree.                 *)
LevelDigests(size) ==
  LET digests[n \in 1..CeilDiv(size, BlockSize)] ==
        IF n <= DigestsPerBlock THEN <<n>>
        ELSE Append(digests[CeilDiv(n, DigestsPerBlock)], n)
  IN  digests[CeilDiv(size, BlockSize)]

LevelPages(size) ==
  LET counts == LevelDigests(size)
  IN  [l \in DOMAIN counts |-> CeilDiv(counts[l], DigestsPerBlock)]

LevelOffset(size, l) ==
  DigestsPerBlock * FoldLeft(LAMBDA sum, pages : sum + pages, 0,
                             SubSeq(LevelPages(size), 1, l - 1))

(* build_verity_tree: the lowest level from the pages of the APK, every     *)
(* other from the pages of the level below; unused slots stay zero.         *)
Page(bytes, p, length) ==
  PadTo(SubSeq(bytes, (p - 1) * length + 1,
               IF p * length < Len(bytes) THEN p * length ELSE Len(bytes)), length)

BuildVerityTree(bytes) ==
  LET size   == Len(bytes)
      counts == LevelDigests(size)
      lowest == Len(counts)
      level[l \in 1..lowest] ==
        PadTo([d \in 1..counts[l] |->
                 IF l = lowest THEN Hash(Page(bytes, d, BlockSize))
                 ELSE Hash(Page(level[l + 1], d, DigestsPerBlock))],
              DigestsPerBlock * LevelPages(size)[l])
      levelOf(slot) == CHOOSE l \in 1..lowest :
                         LevelOffset(size, l) < slot /\ slot <= LevelOffset(size, l + 1)
  IN  [slot \in 1..LevelOffset(size, lowest + 1) |->
         level[levelOf(slot)][slot - LevelOffset(size, levelOf(slot))]]

(* root_hash: over the first page of the tree.                              *)
RootHash(tree) == Hash(SubSeq(tree, 1, DigestsPerBlock))

-----------------------------------------------------------------------------
(* The Merkle tree by definition: pages of digests until one is left.       *)
MerkleRoot(bytes) ==
  LET leaves == CeilDiv(Len(bytes), BlockSize)
      above[n \in 0..leaves] ==
        IF n = 0 THEN [d \in 1..leaves |-> Hash(Page(bytes, d, BlockSize))]
        ELSE LET below == above[n - 1]
             IN  IF n > 1 /\ Len(below) = 1 THEN below
                 ELSE [d \in 1..CeilDiv(Len(below), DigestsPerBlock) |->
                         Hash(Page(below, d, DigestsPerBlock))]
  IN  above[leaves][1]

(* The chunks of one section by definition.                                 *)
ChunksOf(s) ==
  LET bytes == Bytes(StartOf(s) + 1, StartOf(s) + sections[s])
  IN  [c \in 1..CeilDiv(sections[s], ChunkSize) |->
         ChunkDigest(SubSeq(bytes, (c - 1) * ChunkSize + 1,
                            IF c * ChunkSize < Len(bytes) THEN c * ChunkSize
                            ELSE Len(bytes)))]

(* Every way of reading the package gives the digests its signer computed:  *)
(* the streaming fs-verity tree ends with one root, the root of the Merkle  *)
(* tree over the padded pages; the tree a v4 sidecar serializes has the     *)
(* same root; and the chunked digest is over the chunks of each section,    *)
(* wherever the reads were cut.                                             *)
DigestIsOfSource ==
  phase = "done" =>
    /\ failure = "ok"
    /\ root = MerkleRoot(Bytes(1, Total))
    /\ RootHash(BuildVerityTree(Bytes(1, Total))) = root
    /\ top = ChunksOf(1) \o ChunksOf(2) \o ChunksOf(3)
=============================================================================
