# A TLA+ verification of libarchive_oxide

libarchive_oxide is a Rust library that reads, writes and extracts archives
(tar, cpio, ar, zip, 7z, iso, udf, cab, xar, warc, packages, OCI layers) through
synchronous, asynchronous, range-based and multi-volume inputs. This directory
holds TLA+ modules translated from the code under `src/`, TLC configurations that
check them on small instances, and TLAPS proofs for every value of the constants.

`PROJECT.json` lists the components, the runs, the source lines each definition
translates (`map`), the hazards, the mutants (at least one deliberate bug per property,
which TLC must find) and the theorems.

## 1. The system

| Part | Source (crate `libarchive_oxide` unless named) | State | Module |
|---|---|---|---|
| Threaded decoders | `filter/xz.rs`, `filter/lzip.rs`, `filter/worker.rs` | two bounded channels, waker cell, retained input, pending output | `CodecWorker` |
| Codec readers | `codec_read.rs`, `async_filter.rs` | input buffer, end flag | the caller in `CodecWorker` |
| Volume sets | `range_source.rs` (`VolumeSet`) | cached bindings, byte total, lock | `VolumeSet`, abstract `VolumeCache` |
| Range reader | `range_source.rs` (`RangeReader`) | cursor, read-ahead buffer, metrics | `RangeReader` |
| Demand readers | `async_seek.rs`, `async_range.rs` | range cache, pending demand | `DemandCache`, `DemandReader` |
| Indexed payload reader | `seek_stream.rs` | entry cursor, per-coder body, buffers | `IndexedReader` |
| Asynchronous seek writer, 7z writer | `async_seek.rs`, `sevenz.rs` | recorded operations, open entry, destination | `AsyncSeekWriter` |
| Extraction plan | `engine.rs`, `path.rs`, `extraction.rs` | claims, committed files, planned entries | `ExtractionPlan` |
| Extraction driver | `filesystem_driver.rs` | entry in flight, report | `Extraction` |
| cap-std adapter | `filesystem_std.rs` | host tree, temporary, due directory modes | `CapStdAdapter` |
| Sequential reader | `stream.rs` (`Pipeline`, `ArchiveReader`), `provider.rs`; core `filter.rs`, `format.rs`, `protocol.rs` | input buffer, codec layers, decoder, phase | `Pipeline` |
| Sequential formats | core `format/{tar,cpio,ar,warc,raw,empty}.rs` | header in progress, payload left, padding, link groups, overrides, budgets | `ArchiveDecoder`, `TarDecoder` |
| UDF reader | `udf.rs` | partition maps, control blocks met, directories waiting, index, data cursor | `UdfPartition`, `UdfFiles`, `UdfReader` |
| CAB reader and CAB sets | `cab.rs`, `cab/volume.rs` | volumes captured, open continued file, logical folders, folder decoder | `CabReader` |
| Package verification | package `verification.rs`, `integrity.rs` | results so far, rewinds, report | `PackageReport`, `PackageVerifier`, `PackageFindings` |
| Package profiles | package `zip_reader.rs`, `zip_profile.rs`, `app_profile.rs`, `integrity.rs`, `msix_blockmap.rs`, `deb.rs`, `rpm.rs`, `alpine.rs` | entries met, members in order, digests in progress, nested archive | `ZipProfiles`, `ZipIntegrity`, `MsixBlockMap`, `DebPackage`, `RpmPackage`, `AlpineApk` |
| Package signatures | package `jar_signature.rs`, `android_signature.rs`, `android_v4_signature.rs`, `nuget_signature.rs`, `alpine_signature.rs` | signers, rotation chain, chunk and Merkle digests | `JarSignature`, `AndroidSignature`, `ApkDigest`, `NugetSignature`, `AlpineApk` |
| OCI layers | `oci/plan.rs`, `oci/apply.rs` | planned operations, phase, report | `OciLayer` |

How they interact. A session opens an input (a stream, a seekable file, a range
source or a volume set), reads entries through a format reader whose bytes come
through codecs, plans the whole archive before the filesystem is touched, and then
replays the input into a filesystem adapter. The asynchronous readers wrap the
synchronous parsers: they run a parser over cached ranges, fetch what it missed
and run it again. The asynchronous writers wrap the synchronous writers: they
record operations and drain the record. OCI layers reuse the plan's path rules
and the adapter. The package verifier runs several verifiers over one seekable
source, rewinding it between them, and merges what they found into one report; the
deb and rpm profiles feed the archive inside a member to a sequential reader of its
own.

What makes it hard: the interleavings of an owner and a decoder thread over
bounded channels; a waker that is registered after a channel was found empty; a
lock given up around an application callback; a source that changes between two
reads; parsers that are run again after a failed read and must not have advanced;
dropped futures; operations that have left a queue when they fail; other processes
on the host tree; markers that remove what an earlier entry made; an archive cut
into reads, codec members and decoder steps at places that nobody chose; volumes of
a set that are merged on the word of each other's headers and read long after they
were parsed; descriptors that are recorded twice so that one may be damaged; several
partial verdicts that become one word of trust.

## 2. Modules and correspondence

### CodecWorker, with CodecWorkerOwnerProofs, CodecWorkerDriveProofs, CodecWorkerProofs
One step is one channel, waker or join operation. Bytes are positions in their
stream; a buffer is an interval. `Drive`, `Poll1`, `Flush`, `Stage`, `Finish`,
`Poll2`, `Decide`, `Wait`, `Register` and `PollOnce` are the successive parts of
`XzDecoder::drive`; `TrySend`, `BlockSend`, `Recv`, `Decode`, `Exit` and the `Drop...`
actions are the decoder thread; `Refill`, `Call`, `Return` and `Repoll` are
`CodecReader::read` and `AsyncCodecReader::poll_read`. The constant `Lzip` selects
the variant with cancellation, `Async` the polling caller, and `MayPanic` whether the
decoding library may panic. What the validator and the decoder say of the data is
nondeterministic.

### VolumeCache, VolumeSet, VolumeSetProofs
`Check`, `Resolve` and `Commit` are the two critical sections of `VolumeSet::resolve`
and the unlocked call between them; threads interleave between them. `VolumeCache`
is the promise: each resolve is one atomic step on a map that only grows. TLC checks
that `VolumeSet` implements it (`RefinesCache`).

### RangeReader, RangeReaderProofs
`Read`, `Validate`, `Supply`, `SourceFails`, `Revalidate` and `Seek` are the parts of
`read`, `fill_cache` and `seek`, cut at every call of the source; `SourceChanges` may
happen between any two. A byte carries its offset and which object it came from.
`Retries` decides whether a caller reads again after a failed fill.

### DemandCache, DemandReader
`DemandCache` has the lookup, the fetch length and the insertion as operators;
`DemandReader` is the loop of `next_event`: run, miss, fetch (one awaited read at a
time), insert, run again. A parser is a script of reads. Over a range source a command
is refused before and after it runs when the source has become another object
(`BeginRefused`, `Complete`).

### IndexedReader
One action per arm of `IndexedArchiveReader::next_event` (`Copy`, `Decode`,
`Deflate64`, `Lzma`, `Auth`, ...), preceded by the preparation of the body. With
`Async` every read may miss and the command is run again on the state that the
handler left. Decoders are modelled by what they promise; a stream may end before or
after its extent, decode to another size, or contradict its checksum or
authentication code, which is found at its end.

### AsyncSeekWriter
The 7z writer's commands record seeks and writes (`Recorded`), `Pop`, `OutputSeek`
and `OutputWrite` drain them; the destination may take part of a chunk, fail, or have
the command's future dropped.

### ExtractionPlan, ExtractionPlanProofs
`Sanitize`, `CanClaim`, `Claim`, `LinkTarget` and `PlanEntry` as operators on paths
(sequences of components), and one action that plans the next entry.

### CapStdAdapter, Extraction
The adapter's steps are single system calls on a host tree of numbered nodes; other
processes add and take names between them. `Extraction` composes the plan, the
driver and the adapter.

### ArchiveDecoder, TarDecoder, Pipeline
The wire is a sequence of units: a payload byte, a magic, the fixed part of a header
(carrying the fields parsed from it), the rest of a header. A decoder is a record,
and one call of its `step` an operator that gives the decoder afterwards, the units
consumed and the event, arm by arm as in the code (`CpioData`, `CpioEndEntry`,
`CpioHeader`, `PollHeader`, `PollMeta`, `PollPayload`, `ArSpecial`, ...). The tar
decoder keeps its own buffer, fed only after it asked and compacted once per pull.

`Pipeline` follows the nested loops of `poll_event` one iteration at a time: `frames`
is the stack of `drive_layer` calls. `DetectFilter`, `DetectFilterMore` and
`DetectFormat` are `detect_decoder`; `Decode` is one decoder step with the retry and
the lookahead of `poll_event`; `DriveCodec`, `SkipPadding` and `BetweenMembers` are
`drive_layer` and `drive_between_members`; `AfterArchive` is `poll_after_archive`;
`ReaderFeeds`, `ReaderFinishes` and `ReaderRefused` are `next_event`, with a read of
any size. A codec (external) takes and gives any amounts that `CodecStep::validate`
accepts. `eager` chooses a caller that ends the input together with its last bytes,
which the public `Pipeline` allows.

### OciLayer
The layer planner (`Observe`, `Classify`, `Removal`, `Materialization`), the
verification pass and the apply pass over the same adapter.

### UdfPartition, UdfFiles, UdfReader
Each extends the one before. An image is a record of the descriptors at its blocks,
the words of its allocation tables and the records of its directories; lengths count
cells, two to a block. `UdfPartition` has the four mappings as operators
(`PartitionExtents` and what it calls) and the loading of the three that come from
tables. `UdfFiles` has the parsers of single structures: the descriptor sequence, file
sets, file entries with their allocation descriptors, and `NextFid`, which reads one
directory record. `UdfReader` is the state machine: it finds a volume through one of
three anchors, walks file sets, directories and stream directories one record at a
step, starts over through the metadata mirror when the first walk meets damage, and
plays the index back (`next_event`, `skip_entry`). It takes the parsers of `UdfFiles`
as constant operators, to which the configuration gives their definitions.

### CabReader
A cabinet is a record of its header, its two tables and the data record at each
offset. The opening of one cabinet (`NewCabReader`) and of one volume of a set
(`ParseCabinet`) are operators, check by check in the order of the code. The opening of
a set is one action per volume and phase: `OpenVolume`, `ParseVolume`,
`ValidateCabinetNames`, `MergeCabinets` (one cabinet at a step), `JoinVolumes`,
`OpenReader`; `SourceChanges` may happen between any two. Reading is cut at every access
to a source: `NextPiece` (header, limits, first comparison of the snapshot),
`FetchPayload`, `CheckPiece` (second comparison, checksum, sizes, decoding), `Consume`,
`FinishQuantum`. A decoder promises that the whole payload of the next block of its
stream decodes to that block; what anything else decodes to is open.

### PackageFindings, PackageReport, PackageVerifier, PackageReportProofs
`PackageReport` is `PackageVerifier::verify`: which verifiers run on a profile and in
which order, what a failed rewind does, and how the results become dimensions, findings
and trust. Its actions take any result of the right type, which is what the proofs
are about. `PackageVerifier` takes the same steps with the results the modelled
verifiers compute for a package.

### ZipProfiles, ZipIntegrity, MsixBlockMap, DebPackage, RpmPackage, AlpineApk
What each profile requires of the directory or of the members, and the integrity data
it carries: JAR manifests, wheel records, block maps, `.PKGINFO`, RPM headers. A digest
is an injective name of what was hashed, so that two digests are equal exactly when
the same bytes were hashed. The payload of a deb or rpm member goes through a nested
pipeline piece by piece (`DebPackage`), and the two consumers of an RPM payload end at
different times (`RpmPackage`).

### JarSignature, AndroidSignature, ApkDigest, NugetSignature
Who signed what, and what the digests that were signed cover. `ApkDigest` computes the
chunked digest, the fs-verity tree and the v4 Merkle tree piece by piece as the file is
read, and compares them with their definition over the whole file.

## 3. Runs

Bounds are the constants of the `.cfg` files and the definitions of the MC modules.

| Run | Question |
|---|---|
| `xz_blocking` | the XZ decoder with a blocking caller: bytes once and in order both ways, `Done` only when complete, no mutual wait, no step the reader rejects |
| `lzip_async` | the lzip decoder with a polling caller, cancellation included: no lost wakeup, the worker's own error reaches the caller, calls return, the worker ends |
| `volume_set` | budgets, agreement of all answers and refinement of `VolumeCache` with two threads; a successful read of a `RangeReader` returns the captured object, whatever the source does |
| `range_retry` (violation) | a read after a failed fill returns filler |
| `async_seek` | the asynchronous adapters: replayed entries are whole and errors justified, extents and the range cache exact, no signature over less than a complete archive unless the caller finishes after a failure, commands return |
| `extraction` | plan, driver and adapter on a quiet, a failing and a shared host: the plan is a tree, links point back, reports are true, files are published whole, nothing is made outside the root, nothing foreign is lost but in three named windows |
| `oci_layer` | an unverified layer changes nothing, lower objects stay unless named, a clean report means the overlay |
| `pipeline` | every cut of 36 small archives under four budgets: events in order, `Done` only for a whole archive, intact archives are read, budgets hold, reading ends |
| `pipeline_cut` (violation) | a compressed archive that ends inside an entry's padding is read for ever |
| `packages` | packages of ten profiles, intact or with one or two differences, with a failing rewind: trust is earned and not outvoted, what is called verified is intact and what is called signed authentic, sound packages are never refused, digests are exact however the file is cut |
| `package_rewind` (violation) | the rewind to a signing block fails, the next one succeeds: v1 alone makes the report Verified |
| `seekable` | UDF images with every kind of partition map and CAB sets with every method, intact, damaged, contradictory, changing while they are read or short of a budget: the index is what the archive holds, the bytes are those of the files, redundancy is used, every step leaves less to do |

Why the bounds are enough. The channel models need a stream longer than both
queues plus the staging buffer (so that each can be full while the other is not),
and slices shorter than a chunk. Two threads suffice for the volume set because a
commit depends on the others only through the cached map; three or more add no new
kind of stale check, and the theorems cover any number. Ranges of five bytes with
a read-ahead of two contain every overlap of two chunks. Archives of two or three
entries contain every pair that can conflict and one entry that depends on the
outcome. The 64-bit bound is scaled down so that the checked addition overflows.
The pipeline's buffers hold five units: more than any header, padding or signature
and less than every archive, so that each can straddle a refill. Its archives have
one hard-link group in the awkward order, one never completed, every kind of ar name,
PAX, GNU and sparse entries, two nested filters, two members of a filter with and
without padding, and cuts inside each kind of field. The packages differ from an
intact one in one or two places, since a check that is missing or misplaced shows with
the part it was for, and an interaction of two verifiers with two. The UDF images have
each kind of descriptor once and each kind of mapping, with a nested one; two damages
suffice to hit both copies of what is recorded twice. The CAB sets have three cabinets:
a file that begins in the first and ends in the third is the shortest one whose
previous cabinet is not its neighbour, with a split block on each side of the middle
cabinet. `Frame`, the size of a block, is two cells, so that a file begins and ends
inside a block.

Fairness. `CodecWorker` assumes weak fairness of the worker thread, of the caller
and of the executor once a waker has fired: operating-system threads and an
executor that polls woken tasks. Nothing is assumed of a parked task without a wake.
`MCAsyncSeek` assumes, for each of `DemandReader`, `IndexedReader` and
`AsyncSeekWriter`, that a command that was started is polled until it returns and that
the input or output answers; dropping a future is never fair. `BothEnd` and
`CommandsReturn` are about an owner that goes on calling until it is told that the
stream has ended or failed, or drops the reader. `Pipeline` has one actor, the calling thread: reads and codec
calls return. No fairness is assumed of other processes or of failures. The UDF and
CAB readers are sequential: instead of a liveness property, `EveryStepAdvances` says that
every step lowers a rank in a well-founded order, which needs no fairness, and deadlock
checking says that only an ended reader stops.

## 4. Proofs

TLAPS proves the following for every value of the constants.

* `CodecWorkerProofs`: `TypeOK`, `InputContiguous`, `OutputContiguous`,
  `DoneMeansComplete`, `NoEarlyEnd`, `NoLostWakeup`, `PendingOutputDrained`. They are not
  inductive: the intervals in the two channels, the staging buffer and the decoder
  must be shown to abut, and the flags to say which of them may be non-empty. That
  is `Inductive`, preserved by every action, one lemma per action: the owner's calls
  in `CodecWorkerOwnerProofs`, its drive loop in `CodecWorkerDriveProofs`, the worker
  and the theorems in `CodecWorkerProofs`.
* `VolumeSetProofs`: `TypeOK`, `Budgets`, `AnswersAgree`, `BindingsAreKept`. The
  strengthening says that every answer a thread holds is the cached binding.
* `RangeReaderProofs`: `TypeOK`, and `ReadsAreSource` for callers that do not read
  again after a failed fill. The strengthening describes the prefix of the buffer
  already filled in each phase.
* `ExtractionPlanProofs`: `PlanTopology` and `PlanLinksBack`, from an invariant that
  relates the claims and the committed files to the planned entries.
* `PackageReportProofs`: `TrustIsEarned` and `NothingOutvoted`, whatever the verifiers
  answer and whichever rewind fails. The invariant says, step by step of the verifier, which results have been
  merged and what the report says of each.

Only model-checked: liveness (fairness and ENABLED are out of the prover's reach),
the refinement of `VolumeCache` and the running total (sums are folds), and all of
`DemandReader`, `IndexedReader`, `AsyncSeekWriter`, `Extraction`, `OciLayer`, `Pipeline`
(whose decoders are recursive operators), the verifiers behind `PackageReport` and the
UDF and CAB readers (folds over tables).

## 5. Where the code departs from what it says

Checked by a violation run (`findings`): filler returned after a failed fill
(`range_retry`), the endless read of a cut padding in a pipeline that detects its
layers (`pipeline_cut`), and a signing block that a failed rewind hides from the
report (`package_rewind`).

Seen while modelling. The passing runs leave these inputs out, and say so where they
do:

* `filter/xz.rs:962`: a panic of the decoding library closes both channels without a
  wake. `CodecWorker` with `Async` and `MayPanic` and without `Lzip` breaks
  `NoLostWakeup`; the theorem assumes no panic.
* `filter/xz.rs:519`: the event channel holds two messages, the comment at 494 says one.
* `seek_stream.rs:866` and `:1440`: a read that misses leaves the Deflate64 buffer grown
  with zeros, and loses the last chunk of an AES-encrypted deflate entry, so the
  asynchronous readers fail on intact entries. `MCAsyncSeek` breaks
  `ErrorsAreJustified` and `EntryComplete` when its initial states let the reader of
  these two kinds be asynchronous.
* `async_seek.rs:558`: `finish` does not look at the failed flag of an earlier command.
  A caller that finishes after a command was refused by the queue budget, found its
  entry shorter than declared, lost its output or was dropped, gets a signed archive
  without that payload. The history variable `torn` marks these writers, and
  `SignatureLast` excepts them.
* `oci/apply.rs:310`: a marker removes what its own layer made before it, although
  `oci/plan.rs:8` and ADR-0009 speak of lower layers; `:296`: a hard link whose target
  the host refused is made to a lower layer's file; `:207`: a failing reader leaves the
  temporary file of the entry in flight behind.
* `format/tar.rs:340`: an old-GNU sparse map is compared with the stored size before
  its extension blocks are read, so an archive that needs one is refused.
  `MCPipeline` with `Archives <- SparseExtended` breaks `IntactIsRead`. Where the
  extension adds nothing, a refill between header and extension makes `pull_v2` parse
  the entry's metadata from the extension block (`Garbled`).
* `stream.rs:1015`: with `finish_input` called together with the last bytes, an intact
  WARC archive, an empty ar archive and one that ends in a special member are refused,
  because their last step takes bytes and asks for more. `Patient` archives in
  `MCPipeline` are read by a caller that ends the input afterwards, as `next_event` does.
* `stream.rs:1360`: without codec layers, a cut padding ends in "finish_input called
  more than once" rather than in the decoder's own error.
* `stream.rs` (`poll_after_archive`): data after the end of a tar archive is refused only when it is
  still outside the decoder's buffer, which depends on the size of the reads.
* `format/raw.rs`: the raw decoder has no per-entry limit, only the total.
* package `verification.rs:740`: when the rewind before the signing block fails and the
  next one succeeds, an APK that has a signing block is judged by its v1 signature alone.
  `NothingOutvoted` is about the verifiers that ran and leaves this block, which the
  history variable `overlooked` records, to `EverySchemeCounts` and the run
  `package_rewind`; the history variable `rewound` keeps these behaviours out of the
  properties of signatures.
* `filesystem_std.rs:188`: `restrict_directory` takes a name, so it makes private whatever
  another process put in place of the directory just made; `finish_session` finds
  directories by path in the same way. `HostObjectsKept` names both as exceptions.
* `stream.rs:696`: when an inner layer ends with part of a member signature, the loop that
  looks for another member asks for more input that cannot come, as `pipeline_cut`
  does for padding. No archive of `MCPipeline` ends like that.
* `udf.rs` (`can_fallback_to_reserve`): only malformed structures and failed checksums
  lead to the reserve copy. A blank descriptor or one of another version is
  "unsupported" and ends the opening although its twin is whole.
* `cab.rs:525`: a cabinet from the middle of a set, opened on its own, refuses the file
  that continues from the previous cabinet but reads the files behind it in the same
  folder at offsets that count from the folder's start in the earlier cabinet. The
  runs open the first cabinet of a set alone, not the others.

## 6. What is not modelled

Entropy coding, ciphers, digests and certificates are data: they appear as promises
or verdicts. The extraction models leave out sparse writes, metadata other than
modes, driver-side limits, NUL bytes in paths and Windows identity folding. A path
component is looked up in one step; a directory is made, made private and opened in
three, with other processes between them. The OCI model takes
ownership mapping as a label and assumes that a blob does not change between its
two passes. The decoders leave out path and metadata byte budgets, the cpio dialects
other than newc and crc, and what a field's digits say; filters other than gzip and
XZ differ only in their signatures. The package models take XML, property lists,
manifests and CMS as parsed fields with the faults the code refuses, and whether one
signature is valid as a field of its signer. The records of an APK signer are taken in
their order in the file, where the code sorts those it selected by algorithm, so a
signer with two bad records may report the other one; the chunked and the verity digest, which the code computes in two passes,
share one, and the number of chunks that precedes the chunk digests is left out. The
ZIP reader's comparison of a local header with the directory is left out: its entries
agree with their headers. The UDF model leaves out names, times,
permissions and character sets. The CAB model leaves out path encodings and times,
counts metadata in items and has one-bit checksums. Cycles in UDF and CAB structures are
cut inside the operators that read them, so that `EveryStepAdvances` is about the steps
between them.

Not modelled at all: the sequential writers and OCI layer creation, the 7z and XAR
readers, the ZIP central directory and ISO directory parsers of the library itself, the
filters' bit-level codecs, the command line, value types and development tooling.

## 7. Plan

1. The sequential writers (`ArchiveWriter` and its asynchronous twin) with the tar,
   cpio, ar and zip encoders, and the round trip through the decoders.
2. The remaining seekable formats: 7z, xar, the ZIP directory, ISO.
3. Proofs for the pipeline's buffer invariants, the demand cache and the merge of CAB
   sets.
