---------------------------- MODULE MCAsyncSeek -----------------------------
(* The asynchronous adapters of async_seek.rs: the payload reader over       *)
(* indexed entries (IndexedReader), the driving loop that replays any other *)
(* parser (DemandReader) and the writer (AsyncSeekWriter).  They never share *)
(* state: `job` is the one a behaviour is about, the others stay as they    *)
(* were opened.                                                             *)
EXTENDS IndexedReader

CONSTANTS Kinds, DemandLimit, QueueLimit, WriterLimit

VARIABLES
    job,
    d_cache, d_bytes, d_demand, d_script, d_step, d_phase, d_offset, d_wanted, d_filled,
    d_stopped, d_result,
    w_pending, w_entries, w_total, w_buffered, w_position, w_queue, w_bytes, w_file, w_cursor,
    w_operation, w_offset, w_failed, w_live, w_pc, w_result, w_mode, w_torn

demandVars == <<d_cache, d_bytes, d_demand, d_script, d_step, d_phase, d_offset, d_wanted,
                d_filled, d_stopped, d_result>>
writerVars == <<w_pending, w_entries, w_total, w_buffered, w_position, w_queue, w_bytes,
                w_file, w_cursor, w_operation, w_offset, w_failed, w_live, w_pc, w_result, w_mode, w_torn>>
-----------------------------------------------------------------------------
(* Archives of one entry of every kind and shape, followed by a stored one.  *)
E(k, d, s, t) == [kind |-> k, data |-> d, size |-> s, stream |-> t]
MCEntries ==
    {E(k, n, n, "Whole") : k \in Kinds \cap Copied, n \in 0..3}
    \cup {E(k, d, s, t) : k \in Kinds \cap (Coded \cup {"Lzma"}), d \in 1..3, s \in {2, 4, 5},
                          t \in {"Whole", "Short"}}
    \cup {E(k, 3, 4, t) : k \in Kinds \cap Coded, t \in {"Long", "Larger"}}
    \cup {E(k, 2, 2, "Damaged") : k \in Kinds \ {"Raw", "Unsupported"}}
    \cup {E(k, 3, 2, "Larger") : k \in Kinds \cap {"AesStored"}}
    \cup {E(k, 2, 3, "Short") : k \in Kinds \cap {"AesStored"}}
    \cup {E(k, 1, 1, "Whole") : k \in Kinds \cap {"Unsupported"}}
MCArchives == {<<e, E("Stored", 3, 3, "Whole")>> : e \in MCEntries}

(* An input of five bytes: parsers of two reads anywhere and of three reads  *)
(* at chosen places, reads across and beyond the end included.              *)
MCScripts == [1..2 -> (0..5) \X {1, 3}] \cup [1..3 -> {<<0, 3>>, <<1, 2>>, <<1, 4>>}]
Demand == INSTANCE DemandReader WITH
    InputLen <- 5, CacheLimit <- DemandLimit, Scripts <- MCScripts,
    cache <- d_cache, cached_bytes <- d_bytes, demand <- d_demand, script <- d_script,
    step <- d_step, phase <- d_phase, offset <- d_offset, wanted <- d_wanted,
    filled <- d_filled, stopped <- d_stopped, result <- d_result

(* Two entries and five units of payload, one more than the limit allows.    *)
Writer == INSTANCE AsyncSeekWriter WITH
    MaxPayload <- 5, MaxEntries <- 2, Declared <- {None, 1, 2}, DecodedLimit <- WriterLimit,
    MayCancel <- TRUE, torn <- w_torn,
    pending <- w_pending, entries <- w_entries, decoded_total <- w_total,
    buffered <- w_buffered, position <- w_position, queue <- w_queue, bytes <- w_bytes,
    file <- w_file, cursor <- w_cursor, operation <- w_operation, offset <- w_offset,
    failed <- w_failed, live <- w_live, pc <- w_pc, result <- w_result, mode <- w_mode

-----------------------------------------------------------------------------
(* The indexed reader is checked without the coders that lose their place    *)
(* when a read misses (seek_stream.rs:866 and 1440, see README.md, section  *)
(* 5).                                                                      *)
MCInit ==
    /\ Init /\ (async => archive[1].kind \notin Deflate64s \cup {"AesDeflate"})
    /\ Demand!Init /\ Writer!Init
    /\ job \in {"Indexed", "Demand", "Writer"}
    /\ (job # "Indexed" => async /\ archive[1] = E("Stored", 3, 3, "Whole"))

MCNext ==
    \/ job = "Indexed" /\ Next /\ UNCHANGED <<job, demandVars, writerVars>>
    \/ job = "Demand" /\ Demand!Next /\ UNCHANGED <<job, vars, writerVars>>
    \/ job = "Writer" /\ Writer!Next /\ UNCHANGED <<job, vars, demandVars>>

(* What each adapter assumes of its own executor.                            *)
MCSpec ==
    /\ MCInit /\ [][MCNext]_<<job, vars, demandVars, writerVars>>
    /\ WF_vars(job = "Indexed" /\ (NextEvent \/ Step) /\ UNCHANGED <<job, demandVars, writerVars>>)
    /\ WF_demandVars(job = "Demand" /\ Demand!Progress /\ UNCHANGED <<job, vars, writerVars>>)
    /\ WF_writerVars(job = "Writer" /\ Writer!Flush /\ UNCHANGED <<job, vars, demandVars>>)

-----------------------------------------------------------------------------
(* The cache of the driving loop keeps its promises to the parser: the       *)
(* incremental byte count is exact and within the budget, and an insertion  *)
(* never takes a readable range away (async_seek.rs insert, read_cached).   *)
CacheIsSound == [][Demand!CacheAccounted' /\ Demand!HitsPersist]_demandVars

(* A destination that carries the 7z signature is a whole archive unless     *)
(* the caller finished after a command that gave payload up, and a finish   *)
(* that succeeds has written it last (sevenz.rs finish, async_seek.rs       *)
(* flush_operations and finish).                                            *)
SignatureLast == Writer!SignatureLast

(* Every command of every adapter returns, although a parser is replayed     *)
(* after each miss and a command's operations are drained one write at a    *)
(* time.                                                                    *)
CommandsReturn ==
    /\ job = "Indexed" => ReaderFinishes
    /\ Demand!CommandsEnd
    /\ job = "Writer" => Writer!CommandsReturn
=============================================================================
