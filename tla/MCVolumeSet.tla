---------------------------- MODULE MCVolumeSet ----------------------------
(* The two halves of range_source.rs, each on its own.  In one job two       *)
(* threads resolve two volumes, from two sources of lengths 1 and 3 beside  *)
(* a primary of length 2; the 64-bit bound is 5 so that the checked         *)
(* addition overflows when no budget is configured.  In the other a         *)
(* RangeReader reads a source of length 4 through a buffer of at most 2.    *)
EXTENDS VolumeSet, RangeReader
CONSTANTS t1, t2, short, long

VARIABLE job

MCThreads == {t1, t2}
MCVolumes == {1, 2}
MCSources == {short, long}
MCLength == [s \in MCSources |-> IF s = short THEN 1 ELSE 3]
MCLimitChoices ==
    [source_bytes : {2, NoLimit}, volumes : {2, 3, NoLimit}, volume_bytes : {4, 5, NoLimit}]

MCInit == Init /\ RangeInit /\ job \in {"resolve", "read"}

MCNext ==
    \/ job = "resolve" /\ Next /\ UNCHANGED <<job, rangeVars>>
    \/ job = "read" /\ RangeNext /\ UNCHANGED <<job, vars>>

MCSpec == MCInit /\ [][MCNext]_<<job, vars, rangeVars>>
=============================================================================
