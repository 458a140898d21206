----------------------------- MODULE VolumeSet -----------------------------
(* `VolumeSet::resolve` (libarchive_oxide/src/range_source.rs) called by    *)
(* several threads.  The state lock is NOT held across the application's    *)
(* resolver: a call checks the cache and the volume count, unlocks, asks    *)
(* the resolver, and locks again to commit.  Between the two critical       *)
(* sections other threads may have bound the same volume or used up the     *)
(* budget.  A critical section is one step; the resolver may answer any     *)
(* source, none, or an error, and need not answer alike twice.              *)
EXTENDS Integers, FiniteSets, Folds

CONSTANTS Threads, Volumes, Sources, Missing, Length, PrimaryLength, MaxU64, NoLimit,
    LimitChoices   \* the SourceLimits an application may configure

ASSUME VolumeAssumption ==
    /\ IsFiniteSet(Volumes) /\ 0 \notin Volumes
    /\ Missing \notin Sources
    /\ MaxU64 \in Nat /\ NoLimit \notin Nat
    /\ PrimaryLength \in 0..MaxU64
    /\ Length \in [Sources -> 0..MaxU64]
    /\ LimitChoices \subseteq [source_bytes : Nat \cup {NoLimit},
                               volumes : Nat \cup {NoLimit},
                               volume_bytes : Nat \cup {NoLimit}]

VARIABLES
    limits,       \* SourceLimits given to VolumeSet::new
    resolved,     \* VolumeState.resolved, a partial function on Volumes
    total_bytes,  \* VolumeState.total_bytes
    phase,        \* where each thread is in resolve
    volume,       \* the volume each thread asked for
    fetched,      \* what the resolver gave each thread
    answer        \* the last result of each thread's call

vars == <<limits, resolved, total_bytes, phase, volume, fetched, answer>>
state == <<limits, resolved, total_bytes>>

Answers == Sources \cup {Missing}
NoAnswer == [kind |-> "None"]
Refusal == [kind |-> "Err"]
PrimarySource == [kind |-> "Primary"]
Answer(v, s) == [kind |-> "Ok", volume |-> v, source |-> s]

(* A configured budget is exceeded. *)
Exceeds(n, limit) == limit # NoLimit /\ n > limit

(* The count a new volume would bring the set to, volume zero included. *)
Observed == Cardinality(DOMAIN resolved) + 2
CountExceeded == Exceeds(Observed, limits.volumes)

(* VolumeSet::new refuses limits the primary already breaks. *)
Accepts(l) ==
    /\ ~Exceeds(PrimaryLength, l.source_bytes)
    /\ l.volumes # 0
    /\ ~Exceeds(PrimaryLength, l.volume_bytes)

Init ==
    /\ limits \in {l \in LimitChoices : Accepts(l)}
    /\ resolved = << >>
    /\ total_bytes = 0
    /\ phase = [t \in Threads |-> "Idle"]
    /\ volume = [t \in Threads |-> 0]
    /\ fetched = [t \in Threads |-> Missing]
    /\ answer = [t \in Threads |-> NoAnswer]

Return(t, result) ==
    /\ phase' = [phase EXCEPT ![t] = "Idle"]
    /\ answer' = [answer EXCEPT ![t] = result]

(* Volume zero is the primary source, answered without the lock. *)
Primary(t) ==
    /\ phase[t] = "Idle"
    /\ answer' = [answer EXCEPT ![t] = PrimarySource]
    /\ UNCHANGED <<state, phase, volume, fetched>>

(* The application calls resolve for another volume. *)
Call(t, v) ==
    /\ phase[t] = "Idle"
    /\ phase' = [phase EXCEPT ![t] = "Check"]
    /\ volume' = [volume EXCEPT ![t] = v]
    /\ answer' = [answer EXCEPT ![t] = NoAnswer]
    /\ UNCHANGED <<state, fetched>>

(* The first critical section: the cached answer, or the count budget. *)
Check(t) ==
    /\ phase[t] = "Check"
    /\ \/ /\ volume[t] \in DOMAIN resolved
          /\ Return(t, Answer(volume[t], resolved[volume[t]]))
       \/ /\ volume[t] \notin DOMAIN resolved /\ CountExceeded
          /\ Return(t, Refusal)
       \/ /\ volume[t] \notin DOMAIN resolved /\ ~CountExceeded
          /\ phase' = [phase EXCEPT ![t] = "Resolve"]
          /\ UNCHANGED answer
    /\ UNCHANGED <<state, volume, fetched>>

LengthOf(s) == IF s = Missing THEN 0 ELSE Length[s]

(* The application's resolver answers while no lock is held. *)
Resolver(t) == \E s \in Answers : fetched' = [fetched EXCEPT ![t] = s]

(* resolver.resolve and validate_source_length, which both may fail. *)
Resolve(t) ==
    /\ phase[t] = "Resolve"
    /\ \/ UNCHANGED fetched /\ Return(t, Refusal)
       \/ /\ Resolver(t)
          /\ \/ /\ Exceeds(LengthOf(fetched'[t]), limits.source_bytes)
                /\ Return(t, Refusal)
             \/ /\ ~Exceeds(LengthOf(fetched'[t]), limits.source_bytes)
                /\ phase' = [phase EXCEPT ![t] = "Commit"]
                /\ UNCHANGED answer
    /\ UNCHANGED <<state, volume>>

(* The checked sum of the primary, the resolved volumes and the new one. *)
Total(s) == PrimaryLength + total_bytes + LengthOf(s)
BytesExceeded(s) ==
    s # Missing /\ (Total(s) > MaxU64 \/ Exceeds(Total(s), limits.volume_bytes))

CommitRefusedUncounted(s) == BytesExceeded(s)
CommitRefused(s) == CountExceeded \/ BytesExceeded(s)

(* Is the volume already bound when the lock is taken again? *)
BoundMeanwhileUnchecked(t) == FALSE
BoundMeanwhile(t) == volume[t] \in DOMAIN resolved

Insert(v, s) ==
    /\ resolved' = [w \in DOMAIN resolved \cup {v} |-> IF w = v THEN s ELSE resolved[w]]
    /\ total_bytes' = total_bytes + LengthOf(s)

(* The second critical section: everything is checked again, then bound. *)
Commit(t) ==
    /\ phase[t] = "Commit"
    /\ \/ /\ BoundMeanwhile(t)
          /\ Return(t, Answer(volume[t], resolved[volume[t]]))
          /\ UNCHANGED <<resolved, total_bytes>>
       \/ /\ ~BoundMeanwhile(t) /\ CommitRefused(fetched[t])
          /\ Return(t, Refusal)
          /\ UNCHANGED <<resolved, total_bytes>>
       \/ /\ ~BoundMeanwhile(t) /\ ~CommitRefused(fetched[t])
          /\ Insert(volume[t], fetched[t])
          /\ Return(t, Answer(volume[t], fetched[t]))
    /\ UNCHANGED <<limits, volume, fetched>>

Step(t) == Check(t) \/ Resolve(t) \/ Commit(t)
Next == \E t \in Threads : Step(t) \/ Primary(t) \/ \E v \in Volumes : Call(t, v)

Spec == Init /\ [][Next]_vars
-----------------------------------------------------------------------------
Results ==
    {NoAnswer, Refusal, PrimarySource} \cup {Answer(v, s) : v \in Volumes, s \in Answers}

TypeOK ==
    /\ limits \in LimitChoices
    /\ DOMAIN resolved \subseteq Volumes
    /\ \A v \in DOMAIN resolved : resolved[v] \in Answers
    /\ total_bytes \in 0..MaxU64
    /\ phase \in [Threads -> {"Idle", "Check", "Resolve", "Commit"}]
    /\ volume \in [Threads -> Volumes \cup {0}]
    /\ fetched \in [Threads -> Answers]
    /\ answer \in [Threads -> Results]

(* The two budgets of SourceLimits hold whatever the threads do: "distinct  *)
(* logical volumes, including volume zero" and "sum of declared lengths for *)
(* all resolved volumes", the sum in 64 bits.                               *)
Budgets ==
    /\ ~Exceeds(Cardinality(DOMAIN resolved) + 1, limits.volumes)
    /\ ~Exceeds(PrimaryLength + total_bytes, limits.volume_bytes)
    /\ PrimaryLength + total_bytes <= MaxU64

(* Whatever two calls for a volume returned, at whatever time, it is the    *)
(* one cached binding: no reader ever mixes two sources of one volume.      *)
AnswersAgree ==
    \A t \in Threads : answer[t].kind = "Ok" =>
        /\ answer[t].volume \in DOMAIN resolved
        /\ answer[t].source = resolved[answer[t].volume]

(* A binding is never replaced or dropped, so a multi-volume reader may     *)
(* resolve again instead of keeping the source.                             *)
BindingsAreKept ==
    [][\A v \in DOMAIN resolved : v \in DOMAIN resolved' /\ resolved'[v] = resolved[v]]_vars

(* The running total is the sum over the cached volumes, and all callers    *)
(* together see the atomic map of VolumeCache.                              *)
Atomic == INSTANCE VolumeCache WITH bound <- resolved
RefinesCache == Atomic!Spec
=============================================================================
