---------------------------- MODULE VolumeCache ----------------------------
(* What a volume set promises its callers: the map from logical volumes to  *)
(* sources behaves as if every resolve were one atomic step.  A volume is   *)
(* bound once, to the source (or the absence of one) that the resolver      *)
(* reported; every later answer for it is that binding; and a binding is    *)
(* made only when the number of volumes and their declared bytes stay       *)
(* within the limits.  Module VolumeSet is shown to implement this.         *)
EXTENDS Integers, FiniteSets, Folds

CONSTANTS
    Threads,       \* callers of resolve
    Volumes,       \* logical volumes other than the primary, volume zero
    Sources,       \* the sources a resolver may hand out
    Missing,       \* the resolver has no source for the volume
    Length,        \* declared length of each source
    PrimaryLength, \* declared length of volume zero
    MaxU64,        \* the largest value of the 64-bit byte counters
    NoLimit        \* a budget that is not configured

VARIABLES
    limits,        \* the configured SourceLimits
    bound,         \* the bindings: a partial function on Volumes
    answer         \* the last answer given to each thread

LengthOf(s) == IF s = Missing THEN 0 ELSE Length[s]
TotalLength(b) == MapThenFoldSet(+, 0, LAMBDA v : LengthOf(b[v]),
                                 LAMBDA S : CHOOSE v \in S : TRUE, DOMAIN b)
Within(n, limit) == limit = NoLimit \/ n <= limit

Extended(b, v, s) == [w \in DOMAIN b \cup {v} |-> IF w = v THEN s ELSE b[w]]

(* Volume zero counts as one volume and its length counts as well. *)
BudgetHolds(b) ==
    /\ Within(Cardinality(DOMAIN b) + 1, limits.volumes)
    /\ Within(PrimaryLength + TotalLength(b), limits.volume_bytes)
    /\ PrimaryLength + TotalLength(b) <= MaxU64
    /\ \A v \in DOMAIN b : Within(LengthOf(b[v]), limits.source_bytes)

NoAnswer == [kind |-> "None"]
Refusal == [kind |-> "Err"]
PrimarySource == [kind |-> "Primary"]
Answer(v, s) == [kind |-> "Ok", volume |-> v, source |-> s]

vars == <<limits, bound, answer>>

Init == bound = << >> /\ answer = [t \in Threads |-> NoAnswer] /\ BudgetHolds(bound)

(* The volume is already bound: the caller gets the binding. *)
Reuse(t, v) ==
    /\ v \in DOMAIN bound
    /\ answer' = [answer EXCEPT ![t] = Answer(v, bound[v])]
    /\ UNCHANGED <<limits, bound>>

(* The volume is bound to what the resolver reported, which must fit. *)
Bind(t, v, s) ==
    /\ v \notin DOMAIN bound
    /\ BudgetHolds(Extended(bound, v, s))
    /\ bound' = Extended(bound, v, s)
    /\ answer' = [answer EXCEPT ![t] = Answer(v, s)]
    /\ UNCHANGED limits

(* A refusal (a budget, or the resolver's own error) binds nothing. *)
Refuse(t) ==
    /\ answer' = [answer EXCEPT ![t] = Refusal]
    /\ UNCHANGED <<limits, bound>>

Ask(t) ==
    /\ answer' \in {[answer EXCEPT ![t] = a] : a \in {NoAnswer, PrimarySource}}
    /\ UNCHANGED <<limits, bound>>

Next ==
    \E t \in Threads :
        \/ Refuse(t)
        \/ Ask(t)
        \/ \E v \in Volumes :
               Reuse(t, v) \/ \E s \in Sources \cup {Missing} : Bind(t, v, s)

Spec == Init /\ [][Next]_vars
=============================================================================
