-------------------------- MODULE VolumeSetProofs --------------------------
(* Proofs about VolumeSet for any number of threads, volumes and sources    *)
(* and any limits.  The inductive invariant adds to the properties that a   *)
(* thread inside resolve asked for a volume other than zero.                *)
EXTENDS VolumeSet, FiniteSetTheorems, TLAPS

(* A thread between Call and its answer holds a volume that is not the      *)
(* primary: resolve returned at once for volume zero.                       *)
Asked == \A t \in Threads : phase[t] # "Idle" => volume[t] \in Volumes

Inductive == TypeOK /\ Budgets /\ AnswersAgree /\ Asked

(* The resolved volumes are finitely many, so that counting them is sound.  *)
LEMMA ResolvedFinite ==
    ASSUME TypeOK PROVE IsFiniteSet(DOMAIN resolved) /\ Cardinality(DOMAIN resolved) \in Nat
  BY VolumeAssumption, FS_Subset, FS_CardinalityType DEF TypeOK

(* What resolve returns. *)
LEMMA ResultKinds ==
    /\ NoAnswer \in Results /\ Refusal \in Results /\ PrimarySource \in Results
    /\ \A v \in Volumes, s \in Answers : Answer(v, s) \in Results
  BY DEF Results

(* The budgets hold of a new volume set: VolumeSet::new checked them.       *)
LEMMA InitInductive == Init => Inductive
<1> SUFFICES ASSUME Init PROVE Inductive
  OBVIOUS
<1>1. limits \in LimitChoices /\ Accepts(limits)
  BY DEF Init
<1>2. DOMAIN resolved = {}
  BY DEF Init
<1>3. TypeOK
  BY <1>1, <1>2, VolumeAssumption, ResultKinds DEF Init, TypeOK, Answers
<1>4. Budgets
  <2>1. Cardinality(DOMAIN resolved) = 0
    BY <1>2, FS_EmptySet
  <2>2. limits.volumes \in Nat \cup {NoLimit} /\ limits.volume_bytes \in Nat \cup {NoLimit}
    BY <1>1, VolumeAssumption
  <2> QED
    BY <1>1, <2>1, <2>2, VolumeAssumption DEF Init, Budgets, Exceeds, Accepts
<1>5. AnswersAgree /\ Asked
  BY DEF Init, AnswersAgree, Asked, NoAnswer
<1> QED
  BY <1>3, <1>4, <1>5 DEF Inductive

(* Answering from the cache, refusing, or moving to another phase leaves    *)
(* the map and its budgets alone and hands out only what is bound.          *)
LEMMA AnswerKeeps ==
    ASSUME Inductive, NEW t \in Threads, volume[t] \in Volumes,
           UNCHANGED <<state, volume, fetched>>,
           NEW p \in {"Idle", "Check", "Resolve", "Commit"}, phase' = [phase EXCEPT ![t] = p],
           \/ UNCHANGED answer
           \/ answer' = [answer EXCEPT ![t] = Refusal]
           \/ /\ volume[t] \in DOMAIN resolved
              /\ answer' = [answer EXCEPT ![t] = Answer(volume[t], resolved[volume[t]])]
    PROVE Inductive'
<1>1. TypeOK'
  BY ResultKinds DEF Inductive, TypeOK, state
<1>2. Budgets'
  BY DEF Inductive, Budgets, Exceeds, state
<1>3. AnswersAgree'
  BY DEF Inductive, TypeOK, AnswersAgree, Answer, Refusal, state
<1>4. Asked'
  BY DEF Inductive, TypeOK, Asked
<1> QED
  BY <1>1, <1>2, <1>3, <1>4 DEF Inductive

(* The second critical section checks the count and the sum it is about to  *)
(* store, under the lock, so storing the volume keeps both budgets.         *)
LEMMA InsertKeeps ==
    ASSUME Inductive, NEW t \in Threads, phase[t] = "Commit",
           ~BoundMeanwhile(t), ~CommitRefused(fetched[t]),
           Insert(volume[t], fetched[t]), Return(t, Answer(volume[t], fetched[t])),
           UNCHANGED <<limits, volume, fetched>>
    PROVE Inductive'
<1> DEFINE v == volume[t]
           s == fetched[t]
<1>1. v \in Volumes /\ s \in Answers /\ v \notin DOMAIN resolved
  BY DEF Inductive, Asked, TypeOK, BoundMeanwhile
<1>2. /\ DOMAIN resolved' = DOMAIN resolved \cup {v}
      /\ resolved'[v] = s
      /\ \A w \in DOMAIN resolved : resolved'[w] = resolved[w]
  BY <1>1 DEF Insert
<1>3. LengthOf(s) \in Nat
  BY <1>1, VolumeAssumption DEF LengthOf, Answers
<1>4. total_bytes \in Nat /\ PrimaryLength \in Nat /\ MaxU64 \in Nat
  BY VolumeAssumption DEF Inductive, TypeOK
<1>5. PrimaryLength + total_bytes' <= MaxU64
  BY <1>3, <1>4, VolumeAssumption
     DEF Inductive, Budgets, Insert, CommitRefused, BytesExceeded, Total, LengthOf
<1>6. ~Exceeds(PrimaryLength + total_bytes', limits.volume_bytes)
  BY <1>3, <1>4, VolumeAssumption
     DEF Inductive, Budgets, Insert, CommitRefused, BytesExceeded, Total, LengthOf
<1>7. ~Exceeds(Cardinality(DOMAIN resolved') + 1, limits.volumes)
  <2>1. Cardinality(DOMAIN resolved') = Cardinality(DOMAIN resolved) + 1
    BY <1>1, <1>2, ResolvedFinite, FS_AddElement DEF Inductive
  <2>2. Cardinality(DOMAIN resolved) \in Nat
    BY ResolvedFinite DEF Inductive
  <2>3. ~Exceeds(Cardinality(DOMAIN resolved) + 2, limits.volumes)
    BY DEF CommitRefused, CountExceeded, Observed
  <2>4. Cardinality(DOMAIN resolved') + 1 = Cardinality(DOMAIN resolved) + 2
    BY <2>1, <2>2
  <2> QED
    BY <2>3, <2>4
<1>8. Budgets'
  BY <1>5, <1>6, <1>7 DEF Budgets, Exceeds
<1>9. total_bytes' \in 0..MaxU64
  BY <1>3, <1>4, <1>5 DEF Insert
<1>10. TypeOK'
  BY <1>1, <1>2, <1>9, ResultKinds DEF Inductive, TypeOK, Return
<1>11. AnswersAgree'
  BY <1>1, <1>2 DEF Inductive, TypeOK, AnswersAgree, Return, Answer
<1>12. Asked'
  BY DEF Inductive, TypeOK, Asked, Return
<1> QED
  BY <1>8, <1>10, <1>11, <1>12 DEF Inductive

(* Every step of every thread preserves the invariant. *)
LEMMA NextKeeps == Inductive /\ [Next]_vars => Inductive'
<1> SUFFICES ASSUME Inductive, [Next]_vars PROVE Inductive'
  OBVIOUS
<1> USE DEF state
<1>1. CASE UNCHANGED vars
  BY <1>1 DEF vars, Inductive, TypeOK, Budgets, Exceeds, AnswersAgree, Asked
<1>2. ASSUME NEW t \in Threads, Primary(t) PROVE Inductive'
  <2>1. TypeOK'
    BY <1>2, ResultKinds DEF Inductive, TypeOK, Primary
  <2>2. AnswersAgree'
    BY <1>2 DEF Inductive, TypeOK, AnswersAgree, Primary, PrimarySource
  <2> QED
    BY <1>2, <2>1, <2>2 DEF Inductive, Budgets, Exceeds, Asked, Primary
<1>3. ASSUME NEW t \in Threads, NEW v \in Volumes, Call(t, v) PROVE Inductive'
  <2>1. TypeOK'
    BY <1>3, ResultKinds DEF Inductive, TypeOK, Call
  <2>2. AnswersAgree'
    BY <1>3 DEF Inductive, TypeOK, AnswersAgree, Call, NoAnswer
  <2>3. Asked'
    BY <1>3 DEF Inductive, TypeOK, Asked, Call
  <2> QED
    BY <1>3, <2>1, <2>2, <2>3 DEF Inductive, Budgets, Exceeds, Call
<1>4. ASSUME NEW t \in Threads, Check(t) PROVE Inductive'
  <2>1. volume[t] \in Volumes
    BY <1>4 DEF Inductive, Asked, Check
  <2> QED
    BY <1>4, <2>1, AnswerKeeps DEF Check, Return
<1>5. ASSUME NEW t \in Threads, Resolve(t) PROVE Inductive'
  <2>1. TypeOK'
    BY <1>5, ResultKinds DEF Inductive, TypeOK, Resolve, Resolver, Return
  <2>2. AnswersAgree'
    BY <1>5 DEF Inductive, TypeOK, AnswersAgree, Resolve, Return, Refusal
  <2>3. Asked'
    BY <1>5 DEF Inductive, TypeOK, Asked, Resolve, Return
  <2> QED
    BY <1>5, <2>1, <2>2, <2>3 DEF Inductive, Budgets, Exceeds, Resolve
<1>6. ASSUME NEW t \in Threads, Commit(t) PROVE Inductive'
  <2>1. volume[t] \in Volumes
    BY <1>6 DEF Inductive, Asked, Commit
  <2>2. CASE BoundMeanwhile(t)
    BY <1>6, <2>1, <2>2, AnswerKeeps DEF Commit, Return, BoundMeanwhile
  <2>3. CASE ~BoundMeanwhile(t) /\ CommitRefused(fetched[t])
    BY <1>6, <2>1, <2>3, AnswerKeeps DEF Commit, Return
  <2>4. CASE ~BoundMeanwhile(t) /\ ~CommitRefused(fetched[t])
    BY <1>6, <2>4, InsertKeeps DEF Commit
  <2> QED
    BY <2>2, <2>3, <2>4
<1> QED
  BY <1>1, <1>2, <1>3, <1>4, <1>5, <1>6 DEF Next, Step

(* The invariant holds throughout. *)
THEOREM Invariance == Spec => []Inductive
  BY InitInductive, NextKeeps, PTL DEF Spec

(* The cache of a volume set has its type and the byte total never leaves   *)
(* 64 bits: the checked additions of resolve cannot be overtaken.           *)
THEOREM TypeCorrect == Spec => []TypeOK
<1>1. Inductive => TypeOK
  BY DEF Inductive
<1> QED
  BY <1>1, Invariance, PTL

(* The volume count and byte budgets hold for any number of concurrent      *)
(* calls, although resolve gives up the lock while it asks the resolver.    *)
THEOREM BudgetsHold == Spec => []Budgets
<1>1. Inductive => Budgets
  BY DEF Inductive
<1> QED
  BY <1>1, Invariance, PTL

(* All successful answers for a volume are its one cached binding.          *)
THEOREM OneSourcePerVolume == Spec => []AnswersAgree
<1>1. Inductive => AnswersAgree
  BY DEF Inductive
<1> QED
  BY <1>1, Invariance, PTL

(* No step replaces or removes a cached binding: commit inserts only a      *)
(* volume that is still unbound under the second lock.                      *)
THEOREM BindingsKept == Spec => BindingsAreKept
<1> DEFINE Kept == \A v \in DOMAIN resolved :
                       v \in DOMAIN resolved' /\ resolved'[v] = resolved[v]
<1>1. [Next]_vars => [Kept]_vars
  <2> SUFFICES ASSUME Next PROVE Kept
    OBVIOUS
  <2>1. resolved' = resolved => Kept
    OBVIOUS
  <2>2. ASSUME NEW t \in Threads, Commit(t) PROVE Kept
    BY <2>2 DEF Commit, BoundMeanwhile, Insert
  <2> QED
    BY <2>1, <2>2 DEF Next, Step, Primary, Call, Check, Resolve, state
<1> QED
  BY <1>1, PTL DEF Spec, BindingsAreKept
=============================================================================
