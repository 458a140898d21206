----------------------- MODULE ExtractionPlanProofs -----------------------
(***************************************************************************)
(* The plan's topology and its hard links, for every archive and policy.   *)
(* The inductive invariant ties the planned entries to the claims: what is *)
(* materialized is claimed, its ancestors are directory prefixes, and only *)
(* a directory is not among the claimed files.                             *)
(***************************************************************************)
EXTENDS ExtractionPlan, TLAPS

IsPlan == \E T : planned \in Seq(T)

\* Every entry that is materialized has left its trace in the claims.
ClaimsFollow ==
  \A i \in Materialized :
    /\ planned[i].dest \in claims.claimed
    /\ Ancestors(planned[i].dest) \subseteq claims.prefixes
    /\ planned[i].kind # "Dir" => planned[i].dest \in claims.files

\* Every committed destination is one that the plan materializes as a file.
CommittedFollow ==
  \A path \in committed : \E j \in Materialized :
    planned[j].kind \in {"File", "Hardlink"} /\ planned[j].dest = path

IInv == IsPlan /\ ClaimsFollow /\ CommittedFollow /\ PlanTopology /\ PlanLinksBack
---------------------------------------------------------------------------
\* What plan_entry guarantees of an entry that it materializes.
LEMMA PlanEntryFacts ==
  ASSUME NEW e, NEW p, NEW c, NEW d, PlanEntry(e, p, c, d).disposition = "Materialize"
  PROVE  /\ CanClaim(c, PlanEntry(e, p, c, d).dest, PlanEntry(e, p, c, d).kind)
         /\ PlanEntry(e, p, c, d).kind = "Hardlink" => PlanEntry(e, p, c, d).target \in d
<1> DEFINE dest == Sanitize(e.path)
           disposition == Disposed(e, p, d)
           target == IF disposition = "Materialize" /\ e.kind \in {"Symlink", "Hardlink"}
                     THEN LinkTarget(e, d) ELSE NoPath
<1>1. /\ PlanEntry(e, p, c, d) = Planned(e, disposition, dest, target)
      /\ CanClaim(c, dest, e.kind)
  BY Zenon DEF PlanEntry, Planned
<1>2. /\ PlanEntry(e, p, c, d).dest = dest /\ PlanEntry(e, p, c, d).kind = e.kind
      /\ PlanEntry(e, p, c, d).target = target /\ disposition = "Materialize"
  BY <1>1 DEF Planned
<1>3. e.kind = "Hardlink" => LinkTarget(e, d) # NoPath
  BY <1>2 DEF Disposed
<1>4. e.kind = "Hardlink" => LinkTarget(e, d) \in d
  BY <1>3 DEF LinkTarget
<1> QED BY <1>1, <1>2, <1>4

\* A plan grows by one entry and keeps the earlier ones.
LEMMA Grows ==
  ASSUME IsPlan, NEW entry, planned' = Append(planned, entry)
  PROVE  /\ IsPlan'
         /\ Len(planned) \in Nat
         /\ \A i \in DOMAIN planned : i \in 1 .. Len(planned) /\ planned'[i] = planned[i]
         /\ planned'[Len(planned) + 1] = entry
         /\ Materialized \subseteq DOMAIN planned
         /\ Materialized' = Materialized \cup
              (IF entry.disposition = "Materialize" THEN {Len(planned) + 1} ELSE {})
<1>1. PICK T : planned \in Seq(T)
  BY DEF IsPlan
<1> DEFINE U == T \cup {entry}
<1>2. planned \in Seq(U) /\ entry \in U
  BY <1>1
<1>3. planned' \in Seq(U)
  BY <1>2
<1>4. IsPlan'
  BY <1>3 DEF IsPlan
<1>5. /\ Len(planned) \in Nat /\ DOMAIN planned = 1 .. Len(planned)
      /\ DOMAIN planned' = 1 .. Len(planned) + 1
      /\ \A i \in 1 .. Len(planned) : planned'[i] = planned[i]
      /\ planned'[Len(planned) + 1] = entry
  BY <1>2, <1>3
<1>6. Materialized' = Materialized \cup
        (IF entry.disposition = "Materialize" THEN {Len(planned) + 1} ELSE {})
  BY <1>5 DEF Materialized
<1> QED BY <1>4, <1>5, <1>6 DEF Materialized

\* Planning one entry preserves the invariant.
LEMMA PlanStep ==
  ASSUME IInv, PlanNext
  PROVE  IInv'
<1> DEFINE e == archive[Len(planned) + 1]
           entry == PlanEntry(e, policy, claims, committed)
           n == Len(planned) + 1
<1>1. /\ planned' = Append(planned, entry)
      /\ claims' = ClaimsAfter(entry)
      /\ committed' = CommittedAfter(entry)
  BY DEF PlanNext
<1>2. entry.disposition = "Materialize" =>
        /\ CanClaim(claims, entry.dest, entry.kind)
        /\ entry.kind = "Hardlink" => entry.target \in committed
  BY PlanEntryFacts
<1> HIDE DEF e, entry
<1>3. /\ IsPlan'
      /\ Len(planned) \in Nat
      /\ \A i \in DOMAIN planned : i \in 1 .. Len(planned) /\ planned'[i] = planned[i]
      /\ planned'[n] = entry
      /\ Materialized \subseteq DOMAIN planned
      /\ Materialized' = Materialized \cup (IF entry.disposition = "Materialize" THEN {n} ELSE {})
  BY <1>1, Grows DEF IInv
<1>4. \A i \in Materialized : i < n /\ i # n /\ planned'[i] = planned[i] /\ i \in Materialized'
  BY <1>3
<1>5. /\ claims.claimed \subseteq claims'.claimed
      /\ claims.prefixes \subseteq claims'.prefixes
      /\ claims.files \subseteq claims'.files
  BY <1>1 DEF ClaimsAfter, Claim
<1>6. entry.disposition = "Materialize" =>
        /\ entry.dest \in claims'.claimed
        /\ Ancestors(entry.dest) \subseteq claims'.prefixes
        /\ entry.kind # "Dir" => entry.dest \in claims'.files
  BY <1>1 DEF ClaimsAfter, Claim
<1>7. ClaimsFollow'
  BY <1>3, <1>4, <1>5, <1>6 DEF IInv, ClaimsFollow
<1>8. CommittedFollow'
  <2>1. \A path \in committed : \E j \in Materialized' :
          planned'[j].kind \in {"File", "Hardlink"} /\ planned'[j].dest = path
    BY <1>4 DEF IInv, CommittedFollow
  <2>2. ASSUME entry.disposition = "Materialize", entry.kind \in {"File", "Hardlink"}
        PROVE  n \in Materialized' /\ planned'[n].kind \in {"File", "Hardlink"}
               /\ planned'[n].dest = entry.dest
    BY <1>3, <2>2
  <2> QED BY <1>1, <2>1, <2>2 DEF CommittedFollow, CommittedAfter
<1>9. PlanTopology'
  <2>1. ASSUME NEW i \in Materialized, entry.disposition = "Materialize"
        PROVE  /\ planned[i].dest # entry.dest
               /\ planned[i].dest \in Ancestors(entry.dest) => planned[i].kind = "Dir"
               /\ entry.dest \in Ancestors(planned[i].dest) => entry.kind = "Dir"
    BY <1>2, <2>1 DEF IInv, ClaimsFollow, CanClaim
  <2> QED BY <1>3, <1>4, <2>1 DEF IInv, PlanTopology
<1>10. PlanLinksBack'
  <2>1. ASSUME NEW i \in Materialized, planned[i].kind = "Hardlink"
        PROVE  \E j \in Materialized' : /\ j < i
                                        /\ planned'[j].kind \in {"File", "Hardlink"}
                                        /\ planned'[j].dest = planned'[i].target
    BY <1>4, <2>1 DEF IInv, PlanLinksBack
  <2>2. ASSUME entry.disposition = "Materialize", entry.kind = "Hardlink"
        PROVE  \E j \in Materialized' : /\ j < n
                                        /\ planned'[j].kind \in {"File", "Hardlink"}
                                        /\ planned'[j].dest = entry.target
    BY <1>2, <1>4, <2>2 DEF IInv, CommittedFollow
  <2> QED BY <1>3, <1>4, <2>1, <2>2 DEF PlanLinksBack
<1> QED BY <1>3, <1>7, <1>8, <1>9, <1>10 DEF IInv

LEMMA PlanInvariance == PlanSpec => []IInv
<1>1. PlanInit => IInv
  <2> SUFFICES ASSUME PlanInit PROVE IInv
    OBVIOUS
  <2>1. planned = << >> /\ committed = {} /\ planned \in Seq({})
    BY DEF PlanInit
  <2>2. Materialized = {}
    BY <2>1 DEF Materialized
  <2> QED BY <2>1, <2>2 DEF IInv, IsPlan, ClaimsFollow, CommittedFollow, PlanTopology, PlanLinksBack
<1>2. IInv /\ UNCHANGED planVars => IInv'
  BY DEF planVars, IInv, IsPlan, ClaimsFollow, CommittedFollow, PlanTopology, PlanLinksBack,
         Materialized
<1> QED BY <1>1, <1>2, PlanStep, PTL DEF PlanSpec
---------------------------------------------------------------------------
\* For every archive and policy, the entries that ArchiveSession::plan
\* materializes have distinct destinations, and only a directory lies above
\* another one (DestinationClaims::claim).
THEOREM PlanIsATree == PlanSpec => []PlanTopology
  BY PlanInvariance, PTL DEF IInv

\* For every archive and policy, a materialized hard link names a file that
\* the same plan materializes earlier (the committed set of plan_entry).
THEOREM LinksNameEarlierFiles == PlanSpec => []PlanLinksBack
  BY PlanInvariance, PTL DEF IInv
===========================================================================
