-------------------------- MODULE ExtractionPlan --------------------------
(***************************************************************************)
(* The whole-archive preflight of ArchiveSession::plan: every entry's raw  *)
(* path is sanitized into a relative destination, claimed in the session's *)
(* destination topology (DestinationClaims) and given a disposition by     *)
(* plan_entry, in archive order and before the filesystem is touched.      *)
(*                                                                         *)
(* A raw path is the sequence of its components between slashes, so "./a"  *)
(* is <<".", "a">> and "/a" is <<"", "a">>.  A destination is the sequence *)
(* of the components that are left, and NoPath stands for None.            *)
(***************************************************************************)
EXTENDS Naturals, Sequences

CONSTANTS Entries,           \* the entries an archive may hold
          MaxEntries,        \* bound on the length of an archive
          MakesSpecials      \* the host restores special files (Linux, Android)

ASSUME PlanAssumption ==
  /\ MaxEntries \in Nat
  /\ MakesSpecials \in BOOLEAN
  /\ \A e \in Entries : e.path \in Seq(STRING) /\ e.target \in Seq(STRING)

Policies == [overwrite : BOOLEAN, symlinks : BOOLEAN, hardlinks : BOOLEAN, specials : BOOLEAN]
NoPath == << >>

VARIABLES archive,           \* the entries of the snapshot, in archive order
          policy,            \* the Policy the caller plans with
          planned,           \* the PlannedEntry of each entry planned so far
          claims,            \* DestinationClaims
          committed          \* destinations that the plan commits as files

planVars == <<archive, policy, planned, claims, committed>>
---------------------------------------------------------------------------
\* Paths.  The mutated form of an operator stands before it.
Normal(component) == component \notin {"", "."}
Absolute(raw) == Len(raw) > 1 /\ raw[1] = ""
Climbs(raw) == \E i \in DOMAIN raw : raw[i] = ".."
Sanitize(raw) == IF Absolute(raw) \/ Climbs(raw) THEN NoPath ELSE SelectSeq(raw, Normal)
IsRootName(raw) == raw \in {<<".">>, <<".", "">>}
Ancestors(path) == {SubSeq(path, 1, n) : n \in 1 .. (Len(path) - 1)}

\* Claims.
NoClaims == [claimed |-> {}, prefixes |-> {}, files |-> {}]
CanClaimOverPrefix(c, path, kind) ==
  /\ path \notin c.claimed
  /\ Ancestors(path) \cap c.files = {}
CanClaimTwice(c, path, kind) ==
  /\ Ancestors(path) \cap c.files = {}
  /\ (kind = "Dir") \/ (path \notin c.prefixes)
CanClaim(c, path, kind) ==
  /\ path \notin c.claimed
  /\ Ancestors(path) \cap c.files = {}
  /\ (kind = "Dir") \/ (path \notin c.prefixes)
Claim(c, path, kind) ==
  [claimed  |-> c.claimed \cup {path},
   prefixes |-> c.prefixes \cup Ancestors(path),
   files    |-> IF kind = "Dir" THEN c.files ELSE c.files \cup {path}]
---------------------------------------------------------------------------
\* plan_entry.
Planned(e, disposition, dest, target) ==
  [kind |-> e.kind, disposition |-> disposition, dest |-> dest, target |-> target]

LinkTargetUnchecked(e, done) == Sanitize(e.target)
LinkTarget(e, done) ==
  LET target == Sanitize(e.target)
  IN IF e.kind = "Hardlink" /\ target \notin done THEN NoPath ELSE target

\* The disposition of an entry whose destination has been claimed.
Disposed(e, p, done) ==
  CASE e.kind \in {"File", "Dir"} -> "Materialize"
    [] \/ (e.kind = "Symlink" /\ p.symlinks)
       \/ (e.kind = "Hardlink" /\ p.hardlinks)
         -> IF LinkTarget(e, done) = NoPath THEN "UnsafeLinkTarget" ELSE "Materialize"
    [] e.kind = "Special" /\ p.specials
         -> IF MakesSpecials THEN "Materialize" ELSE "UnsupportedRestore"
    [] OTHER -> "EntryKind"

PlanEntry(e, p, c, done) ==
  LET dest == Sanitize(e.path)
      disposition == Disposed(e, p, done)
  IN CASE e.external -> Planned(e, "ExternalReference", NoPath, NoPath)
       [] ~e.external /\ e.kind = "Dir" /\ IsRootName(e.path) -> Planned(e, "Skip", NoPath, NoPath)
       [] ~e.external /\ ~(e.kind = "Dir" /\ IsRootName(e.path)) /\ dest = NoPath
            -> Planned(e, "UnsafePath", NoPath, NoPath)
       [] ~e.external /\ dest # NoPath /\ ~CanClaim(c, dest, e.kind)
            -> Planned(e, "DestinationCollision", dest, NoPath)
       [] OTHER -> Planned(e, disposition, dest,
                           IF disposition = "Materialize" /\ e.kind \in {"Symlink", "Hardlink"}
                           THEN LinkTarget(e, done) ELSE NoPath)

ClaimsAfter(entry) ==
  IF entry.disposition \in {"ExternalReference", "Skip", "UnsafePath", "DestinationCollision"}
  THEN claims ELSE Claim(claims, entry.dest, entry.kind)
CommittedAfter(entry) ==
  IF entry.disposition = "Materialize" /\ entry.kind \in {"File", "Hardlink"}
  THEN committed \cup {entry.dest} ELSE committed
---------------------------------------------------------------------------
PlanInit ==
  /\ archive \in UNION {[1 .. n -> Entries] : n \in 0 .. MaxEntries}
  /\ policy \in Policies
  /\ planned = << >>
  /\ claims = NoClaims
  /\ committed = {}

PlanNext ==
  /\ Len(planned) < Len(archive)
  /\ LET entry == PlanEntry(archive[Len(planned) + 1], policy, claims, committed)
     IN /\ planned' = Append(planned, entry)
        /\ claims' = ClaimsAfter(entry)
        /\ committed' = CommittedAfter(entry)
  /\ UNCHANGED <<archive, policy>>

PlanSpec == PlanInit /\ [][PlanNext]_planVars
---------------------------------------------------------------------------
Materialized == {i \in DOMAIN planned : planned[i].disposition = "Materialize"}

\* Two entries that the plan materializes never name the same destination,
\* and only a directory lies above another one: plan_entry and
\* DestinationClaims::claim refuse an alias, a file used as a directory, and
\* a file that would replace a directory made for an earlier descendant.
PlanTopology ==
  \A i, j \in Materialized : i # j =>
    /\ planned[i].dest # planned[j].dest
    /\ planned[i].dest \in Ancestors(planned[j].dest) => planned[i].kind = "Dir"

\* A hard link that the plan materializes names the destination of a file or
\* a hard link that the plan materializes earlier: plan_entry looks the target
\* up in the destinations committed so far.
PlanLinksBack ==
  \A i \in Materialized : planned[i].kind = "Hardlink" =>
    \E j \in Materialized : /\ j < i
                            /\ planned[j].kind \in {"File", "Hardlink"}
                            /\ planned[j].dest = planned[i].target
===========================================================================
