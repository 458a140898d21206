----------------------------- MODULE OciLayer -----------------------------
(***************************************************************************)
(* OciLayerApplier: one OCI image layer is planned, verified against its   *)
(* digests and applied through the cap-std adapter over a host tree that   *)
(* holds the lower layers.  A ".wh.a" entry takes "a" away and an opaque   *)
(* marker empties its parent directory.                                    *)
(*                                                                         *)
(* Paths are as in ExtractionPlan, whose sanitizing and claims the planner *)
(* shares.  WhiteoutOf is strip_prefix(".wh.") on the names of an archive. *)
(***************************************************************************)
EXTENDS ExtractionPlan, CapStdAdapter

CONSTANT WhiteoutOf          \* marker names to the names they delete

OpaqueMarker == ".wh..wh..opq"

VARIABLES symlinks,          \* destinations planned as symbolic links
          genuine,           \* the blob has the expected digests
          phase,             \* plan, verify, apply, finish, then ok or error
          read,              \* entries of the layer read in this pass
          ops,               \* operations of the plan taken so far
          active,            \* Active
          sent,              \* pieces of the current payload delivered
          outcomes,          \* what became of each operation
          findings,          \* kinds of the findings, with their operations
          lower              \* the host tree before the layer

driverVars == <<genuine, phase, read, ops, active, sent, outcomes, findings, lower>>
vars == <<world, planVars, symlinks, adapterVars, driverVars>>
NoneActive == "None"
ReaderMayFail == world.readerFails
---------------------------------------------------------------------------
\* classify: the marker in a raw path and the raw path that it is about.
Trimmed(raw) == IF Len(raw) > 1 /\ Last(raw) = "" THEN Front(raw) ELSE raw
IsEmpty(raw) == raw \in {<< >>, <<"">>}
Join(parent, child) == IF IsEmpty(parent) THEN <<child>> ELSE Append(parent, child)
Classify(raw) ==
  LET parent == Front(Trimmed(raw))
      name == Last(Trimmed(raw))
  IN CASE name = OpaqueMarker -> [marker |-> "OpaqueDir", raw |-> parent]
       [] name \in DOMAIN WhiteoutOf ->
            IF WhiteoutOf[name] = "" THEN [marker |-> "Unsafe", raw |-> << >>]
            ELSE [marker |-> "Whiteout", raw |-> Join(parent, WhiteoutOf[name])]
       [] OTHER -> [marker |-> "Regular", raw |-> raw]

IsStructuralSkip(e) == e.kind = "Dir" /\ IsRootName(e.path)
EscapesSymlink(dest) == Ancestors(dest) \cap symlinks # {}

\* plan_removal.
Removal(e, raw, marker) ==
  LET dest == Sanitize(raw)
  IN CASE IsEmpty(raw) -> Planned(e, marker, NoPath, NoPath)
       [] ~IsEmpty(raw) /\ dest = NoPath -> Planned(e, "UnsafePath", NoPath, NoPath)
       [] OTHER -> Planned(e, IF EscapesSymlink(dest) THEN "SymlinkEscape" ELSE marker, dest, NoPath)

\* plan_materialize.  The destination is claimed before the link target and
\* the kind are looked at, and stays claimed when one of them is refused.
Unclaimable(e) ==
  LET dest == Sanitize(e.path)
  IN CASE e.external -> "UnsupportedKind"
       [] ~e.external /\ dest = NoPath -> "UnsafePath"
       [] ~e.external /\ dest # NoPath /\ EscapesSymlink(dest) -> "SymlinkEscape"
       [] OTHER -> IF CanClaim(claims, dest, e.kind) THEN "No" ELSE "Duplicate"
Refused(e) ==
  CASE e.kind \in {"Symlink", "Hardlink"} ->
         IF ~(IF e.kind = "Symlink" THEN policy.symlinks ELSE policy.hardlinks) THEN "UnsupportedKind"
         ELSE IF LinkTarget(e, committed) = NoPath THEN "UnsafeLinkTarget" ELSE "No"
    [] e.kind = "Special" -> IF policy.specials /\ MakesSpecials THEN "No" ELSE "UnsupportedKind"
    [] OTHER -> "No"
Materialization(e) ==
  LET dest == Sanitize(e.path)
  IN IF Unclaimable(e) # "No" THEN Planned(e, Unclaimable(e), NoPath, NoPath)
     ELSE IF Refused(e) # "No" THEN Planned(e, Refused(e), dest, NoPath)
     ELSE Planned(e, "Materialize", dest,
                  IF e.kind \in {"Symlink", "Hardlink"} THEN LinkTarget(e, committed) ELSE NoPath)

Operation(e) ==
  LET c == Classify(e.path)
  IN CASE c.marker = "Unsafe" -> Planned(e, "UnsafePath", NoPath, NoPath)
       [] c.marker = "Regular" -> Materialization(e)
       [] OTHER -> Removal(e, c.raw, c.marker)
---------------------------------------------------------------------------
Init ==
  /\ PlanInit
  /\ AdapterInit
  /\ symlinks = {}
  /\ genuine \in BOOLEAN
  /\ phase = "plan"
  /\ read = 0
  /\ ops = 0
  /\ active = NoneActive
  /\ sent = 0
  /\ outcomes = << >>
  /\ findings = {}
  /\ lower = link

\* plan: the planner observes one entry.
ObserveSkip ==
  /\ phase = "plan" /\ read < Len(archive)
  /\ IsStructuralSkip(archive[read + 1])
  /\ read' = read + 1
  /\ UNCHANGED <<planVars, symlinks, adapterVars>>
  /\ UNCHANGED <<genuine, phase, ops, active, sent, outcomes, findings, lower>>
Observe ==
  /\ phase = "plan" /\ read < Len(archive)
  /\ LET e == archive[read + 1]
         o == Operation(e)
         claimed == Classify(e.path).marker = "Regular" /\ Unclaimable(e) = "No"
         kept(kinds, paths) ==
           IF o.disposition = "Materialize" /\ e.kind \in kinds THEN paths \cup {o.dest} ELSE paths
     IN /\ ~IsStructuralSkip(e)
        /\ planned' = Append(planned, o)
        /\ claims' = IF claimed THEN Claim(claims, o.dest, e.kind) ELSE claims
        /\ committed' = kept({"File", "Hardlink"}, committed)
        /\ symlinks' = kept({"Symlink"}, symlinks)
  /\ read' = read + 1
  /\ UNCHANGED <<archive, policy, adapterVars>>
  /\ UNCHANGED <<genuine, phase, ops, active, sent, outcomes, findings, lower>>
PlanDone ==
  /\ phase = "plan" /\ read = Len(archive)
  /\ phase' = "verify"
  /\ UNCHANGED <<planVars, symlinks, adapterVars>>
  /\ UNCHANGED <<genuine, read, ops, active, sent, outcomes, findings, lower>>

\* apply: the whole blob is hashed first, and only then the adapter begins.
AcceptAny == TRUE
Accept == genuine
Verify ==
  /\ phase = "verify"
  /\ \/ /\ Accept
        /\ phase' = "apply"
        /\ read' = 0
        /\ BeginSession
     \/ /\ ~Accept \/ ReaderMayFail
        /\ phase' = "error"
        /\ UNCHANGED <<read, adapterVars>>
  /\ UNCHANGED <<planVars, symlinks, genuine, ops, active, sent, outcomes, findings, lower>>

\* drive_apply.  A failure of the reader leaves the adapter as it is.
ReaderFails ==
  /\ ReaderMayFail
  /\ phase \in {"plan", "apply"} /\ step \in {"idle", "open"}
  /\ phase' = "error"
  /\ UNCHANGED <<planVars, symlinks, adapterVars>>
  /\ UNCHANGED <<genuine, read, ops, active, sent, outcomes, findings, lower>>

Payload == IF archive[read].kind = "File" THEN Chunks ELSE 0
StartSkip ==
  /\ phase = "apply" /\ active = NoneActive /\ read < Len(archive)
  /\ IsStructuralSkip(archive[read + 1])
  /\ active' = "Skip"
  /\ read' = read + 1
  /\ sent' = 0
  /\ UNCHANGED <<planVars, symlinks, adapterVars, genuine, phase, ops, outcomes, findings, lower>>
StartOperation ==
  /\ phase = "apply" /\ active = NoneActive /\ read < Len(archive)
  /\ ~IsStructuralSkip(archive[read + 1])
  /\ LET o == planned[ops + 1]
     IN /\ active' = o.disposition
        /\ IF o.disposition = "Materialize"
           THEN BeginEntry([id |-> ops + 1, kind |-> o.kind, dest |-> o.dest, target |-> o.target,
                            overwrite |-> policy.overwrite, mode |-> archive[read + 1].mode])
           ELSE UNCHANGED adapterVars
  /\ ops' = ops + 1
  /\ read' = read + 1
  /\ sent' = 0
  /\ UNCHANGED <<planVars, symlinks, genuine, phase, outcomes, findings, lower>>
ReadData ==
  /\ phase = "apply" /\ active # NoneActive
  /\ sent < Payload
  /\ sent' = sent + 1
  /\ IF active = "Materialize" THEN WriteData ELSE UNCHANGED adapterVars
  /\ UNCHANGED <<planVars, symlinks, genuine, phase, read, ops, active, outcomes, findings, lower>>

\* finish_operation.
Ended(outcome, kinds) ==
  /\ outcomes' = Append(outcomes, outcome)
  /\ findings' = findings \cup {<<ops, k>> : k \in kinds}
  /\ active' = NoneActive
  /\ UNCHANGED <<planVars, symlinks, genuine, phase, read, ops, sent, lower>>
EndSkip ==
  /\ phase = "apply" /\ active = "Skip" /\ sent = Payload
  /\ active' = NoneActive
  /\ UNCHANGED <<planVars, symlinks, adapterVars, genuine, phase, read, ops, sent, outcomes, findings, lower>>
EndReject ==
  /\ phase = "apply"
  /\ active \notin {NoneActive, "Skip", "Materialize", "Whiteout", "OpaqueDir"}
  /\ sent = Payload
  /\ Ended("Rejected", {"Refused"})
  /\ UNCHANGED adapterVars
EndEntry ==
  /\ phase = "apply" /\ active = "Materialize" /\ sent = Payload
  /\ FinishEntry
  /\ UNCHANGED <<planVars, symlinks, driverVars>>
TakeReport ==
  /\ phase = "apply" /\ step = "report"
  /\ Ended(report.mat, {f[2] : f \in report.found})
  /\ step' = "idle"
  /\ UNCHANGED <<link, node, pending, created, dirMeta, counter, report, moves, leaked>>
RemovalKinds == report'.found
EndWhiteout ==
  /\ phase = "apply" /\ active = "Whiteout" /\ sent = Payload
  /\ RemovePath(planned[ops].dest)
  /\ Ended("Removed", RemovalKinds)
EndOpaqueRemoving ==
  /\ phase = "apply" /\ active = "OpaqueDir" /\ sent = Payload
  /\ planned[ops].dest # NoPath
  /\ RemovePath(planned[ops].dest)
  /\ Ended("Cleared", RemovalKinds)
EndOpaque ==
  /\ phase = "apply" /\ active = "OpaqueDir" /\ sent = Payload
  /\ ClearDirectory(planned[ops].dest)
  /\ Ended("Cleared", RemovalKinds)

ReadDone ==
  /\ phase = "apply" /\ active = NoneActive /\ read = Len(archive)
  /\ FinishSession
  /\ phase' = "finish"
  /\ UNCHANGED <<planVars, symlinks, genuine, read, ops, active, sent, outcomes, findings, lower>>
Finish ==
  /\ phase = "finish" /\ SessionFinished
  /\ findings' = findings \cup {<<f[1], f[3]>> : f \in report.found}
  /\ phase' = "ok"
  /\ UNCHANGED <<planVars, symlinks, adapterVars, genuine, read, ops, active, sent, outcomes, lower>>

Step ==
  \/ ObserveSkip \/ Observe \/ PlanDone \/ Verify \/ ReaderFails
  \/ StartSkip \/ StartOperation \/ ReadData
  \/ EndSkip \/ EndReject \/ EndEntry \/ TakeReport \/ EndWhiteout \/ EndOpaque
  \/ ReadDone \/ Finish
  \/ (AdapterStep /\ UNCHANGED <<planVars, symlinks, driverVars>>)
Next == Step /\ UNCHANGED world
Spec == Init /\ [][Next]_vars
---------------------------------------------------------------------------
Own(id) == id # NoNode /\ node[id].by # 0
Child(l, d, n) == IF d # NoNode /\ <<d, n>> \in DOMAIN l THEN l[<<d, n>>] ELSE NoNode
Find(l, path) == FoldLeft(LAMBDA d, n : Child(l, d, n), Root, path)
IsTemp(name) == \E n \in DOMAIN TempNames : TempNames[n] = name
Names == {k[2] : k \in DOMAIN lower}
LowerPaths == {p \in UNION {[1 .. n -> Names] : n \in 1 .. 2} : Find(lower, p) # NoNode}

\* Operation o takes away what path named before it.
Covers(o, path) ==
  \/ o.disposition = "Whiteout" /\ IsPrefix(o.dest, path)
  \/ o.disposition = "OpaqueDir" /\ IsStrictPrefix(o.dest, path)
Replaced(o, path) ==
  o.disposition = "Materialize" /\ o.kind = "File" /\ policy.overwrite /\ o.dest = path

\* An object of the lower layers goes away only when an operation taken so far
\* names it: a whiteout of it or of a directory above it, an opaque marker
\* above it, or a file that the policy lets replace it.  Failures included.
\* And the host is left as it was unless the blob has the expected digests:
\* apply hashes the whole blob before begin_session.
LowerKept ==
  /\ \A p \in LowerPaths :
       \/ Find(link, p) = Find(lower, p)
       \/ \E i \in 1 .. ops : Covers(planned[i], p) \/ Replaced(planned[i], p)
  /\ ~genuine => link = lower /\ \A id \in DOMAIN node : node[id].by = 0

\* A clean report means the overlay that the layer describes: every object of
\* the lower layers that an operation names is gone or replaced, and every
\* entry that no later operation takes away is on the host.
CleanMeansOverlay ==
  (phase = "ok" /\ \A f \in findings : f[2] = "Applied") =>
    /\ \A p \in LowerPaths :
         (\E i \in 1 .. ops : Covers(planned[i], p) \/ Replaced(planned[i], p)) =>
           Find(link, p) # Find(lower, p)
    /\ \A i \in 1 .. ops :
         (planned[i].disposition = "Materialize" /\ \A j \in i + 1 .. ops : ~Covers(planned[j], planned[i].dest))
           => Own(Find(link, planned[i].dest))

===========================================================================
