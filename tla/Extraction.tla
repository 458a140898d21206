---------------------------- MODULE Extraction ----------------------------
(***************************************************************************)
(* ArchiveSession::plan followed by apply: the driver replays the snapshot *)
(* and hands every entry that the plan materializes to the cap-std         *)
(* adapter, which works on a host tree that other processes use too.       *)
(***************************************************************************)
EXTENDS ExtractionPlan, CapStdAdapter

VARIABLES phase,             \* plan, apply, finish, then ok or error
          seen,              \* entries_seen
          current,           \* CurrentEntry
          sent,              \* pieces of the current payload delivered
          outcomes,          \* the ExtractionReport
          findings,          \* FilesystemFinding: path, operation and kind
          done               \* committed_files

driverVars == <<phase, seen, current, sent, outcomes, findings, done>>
vars == <<world, planVars, adapterVars, driverVars>>

NoCurrent == "none"
---------------------------------------------------------------------------
Requests(e) == {"Entry"} \cup (IF e.kind = "File" THEN {"Commit"} ELSE {})
               \cup (IF e.mode = "none" THEN {} ELSE {"Mode"})
               \cup (IF e.flags THEN {"Flags"} ELSE {})
Supports(operation) == operation # "Flags"
Note(e, operations, kind) == {<<e.path, o, kind>> : o \in operations}
Payload(e) == IF e.kind = "File" THEN Chunks ELSE 0
Entry == archive[seen]       \* the entry that is being replayed

Init ==
  /\ PlanInit
  /\ AdapterInit
  /\ phase = "plan"
  /\ seen = 0
  /\ current = NoCurrent
  /\ sent = 0
  /\ outcomes = << >>
  /\ findings = {}
  /\ done = {}

Plan ==
  /\ phase = "plan"
  /\ PlanNext
  /\ UNCHANGED <<adapterVars, driverVars>>

Apply ==
  /\ phase = "plan"
  /\ Len(planned) = Len(archive)
  /\ phase' = "apply"
  /\ BeginSession
  /\ UNCHANGED <<planVars, seen, current, sent, outcomes, findings, done>>

\* start_entry, for an entry that is skipped or rejected...
RejectedFindings(e) == Note(e, Requests(e), "Refused")
LinkReady(p) == p.kind = "Hardlink" => p.target \in done
StartUnmaterialized ==
  /\ phase = "apply" /\ current = NoCurrent /\ step = "idle"
  /\ seen < Len(archive)
  /\ seen' = seen + 1
  /\ sent' = 0
  /\ LET e == archive[seen + 1]
         p == planned[seen + 1]
     IN \/ /\ p.disposition = "Skip"
           /\ current' = "Skipped"
           /\ findings' = findings \cup Note(e, {"Entry"}, "Applied")
        \/ /\ p.disposition \notin {"Skip", "Materialize"}
           /\ current' = p.disposition
           /\ findings' = findings \cup RejectedFindings(e)
        \/ /\ p.disposition = "Materialize" /\ ~LinkReady(p)
           /\ current' = "UnsafeLinkTarget"
           /\ findings' = findings \cup RejectedFindings(e)
  /\ UNCHANGED <<planVars, adapterVars, phase, outcomes, done>>

\* ... and for one that the adapter materializes.
StartEntry ==
  /\ phase = "apply" /\ current = NoCurrent
  /\ seen < Len(archive)
  /\ LET e == archive[seen + 1]
         p == planned[seen + 1]
     IN /\ p.disposition = "Materialize" /\ LinkReady(p)
        /\ findings' = findings \cup Note(e, {o \in Requests(e) : ~Supports(o)}, "Unsupported")
        /\ BeginEntry([id |-> seen + 1, kind |-> p.kind, dest |-> p.dest, target |-> p.target,
                       overwrite |-> policy.overwrite, mode |-> e.mode])
  /\ current' = "Materializing"
  /\ seen' = seen + 1
  /\ sent' = 0
  /\ UNCHANGED <<planVars, phase, outcomes, done>>

ReadData ==
  /\ phase = "apply" /\ current # NoCurrent
  /\ sent < Payload(Entry)
  /\ sent' = sent + 1
  /\ IF current = "Materializing" THEN WriteData ELSE UNCHANGED adapterVars
  /\ UNCHANGED <<planVars, phase, seen, current, outcomes, findings, done>>

\* end_entry of an entry that was not materialized...
EndUnmaterialized ==
  /\ phase = "apply" /\ current \notin {NoCurrent, "Materializing"}
  /\ sent = Payload(Entry)
  /\ outcomes' = Append(outcomes, current)
  /\ current' = NoCurrent
  /\ UNCHANGED <<planVars, adapterVars, phase, seen, sent, findings, done>>

\* ... and of one that was: finish_entry is called and its report taken.
EndEntry ==
  /\ phase = "apply" /\ current = "Materializing"
  /\ sent = Payload(Entry)
  /\ FinishEntry
  /\ UNCHANGED <<planVars, driverVars>>

\* fill_missing_findings completes the report of an entry that failed.
Filled(e, found) ==
  found \cup {<<o, "Refused">> : o \in {r \in Requests(e) : \A f \in found : f[1] # r}}
TakeReport ==
  /\ phase = "apply" /\ step = "report"
  /\ LET unmade == report.mat \in {"DestinationExists", "Failed"}
         found == IF unmade THEN Filled(Entry, report.found) ELSE report.found
     IN /\ findings' = findings \cup {<<Entry.path, f[1], f[2]>> : f \in found}
        /\ done' = IF report.mat \in {"File", "Hardlink"} THEN done \cup {planned[seen].dest} ELSE done
        /\ outcomes' = Append(outcomes, IF report.mat = "Failed" THEN "FilesystemError" ELSE report.mat)
  /\ current' = NoCurrent
  /\ step' = "idle"
  /\ UNCHANGED <<planVars, phase, seen, sent>>
  /\ UNCHANGED <<link, node, pending, created, dirMeta, counter, report, moves, leaked>>

\* The reader fails before its next event: the driver aborts the entry.
ReaderFails ==
  /\ phase = "apply" /\ step \in {"idle", "open"}
  /\ world.readerFails
  /\ AbortEntry
  /\ phase' = "error"
  /\ UNCHANGED <<planVars, seen, current, sent, outcomes, findings, done>>

ReadDone ==
  /\ phase = "apply" /\ current = NoCurrent
  /\ seen = Len(archive)
  /\ FinishSession
  /\ phase' = "finish"
  /\ UNCHANGED <<planVars, seen, current, sent, outcomes, findings, done>>

\* The rest of finish: what was asked for and never reported is partial.
Unreported(found) ==
  UNION {{<<e.path, o, "Partial">> : o \in {r \in Requests(e) : \A f \in found : ~(f[1] = e.path /\ f[2] = r)}} :
         e \in {archive[i] : i \in DOMAIN archive}}
Finish ==
  /\ phase = "finish" /\ SessionFinished
  /\ LET found == findings \cup {<<archive[f[1]].path, f[2], f[3]>> : f \in report.found}
     IN findings' = found \cup Unreported(found)
  /\ phase' = "ok"
  /\ UNCHANGED <<planVars, adapterVars, seen, current, sent, outcomes, done>>
---------------------------------------------------------------------------
\* A step of the extraction itself.
Extract ==
  \/ Plan \/ Apply
  \/ StartUnmaterialized \/ StartEntry \/ ReadData \/ EndUnmaterialized \/ EndEntry
  \/ TakeReport \/ ReaderFails \/ ReadDone \/ Finish
  \/ (AdapterStep /\ UNCHANGED <<planVars, driverVars>>)
\* A step of another process, while the adapter works.
Other == phase \in {"apply", "finish"} /\ (OtherMakes \/ OtherTakes) /\ UNCHANGED <<planVars, driverVars>>
Next == (Extract \/ Other) /\ UNCHANGED world
Spec == Init /\ [][Next]_vars
---------------------------------------------------------------------------
Own(id) == node[id].by # 0
\* What a path below the root names, whatever the permissions.
Child(d, n) == IF d # NoNode /\ Exists(d, n) THEN link[<<d, n>>] ELSE NoNode
At(path) == FoldLeft(Child, Root, path)
IsTemp(name) == \E n \in DOMAIN TempNames : TempNames[n] = name

\* The extraction never takes away, replaces or changes an object that it did
\* not make, with three exceptions.  A policy with overwrite lets the publication
\* of a file replace a regular file (or what another process put there since
\* destination_available looked): without it commit_file publishes with an
\* exclusive hard link.  finish_session finds its directories by path, so it
\* sets the mode of a directory that another process put in place of one.  And
\* restrict_directory takes a name, so it makes private what another process
\* put in place of the directory that was just made.
HostObjectsKept ==
  [][moves' = moves =>
     /\ \A id \in DOMAIN node : ~Own(id) =>
          \/ node'[id] = node[id]
          \/ step = "metadata" /\ node[id].type = "dir" /\ moves > 0
          \/ /\ step = "restrict" /\ id = link[<<pending.at, Component>>] /\ moves > 0
             /\ node'[id] = [node[id] EXCEPT !.mode = "private"]
     /\ \A k \in DOMAIN link : ~Own(link[k]) =>
          \/ k \in DOMAIN link' /\ link'[k] = link[k]
          \/ /\ policy.overwrite /\ step = "publish" /\ k = <<pending.at, Name>>
             /\ node[link[k]].type = "file" \/ moves > 0]_vars

\* What the extraction makes is a whole entry inside the root, or nothing.
\* A file appears under a name of the archive only with its whole payload.
\* When apply has returned, with a report or with an error, no temporary file
\* is left except those whose removal the host refused: commit_file and
\* abort_entry remove it on every path.  And nothing is made outside the root,
\* even when another process replaces a directory of the extraction by a
\* symbolic link: parents are opened without following links and the opened
\* directory is kept until the commit.
WholeEntriesOnly ==
  \A k \in DOMAIN link : Own(link[k]) =>
    /\ k[1] # Outside
    /\ IF IsTemp(k[2]) THEN phase \in {"ok", "error"} => k \in leaked
       ELSE node[link[k]].type = "file" => node[link[k]].data = Chunks

\* The report tells what is on the host when no other process interfered: a
\* file has its own payload, a hard link is the node its target names, and an
\* entry that was refused or failed left no file or link of its own.
ReportIsTrue ==
  (phase = "ok" /\ moves = 0) =>
    \A i \in DOMAIN archive :
      LET id == At(planned[i].dest)
      IN CASE outcomes[i] = "File" -> node[id].type = "file" /\ node[id].by = i
           [] outcomes[i] = "Directory" -> node[id].type = "dir" /\ Own(id)
           [] outcomes[i] = "Symlink" -> node[id].type = "symlink" /\ node[id].by = i
           [] outcomes[i] = "Special" -> node[id].type = "special" /\ node[id].by = i
           [] outcomes[i] = "Hardlink" ->
                node[id].type = "file" /\ Own(id) /\ id = At(planned[i].target)
           [] OTHER -> \A k \in DOMAIN link \ leaked :
                         node[link[k]].by = i => node[link[k]].type = "dir"

\* Every directory of the archive ends with the mode its entry asks for, even
\* one below a directory that loses its search permission: finish_session
\* applies the modes from the deepest directory up.
DirectoryModes ==
  (phase = "ok" /\ moves = 0 /\ ~Faulty) =>
    \A i \in DOMAIN archive :
      (outcomes[i] = "Directory" /\ archive[i].mode # "none") => node[At(planned[i].dest)].mode = archive[i].mode

===========================================================================
