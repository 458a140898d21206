--------------------------- MODULE CapStdAdapter ---------------------------
(***************************************************************************)
(* CapStdFilesystemAdapter: entries are materialized below a directory     *)
(* capability while other processes use the same host tree.                *)
(*                                                                         *)
(* The host is a set of directory links, <<directory, name>> to the number *)
(* of a node.  Each step below is one system call, or a group of calls     *)
(* whose interruption changes nothing that is modelled; between two steps  *)
(* another process may add or take away a name.  An entry is a record of   *)
(* its number, kind, destination, link target, overwrite flag and mode.    *)
(***************************************************************************)
EXTENDS Naturals, Sequences, FiniteSets, SequencesExt

CONSTANTS Hosts,             \* initial host trees, records of link and node
          TempNames,         \* the names create_temporary_sibling tries, in order
          Chunks,            \* pieces in which a file's payload arrives
          Worlds,            \* how the host behaves: faulty, readerFails, moves
          HostNames          \* the names other processes use

ASSUME AdapterAssumption ==
  /\ Chunks \in Nat
  /\ Worlds \subseteq [faulty : BOOLEAN, readerFails : BOOLEAN, moves : Nat]

Root == 1
Outside == 2                 \* a directory that no path below Root names
NoNode == 0

VARIABLES world,             \* the kind of host, which never changes
          link,              \* the directory entries of the host
          node,              \* the nodes, in the order they were made
          pending,           \* PendingEntry
          created,           \* created_directories
          dirMeta,           \* directory_metadata: destination to (entry, mode)
          counter,           \* temporary_counter
          step,              \* where the adapter is
          report,            \* what finish_entry or finish_session returned
          moves,             \* what other processes did so far
          leaked             \* temporary names whose removal failed

host == <<link, node>>
Faulty == world.faulty       \* system calls may fail
MaxMoves == world.moves      \* bound on what other processes do
adapterVars == <<link, node, pending, created, dirMeta, counter, step, report, moves, leaked>>
---------------------------------------------------------------------------
\* The host tree.
Node(type, by, mode) == [type |-> type, by |-> by, data |-> 0, mode |-> mode]
Exists(d, n) == <<d, n>> \in DOMAIN link
TypeAt(d, n) == IF Exists(d, n) THEN node[link[<<d, n>>]].type ELSE "none"
WithLink(l, d, n, id) == [k \in DOMAIN l \cup {<<d, n>>} |-> IF k = <<d, n>> THEN id ELSE l[k]]
WithoutLink(l, d, n) == [k \in DOMAIN l \ {<<d, n>>} |-> l[k]]
NextNode == Len(node) + 1

\* open_dir_nofollow; a directory without search permission opens nothing.
OpenDirFollowing(d, n) ==
  CASE TypeAt(d, n) = "dir" -> link[<<d, n>>]
    [] TypeAt(d, n) = "symlink" -> Outside
    [] OTHER -> NoNode
OpenDir(d, n) ==
  IF d # NoNode /\ node[d].mode # "closed" /\ TypeAt(d, n) = "dir" THEN link[<<d, n>>] ELSE NoNode
OpenDirChain(path) == FoldLeft(OpenDir, Root, path)

WithMeta(m, path, e) == [q \in DOMAIN m \cup {path} |-> IF q = path THEN e ELSE m[q]]
NoEntry == [mat |-> "None"]
Parent(path) == SubSeq(path, 1, Len(path) - 1)
---------------------------------------------------------------------------
AdapterInit ==
  /\ world \in Worlds
  /\ \E h \in Hosts : link = h.link /\ node = h.node
  /\ pending = NoEntry
  /\ created = {}
  /\ dirMeta = << >>
  /\ counter = 0
  /\ step = "idle"
  /\ report = [mat |-> "None", found |-> {}]
  /\ moves = 0
  /\ leaked = {}

\* remove_file on a temporary; its error is dropped.
Removed(l, d, n) == {WithoutLink(l, d, n)} \cup (IF Faulty THEN {l} ELSE {})
RemoveTemp(p) ==
  /\ link' \in Removed(link, p.at, p.temp)
  /\ leaked' = IF <<p.at, p.temp>> \in DOMAIN link' THEN leaked \cup {<<p.at, p.temp>>} ELSE leaked

AbortEntryKeeping ==
  /\ pending' = NoEntry
  /\ step' = "idle"
  /\ UNCHANGED <<link, leaked, node, created, dirMeta, counter, report, moves>>
AbortEntry ==
  /\ IF pending.mat = "File" THEN RemoveTemp(pending) ELSE UNCHANGED <<link, leaked>>
  /\ pending' = NoEntry
  /\ step' = "idle"
  /\ UNCHANGED <<node, created, dirMeta, counter, report, moves>>

BeginSession ==
  /\ IF pending.mat = "File" THEN RemoveTemp(pending) ELSE UNCHANGED <<link, leaked>>
  /\ pending' = NoEntry
  /\ created' = {}
  /\ dirMeta' = << >>
  /\ counter' = 0
  /\ step' = "idle"
  /\ UNCHANGED <<node, report, moves>>

BeginEntry(e) ==
  /\ step = "idle"
  /\ pending.mat = "None"
  /\ pending' = [mat |-> "Preparing", entry |-> e, at |-> Root, depth |-> 0,
                 temp |-> "", file |-> NoNode, failed |-> FALSE]
  /\ step' = "resolve"
  /\ UNCHANGED <<link, node, created, dirMeta, counter, report, moves, leaked>>

\* The preparation ends and begin_entry returns: the entry is pending as mat.
Prepared(mat) == pending' = [pending EXCEPT !.mat = mat] /\ step' = "open"
---------------------------------------------------------------------------
\* begin_entry: resolve_destination, one parent component at a time.
Dest == pending.entry.dest
Name == Dest[Len(Dest)]
Component == Dest[pending.depth + 1]
Resolved == SubSeq(Dest, 1, pending.depth + 1)
Enter(d) ==
  /\ pending' = [pending EXCEPT !.at = d, !.depth = pending.depth + 1]
  /\ step' = "resolve"

Resolve ==
  LET child == OpenDir(pending.at, Component)
  IN /\ step = "resolve"
     /\ pending.depth + 1 < Len(Dest)
     /\ \/ /\ Resolved \in created
           /\ IF child # NoNode THEN Enter(child) ELSE Prepared("Failed")
        \/ /\ Resolved \notin created /\ Exists(pending.at, Component)
           /\ Prepared("DestinationExists")
        \/ /\ Resolved \notin created /\ ~Exists(pending.at, Component)
           /\ step' = "create" /\ UNCHANGED pending
        \/ Faulty /\ Prepared("Failed")
     /\ UNCHANGED <<link, node, created, dirMeta, counter, report, moves, leaked>>

\* A directory is made, restricted and opened in three calls that each take
\* its name: a parent in resolve_destination, the entry's own directory in
\* prepare_directory.
CreateDir ==
  /\ step = "create" \/ (step = "prepare" /\ pending.entry.kind = "Dir")
  /\ \/ /\ ~Exists(pending.at, Component)
        /\ node' = Append(node, Node("dir", pending.entry.id, "open"))
        /\ link' = WithLink(link, pending.at, Component, NextNode)
        /\ step' = "restrict" /\ UNCHANGED pending
     \/ /\ Exists(pending.at, Component) \/ Faulty
        /\ Prepared("Failed") /\ UNCHANGED host
  /\ UNCHANGED <<created, dirMeta, counter, report, moves, leaked>>

\* restrict_directory (Unix) changes whatever has the name by now; a symbolic
\* link another process put there leads out of the capability and is refused.
RestrictDir ==
  /\ step = "restrict"
  /\ \/ /\ TypeAt(pending.at, Component) \notin {"none", "symlink"}
        /\ node' = [node EXCEPT ![link[<<pending.at, Component>>]].mode = "private"]
        /\ step' = "enter" /\ UNCHANGED pending
     \/ /\ TypeAt(pending.at, Component) \in {"none", "symlink"} \/ Faulty
        /\ Prepared("Failed") /\ UNCHANGED node
  /\ UNCHANGED <<link, created, dirMeta, counter, report, moves, leaked>>

EnterDir ==
  LET child == OpenDir(pending.at, Component)
  IN /\ step = "enter"
     /\ \/ /\ child # NoNode
           /\ created' = created \cup {Resolved}
           /\ IF pending.depth + 1 < Len(Dest) THEN Enter(child) /\ UNCHANGED dirMeta
              ELSE Prepared("Directory") /\ dirMeta' = WithMeta(dirMeta, Dest, pending.entry)
        \/ /\ child = NoNode \/ Faulty
           /\ Prepared("Failed") /\ UNCHANGED <<created, dirMeta>>
     /\ UNCHANGED <<link, node, counter, report, moves, leaked>>

\* reuse_directory: a directory entry for a directory of this session.
Reuse ==
  /\ step = "resolve" /\ pending.depth + 1 = Len(Dest)
  /\ pending.entry.kind = "Dir" /\ Dest \in created
  /\ IF OpenDir(pending.at, Name) # NoNode
     THEN /\ dirMeta' = WithMeta(dirMeta, Dest, pending.entry)
          /\ Prepared("Directory")
     ELSE Prepared("Failed") /\ UNCHANGED dirMeta
  /\ UNCHANGED <<link, node, created, counter, report, moves, leaked>>

\* destination_available.
Available ==
  \/ ~Exists(pending.at, Name)
  \/ /\ pending.entry.kind = "File" /\ pending.entry.overwrite
     /\ TypeAt(pending.at, Name) = "file"
CheckDestination ==
  /\ step = "resolve" /\ pending.depth + 1 = Len(Dest)
  /\ ~(pending.entry.kind = "Dir" /\ Dest \in created)
  /\ \/ Available /\ step' = "prepare" /\ UNCHANGED pending
     \/ ~Available /\ Prepared("DestinationExists")
     \/ Faulty /\ Prepared("Failed")
  /\ UNCHANGED <<link, node, created, dirMeta, counter, report, moves, leaked>>

\* prepare_file with create_temporary_sibling: the first free name after the
\* counter is created exclusively.
FreeTemps == {n \in counter + 1 .. Len(TempNames) : ~Exists(pending.at, TempNames[n])}
PrepareFile ==
  /\ step = "prepare" /\ pending.entry.kind = "File"
  /\ \/ \E n \in FreeTemps :
          /\ \A k \in FreeTemps : n <= k
          /\ counter' = n
          /\ node' = Append(node, Node("file", pending.entry.id, "private"))
          /\ link' = WithLink(link, pending.at, TempNames[n], NextNode)
          /\ pending' = [pending EXCEPT !.mat = "File", !.temp = TempNames[n], !.file = NextNode]
     \/ /\ Faulty \/ FreeTemps = {}
        /\ counter' = IF FreeTemps = {} THEN Len(TempNames) ELSE counter + 1
        /\ pending' = [pending EXCEPT !.mat = "Failed"]
        /\ UNCHANGED host
  /\ step' = "open"
  /\ UNCHANGED <<created, dirMeta, report, moves, leaked>>

\* prepare_kind for links and special files: nothing is made before commit.
PrepareOther ==
  /\ step = "prepare" /\ pending.entry.kind \in {"Symlink", "Hardlink", "Special"}
  /\ Prepared(pending.entry.kind)
  /\ UNCHANGED <<link, node, created, dirMeta, counter, report, moves, leaked>>
---------------------------------------------------------------------------
\* write_data: a failed file takes no more bytes.
WriteData ==
  /\ step = "open"
  /\ \/ /\ pending.mat = "File" /\ ~pending.failed
        /\ node' = [node EXCEPT ![pending.file].data = @ + 1]
        /\ UNCHANGED pending
     \/ /\ pending.mat = "File" /\ ~pending.failed /\ Faulty
        /\ pending' = [pending EXCEPT !.failed = TRUE]
        /\ UNCHANGED node
     \/ /\ pending.mat # "File" \/ pending.failed
        /\ UNCHANGED <<node, pending>>
  /\ UNCHANGED <<link, created, dirMeta, counter, step, report, moves, leaked>>
---------------------------------------------------------------------------
\* finish_entry takes the pending entry; what it finds is reported.
FinishEntry ==
  /\ step = "open"
  /\ step' = "commit"
  /\ UNCHANGED <<link, node, pending, created, dirMeta, counter, report, moves, leaked>>

Reports(mat, found) ==
  /\ report' = [mat |-> mat, found |-> found]
  /\ pending' = NoEntry
  /\ step' = "report"

\* Materializations with nothing left to do on the host.
CommitSettled ==
  /\ step = "commit"
  /\ \/ pending.mat = "Directory" /\ Reports("Directory", {<<"Entry", "Applied">>})
     \/ pending.mat = "DestinationExists" /\ Reports("DestinationExists", {<<"Entry", "Refused">>})
     \/ pending.mat = "Failed" /\ Reports("Failed", {<<"Entry", "OsError">>})
  /\ UNCHANGED <<link, node, created, dirMeta, counter, moves, leaked>>

\* commit_file up to the publication: flush, metadata and sync_all.
CommitFailsNever == FALSE
CommitFails == pending.failed
ModeFindings == IF pending.entry.mode = "none" THEN {{}}
                ELSE {{<<"Mode", "Applied">>}} \cup (IF Faulty THEN {{<<"Mode", "OsError">>}} ELSE {})
CommitFile ==
  /\ step = "commit" /\ pending.mat = "File"
  /\ \/ /\ ~CommitFails
        /\ \E found \in ModeFindings : report' = [mat |-> "None", found |-> found]
        /\ step' = "publish"
        /\ UNCHANGED <<link, pending, leaked>>
     \/ /\ CommitFails \/ Faulty
        /\ RemoveTemp(pending)
        /\ Reports("Failed", {<<"Entry", "OsError">>, <<"Commit", "Partial">>})
  /\ UNCHANGED <<node, created, dirMeta, counter, moves>>

\* The publication: rename over the destination, or an exclusive hard link.
ReplacesAlways == TRUE
Replaces == pending.entry.overwrite
PublishRename ==
  /\ step = "publish" /\ Replaces
  /\ \/ /\ TypeAt(pending.at, Name) # "dir"
        /\ link' = WithLink(WithoutLink(link, pending.at, pending.temp), pending.at, Name, pending.file)
        /\ Reports("File", report.found \cup {<<"Commit", "Applied">>, <<"Entry", "Applied">>})
        /\ UNCHANGED leaked
     \/ /\ TypeAt(pending.at, Name) = "dir" \/ Faulty
        /\ RemoveTemp(pending)
        /\ Reports("Failed", report.found \cup {<<"Entry", "OsError">>, <<"Commit", "OsError">>})
  /\ UNCHANGED <<node, created, dirMeta, counter, moves>>
PublishLink ==
  /\ step = "publish" /\ ~Replaces
  /\ \/ /\ ~Exists(pending.at, Name)
        /\ link' = WithLink(link, pending.at, Name, pending.file)
        /\ step' = "unlink"
        /\ UNCHANGED <<pending, report, leaked>>
     \/ /\ Exists(pending.at, Name)
        /\ RemoveTemp(pending)
        /\ Reports("DestinationExists", report.found \cup {<<"Entry", "Refused">>, <<"Commit", "OsError">>})
     \/ /\ Faulty
        /\ RemoveTemp(pending)
        /\ Reports("Failed", report.found \cup {<<"Entry", "OsError">>, <<"Commit", "OsError">>})
  /\ UNCHANGED <<node, created, dirMeta, counter, moves>>
Unlink ==
  /\ step = "unlink"
  /\ RemoveTemp(pending)
  /\ Reports("File", report.found \cup {<<"Commit", "Applied">>, <<"Entry", "Applied">>}
                     \cup (IF leaked' = leaked THEN {} ELSE {<<"Commit", "Partial">>}))
  /\ UNCHANGED <<node, created, dirMeta, counter, moves>>

\* materialization_result of an exclusive creation.
CreateResult(free, kind) ==
  \/ free /\ Reports(kind, {<<"Entry", "Applied">>})
  \/ ~free /\ Reports("DestinationExists", {<<"Entry", "Refused">>})
CommitSymlink ==
  /\ step = "commit" /\ pending.mat \in {"Symlink", "Special"}
  /\ \/ /\ CreateResult(~Exists(pending.at, Name), pending.mat)
        /\ IF Exists(pending.at, Name)
           THEN UNCHANGED host
           ELSE /\ node' = Append(node, Node(IF pending.mat = "Symlink" THEN "symlink" ELSE "special",
                                             pending.entry.id, "open"))
                /\ link' = WithLink(link, pending.at, Name, NextNode)
     \/ Faulty /\ Reports("Failed", {<<"Entry", "OsError">>}) /\ UNCHANGED host
  /\ UNCHANGED <<created, dirMeta, counter, moves, leaked>>

\* hard_link_target: the target is looked up, checked and then linked.
Target == pending.entry.target
TargetParent == OpenDirChain(Parent(Target))
TargetName == Target[Len(Target)]
CheckTarget ==
  /\ step = "commit" /\ pending.mat = "Hardlink"
  /\ IF TargetParent # NoNode /\ TypeAt(TargetParent, TargetName) = "file"
     THEN /\ pending' = [pending EXCEPT !.file = TargetParent]
          /\ step' = "link" /\ UNCHANGED report
     ELSE Reports("Failed", {<<"Entry", "OsError">>})
  /\ UNCHANGED <<link, node, created, dirMeta, counter, moves, leaked>>
LinkTargetNode ==
  /\ step = "link"
  /\ \/ /\ TypeAt(pending.file, TargetName) \notin {"none", "dir"}
        /\ CreateResult(~Exists(pending.at, Name), "Hardlink")
        /\ link' = IF Exists(pending.at, Name) THEN link
                   ELSE WithLink(link, pending.at, Name, link[<<pending.file, TargetName>>])
     \/ /\ TypeAt(pending.file, TargetName) \in {"none", "dir"} \/ Faulty
        /\ Reports("Failed", {<<"Entry", "OsError">>})
        /\ UNCHANGED link
  /\ UNCHANGED <<node, created, dirMeta, counter, moves, leaked>>
---------------------------------------------------------------------------
\* finish_session: the metadata of the directories, the deepest first.
FinishSession ==
  /\ step = "idle"
  /\ pending.mat = "None"
  /\ step' = "metadata"
  /\ report' = [mat |-> "Session", found |-> {}]
  /\ UNCHANGED <<link, node, pending, created, dirMeta, counter, moves, leaked>>

DueShallow(paths) == {p \in paths : \A q \in paths : Len(p) <= Len(q)}
Due(paths) == {p \in paths : \A q \in paths : Len(p) >= Len(q)}
ApplyMetadata ==
  /\ step = "metadata"
  /\ \E path \in Due(DOMAIN dirMeta) :
       LET d == OpenDirChain(path)
           e == dirMeta[path]
           note(kind) == IF e.mode = "none" THEN report.found ELSE report.found \cup {<<e.id, "Mode", kind>>}
       IN /\ \/ /\ d # NoNode
                /\ node' = IF e.mode = "none" THEN node ELSE [node EXCEPT ![d].mode = e.mode]
                /\ report' = [report EXCEPT !.found = note("Applied")]
             \/ /\ d = NoNode \/ Faulty
                /\ report' = [report EXCEPT !.found = note("OsError")]
                /\ UNCHANGED node
          /\ dirMeta' = [q \in DOMAIN dirMeta \ {path} |-> dirMeta[q]]
  /\ UNCHANGED <<link, pending, created, counter, step, moves, leaked>>
SessionFinished == step = "metadata" /\ DOMAIN dirMeta = {}
---------------------------------------------------------------------------
\* remove_path and clear_directory, which the layer engine calls between two
\* entries.  TreeOf is what remove_dir_all takes away, deepest first; when it
\* fails it has taken away some of it.
TreeOf(d, n) ==
  LET below[k \in 0 .. Len(node)] ==
        IF k = 0 THEN {link[<<d, n>>]}
        ELSE LET above == below[k - 1]
             IN above \cup {link[l] : l \in {x \in DOMAIN link : x[1] \in above}}
  IN {<<d, n>>} \cup {l \in DOMAIN link : l[1] \in below[Len(node)]}
Dropped(l, gone) == [k \in DOMAIN l \ gone |-> l[k]]
PartOf(tree, top) ==
  {gone \in SUBSET (tree \ top) :
     \A k \in gone : \A below \in tree : link[k] = below[1] => below \in gone}

RemoveTrees(trees, top) ==
  \/ link' = Dropped(link, trees) /\ report' = [mat |-> "Removal", found |-> {"Applied"}]
  \/ /\ Faulty
     /\ \E gone \in PartOf(trees, top) : link' = Dropped(link, gone)
     /\ report' = [mat |-> "Removal", found |-> {"OsError"}]
RemovalFails ==
  /\ report' = [mat |-> "Removal", found |-> {"OsError"}]
  /\ UNCHANGED link

RemovePath(dest) ==
  LET d == OpenDirChain(Parent(dest))
      n == dest[Len(dest)]
  IN /\ step = "idle"
     /\ \/ d = NoNode /\ RemovalFails
        \/ d # NoNode /\ Exists(d, n) /\ RemoveTrees(TreeOf(d, n), {<<d, n>>})
        \/ d # NoNode /\ ~Exists(d, n) /\ RemoveTrees({}, {})
     /\ UNCHANGED <<node, pending, created, dirMeta, counter, step, moves, leaked>>

ClearDirectoryFlat(dest) ==
  LET d == OpenDirChain(dest)
  IN /\ step = "idle" /\ d # NoNode
     /\ RemoveTrees({k \in DOMAIN link : k[1] = d /\ node[link[k]].type # "dir"}, {})
     /\ UNCHANGED <<node, pending, created, dirMeta, counter, step, moves, leaked>>
ClearDirectory(dest) ==
  LET d == OpenDirChain(dest)
      children == {k \in DOMAIN link : k[1] = d}
  IN /\ step = "idle"
     /\ \/ d = NoNode /\ RemovalFails
        \/ d # NoNode /\ RemoveTrees(UNION {TreeOf(k[1], k[2]) : k \in children}, {})
     /\ UNCHANGED <<node, pending, created, dirMeta, counter, step, moves, leaked>>
---------------------------------------------------------------------------
\* Other processes add a name, or move what a name held out of the way; they
\* leave the adapter's temporary names alone.
Places == {Root} \cup {d \in DOMAIN node : node[d].type = "dir" /\ node[d].by # 0}
OtherMakes ==
  /\ moves < MaxMoves
  /\ \E d \in Places, n \in HostNames, type \in {"file", "dir", "symlink"} :
       /\ ~Exists(d, n)
       /\ node' = Append(node, Node(type, 0, "open"))
       /\ link' = WithLink(link, d, n, NextNode)
  /\ moves' = moves + 1
  /\ UNCHANGED <<pending, created, dirMeta, counter, step, report, leaked>>
OtherTakes ==
  /\ moves < MaxMoves
  /\ \E d \in Places, n \in HostNames :
       Exists(d, n) /\ link' = WithoutLink(link, d, n)
  /\ moves' = moves + 1
  /\ UNCHANGED <<node, pending, created, dirMeta, counter, step, report, leaked>>

AdapterStep ==
  \/ Resolve \/ CreateDir \/ RestrictDir \/ EnterDir
  \/ Reuse \/ CheckDestination \/ PrepareFile \/ PrepareOther
  \/ CommitSettled \/ CommitFile \/ PublishRename \/ PublishLink \/ Unlink
  \/ CommitSymlink \/ CheckTarget \/ LinkTargetNode \/ ApplyMetadata
===========================================================================
