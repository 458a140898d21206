--------------------------- MODULE MCExtraction ---------------------------
(* Hosts and archives for Extraction.  The host trees hold nothing, a file, *)
(* a directory with a file, a link out of the root, or a name that looks    *)
(* like a temporary of the adapter.                                         *)
EXTENDS Extraction

MCTempNames == <<"t1", "t2", "t3", "t4">>
Foreign(type) == Node(type, 0, "open")
Base == <<Foreign("dir"), Foreign("dir")>>
Host(types, names) ==
  [node |-> Base \o [i \in DOMAIN types |-> Foreign(types[i])],
   link |-> [k \in {<<Root, names[i]>> : i \in DOMAIN names} |->
               2 + (CHOOSE i \in DOMAIN names : names[i] = k[2])]]
EmptyHost == Host(<< >>, << >>)
FullHost == [node |-> Base \o <<Foreign("dir"), Foreign("file")>>,
             link |-> [k \in {<<Root, "a">>, <<3, "b">>} |-> IF k = <<Root, "a">> THEN 3 ELSE 4]]
MCFewHosts == {EmptyHost, Host(<<"file">>, <<"b">>)}
MCHosts ==
  MCFewHosts \cup {FullHost, Host(<<"file", "file">>, <<"a", "t1">>), Host(<<"symlink">>, <<"a">>)}

Make(kind, path, target, mode, flags) ==
  [kind |-> kind, path |-> path, target |-> target, external |-> FALSE, mode |-> mode, flags |-> flags]
A == <<"a">>
B == <<"b">>
AB == <<"a", "b">>
MCEntries ==
  {Make("File", p, << >>, "none", FALSE) : p \in {A, B, AB, <<"..">>}}
  \cup {Make("File", A, << >>, "open", TRUE), Make("Dir", <<".">>, << >>, "none", FALSE)}
  \cup {Make("Dir", A, << >>, "closed", FALSE), Make("Dir", AB, << >>, "open", FALSE)}
  \cup {Make("Symlink", A, B, "open", FALSE), Make("Symlink", B, A, "none", FALSE)}
  \cup {Make("Hardlink", B, t, "none", FALSE) : t \in {A, AB}}
  \cup {Make("Special", B, << >>, "none", FALSE)}
MCFewEntries ==
  {Make("File", p, << >>, "none", FALSE) : p \in {A, AB}}
  \cup {Make("Dir", A, << >>, "closed", FALSE), Make("Hardlink", B, AB, "none", FALSE)}

\* A quiet host with the longest archives, a host and a reader that fail, and
\* a host that other processes use.
World(faulty, n) == [faulty |-> faulty, readerFails |-> faulty, moves |-> n]
MCWorlds == {World(FALSE, 0), World(TRUE, 0), World(FALSE, 2)}
\* One policy with and one without overwrite; the kinds are all allowed.
MCInit ==
  /\ Init
  /\ policy.symlinks /\ policy.hardlinks /\ policy.specials
  /\ (world # World(FALSE, 0) => Len(archive) <= 2)
  /\ (world.moves > 0 => Range(archive) \subseteq MCFewEntries /\ [link |-> link, node |-> node] \in MCFewHosts)
MCSpec == MCInit /\ [][Next]_vars
===========================================================================
