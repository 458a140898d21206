---------------------------- MODULE MCOciLayer ----------------------------
(* A lower layer with a file and a directory that holds one, or nothing,    *)
(* and layers of up to three entries: files, links, a directory, markers of *)
(* every kind and spelling, and paths that the planner refuses.             *)
EXTENDS OciLayer

MCTempNames == <<"t1", "t2", "t3", "t4">>
MCWhiteoutOf == [n \in {".wh.", ".wh.a", ".wh.d", ".wh.f"} |->
                   CASE n = ".wh." -> "" [] n = ".wh.a" -> "a" [] n = ".wh.d" -> "d" [] n = ".wh.f" -> "f"]

Lower(type) == Node(type, 0, "open")
EmptyHost == [node |-> <<Lower("dir"), Lower("dir")>>, link |-> << >>]
LayerHost ==
  [node |-> <<Lower("dir"), Lower("dir"), Lower("file"), Lower("dir"), Lower("file")>>,
   link |-> [k \in {<<Root, "a">>, <<Root, "d">>, <<4, "f">>} |->
               CASE k = <<Root, "a">> -> 3 [] k = <<Root, "d">> -> 4 [] OTHER -> 5]]
MCHosts == {EmptyHost, LayerHost}

Make(kind, path, target, mode) ==
  [kind |-> kind, path |-> path, target |-> target, external |-> FALSE, mode |-> mode]
Marker(path) == Make("File", path, << >>, "none")
MCEntries ==
  {Make("File", p, << >>, "none") : p \in {<<"a">>, <<"d", "f">>, <<"s", "x">>}}
  \cup {Make("Dir", <<"d">>, << >>, "closed"), Make("Dir", <<".", "">>, << >>, "none")}
  \cup {Make("Hardlink", <<"b">>, <<"a">>, "none"), Make("Symlink", <<"s">>, <<"d">>, "none")}
  \cup {Marker(p) : p \in {<<".wh.a">>, <<".wh.d">>, <<"d", ".wh.f">>, <<"d", OpaqueMarker>>,
                           <<OpaqueMarker>>, <<"..", ".wh.a">>, <<".wh.">>}}
  \cup {Make("Dir", <<".wh.d", "">>, << >>, "none"), Make("Special", <<"d", "p">>, << >>, "none")}
MCFewEntries ==
  {Make("File", p, << >>, "none") : p \in {<<"a">>, <<"d", "f">>}}
  \cup {Make("Hardlink", <<"b">>, <<"a">>, "none"), Marker(<<".wh.a">>), Marker(<<"d", OpaqueMarker>>)}
  \cup {Make("Dir", <<"d">>, << >>, "open")}

World(faulty, readerFails) == [faulty |-> faulty, readerFails |-> readerFails, moves |-> 0]
MCWorlds == {World(FALSE, FALSE), World(TRUE, TRUE)}
MCInit ==
  /\ Init
  /\ policy.symlinks /\ policy.hardlinks /\ policy.specials
  /\ (world.faulty => Range(archive) \subseteq MCFewEntries)
MCSpec == MCInit /\ [][Next]_vars
===========================================================================
