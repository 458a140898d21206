----------------------------- MODULE MCPipeline -----------------------------
(***************************************************************************)
(* Small archives for Pipeline, each with the events a reader of it must    *)
(* report.                                                                  *)
(***************************************************************************)
EXTENDS Pipeline

D(v) == [k |-> "D", v |-> v]

\* The events of one entry with the payload given by its values.
File(name, values) ==
    <<Entry(name, None)>> \o [i \in DOMAIN values |-> D(values[i])] \o <<EndEntry>>

LinkTo(name, target) == <<Entry(name, target), EndEntry>>

\* Codec members: GzipOf and XzOf one member of the units given.
PackedUnits(units) == [i \in DOMAIN units |-> Packed(units[i])]

GzipOf(units) == GzMagic \o PackedUnits(units) \o <<Check>>

XzOf(units) == XzMagic \o PackedUnits(units) \o <<Check>>

CpioMember(m) == <<CpioMagic, CpioFields(m)>> \o [i \in 1 .. m.namesize |-> NameByte(m.name)]

CpioFile(name, size, links, pad, sum) ==
    CpioMember([name |-> name, namesize |-> 1, size |-> size, links |-> links, ino |-> 1,
                pad |-> pad, sum |-> sum])

CpioEnd == CpioFile(Trailer, 0, 1, 0, NoNumber)

\* The link comes before the record that carries the payload.
CpioLinks == CpioFile("a", 0, 2, 0, NoNumber) \o CpioFile("b", 1, 2, 2, 5)
                 \o <<Byte(5), Zero, Zero>> \o CpioEnd

CpioLinksEvents == File("b", <<5>>) \o LinkTo("a", "b")

\* A group that never gets its payload record, nor all its links.
CpioOpenGroup == CpioFile("a", 0, 3, 0, NoNumber) \o CpioFile("b", 0, 3, 0, NoNumber)
                     \o CpioEnd

CpioBadSum == CpioFile("a", 2, 1, 0, 9) \o <<Byte(4), Byte(4)>> \o CpioEnd

ArMember2(m) == <<ArHeader(m), Rest>>

ArTable == ArMember2([kind |-> "table", size |-> 1]) \o <<NameByte("long"), Zero>>

ArGnu == ArMember2([kind |-> "gnu", offset |-> 0, size |-> 1]) \o <<Byte(3), Zero>>

ArBsd == ArMember2([kind |-> "bsd", namelen |-> 1, size |-> 3])
             \o <<NameByte("name"), Byte(1), Byte(2), Zero>>

ArPlain(size) == ArMember2([kind |-> "plain", name |-> "p", size |-> size])

TarBlock(m) == <<TarHeader(m), Rest>>

TarFile(name, size) ==
    TarBlock([type |-> "file", name |-> name, link |-> None, size |-> size])

TarMeta(type, unit) == TarBlock([type |-> type, size |-> 1]) \o <<unit, Zero>>

TarEnd == <<Zero, Zero>>

\* A global path, and an entry with a path of its own.
TarGlobal == TarMeta("g", Pax([NoOverrides EXCEPT !.path = "g"]))
                 \o TarFile("a", 1) \o <<Byte(6), Zero>>
                 \o TarMeta("x", Pax([NoOverrides EXCEPT !.path = "x"])) \o TarFile("a", 0)

TarGlobalEvents == <<Metadata>> \o File("g", <<6>>) \o File("x", <<>>)

TarLong == TarMeta("L", NameByte("long")) \o TarMeta("K", NameByte("target"))
               \o TarBlock([type |-> "file", name |-> "a", link |-> "b", size |-> 0])
               \o TarEnd

\* A PAX sparse file: one stored unit in the middle of three.
TarSparse == TarMeta("x", Pax([NoOverrides EXCEPT !.real = 3,
                                   !.map = <<[offset |-> 1, length |-> 1]>>]))
                 \o TarFile("s", 1) \o <<Byte(7), Zero>>

\* An old GNU sparse file whose map goes on in an extension block.
TarSparseExtended ==
    TarBlock([type |-> "S", name |-> "s", link |-> None, size |-> 2, real |-> 4,
              map |-> <<[offset |-> 0, length |-> 1]>>, more |-> TRUE])
        \o <<SparseBlock(<<[offset |-> 2, length |-> 1]>>, FALSE), Rest>>
        \o <<Byte(7), Byte(8)>>

WarcRecord1(name, v) ==
    <<WarcSignature, [t |-> "field"], WarcBlank([name |-> name, size |-> 1]), Byte(v)>>
        \o RecordEnd

A(wire, events, kind) ==
    [wire |-> wire, forced |-> "none", events |-> events, kind |-> kind, eager |-> BOOLEAN]

\* An archive whose last unit the decoder takes without being done, read to its end.
Patient(a) == [a EXCEPT !.eager = {FALSE}]

Raw(a) == [a EXCEPT !.forced = "raw"]

RawEvents(values) == <<Metadata>> \o File("data", values)

MCArchives == {
    A(CpioLinks, CpioLinksEvents, "intact"),
    A(CpioOpenGroup, File("a", <<>>) \o LinkTo("b", "a"), "intact"),
    A(CpioBadSum, File("a", <<4, 4>>), "broken"),
    A(Take(CpioLinks, 5), CpioLinksEvents, "broken"),
    A(Take(CpioLinks, 8), CpioLinksEvents, "broken"),
    A(<<ArMagic(FALSE)>> \o ArTable \o ArGnu, File("long", <<3>>), "intact"),
    A(<<ArMagic(FALSE)>> \o ArBsd, File("name", <<1, 2>>), "intact"),
    A(<<ArMagic(TRUE)>> \o ArPlain(1), File("p", <<>>), "intact"),
    A(<<ArMagic(FALSE)>> \o ArPlain(2) \o <<Byte(1)>>, File("p", <<1, 2>>), "broken"),
    Patient(A(<<ArMagic(FALSE)>>, <<>>, "intact")),
    A(TarGlobal, TarGlobalEvents, "intact"),
    A(TarLong, LinkTo("long", "target"), "intact"),
    A(TarSparse, File("s", <<0, 7, 0>>), "intact"),
    A(TarEnd \o TarEnd, <<>>, "intact"),
    A(TarEnd \o TarEnd \o TarEnd, <<>>, "intact"),
    A(Take(TarGlobal, 7), TarGlobalEvents, "broken"),
    A(Take(TarGlobal, 5), TarGlobalEvents, "clean"),
    Patient(A(WarcRecord1("w", 1) \o WarcRecord1("x", 2),
              File("w", <<1>>) \o File("x", <<2>>), "intact")),
    Patient(A(Take(WarcRecord1("w", 1), 5), File("w", <<1>>), "broken")),
    A(<<>>, <<Metadata>>, "intact"),
    A(GzipOf(<<>>), <<Metadata>>, "intact"),
    Raw(A(<<Byte(1), Byte(2), Byte(3)>>, RawEvents(<<1, 2, 3>>), "intact")),
    Raw(A(GzipOf(<<Byte(1)>>) \o GzipOf(<<Byte(2)>>), RawEvents(<<1, 2>>), "intact")),
    A(XzOf(TarFile("a", 0) \o TarEnd) \o <<Zero, Zero>>, File("a", <<>>), "intact"),
    A(XzOf(TarFile("a", 0)) \o <<Zero>>, File("a", <<>>), "broken"),
    A(XzOf(GzipOf(<<ArMagic(TRUE)>> \o ArPlain(1))), File("p", <<>>), "intact"),
    A(GzipOf(XzOf(GzipOf(<<>>))), <<>>, "broken"),
    A(CpioEnd \o <<Byte(1)>>, <<>>, "broken"),
    A(GzipOf(CpioLinks), CpioLinksEvents, "intact"),
    A(Take(GzipOf(TarFile("a", 0)), 3), File("a", <<>>), "broken"),
    A(XzOf(TarFile("a", 0)) \o XzOf(TarEnd), File("a", <<>>), "intact"),
    A(XzOf(TarFile("a", 0)) \o <<Zero>> \o XzOf(TarEnd), File("a", <<>>), "broken"),
    A(GzipOf(XzOf(<<>>) \o XzOf(<<>>)), <<Metadata>>, "intact"),
    A(GzipOf(TarFile("a", 0)) \o <<Byte(1)>>, File("a", <<>>), "broken"),
    A(<<[t |-> "zip"]>>, <<>>, "broken"),
    A([i \in 1 .. 5 |-> Byte(1)], <<>>, "broken")}

\* A compressed cpio archive that ends inside an entry's padding.
CutPadding == {A(GzipOf(Take(CpioLinks, 8)), CpioLinksEvents, "broken")}

\* An intact archive that the decoder refuses (tar.rs, README.md, section 5).
SparseExtended == {A(TarSparseExtended, File("s", <<7, 0, 8, 0>>), "intact")}

LargeLimits == {[total |-> 9, entries |-> 9, entry |-> 9]}

MCLimits == {[total |-> 3, entries |-> 2, entry |-> 3],
             [total |-> 1, entries |-> 2, entry |-> 3],
             [total |-> 3, entries |-> 1, entry |-> 3],
             [total |-> 3, entries |-> 2, entry |-> 1]}

=============================================================================
