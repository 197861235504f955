---------------------------- MODULE MCArtifacts ----------------------------
(***************************************************************************)
(* Artifacts for TLC: one package with an archive, an executable and a     *)
(* disk image, served well, too long, with a path out of its directory,    *)
(* with names that collide, unsigned or under a wrong content type.        *)
(***************************************************************************)
EXTENDS Artifacts

MCLimits == [entries |-> 3, total |-> 4, single |-> 2, ratio |-> 1]

F(path, size) == [path |-> path, kind |-> "file", size |-> size, packed |-> size, body |-> "text"]

B(format, size, type, signer, sound, entries) ==
  [format |-> format, size |-> size, type |-> type, signer |-> signer, sound |-> sound, entries |-> entries]
R(format, digest, max, signer) ==
  [package |-> "p", format |-> format, type |-> format, digest |-> digest, max |-> max,
   strip |-> IF KindOf(format) = "archive" THEN 1 ELSE 0, typed |-> TRUE, signer |-> signer, host |-> "h1", redirects |-> {"h2"}]
Archive(entries) == B("tar.gz", 1, "tar.gz", "", TRUE, entries)
Other(format, size, type, signer) == B(format, size, type, signer, TRUE, <<>>)

Tgz     == Archive(<<F(<<"v1", "bin", "tool">>, 2), F(<<"v1", "LICENSE">>, 1), F(<<"v1">>, 1)>>)
Crooked == Archive(<<F(<<"v1", "..", "..", "tool">>, 1)>>)
Clash   == Archive(<<F(<<"v1", "tool">>, 1), F(<<"v2", "tool", "x">>, 1)>>)
Device  == Archive(<<[F(<<"v1", "tool">>, 1) EXCEPT !.kind = "other"]>>)
Image   == Other("appimage", 1, "appimage", "")
Dmg     == Other("dmg", 1, "dmg", "acme")
Pkg     == Other("pkg", 1, "pkg", "acme")
Forged  == Other("pkg", 1, "pkg", "other")

MCBytes == {Tgz, Crooked, Clash, Device, Image, Dmg, Pkg, Forged, Other("appimage", 3, "appimage", ""),
            B("appimage", 1, "html", "", FALSE, <<>>)}
MCRecipe == {R("tar.gz", Tgz, 2, None), R("tar.gz", Crooked, 2, None), R("tar.gz", Clash, 2, None),
             R("tar.gz", Device, 2, None), R("appimage", Image, 2, None), R("dmg", Dmg, 2, "acme"),
             R("pkg", Pkg, 2, "acme"), R("pkg", Forged, 2, "acme"), R("pkg", Pkg, 2, None), [R("dmg", Dmg, 2, "acme") EXCEPT !.typed = FALSE],
             [R("appimage", Image, 2, None) EXCEPT !.strip = 1]}
=============================================================================
