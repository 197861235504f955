---------------------------- MODULE MCSelfUpdate ----------------------------
(***************************************************************************)
(* SelfUpdate for TLC: three releases of the metadata.  The second adds a  *)
(* version, the third a newer one and, for Windows, an archive with two    *)
(* executables.                                                            *)
(***************************************************************************)
EXTENDS SelfUpdate

MCLimits == [entries |-> 3, total |-> 4, single |-> 3]

F(path, body) == [path |-> path, kind |-> "file", size |-> 1, packed |-> 1, body |-> body]
Dir(path)     == [path |-> path, kind |-> "dir", size |-> 0, packed |-> 0, body |-> ""]

T(name, version, system, format, entries) ==
  [name |-> name, version |-> version, os |-> system, arch |-> "x86_64", format |-> format, entries |-> entries]
Linux(v)   == T("linux", v, "linux", "tar.gz",
                <<Dir(<<"siorb", "">>), F(<<"siorb", "siorb">>, "linux"), F(<<"siorb", "LICENSE">>, "text")>>)
Windows(v) == T("windows", v, "windows", "zip", <<Dir(<<"siorb", "">>), F(<<"siorb", "siorb.exe">>, "windows")>>)
Twice(v)   == T("windows", v, "windows", "zip", <<F(<<"siorb.exe">>, "windows"), F(<<"old", "siorb.exe">>, "windows")>>)
Wrong(v)   == T("linux", v, "linux", "tar.gz", <<F(<<"siorb">>, "windows")>>)
Climbs(v)  == T("linux", v, "linux", "tar.gz", <<F(<<"..", "siorb">>, "linux")>>)

MCRepository == <<{Linux(1), Windows(1)}, {Linux(2), Windows(2)}, {Linux(3), Windows(3)},
                  {Wrong(4), Climbs(5), Twice(4)}>>
=============================================================================
