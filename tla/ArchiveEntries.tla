--------------------------- MODULE ArchiveEntries ---------------------------
(***************************************************************************)
(* What the two readers of archives accept: the executor, which inspects   *)
(* a package archive and then extracts it, and self-update, which takes    *)
(* one executable out of a release archive.                                *)
(*                                                                         *)
(* A path is the sequence of its components, split at every slash: "/a" is *)
(* <<"", "a">> and "a/" is <<"a", "">>.  The names below stand for the      *)
(* components the checks tell apart; every other string is an ordinary     *)
(* name.                                                                   *)
(***************************************************************************)
EXTENDS Naturals, Sequences, SequencesExt

Garbled  == {"back\\slash", "control"}
Reserved == {"NUL", "name.", "c:"}      \* a Windows device, a final dot, a colon

EntryKind == {"file", "dir", "link", "special", "other"}
\* packed: the compressed size in a ZIP; body: what the file holds.
Entry == [path : Seq(STRING), kind : EntryKind, size : Nat, packed : Nat, body : STRING]

Sizes(es) == FoldLeft(LAMBDA sum, e : sum + e.size, 0, es)

-----------------------------------------------------------------------------
(* The executor *)

Unsafe == {"", ".", ".."} \union Garbled \union Reserved
\* validate_archive_path: a directory written "a/" is refused as well.
ValidArchivePath(p) == p # <<>> /\ \A i \in DOMAIN p : p[i] \notin Unsafe

WithinLimits(es, limits) ==
  /\ \A i \in DOMAIN es : es[i].size <= limits.single
  /\ Sizes(es) <= limits.total

InspectZip(es, limits) ==
  /\ Len(es) <= limits.entries
  /\ WithinLimits(es, limits)
  /\ \A i \in DOMAIN es :
       /\ ValidArchivePath(es[i].path)
       /\ es[i].packed > 0 => es[i].size \div es[i].packed <= limits.ratio
       /\ es[i].kind # "link"

InspectTar(es, limits) ==
  /\ Len(es) <= limits.entries
  /\ WithinLimits(es, limits)
  /\ \A i \in DOMAIN es : ValidArchivePath(es[i].path) /\ es[i].kind \notin {"link", "special"}

Inspect(format, es, limits) ==
  IF format = "zip" THEN InspectZip(es, limits) ELSE InspectTar(es, limits)

\* stripped_archive_path: entries that are all prefix are passed over.
Stripped(p, strip) == SubSeq(p, strip + 1, Len(p))
Unstripped(es, strip) == SelectSeq(es, LAMBDA e : Len(e.path) > strip)

\* create_owned_directory and create_new: no file where another file, or a
\* directory, is.
Compatible(d, p, e, q) ==
  /\ d.kind # "dir" => ~IsStrictPrefix(p, q)
  /\ p = q => d.kind = "dir" /\ e.kind = "dir"

\* extract_zip_archive, extract_tar_archive: whether nothing is refused.
Extracts(format, es, strip, limits) ==
  LET out == Unstripped(es, strip) IN
  /\ Len(es) <= limits.entries
  /\ \A i \in DOMAIN es :
       /\ ValidArchivePath(es[i].path)
       /\ format # "zip" => es[i].kind \in {"file", "dir"}
  /\ \A i \in DOMAIN out : out[i].kind # "link"
  /\ WithinLimits(out, limits)
  /\ \A i, j \in DOMAIN out : i # j =>
       Compatible(out[i], Stripped(out[i].path, strip), out[j], Stripped(out[j].path, strip))

-----------------------------------------------------------------------------
(* Self-update *)

\* validate_archive_path of siorb-update, which looks at normalised
\* components and lets the others through.
ValidReleasePath(p) ==
  /\ p \notin {<<>>, <<"">>} /\ p[1] # ""
  /\ \A i \in DOMAIN p : p[i] \notin Garbled \union {".."}
  /\ Len(SelectSeq(p, LAMBDA c : c \notin {"", "."})) <= 16

ExecutableName(os) == IF os = "windows" THEN "siorb.exe" ELSE "siorb"

FileName(p) == LET named == SelectSeq(p, LAMBDA c : c \notin {"", "."})
               IN IF named = <<>> THEN "" ELSE named[Len(named)]

\* A ZIP tells a directory by its final slash, a tar archive by its header.
IsDir(format, e) == IF format = "zip" THEN Last(e.path) = "" ELSE e.kind = "dir"

Executables(format, es, os) ==
  {i \in DOMAIN es : ~IsDir(format, es[i]) /\ FileName(es[i].path) = ExecutableName(os)}

\* Mutant: the first of several executables is taken.
ReleaseFirstFound(format, es, os, limits) ==
  /\ \A i \in DOMAIN es : ValidReleasePath(es[i].path)
  /\ \E i \in Executables(format, es, os) : es[i].body = os
\* extract_release_binary: the archive has exactly one executable of the
\* expected name and of the platform's own format.
ReleaseAccepted(format, es, os, limits) ==
  LET files == SelectSeq(es, LAMBDA e : ~IsDir(format, e)) IN
  /\ Len(es) <= limits.entries
  /\ \A i \in DOMAIN es :
       /\ ValidReleasePath(es[i].path)
       /\ es[i].kind \in {"file", "dir"}
  /\ WithinLimits(files, limits)
  /\ \E i \in DOMAIN es : Executables(format, es, os) = {i} /\ es[i].body = os
=============================================================================
