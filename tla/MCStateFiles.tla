---------------------------- MODULE MCStateFiles ----------------------------
(***************************************************************************)
(* StateFiles for TLC: state directories as they are found on Unix and on  *)
(* Windows, missing, private, open to others, somebody else's, or a link.  *)
(***************************************************************************)
EXTENDS StateFiles, TLC

\* Processes differ in nothing, and neither do marks; no liveness is checked.
MCSymmetry == Permutations(Proc) \union Permutations(Mark)

At(kind, owner, access, acl) == [kind |-> kind, owner |-> owner, access |-> access, acl |-> acl]
MCPlace == { At("missing", "self", {}, FALSE),
             At("directory", "self", {"self", "others"}, FALSE),
             At("directory", "another", {"others"}, FALSE),
             At("link", "self", {"self"}, FALSE),
             At("directory", "administrators", {"system", "others"}, TRUE) }
=============================================================================
