----------------------------- MODULE MCExecutor -----------------------------
(***************************************************************************)
(* Instances of Executor for TLC: packages by kind of source.              *)
(***************************************************************************)
EXTENDS Executor, TLC

CONSTANTS a, b, c      \* packages
CONSTANTS v1, v2       \* versions

MCBackendOf == [q \in Package |-> CASE q = b -> "portable" [] q = c -> "installer" [] OTHER -> "native"]

=============================================================================
