--------------------------- MODULE MCTrustedUpdate ---------------------------
(***************************************************************************)
(* TrustedUpdate for TLC: roots that need one key or both, or hand over to *)
(* the second, and that change the keys of the online roles or keep them.  *)
(***************************************************************************)
EXTENDS TrustedUpdate

CONSTANTS k1, k2, g1, g2

MCPolicy == { [keys |-> {k1}, threshold |-> 1, online |-> g1],
              [keys |-> {k1, k2}, threshold |-> 2, online |-> g2],
              [keys |-> {k2}, threshold |-> 1, online |-> g2] }
=============================================================================
