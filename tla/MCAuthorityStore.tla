-------------------------- MODULE MCAuthorityStore --------------------------
(***************************************************************************)
(* Two relay processes on one directory and two keys: rival first writers, *)
(* a supplied key that is not the recorded one, and enough epochs for a    *)
(* failed fence to be followed by others.                                  *)
(***************************************************************************)
EXTENDS AuthorityStore, TLC

CONSTANTS p1, p2, k1, k2

MCProcs == {p1, p2}

MCKeys == {k1, k2}

MCSymmetry == Permutations(MCProcs) \cup Permutations(MCKeys)
=============================================================================
