----------------------------- MODULE MCUpdater -----------------------------
(* Two update commands and three releases. *)
EXTENDS Updater, TLC

CONSTANTS p1, p2

MCProcs == {p1, p2}

MCSymmetry == Permutations(MCProcs)
=============================================================================
