-------------------------- MODULE MCSessionRegistry --------------------------
(***************************************************************************)
(* The registry on its own, against a peer that sends any request.         *)
(***************************************************************************)
EXTENDS SessionRegistry, TLC

CONSTANTS work, home, play, t1, t2, t3, t4, fp

MCSessions == {work, home, play}
MCTokens == {t1, t2, t3, t4}
MCFingerprints == {fp}
MCGenerations == 0..1
\* One entry, or two for different handles.
MCHeartbeats ==
    {b \in SUBSET (Handles \X MCTokens) :
        Cardinality(b) \in 1..2 /\ Cardinality({e[1] : e \in b}) = Cardinality(b)}

\* Session names and tokens are only compared for equality.
MCSymmetry == Permutations(MCSessions) \cup Permutations(MCTokens)
=============================================================================
