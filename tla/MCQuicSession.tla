---------------------------- MODULE MCQuicSession ----------------------------
(***************************************************************************)
(* One connection, two stream tasks.  As many handles as tokens: a handle  *)
(* is not handed out twice, as with the 65535 handles of the code.         *)
(***************************************************************************)
EXTENDS QuicSession, TLC

CONSTANTS work, home, t1, t2, t3, s1, s2, fp

MCSessions == {work, home}
MCOneSession == {work}
MCTokens == {t1, t2, t3}
MCTwoTokens == {t1, t2}
MCOneToken == {t1}
MCStreams == {s1, s2}
MCOneStream == {s1}
MCFingerprints == {fp}
MCGenerations == {1}
MCHeartbeats == {{<<h, t>>} : h \in Handles, t \in Tokens}

MCSymmetry == Permutations(MCStreams) \cup Permutations(MCTokens)
              \cup Permutations(MCSessions)
=============================================================================
