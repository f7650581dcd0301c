---------------------------- MODULE MCIrohSession ----------------------------
(***************************************************************************)
(* One paired connection, two stream tasks.  There are enough handles that *)
(* none is handed out twice, as with the 65535 handles of the code.        *)
(***************************************************************************)
EXTENDS IrohSession, TLC

CONSTANTS work, home, t1, t2, s1, s2, fp

MCSessions == {work, home}
MCTokens == {t1, t2}
MCStreams == {s1, s2}
MCFingerprints == {fp}
MCGenerations == {1}
MCHeartbeats == {}
=============================================================================
