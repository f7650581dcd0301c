------------------------- MODULE MCBootstrapRuntime -------------------------
(***************************************************************************)
(* Concurrent connection handlers on one bootstrap runtime.  Lifetimes are *)
(* one or two clock values, so that codes, attempts and approvals expire   *)
(* while a call waits for the mutex.                                       *)
(***************************************************************************)
EXTENDS BootstrapRuntime, TLC

CONSTANTS c1, c2, p1

MCCallers == {c1, c2}

MCPeers == {p1}

MCSymmetry == Permutations(MCCallers)
=============================================================================
