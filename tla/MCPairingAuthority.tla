------------------------- MODULE MCPairingAuthority --------------------------
(***************************************************************************)
(* Three peers and two slots: the bounded registry fills up.  One relay    *)
(* process, which crashes and restarts.                                    *)
(***************************************************************************)
EXTENDS PairingAuthority, TLC

CONSTANTS alice, bob, carol

MCPeers == {alice, bob, carol}

MCSymmetry == Permutations(MCPeers)
=============================================================================
