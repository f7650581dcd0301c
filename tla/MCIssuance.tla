----------------------------- MODULE MCIssuance -----------------------------
(***************************************************************************)
(* Two handlers; the first approval of an App and a later one of it.  The  *)
(* lifetimes keep the code's proportions: an approval and a result live    *)
(* equally long, an authorization adds a little.                           *)
(***************************************************************************)
EXTENDS Issuance

CONSTANTS h1, h2, a1, a2, x1

MCHandlers == {h1, h2}
MCApprovals == {a1, a2}
MCLater == {a2}
MCApps == {x1}
MCAppOf == [a \in {a1, a2} |-> x1]
=============================================================================
