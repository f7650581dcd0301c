--------------------------- MODULE RecordRegister ---------------------------
(***************************************************************************)
(* What a directory of authority records promises its users: every record  *)
(* is replaced as a whole, its revisions are consecutive, and a loss of    *)
(* power takes a record back at most to the last one that was settled.     *)
(***************************************************************************)
EXTENDS Naturals

CONSTANTS Files,      \* the record files
          Values      \* what a record may hold

VARIABLES current,    \* what a reader of the directory sees
          stable      \* what is left after a loss of power

rvars == <<current, stable>>

Records == [revision : Nat, value : Values]

Replace(f) ==
    /\ \E v \in Values :
          current' = [current EXCEPT ![f] = [revision |-> current[f].revision + 1,
                                             value |-> v]]
    /\ UNCHANGED stable

Settle ==
    /\ stable' = current
    /\ UNCHANGED current

LosePower ==
    /\ current' \in [Files -> Records]
    /\ \A f \in Files : current'[f] \in {current[f], stable[f]}
    /\ stable' = current'

RInit == stable = current

RNext == (\E f \in Files : Replace(f)) \/ Settle \/ LosePower

RSpec == RInit /\ [][RNext]_rvars
=============================================================================
