----------------------------- MODULE MCRequote ------------------------------
(* Values for the run of Requote: two bids and one ask. *)
EXTENDS Requote, TLC

TwoBids == {<<1, 3>>, <<2, 3>>}
MCMinInventory == -2
=============================================================================
