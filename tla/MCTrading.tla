----------------------------- MODULE MCTrading ------------------------------
(* Values for the runs of Trading: one quote, or two that differ in the bid.  *)
EXTENDS Trading, TLC

OneQuote == {<<1, 2>>}
TwoBids == {<<1, 3>>, <<2, 3>>}
MCMinInventory == -2
LongOnly == 0

Symmetry == Permutations(Tasks)
=============================================================================
