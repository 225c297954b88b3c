-------------------------- MODULE MCTradingRestart --------------------------
(* Values for TradingRestart: one quote, or two that differ on both sides. *)
EXTENDS TradingRestart, TLC

OneQuote == {<<1, 2>>}
TwoQuotes == {<<1, 2>>, <<2, 3>>}
MCMinInventory == -2

Symmetry == Permutations(Tasks)
=============================================================================
