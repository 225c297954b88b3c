------------------------------- MODULE MCDesk -------------------------------
(***************************************************************************)
(* Tick sizes of the unit test of market.rs, one that is no power of ten   *)
(* and one above 1; the limits of risk.rs, and inventories on both sides   *)
(* of them, as far as a wallet may hold at the start.                      *)
(***************************************************************************)
EXTENDS Desk

Text(i, digits, point, f, fdigits) ==
    [integer |-> i, integer_digits |-> digits, point |-> point,
     fraction |-> f, fraction_digits |-> fdigits]

MCInstrumentTicks ==
    {Text(1, 1, FALSE, 0, 0),     \* "1"
     Text(0, 1, TRUE, 1, 3),      \* "0.001"
     Text(0, 1, TRUE, 100, 6),    \* "0.000100"
     Text(0, 1, TRUE, 5, 2),      \* "0.05"
     Text(10, 2, FALSE, 0, 0)}    \* "10"

MCInventories == {-3000, -525, -500, -499, -130, -50, 0, 25, 75, 499, 500, 525, 3000}
MCDrifts == {-500, -25, 0, 500}
MCMinInventory == -500
=============================================================================
