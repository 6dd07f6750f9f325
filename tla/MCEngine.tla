------------------------------ MODULE MCEngine -------------------------------
(* Engine on a small instance: orders that rest, match and cancel.         *)
EXTENDS Engine

CONSTANTS o1, o2

Limit(id, side, qty) ==
  NewCommand([kind |-> "Limit", price |-> 1, id |-> id, side |-> side, qty |-> qty])

MCCommands == {Limit(o1, "Sell", 1), Limit(o2, "Buy", 2), CancelCommand(o2)}
=============================================================================
