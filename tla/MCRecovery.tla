------------------------------ MODULE MCRecovery -----------------------------
(* Recovery on a small instance: two sells that rest in line, a buy that   *)
(* takes from the first, a cancel.                                         *)
EXTENDS Recovery

CONSTANTS o1, o2, o3

Limit(id, side, qty) ==
  NewCommand([kind |-> "Limit", price |-> 1, id |-> id, side |-> side, qty |-> qty])

MCCommands == {Limit(o1, "Sell", 2), Limit(o2, "Sell", 1), Limit(o3, "Buy", 1),
               CancelCommand(o1)}
=============================================================================
