-------------------------------- MODULE MCHub --------------------------------
(* Hub on small instances: resting orders, a taker, cancels.               *)
EXTENDS Hub

CONSTANTS c1, c2, o1, o2

Limit(id, side) ==
  NewCommand([kind |-> "Limit", price |-> 1, id |-> id, side |-> side, qty |-> 1])

MCCommands == {Limit(o1, "Sell"), Limit(o2, "Buy"), CancelCommand(o1)}
=============================================================================
