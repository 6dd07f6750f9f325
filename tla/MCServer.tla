------------------------------ MODULE MCServer ------------------------------
(* The server with the client program, and with two peers.                 *)
EXTENDS Client

CONSTANTS c1, c2

MCCommands ==
  {LimitOrder(id, side) : id \in OrderIds, side \in {"Buy", "Sell"}}
    \cup {CancelCommand(1)}

MCPeerFrames == {LimitOrder(1, "Sell"), Garbage}
=============================================================================
