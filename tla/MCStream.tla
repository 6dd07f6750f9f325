------------------------------ MODULE MCStream ------------------------------
(* Words of two bytes: the messages take every tag and the limits of every *)
(* integer type.                                                           *)
EXTENDS Stream

MaxU == 65535
MaxI == 32767

Order(kind, side, id, qty, price, timestamp) ==
  [type |-> "New",
   order |-> [kind |-> kind, side |-> side, id |-> id, qty |-> qty,
              timestamp |-> timestamp]
             @@ (IF kind = "Market" THEN << >> ELSE [price |-> price])]

MCClientMessages ==
  { Order("Limit", "Buy", 1, 300, -1, 0),
    Order("Market", "Sell", MaxU, 1, 0, -MaxI - 1),
    Order("Ioc", "Sell", 0, MaxU, MaxI, 7),
    Order("PostOnly", "Buy", 256, 0, -MaxI - 1, MaxI),
    Order("Fok", "Sell", 2, 2, 0, -256),
    [type |-> "Cancel", id |-> MaxU - 255] }

MCServerMessages ==
  { [type |-> "Accepted", id |-> 1, qty |-> MaxU, seq |-> 256],
    [type |-> "Trade", taker |-> 1, maker |-> MaxU, price |-> -2, qty |-> 0,
     seq |-> 3] }
  \cup { [type |-> "Done", id |-> 5, leaves |-> 255, reason |-> r, seq |-> MaxU] :
           r \in {"Filled", "Cancelled", "Expired", "NoLiquidity", "Rejected"} }
=============================================================================
