------------------------------ MODULE PriceTime ------------------------------
(***************************************************************************)
(* What the matcher promises: price-time priority over a plain set of      *)
(* resting orders. There are no levels, no index and no scan: the maker of *)
(* a trade is, among all resting orders the taker may trade with, the one  *)
(* with the best price and, at that price, the lowest sequence number.     *)
(***************************************************************************)
EXTENDS Matching

CONSTANT MaxSeq

VARIABLES
  resting,   \* set of [id, side, price, qty, seq]
  seq, taker, out

ptVars == <<resting, seq, taker, out>>

NoOrder == [order |-> "none"]

(* Resting orders on the other side at a price the order accepts.          *)
Marketable(o) ==
  {r \in resting : r.side = Opposite(o.side) /\ Crosses(o, r.price)}

Precedes(r, q) ==
  \/ r.price # q.price /\ WithinLimit(r.side, r.price, q.price)
  \/ r.price = q.price /\ r.seq < q.seq

FirstInLine(o, m) ==
  m \in Marketable(o) /\ \A r \in Marketable(o) \ {m} : Precedes(m, r)

MustReject(o) ==
  \/ o.qty = 0
  \/ \E r \in resting : r.id = o.id
  \/ o.kind = "PostOnly" /\ Marketable(o) # {}
  \/ o.kind = "Fok" /\ MapThenSumSet(LAMBDA r : r.qty, Marketable(o)) < o.qty

PTInit == resting = {} /\ seq = 1 /\ taker = NoOrder /\ out = << >>

PTReject(o) ==
  /\ taker = NoOrder
  /\ MustReject(o)
  /\ out' = <<Done(o.id, o.qty, "Rejected", seq)>>
  /\ seq' = seq + 1
  /\ UNCHANGED <<resting, taker>>

PTReceive(o) ==
  /\ taker = NoOrder
  /\ ~MustReject(o)
  /\ out' = <<Accepted(o.id, o.qty, seq)>>
  /\ seq' = seq + 1
  /\ taker' = [order |-> o, remaining |-> o.qty, receiveSeq |-> seq]
  /\ UNCHANGED resting

(* The taker trades with m for the smaller of the two quantities.          *)
PTTrade(m) ==
  /\ taker # NoOrder
  /\ taker.remaining > 0
  /\ FirstInLine(taker.order, m)
  /\ LET qty   == Min({taker.remaining, m.qty})
         trade == Trade(taker.order.id, m.id, m.price, qty, seq)
     IN  /\ taker' = [taker EXCEPT !.remaining = @ - qty]
         /\ IF qty = m.qty
            THEN /\ resting' = resting \ {m}
                 /\ out' = <<trade, Done(m.id, 0, "Filled", seq + 1)>>
                 /\ seq' = seq + 2
            ELSE /\ resting' = (resting \ {m}) \cup {[m EXCEPT !.qty = @ - qty]}
                 /\ out' = <<trade>>
                 /\ seq' = seq + 1

PTFinish ==
  /\ taker # NoOrder
  /\ taker.remaining = 0 \/ Marketable(taker.order) = {}
  /\ taker' = NoOrder
  /\ LET o == taker.order
     IN  IF taker.remaining > 0 /\ o.kind \in {"Limit", "PostOnly"}
         THEN /\ resting' = resting \cup
                   {[id |-> o.id, side |-> o.side, price |-> o.price,
                     qty |-> taker.remaining, seq |-> taker.receiveSeq]}
              /\ out' = << >>
              /\ UNCHANGED seq
         ELSE /\ UNCHANGED resting
              /\ out' = <<Done(o.id, taker.remaining,
                               EndReason(o, taker.remaining), seq)>>
              /\ seq' = seq + 1

PTCancel(id) ==
  /\ taker = NoOrder
  /\ UNCHANGED taker
  /\ \/ \E r \in resting :
          /\ r.id = id
          /\ resting' = resting \ {r}
          /\ out' = <<Done(id, r.qty, "Cancelled", seq)>>
          /\ seq' = seq + 1
     \/ /\ \A r \in resting : r.id # id
        /\ out' = << >>
        /\ UNCHANGED <<resting, seq>>

PTNewCall ==
  /\ seq <= MaxSeq
  /\ \/ \E o \in NewOrders : PTReject(o) \/ PTReceive(o)
     \/ \E id \in OrderIds : PTCancel(id)

PTNext == PTNewCall \/ (\E m \in resting : PTTrade(m)) \/ PTFinish

PTSpec == PTInit /\ [][PTNext]_ptVars
=============================================================================
