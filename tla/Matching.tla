------------------------------ MODULE Matching -------------------------------
(***************************************************************************)
(* What the matcher of matcher.rs decides and emits, as operators on a     *)
(* book, the next sequence number and a call: the upfront rejections, one  *)
(* iteration of the matching loop and what happens to the remainder.       *)
(* Module Matcher runs them step by step; AcceptCall and CancelCall run a  *)
(* whole call, for the components that own a matcher.                      *)
(*                                                                         *)
(* The receive timestamp of an order is opaque to the matcher and left out.*)
(***************************************************************************)
EXTENDS OrderBook

PricedKinds == {"Limit", "Ioc", "PostOnly", "Fok"}

NewOrders ==
  [kind : PricedKinds, price : Prices, id : OrderIds, side : Sides, qty : Qtys]
  \cup [kind : {"Market"}, id : OrderIds, side : Sides, qty : Qtys]

(* Events                                                                  *)
Accepted(id, qty, seq) ==
  [type |-> "Accepted", id |-> id, qty |-> qty, seq |-> seq]

Trade(taker, maker, price, qty, seq) ==
  [type |-> "Trade", taker |-> taker, maker |-> maker, price |-> price,
   qty |-> qty, seq |-> seq]

Done(id, leaves, reason, seq) ==
  [type |-> "Done", id |-> id, leaves |-> leaves, reason |-> reason,
   seq |-> seq]

Events ==
  [type : {"Accepted"}, id : OrderIds, qty : Qtys, seq : Nat]
  \cup [type : {"Trade"}, taker : OrderIds, maker : OrderIds, price : Prices,
        qty : Qtys, seq : Nat]
  \cup [type : {"Done"}, id : OrderIds, leaves : Qtys,
        reason : {"Filled", "Cancelled", "Expired", "NoLiquidity", "Rejected"},
        seq : Nat]

-----------------------------------------------------------------------------
(* Would the order trade at the opposite side's best price?                *)
Crosses(o, price) ==
  o.kind # "Market" => WithinLimit(Opposite(o.side), price, o.price)

BestCrosses(b, o) ==
  /\ HasBest(b, Opposite(o.side))
  /\ Crosses(o, Best(b, Opposite(o.side)))

(* Faulty: a duplicate id passes.                                          *)
ZeroOrder(b, o) == o.qty = 0

(* Faulty: an order at exactly the best price passes.                      *)
PostOnlyWouldCrossStrictly(b, o) ==
  /\ o.kind = "PostOnly" /\ BestCrosses(b, o)
  /\ Best(b, Opposite(o.side)) # o.price

(* The pre-acceptance gates: zero quantity or an id that already rests, a  *)
(* post-only order that would take, a fill-or-kill that cannot fill.       *)
BadOrder(b, o) == o.qty = 0 \/ BookContains(b, o.id)

PostOnlyWouldCross(b, o) == o.kind = "PostOnly" /\ BestCrosses(b, o)

FokUnfillable(b, o) ==
  /\ o.kind = "Fok"
  /\ FillableQtyAt(b, Opposite(o.side), o.price, o.qty) < o.qty

RejectedUpfront(b, o) ==
  BadOrder(b, o) \/ PostOnlyWouldCross(b, o) \/ FokUnfillable(b, o)

-----------------------------------------------------------------------------
(* The matching loop. A call is [book, seq, remaining, out].               *)

LoopContinues(b, o, remaining) ==
  /\ remaining > 0
  /\ BestCrosses(b, o)
  /\ TakeSome(b, Opposite(o.side), Best(b, Opposite(o.side)), remaining)

(* Faulty: the maker's end repeats the number of the trade.                *)
MatchEventsSameSeq(o, price, take, seq) ==
  LET trade == Trade(o.id, take.maker, price, take.taken, seq)
  IN  IF take.remaining = 0
      THEN <<trade, Done(take.maker, 0, "Filled", seq)>>
      ELSE <<trade>>

(* The events of one iteration: the trade at the maker's price, and the    *)
(* maker's end when it was used up.                                        *)
MatchEvents(o, price, take, seq) ==
  LET trade == Trade(o.id, take.maker, price, take.taken, seq)
  IN  IF take.remaining = 0
      THEN <<trade, Done(take.maker, 0, "Filled", seq + 1)>>
      ELSE <<trade>>

MatchOnce(c, o) ==
  LET price == Best(c.book, Opposite(o.side))
      take  == TakeFront(c.book, Opposite(o.side), price, c.remaining)
  IN  [book      |-> take.book,
       seq       |-> IF take.remaining = 0 THEN c.seq + 2 ELSE c.seq + 1,
       remaining |-> SaturatingSub(c.remaining, take.taken),
       out       |-> c.out \o MatchEvents(o, price, take, c.seq)]

(* After the loop: a filled taker is done; a limit or post-only remainder  *)
(* rests under the sequence number of its Accepted event; the remainder of *)
(* a market, ioc or fok order is cancelled.                                *)
Rests(o, remaining) == remaining # 0 /\ o.kind \in {"Limit", "PostOnly"}

EndReason(o, remaining) ==
  CASE remaining = 0      -> "Filled"
    [] o.kind = "Market"  -> "NoLiquidity"
    [] OTHER              -> "Expired"

(* Faulty: the remainder rests under the next number to be issued.         *)
EndOfCallRestsAtNext(c, o, receiveSeq) ==
  IF Rests(o, c.remaining)
  THEN [c EXCEPT !.book = Add(@, o.id, o.side, o.price, c.remaining, c.seq)]
  ELSE [c EXCEPT !.seq = @ + 1,
                 !.out = Append(@, Done(o.id, c.remaining,
                                        EndReason(o, c.remaining), c.seq))]

(* Faulty: the end reports the quantity of the order, not the remainder.   *)
EndOfCallLeavesAll(c, o, receiveSeq) ==
  IF Rests(o, c.remaining)
  THEN [c EXCEPT !.book = Add(@, o.id, o.side, o.price, c.remaining, receiveSeq)]
  ELSE [c EXCEPT !.seq = @ + 1,
                 !.out = Append(@, Done(o.id, o.qty,
                                        EndReason(o, c.remaining), c.seq))]

EndOfCall(c, o, receiveSeq) ==
  IF Rests(o, c.remaining)
  THEN [c EXCEPT !.book = Add(@, o.id, o.side, o.price, c.remaining, receiveSeq)]
  ELSE [c EXCEPT !.seq = @ + 1,
                 !.out = Append(@, Done(o.id, c.remaining,
                                        EndReason(o, c.remaining), c.seq))]

-----------------------------------------------------------------------------
(* Whole calls.                                                            *)

Iteration(c, o) == IF LoopContinues(c.book, o, c.remaining) THEN MatchOnce(c, o) ELSE c

(* Faulty: the loop runs once.                                             *)
AfterOneIteration(call, o) == {Iteration(call, o)}

(* The state of the call after the loop, as a singleton. Every iteration   *)
(* but the last uses up a maker, so the number of resting orders bounds    *)
(* the number of iterations.                                               *)
AfterLoop(call, o) ==
  LET After[n \in Nat] == IF n = 0 THEN {call}
                          ELSE {Iteration(c, o) : c \in After[n - 1]}
  IN  After[Cardinality(DOMAIN call.book.index) + 1]

Received(b, seq, o) ==
  [book |-> b, seq |-> seq + 1, remaining |-> o.qty,
   out |-> <<Accepted(o.id, o.qty, seq)>>]

AcceptCall(b, seq, o) ==
  IF RejectedUpfront(b, o)
  THEN [book |-> b, seq |-> seq + 1, remaining |-> o.qty,
        out |-> <<Done(o.id, o.qty, "Rejected", seq)>>]
  ELSE CHOOSE end \in {EndOfCall(c, o, seq) : c \in AfterLoop(Received(b, seq, o), o)} : TRUE

CancelCall(b, seq, id) ==
  [book |-> CancelBook(b, id),
   seq  |-> IF CancelFinds(b, id) THEN seq + 1 ELSE seq,
   out  |-> IF CancelFinds(b, id)
            THEN <<Done(id, CancelQty(b, id), "Cancelled", seq)>> ELSE << >>]

(* The commands of the gateways, and what the matcher threads do with one. *)
NewCommand(o) == [type |-> "New", order |-> o]
CancelCommand(id) == [type |-> "Cancel", id |-> id]

AllCommands ==
  [type : {"New"}, order : NewOrders] \cup [type : {"Cancel"}, id : OrderIds]

Process(b, seq, cmd) ==
  IF cmd.type = "New" THEN AcceptCall(b, seq, cmd.order)
                      ELSE CancelCall(b, seq, cmd.id)
=============================================================================
