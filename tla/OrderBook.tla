------------------------------ MODULE OrderBook ------------------------------
(***************************************************************************)
(* The in-memory limit order book of order_book.rs as operators on a book  *)
(* value.                                                                  *)
(*                                                                         *)
(*   b.levels["Buy"], b.levels["Sell"]  the BTreeMaps bids and asks: a     *)
(*       function from the prices that have a level to the level, a        *)
(*       sequence of orders [id, qty, seq], oldest first;                  *)
(*   b.index   the HashMap from a resting id to its [side, price].         *)
(*                                                                         *)
(* A price without a level is not in the DOMAIN of the map, so an empty    *)
(* level left behind is a different book from one without the level.       *)
(* An operation that returns an Option is two operators: the condition     *)
(* under which it is Some, and the value.                                  *)
(***************************************************************************)
EXTENDS Integers, Sequences, FiniteSetsExt

CONSTANTS
  OrderIds,   \* order ids the gateways assign
  MinPrice,   \* least and greatest price, the bounds of i64 in the code
  MaxPrice,
  MaxQty      \* greatest quantity, u64::MAX in the code

ASSUME BookAssumption ==
  /\ MinPrice \in Int
  /\ MaxPrice \in Int
  /\ MaxQty \in Nat

Sides  == {"Buy", "Sell"}
Prices == MinPrice .. MaxPrice
Qtys   == 0 .. MaxQty

Opposite(side) == IF side = "Buy" THEN "Sell" ELSE "Buy"

SaturatingAdd(a, b) == IF a + b > MaxQty THEN MaxQty ELSE a + b
SaturatingSub(a, b) == IF a >= b THEN a - b ELSE 0

-----------------------------------------------------------------------------
(* Maps with an explicit set of keys.                                      *)

EmptyMap == [k \in {} |-> k]

Insert(f, k, v) == [x \in DOMAIN f \cup {k} |-> IF x = k THEN v ELSE f[x]]

Without(f, k) == Restrict(f, DOMAIN f \ {k})

-----------------------------------------------------------------------------
NewBook == [levels |-> [s \in Sides |-> EmptyMap], index |-> EmptyMap]

BookContains(b, id) == id \in DOMAIN b.index

(* The level at a price, or the empty level of or_default / None.          *)
LevelAt(b, side, price) ==
  IF price \in DOMAIN b.levels[side] THEN b.levels[side][price] ELSE << >>

(* Faulty: the empty level stays.                                          *)
StoreLevelKeepingEmpty(b, side, price, level) ==
  [b EXCEPT !.levels[side] = Insert(@, price, level)]

(* Writes a level back after orders left it; an empty level is removed.    *)
StoreLevel(b, side, price, level) ==
  [b EXCEPT !.levels[side] =
     IF level = << >> THEN Without(@, price) ELSE Insert(@, price, level)]

Unindex(b, id) == [b EXCEPT !.index = Without(@, id)]

AddOk(b, id, qty) == qty # 0 /\ ~BookContains(b, id)

(* Faulty: the order joins the level at the front.                         *)
AddInFront(b, id, side, price, qty, seq) ==
  IF ~AddOk(b, id, qty) THEN b
  ELSE LET order == [id |-> id, qty |-> qty, seq |-> seq]
           level == <<order>> \o LevelAt(b, side, price)
       IN  [levels |-> [b.levels EXCEPT ![side] = Insert(@, price, level)],
            index  |-> Insert(b.index, id, [side |-> side, price |-> price])]

Add(b, id, side, price, qty, seq) ==
  IF ~AddOk(b, id, qty) THEN b
  ELSE LET order == [id |-> id, qty |-> qty, seq |-> seq]
           level == Append(LevelAt(b, side, price), order)
       IN  [levels |-> [b.levels EXCEPT ![side] = Insert(@, price, level)],
            index  |-> Insert(b.index, id, [side |-> side, price |-> price])]

-----------------------------------------------------------------------------
(* cancel                                                                  *)

(* Position of the first order with this id in a level, 0 if there is none *)
PositionOf(level, id) ==
  LET positions == {i \in DOMAIN level : level[i].id = id}
  IN  IF positions = {} THEN 0 ELSE Min(positions)

(* VecDeque::remove                                                        *)
RemoveOrder(level, i) == SubSeq(level, 1, i - 1) \o SubSeq(level, i + 1, Len(level))

CancelLevel(b, id) == LevelAt(b, b.index[id].side, b.index[id].price)

CancelFinds(b, id) ==
  BookContains(b, id) /\ PositionOf(CancelLevel(b, id), id) # 0

CancelQty(b, id) == CancelLevel(b, id)[PositionOf(CancelLevel(b, id), id)].qty

(* The index entry goes first, whether or not the order is then found.     *)
CancelBook(b, id) ==
  IF ~BookContains(b, id) THEN b
  ELSE IF ~CancelFinds(b, id) THEN Unindex(b, id)
  ELSE LET level == CancelLevel(b, id)
       IN  StoreLevel(Unindex(b, id), b.index[id].side, b.index[id].price,
                      RemoveOrder(level, PositionOf(level, id)))

-----------------------------------------------------------------------------
(* best_bid, best_ask: Some iff the side has a level.                      *)
HasBest(b, side) == DOMAIN b.levels[side] # {}

(* Faulty: the two ends are mixed up.                                      *)
WorstOf(side, prices) == IF side = "Buy" THEN Min(prices) ELSE Max(prices)

BestOf(side, prices) == IF side = "Buy" THEN Max(prices) ELSE Min(prices)

Best(b, side) == BestOf(side, DOMAIN b.levels[side])

(* Faulty: the limit itself does not count.                                *)
StrictlyWithinLimit(side, price, limit) ==
  IF side = "Sell" THEN price < limit ELSE price > limit

(* At or better than the limit, for a taker that hits this side.           *)
WithinLimit(side, price, limit) ==
  IF side = "Sell" THEN price <= limit ELSE price >= limit

(* Faulty: the limit is ignored.                                           *)
FillableAnywhere(b, side, limit, cap) ==
  LET LevelQty(p) == MapThenSumSet(LAMBDA i : b.levels[side][p][i].qty,
                                   DOMAIN b.levels[side][p])
  IN  MapThenSumSet(LevelQty, DOMAIN b.levels[side])

(* fillable_qty_at: walk the levels from the best price, adding up with     *)
(* saturation, and stop as soon as the sum reaches the cap.                *)
FillableQtyAt(b, side, limit, cap) ==
  LET AddOrder(o, sum) == IF sum >= cap THEN sum
                          ELSE SaturatingAdd(sum, o.qty)
      AddLevel(level, sum) ==
        MapThenFoldSet(AddOrder, sum, LAMBDA i : level[i], Max, DOMAIN level)
  IN  MapThenFoldSet(AddLevel,
                     0,
                     LAMBDA p : b.levels[side][p],
                     LAMBDA ps : BestOf(Opposite(side), ps),
                     {p \in DOMAIN b.levels[side] : WithinLimit(side, p, limit)})

-----------------------------------------------------------------------------
(* take_front                                                              *)
TakeSome(b, side, price, want) ==
  want # 0 /\ LevelAt(b, side, price) # << >>

(* Faulty: a partly taken order keeps its quantity.                        *)
TakeFrontForgetting(b, side, price, want) ==
  LET level     == LevelAt(b, side, price)
      front     == Head(level)
      taken     == IF want >= front.qty THEN front.qty ELSE want
      remaining == SaturatingSub(front.qty, taken)
  IN  [maker |-> front.id, taken |-> taken, remaining |-> remaining,
       book  |-> IF remaining = 0
                 THEN StoreLevel(Unindex(b, front.id), side, price, Tail(level))
                 ELSE b]

TakeFront(b, side, price, want) ==
  LET level     == LevelAt(b, side, price)
      front     == Head(level)
      taken     == IF want >= front.qty THEN front.qty ELSE want
      remaining == SaturatingSub(front.qty, taken)
  IN  [maker     |-> front.id,
       taken     |-> taken,
       remaining |-> remaining,
       book      |->
         IF remaining = 0
         THEN StoreLevel(Unindex(b, front.id), side, price, Tail(level))
         ELSE StoreLevel(b, side, price,
                [level EXCEPT ![1].qty = remaining])]

-----------------------------------------------------------------------------
(* What a well-formed book is.                                             *)

Orders(S) == [id : OrderIds, qty : Qtys, seq : S]

BookType(b) ==
  /\ DOMAIN b = {"levels", "index"}
  /\ b.levels \in [Sides -> {b.levels[s] : s \in Sides}]
  /\ \A s \in Sides :
       /\ DOMAIN b.levels[s] \subseteq Prices
       /\ b.levels[s] \in [DOMAIN b.levels[s] -> Seq(Orders(Nat))]
  /\ DOMAIN b.index \subseteq OrderIds
  /\ b.index \in [DOMAIN b.index -> [side : Sides, price : Prices]]

(* No level without an order stays in the maps.                            *)
NoEmptyLevel(b) ==
  \A s \in Sides : \A p \in DOMAIN b.levels[s] : b.levels[s][p] # << >>

(* Every indexed id rests, at the place the index says.                    *)
IndexedRests(b) ==
  \A id \in DOMAIN b.index :
    \E i \in DOMAIN CancelLevel(b, id) : CancelLevel(b, id)[i].id = id

(* Every resting order is indexed at its place.                            *)
RestingIndexed(b) ==
  \A s \in Sides : \A p \in DOMAIN b.levels[s] :
    \A i \in DOMAIN b.levels[s][p] :
      /\ BookContains(b, b.levels[s][p][i].id)
      /\ b.index[b.levels[s][p][i].id].side = s
      /\ b.index[b.levels[s][p][i].id].price = p

(* Every resting order has quantity left.                                  *)
RestingOpen(b) ==
  \A s \in Sides : \A p \in DOMAIN b.levels[s] :
    \A i \in DOMAIN b.levels[s][p] : b.levels[s][p][i].qty > 0

(* Within a level, orders stand in the order of strictly rising sequence   *)
(* numbers; this also makes every order of a level distinct.               *)
TimeOrdered(b) ==
  \A s \in Sides : \A p \in DOMAIN b.levels[s] :
    \A i, j \in DOMAIN b.levels[s][p] :
      i < j => /\ b.levels[s][p][i].seq < b.levels[s][p][j].seq
               /\ b.levels[s][p][i].id # b.levels[s][p][j].id

(* Every bid is below every ask.                                           *)
Uncrossed(b) ==
  \A p \in DOMAIN b.levels["Buy"], q \in DOMAIN b.levels["Sell"] : p < q

(* A book whose maps agree, in time order and uncrossed.                   *)
BookOK(b) ==
  /\ BookType(b)
  /\ NoEmptyLevel(b)
  /\ IndexedRests(b)
  /\ RestingIndexed(b)
  /\ RestingOpen(b)
  /\ TimeOrdered(b)
  /\ Uncrossed(b)

(* Sequence numbers of resting orders were all issued before next.         *)
SeqsBelow(b, next) ==
  \A s \in Sides : \A p \in DOMAIN b.levels[s] :
    \A i \in DOMAIN b.levels[s][p] : b.levels[s][p][i].seq < next
=============================================================================
