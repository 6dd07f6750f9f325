---------------------------- MODULE LedgerProofs -----------------------------
(***************************************************************************)
(* The event stream and the book agree, for every set of ids, price range, *)
(* greatest quantity and length of run: the quantities that the events add *)
(* up to are the quantities of the orders, and every event is legal. The   *)
(* steps of an accept or cancel add up to the call as one operator.        *)
(***************************************************************************)
EXTENDS Ledger, MatcherProofs

(* The provers of a leaf that names none, and their time in seconds.        *)
USE SMTT(60), ZenonT(60)

-----------------------------------------------------------------------------
(* Quantities of the orders of a level and of a book.                      *)

(* In the level new every order but x is an order of old with the same     *)
(* quantity, and x, if it stands there, has quantity q.                    *)
LevelQtys(old, new, x, q) ==
  \A i \in DOMAIN new :
    /\ new[i].id = x => new[i].qty = q
    /\ new[i].id # x => \E k \in DOMAIN old : /\ new[i].id = old[k].id
                                              /\ new[i].qty = old[k].qty

(* The same of every level of the book nb.                                 *)
BookQtys(b, nb, x, q) ==
  \A s \in Sides : \A p \in DOMAIN nb.levels[s] :
    LevelQtys(LevelAt(b, s, p), nb.levels[s][p], x, q)

(* pop_front takes the front order and changes no quantity.                *)
LEMMA TailQtys ==
  ASSUME NEW L, LevelOK(L), L # << >>, NEW q
  PROVE  LevelQtys(L, Tail(L), L[1].id, q)
<1>1. L \in Seq(Orders(Nat)) /\ Len(L) \in Nat /\ Len(L) > 0 /\ DOMAIN L = 1 .. Len(L)
  BY DEF LevelOK
<1>2. /\ DOMAIN Tail(L) = 1 .. (Len(L) - 1)
      /\ \A i \in 1 .. (Len(L) - 1) : Tail(L)[i] = L[i + 1]
  BY <1>1
<1>3. \A i \in DOMAIN Tail(L) : /\ i + 1 \in DOMAIN L /\ Tail(L)[i] = L[i + 1]
                                /\ 1 < i + 1 /\ 1 \in DOMAIN L
  BY <1>1, <1>2
<1>4. \A i \in DOMAIN Tail(L) : Tail(L)[i].id # L[1].id
  BY <1>3 DEF LevelOK
<1> QED BY <1>3, <1>4 DEF LevelQtys

(* The front order is reduced in place: only its quantity changes.         *)
LEMMA ReduceQtys ==
  ASSUME NEW L, LevelOK(L), L # << >>, NEW q \in Qtys,
         NEW R, R = [L EXCEPT ![1].qty = q]
  PROVE  LevelQtys(L, R, L[1].id, q)
<1>1. L \in Seq(Orders(Nat)) /\ Len(L) \in Nat /\ Len(L) > 0 /\ DOMAIN L = 1 .. Len(L)
  BY DEF LevelOK
<1> DEFINE e == [L[1] EXCEPT !.qty = q]
<1>2. e.qty = q /\ e.id = L[1].id
  <2>1. L[1] \in Orders(Nat)
    BY <1>1
  <2> QED BY <2>1 DEF Orders
<1>3. R = [L EXCEPT ![1] = e]
  OBVIOUS
<1> HIDE DEF e
<1>4. DOMAIN R = DOMAIN L /\ R[1] = e /\ \A i \in DOMAIN R : i # 1 => R[i] = L[i]
  BY <1>1, <1>3, SMTT(60)
<1>5. \A i \in DOMAIN R : i # 1 => R[i].id # L[1].id
  <2> SUFFICES ASSUME NEW i \in DOMAIN L, i # 1 PROVE L[i].id # L[1].id
    BY <1>4
  <2>1. 1 < i /\ 1 \in DOMAIN L
    BY <1>1
  <2> QED BY <2>1 DEF LevelOK
<1>6. ASSUME NEW i \in DOMAIN R
      PROVE  /\ R[i].id = L[1].id => R[i].qty = q
             /\ R[i].id # L[1].id => \E k \in DOMAIN L : /\ R[i].id = L[k].id
                                                         /\ R[i].qty = L[k].qty
  <2>1. CASE i = 1
    BY <1>2, <1>4, <2>1
  <2>2. CASE i # 1
    BY <1>4, <1>5, <2>2
  <2> QED BY <2>1, <2>2
<1> QED BY <1>6 DEF LevelQtys

(* VecDeque::remove takes one order and changes no quantity.               *)
LEMMA RemoveQtys ==
  ASSUME NEW L, LevelOK(L), NEW k \in DOMAIN L, NEW q
  PROVE  LevelQtys(L, RemoveOrder(L, k), L[k].id, q)
<1> DEFINE R == RemoveOrder(L, k)
<1>1. Len(L) \in Nat /\ DOMAIN L = 1 .. Len(L)
  BY DEF LevelOK
<1>2. /\ DOMAIN R = 1 .. Len(L) - 1
      /\ \A i \in 1 .. Len(L) - 1 : R[i] = IF i < k THEN L[i] ELSE L[i + 1]
      /\ Shrunk(L, R, {L[k].id})
  BY RemoveMaps, RemoveShrinks
<1> HIDE DEF R
<1>3. \A i \in DOMAIN R : \E m \in DOMAIN L : R[i] = L[m]
  <2> SUFFICES ASSUME NEW i \in 1 .. Len(L) - 1
               PROVE  \E m \in DOMAIN L : R[i] = L[m]
    BY <1>2
  <2>1. i \in DOMAIN L /\ i + 1 \in DOMAIN L
    BY <1>1
  <2> QED BY <1>2, <2>1
<1>4. \A i \in DOMAIN R : R[i].id # L[k].id
  BY <1>2 DEF Shrunk
<1> QED BY <1>3, <1>4 DEF LevelQtys, R

(* One level is written back; the orders of the others keep what they had, *)
(* and x, which is indexed at that level, is not among them.               *)
LEMMA StoredQtys ==
  ASSUME NEW b, BookOK(b),
         NEW side \in Sides, NEW price \in DOMAIN b.levels[side],
         NEW level \in Seq(Orders(Nat)),
         NEW x, IndexedAt(b, x, side, price), NEW q,
         LevelQtys(b.levels[side][price], level, x, q),
         NEW c, BookType(c), c.levels = b.levels,
         NEW nb, nb = StoreLevel(c, side, price, level)
  PROVE  BookQtys(b, nb, x, q)
<1>1. LevelStored(c, nb, side, price, level)
  BY StoreLevelMaps
<1> SUFFICES ASSUME NEW s \in Sides, NEW p \in DOMAIN nb.levels[s]
             PROVE  LevelQtys(LevelAt(b, s, p), nb.levels[s][p], x, q)
  BY DEF BookQtys
<1>2. /\ p \in DOMAIN b.levels[s]
      /\ nb.levels[s][p] = IF s = side /\ p = price THEN level ELSE b.levels[s][p]
  BY <1>1 DEF LevelStored
<1>3. LevelAt(b, s, p) = b.levels[s][p]
  BY <1>2 DEF LevelAt
<1>4. CASE s = side /\ p = price
  BY <1>2, <1>3, <1>4, ZenonT(60)
<1>5. CASE ~(s = side /\ p = price)
  <2>1. \A i \in DOMAIN b.levels[s][p] : b.levels[s][p][i].id # x
    <3> SUFFICES ASSUME NEW i \in DOMAIN b.levels[s][p], b.levels[s][p][i].id = x
                 PROVE  FALSE
      OBVIOUS
    <3>1. IndexedAt(b, x, s, p)
      BY <1>2, IndexOfResting
    <3> QED BY <1>5, <3>1 DEF IndexedAt
  <2>2. nb.levels[s][p] = b.levels[s][p]
    BY <1>2, <1>5, ZenonT(60)
  <2> QED BY <1>3, <2>1, <2>2 DEF LevelQtys
<1> QED BY <1>4, <1>5

-----------------------------------------------------------------------------
(* What take_front, cancel and add do to quantities.                       *)

(* take_front takes from the maker at the front what it reports, and from  *)
(* nobody else.                                                            *)
LEMMA TakeFrontQtys ==
  ASSUME NEW b, BookOK(b), NEW side \in Sides, NEW price \in DOMAIN b.levels[side],
         NEW want \in Qtys, want > 0,
         NEW take, take = TakeFront(b, side, price, want)
  PROVE  /\ BookQtys(b, take.book, take.maker, take.remaining)
         /\ 1 \in DOMAIN b.levels[side][price]
         /\ b.levels[side][price][1].qty \in Nat
         /\ b.levels[side][price][1].qty = take.taken + take.remaining
<1> DEFINE L == b.levels[side][price]
           t == TakeFront(b, side, price, want)
<1>1. LevelOK(L) /\ L # << >>
  BY LevelIsOK
<1>2. 1 \in DOMAIN L /\ Head(L) = L[1] /\ L[1] \in Orders(Nat)
  BY <1>1, SMTT(60) DEF LevelOK
<1>3. L[1].qty \in Nat /\ want \in Nat
  BY <1>2, BookAssumption DEF Orders, Qtys
<1>4. LevelAt(b, side, price) = L
  BY DEF LevelAt
<1>5. /\ t.maker = L[1].id
      /\ t.taken = IF want >= L[1].qty THEN L[1].qty ELSE want
      /\ t.remaining = SaturatingSub(L[1].qty, IF want >= L[1].qty THEN L[1].qty ELSE want)
      /\ t.book = IF t.remaining = 0
                  THEN StoreLevel(Unindex(b, L[1].id), side, price, Tail(L))
                  ELSE StoreLevel(b, side, price,
                                  [L EXCEPT ![1].qty = t.remaining])
  BY <1>2, <1>4, ZenonT(60) DEF TakeFront
<1> HIDE DEF t, L
<1>6. t.remaining \in Qtys
  BY TakeFrontPreserves DEF TakeFrontOK, t
<1>7. L[1].qty = t.taken + t.remaining
  BY <1>3, <1>5 DEF SaturatingSub
<1>8. IndexedAt(b, L[1].id, side, price)
  BY <1>2, IndexOfResting DEF L
<1>9. CASE t.remaining = 0
  <2> DEFINE u == Unindex(b, L[1].id)
  <2>1. BookType(u) /\ u.levels = b.levels
    BY <1>8, UnindexShrinks DEF IndexShrunk
  <2>2. Tail(L) \in Seq(Orders(Nat)) /\ LevelQtys(L, Tail(L), L[1].id, 0)
    BY <1>1, TailShrinks, TailQtys, ZenonT(60)
  <2>3. t.book = StoreLevel(u, side, price, Tail(L))
    BY <1>5, <1>9
  <2> HIDE DEF u
  <2>4. BookQtys(b, t.book, L[1].id, 0)
    BY <1>8, <2>1, <2>2, <2>3, StoredQtys, ZenonT(60) DEF L
  <2> QED BY <1>2, <1>3, <1>5, <1>7, <1>9, <2>4, ZenonT(60) DEF L, t
<1>10. CASE t.remaining # 0
  <2> DEFINE R == [L EXCEPT ![1].qty = t.remaining]
  <2>1. t.remaining > 0
    BY <1>6, <1>10, BookAssumption DEF Qtys
  <2>2. R \in Seq(Orders(Nat)) /\ LevelQtys(L, R, L[1].id, t.remaining)
    BY <1>1, <1>6, <2>1, ReduceShrinks, ReduceQtys, ZenonT(60)
  <2>3. t.book = StoreLevel(b, side, price, R)
    BY <1>5, <1>10
  <2> HIDE DEF R
  <2>4. BookType(b)
    BY DEF BookOK
  <2>5. BookQtys(b, t.book, L[1].id, t.remaining)
    BY <1>8, <2>2, <2>3, <2>4, StoredQtys DEF L
  <2> QED BY <1>2, <1>3, <1>5, <1>7, <2>5, ZenonT(60) DEF L, t
<1> QED BY <1>9, <1>10

(* The indexed order with this id rests, with this quantity.               *)
RestsWith(b, id, q) ==
  \E s \in Sides : \E p \in DOMAIN b.levels[s] : \E i \in DOMAIN b.levels[s][p] :
    b.levels[s][p][i].id = id /\ b.levels[s][p][i].qty = q

(* cancel reports the quantity of the order it takes out, and changes no   *)
(* other quantity.                                                         *)
LEMMA CancelQtys ==
  ASSUME NEW b, BookOK(b), NEW id \in DOMAIN b.index
  PROVE  /\ BookQtys(b, CancelBook(b, id), id, 0)
         /\ RestsWith(b, id, CancelQty(b, id))
<1>1. PICK s \in Sides, p \in Prices : s = b.index[id].side /\ p = b.index[id].price
  BY DEF BookOK, BookType
<1>2. CancelLevel(b, id) = LevelAt(b, s, p)
  BY <1>1 DEF CancelLevel
<1>3. \E i \in DOMAIN LevelAt(b, s, p) : LevelAt(b, s, p)[i].id = id
  BY <1>2 DEF BookOK, IndexedRests
<1>4. p \in DOMAIN b.levels[s] /\ LevelAt(b, s, p) = b.levels[s][p]
  <2>1. LevelAt(b, s, p) # << >>
    BY <1>3
  <2> QED BY <2>1 DEF LevelAt
<1> DEFINE L == b.levels[s][p]
           k == PositionOf(L, id)
           u == Unindex(b, id)
<1>5. LevelOK(L)
  BY <1>4, LevelIsOK
<1>6. k \in DOMAIN L /\ k # 0 /\ L[k].id = id
  BY <1>3, <1>4, <1>5, PositionFound, SMTT(60)
<1>7. IndexedAt(b, id, s, p)
  BY <1>1 DEF IndexedAt
<1>8. CancelFinds(b, id)
  BY <1>2, <1>4, <1>6 DEF CancelFinds, BookContains
<1>9. CancelQty(b, id) = L[k].qty
  BY <1>2, <1>4, ZenonT(60) DEF CancelQty
<1>10. CancelBook(b, id) = StoreLevel(u, s, p, RemoveOrder(L, k))
  BY <1>1, <1>2, <1>4, <1>8 DEF CancelBook, BookContains
<1> HIDE DEF L, k, u
<1>11. BookType(u) /\ u.levels = b.levels
  BY <1>7, UnindexShrinks DEF IndexShrunk, u
<1>12. RemoveOrder(L, k) \in Seq(Orders(Nat)) /\ LevelQtys(L, RemoveOrder(L, k), id, 0)
  BY <1>5, <1>6, RemoveMaps, RemoveQtys
<1>13. BookQtys(b, CancelBook(b, id), id, 0)
  BY <1>4, <1>7, <1>10, <1>11, <1>12, StoredQtys DEF L
<1> QED BY <1>4, <1>6, <1>9, <1>13 DEF RestsWith, L

(* add rests the order with its quantity and changes no other quantity.    *)
LEMMA AddQtys ==
  ASSUME NEW b, BookOK(b), NEW id \in OrderIds, ~BookContains(b, id),
         NEW side \in Sides, NEW price \in Prices, NEW qty \in Qtys, qty > 0,
         NEW seqno \in Nat, NEW nb, nb = Add(b, id, side, price, qty, seqno)
  PROVE  BookQtys(b, nb, id, qty)
<1> DEFINE order == [id |-> id, qty |-> qty, seq |-> seqno]
           A == LevelAt(b, side, price)
<1>1. Appended(b, nb, side, price, order) /\ BookType(b)
  BY AddAppends DEF BookOK
<1>2. order.id = id /\ order.qty = qty
  OBVIOUS
<1> HIDE DEF order
<1> SUFFICES ASSUME NEW s \in Sides, NEW p \in DOMAIN nb.levels[s]
             PROVE  LevelQtys(LevelAt(b, s, p), nb.levels[s][p], id, qty)
  BY DEF BookQtys
<1>3. \A i \in DOMAIN LevelAt(b, s, p) : LevelAt(b, s, p)[i].id # id
  <2>1. CASE p \in DOMAIN b.levels[s]
    <3> SUFFICES ASSUME NEW i \in DOMAIN b.levels[s][p], b.levels[s][p][i].id = id
                 PROVE  FALSE
      BY <2>1 DEF LevelAt
    <3>1. IndexedAt(b, id, s, p)
      BY <2>1, IndexOfResting
    <3> QED BY <3>1 DEF IndexedAt, BookContains
  <2>2. CASE p \notin DOMAIN b.levels[s]
    BY <2>2 DEF LevelAt
  <2> QED BY <2>1, <2>2
<1>4. CASE s = side /\ p = price
  <2>1. nb.levels[s][p] = Append(A, order)
    BY <1>1, <1>4, ZenonT(60) DEF Appended
  <2>2. A \in Seq(Orders(Nat))
    BY <1>1 DEF LevelAt, BookType
  <2> HIDE DEF A
  <2>3. /\ Len(A) \in Nat /\ DOMAIN A = 1 .. Len(A)
        /\ DOMAIN Append(A, order) = 1 .. Len(A) + 1
        /\ Append(A, order)[Len(A) + 1] = order
        /\ \A i \in 1 .. Len(A) : Append(A, order)[i] = A[i]
    BY <2>2
  <2>4. \A i \in DOMAIN Append(A, order) :
          Append(A, order)[i] = order \/ (i \in DOMAIN A /\ Append(A, order)[i] = A[i])
    BY <2>3
  <2> QED BY <1>2, <1>3, <1>4, <2>1, <2>4, SMTT(60) DEF LevelQtys, A
<1>5. CASE ~(s = side /\ p = price)
  <2>1. p \in DOMAIN b.levels[s] /\ nb.levels[s][p] = b.levels[s][p]
    BY <1>1, <1>5 DEF Appended
  <2>2. LevelAt(b, s, p) = nb.levels[s][p]
    BY <2>1 DEF LevelAt
  <2> QED BY <1>3, <2>2, ZenonT(60) DEF LevelQtys
<1> QED BY <1>4, <1>5

-----------------------------------------------------------------------------
(* What the observer makes of the events.                                  *)

(* A step with no event leaves what the observer knows as it is.           *)
LEMMA ObserveNone ==
  ASSUME NEW f
  PROVE  ObserveAll(f, << >>) = f /\ Len(<< >>) = 0
BY DEF ObserveAll

(* A step with one event observes that event.                              *)
LEMMA ObserveOne ==
  ASSUME NEW f, NEW e
  PROVE  ObserveAll(f, <<e>>) = Observe(f, e) /\ Len(<<e>>) = 1 /\ <<e>>[1] = e
BY DEF ObserveAll

(* A step with two events observes them in order.                          *)
LEMMA ObserveTwo ==
  ASSUME NEW f, NEW e, NEW d
  PROVE  /\ ObserveAll(f, <<e, d>>) = Observe(Observe(f, e), d)
         /\ Len(<<e, d>>) = 2 /\ <<e, d>>[1] = e /\ <<e, d>>[2] = d
BY DEF ObserveAll

(* Accepted opens one id.                                                  *)
LEMMA ObserveAccepted ==
  ASSUME NEW f, NEW e, e.type = "Accepted", e.id \notin DOMAIN f
  PROVE  /\ Legal(f, e)
         /\ DOMAIN Observe(f, e) = DOMAIN f \cup {e.id}
         /\ Observe(f, e)[e.id] = e.qty
         /\ \A y \in DOMAIN f : Observe(f, e)[y] = f[y]
<1>1. Observe(f, e) = Insert(f, e.id, e.qty) /\ Legal(f, e)
  BY DEF Observe, Legal
<1> QED BY <1>1 DEF Insert

(* Done closes one id.                                                     *)
LEMMA ObserveDone ==
  ASSUME NEW f, NEW e, e.type = "Done", e.reason # "Rejected",
         e.id \in DOMAIN f, e.leaves = f[e.id]
  PROVE  /\ Legal(f, e)
         /\ DOMAIN Observe(f, e) = DOMAIN f \ {e.id}
         /\ \A y \in DOMAIN f : y # e.id => Observe(f, e)[y] = f[y]
<1>1. Observe(f, e) = Without(f, e.id) /\ Legal(f, e)
  BY DEF Observe, Legal
<1> QED BY <1>1 DEF Without, Restrict

(* Trade reduces two ids.                                                  *)
LEMMA ObserveTrade ==
  ASSUME NEW f, NEW e, e.type = "Trade", e.taker # e.maker,
         e.taker \in DOMAIN f, e.maker \in DOMAIN f,
         e.qty > 0, e.qty <= f[e.taker], e.qty <= f[e.maker]
  PROVE  /\ Legal(f, e)
         /\ DOMAIN Observe(f, e) = DOMAIN f
         /\ Observe(f, e)[e.taker] = f[e.taker] - e.qty
         /\ Observe(f, e)[e.maker] = f[e.maker] - e.qty
         /\ \A y \in DOMAIN f : y \notin {e.taker, e.maker} => Observe(f, e)[y] = f[y]
<1> DEFINE a == e.taker
           m == e.maker
           q == e.qty
           g == Sub(f, a, q)
           h == Sub(g, m, q)
<1>1. Observe(f, e) = h /\ Legal(f, e)
  BY DEF Observe, Legal
<1>2. DOMAIN g = DOMAIN f /\ g[a] = f[a] - q /\ \A y \in DOMAIN f : y # a => g[y] = f[y]
  BY DEF Sub
<1> HIDE DEF g
<1>3. DOMAIN h = DOMAIN g /\ h[m] = g[m] - q /\ \A y \in DOMAIN g : y # m => h[y] = g[y]
  BY <1>2 DEF Sub
<1> HIDE DEF h
<1> QED BY <1>1, <1>2, <1>3

-----------------------------------------------------------------------------
(* The open quantities f are those of the orders resting in b.             *)
RestingAgrees(f, b) ==
  \A s \in Sides : \A p \in DOMAIN b.levels[s] : \A i \in DOMAIN b.levels[s][p] :
    f[b.levels[s][p][i].id] = b.levels[s][p][i].qty

(* When the book changes the quantity of x alone and the observer does     *)
(* too, they still agree.                                                  *)
LEMMA AgreementCarries ==
  ASSUME NEW b, BookOK(b), NEW nb, BookOK(nb), NEW x, NEW q, BookQtys(b, nb, x, q),
         NEW f, RestingAgrees(f, b),
         NEW g, \A y \in DOMAIN b.index : y # x => g[y] = f[y],
         x \in DOMAIN nb.index => g[x] = q
  PROVE  RestingAgrees(g, nb)
<1> SUFFICES ASSUME NEW s \in Sides, NEW p \in DOMAIN nb.levels[s],
                    NEW i \in DOMAIN nb.levels[s][p]
             PROVE  g[nb.levels[s][p][i].id] = nb.levels[s][p][i].qty
  BY Zenon DEF RestingAgrees
<1> DEFINE o == nb.levels[s][p][i]
           L == LevelAt(b, s, p)
<1>1. IndexedAt(nb, o.id, s, p)
  BY IndexOfResting
<1>2. LevelQtys(L, nb.levels[s][p], x, q)
  BY DEF BookQtys
<1>3. CASE o.id = x
  <2>1. o.qty = q
    BY <1>2, <1>3, ZenonT(60) DEF LevelQtys
  <2> QED BY <1>1, <1>3, <2>1, ZenonT(60) DEF IndexedAt
<1>4. CASE o.id # x
  <2>1. PICK k \in DOMAIN L : o.id = L[k].id /\ o.qty = L[k].qty
    BY <1>2, <1>4, ZenonT(60) DEF LevelQtys
  <2>2. p \in DOMAIN b.levels[s] /\ L = b.levels[s][p]
    BY <2>1, SMTT(60) DEF LevelAt
  <2> HIDE DEF o, L
  <2>3. IndexedAt(b, L[k].id, s, p)
    BY <2>1, <2>2, IndexOfResting, ZenonT(60)
  <2>4. f[L[k].id] = L[k].qty
    BY <2>1, <2>2 DEF RestingAgrees
  <2>5. g[o.id] = o.qty
    BY <1>4, <2>1, <2>3, <2>4 DEF IndexedAt
  <2> QED BY <2>5, ZenonT(60) DEF o
<1> QED BY <1>3, <1>4, ZenonT(60)

-----------------------------------------------------------------------------
(* Every step keeps the agreement and emits legal events.                  *)

LegalEvents(f, evs) ==
  /\ Len(evs) >= 1 => Legal(f, evs[1])
  /\ Len(evs) >= 2 => Legal(Observe(f, evs[1]), evs[2])

(* The agreement from its three parts.                                     *)
LEMMA AgreementParts ==
  LedgerAgrees <=>
    /\ DOMAIN open = DOMAIN book.index \cup (IF Idle THEN {} ELSE {taker.order.id})
    /\ ~Idle => open[taker.order.id] = taker.remaining
    /\ RestingAgrees(open, book)
BY Zenon DEF LedgerAgrees, RestingAgrees

(* An order that rests is open.                                            *)
LEMMA RestingIsOpen ==
  ASSUME NEW b, BookOK(b), NEW f, RestingAgrees(f, b), NEW id, NEW q, RestsWith(b, id, q)
  PROVE  id \in DOMAIN b.index /\ f[id] = q
<1> SUFFICES ASSUME NEW s \in Sides, NEW p \in DOMAIN b.levels[s],
                    NEW i \in DOMAIN b.levels[s][p],
                    b.levels[s][p][i].id = id, b.levels[s][p][i].qty = q
             PROVE  id \in DOMAIN b.index /\ f[id] = q
  BY Zenon DEF RestsWith
<1>1. IndexedAt(b, id, s, p)
  BY IndexOfResting
<1> QED BY <1>1 DEF IndexedAt, RestingAgrees

(* An upfront rejection opens nothing.                                     *)
LEMMA RejectLedger ==
  ASSUME LedgerAgrees, NEW o \in NewOrders, Reject(o), open' = ObserveAll(open, out')
  PROVE  LedgerAgrees' /\ LegalEvents(open, out')
<1> DEFINE e == Done(o.id, o.qty, "Rejected", seq)
<1>1. out' = <<e>> /\ book' = book /\ taker' = taker
  BY DEF Reject
<1>2. e.type = "Done" /\ e.reason = "Rejected"
  BY DEF Done
<1> HIDE DEF e
<1>3. Observe(open, e) = open /\ Legal(open, e)
  BY <1>2 DEF Observe, Legal
<1>4. open' = open
  BY <1>1, <1>3, ObserveOne
<1>5. LegalEvents(open, out')
  BY <1>1, <1>3, ObserveOne DEF LegalEvents
<1> QED BY <1>1, <1>4, <1>5, ZenonT(60) DEF LedgerAgrees, Idle

(* The receive acknowledgement opens the taker, with its whole quantity.   *)
LEMMA ReceiveLedger ==
  ASSUME IInv, LedgerAgrees, NEW o \in NewOrders, Receive(o), open' = ObserveAll(open, out')
  PROVE  LedgerAgrees' /\ LegalEvents(open, out')
<1> DEFINE e == Accepted(o.id, o.qty, seq)
<1>1. /\ out' = <<e>> /\ book' = book /\ Idle
      /\ taker' = [order |-> o, remaining |-> o.qty, receiveSeq |-> seq]
      /\ o.id \notin DOMAIN book.index
  BY DEF Receive, RejectedUpfront, BadOrder, BookContains
<1>2. DOMAIN open = DOMAIN book.index /\ RestingAgrees(open, book) /\ BookOK(book)
  BY <1>1, AgreementParts DEF IInv
<1> HIDE DEF e
<1>3. /\ Legal(open, e)
      /\ DOMAIN Observe(open, e) = DOMAIN open \cup {o.id}
      /\ Observe(open, e)[o.id] = o.qty
      /\ \A y \in DOMAIN open : Observe(open, e)[y] = open[y]
  <2>1. e.type = "Accepted" /\ e.id = o.id /\ e.qty = o.qty /\ e.id \notin DOMAIN open
    BY <1>1, <1>2 DEF e, Accepted
  <2>2. /\ Legal(open, e)
        /\ DOMAIN Observe(open, e) = DOMAIN open \cup {e.id}
        /\ Observe(open, e)[e.id] = e.qty
        /\ \A y \in DOMAIN open : Observe(open, e)[y] = open[y]
    BY <2>1, ObserveAccepted, Zenon
  <2> QED BY <2>1, <2>2
<1>4. open' = Observe(open, e)
  BY <1>1, ObserveOne
<1>5. LegalEvents(open, out')
  BY <1>1, <1>3, ObserveOne DEF LegalEvents
<1>6. RestingAgrees(open', book')
  <2> SUFFICES ASSUME NEW s \in Sides, NEW p \in DOMAIN book.levels[s],
                      NEW i \in DOMAIN book.levels[s][p]
               PROVE  open'[book.levels[s][p][i].id] = book.levels[s][p][i].qty
    BY <1>1, Zenon DEF RestingAgrees
  <2>1. IndexedAt(book, book.levels[s][p][i].id, s, p)
    BY <1>2, IndexOfResting
  <2> QED BY <1>2, <1>3, <1>4, <2>1, ZenonT(60) DEF IndexedAt, RestingAgrees
<1>7. taker' # NoTaker /\ taker'.order = o /\ taker'.remaining = o.qty
  <2>1. taker' \in Takers
    BY <1>1, OrderFields DEF Takers, IInv, TypeOK
  <2> QED BY <1>1, <2>1, TakerNotIdle
<1>8. /\ DOMAIN open' = DOMAIN book'.index \cup (IF Idle' THEN {} ELSE {taker'.order.id})
      /\ ~Idle' => open'[taker'.order.id] = taker'.remaining
  BY <1>1, <1>2, <1>3, <1>4, <1>7 DEF Idle
<1> QED BY <1>5, <1>6, <1>8, ZenonT(60) DEF LedgerAgrees, RestingAgrees

(* cancel closes the order it takes out, and reports what was open of it.  *)
LEMMA CancelLedger ==
  ASSUME IInv, LedgerAgrees, NEW id \in OrderIds, Cancel(id), open' = ObserveAll(open, out')
  PROVE  LedgerAgrees' /\ LegalEvents(open, out')
<1>1. /\ book' = CancelBook(book, id) /\ taker' = taker /\ Idle
      /\ out' = IF CancelFinds(book, id)
                THEN <<Done(id, CancelQty(book, id), "Cancelled", seq)>> ELSE << >>
  BY DEF Cancel, CancelCall
<1>2. DOMAIN open = DOMAIN book.index /\ RestingAgrees(open, book) /\ BookOK(book)
  BY <1>1, AgreementParts DEF IInv
<1>3. CancelOK(book, id)
  BY <1>2, CancelPreserves, ZenonT(60)
<1>4. CASE id \notin DOMAIN book.index
  <2>1. book' = book /\ out' = << >>
    BY <1>1, <1>3, <1>4 DEF CancelOK, CancelBook, BookContains
  <2>2. open' = open /\ LegalEvents(open, out')
    BY <2>1, ObserveNone DEF LegalEvents
  <2> QED BY <1>1, <2>1, <2>2, SMTT(60) DEF LedgerAgrees, Idle
<1>5. CASE id \in DOMAIN book.index
  <2> DEFINE e == Done(id, CancelQty(book, id), "Cancelled", seq)
  <2>1. out' = <<e>>
    BY <1>1, <1>3, <1>5 DEF CancelOK
  <2>2. BookQtys(book, book', id, 0) /\ open[id] = CancelQty(book, id)
    BY <1>1, <1>2, <1>5, CancelQtys, RestingIsOpen
  <2> HIDE DEF e
  <2>3. /\ Legal(open, e)
        /\ DOMAIN Observe(open, e) = DOMAIN open \ {id}
        /\ \A y \in DOMAIN open : y # id => Observe(open, e)[y] = open[y]
    <3>1. e.type = "Done" /\ e.reason = "Cancelled" /\ e.id = id /\ e.leaves = CancelQty(book, id)
      BY DEF e, Done
    <3> QED BY <1>2, <1>5, <2>2, <3>1, ObserveDone, SMTT(60)
  <2>4. open' = Observe(open, e) /\ LegalEvents(open, out')
    BY <2>1, <2>3, ObserveOne DEF LegalEvents
  <2>5. BookOK(book') /\ DOMAIN book'.index = DOMAIN book.index \ {id}
    BY <1>1, <1>3 DEF CancelOK
  <2>6. RestingAgrees(open', book')
    BY <1>2, <2>2, <2>3, <2>4, <2>5, AgreementCarries, SMTT(60)
  <2>7. DOMAIN open' = DOMAIN book'.index /\ Idle'
    BY <1>1, <1>2, <2>3, <2>4, <2>5 DEF Idle
  <2> QED BY <2>4, <2>6, <2>7, ZenonT(60) DEF LedgerAgrees, RestingAgrees
<1> QED BY <1>4, <1>5

(* The end of the call: a remainder that rests keeps what is open of it,   *)
(* any other taker closes and reports what is open.                        *)
LEMMA FinishLedger ==
  ASSUME IInv, IInv', LedgerAgrees, Finish, open' = ObserveAll(open, out')
  PROVE  LedgerAgrees' /\ LegalEvents(open, out')
<1> DEFINE o == taker.order
           r == taker.remaining
<1>1. /\ BookOK(book) /\ BookOK(book') /\ ~Idle /\ taker' = NoTaker
      /\ o \in NewOrders /\ r \in Qtys /\ taker.receiveSeq \in Nat
      /\ ~BookContains(book, o.id)
  BY TakerFields DEF IInv, TypeOK, Finish, Idle, NoSelfTrade
<1>2. /\ DOMAIN open = DOMAIN book.index \cup {o.id} /\ open[o.id] = r
      /\ RestingAgrees(open, book)
  BY <1>1, AgreementParts
<1>3. o.id \in OrderIds /\ o.side \in Sides /\ (o.kind # "Market" => o.price \in Prices)
  BY <1>1, OrderFields
<1>4. Idle'
  BY <1>1 DEF Idle
<1>5. SUFFICES /\ DOMAIN open' = DOMAIN book'.index
               /\ RestingAgrees(open', book')
               /\ LegalEvents(open, out')
  BY <1>4, ZenonT(60) DEF LedgerAgrees, RestingAgrees
<1>6. CASE Rests(o, r)
  <2>1. /\ book' = Add(book, o.id, o.side, o.price, r, taker.receiveSeq)
        /\ out' = << >>
    BY <1>6, FinishStep
  <2>2. r > 0 /\ o.price \in Prices
    BY <1>1, <1>3, <1>6, BookAssumption DEF Rests, Qtys
  <2> HIDE DEF o, r
  <2>3. BookQtys(book, book', o.id, r)
    BY <1>1, <1>3, <2>1, <2>2, AddQtys
  <2>4. DOMAIN book'.index = DOMAIN book.index \cup {o.id}
    <3> DEFINE order == [id |-> o.id, qty |-> r, seq |-> taker.receiveSeq]
    <3>1. BookType(book)
      BY <1>1 DEF BookOK
    <3>2. Appended(book, book', o.side, o.price, order)
      BY <1>1, <1>3, <2>1, <2>2, <3>1, AddAppends
    <3>3. order.id = o.id
      OBVIOUS
    <3> HIDE DEF order
    <3> QED BY <3>2, <3>3 DEF Appended
  <2>5. open' = open /\ LegalEvents(open, out')
    BY <2>1, ObserveNone DEF LegalEvents
  <2>6. RestingAgrees(open', book')
    BY <1>1, <1>2, <2>3, <2>5, AgreementCarries, SMTT(60)
  <2> QED BY <1>2, <2>4, <2>5, <2>6
<1>7. CASE ~Rests(o, r)
  <2> DEFINE e == Done(o.id, r, EndReason(o, r), seq)
  <2>1. book' = book /\ out' = <<e>>
    BY <1>7, FinishStep
  <2>2. e.type = "Done" /\ e.id = o.id /\ e.leaves = r /\ e.reason # "Rejected"
    BY DEF Done, EndReason
  <2> HIDE DEF e, o, r
  <2>3. /\ Legal(open, e)
        /\ DOMAIN Observe(open, e) = DOMAIN open \ {o.id}
        /\ \A y \in DOMAIN open : y # o.id => Observe(open, e)[y] = open[y]
    BY <1>2, <2>2, ObserveDone, SMTT(60)
  <2>4. open' = Observe(open, e) /\ LegalEvents(open, out')
    BY <2>1, <2>3, ObserveOne DEF LegalEvents
  <2>5. DOMAIN open' = DOMAIN book'.index
    BY <1>1, <1>2, <2>1, <2>3, <2>4 DEF BookContains
  <2>6. RestingAgrees(open', book')
    <3> SUFFICES ASSUME NEW s \in Sides, NEW p \in DOMAIN book.levels[s],
                        NEW i \in DOMAIN book.levels[s][p]
                 PROVE  open'[book.levels[s][p][i].id] = book.levels[s][p][i].qty
      BY <2>1, Zenon DEF RestingAgrees
    <3>1. IndexedAt(book, book.levels[s][p][i].id, s, p)
      BY <1>1, IndexOfResting, ZenonT(60)
    <3>2. open[book.levels[s][p][i].id] = book.levels[s][p][i].qty
      BY <1>2 DEF RestingAgrees
    <3> QED BY <1>1, <1>2, <2>3, <2>4, <3>1, <3>2, ZenonT(60) DEF IndexedAt, BookContains
  <2> QED BY <2>4, <2>5, <2>6
<1> QED BY <1>6, <1>7

(* One iteration: the trade takes the same quantity from the taker and     *)
(* from the maker at the front, and a maker with nothing left closes.      *)
LEMMA MatchLedger ==
  ASSUME IInv, IInv', LedgerAgrees, Match, open' = ObserveAll(open, out')
  PROVE  LedgerAgrees' /\ LegalEvents(open, out')
<1> DEFINE s == Opposite(taker.order.side)
           p == Best(book, s)
           t == TakeFront(book, s, p, taker.remaining)
           a == taker.order.id
           L == book.levels[s][p]
<1>1. /\ s \in Sides /\ p \in DOMAIN book.levels[s]
      /\ taker \in Takers /\ taker.remaining \in Qtys /\ taker.remaining > 0
      /\ TakeFrontOK(book, s, p, taker.remaining, t)
      /\ book' = t.book
      /\ taker' = [taker EXCEPT !.remaining = SaturatingSub(taker.remaining, t.taken)]
      /\ out' = << >> \o MatchEvents(taker.order, p, t, seq)
  BY MatchStep
<1>2. /\ BookOK(book) /\ BookOK(book') /\ ~Idle /\ a \notin DOMAIN book.index
  BY DEF IInv, Match, NoSelfTrade, BookContains
<1>3. /\ DOMAIN open = DOMAIN book.index \cup {a} /\ open[a] = taker.remaining
      /\ RestingAgrees(open, book)
  BY <1>2, AgreementParts
<1>0. t = TakeFront(book, s, p, taker.remaining)
  OBVIOUS
<1> HIDE DEF s, p, t
<1>4. /\ BookQtys(book, t.book, t.maker, t.remaining)
      /\ 1 \in DOMAIN L /\ L[1].qty = t.taken + t.remaining
  BY <1>0, <1>1, <1>2, TakeFrontQtys, SMTT(60)
<1>5. /\ t.taken \in Nat /\ 0 < t.taken /\ t.taken <= taker.remaining
      /\ t.remaining \in Nat /\ taker.remaining \in Nat
      /\ t.maker = L[1].id /\ t.maker \in DOMAIN book.index
      /\ DOMAIN book'.index = DOMAIN book.index \ (IF t.remaining = 0 THEN {t.maker} ELSE {})
  <2>1. taker.remaining \in Nat /\ \A q \in Qtys : q \in Nat
    BY <1>1, BookAssumption DEF Qtys
  <2>2. /\ t.taken \in Nat /\ 0 < t.taken /\ t.taken <= taker.remaining
        /\ t.remaining \in Qtys /\ t.maker = L[1].id
        /\ t.maker \in DOMAIN book.index
    BY <1>1, ZenonT(60) DEF TakeFrontOK, IndexedAt
  <2>3. DOMAIN t.book.index = DOMAIN book.index \ (IF t.remaining = 0 THEN {t.maker} ELSE {})
    BY <1>1 DEF TakeFrontOK
  <2> QED BY <1>1, <2>1, <2>2, <2>3
<1>6. open[t.maker] = t.taken + t.remaining
  BY <1>1, <1>3, <1>4, <1>5, ZenonT(60) DEF RestingAgrees
<1> HIDE DEF L
<1>7. taker' # NoTaker /\ taker'.order.id = a /\ taker'.remaining = taker.remaining - t.taken
  <2>1. SaturatingSub(taker.remaining, t.taken) = taker.remaining - t.taken
    BY <1>5 DEF SaturatingSub
  <2>2. taker' = [taker EXCEPT !.remaining = taker.remaining - t.taken]
    BY <1>1, <2>1
  <2>3. taker.remaining - t.taken \in Qtys
    BY <1>1, <1>5, BookAssumption DEF Qtys
  <2>4. /\ taker' \in Takers /\ taker'.order = taker.order
        /\ taker'.remaining = taker.remaining - t.taken
    BY <1>1, <2>2, <2>3 DEF Takers
  <2> QED BY <2>4, TakerNotIdle
<1> DEFINE e == Trade(a, t.maker, p, t.taken, seq)
           d == Done(t.maker, 0, "Filled", seq + 1)
           f == Observe(open, e)
<1>8. /\ e.type = "Trade" /\ e.taker = a /\ e.maker = t.maker /\ e.qty = t.taken
      /\ d.type = "Done" /\ d.reason = "Filled" /\ d.id = t.maker /\ d.leaves = 0
  BY DEF Trade, Done
<1>9. out' = IF t.remaining = 0 THEN <<e, d>> ELSE <<e>>
  <2>1. MatchEvents(taker.order, p, t, seq) = IF t.remaining = 0 THEN <<e, d>> ELSE <<e>>
    BY Zenon DEF MatchEvents
  <2>2. << >> \o <<e, d>> = <<e, d>> /\ << >> \o <<e>> = <<e>>
    <3> HIDE DEF e, d
    <3>1. <<e, d>> \in Seq({e, d}) /\ <<e>> \in Seq({e})
      OBVIOUS
    <3> QED BY <3>1
  <2> QED BY <1>1, <2>1, <2>2
<1> HIDE DEF e, d, a
<1>10. /\ Legal(open, e) /\ DOMAIN f = DOMAIN open
       /\ f[a] = taker.remaining - t.taken
       /\ f[t.maker] = t.remaining
       /\ \A y \in DOMAIN open : y \notin {a, t.maker} => f[y] = open[y]
  <2>1. /\ e.taker # e.maker /\ e.taker \in DOMAIN open /\ e.maker \in DOMAIN open
        /\ e.qty > 0 /\ e.qty <= open[e.taker] /\ e.qty <= open[e.maker]
    BY <1>2, <1>3, <1>5, <1>6, <1>8, SMTT(60)
  <2>2. /\ Legal(open, e)
        /\ DOMAIN f = DOMAIN open
        /\ f[e.taker] = open[e.taker] - e.qty
        /\ f[e.maker] = open[e.maker] - e.qty
        /\ \A y \in DOMAIN open : y \notin {e.taker, e.maker} => f[y] = open[y]
    BY <1>8, <2>1, ObserveTrade
  <2> HIDE DEF f
  <2>3. f[t.maker] = t.remaining
    BY <1>5, <1>6, <1>8, <2>2, SMTT(60)
  <2> QED BY <1>3, <1>8, <2>2, <2>3
<1> HIDE DEF f
<1>11. SUFFICES /\ DOMAIN open' = DOMAIN book'.index \cup {a}
                /\ open'[a] = taker.remaining - t.taken
                /\ RestingAgrees(open', book')
                /\ LegalEvents(open, out')
  BY <1>7, ZenonT(60) DEF LedgerAgrees, RestingAgrees, Idle
<1>12. CASE t.remaining = 0
  <2>1. out' = <<e, d>>
    BY <1>9, <1>12, ZenonT(60)
  <2>2. /\ Legal(f, d)
        /\ DOMAIN Observe(f, d) = DOMAIN f \ {t.maker}
        /\ \A y \in DOMAIN f : y # t.maker => Observe(f, d)[y] = f[y]
    BY <1>3, <1>5, <1>8, <1>10, <1>12, ObserveDone, SMTT(60)
  <2>3. open' = Observe(f, d) /\ LegalEvents(open, out')
    BY <1>10, <2>1, <2>2, ObserveTwo, SMTT(60) DEF LegalEvents, f
  <2>4. DOMAIN open' = DOMAIN book'.index \cup {a} /\ open'[a] = taker.remaining - t.taken
    BY <1>2, <1>3, <1>5, <1>10, <1>12, <2>2, <2>3
  <2>5. \A y \in DOMAIN book.index : y # t.maker => open'[y] = open[y]
    BY <1>2, <1>3, <1>10, <2>2, <2>3
  <2>6. t.maker \notin DOMAIN book'.index
    BY <1>5, <1>12
  <2>7. RestingAgrees(open', book')
    BY <1>1, <1>2, <1>3, <1>4, <2>5, <2>6, AgreementCarries
  <2> QED BY <2>3, <2>4, <2>7
<1>13. CASE t.remaining # 0
  <2>1. out' = <<e>>
    BY <1>9, <1>13
  <2>2. open' = f /\ LegalEvents(open, out')
    BY <1>10, <2>1, ObserveOne DEF LegalEvents, f
  <2>3. DOMAIN open' = DOMAIN book'.index \cup {a} /\ open'[a] = taker.remaining - t.taken
    BY <1>3, <1>5, <1>10, <1>13, <2>2
  <2>4. \A y \in DOMAIN book.index : y # t.maker => open'[y] = open[y]
    BY <1>2, <1>3, <1>10, <2>2
  <2>5. open'[t.maker] = t.remaining
    BY <1>10, <2>2
  <2>6. RestingAgrees(open', book')
    BY <1>1, <1>2, <1>3, <1>4, <2>4, <2>5, AgreementCarries
  <2> QED BY <2>2, <2>3, <2>6
<1> QED BY <1>12, <1>13

(* Every step of accept and cancel keeps the agreement.                    *)
LEMMA NextLedger ==
  ASSUME IInv, LedgerAgrees, LedgerNext
  PROVE  LedgerAgrees' /\ LegalEvents(open, out')
<1>1. Next /\ open' = ObserveAll(open, out')
  BY DEF LedgerNext, CallsNext
<1>2. IInv'
  BY <1>1, NextInv
<1>3. ASSUME NEW o \in NewOrders, Reject(o) PROVE LedgerAgrees' /\ LegalEvents(open, out')
  BY <1>1, <1>3, RejectLedger
<1>4. ASSUME NEW o \in NewOrders, Receive(o) PROVE LedgerAgrees' /\ LegalEvents(open, out')
  BY <1>1, <1>4, ReceiveLedger
<1>5. ASSUME NEW id \in OrderIds, Cancel(id) PROVE LedgerAgrees' /\ LegalEvents(open, out')
  BY <1>1, <1>5, CancelLedger
<1>6. CASE Match
  BY <1>1, <1>2, <1>6, MatchLedger
<1>7. CASE Finish
  BY <1>1, <1>2, <1>7, FinishLedger
<1> QED BY <1>1, <1>3, <1>4, <1>5, <1>6, <1>7 DEF Next, NewCall

-----------------------------------------------------------------------------
(* The theorems.                                                           *)

(* The matcher's invariant and the agreement hold together.                *)
LedgerIInv == IInv /\ LedgerAgrees

(* A new matcher has no open order and no resting one.                     *)
LEMMA InitLedger ==
  LedgerInit => LedgerIInv
<1> SUFFICES ASSUME LedgerInit PROVE LedgerIInv
  OBVIOUS
<1>1. Init /\ open = EmptyMap
  BY DEF LedgerInit, CallsInit
<1>2. IInv
  BY <1>1, InitInv
<1>3. /\ DOMAIN open = {} /\ DOMAIN book.index = {} /\ Idle
      /\ \A s \in Sides : DOMAIN book.levels[s] = {}
  BY <1>1 DEF Init, NewBook, EmptyMap, Idle
<1> QED BY <1>2, <1>3 DEF LedgerIInv, LedgerAgrees

(* The pair is inductive.                                                  *)
LEMMA LedgerInductive ==
  LedgerIInv /\ [LedgerNext]_ledgerVars => LedgerIInv'
<1> SUFFICES ASSUME LedgerIInv, [LedgerNext]_ledgerVars PROVE LedgerIInv'
  OBVIOUS
<1>1. CASE LedgerNext
  <2>1. Next
    BY <1>1 DEF LedgerNext, CallsNext
  <2> QED BY <1>1, <2>1, NextInv, NextLedger DEF LedgerIInv
<1>2. CASE UNCHANGED ledgerVars
  <2>1. UNCHANGED vars /\ UNCHANGED open
    BY <1>2 DEF ledgerVars, callVars, vars
  <2>2. IInv'
    BY <2>1, NextInv DEF LedgerIInv
  <2> QED BY <2>1, <2>2, ZenonT(60) DEF LedgerIInv, LedgerAgrees, vars, Idle
<1> QED BY <1>1, <1>2

(* The open quantities that the Accepted, Trade and Done events of accept  *)
(* and cancel add up to are always the quantities of the orders: nothing   *)
(* is overfilled, lost or created between book and event stream.           *)
THEOREM EventsAddUp ==
  LedgerSpec => []LedgerAgrees
<1>1. LedgerInit => LedgerIInv
  BY InitLedger
<1>2. LedgerIInv /\ [LedgerNext]_ledgerVars => LedgerIInv'
  BY LedgerInductive
<1>3. LedgerIInv => LedgerAgrees
  BY DEF LedgerIInv
<1> QED BY <1>1, <1>2, <1>3, PTL DEF LedgerSpec

(* Every event accept and cancel emit is legal where it stands: an id is   *)
(* opened once, a trade has two open orders with enough quantity, and the  *)
(* leaves_qty of a Done is what the events before it left open.            *)
THEOREM EventsLegal ==
  LedgerSpec => LifecycleConsistent
<1>1. LedgerInit => LedgerIInv
  BY InitLedger
<1>2. LedgerIInv /\ [LedgerNext]_ledgerVars => LedgerIInv'
  BY LedgerInductive
<1> DEFINE Step == /\ Len(out') >= 1 => Legal(open, out'[1])
                   /\ Len(out') >= 2 => Legal(Observe(open, out'[1]), out'[2])
<1>3. LedgerIInv /\ [LedgerNext]_ledgerVars => [Step]_ledgerVars
  <2> SUFFICES ASSUME LedgerIInv, LedgerNext PROVE Step
    OBVIOUS
  <2>1. LegalEvents(open, out')
    BY NextLedger DEF LedgerIInv
  <2> QED BY <2>1 DEF LegalEvents
<1>4. LedgerSpec => [][Step]_ledgerVars
  <2> HIDE DEF Step
  <2> QED BY <1>1, <1>2, <1>3, PTL DEF LedgerSpec
<1> QED BY <1>4, PTL DEF LifecycleConsistent

-----------------------------------------------------------------------------
(* A call in steps and the call as one operator.                           *)

(* The call in progress, with the events of all its steps.                 *)
CallNow == [book |-> book, seq |-> seq, remaining |-> taker.remaining, out |-> buffer]

(* The steps so far are the first k iterations of the loop of AfterLoop.   *)
OnTheWay ==
  \E k \in Nat :
    LoopRun(Received(start.book, start.seq, taker.order), taker.order)[k] = {CallNow}

(* The call began on a well-formed book, with an order that was accepted.  *)
StartedOK ==
  /\ BookOK(start.book) /\ IsFiniteSet(DOMAIN start.book.index)
  /\ start.seq \in Nat /\ SeqsBelow(start.book, start.seq)
  /\ ~RejectedUpfront(start.book, taker.order)
  /\ taker.receiveSeq = start.seq

CallsIInv ==
  /\ IInv
  /\ IsFiniteSet(DOMAIN book.index)
  /\ buffer \in Seq(Events)
  /\ Idle => buffer = << >>
  /\ ~Idle => StartedOK /\ OnTheWay

(* Once the loop has nothing to do it stays where it is.                   *)
LEMMA LoopStays ==
  ASSUME NEW call, NEW o, NEW c, ~LoopContinues(c.book, o, c.remaining),
         NEW i \in Nat, LoopRun(call, o)[i] = {c}
  PROVE  \A j \in Nat : LoopRun(call, o)[i + j] = {c}
<1> DEFINE f == LoopRun(call, o)
           T == {j \in Nat : f[i + j] = {c}}
<1>1. \A k \in Nat : f[k + 1] = Iterated(f[k], o)
  BY LoopRunDef
<1>2. f[i] = {c}
  OBVIOUS
<1> HIDE DEF f
<1>3. 0 \in T
  BY <1>2
<1>4. ASSUME NEW j \in Nat, j \in T PROVE j + 1 \in T
  <2>1. f[i + j] = {c} /\ i + j \in Nat /\ (i + j) + 1 = i + (j + 1)
    BY <1>4
  <2>2. Iterated({c}, o) = {c}
    BY DEF Iterated, Iteration
  <2>3. f[(i + j) + 1] = {c}
    BY <1>1, <2>1, <2>2, ZenonT(60)
  <2> QED BY <2>1, <2>3
<1> HIDE DEF T
<1>5. Nat \subseteq T
  BY <1>3, <1>4, SetInduction, ZenonT(60)
<1> QED BY <1>5 DEF T, f

(* A call that is on the way and has nothing left to match is the one that *)
(* AfterLoop ends in.                                                      *)
LEMMA LoopReached ==
  ASSUME NEW o \in NewOrders, NEW b, BookOK(b), NEW n \in Nat, SeqsBelow(b, n),
         ~BookContains(b, o.id), IsFiniteSet(DOMAIN b.index),
         NEW c, ~LoopContinues(c.book, o, c.remaining),
         NEW k \in Nat, LoopRun(Received(b, n, o), o)[k] = {c}
  PROVE  AfterLoop(Received(b, n, o), o) = {c}
<1> DEFINE call == Received(b, n, o)
           K == Cardinality(DOMAIN b.index) + 1
<1>1. call.book = b
  BY ZenonT(60) DEF Received
<1>2. K \in Nat
  BY FS_CardinalityType
<1> HIDE DEF call
<1>3. AfterLoop(call, o) = LoopRun(call, o)[K]
  BY <1>1, AfterLoopRuns, ZenonT(60)
<1> HIDE DEF K
<1>4. PICK e : AfterLoop(call, o) = {e} /\ LoopEnd(e, o, b, n)
  BY LoopEnds, ZenonT(60) DEF call
<1>5. LoopRun(call, o)[K] = {e} /\ ~LoopContinues(e.book, o, e.remaining)
  BY <1>3, <1>4, ZenonT(60) DEF LoopEnd
<1>6. LoopRun(call, o)[K + k] = {e}
  BY <1>2, <1>5, LoopStays
<1>7. LoopRun(call, o)[k] = {c}
  BY ZenonT(60) DEF call
<1>8. LoopRun(call, o)[k + K] = {c}
  BY <1>2, <1>7, LoopStays
<1>9. k + K = K + k
  BY <1>2
<1> QED BY <1>4, <1>6, <1>8, <1>9 DEF call

(* The receive: the call begins.                                           *)
LEMMA ReceiveCalls ==
  ASSUME CallsIInv, CallsNext, NEW o \in NewOrders, Receive(o)
  PROVE  CallsIInv'
<1>1. /\ IInv /\ IsFiniteSet(DOMAIN book.index) /\ Idle /\ buffer = << >>
      /\ book' = book /\ seq' = seq + 1
      /\ taker' = [order |-> o, remaining |-> o.qty, receiveSeq |-> seq]
      /\ out' = <<Accepted(o.id, o.qty, seq)>>
      /\ ~RejectedUpfront(book, o)
  BY ZenonT(60) DEF CallsIInv, Receive
<1>2. IInv'
  BY <1>1, ReceiveInv
<1>3. /\ taker'.order = o /\ taker'.remaining = o.qty /\ taker'.receiveSeq = seq
      /\ taker' \in Takers /\ taker' # NoTaker /\ out' \in Seq(Events)
  <2>1. taker'.order = o /\ taker'.remaining = o.qty /\ taker'.receiveSeq = seq
    BY <1>1
  <2>2. taker' \in Takers
    BY <1>1, OrderFields DEF IInv, TypeOK, Takers
  <2>3. taker' # NoTaker
    BY <2>2, TakerNotIdle
  <2> QED BY <1>2, <2>1, <2>2, <2>3 DEF IInv, TypeOK
<1>4. start' = [book |-> book, seq |-> seq] /\ buffer' = buffer \o out'
  BY <1>1, <1>3 DEF CallsNext
<1>5. buffer' = out'
  BY <1>1, <1>3, <1>4
<1>6. start'.book = book /\ start'.seq = seq
  BY <1>4, ZenonT(60)
<1>7. StartedOK'
  <2>1. BookOK(book) /\ seq \in Nat /\ SeqsBelow(book, seq)
    BY <1>1 DEF IInv, TypeOK
  <2> QED BY <1>1, <1>3, <1>6, <2>1 DEF StartedOK
<1>8. OnTheWay'
  <2> DEFINE call == Received(book, seq, o)
  <2>1. CallNow' = call
    BY <1>1, <1>3, <1>5 DEF CallNow, Received
  <2>2. LoopRun(call, o)[0] = {call}
    BY LoopRunDef
  <2>3. Received(start'.book, start'.seq, taker'.order) = call
    BY <1>3, <1>6, ZenonT(60)
  <2> HIDE DEF call
  <2>4. LoopRun(Received(start'.book, start'.seq, taker'.order), taker'.order)[0] = {CallNow'}
    BY <1>3, <2>1, <2>2, <2>3
  <2> QED BY <2>4 DEF OnTheWay
<1> QED BY <1>1, <1>2, <1>3, <1>5, <1>7, <1>8 DEF CallsIInv, Idle

(* One iteration.                                                          *)
LEMMA MatchCalls ==
  ASSUME CallsIInv, CallsNext, Match
  PROVE  CallsIInv'
<1> DEFINE o == taker.order
           s == Opposite(o.side)
           p == Best(book, s)
           t == TakeFront(book, s, p, taker.remaining)
           evs == MatchEvents(o, p, t, seq)
           i == Iteration(CallNow, o)
<1>1. /\ IInv /\ IsFiniteSet(DOMAIN book.index) /\ ~Idle /\ buffer \in Seq(Events)
      /\ StartedOK /\ OnTheWay /\ LoopContinues(book, o, taker.remaining)
  BY DEF CallsIInv, Match
<1>2. IInv'
  BY <1>1, MatchInv
<1>3. /\ taker \in Takers /\ TakeFrontOK(book, s, p, taker.remaining, t)
      /\ book' = t.book
      /\ seq' = IF t.remaining = 0 THEN seq + 2 ELSE seq + 1
      /\ taker' = [taker EXCEPT !.remaining = SaturatingSub(taker.remaining, t.taken)]
      /\ out' = << >> \o evs
  BY <1>1, MatchStep
<1>4. i = MatchOnce(CallNow, o)
  BY <1>1 DEF Iteration, CallNow
<1>5. /\ CallNow.book = book /\ CallNow.seq = seq /\ CallNow.remaining = taker.remaining
      /\ CallNow.out = buffer
  BY DEF CallNow
<1>6. i = [book |-> t.book, seq |-> IF t.remaining = 0 THEN seq + 2 ELSE seq + 1,
           remaining |-> SaturatingSub(taker.remaining, t.taken), out |-> buffer \o evs]
  BY <1>4, <1>5, Zenon DEF MatchOnce
<1>7. evs \in Seq(Events)
  <2> DEFINE a == Trade(o.id, t.maker, p, t.taken, seq)
             d == Done(t.maker, 0, "Filled", seq + 1)
  <2>1. evs = IF t.remaining = 0 THEN <<a, d>> ELSE <<a>>
    BY ZenonT(60) DEF MatchEvents
  <2>2. out' \in Seq(Events)
    BY <1>2 DEF IInv, TypeOK
  <2> HIDE DEF a, d, evs, t
  <2>3. << >> \o evs = evs
    <3>1. evs = <<a, d>> \/ evs = <<a>>
      BY <2>1, ZenonT(60)
    <3> QED BY <3>1
  <2> QED BY <1>3, <2>2, <2>3
<1> HIDE DEF evs, i, t, p, s
<1>8. out' = evs
  BY <1>3, <1>7
<1>9. /\ taker'.order = o /\ taker'.receiveSeq = taker.receiveSeq
      /\ taker'.remaining = SaturatingSub(taker.remaining, t.taken)
      /\ taker' # NoTaker
  <2>1. /\ taker'.order = o /\ taker'.receiveSeq = taker.receiveSeq
        /\ taker'.remaining = SaturatingSub(taker.remaining, t.taken)
    BY <1>3 DEF Takers
  <2>2. "remaining" \in DOMAIN taker' /\ "remaining" \notin DOMAIN NoTaker
    BY <1>3 DEF Takers, NoTaker
  <2> QED BY <2>1, <2>2
<1>10. start' = start /\ buffer' = buffer \o out'
  BY <1>1, <1>9 DEF CallsNext
<1>11. buffer' \in Seq(Events)
  BY <1>1, <1>7, <1>8, <1>10
<1>12. IsFiniteSet(DOMAIN book'.index)
  <2>1. DOMAIN book'.index \subseteq DOMAIN book.index
    BY <1>3 DEF TakeFrontOK
  <2> QED BY <1>1, <2>1, FS_Subset
<1>13. CallNow' = i
  BY <1>3, <1>6, <1>8, <1>9, <1>10 DEF CallNow
<1>14. OnTheWay'
  <2> DEFINE f == LoopRun(Received(start.book, start.seq, o), o)
  <2>1. PICK k \in Nat : f[k] = {CallNow}
    BY <1>1 DEF OnTheWay
  <2>2. f[k + 1] = Iterated(f[k], o)
    BY LoopRunDef
  <2>3. f[k + 1] = {i}
    BY <2>1, <2>2 DEF Iterated, i
  <2>4. LoopRun(Received(start'.book, start'.seq, taker'.order), taker'.order)[k + 1]
          = {CallNow'}
    BY <1>9, <1>10, <1>13, <2>3
  <2>5. k + 1 \in Nat
    OBVIOUS
  <2> HIDE DEF f
  <2> QED BY <2>4, <2>5 DEF OnTheWay
<1>15. StartedOK'
  BY <1>1, <1>9, <1>10 DEF StartedOK
<1> QED BY <1>2, <1>9, <1>11, <1>12, <1>14, <1>15 DEF CallsIInv, Idle

(* What the one-operator call would have done.                             *)
AgreesWithCall ==
  LET call == AcceptCall(start.book, start.seq, taker.order)
  IN  /\ call.book = book'
      /\ call.seq = seq'
      /\ call.out = buffer \o out'

(* The end of the call: its steps add up to AcceptCall.                    *)
LEMMA FinishAgrees ==
  ASSUME CallsIInv, Finish
  PROVE  AgreesWithCall
<1> DEFINE o == taker.order
           r == taker.remaining
           n == start.seq
           b == start.book
           c == CallNow
           d == Done(o.id, r, EndReason(o, r), seq)
           e == EndOfCall(c, o, n)
           call == AcceptCall(b, n, o)
<1>1. /\ IInv /\ ~Idle /\ buffer \in Seq(Events) /\ StartedOK /\ OnTheWay
      /\ ~LoopContinues(book, o, r)
  BY DEF CallsIInv, Finish
<1>2. o \in NewOrders
  BY <1>1, TakerFields, ZenonT(60) DEF IInv, TypeOK, Idle
<1>3. /\ BookOK(b) /\ IsFiniteSet(DOMAIN b.index) /\ n \in Nat /\ SeqsBelow(b, n)
      /\ ~RejectedUpfront(b, o) /\ taker.receiveSeq = n /\ ~BookContains(b, o.id)
  BY <1>1 DEF StartedOK, RejectedUpfront, BadOrder
<1>4. /\ c.book = book /\ c.seq = seq /\ c.remaining = r /\ c.out = buffer
      /\ DOMAIN c = {"book", "seq", "remaining", "out"}
  BY DEF CallNow
<1>5. PICK k \in Nat : LoopRun(Received(b, n, o), o)[k] = {c}
  BY <1>1, ZenonT(60) DEF OnTheWay
<1> HIDE DEF c
<1>6. AfterLoop(Received(b, n, o), o) = {c}
  <2>1. ~LoopContinues(c.book, o, c.remaining)
    BY <1>1, <1>4
  <2> HIDE DEF b, n, o
  <2> QED BY <1>2, <1>3, <1>5, <2>1, LoopReached
<1>7. call = e
  <2>1. call = CHOOSE end \in {EndOfCall(x, o, n) : x \in {c}} : TRUE
    BY <1>3, <1>6 DEF AcceptCall
  <2> QED BY <2>1
<1> HIDE DEF e, call
<1>8. /\ taker' = NoTaker
      /\ Rests(o, r) => /\ book' = Add(book, o.id, o.side, o.price, r, n)
                        /\ seq' = seq /\ out' = << >>
      /\ ~Rests(o, r) => book' = book /\ seq' = seq + 1 /\ out' = <<d>>
  BY <1>3, FinishStep
<1>9. d = Done(o.id, c.remaining, EndReason(o, c.remaining), c.seq)
  BY <1>4
<1> HIDE DEF d, o, r, n
<1>10. /\ Rests(o, c.remaining) =>
            /\ e.book = Add(c.book, o.id, o.side, o.price, c.remaining, n)
            /\ e.seq = c.seq /\ e.out = c.out
       /\ ~Rests(o, c.remaining) =>
            e.book = c.book /\ e.seq = c.seq + 1 /\ e.out = Append(c.out, d)
  <2>1. Ends(c, o, n, e, d)
    BY <1>4, <1>9, ZenonT(60) DEF e, Ends
  <2>2. RestsOrEnds(c, o, n, e, d)
    BY <2>1, EndOfCallCases, ZenonT(60)
  <2> QED BY <2>2, ZenonT(60) DEF RestsOrEnds
<1>11. buffer \o << >> = buffer /\ buffer \o <<d>> = Append(buffer, d)
  BY <1>1
<1>12. e.book = book' /\ e.seq = seq' /\ e.out = buffer \o out'
  <2>1. CASE Rests(o, r)
    BY <1>4, <1>8, <1>10, <1>11, <2>1, ZenonT(60)
  <2>2. CASE ~Rests(o, r)
    BY <1>4, <1>8, <1>10, <1>11, <2>2, ZenonT(60)
  <2> QED BY <2>1, <2>2
<1> QED BY <1>7, <1>12 DEF AgreesWithCall, call, b, n, o

(* The steps after which no call is in progress.                           *)
LEMMA IdleCalls ==
  ASSUME CallsIInv, CallsNext, Idle',
         IInv', DOMAIN book'.index \subseteq DOMAIN book.index \cup {taker.order.id}
  PROVE  CallsIInv'
<1>1. buffer' = << >>
  BY DEF CallsNext, Idle
<1>2. IsFiniteSet(DOMAIN book.index \cup {taker.order.id})
  BY FS_AddElement, ZenonT(60) DEF CallsIInv
<1>3. IsFiniteSet(DOMAIN book'.index)
  BY <1>2, FS_Subset
<1> QED BY <1>1, <1>3 DEF CallsIInv

(* Every step of the matcher and its observer.                             *)
LEMMA CallsInductive ==
  CallsIInv /\ [CallsNext]_callVars => CallsIInv'
<1> SUFFICES ASSUME CallsIInv, [CallsNext]_callVars PROVE CallsIInv'
  OBVIOUS
<1>1. CASE UNCHANGED callVars
  <2>1. UNCHANGED vars
    BY <1>1 DEF callVars, vars
  <2>2. IInv'
    BY <2>1, NextInv DEF CallsIInv
  <2> QED BY <1>1, <2>2 DEF callVars, CallsIInv, Idle, StartedOK, OnTheWay, CallNow
<1>2. CASE CallsNext
  <2>1. Next
    BY <1>2 DEF CallsNext
  <2>2. IInv'
    BY <2>1, NextInv DEF CallsIInv
  <2>3. ASSUME NEW o \in NewOrders, Reject(o) PROVE CallsIInv'
    <3>1. Idle' /\ book' = book
      BY <2>3 DEF Reject, Idle
    <3> QED BY <1>2, <2>2, <3>1, IdleCalls
  <2>4. ASSUME NEW o \in NewOrders, Receive(o) PROVE CallsIInv'
    BY <1>2, <2>4, ReceiveCalls
  <2>5. ASSUME NEW id \in OrderIds, Cancel(id) PROVE CallsIInv'
    <3>1. Idle' /\ book' = CancelBook(book, id)
      BY <2>5 DEF Cancel, CancelCall, Idle
    <3>2. CancelOK(book, id)
      BY CancelPreserves DEF CallsIInv, IInv
    <3>3. DOMAIN book'.index \subseteq DOMAIN book.index
      BY <3>1, <3>2 DEF CancelOK
    <3> QED BY <1>2, <2>2, <3>1, <3>3, IdleCalls, ZenonT(60)
  <2>6. CASE Match
    BY <1>2, <2>6, MatchCalls
  <2>7. CASE Finish
    <3> DEFINE o == taker.order
               r == taker.remaining
    <3>1. /\ taker' = NoTaker
          /\ Rests(o, r) => book' = Add(book, o.id, o.side, o.price, r, taker.receiveSeq)
          /\ ~Rests(o, r) => book' = book
      BY <2>7, FinishStep, ZenonT(60)
    <3>2. DOMAIN Add(book, o.id, o.side, o.price, r, taker.receiveSeq).index
            \subseteq DOMAIN book.index \cup {o.id}
      BY ZenonT(60) DEF Add, Insert
    <3>3. DOMAIN book'.index \subseteq DOMAIN book.index \cup {o.id}
      <4> HIDE DEF o, r
      <4> QED BY <3>1, <3>2
    <3> QED BY <1>2, <2>2, <3>1, <3>3, IdleCalls DEF Idle
  <2> QED BY <2>1, <2>3, <2>4, <2>5, <2>6, <2>7 DEF Next, NewCall
<1> QED BY <1>1, <1>2, ZenonT(60)

(* accept is deterministic and its steps add up: the call that Engine, Hub *)
(* and Recovery make as one step ends in the book, the next number and the *)
(* events that receive, the loop and the end produce one by one.           *)
THEOREM StepsAddUp ==
  LedgerSpec => CallsAgree
<1>1. LedgerInit => CallsIInv
  <2> SUFFICES ASSUME LedgerInit PROVE CallsIInv
    OBVIOUS
  <2>1. Init /\ buffer = << >>
    BY DEF LedgerInit, CallsInit
  <2>2. IInv
    BY <2>1, InitInv
  <2>3. DOMAIN book.index = {} /\ Idle
    BY <2>1 DEF Init, NewBook, EmptyMap, Idle
  <2>4. IsFiniteSet(DOMAIN book.index)
    BY <2>3, FS_EmptySet
  <2> QED BY <2>1, <2>2, <2>3, <2>4 DEF CallsIInv
<1>2. CallsIInv /\ [LedgerNext]_ledgerVars => CallsIInv'
  BY CallsInductive DEF LedgerNext, ledgerVars
<1>3. CallsIInv /\ [LedgerNext]_ledgerVars =>
        [~Idle /\ taker' = NoTaker => AgreesWithCall]_callVars
  <2> SUFFICES ASSUME CallsIInv, [LedgerNext]_ledgerVars, callVars' # callVars,
                      ~Idle, taker' = NoTaker
               PROVE  AgreesWithCall
    OBVIOUS
  <2>1. Next
    BY DEF LedgerNext, CallsNext, ledgerVars
  <2>2. ~Match
    <3> SUFFICES ASSUME Match PROVE FALSE
      OBVIOUS
    <3>1. taker \in Takers
      BY TakerFields DEF CallsIInv, IInv, TypeOK, Idle
    <3>2. "remaining" \in DOMAIN taker'
      BY <3>1 DEF Match, Takers
    <3>3. "remaining" \notin DOMAIN NoTaker
      BY ZenonT(60) DEF NoTaker
    <3> QED BY <3>2, <3>3
  <2>3. Finish
    BY <2>1, <2>2 DEF Next, NewCall, Reject, Receive, Cancel
  <2> QED BY <2>3, FinishAgrees
<1>4. CallsAgree <=> [][~Idle /\ taker' = NoTaker => AgreesWithCall]_callVars
  BY DEF CallsAgree, AgreesWithCall
<1> QED BY <1>1, <1>2, <1>3, <1>4, PTL DEF LedgerSpec

=============================================================================
