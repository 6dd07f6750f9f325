----------------------------- MODULE BookProofs ------------------------------
(***************************************************************************)
(* Facts about the operations of the order book and about whole calls of   *)
(* the matcher, for every set of ids, every price range and every greatest *)
(* quantity.                                                               *)
(***************************************************************************)
EXTENDS Matching, Induction, FiniteSetTheorems, TLAPS

(* The provers of a leaf that names none, and their time in seconds.        *)
USE SMTT(60), ZenonT(60)

-----------------------------------------------------------------------------
(* Extrema of sets of prices.                                              *)

(* The keys of a BTreeMap of prices have a first and a last element:       *)
(* best_bid and best_ask return an extremum of the side.                   *)
LEMMA BestIsExtremum ==
  ASSUME NEW S \in SUBSET Prices, S # {}
  PROVE  /\ BestOf("Buy", S) \in S /\ \A y \in S : BestOf("Buy", S) >= y
         /\ BestOf("Sell", S) \in S /\ \A y \in S : BestOf("Sell", S) <= y
<1>1. \E x \in S : \A y \in S : x >= y
  <2> DEFINE T == {MaxPrice - p : p \in S}
  <2>1. T \in SUBSET Nat /\ T # {}
    BY BookAssumption DEF Prices
  <2>2. PICK t \in T : \A u \in T : t <= u
    BY <2>1, Least, ZenonT(60)
  <2>3. PICK x \in S : t = MaxPrice - x
    BY <2>2
  <2>4. ASSUME NEW y \in S PROVE x >= y
    BY <2>2, <2>3, BookAssumption DEF Prices
  <2> QED BY <2>4
<1>2. \E x \in S : \A y \in S : x <= y
  <2> DEFINE T == {p - MinPrice : p \in S}
  <2>0. \A p \in S : p - MinPrice \in Nat
    BY BookAssumption DEF Prices
  <2>1. T \in SUBSET Nat /\ T # {}
    BY <2>0
  <2>2. PICK t \in T : \A u \in T : t <= u
    BY <2>1, Least, ZenonT(60)
  <2>3. PICK x \in S : t = x - MinPrice
    BY <2>2
  <2>4. ASSUME NEW y \in S PROVE x <= y
    BY <2>2, <2>3, BookAssumption DEF Prices
  <2> QED BY <2>4
<1> QED BY <1>1, <1>2 DEF BestOf, Max, Min

-----------------------------------------------------------------------------
(* Writing a level back.                                                   *)

(* nb is b with one level replaced, or removed if it is empty.             *)
LevelStored(b, nb, side, price, level) ==
  /\ DOMAIN nb = {"levels", "index"}
  /\ nb.index = b.index
  /\ nb.levels \in [Sides -> {nb.levels[s] : s \in Sides}]
  /\ \A s \in Sides : s # side => nb.levels[s] = b.levels[s]
  /\ DOMAIN nb.levels[side] = IF level = << >>
                              THEN DOMAIN b.levels[side] \ {price}
                              ELSE DOMAIN b.levels[side]
  /\ nb.levels[side] \in [DOMAIN nb.levels[side] -> Seq(Orders(Nat))]
  /\ \A p \in DOMAIN nb.levels[side] :
       nb.levels[side][p] = IF p = price THEN level ELSE b.levels[side][p]

(* What StoreLevel changes: the one level.                                 *)
LEMMA StoreLevelMaps ==
  ASSUME NEW b, BookType(b),
         NEW side \in Sides, NEW price \in DOMAIN b.levels[side],
         NEW level \in Seq(Orders(Nat)),
         NEW nb, nb = StoreLevel(b, side, price, level)
  PROVE  LevelStored(b, nb, side, price, level)
<1> DEFINE m == IF level = << >> THEN Without(b.levels[side], price)
                                 ELSE Insert(b.levels[side], price, level)
<1>1. /\ DOMAIN b = {"levels", "index"}
      /\ DOMAIN b.levels = Sides
      /\ b.levels[side] \in [DOMAIN b.levels[side] -> Seq(Orders(Nat))]
  BY DEF BookType
<1>2. /\ DOMAIN nb = {"levels", "index"}
      /\ nb.index = b.index
      /\ nb.levels = [b.levels EXCEPT ![side] = m]
  BY <1>1 DEF StoreLevel
<1>3. DOMAIN m = IF level = << >> THEN DOMAIN b.levels[side] \ {price}
                                  ELSE DOMAIN b.levels[side]
  BY ZenonT(60) DEF Without, Insert, Restrict
<1>4. \A p \in DOMAIN m : m[p] = IF p = price THEN level ELSE b.levels[side][p]
  BY DEF Without, Insert, Restrict
<1>5. m \in [DOMAIN m -> Seq(Orders(Nat))]
  BY <1>1 DEF Without, Insert, Restrict
<1> HIDE DEF m
<1>6. DOMAIN nb.levels = Sides
  BY <1>1, <1>2
<1>7. nb.levels[side] = m /\ \A s \in Sides : s # side => nb.levels[s] = b.levels[s]
  BY <1>1, <1>2
<1>8. nb.levels \in [Sides -> {nb.levels[s] : s \in Sides}]
  <2>1. nb.levels = [s \in Sides |-> IF s = side THEN m ELSE b.levels[s]]
    BY <1>1, <1>2
  <2> QED BY <2>1, <1>7
<1> QED BY <1>2, <1>3, <1>4, <1>5, <1>6, <1>7, <1>8 DEF LevelStored

(* The index says that id rests at (s, p).                                 *)
IndexedAt(b, id, s, p) ==
  id \in DOMAIN b.index /\ b.index[id].side = s /\ b.index[id].price = p

(* A resting order is indexed where it rests.                              *)
LEMMA IndexOfResting ==
  ASSUME NEW b, BookOK(b), NEW s \in Sides, NEW p \in DOMAIN b.levels[s],
         NEW i \in DOMAIN b.levels[s][p]
  PROVE  IndexedAt(b, b.levels[s][p][i].id, s, p)
BY ZenonT(60) DEF BookOK, RestingIndexed, BookContains, IndexedAt

(* new is what is left of the level old when the orders of gone have left  *)
(* it: same orders in the same time order, each with some quantity.        *)
Shrunk(old, new, gone) ==
  /\ \A i \in DOMAIN new :
       /\ new[i].qty > 0
       /\ new[i].id \notin gone
       /\ \E k \in DOMAIN old : new[i].id = old[k].id /\ new[i].seq = old[k].seq
  /\ \A i, j \in DOMAIN new :
       i < j => new[i].seq < new[j].seq /\ new[i].id # new[j].id
  /\ \A k \in DOMAIN old :
       old[k].id \notin gone => \E i \in DOMAIN new : new[i].id = old[k].id

(* c is b but for an index that no longer has the ids of gone, all of      *)
(* which rest at the given place.                                          *)
IndexShrunk(b, c, side, price, gone) ==
  /\ BookType(c)
  /\ c.levels = b.levels
  /\ DOMAIN c.index = DOMAIN b.index \ gone
  /\ \A id \in DOMAIN c.index : c.index[id] = b.index[id]
  /\ \A id \in gone : /\ id \in DOMAIN b.index
                      /\ b.index[id].side = side
                      /\ b.index[id].price = price

(* nb is well-formed, has the index of c, and no later order than b.       *)
ShrunkBookOK(b, c, nb) ==
  /\ BookOK(nb)
  /\ nb.index = c.index
  /\ \A n \in Nat : SeqsBelow(b, n) => SeqsBelow(nb, n)

(* Orders leave a level, or the front order shrinks, and the ids that left *)
(* leave the index: the book stays well-formed.                            *)
LEMMA LevelShrinks ==
  ASSUME NEW b, BookOK(b),
         NEW side \in Sides, NEW price \in DOMAIN b.levels[side],
         NEW gone \in SUBSET OrderIds,
         NEW level \in Seq(Orders(Nat)),
         Shrunk(b.levels[side][price], level, gone),
         NEW c, IndexShrunk(b, c, side, price, gone),
         NEW nb, nb = StoreLevel(c, side, price, level)
  PROVE  ShrunkBookOK(b, c, nb)
<1> DEFINE L == b.levels[side][price]
<1>1. /\ DOMAIN nb = {"levels", "index"}
      /\ nb.index = c.index
      /\ nb.levels \in [Sides -> {nb.levels[s] : s \in Sides}]
      /\ \A s \in Sides : s # side => nb.levels[s] = b.levels[s]
      /\ DOMAIN nb.levels[side] = IF level = << >>
                                  THEN DOMAIN b.levels[side] \ {price}
                                  ELSE DOMAIN b.levels[side]
      /\ nb.levels[side] \in [DOMAIN nb.levels[side] -> Seq(Orders(Nat))]
      /\ \A p \in DOMAIN nb.levels[side] :
           nb.levels[side][p] = IF p = price THEN level ELSE b.levels[side][p]
  <2>1. BookType(c) /\ c.levels = b.levels /\ price \in DOMAIN c.levels[side]
    BY DEF IndexShrunk
  <2>2. LevelStored(c, nb, side, price, level)
    BY <2>1, StoreLevelMaps
  <2> QED BY <2>1, <2>2 DEF LevelStored
<1>2. \A s \in Sides : \A p \in DOMAIN nb.levels[s] :
        /\ p \in DOMAIN b.levels[s]
        /\ nb.levels[s][p] = IF s = side /\ p = price THEN level
                                                     ELSE b.levels[s][p]
  BY <1>1
<1>3. BookType(nb)
  <2>1. \A s \in Sides : /\ DOMAIN nb.levels[s] \subseteq Prices
                         /\ nb.levels[s] \in [DOMAIN nb.levels[s] -> Seq(Orders(Nat))]
    BY <1>1, <1>2, ZenonT(60) DEF BookOK, BookType
  <2>2. /\ DOMAIN nb.index \subseteq OrderIds
        /\ nb.index \in [DOMAIN nb.index -> [side : Sides, price : Prices]]
    BY <1>1, ZenonT(60) DEF IndexShrunk, BookType
  <2> QED BY <1>1, <2>1, <2>2 DEF BookType
<1>4. NoEmptyLevel(nb)
  <2> SUFFICES ASSUME NEW s \in Sides, NEW p \in DOMAIN nb.levels[s]
               PROVE  nb.levels[s][p] # << >>
    BY DEF NoEmptyLevel
  <2>1. CASE s = side /\ p = price
    BY <1>1, <2>1
  <2>2. CASE ~(s = side /\ p = price)
    BY <1>2, <2>2 DEF BookOK, NoEmptyLevel
  <2> QED BY <2>1, <2>2
<1>5. RestingIndexed(nb)
  <2> SUFFICES ASSUME NEW s \in Sides, NEW p \in DOMAIN nb.levels[s],
                      NEW i \in DOMAIN nb.levels[s][p]
               PROVE  /\ nb.levels[s][p][i].id \in DOMAIN nb.index
                      /\ nb.index[nb.levels[s][p][i].id].side = s
                      /\ nb.index[nb.levels[s][p][i].id].price = p
    BY ZenonT(60) DEF RestingIndexed, BookContains
  <2>1. CASE s = side /\ p = price
    <3>1. nb.levels[s][p] = level
      BY <1>2, <2>1
    <3>2. PICK k \in DOMAIN L : level[i].id = L[k].id
      BY <3>1, SMTT(60) DEF Shrunk
    <3>3. level[i].id \notin gone
      BY <3>1 DEF Shrunk
    <3>4. IndexedAt(b, L[k].id, side, price)
      BY IndexOfResting
    <3>5. level[i].id \in DOMAIN nb.index /\ nb.index[level[i].id] = b.index[level[i].id]
      BY <1>1, <3>2, <3>3, <3>4, ZenonT(60) DEF IndexShrunk, IndexedAt
    <3> QED BY <2>1, <3>1, <3>2, <3>4, <3>5, ZenonT(60) DEF IndexedAt
  <2>2. CASE ~(s = side /\ p = price)
    <3>1. /\ p \in DOMAIN b.levels[s]
          /\ nb.levels[s][p] = b.levels[s][p]
          /\ i \in DOMAIN b.levels[s][p]
      BY <1>2, <2>2
    <3>2. IndexedAt(b, b.levels[s][p][i].id, s, p)
      BY <3>1, IndexOfResting
    <3>3. b.levels[s][p][i].id \notin gone
      BY <2>2, <3>2, ZenonT(60) DEF IndexShrunk, IndexedAt
    <3>4. /\ b.levels[s][p][i].id \in DOMAIN nb.index
          /\ nb.index[b.levels[s][p][i].id] = b.index[b.levels[s][p][i].id]
      BY <1>1, <3>2, <3>3, ZenonT(60) DEF IndexShrunk, IndexedAt
    <3> QED BY <3>1, <3>2, <3>4, ZenonT(60) DEF IndexedAt
  <2> QED BY <2>1, <2>2, ZenonT(60)
<1>6. IndexedRests(nb)
  <2> SUFFICES ASSUME NEW id \in DOMAIN nb.index
               PROVE  \E i \in DOMAIN CancelLevel(nb, id) :
                        CancelLevel(nb, id)[i].id = id
    BY DEF IndexedRests
  <2>1. id \in DOMAIN b.index /\ id \notin gone /\ nb.index[id] = b.index[id]
    BY <1>1 DEF IndexShrunk
  <2>2. PICK s \in Sides, p \in Prices : s = b.index[id].side /\ p = b.index[id].price
    BY <2>1 DEF BookOK, BookType
  <2>3. PICK k \in DOMAIN LevelAt(b, s, p) : LevelAt(b, s, p)[k].id = id
    BY <2>1, <2>2 DEF BookOK, IndexedRests, CancelLevel
  <2>4. p \in DOMAIN b.levels[s] /\ LevelAt(b, s, p) = b.levels[s][p]
    <3>1. LevelAt(b, s, p) # << >>
      BY <2>3
    <3> QED BY <3>1 DEF LevelAt
  <2>5. CancelLevel(nb, id) = LevelAt(nb, s, p)
    BY <2>1, <2>2 DEF CancelLevel
  <2>6. CASE s = side /\ p = price
    <3>1. PICK i \in DOMAIN level : level[i].id = id
      BY <2>1, <2>3, <2>4, <2>6, SMTT(60) DEF Shrunk
    <3>2. level # << >>
      BY <3>1
    <3>3. LevelAt(nb, s, p) = level
      BY <1>1, <2>6, <3>2 DEF LevelAt
    <3> QED BY <2>5, <3>1, <3>3
  <2>7. CASE ~(s = side /\ p = price)
    <3>1. p \in DOMAIN nb.levels[s] /\ nb.levels[s][p] = b.levels[s][p]
      BY <1>1, <2>4, <2>7
    <3>2. LevelAt(nb, s, p) = LevelAt(b, s, p)
      BY <2>4, <3>1, ZenonT(60) DEF LevelAt
    <3> QED BY <2>3, <2>5, <3>2
  <2> QED BY <2>6, <2>7
<1>7. TimeOrdered(nb)
  <2> SUFFICES ASSUME NEW s \in Sides, NEW p \in DOMAIN nb.levels[s],
                      NEW i \in DOMAIN nb.levels[s][p],
                      NEW j \in DOMAIN nb.levels[s][p], i < j
               PROVE  /\ nb.levels[s][p][i].seq < nb.levels[s][p][j].seq
                      /\ nb.levels[s][p][i].id # nb.levels[s][p][j].id
    BY ZenonT(60) DEF TimeOrdered
  <2>1. CASE s = side /\ p = price
    BY <1>2, <2>1, SMTT(60) DEF Shrunk
  <2>2. CASE ~(s = side /\ p = price)
    BY <1>2, <2>2, SMTT(60) DEF BookOK, TimeOrdered
  <2> QED BY <2>1, <2>2, ZenonT(60)
<1>8. Uncrossed(nb)
  BY <1>2 DEF BookOK, Uncrossed, Sides
<1>9. ASSUME NEW n \in Nat, SeqsBelow(b, n) PROVE SeqsBelow(nb, n)
  <2> SUFFICES ASSUME NEW s \in Sides, NEW p \in DOMAIN nb.levels[s],
                      NEW i \in DOMAIN nb.levels[s][p]
               PROVE  nb.levels[s][p][i].seq < n
    BY DEF SeqsBelow
  <2>1. CASE s = side /\ p = price
    BY <1>2, <1>9, <2>1, SMTT(60) DEF SeqsBelow, Shrunk
  <2>2. CASE ~(s = side /\ p = price)
    BY <1>2, <1>9, <2>2 DEF SeqsBelow
  <2> QED BY <2>1, <2>2
<1>10. RestingOpen(nb)
  <2> SUFFICES ASSUME NEW s \in Sides, NEW p \in DOMAIN nb.levels[s],
                      NEW i \in DOMAIN nb.levels[s][p]
               PROVE  nb.levels[s][p][i].qty > 0
    BY DEF RestingOpen
  <2>1. CASE s = side /\ p = price
    BY <1>2, <2>1 DEF Shrunk
  <2>2. CASE ~(s = side /\ p = price)
    BY <1>2, <2>2 DEF BookOK, RestingOpen
  <2> QED BY <2>1, <2>2
<1> QED BY <1>1, <1>3, <1>4, <1>5, <1>6, <1>7, <1>8, <1>9, <1>10
  DEF BookOK, ShrunkBookOK
-----------------------------------------------------------------------------
(* take_front and cancel.                                                  *)

(* A level of a well-formed book: open orders in time order.               *)
LevelOK(L) ==
  /\ L \in Seq(Orders(Nat))
  /\ \A i \in DOMAIN L : L[i].qty > 0
  /\ \A i, j \in DOMAIN L : i < j => L[i].seq < L[j].seq /\ L[i].id # L[j].id

(* Every level of a well-formed book is one.                               *)
LEMMA LevelIsOK ==
  ASSUME NEW b, BookOK(b), NEW s \in Sides, NEW p \in DOMAIN b.levels[s]
  PROVE  LevelOK(b.levels[s][p]) /\ b.levels[s][p] # << >>
<1>1. b.levels[s][p] \in Seq(Orders(Nat))
  BY DEF BookOK, BookType
<1>2. \A i \in DOMAIN b.levels[s][p] : b.levels[s][p][i].qty > 0
  BY DEF BookOK, RestingOpen
<1>3. \A i, j \in DOMAIN b.levels[s][p] :
        i < j => /\ b.levels[s][p][i].seq < b.levels[s][p][j].seq
                 /\ b.levels[s][p][i].id # b.levels[s][p][j].id
  BY DEF BookOK, TimeOrdered
<1> QED BY <1>1, <1>2, <1>3 DEF LevelOK, BookOK, NoEmptyLevel

(* pop_front: the front order leaves.                                      *)
LEMMA TailShrinks ==
  ASSUME NEW L, LevelOK(L), L # << >>
  PROVE  Tail(L) \in Seq(Orders(Nat)) /\ Shrunk(L, Tail(L), {L[1].id})
<1>1. L \in Seq(Orders(Nat)) /\ Len(L) \in Nat /\ Len(L) > 0 /\ DOMAIN L = 1 .. Len(L)
  BY DEF LevelOK
<1>2. /\ Tail(L) \in Seq(Orders(Nat))
      /\ DOMAIN Tail(L) = 1 .. (Len(L) - 1)
      /\ \A i \in 1 .. (Len(L) - 1) : Tail(L)[i] = L[i + 1]
  BY <1>1
<1> DEFINE T == Tail(L)
<1> HIDE DEF T
<1>3. \A i \in DOMAIN T : i + 1 \in DOMAIN L /\ T[i] = L[i + 1] /\ 1 < i + 1 /\ 1 \in DOMAIN L
  BY <1>1, <1>2 DEF T
<1>4. \A i \in DOMAIN T : /\ T[i].qty > 0
                         /\ T[i].id \notin {L[1].id}
                         /\ \E k \in DOMAIN L : T[i].id = L[k].id /\ T[i].seq = L[k].seq
  BY <1>3 DEF LevelOK
<1>5. \A i, j \in DOMAIN T : i < j => T[i].seq < T[j].seq /\ T[i].id # T[j].id
  <2> SUFFICES ASSUME NEW i \in DOMAIN T, NEW j \in DOMAIN T, i < j
               PROVE  T[i].seq < T[j].seq /\ T[i].id # T[j].id
    OBVIOUS
  <2>1. i + 1 < j + 1
    BY <1>1, <1>2 DEF T
  <2> QED BY <1>3, <2>1 DEF LevelOK
<1>6. \A k \in DOMAIN L : L[k].id \notin {L[1].id} => \E i \in DOMAIN T : T[i].id = L[k].id
  <2> SUFFICES ASSUME NEW k \in DOMAIN L, L[k].id # L[1].id
               PROVE  \E i \in DOMAIN T : T[i].id = L[k].id
    OBVIOUS
  <2>1. k \in 2 .. Len(L)
    <3>1. k # 1
      OBVIOUS
    <3> QED BY <1>1, <3>1
  <2>2. k - 1 \in 1 .. (Len(L) - 1) /\ (k - 1) + 1 = k
    BY <1>1, <2>1
  <2>3. k - 1 \in DOMAIN T /\ T[k - 1] = L[k]
    BY <1>2, <2>2 DEF T
  <2> QED BY <2>3
<1> QED BY <1>2, <1>4, <1>5, <1>6 DEF T, Shrunk

(* The front order is reduced in place.                                    *)
LEMMA ReduceShrinks ==
  ASSUME NEW L, LevelOK(L), L # << >>, NEW q \in Qtys, q > 0,
         NEW R, R = [L EXCEPT ![1].qty = q]
  PROVE  R \in Seq(Orders(Nat)) /\ R # << >> /\ Shrunk(L, R, {})
<1>1. L \in Seq(Orders(Nat)) /\ Len(L) \in Nat /\ Len(L) > 0 /\ DOMAIN L = 1 .. Len(L)
  BY DEF LevelOK
<1> DEFINE e == [L[1] EXCEPT !.qty = q]
<1>2. e \in Orders(Nat) /\ e.qty = q /\ e.id = L[1].id /\ e.seq = L[1].seq
  <2>1. L[1] \in Orders(Nat)
    BY <1>1
  <2>2. e = [id |-> L[1].id, qty |-> q, seq |-> L[1].seq]
    BY <2>1 DEF Orders
  <2> HIDE DEF e
  <2> QED BY <2>1, <2>2 DEF Orders
<1>3. R = [L EXCEPT ![1] = e]
  OBVIOUS
<1> HIDE DEF e
<1>4. R \in Seq(Orders(Nat)) /\ DOMAIN R = DOMAIN L /\ R # << >>
  <2> DEFINE Os == Orders(Nat)
  <2>1. L \in Seq(Os) /\ e \in Os
    BY <1>1, <1>2
  <2> HIDE DEF Os
  <2>2. R \in Seq(Os) /\ Len(R) = Len(L)
    BY <1>1, <1>3, <2>1
  <2> QED BY <1>1, <2>2 DEF Os
<1>5. \A i \in DOMAIN R : R[i].id = L[i].id /\ R[i].seq = L[i].seq /\ R[i].qty > 0
  BY <1>1, <1>2, <1>3, <1>4 DEF LevelOK
<1>6. \A i, j \in DOMAIN R : i < j => R[i].seq < R[j].seq /\ R[i].id # R[j].id
  BY <1>4, <1>5 DEF LevelOK
<1> QED BY <1>4, <1>5, <1>6 DEF Shrunk

(* Removing an id from the index alone.                                    *)
LEMMA UnindexShrinks ==
  ASSUME NEW b, BookOK(b), NEW side \in Sides, NEW price, NEW id,
         IndexedAt(b, id, side, price)
  PROVE  IndexShrunk(b, Unindex(b, id), side, price, {id})
<1>1. DOMAIN b = {"levels", "index"} /\ BookType(b)
  BY DEF BookOK, BookType
<1> DEFINE u == Unindex(b, id)
           m == Without(b.index, id)
<1>2. DOMAIN u = {"levels", "index"} /\ u.levels = b.levels /\ u.index = m
  BY <1>1 DEF Unindex
<1>3. DOMAIN m = DOMAIN b.index \ {id} /\ \A k \in DOMAIN m : m[k] = b.index[k]
  BY DEF Without, Restrict
<1>4. m \in [DOMAIN m -> [side : Sides, price : Prices]]
  BY <1>1 DEF Without, Restrict, BookType
<1> HIDE DEF u, m
<1>5. BookType(u)
  BY <1>1, <1>2, <1>3, <1>4 DEF BookType
<1> QED BY <1>2, <1>3, <1>5 DEF u, IndexShrunk, IndexedAt

(* What take_front leaves and reports.                                     *)
TakeFrontOK(b, side, price, want, t) ==
  /\ BookOK(t.book)
  /\ t.taken \in Nat /\ 0 < t.taken /\ t.taken <= want
  /\ t.remaining \in Qtys
  /\ t.maker = b.levels[side][price][1].id
  /\ IndexedAt(b, t.maker, side, price)
  /\ DOMAIN t.book.index = DOMAIN b.index \ (IF t.remaining = 0 THEN {t.maker} ELSE {})
  /\ \A n \in Nat : SeqsBelow(b, n) => SeqsBelow(t.book, n)

(* take_front keeps the book well-formed and removes a used-up maker.      *)
LEMMA TakeFrontPreserves ==
  ASSUME NEW b, BookOK(b), NEW side \in Sides, NEW price \in DOMAIN b.levels[side],
         NEW want \in Qtys, want > 0
  PROVE  TakeFrontOK(b, side, price, want, TakeFront(b, side, price, want))
<1> DEFINE L == b.levels[side][price]
           t == TakeFront(b, side, price, want)
           r == IF want >= L[1].qty THEN 0 ELSE L[1].qty - want
<1>1. LevelOK(L) /\ L # << >>
  BY LevelIsOK
<1>2. /\ 1 \in DOMAIN L /\ Head(L) = L[1]
      /\ L[1] \in Orders(Nat) /\ L[1].qty > 0
  BY <1>1, SMTT(60) DEF LevelOK
<1>3. L[1].qty \in Qtys /\ L[1].qty \in Nat /\ want \in Nat /\ L[1].id \in OrderIds
  BY <1>2, BookAssumption, SMTT(60) DEF Orders, Qtys
<1>4. LevelAt(b, side, price) = L
  BY DEF LevelAt
<1>5. /\ t.maker = L[1].id
      /\ t.taken = IF want >= L[1].qty THEN L[1].qty ELSE want
      /\ t.remaining = SaturatingSub(L[1].qty, IF want >= L[1].qty THEN L[1].qty ELSE want)
      /\ t.book = IF t.remaining = 0
                  THEN StoreLevel(Unindex(b, L[1].id), side, price, Tail(L))
                  ELSE StoreLevel(b, side, price,
                                  [L EXCEPT ![1].qty = t.remaining])
  BY <1>2, <1>4 DEF TakeFront
<1> HIDE DEF t, L
<1>6. t.remaining = r /\ r \in Qtys
  BY <1>3, <1>5, BookAssumption DEF SaturatingSub, Qtys
<1>7. t.taken \in Nat /\ 0 < t.taken /\ t.taken <= want
  BY <1>2, <1>3, <1>5
<1>8. IndexedAt(b, L[1].id, side, price)
  BY <1>2, IndexOfResting DEF L
<1> DEFINE gone == IF t.remaining = 0 THEN {L[1].id} ELSE {}
<1>9. /\ BookOK(t.book)
      /\ DOMAIN t.book.index = DOMAIN b.index \ gone
      /\ \A n \in Nat : SeqsBelow(b, n) => SeqsBelow(t.book, n)
  <2>1. CASE t.remaining = 0
    <3>1. IndexShrunk(b, Unindex(b, L[1].id), side, price, {L[1].id})
      BY <1>8, UnindexShrinks
    <3>2. Tail(L) \in Seq(Orders(Nat)) /\ Shrunk(L, Tail(L), {L[1].id})
      BY <1>1, TailShrinks
    <3>3. t.book = StoreLevel(Unindex(b, L[1].id), side, price, Tail(L))
      BY <1>5, <2>1
    <3>4. {L[1].id} \in SUBSET OrderIds
      BY <1>3
    <3>5. ShrunkBookOK(b, Unindex(b, L[1].id), t.book)
      BY <3>1, <3>2, <3>3, <3>4, LevelShrinks, ZenonT(60) DEF L
    <3> QED BY <2>1, <3>1, <3>5 DEF IndexShrunk, ShrunkBookOK
  <2>2. CASE t.remaining # 0
    <3> DEFINE R == [L EXCEPT ![1].qty = t.remaining]
    <3>1. IndexShrunk(b, b, side, price, {})
      BY DEF IndexShrunk, BookOK
    <3>2. t.remaining \in Qtys /\ t.remaining > 0
      BY <1>6, <2>2, BookAssumption DEF Qtys
    <3>3. R \in Seq(Orders(Nat)) /\ Shrunk(L, R, {})
      BY <1>1, <3>2, ReduceShrinks, ZenonT(60)
    <3>4. t.book = StoreLevel(b, side, price, R)
      BY <1>5, <2>2
    <3> HIDE DEF R
    <3>5. ShrunkBookOK(b, b, t.book)
      BY <3>1, <3>3, <3>4, LevelShrinks DEF L
    <3> QED BY <2>2, <3>5 DEF ShrunkBookOK
  <2> QED BY <2>1, <2>2
<1> QED BY <1>5, <1>6, <1>7, <1>8, <1>9, ZenonT(60) DEF TakeFrontOK, t, L

(* Concatenation, element by element.                                      *)
LEMMA Concat ==
  ASSUME NEW S, NEW s \in Seq(S), NEW t \in Seq(S)
  PROVE  /\ s \o t \in Seq(S) /\ Len(s \o t) = Len(s) + Len(t)
         /\ \A i \in 1 .. Len(s) + Len(t) :
              (s \o t)[i] = IF i <= Len(s) THEN s[i] ELSE t[i - Len(s)]
OBVIOUS


(* VecDeque::remove: what stood before k stays, what stood behind moves up. *)
LEMMA RemoveMaps ==
  ASSUME NEW L, LevelOK(L), NEW k \in DOMAIN L
  PROVE  /\ RemoveOrder(L, k) \in Seq(Orders(Nat))
         /\ DOMAIN RemoveOrder(L, k) = 1 .. Len(L) - 1
         /\ \A i \in 1 .. Len(L) - 1 :
              RemoveOrder(L, k)[i] = IF i < k THEN L[i] ELSE L[i + 1]
<1> DEFINE Os == Orders(Nat)
           A == SubSeq(L, 1, k - 1)
           B == SubSeq(L, k + 1, Len(L))
           R == RemoveOrder(L, k)
<1> HIDE DEF Os
<1>1. /\ L \in Seq(Os) /\ Len(L) \in Nat /\ DOMAIN L = 1 .. Len(L)
      /\ k \in 1 .. Len(L) /\ \A i \in 1 .. Len(L) : L[i] \in Os
  BY DEF LevelOK, Os
<1>2. /\ A \in Seq(Os) /\ Len(A) = k - 1
      /\ \A i \in 1 .. k - 1 : A[i] = L[i]
  <2>1. \A i \in 1 .. (k - 1) : L[i] \in Os
    BY <1>1
  <2>2. /\ A \in Seq(Os)
        /\ Len(A) = IF 1 <= k - 1 THEN (k - 1) - 1 + 1 ELSE 0
        /\ \A i \in 1 .. (k - 1) - 1 + 1 : A[i] = L[1 + i - 1]
    BY <1>1, <2>1
  <2> QED BY <1>1, <2>2
<1>3. /\ B \in Seq(Os) /\ Len(B) = Len(L) - k
      /\ \A i \in 1 .. Len(L) - k : B[i] = L[k + i]
  <2>1. \A i \in (k + 1) .. Len(L) : L[i] \in Os
    BY <1>1
  <2>2. /\ B \in Seq(Os)
        /\ Len(B) = IF k + 1 <= Len(L) THEN Len(L) - (k + 1) + 1 ELSE 0
        /\ \A i \in 1 .. Len(L) - (k + 1) + 1 : B[i] = L[(k + 1) + i - 1]
    BY <1>1, <2>1
  <2>3. \A i \in 1 .. Len(L) - k : (k + 1) + i - 1 = k + i
    BY <1>1
  <2> QED BY <1>1, <2>2, <2>3
<1> HIDE DEF A, B
<1>4. /\ R \in Seq(Os) /\ Len(R) = Len(L) - 1
      /\ \A i \in 1 .. Len(L) - 1 : R[i] = IF i < k THEN L[i] ELSE L[i + 1]
  <2>1. R = A \o B
    BY DEF RemoveOrder, A, B
  <2>2. /\ R \in Seq(Os)
        /\ Len(R) = Len(A) + Len(B)
        /\ \A i \in 1 .. Len(A) + Len(B) :
             R[i] = IF i <= Len(A) THEN A[i] ELSE B[i - Len(A)]
    <3>1. /\ A \o B \in Seq(Os)
          /\ Len(A \o B) = Len(A) + Len(B)
          /\ \A i \in 1 .. Len(A) + Len(B) :
               (A \o B)[i] = IF i <= Len(A) THEN A[i] ELSE B[i - Len(A)]
      BY <1>2, <1>3, Concat, Zenon
    <3> HIDE DEF R
    <3> QED BY <2>1, <3>1, Zenon
  <2>3. Len(A) + Len(B) = Len(L) - 1
    BY <1>1, <1>2, <1>3
  <2> HIDE DEF R
  <2>4. ASSUME NEW i \in 1 .. Len(L) - 1
        PROVE  R[i] = IF i < k THEN L[i] ELSE L[i + 1]
    <3>1. CASE i < k
      BY <1>1, <1>2, <2>2, <2>3, <3>1
    <3>2. CASE ~(i < k)
      <4>1. /\ i - Len(A) \in 1 .. Len(L) - k /\ ~(i <= Len(A))
            /\ k + (i - Len(A)) = i + 1
        BY <1>1, <1>2, <3>2
      <4>2. R[i] = B[i - Len(A)]
        BY <2>2, <2>3, <4>1
      <4> QED BY <1>3, <3>2, <4>1, <4>2
    <3> QED BY <3>1, <3>2
  <2> QED BY <2>2, <2>3, <2>4
<1> HIDE DEF R
<1>5. DOMAIN R = 1 .. Len(L) - 1
  BY <1>1, <1>4
<1> QED BY <1>4, <1>5 DEF R, Os

(* One order leaves from within the level.                                 *)
LEMMA RemoveShrinks ==
  ASSUME NEW L, LevelOK(L), NEW k \in DOMAIN L
  PROVE  RemoveOrder(L, k) \in Seq(Orders(Nat)) /\ Shrunk(L, RemoveOrder(L, k), {L[k].id})
<1> DEFINE R == RemoveOrder(L, k)
<1>1. Len(L) \in Nat /\ DOMAIN L = 1 .. Len(L) /\ k \in 1 .. Len(L)
  BY DEF LevelOK
<1>4. /\ R \in Seq(Orders(Nat))
      /\ \A i \in 1 .. Len(L) - 1 : R[i] = IF i < k THEN L[i] ELSE L[i + 1]
  BY RemoveMaps
<1>5. DOMAIN R = 1 .. Len(L) - 1
  BY RemoveMaps
<1> HIDE DEF R
<1> DEFINE at(i) == IF i < k THEN i ELSE i + 1
<1>6. \A i \in DOMAIN R : at(i) \in DOMAIN L /\ at(i) # k /\ R[i] = L[at(i)]
  BY <1>1, <1>4, <1>5
<1>7. \A i, j \in DOMAIN R : i < j => at(i) < at(j)
  BY <1>1, <1>5
<1>8. \A m \in DOMAIN L : m # k => \E i \in DOMAIN R : at(i) = m
  <2> SUFFICES ASSUME NEW m \in DOMAIN L, m # k PROVE \E i \in DOMAIN R : at(i) = m
    OBVIOUS
  <2>1. CASE m < k
    BY <1>1, <1>5, <2>1
  <2>2. CASE m > k
    <3>1. m - 1 \in DOMAIN R /\ at(m - 1) = m
      BY <1>1, <1>5, <2>2
    <3> QED BY <3>1
  <2> QED BY <1>1, <2>1, <2>2
<1> HIDE DEF at
<1>9. \A m \in DOMAIN L : m # k => L[m].id # L[k].id
  BY <1>1 DEF LevelOK
<1>10. \A i \in DOMAIN R : /\ R[i].qty > 0
                          /\ R[i].id \notin {L[k].id}
                          /\ \E m \in DOMAIN L : R[i].id = L[m].id /\ R[i].seq = L[m].seq
  BY <1>6, <1>9 DEF LevelOK
<1>11. \A i, j \in DOMAIN R : i < j => R[i].seq < R[j].seq /\ R[i].id # R[j].id
  BY <1>6, <1>7 DEF LevelOK
<1>12. \A m \in DOMAIN L : L[m].id \notin {L[k].id} => \E i \in DOMAIN R : R[i].id = L[m].id
  BY <1>6, <1>8
<1> QED BY <1>4, <1>10, <1>11, <1>12 DEF R, Shrunk

(* position finds the order, wherever it stands in its level.              *)
LEMMA PositionFound ==
  ASSUME NEW L, LevelOK(L), NEW id, \E i \in DOMAIN L : L[i].id = id
  PROVE  /\ PositionOf(L, id) \in DOMAIN L
         /\ PositionOf(L, id) # 0
         /\ L[PositionOf(L, id)].id = id
<1> DEFINE I == {i \in 1 .. Len(L) : L[i].id = id}
<1>1. Len(L) \in Nat /\ DOMAIN L = 1 .. Len(L)
  BY DEF LevelOK
<1>2. I \in SUBSET Nat /\ I # {}
  BY <1>1
<1>3. \E x \in I : \A y \in I : x <= y
  BY <1>2, Least, ZenonT(60)
<1>4. PositionOf(L, id) = Min(I)
  BY <1>1, <1>2, ZenonT(60) DEF PositionOf
<1>5. Min(I) \in I
  BY <1>3 DEF Min
<1> QED BY <1>1, <1>4, <1>5

(* The book a cancel leaves: well-formed, without the id; and the order it *)
(* reports is the one that rested.                                         *)
CancelOK(b, id) ==
  /\ BookOK(CancelBook(b, id))
  /\ DOMAIN CancelBook(b, id).index = DOMAIN b.index \ {id}
  /\ \A n \in Nat : SeqsBelow(b, n) => SeqsBelow(CancelBook(b, id), n)
  /\ CancelFinds(b, id) <=> id \in DOMAIN b.index
  /\ CancelFinds(b, id) => CancelQty(b, id) \in Qtys

(* cancel keeps the book well-formed and finds every indexed order.        *)
LEMMA CancelPreserves ==
  ASSUME NEW b, BookOK(b), NEW id \in OrderIds
  PROVE  CancelOK(b, id)
<1>1. CASE id \notin DOMAIN b.index
  BY <1>1 DEF CancelOK, CancelBook, CancelFinds, BookContains
<1>2. CASE id \in DOMAIN b.index
  <2>1. PICK s \in Sides, p \in Prices : s = b.index[id].side /\ p = b.index[id].price
    BY <1>2 DEF BookOK, BookType
  <2>2. CancelLevel(b, id) = LevelAt(b, s, p)
    BY <2>1 DEF CancelLevel
  <2>3. \E i \in DOMAIN LevelAt(b, s, p) : LevelAt(b, s, p)[i].id = id
    BY <1>2, <2>2 DEF BookOK, IndexedRests
  <2>4. p \in DOMAIN b.levels[s] /\ LevelAt(b, s, p) = b.levels[s][p]
    <3>1. LevelAt(b, s, p) # << >>
      BY <2>3
    <3> QED BY <3>1 DEF LevelAt
  <2> DEFINE L == b.levels[s][p]
             k == PositionOf(L, id)
             u == Unindex(b, id)
             nb == CancelBook(b, id)
  <2>5. LevelOK(L)
    BY <2>4, LevelIsOK
  <2>6. k \in DOMAIN L /\ k # 0 /\ L[k].id = id
    BY <2>3, <2>4, <2>5, PositionFound, SMTT(60)
  <2>7. IndexedAt(b, id, s, p)
    BY <1>2, <2>1 DEF IndexedAt
  <2>8. CancelFinds(b, id)
    BY <1>2, <2>2, <2>4, <2>6, ZenonT(60) DEF CancelFinds, BookContains
  <2>9. CancelQty(b, id) = L[k].qty /\ L[k] \in Orders(Nat)
    BY <2>2, <2>4, <2>5, <2>6, SMTT(60) DEF CancelQty, LevelOK
  <2>10. nb = StoreLevel(u, s, p, RemoveOrder(L, k))
    BY <1>2, <2>1, <2>2, <2>4, <2>8 DEF CancelBook, BookContains
  <2> HIDE DEF L, k, u, nb
  <2>11. IndexShrunk(b, u, s, p, {id})
    BY <2>7, UnindexShrinks DEF u
  <2>12. RemoveOrder(L, k) \in Seq(Orders(Nat)) /\ Shrunk(L, RemoveOrder(L, k), {id})
    BY <2>5, <2>6, RemoveShrinks
  <2>13. {id} \in SUBSET OrderIds
    OBVIOUS
  <2>14. ShrunkBookOK(b, u, nb)
    BY <2>4, <2>10, <2>11, <2>12, <2>13, LevelShrinks DEF L
  <2>15. CancelQty(b, id) \in Qtys
    BY <2>9 DEF Orders
  <2>16. /\ BookOK(nb)
         /\ DOMAIN nb.index = DOMAIN b.index \ {id}
         /\ \A n \in Nat : SeqsBelow(b, n) => SeqsBelow(nb, n)
    BY <2>11, <2>14 DEF ShrunkBookOK, IndexShrunk
  <2> QED BY <1>2, <2>8, <2>15, <2>16 DEF CancelOK, nb
<1> QED BY <1>1, <1>2

-----------------------------------------------------------------------------
(* add.                                                                    *)

(* nb is b with order at the back of the level at (side, price).           *)
Appended(b, nb, side, price, order) ==
  /\ DOMAIN nb = {"levels", "index"}
  /\ DOMAIN nb.index = DOMAIN b.index \cup {order.id}
  /\ nb.index[order.id].side = side /\ nb.index[order.id].price = price
  /\ \A x \in DOMAIN b.index : x # order.id => nb.index[x] = b.index[x]
  /\ nb.levels \in [Sides -> {nb.levels[s] : s \in Sides}]
  /\ \A s \in Sides : s # side => nb.levels[s] = b.levels[s]
  /\ DOMAIN nb.levels[side] = DOMAIN b.levels[side] \cup {price}
  /\ \A p \in DOMAIN nb.levels[side] :
       nb.levels[side][p] = IF p = price THEN Append(LevelAt(b, side, price), order)
                                         ELSE b.levels[side][p]

(* What add does to the three maps.                                        *)
LEMMA AddAppends ==
  ASSUME NEW b, BookType(b), NEW id \in OrderIds, ~BookContains(b, id),
         NEW side \in Sides, NEW price \in Prices, NEW qty \in Qtys, qty > 0,
         NEW seq \in Nat
  PROVE  /\ BookType(Add(b, id, side, price, qty, seq))
         /\ Appended(b, Add(b, id, side, price, qty, seq), side, price,
                     [id |-> id, qty |-> qty, seq |-> seq])
<1> DEFINE nb == Add(b, id, side, price, qty, seq)
           order == [id |-> id, qty |-> qty, seq |-> seq]
           level == Append(LevelAt(b, side, price), order)
           m == Insert(b.levels[side], price, level)
           e == [side |-> side, price |-> price]
           x == Insert(b.index, id, e)
<1>1. /\ DOMAIN b.levels = Sides
      /\ b.levels[side] \in [DOMAIN b.levels[side] -> Seq(Orders(Nat))]
      /\ DOMAIN b.levels[side] \subseteq Prices
  BY DEF BookType
<1>2. nb = [levels |-> [b.levels EXCEPT ![side] = m], index |-> x]
  <2>1. AddOk(b, id, qty)
    BY BookAssumption DEF AddOk, Qtys
  <2> QED BY <2>1, Zenon DEF Add
<1>3. order \in Orders(Nat) /\ order.id = id
  BY DEF Orders
<1>4. level \in Seq(Orders(Nat))
  <2>1. LevelAt(b, side, price) \in Seq(Orders(Nat))
    BY <1>1 DEF LevelAt
  <2> HIDE DEF order
  <2> QED BY <1>3, <2>1
<1> HIDE DEF order, level, nb
<1>5. /\ DOMAIN m = DOMAIN b.levels[side] \cup {price}
      /\ m[price] = level
      /\ \A p \in DOMAIN m : m[p] = IF p = price THEN level ELSE b.levels[side][p]
      /\ m \in [DOMAIN m -> Seq(Orders(Nat))]
  BY <1>1, <1>4 DEF Insert
<1>6. e \in [side : Sides, price : Prices] /\ e.side = side /\ e.price = price
  OBVIOUS
<1> HIDE DEF e
<1>7. /\ DOMAIN x = DOMAIN b.index \cup {id}
      /\ x[id] = e
      /\ \A k \in DOMAIN b.index : k # id => x[k] = b.index[k]
      /\ x \in [DOMAIN x -> [side : Sides, price : Prices]]
  <2>1. b.index \in [DOMAIN b.index -> [side : Sides, price : Prices]]
    BY DEF BookType
  <2> QED BY <1>6, <2>1 DEF Insert
<1> HIDE DEF m, x
<1>8. /\ DOMAIN nb = {"levels", "index"}
      /\ nb.levels = [b.levels EXCEPT ![side] = m] /\ nb.index = x
  BY <1>2
<1>9. /\ DOMAIN nb.levels = Sides
      /\ nb.levels[side] = m
      /\ \A s \in Sides : s # side => nb.levels[s] = b.levels[s]
  BY <1>1, <1>8
<1>10. nb.levels \in [Sides -> {nb.levels[s] : s \in Sides}]
  <2>1. nb.levels = [s \in Sides |-> IF s = side THEN m ELSE b.levels[s]]
    BY <1>1, <1>8
  <2> QED BY <2>1, <1>9
<1>11. \A s \in Sides : /\ DOMAIN nb.levels[s] \subseteq Prices
                        /\ nb.levels[s] \in [DOMAIN nb.levels[s] -> Seq(Orders(Nat))]
  BY <1>1, <1>5, <1>9 DEF BookType
<1>12. BookType(nb)
  <2>1. DOMAIN x \subseteq OrderIds
    BY <1>7 DEF BookType
  <2> QED BY <1>7, <1>8, <1>10, <1>11, <2>1 DEF BookType
<1>13. Appended(b, nb, side, price, order)
  BY <1>3, <1>5, <1>6, <1>7, <1>8, <1>9, <1>10 DEF Appended, level
<1> QED BY <1>12, <1>13 DEF nb, order

(* The fields of an order in a level.                                      *)
LEMMA OrderOfLevel ==
  ASSUME NEW L, LevelOK(L), NEW i \in DOMAIN L
  PROVE  L[i] \in Orders(Nat) /\ L[i].seq \in Nat
<1>1. L[i] \in Orders(Nat)
  BY DEF LevelOK
<1> QED BY <1>1 DEF Orders

(* Another form of RestingIndexed.                                         *)
LEMMA AllIndexed ==
  ASSUME NEW b,
         \A s \in Sides : \A p \in DOMAIN b.levels[s] :
           \A i \in DOMAIN b.levels[s][p] :
             IndexedAt(b, b.levels[s][p][i].id, s, p)
  PROVE  RestingIndexed(b)
<1> SUFFICES ASSUME NEW s \in Sides, NEW p \in DOMAIN b.levels[s],
                    NEW i \in DOMAIN b.levels[s][p]
             PROVE  /\ b.levels[s][p][i].id \in DOMAIN b.index
                    /\ b.index[b.levels[s][p][i].id].side = s
                    /\ b.index[b.levels[s][p][i].id].price = p
  BY ZenonT(60) DEF RestingIndexed, BookContains
<1>1. IndexedAt(b, b.levels[s][p][i].id, s, p)
  BY ZenonT(60)
<1> QED BY <1>1, ZenonT(60) DEF IndexedAt

(* N is A with order at the back.                                          *)
Grown(A, N, order) ==
  /\ LevelOK(N) /\ N # << >>
  /\ \A i \in DOMAIN N : N[i] = order \/ (i \in DOMAIN A /\ N[i] = A[i])
  /\ \A i \in DOMAIN A : i \in DOMAIN N /\ N[i] = A[i]
  /\ \E i \in DOMAIN N : N[i] = order

(* push_back keeps a level in time order if the new order is the latest.   *)
LEMMA LevelGrows ==
  ASSUME NEW A, LevelOK(A), NEW order \in Orders(Nat), order.qty > 0,
         \A i \in DOMAIN A : A[i].seq < order.seq /\ A[i].id # order.id
  PROVE  Grown(A, Append(A, order), order)
<1> DEFINE Os == Orders(Nat)
           N == Append(A, order)
           n == Len(A) + 1
<1> HIDE DEF Os
<1>1. A \in Seq(Os) /\ Len(A) \in Nat /\ DOMAIN A = 1 .. Len(A) /\ order \in Os
  BY DEF LevelOK, Os
<1>2. /\ N \in Seq(Os) /\ DOMAIN N = 1 .. n /\ N[n] = order /\ n \in DOMAIN N
      /\ \A i \in DOMAIN A : i \in DOMAIN N /\ N[i] = A[i]
  BY <1>1
<1>3. \A i \in DOMAIN N : i = n \/ i \in DOMAIN A
  BY <1>1, <1>2
<1>4. \A i, j \in DOMAIN N : i < j => i \in DOMAIN A
  BY <1>1, <1>2
<1> HIDE DEF N, n
<1>5. \A i \in DOMAIN N : N[i].qty > 0
  BY <1>2, <1>3 DEF LevelOK
<1>6. \A i, j \in DOMAIN N : i < j => N[i].seq < N[j].seq /\ N[i].id # N[j].id
  BY <1>2, <1>3, <1>4 DEF LevelOK
<1>7. N # << >>
  BY <1>2
<1> QED BY <1>2, <1>3, <1>5, <1>6, <1>7 DEF Grown, LevelOK, Os, N

(* A well-formed book that has one more id and no order from next on.      *)
AddedOK(b, nb, id, next) ==
  /\ BookOK(nb)
  /\ DOMAIN nb.index = DOMAIN b.index \cup {id}
  /\ SeqsBelow(nb, next)

(* A limit price that no order of the opposite side crosses.               *)
NoneCrosses(b, side, price) ==
  \A q \in DOMAIN b.levels[Opposite(side)] :
    ~WithinLimit(Opposite(side), q, price)

(* add keeps the book well-formed, if the order is later than all that     *)
(* rest and its price crosses none of the opposite side.                   *)
LEMMA AddPreserves ==
  ASSUME NEW b, BookOK(b), NEW id \in OrderIds, ~BookContains(b, id),
         NEW side \in Sides, NEW price \in Prices, NEW qty \in Qtys, qty > 0,
         NEW seq \in Nat, SeqsBelow(b, seq),
         NEW next \in Nat, seq < next,
         NoneCrosses(b, side, price)
  PROVE  AddedOK(b, Add(b, id, side, price, qty, seq), id, next)
<1> DEFINE nb == Add(b, id, side, price, qty, seq)
           order == [id |-> id, qty |-> qty, seq |-> seq]
           A == LevelAt(b, side, price)
           N == Append(A, order)
<1>1. BookType(nb) /\ Appended(b, nb, side, price, order)
  BY AddAppends DEF BookOK
<1>2. order \in Orders(Nat) /\ order.id = id /\ order.seq = seq /\ order.qty > 0
  BY DEF Orders
<1> HIDE DEF nb, order
<1>3. LevelOK(A) /\ \A i \in DOMAIN A : A[i].seq < seq /\ A[i].id # id
  <2>1. CASE price \in DOMAIN b.levels[side]
    <3>1. A = b.levels[side][price]
      BY <2>1 DEF LevelAt
    <3>2. LevelOK(A)
      BY <2>1, <3>1, LevelIsOK
    <3>3. ASSUME NEW i \in DOMAIN A PROVE A[i].seq < seq
      BY <2>1, <3>1, <3>3 DEF SeqsBelow
    <3>4. ASSUME NEW i \in DOMAIN A PROVE A[i].id # id
      <4>1. IndexedAt(b, A[i].id, side, price)
        BY <2>1, <3>1, <3>4, IndexOfResting
      <4> QED BY <4>1 DEF IndexedAt, BookContains
    <3> QED BY <3>2, <3>3, <3>4
  <2>2. CASE price \notin DOMAIN b.levels[side]
    <3>1. A = << >>
      BY <2>2 DEF LevelAt
    <3> QED BY <3>1 DEF LevelOK
  <2> QED BY <2>1, <2>2
<1>4. Grown(A, N, order)
  BY <1>2, <1>3, LevelGrows
<1> DEFINE here(s, p) == s = side /\ p = price
<1>5. \A s \in Sides : \A p \in DOMAIN nb.levels[s] :
        /\ here(s, p) => nb.levels[s][p] = N
        /\ ~here(s, p) => p \in DOMAIN b.levels[s] /\ nb.levels[s][p] = b.levels[s][p]
  BY <1>1, ZenonT(60) DEF Appended
<1>6. \A s \in Sides : \A p \in DOMAIN b.levels[s] : p \in DOMAIN nb.levels[s]
  BY <1>1 DEF Appended
<1> HIDE DEF N, A, here
<1>7. NoEmptyLevel(nb)
  BY <1>4, <1>5 DEF Grown, NoEmptyLevel, BookOK
<1>8. RestingOpen(nb)
  <2>1. \A i \in DOMAIN N : N[i].qty > 0
    BY <1>4, ZenonT(60) DEF Grown, LevelOK
  <2> QED BY <1>5, <2>1, SMTT(60) DEF RestingOpen, BookOK
<1>9. TimeOrdered(nb)
  <2>1. \A i, j \in DOMAIN N : i < j => N[i].seq < N[j].seq /\ N[i].id # N[j].id
    BY <1>4 DEF Grown, LevelOK
  <2> SUFFICES ASSUME NEW s \in Sides, NEW p \in DOMAIN nb.levels[s],
                      NEW i \in DOMAIN nb.levels[s][p],
                      NEW j \in DOMAIN nb.levels[s][p], i < j
               PROVE  /\ nb.levels[s][p][i].seq < nb.levels[s][p][j].seq
                      /\ nb.levels[s][p][i].id # nb.levels[s][p][j].id
    BY Zenon DEF TimeOrdered
  <2>2. CASE here(s, p)
    BY <1>5, <2>1, <2>2, SMTT(60)
  <2>3. CASE ~here(s, p)
    <3>1. p \in DOMAIN b.levels[s] /\ nb.levels[s][p] = b.levels[s][p]
      BY <1>5, <2>3
    <3> QED BY <3>1, SMTT(60) DEF TimeOrdered, BookOK
  <2> QED BY <2>2, <2>3
<1>10. SeqsBelow(nb, next)
  <2> SUFFICES ASSUME NEW s \in Sides, NEW p \in DOMAIN nb.levels[s],
                      NEW i \in DOMAIN nb.levels[s][p]
               PROVE  nb.levels[s][p][i].seq < next
    BY DEF SeqsBelow
  <2>1. CASE here(s, p)
    <3>1. nb.levels[s][p] = N /\ i \in DOMAIN N
      BY <1>5, <2>1
    <3>2. N[i] = order \/ (i \in DOMAIN A /\ N[i] = A[i])
      BY <1>4, <3>1 DEF Grown
    <3>3. CASE N[i] = order
      BY <1>2, <3>1, <3>3
    <3>4. CASE i \in DOMAIN A /\ N[i] = A[i]
      <4>1. A[i].seq \in Nat /\ A[i].seq < seq
        BY <1>3, <3>4, OrderOfLevel, ZenonT(60)
      <4> QED BY <3>1, <3>4, <4>1
    <3> QED BY <3>2, <3>3, <3>4
  <2>2. CASE ~here(s, p)
    <3>1. p \in DOMAIN b.levels[s] /\ nb.levels[s][p] = b.levels[s][p] /\ i \in DOMAIN b.levels[s][p]
      BY <1>5, <2>2, ZenonT(60)
    <3>2. b.levels[s][p][i].seq \in Nat /\ b.levels[s][p][i].seq < seq
      <4> DEFINE B == b.levels[s][p]
      <4>1. LevelOK(B)
        BY <3>1, LevelIsOK
      <4>2. i \in DOMAIN B /\ B[i].seq < seq
        BY <3>1 DEF SeqsBelow
      <4> HIDE DEF B
      <4>3. B[i].seq \in Nat
        BY <4>1, <4>2, OrderOfLevel
      <4> QED BY <4>2, <4>3 DEF B
    <3> QED BY <3>1, <3>2, SMTT(60)
  <2> QED BY <2>1, <2>2
<1>11. Uncrossed(nb)
  <2> SUFFICES ASSUME NEW p \in DOMAIN nb.levels["Buy"], NEW q \in DOMAIN nb.levels["Sell"]
               PROVE  p < q
    BY DEF Uncrossed
  <2>0. "Buy" \in Sides /\ "Sell" \in Sides
    BY DEF Sides
  <2>1. p \in Int /\ q \in Int
    BY <1>1, <2>0, BookAssumption, SMTT(60) DEF BookType, Prices
  <2>2. CASE side = "Buy"
    <3>1. q \in DOMAIN b.levels["Sell"] /\ (p = price \/ p \in DOMAIN b.levels["Buy"])
      BY <1>1, <2>0, <2>2 DEF Appended
    <3>2. ~(q <= price)
      BY <2>2, <3>1, ZenonT(60) DEF NoneCrosses, Opposite, WithinLimit
    <3>3. p \in DOMAIN b.levels["Buy"] => p < q
      BY <3>1 DEF BookOK, Uncrossed
    <3> QED BY <2>1, <3>1, <3>2, <3>3, BookAssumption, SMTT(60) DEF Prices
  <2>3. CASE side = "Sell"
    <3>1. p \in DOMAIN b.levels["Buy"] /\ (q = price \/ q \in DOMAIN b.levels["Sell"])
      BY <1>1, <2>0, <2>3 DEF Appended
    <3>2. ~(p >= price)
      BY <2>3, <3>1, ZenonT(60) DEF NoneCrosses, Opposite, WithinLimit
    <3>3. q \in DOMAIN b.levels["Sell"] => p < q
      BY <3>1 DEF BookOK, Uncrossed
    <3> QED BY <2>1, <3>1, <3>2, <3>3, BookAssumption, SMTT(60) DEF Prices
  <2> QED BY <2>2, <2>3 DEF Sides
<1>12. RestingIndexed(nb)
  <2> SUFFICES ASSUME NEW s \in Sides, NEW p \in DOMAIN nb.levels[s],
                      NEW i \in DOMAIN nb.levels[s][p]
               PROVE  IndexedAt(nb, nb.levels[s][p][i].id, s, p)
    BY AllIndexed
  <2>1. CASE here(s, p) /\ nb.levels[s][p][i] = order
    <3>1. IndexedAt(nb, order.id, side, price)
      BY <1>1, ZenonT(60) DEF Appended, IndexedAt
    <3> QED BY <2>1, <3>1, ZenonT(60) DEF here
  <2>2. CASE ~(here(s, p) /\ nb.levels[s][p][i] = order)
    <3>1. /\ p \in DOMAIN b.levels[s] /\ i \in DOMAIN b.levels[s][p]
          /\ nb.levels[s][p][i] = b.levels[s][p][i]
      <4>1. CASE here(s, p)
        <5>1. nb.levels[s][p] = N /\ i \in DOMAIN N
          BY <1>5, <4>1
        <5>2. i \in DOMAIN A /\ N[i] = A[i]
          BY <1>4, <2>2, <4>1, <5>1 DEF Grown
        <5>3. A # << >>
          BY <5>2
        <5>4. price \in DOMAIN b.levels[side] /\ A = b.levels[side][price]
          BY <5>3, ZenonT(60) DEF A, LevelAt
        <5> QED BY <4>1, <5>1, <5>2, <5>4 DEF here
      <4>2. CASE ~here(s, p)
        BY <1>5, <4>2, ZenonT(60)
      <4> QED BY <4>1, <4>2, ZenonT(60)
    <3>2. IndexedAt(b, b.levels[s][p][i].id, s, p)
      BY <3>1, IndexOfResting
    <3>3. b.levels[s][p][i].id # id
      BY <3>2, ZenonT(60) DEF IndexedAt, BookContains
    <3>4. IndexedAt(nb, b.levels[s][p][i].id, s, p)
      BY <1>1, <1>2, <3>2, <3>3, ZenonT(60) DEF IndexedAt, Appended
    <3> QED BY <3>1, <3>4, ZenonT(60)
  <2> QED BY <2>1, <2>2
<1>13. IndexedRests(nb)
  <2> SUFFICES ASSUME NEW x \in DOMAIN nb.index
               PROVE  \E i \in DOMAIN CancelLevel(nb, x) : CancelLevel(nb, x)[i].id = x
    BY DEF IndexedRests
  <2>1. CASE x = id
    <3>1. CancelLevel(nb, x) = N
      <4>1. price \in DOMAIN nb.levels[side] /\ nb.levels[side][price] = N
        BY <1>1, <1>5, SMTT(60) DEF Appended, here
      <4> QED BY <1>1, <1>2, <2>1, <4>1, ZenonT(60) DEF Appended, CancelLevel, LevelAt
    <3> QED BY <1>2, <1>4, <2>1, <3>1, ZenonT(60) DEF Grown
  <2>2. CASE x # id
    <3>1. x \in DOMAIN b.index /\ nb.index[x] = b.index[x]
      BY <1>1, <1>2, <2>2, ZenonT(60) DEF Appended
    <3>2. PICK s \in Sides, p \in Prices : s = b.index[x].side /\ p = b.index[x].price
      BY <3>1, ZenonT(60) DEF BookOK, BookType
    <3>3. PICK k \in DOMAIN LevelAt(b, s, p) : LevelAt(b, s, p)[k].id = x
      BY <3>1, <3>2 DEF BookOK, IndexedRests, CancelLevel
    <3>4. p \in DOMAIN b.levels[s] /\ LevelAt(b, s, p) = b.levels[s][p]
      <4>1. LevelAt(b, s, p) # << >>
        BY <3>3, SMTT(60)
      <4> QED BY <4>1 DEF LevelAt
    <3>5. p \in DOMAIN nb.levels[s] /\ CancelLevel(nb, x) = nb.levels[s][p]
      BY <1>6, <3>1, <3>2, <3>4, ZenonT(60) DEF CancelLevel, LevelAt
    <3>6. k \in DOMAIN nb.levels[s][p] /\ nb.levels[s][p][k] = LevelAt(b, s, p)[k]
      <4>1. CASE here(s, p)
        <5>1. nb.levels[s][p] = N /\ A = LevelAt(b, s, p)
          BY <1>5, <3>5, <4>1, ZenonT(60) DEF here, A
        <5> QED BY <1>4, <5>1 DEF Grown
      <4>2. CASE ~here(s, p)
        BY <1>5, <3>4, <3>5, <4>2
      <4> QED BY <4>1, <4>2
    <3> QED BY <3>3, <3>5, <3>6, ZenonT(60)
  <2> QED BY <2>1, <2>2
<1>14. BookOK(nb)
  BY <1>1, <1>7, <1>8, <1>9, <1>11, <1>12, <1>13, ZenonT(60) DEF BookOK
<1>15. DOMAIN nb.index = DOMAIN b.index \cup {id}
  BY <1>1, <1>2 DEF Appended
<1> QED BY <1>10, <1>14, <1>15 DEF AddedOK, nb

(* A book that did not grow keeps its bounds when next only rises.         *)
LEMMA SeqsBelowRises ==
  ASSUME NEW b, BookOK(b), NEW n \in Nat, NEW m \in Nat, n <= m, SeqsBelow(b, n)
  PROVE  SeqsBelow(b, m)
<1> SUFFICES ASSUME NEW s \in Sides, NEW p \in DOMAIN b.levels[s],
                    NEW i \in DOMAIN b.levels[s][p]
             PROVE  b.levels[s][p][i].seq < m
  BY DEF SeqsBelow
<1> DEFINE x == b.levels[s][p][i].seq
<1>1. x \in Nat
  <2> DEFINE L == b.levels[s][p]
  <2>1. LevelOK(L)
    BY LevelIsOK
  <2> HIDE DEF L
  <2>2. i \in DOMAIN L
    BY DEF L
  <2>3. L[i].seq \in Nat
    BY <2>1, <2>2, OrderOfLevel
  <2> QED BY <2>3 DEF L
<1>2. x < n
  BY DEF SeqsBelow
<1> HIDE DEF x
<1>3. x < m
  BY <1>1, <1>2
<1> QED BY <1>3 DEF x

(* The empty book is well-formed.                                          *)
LEMMA NewBookOK ==
  BookOK(NewBook) /\ SeqsBelow(NewBook, 1)
<1> DEFINE b == NewBook
<1>1. /\ DOMAIN b = {"levels", "index"}
      /\ b.levels = [s \in Sides |-> EmptyMap]
      /\ b.index = EmptyMap
  BY DEF NewBook
<1>2. DOMAIN EmptyMap = {}
  BY DEF EmptyMap
<1> HIDE DEF b
<1>3. DOMAIN b.levels = Sides /\ \A s \in Sides : b.levels[s] = EmptyMap
  BY <1>1
<1>4. BookType(b)
  <2>1. EmptyMap \in [{} -> Seq(Orders(Nat))] /\ EmptyMap \in [{} -> [side : Sides, price : Prices]]
    BY DEF EmptyMap
  <2>2. b.levels \in [Sides -> {b.levels[s] : s \in Sides}]
    BY <1>1, <1>3
  <2> QED BY <1>1, <1>2, <1>3, <2>1, <2>2 DEF BookType
<1>5. NoEmptyLevel(b) /\ IndexedRests(b) /\ RestingIndexed(b) /\ RestingOpen(b)
  BY <1>1, <1>2, <1>3, ZenonT(60) DEF NoEmptyLevel, IndexedRests, RestingIndexed, RestingOpen
<1>6. TimeOrdered(b) /\ Uncrossed(b) /\ SeqsBelow(b, 1)
  BY <1>2, <1>3 DEF TimeOrdered, Uncrossed, SeqsBelow, Sides
<1> QED BY <1>4, <1>5, <1>6 DEF BookOK, b

-----------------------------------------------------------------------------
(* New orders and events.                                                  *)

(* The fields of a new order have their types.                             *)
LEMMA OrderFields ==
  ASSUME NEW o \in NewOrders
  PROVE  /\ o.id \in OrderIds /\ o.side \in Sides /\ o.qty \in Qtys
         /\ o.kind # "Market" => o.price \in Prices
         /\ Opposite(o.side) \in Sides
BY ZenonT(60) DEF NewOrders, PricedKinds, Opposite, Sides

(* Events are events.                                                      *)
LEMMA EventTypes ==
  ASSUME NEW id \in OrderIds, NEW n \in Nat, NEW q \in Qtys
  PROVE  /\ Accepted(id, q, n) \in Events
         /\ \A r \in {"Filled", "Cancelled", "Expired", "NoLiquidity", "Rejected"} :
              Done(id, q, r, n) \in Events
         /\ \A m \in OrderIds, p \in Prices : Trade(id, m, p, q, n) \in Events
         /\ Accepted(id, q, n).seq = n
         /\ \A r : Done(id, q, r, n).seq = n
         /\ \A m, p : Trade(id, m, p, q, n).seq = n
<1>1. Accepted(id, q, n) \in Events
  BY DEF Events, Accepted
<1>2. \A r \in {"Filled", "Cancelled", "Expired", "NoLiquidity", "Rejected"} :
              Done(id, q, r, n) \in Events
  BY DEF Events, Done
<1>3. \A m \in OrderIds, p \in Prices : Trade(id, m, p, q, n) \in Events
  BY DEF Events, Trade
<1> QED BY <1>1, <1>2, <1>3 DEF Accepted, Done, Trade

(* The events of one iteration are consecutively numbered events.          *)
LEMMA MatchEventsOK ==
  ASSUME NEW o \in NewOrders, NEW p \in Prices, NEW n \in Nat,
         NEW t, t.maker \in OrderIds, t.taken \in Qtys
  PROVE  /\ << >> \o MatchEvents(o, p, t, n) \in Seq(Events)
         /\ Len(<< >> \o MatchEvents(o, p, t, n)) = IF t.remaining = 0 THEN 2 ELSE 1
         /\ \A i \in DOMAIN (<< >> \o MatchEvents(o, p, t, n)) :
              (<< >> \o MatchEvents(o, p, t, n))[i].seq = n + i - 1
<1> DEFINE tr == Trade(o.id, t.maker, p, t.taken, n)
           d == Done(t.maker, 0, "Filled", n + 1)
<1>1. tr \in Events /\ tr.seq = n
  <2>1. o.id \in OrderIds
    BY OrderFields
  <2>2. tr \in Events
    BY <2>1, EventTypes, ZenonT(60)
  <2> QED BY <2>2 DEF Trade
<1>2. d \in Events /\ d.seq = n + 1
  <2>1. 0 \in Qtys /\ n + 1 \in Nat
    BY BookAssumption DEF Qtys
  <2>2. d \in Events
    BY <2>1, EventTypes
  <2> QED BY <2>2 DEF Done
<1> HIDE DEF tr, d
<1> DEFINE evs == << >> \o MatchEvents(o, p, t, n)
<1>3. MatchEvents(o, p, t, n) = IF t.remaining = 0 THEN <<tr, d>> ELSE <<tr>>
  BY Zenon DEF MatchEvents, tr, d
<1>4. <<tr, d>> \in Seq(Events) /\ <<tr>> \in Seq(Events)
  BY <1>1, <1>2
<1>5. evs = IF t.remaining = 0 THEN <<tr, d>> ELSE <<tr>>
  BY <1>3, <1>4
<1> HIDE DEF evs
<1>6. CASE t.remaining = 0
  <2>1. evs = <<tr, d>>
    BY <1>5, <1>6
  <2>2. evs \in Seq(Events) /\ Len(evs) = 2 /\ DOMAIN evs = {1, 2}
    BY <1>4, <2>1
  <2>3. evs[1].seq = n + 1 - 1 /\ evs[2].seq = n + 2 - 1
    BY <1>1, <1>2, <2>1
  <2> QED BY <1>6, <2>2, <2>3 DEF evs
<1>7. CASE t.remaining # 0
  <2>1. evs = <<tr>>
    BY <1>5, <1>7
  <2>2. evs \in Seq(Events) /\ Len(evs) = 1 /\ DOMAIN evs = {1}
    BY <1>4, <2>1
  <2>3. evs[1].seq = n + 1 - 1
    BY <1>1, <2>1
  <2> QED BY <1>7, <2>2, <2>3 DEF evs
<1> QED BY <1>6, <1>7

-----------------------------------------------------------------------------
(* The loop condition.                                                     *)

(* The loop goes on only at the best price of a non-empty side.            *)
LEMMA LoopTakes ==
  ASSUME NEW b, BookOK(b), NEW o \in NewOrders, NEW r \in Qtys,
         LoopContinues(b, o, r)
  PROVE  Best(b, Opposite(o.side)) \in DOMAIN b.levels[Opposite(o.side)] /\ r > 0
<1> DEFINE s == Opposite(o.side)
           D == DOMAIN b.levels[s]
<1>1. s \in Sides
  BY OrderFields, ZenonT(60)
<1>2. D \in SUBSET Prices /\ D # {} /\ r > 0
  BY <1>1 DEF LoopContinues, BestCrosses, HasBest, BookOK, BookType
<1> HIDE DEF D
<1>3. BestOf(s, D) \in D
  BY <1>1, <1>2, BestIsExtremum DEF Sides
<1> QED BY <1>2, <1>3 DEF D, Best

(* When the loop stops with quantity left, no order of the opposite side   *)
(* crosses the limit: the best one does not, and no level is empty.        *)
LEMMA LoopStops ==
  ASSUME NEW b, BookOK(b), NEW o \in NewOrders, o.kind # "Market",
         NEW r \in Qtys, r > 0, ~LoopContinues(b, o, r)
  PROVE  NoneCrosses(b, o.side, o.price)
<1> DEFINE s == Opposite(o.side)
           D == DOMAIN b.levels[s]
<1>1. s \in Sides /\ o.price \in Prices
  BY OrderFields, ZenonT(60)
<1>2. D \in SUBSET Prices
  BY <1>1 DEF BookOK, BookType
<1>3. CASE D = {}
  BY <1>3 DEF NoneCrosses
<1>4. CASE D # {}
  <2>1. BestOf(s, D) \in D
    <3> HIDE DEF D, s
    <3> QED BY <1>1, <1>2, <1>4, BestIsExtremum, ZenonT(60) DEF Sides
  <2>2. TakeSome(b, s, BestOf(s, D), r)
    <3>1. b.levels[s][BestOf(s, D)] # << >>
      BY <1>1, <2>1 DEF BookOK, NoEmptyLevel
    <3> QED BY <2>1, <3>1, BookAssumption DEF TakeSome, LevelAt, Qtys
  <2>3. ~WithinLimit(s, BestOf(s, D), o.price)
    BY <1>4, <2>2 DEF LoopContinues, BestCrosses, HasBest, Crosses, Best
  <2> SUFFICES ASSUME NEW q \in D PROVE ~WithinLimit(s, q, o.price)
    BY DEF NoneCrosses
  <2>4. q \in Int /\ o.price \in Int /\ BestOf(s, D) \in Int
    BY <1>1, <1>2, <2>1, BookAssumption DEF Prices
  <2> HIDE DEF D, s
  <2>5. CASE s = "Sell"
    <3>1. BestOf("Sell", D) <= q
      BY <1>2, <1>4, BestIsExtremum
    <3> QED BY <2>3, <2>4, <2>5, <3>1 DEF WithinLimit
  <2>6. CASE s = "Buy"
    <3>1. BestOf("Buy", D) >= q
      BY <1>2, <1>4, BestIsExtremum
    <3> QED BY <2>3, <2>4, <2>6, <3>1 DEF WithinLimit
  <2> QED BY <1>1, <2>5, <2>6 DEF Sides
<1> QED BY <1>3, <1>4

-----------------------------------------------------------------------------
(* The loop as a recursive function.                                       *)

(* One more iteration of every call of a set.                              *)
Iterated(calls, o) == {Iteration(c, o) : c \in calls}

(* The first n iterations of the loop.                                     *)
LoopPrefix(g, n, call, o) ==
  g[0] = {call} /\ \A i \in 1 .. n : g[i] = Iterated(g[i - 1], o)

(* All iterations of the loop, those after its end included.               *)
LoopRun(call, o) ==
  CHOOSE f : f = [n \in Nat |-> IF n = 0 THEN {call}
                                ELSE {Iteration(c, o) : c \in f[n - 1]}]

(* The iterations are determined by where the loop starts.                 *)
LEMMA LoopPrefixUnique ==
  ASSUME NEW call, NEW o, NEW m \in Nat, NEW n \in Nat, NEW g, NEW h,
         LoopPrefix(g, m, call, o), LoopPrefix(h, n, call, o)
  PROVE  \A i \in Nat : i <= m /\ i <= n => g[i] = h[i]
<1> DEFINE T == {i \in Nat : i <= m /\ i <= n => g[i] = h[i]}
<1>1. 0 \in T
  BY DEF LoopPrefix
<1>2. ASSUME NEW i \in Nat, i \in T PROVE i + 1 \in T
  <2> SUFFICES ASSUME i + 1 <= m, i + 1 <= n PROVE g[i + 1] = h[i + 1]
    OBVIOUS
  <2>1. g[i] = h[i]
    BY <1>2
  <2>2. i + 1 \in 1 .. m /\ i + 1 \in 1 .. n /\ (i + 1) - 1 = i
    OBVIOUS
  <2>3. g[i + 1] = Iterated(g[i], o) /\ h[i + 1] = Iterated(h[i], o)
    BY <2>2 DEF LoopPrefix
  <2> QED BY <2>1, <2>3
<1> HIDE DEF T
<1>3. Nat \subseteq T
  BY <1>1, <1>2, SetInduction
<1> QED BY <1>3 DEF T

(* Any number of iterations can be made.                                   *)
LEMMA LoopPrefixExists ==
  ASSUME NEW call, NEW o
  PROVE  \A n \in Nat : \E g : LoopPrefix(g, n, call, o)
<1> DEFINE T == {n \in Nat : \E g : LoopPrefix(g, n, call, o)}
<1>1. 0 \in T
  <2> DEFINE g == [i \in {0} |-> {call}]
  <2>1. LoopPrefix(g, 0, call, o)
    BY DEF LoopPrefix
  <2> QED BY <2>1
<1>2. ASSUME NEW n \in Nat, n \in T PROVE n + 1 \in T
  <2>1. PICK g : LoopPrefix(g, n, call, o)
    BY <1>2
  <2> DEFINE h == [i \in 0 .. n + 1 |-> IF i <= n THEN g[i] ELSE Iterated(g[n], o)]
  <2>2. h[0] = {call}
    BY <2>1 DEF LoopPrefix
  <2>3. ASSUME NEW i \in 1 .. n + 1 PROVE h[i] = Iterated(h[i - 1], o)
    <3>1. CASE i <= n
      <4>1. i \in 1 .. n /\ i \in 0 .. n + 1 /\ i - 1 \in 0 .. n + 1 /\ i - 1 <= n
        BY <3>1
      <4>2. h[i] = g[i] /\ h[i - 1] = g[i - 1]
        BY <3>1, <4>1
      <4>3. g[i] = Iterated(g[i - 1], o)
        BY <2>1, <4>1 DEF LoopPrefix
      <4> QED BY <4>2, <4>3
    <3>2. CASE i = n + 1
      <4>1. i - 1 = n /\ n \in 0 .. n + 1 /\ i \in 0 .. n + 1 /\ ~ (i <= n)
        BY <3>2
      <4>2. h[i] = Iterated(g[n], o) /\ h[n] = g[n]
        BY <4>1
      <4> QED BY <4>1, <4>2
    <3> QED BY <3>1, <3>2
  <2> HIDE DEF h
  <2>4. LoopPrefix(h, n + 1, call, o)
    BY <2>2, <2>3 DEF LoopPrefix
  <2> QED BY <2>4
<1> HIDE DEF T
<1>3. Nat \subseteq T
  BY <1>1, <1>2, SetInduction
<1> QED BY <1>3 DEF T

(* The recursive function that the whole call uses is well-defined.        *)
LEMMA LoopRunDef ==
  ASSUME NEW call, NEW o
  PROVE  /\ LoopRun(call, o)[0] = {call}
         /\ \A n \in Nat : LoopRun(call, o)[n + 1] = Iterated(LoopRun(call, o)[n], o)
<1> DEFINE G(n) == CHOOSE g : LoopPrefix(g, n, call, o)
           f == [n \in Nat |-> G(n)[n]]
<1>1. \A n \in Nat : LoopPrefix(G(n), n, call, o)
  BY LoopPrefixExists
<1> HIDE DEF G
<1>2. f[0] = {call}
  BY <1>1 DEF LoopPrefix
<1>3. ASSUME NEW n \in Nat, n # 0 PROVE f[n] = Iterated(f[n - 1], o)
  <2>1. n - 1 \in Nat /\ n - 1 <= n /\ n - 1 <= n - 1 /\ n \in 1 .. n
    BY <1>3
  <2>2. LoopPrefix(G(n), n, call, o) /\ LoopPrefix(G(n - 1), n - 1, call, o)
    BY <1>1, <2>1
  <2>3. G(n)[n - 1] = G(n - 1)[n - 1]
    <3> DEFINE g == G(n)
               h == G(n - 1)
               m == n - 1
    <3>1. m \in Nat /\ LoopPrefix(g, n, call, o) /\ LoopPrefix(h, m, call, o)
      BY <2>1, <2>2
    <3> HIDE DEF g, h, m
    <3>2. \A i \in Nat : i <= n /\ i <= m => g[i] = h[i]
      BY <3>1, LoopPrefixUnique
    <3> QED BY <2>1, <3>2 DEF g, h, m
  <2>4. G(n)[n] = Iterated(G(n)[n - 1], o)
    BY <2>1, <2>2 DEF LoopPrefix
  <2> QED BY <2>1, <2>3, <2>4
<1>4. f = [n \in Nat |-> IF n = 0 THEN {call} ELSE {Iteration(c, o) : c \in f[n - 1]}]
  <2> DEFINE h == [n \in Nat |-> IF n = 0 THEN {call} ELSE Iterated(f[n - 1], o)]
  <2>1. \A n \in Nat : f[n] = h[n]
    <3> HIDE DEF f
    <3> QED BY <1>2, <1>3, ZenonT(60)
  <2>2. f = h
    BY <2>1, ZenonT(60)
  <2> HIDE DEF f
  <2> QED BY <2>2, ZenonT(60) DEF Iterated
<1> HIDE DEF f
<1> DEFINE r == LoopRun(call, o)
<1>5. r = [n \in Nat |-> IF n = 0 THEN {call} ELSE {Iteration(c, o) : c \in r[n - 1]}]
  BY <1>4, Zenon DEF LoopRun
<1>6. r = [n \in Nat |-> IF n = 0 THEN {call} ELSE Iterated(r[n - 1], o)]
  BY <1>5, Zenon DEF Iterated
<1> HIDE DEF r
<1>7. r[0] = {call}
  BY <1>6
<1>8. ASSUME NEW n \in Nat PROVE r[n + 1] = Iterated(r[n], o)
  <2>1. n + 1 \in Nat /\ n + 1 # 0 /\ (n + 1) - 1 = n
    OBVIOUS
  <2>2. r[n + 1] = Iterated(r[(n + 1) - 1], o)
    BY <1>6, <2>1
  <2> QED BY <2>1, <2>2
<1> QED BY <1>7, <1>8 DEF r

(* The loop of a whole call is that function.                              *)
LEMMA AfterLoopRuns ==
  ASSUME NEW call, NEW o
  PROVE  AfterLoop(call, o) = LoopRun(call, o)[Cardinality(DOMAIN call.book.index) + 1]
BY Zenon DEF AfterLoop, LoopRun

-----------------------------------------------------------------------------
(* The events of a call.                                                   *)

(* The orders an event is about.                                           *)
Named(e) == IF e.type = "Trade" THEN {e.taker, e.maker} ELSE {e.id}

(* The orders whose end is among the first k events.                       *)
Ended(out, k) == {out[j].id : j \in {i \in 1 .. k : out[i].type = "Done"}}

(* Events numbered from n on, each about orders of live that have not      *)
(* ended before it.                                                        *)
EventsFrom(out, n, live) ==
  /\ out \in Seq(Events)
  /\ \A i \in DOMAIN out : /\ out[i].seq = n + i - 1
                           /\ Named(out[i]) \subseteq live \ Ended(out, i - 1)

(* The events of an order that was not rejected.                           *)
AcceptedFirst(out) ==
  /\ 1 \in DOMAIN out /\ out[1].type = "Accepted"
  /\ \A i \in DOMAIN out : out[i].type = "Done" => out[i].reason # "Rejected"

(* The events of out and one more.                                         *)
EventsGrown(out, new, e, n, live) ==
  /\ EventsFrom(new, n, live)
  /\ Len(new) = Len(out) + 1
  /\ Ended(new, Len(out) + 1)
       = Ended(out, Len(out)) \cup (IF e.type = "Done" THEN {e.id} ELSE {})
  /\ AcceptedFirst(out) /\ (e.type = "Done" => e.reason # "Rejected")
       => AcceptedFirst(new)

(* One more event.                                                         *)
LEMMA EventsGrow ==
  ASSUME NEW n \in Nat, NEW live, NEW out, EventsFrom(out, n, live),
         NEW e \in Events, e.seq = n + Len(out),
         Named(e) \subseteq live \ Ended(out, Len(out))
  PROVE  EventsGrown(out, Append(out, e), e, n, live)
<1> DEFINE new == Append(out, e)
           k == Len(out)
<1>1. out \in Seq(Events) /\ k \in Nat /\ DOMAIN out = 1 .. k
  BY DEF EventsFrom
<1>2. /\ new \in Seq(Events) /\ Len(new) = k + 1 /\ DOMAIN new = 1 .. k + 1
      /\ new[k + 1] = e /\ \A i \in 1 .. k : new[i] = out[i]
  BY <1>1
<1> HIDE DEF new, k
<1>3. \A i \in 0 .. k : Ended(new, i) = Ended(out, i)
  BY <1>1, <1>2 DEF Ended
<1>4. Ended(new, k + 1) = Ended(out, k) \cup (IF e.type = "Done" THEN {e.id} ELSE {})
  <2>1. CASE e.type = "Done"
    BY <1>1, <1>2, <2>1 DEF Ended
  <2>2. CASE e.type # "Done"
    BY <1>1, <1>2, <2>2 DEF Ended
  <2> QED BY <2>1, <2>2
<1>5. ASSUME NEW i \in DOMAIN new
      PROVE  /\ new[i].seq = n + i - 1
             /\ Named(new[i]) \subseteq live \ Ended(new, i - 1)
  <2>1. CASE i \in 1 .. k
    <3>1. i - 1 \in 0 .. k /\ i \in DOMAIN out /\ new[i] = out[i]
      BY <1>1, <1>2, <2>1
    <3>2. Ended(new, i - 1) = Ended(out, i - 1)
      BY <1>3, <3>1
    <3> QED BY <3>1, <3>2 DEF EventsFrom
  <2>2. CASE i = k + 1
    <3>1. new[i] = e /\ i - 1 = k /\ k \in 0 .. k /\ n + i - 1 = n + k
      BY <1>1, <1>2, <2>2
    <3>2. Ended(new, i - 1) = Ended(out, k)
      BY <1>3, <3>1
    <3> QED BY <3>1, <3>2 DEF k
  <2> QED BY <1>1, <1>2, <2>1, <2>2
<1>6. EventsFrom(new, n, live)
  BY <1>2, <1>5 DEF EventsFrom
<1>7. AcceptedFirst(out) /\ (e.type = "Done" => e.reason # "Rejected")
        => AcceptedFirst(new)
  BY <1>1, <1>2 DEF AcceptedFirst
<1> QED BY <1>2, <1>4, <1>6, <1>7 DEF EventsGrown, new, k

(* The first event.                                                        *)
LEMMA EventsStart ==
  ASSUME NEW n \in Nat, NEW live, NEW e \in Events, e.seq = n, Named(e) \subseteq live
  PROVE  /\ EventsFrom(<<e>>, n, live) /\ Len(<<e>>) = 1
         /\ Ended(<<e>>, 1) = IF e.type = "Done" THEN {e.id} ELSE {}
<1> DEFINE out == <<e>>
<1>1. out \in Seq(Events) /\ Len(out) = 1 /\ DOMAIN out = {1} /\ out[1] = e
  OBVIOUS
<1> HIDE DEF out
<1>2. Ended(out, 0) = {}
  BY DEF Ended
<1>3. Ended(out, 1) = IF e.type = "Done" THEN {e.id} ELSE {}
  <2>1. CASE e.type = "Done"
    BY <1>1, <2>1 DEF Ended
  <2>2. CASE e.type # "Done"
    BY <1>1, <2>2 DEF Ended
  <2> QED BY <2>1, <2>2
<1>4. EventsFrom(out, n, live)
  BY <1>1, <1>2 DEF EventsFrom
<1> QED BY <1>1, <1>3, <1>4 DEF out

-----------------------------------------------------------------------------
(* A call of accept(o) that received number n on the book b.               *)

CallOK(c, o, b, n) ==
  /\ DOMAIN c = {"book", "seq", "remaining", "out"}
  /\ BookOK(c.book) /\ SeqsBelow(c.book, n)
  /\ c.seq \in Nat /\ n < c.seq /\ c.remaining \in Qtys
  /\ EventsFrom(c.out, n, DOMAIN b.index \cup {o.id}) /\ Len(c.out) = c.seq - n
  /\ AcceptedFirst(c.out)
  /\ DOMAIN c.book.index = DOMAIN b.index \ Ended(c.out, Len(c.out))
  /\ o.id \notin Ended(c.out, Len(c.out))

(* The call as the loop begins.                                            *)
LEMMA ReceivedOK ==
  ASSUME NEW b, BookOK(b), NEW n \in Nat, SeqsBelow(b, n), NEW o \in NewOrders
  PROVE  CallOK(Received(b, n, o), o, b, n)
<1> DEFINE e == Accepted(o.id, o.qty, n)
           c == Received(b, n, o)
<1>1. o.id \in OrderIds /\ o.qty \in Qtys
  BY OrderFields
<1>2. e \in Events /\ e.seq = n
  BY <1>1, EventTypes
<1>3. Named(e) = {o.id} /\ e.type = "Accepted"
  BY ZenonT(60) DEF Named, Accepted
<1>4. /\ DOMAIN c = {"book", "seq", "remaining", "out"}
      /\ c.book = b /\ c.seq = n + 1 /\ c.remaining = o.qty /\ c.out = <<e>>
  BY DEF Received
<1> HIDE DEF e, c
<1>5. EventsFrom(<<e>>, n, DOMAIN b.index \cup {o.id}) /\ Len(<<e>>) = 1 /\ Ended(<<e>>, 1) = {}
  BY <1>2, <1>3, EventsStart, ZenonT(60)
<1>6. c.seq \in Nat /\ n < c.seq /\ c.seq - n = 1
  BY <1>4
<1>7. AcceptedFirst(<<e>>)
  BY <1>3 DEF AcceptedFirst
<1> QED BY <1>1, <1>4, <1>5, <1>6, <1>7, ZenonT(60) DEF CallOK, c

(* A maker that is left with some quantity filled the taker.               *)
LEMMA TakeFrontWhole ==
  ASSUME NEW b, BookOK(b), NEW side \in Sides, NEW price \in DOMAIN b.levels[side],
         NEW want \in Qtys, TakeFront(b, side, price, want).remaining # 0
  PROVE  TakeFront(b, side, price, want).taken = want
<1> DEFINE L == b.levels[side][price]
<1>1. LevelOK(L) /\ L # << >>
  BY LevelIsOK, ZenonT(60)
<1>2. 1 \in DOMAIN L /\ Head(L) = L[1] /\ L[1] \in Orders(Nat)
  BY <1>1, SMTT(60) DEF LevelOK
<1>3. L[1].qty \in Nat /\ want \in Nat
  BY <1>2, BookAssumption, SMTT(60) DEF Orders, Qtys
<1>4. LevelAt(b, side, price) = L
  BY DEF LevelAt
<1> DEFINE t == TakeFront(b, side, price, want)
<1>5. /\ t.taken = IF want >= L[1].qty THEN L[1].qty ELSE want
      /\ t.remaining = SaturatingSub(L[1].qty, IF want >= L[1].qty THEN L[1].qty ELSE want)
  BY <1>2, <1>4 DEF TakeFront
<1> HIDE DEF t, L
<1>6. t.remaining # 0
  BY DEF t
<1>7. t.taken = want
  BY <1>3, <1>5, <1>6 DEF SaturatingSub
<1> QED BY <1>7 DEF t

(* One iteration, in terms of what take_front did.                         *)
LEMMA MatchOnceTakes ==
  ASSUME NEW o \in NewOrders, NEW b, NEW n \in Nat, NEW c, CallOK(c, o, b, n),
         LoopContinues(c.book, o, c.remaining),
         NEW s, s = Opposite(o.side), NEW p, p = Best(c.book, s),
         NEW t, t = TakeFront(c.book, s, p, c.remaining)
  PROVE  /\ s \in Sides /\ p \in DOMAIN c.book.levels[s] /\ p \in Prices
         /\ c.remaining > 0
         /\ TakeFrontOK(c.book, s, p, c.remaining, t)
         /\ t.maker \in OrderIds /\ t.maker \in DOMAIN c.book.index /\ t.taken \in Qtys
         /\ t.remaining # 0 => t.taken = c.remaining
<1>1. BookOK(c.book) /\ c.remaining \in Qtys
  BY DEF CallOK
<1>2. s \in Sides
  BY OrderFields
<1>3. p \in DOMAIN c.book.levels[s] /\ c.remaining > 0
  BY <1>1, LoopTakes, ZenonT(60)
<1>4. p \in Prices
  BY <1>1, <1>2, <1>3 DEF BookOK, BookType
<1>5. TakeFrontOK(c.book, s, p, c.remaining, t)
  BY <1>1, <1>2, <1>3, TakeFrontPreserves
<1>6. t.maker \in DOMAIN c.book.index
  BY <1>5, ZenonT(60) DEF TakeFrontOK, IndexedAt
<1>7. t.maker \in OrderIds
  BY <1>1, <1>6, ZenonT(60) DEF BookOK, BookType
<1>8. t.taken \in Qtys
  <2>1. t.taken \in Nat /\ t.taken <= c.remaining
    BY <1>5, ZenonT(60) DEF TakeFrontOK
  <2> QED BY <1>1, <2>1, BookAssumption DEF Qtys
<1>9. t.remaining # 0 => t.taken = c.remaining
  BY <1>1, <1>2, <1>3, TakeFrontWhole
<1> QED BY <1>2, <1>3, <1>4, <1>5, <1>6, <1>7, <1>8, <1>9, ZenonT(60)

(* If the taker still wants some, a maker left the book.                   *)
MakerLeft(c, m) ==
  m.remaining # 0 => \E id \in DOMAIN c.book.index :
                       DOMAIN m.book.index = DOMAIN c.book.index \ {id}

(* What a fill leaves of the taker is a quantity.                          *)
LEMMA LessTaken ==
  ASSUME NEW x \in Qtys, NEW y \in Qtys
  PROVE  SaturatingSub(x, y) \in Qtys /\ SaturatingSub(x, x) = 0
BY BookAssumption DEF SaturatingSub, Qtys

(* One iteration: the call stays well-formed, and if the taker still wants *)
(* some, a maker left the book.                                            *)
LEMMA MatchOnceOK ==
  ASSUME NEW o \in NewOrders, NEW b, NEW n \in Nat, NEW c, CallOK(c, o, b, n),
         ~BookContains(b, o.id), LoopContinues(c.book, o, c.remaining)
  PROVE  CallOK(MatchOnce(c, o), o, b, n) /\ MakerLeft(c, MatchOnce(c, o))
<1> DEFINE s == Opposite(o.side)
           p == Best(c.book, s)
           t == TakeFront(c.book, s, p, c.remaining)
           live == DOMAIN b.index \cup {o.id}
           gone == Ended(c.out, Len(c.out))
           m == MatchOnce(c, o)
<1>1. /\ s \in Sides /\ p \in Prices /\ c.remaining > 0
      /\ TakeFrontOK(c.book, s, p, c.remaining, t)
      /\ t.maker \in OrderIds /\ t.maker \in DOMAIN c.book.index /\ t.taken \in Qtys
      /\ t.remaining # 0 => t.taken = c.remaining
  BY MatchOnceTakes, ZenonT(60)
<1>2. /\ DOMAIN m = {"book", "seq", "remaining", "out"}
      /\ m.book = t.book
      /\ m.seq = IF t.remaining = 0 THEN c.seq + 2 ELSE c.seq + 1
      /\ m.remaining = SaturatingSub(c.remaining, t.taken)
      /\ m.out = c.out \o MatchEvents(o, p, t, c.seq)
  BY ZenonT(60) DEF MatchOnce
<1> HIDE DEF s, p, t, m
<1>3. /\ c.seq \in Nat /\ n < c.seq /\ c.remaining \in Qtys
      /\ BookOK(c.book) /\ SeqsBelow(c.book, n)
      /\ EventsFrom(c.out, n, live) /\ Len(c.out) = c.seq - n /\ AcceptedFirst(c.out)
      /\ DOMAIN c.book.index = DOMAIN b.index \ gone /\ o.id \notin gone
  BY DEF CallOK
<1> DEFINE tr == Trade(o.id, t.maker, p, t.taken, c.seq)
           d == Done(t.maker, 0, "Filled", c.seq + 1)
<1>4. o.id \in OrderIds /\ 0 \in Qtys /\ c.seq + 1 \in Nat
  BY <1>3, OrderFields, BookAssumption DEF Qtys
<1>5. tr \in Events /\ tr.seq = c.seq /\ d \in Events /\ d.seq = c.seq + 1
  <2>1. tr \in Events
    BY <1>1, <1>3, <1>4, EventTypes, ZenonT(60)
  <2>2. d \in Events
    BY <1>1, <1>4, EventTypes
  <2> QED BY <2>1, <2>2 DEF Done, Trade
<1>6. Named(tr) = {o.id, t.maker} /\ tr.type = "Trade"
  BY ZenonT(60) DEF Named, Trade
<1>7. Named(d) = {t.maker} /\ d.type = "Done" /\ d.id = t.maker /\ d.reason # "Rejected"
  BY ZenonT(60) DEF Named, Done
<1>8. c.out \in Seq(Events) /\ Len(c.out) \in Nat
  BY <1>3 DEF EventsFrom
<1>9. m.out = IF t.remaining = 0 THEN Append(Append(c.out, tr), d) ELSE Append(c.out, tr)
  <2>1. /\ tr = Trade(o.id, t.maker, p, t.taken, c.seq)
        /\ d = Done(t.maker, 0, "Filled", c.seq + 1)
    OBVIOUS
  <2> HIDE DEF tr, d
  <2>2. MatchEvents(o, p, t, c.seq) = IF t.remaining = 0 THEN <<tr, d>> ELSE <<tr>>
    BY <2>1, Zenon DEF MatchEvents
  <2>3. c.out \o <<tr, d>> = Append(Append(c.out, tr), d)
    BY <1>5, <1>8
  <2>4. c.out \o <<tr>> = Append(c.out, tr)
    BY <1>5, <1>8
  <2> QED BY <1>2, <2>2, <2>3, <2>4, ZenonT(60)
<1> HIDE DEF tr, d, live, gone
<1>10. t.maker \in live \ gone /\ o.id \in live \ gone /\ t.maker # o.id
  BY <1>1, <1>3, ZenonT(60) DEF live, BookContains
<1> DEFINE o1 == Append(c.out, tr)
<1>11. /\ EventsFrom(o1, n, live) /\ Len(o1) = Len(c.out) + 1
       /\ Ended(o1, Len(o1)) = gone /\ AcceptedFirst(o1)
  <2>1. tr.seq = n + Len(c.out)
    BY <1>3, <1>5
  <2>2. Named(tr) \subseteq live \ Ended(c.out, Len(c.out))
    BY <1>6, <1>10 DEF gone
  <2>3. EventsGrown(c.out, o1, tr, n, live)
    BY <1>3, <1>5, <2>1, <2>2, EventsGrow, ZenonT(60)
  <2> QED BY <1>3, <1>6, <2>3, ZenonT(60) DEF EventsGrown, gone
<1> HIDE DEF o1
<1>12. /\ EventsFrom(m.out, n, live) /\ Len(m.out) = m.seq - n /\ AcceptedFirst(m.out)
       /\ Ended(m.out, Len(m.out)) = gone \cup (IF t.remaining = 0 THEN {t.maker} ELSE {})
  <2>1. CASE t.remaining = 0
    <3>1. d.seq = n + Len(o1)
      BY <1>3, <1>5, <1>11
    <3>2. Named(d) \subseteq live \ Ended(o1, Len(o1))
      BY <1>7, <1>10, <1>11, ZenonT(60)
    <3>3. m.out = Append(o1, d) /\ m.seq = c.seq + 2
      BY <1>2, <1>9, <2>1, ZenonT(60) DEF o1
    <3>4. /\ EventsFrom(m.out, n, live) /\ Len(m.out) = Len(o1) + 1 /\ AcceptedFirst(m.out)
          /\ Ended(m.out, Len(o1) + 1) = gone \cup {t.maker}
      <4>1. EventsGrown(o1, m.out, d, n, live)
        BY <1>5, <1>11, <3>1, <3>2, <3>3, EventsGrow, ZenonT(60)
      <4> QED BY <1>7, <1>11, <4>1 DEF EventsGrown
    <3>5. Len(m.out) = m.seq - n
      BY <1>3, <1>8, <1>11, <3>3, <3>4
    <3> QED BY <2>1, <3>4, <3>5, ZenonT(60)
  <2>2. CASE t.remaining # 0
    <3>1. m.out = o1 /\ m.seq = c.seq + 1
      BY <1>2, <1>9, <2>2, ZenonT(60) DEF o1
    <3>2. Len(m.out) = m.seq - n
      BY <1>3, <1>8, <1>11, <3>1
    <3> QED BY <1>11, <2>2, <3>1, <3>2
  <2> QED BY <2>1, <2>2
<1>13. /\ BookOK(m.book) /\ SeqsBelow(m.book, n)
       /\ DOMAIN m.book.index
            = DOMAIN c.book.index \ (IF t.remaining = 0 THEN {t.maker} ELSE {})
  BY <1>1, <1>2, <1>3, ZenonT(60) DEF TakeFrontOK
<1>14. DOMAIN m.book.index = DOMAIN b.index \ Ended(m.out, Len(m.out))
  BY <1>3, <1>12, <1>13, ZenonT(60)
<1>15. o.id \notin Ended(m.out, Len(m.out))
  BY <1>3, <1>10, <1>12, ZenonT(60)
<1>16. m.seq \in Nat /\ n < m.seq
  BY <1>2, <1>3
<1>17. m.remaining \in Qtys /\ (t.remaining # 0 => m.remaining = 0)
  BY <1>1, <1>2, <1>3, LessTaken, ZenonT(60)
<1>18. CallOK(m, o, b, n)
  BY <1>2, <1>12, <1>13, <1>14, <1>15, <1>16, <1>17, ZenonT(60) DEF CallOK, live
<1>19. MakerLeft(c, m)
  BY <1>1, <1>13, <1>17, ZenonT(60) DEF MakerLeft
<1> QED BY <1>18, <1>19 DEF m

(* While the loop goes on, at most room orders rest.                       *)
LoopRoom(c, o, room) ==
  LoopContinues(c.book, o, c.remaining) => Cardinality(DOMAIN c.book.index) <= room

(* Every iteration but the last uses up a maker.                           *)
LEMMA IterationOK ==
  ASSUME NEW o \in NewOrders, NEW b, NEW n \in Nat, NEW c, CallOK(c, o, b, n),
         ~BookContains(b, o.id), IsFiniteSet(DOMAIN b.index),
         NEW room \in Int, LoopRoom(c, o, room)
  PROVE  CallOK(Iteration(c, o), o, b, n) /\ LoopRoom(Iteration(c, o), o, room - 1)
<1>1. CASE ~LoopContinues(c.book, o, c.remaining)
  <2>1. Iteration(c, o) = c
    BY <1>1 DEF Iteration
  <2> QED BY <1>1, <2>1 DEF LoopRoom
<1>2. CASE LoopContinues(c.book, o, c.remaining)
  <2> DEFINE m == MatchOnce(c, o)
             I == DOMAIN c.book.index
  <2>1. Iteration(c, o) = m
    BY <1>2 DEF Iteration
  <2>2. CallOK(m, o, b, n) /\ MakerLeft(c, m)
    BY <1>2, MatchOnceOK, ZenonT(60)
  <2>3. I \subseteq DOMAIN b.index
    BY ZenonT(60) DEF CallOK
  <2>4. IsFiniteSet(I)
    BY <2>3, FS_Subset
  <2> HIDE DEF m, I
  <2>5. ASSUME LoopContinues(m.book, o, m.remaining)
        PROVE  Cardinality(DOMAIN m.book.index) <= room - 1
    <3>1. m.remaining # 0
      BY <2>5 DEF LoopContinues
    <3>2. PICK id \in I : DOMAIN m.book.index = I \ {id}
      BY <2>2, <3>1 DEF MakerLeft, I
    <3>3. Cardinality(I \ {id}) = Cardinality(I) - 1
      BY <2>4, FS_RemoveElement, ZenonT(60)
    <3>4. Cardinality(I) \in Nat
      BY <2>4, FS_CardinalityType
    <3>5. Cardinality(I) <= room
      BY <1>2 DEF LoopRoom, I
    <3>6. Cardinality(I) - 1 <= room - 1
      BY <3>4, <3>5
    <3> QED BY <3>2, <3>3, <3>6
  <2> QED BY <2>1, <2>2, <2>5 DEF LoopRoom
<1> QED BY <1>1, <1>2

(* The whole loop: one call comes out, and it is at the loop's end.        *)
LoopEnd(c, o, b, n) ==
  CallOK(c, o, b, n) /\ ~LoopContinues(c.book, o, c.remaining)

(* The number of resting orders bounds the number of iterations.           *)
LEMMA LoopEnds ==
  ASSUME NEW o \in NewOrders, NEW b, BookOK(b), NEW n \in Nat, SeqsBelow(b, n),
         ~BookContains(b, o.id), IsFiniteSet(DOMAIN b.index)
  PROVE  \E c : AfterLoop(Received(b, n, o), o) = {c} /\ LoopEnd(c, o, b, n)
<1> DEFINE call == Received(b, n, o)
           f == LoopRun(call, o)
           K == Cardinality(DOMAIN b.index)
           T == {k \in Nat : \E c : /\ f[k] = {c} /\ CallOK(c, o, b, n)
                                    /\ LoopRoom(c, o, K - k)}
<1>1. K \in Nat
  BY FS_CardinalityType, ZenonT(60)
<1>2. f[0] = {call} /\ \A k \in Nat : f[k + 1] = Iterated(f[k], o)
  BY LoopRunDef
<1>3. CallOK(call, o, b, n) /\ call.book = b
  BY ReceivedOK DEF Received
<1>4. AfterLoop(call, o) = f[K + 1]
  BY <1>3, AfterLoopRuns, ZenonT(60)
<1> HIDE DEF f, call
<1>5. 0 \in T
  <2>1. LoopRoom(call, o, K)
    BY <1>1, <1>3 DEF LoopRoom
  <2> HIDE DEF K
  <2> QED BY <1>1, <1>2, <1>3, <2>1
<1>6. ASSUME NEW k \in Nat, k \in T PROVE k + 1 \in T
  <2>1. PICK c : f[k] = {c} /\ CallOK(c, o, b, n) /\ LoopRoom(c, o, K - k)
    BY <1>6, ZenonT(60)
  <2>2. f[k + 1] = {Iteration(c, o)}
    BY <1>2, <2>1 DEF Iterated
  <2> DEFINE room == K - k
             i == Iteration(c, o)
  <2>3. room \in Int /\ room - 1 = K - (k + 1)
    BY <1>1
  <2> HIDE DEF room, K
  <2>4. LoopRoom(c, o, room)
    BY <2>1 DEF room
  <2>5. CallOK(i, o, b, n) /\ LoopRoom(i, o, room - 1)
    BY <2>1, <2>3, <2>4, IterationOK, ZenonT(60)
  <2> HIDE DEF i
  <2>6. LoopRoom(i, o, K - (k + 1))
    BY <2>3, <2>5
  <2>7. f[k + 1] = {i}
    BY <2>2 DEF i
  <2> QED BY <2>5, <2>6, <2>7
<1> HIDE DEF T
<1>7. Nat \subseteq T
  BY <1>5, <1>6, SetInduction, ZenonT(60)
<1>8. PICK c : f[K + 1] = {c} /\ CallOK(c, o, b, n) /\ LoopRoom(c, o, K - (K + 1))
  <2>1. K + 1 \in T
    BY <1>1, <1>7
  <2> QED BY <2>1 DEF T
<1>9. ~LoopContinues(c.book, o, c.remaining)
  <2> SUFFICES ASSUME LoopContinues(c.book, o, c.remaining) PROVE FALSE
    BY ZenonT(60)
  <2>1. Cardinality(DOMAIN c.book.index) <= K - (K + 1)
    BY <1>8, ZenonT(60) DEF LoopRoom
  <2>2. DOMAIN c.book.index \subseteq DOMAIN b.index
    BY <1>8, ZenonT(60) DEF CallOK
  <2>3. Cardinality(DOMAIN c.book.index) \in Nat
    BY <2>2, FS_Subset, FS_CardinalityType, ZenonT(60)
  <2> QED BY <1>1, <2>1, <2>3
<1> QED BY <1>4, <1>8, <1>9 DEF LoopEnd, call

-----------------------------------------------------------------------------
(* What a whole call leaves.                                               *)

(* A well-formed book, and the events numbered from n on, about orders of  *)
(* live.                                                                   *)
CallResult(r, n, live) ==
  /\ BookOK(r.book) /\ SeqsBelow(r.book, r.seq) /\ IsFiniteSet(DOMAIN r.book.index)
  /\ r.seq \in Nat /\ n <= r.seq
  /\ EventsFrom(r.out, n, live) /\ Len(r.out) = r.seq - n

(* The orders of live that did not end rest.                               *)
Settled(r, live) == DOMAIN r.book.index = live \ Ended(r.out, Len(r.out))

(* The call c for the order o ends with r, and d is the event of the end.  *)
Ends(c, o, n, r, d) ==
  /\ DOMAIN c = {"book", "seq", "remaining", "out"}
  /\ r = EndOfCall(c, o, n)
  /\ d = Done(o.id, c.remaining, EndReason(o, c.remaining), c.seq)

(* The remainder rests, or the event of its end is the last one.           *)
RestsOrEnds(c, o, n, r, d) ==
  /\ Rests(o, c.remaining) =>
       /\ r.book = Add(c.book, o.id, o.side, o.price, c.remaining, n)
       /\ r.seq = c.seq /\ r.out = c.out
  /\ ~Rests(o, c.remaining) =>
       r.book = c.book /\ r.seq = c.seq + 1 /\ r.out = Append(c.out, d)

(* EndOfCall in its two cases.                                             *)
LEMMA EndOfCallCases ==
  ASSUME NEW c, NEW o, NEW n, NEW r, NEW d, Ends(c, o, n, r, d)
  PROVE  RestsOrEnds(c, o, n, r, d)
<1>1. ASSUME Rests(o, c.remaining)
      PROVE  /\ r.book = Add(c.book, o.id, o.side, o.price, c.remaining, n)
             /\ r.seq = c.seq /\ r.out = c.out
  <2>1. r = [c EXCEPT !.book = Add(c.book, o.id, o.side, o.price, c.remaining, n)]
    BY <1>1 DEF Ends, EndOfCall
  <2> QED BY <2>1 DEF Ends
<1>2. ASSUME ~Rests(o, c.remaining)
      PROVE  r.book = c.book /\ r.seq = c.seq + 1 /\ r.out = Append(c.out, d)
  <2>1. r = [c EXCEPT !.seq = c.seq + 1, !.out = Append(c.out, d)]
    BY <1>2, Zenon DEF Ends, EndOfCall
  <2> QED BY <2>1 DEF Ends
<1> QED BY <1>1, <1>2, ZenonT(60) DEF RestsOrEnds

(* After the loop the remainder rests behind everything at its price, and  *)
(* crosses nothing, or the order ends.                                     *)
LEMMA EndOfCallOK ==
  ASSUME NEW o \in NewOrders, NEW b, NEW n \in Nat, ~BookContains(b, o.id),
         IsFiniteSet(DOMAIN b.index), NEW c, LoopEnd(c, o, b, n)
  PROVE  /\ CallResult(EndOfCall(c, o, n), n, DOMAIN b.index \cup {o.id})
         /\ Settled(EndOfCall(c, o, n), DOMAIN b.index \cup {o.id})
         /\ AcceptedFirst(EndOfCall(c, o, n).out)
<1> DEFINE live == DOMAIN b.index \cup {o.id}
           gone == Ended(c.out, Len(c.out))
           r == EndOfCall(c, o, n)
           d == Done(o.id, c.remaining, EndReason(o, c.remaining), c.seq)
<1>1. /\ DOMAIN c = {"book", "seq", "remaining", "out"}
      /\ c.seq \in Nat /\ n < c.seq /\ c.remaining \in Qtys
      /\ BookOK(c.book) /\ SeqsBelow(c.book, n) /\ ~LoopContinues(c.book, o, c.remaining)
      /\ EventsFrom(c.out, n, live) /\ Len(c.out) = c.seq - n /\ AcceptedFirst(c.out)
      /\ DOMAIN c.book.index = DOMAIN b.index \ gone /\ o.id \notin gone
  BY ZenonT(60) DEF LoopEnd, CallOK
<1>2. o.id \in OrderIds /\ o.side \in Sides /\ (o.kind # "Market" => o.price \in Prices)
  BY OrderFields
<1>3. IsFiniteSet(DOMAIN c.book.index)
  BY <1>1, FS_Subset, ZenonT(60)
<1>4. EndReason(o, c.remaining) \in {"Filled", "NoLiquidity", "Expired"}
  BY DEF EndReason
<1>5. d \in Events
  BY <1>1, <1>2, <1>4, EventTypes, ZenonT(60)
<1>6. /\ Named(d) = {o.id} /\ d.type = "Done" /\ d.id = o.id /\ d.seq = c.seq
      /\ d.reason # "Rejected"
  BY <1>4 DEF Named, Done
<1>7. /\ Rests(o, c.remaining) =>
           /\ r.book = Add(c.book, o.id, o.side, o.price, c.remaining, n)
           /\ r.seq = c.seq /\ r.out = c.out
      /\ ~Rests(o, c.remaining) =>
           r.book = c.book /\ r.seq = c.seq + 1 /\ r.out = Append(c.out, d)
  <2>1. Ends(c, o, n, r, d)
    BY <1>1, ZenonT(60) DEF Ends
  <2> HIDE DEF r, d
  <2>2. RestsOrEnds(c, o, n, r, d)
    BY <2>1, EndOfCallCases, ZenonT(60)
  <2> QED BY <2>2, ZenonT(60) DEF RestsOrEnds
<1> HIDE DEF r, d, live, gone
<1>8. CASE Rests(o, c.remaining)
  <2>1. c.remaining > 0 /\ o.kind # "Market" /\ o.price \in Prices
    <3>1. c.remaining \in Qtys
      BY <1>1, ZenonT(60)
    <3> QED BY <1>2, <1>8, <3>1, BookAssumption DEF Rests, Qtys
  <2>2. NoneCrosses(c.book, o.side, o.price)
    BY <1>1, <2>1, LoopStops, ZenonT(60)
  <2>3. ~BookContains(c.book, o.id)
    BY <1>1, ZenonT(60) DEF BookContains
  <2>4. AddedOK(c.book, r.book, o.id, c.seq)
    BY <1>1, <1>2, <1>7, <1>8, <2>1, <2>2, <2>3, AddPreserves, ZenonT(60)
  <2>5. BookOK(r.book) /\ SeqsBelow(r.book, r.seq) /\ r.seq = c.seq /\ r.out = c.out
    BY <1>7, <1>8, <2>4, ZenonT(60) DEF AddedOK
  <2>6. DOMAIN r.book.index = DOMAIN c.book.index \cup {o.id}
    BY <2>4, ZenonT(60) DEF AddedOK
  <2>7. IsFiniteSet(DOMAIN r.book.index)
    BY <1>3, <2>6, FS_AddElement, ZenonT(60)
  <2>8. Settled(r, live)
    BY <1>1, <2>5, <2>6, ZenonT(60) DEF Settled, live, gone
  <2>9. CallResult(r, n, live)
    <3>1. /\ r.seq \in Nat /\ n < r.seq
          /\ EventsFrom(r.out, n, live) /\ Len(r.out) = r.seq - n
      BY <1>1, <2>5, ZenonT(60)
    <3>2. n <= r.seq
      BY <3>1
    <3> QED BY <2>5, <2>7, <3>1, <3>2, ZenonT(60) DEF CallResult
  <2> QED BY <1>1, <2>5, <2>8, <2>9, ZenonT(60) DEF r, live
<1>9. CASE ~Rests(o, c.remaining)
  <2>1. r.book = c.book /\ r.seq = c.seq + 1 /\ r.out = Append(c.out, d)
    BY <1>7, <1>9
  <2>2. d.seq = n + Len(c.out)
    <3>1. c.seq \in Nat /\ Len(c.out) = c.seq - n /\ d.seq = c.seq
      BY <1>1, <1>6, ZenonT(60)
    <3> QED BY <3>1
  <2>3. Named(d) \subseteq live \ Ended(c.out, Len(c.out))
    BY <1>1, <1>6, ZenonT(60) DEF live, gone
  <2>4. EventsGrown(c.out, r.out, d, n, live)
    <3>1. EventsFrom(c.out, n, live)
      BY <1>1
    <3>2. EventsGrown(c.out, Append(c.out, d), d, n, live)
      BY <1>5, <2>2, <2>3, <3>1, EventsGrow, ZenonT(60)
    <3> QED BY <2>1, <3>2, ZenonT(60)
  <2>5. Len(c.out) \in Nat
    <3>1. c.seq \in Nat /\ n < c.seq /\ Len(c.out) = c.seq - n
      BY <1>1, ZenonT(60)
    <3> QED BY <3>1
  <2>6. /\ EventsFrom(r.out, n, live) /\ Len(r.out) = r.seq - n /\ AcceptedFirst(r.out)
        /\ Ended(r.out, Len(r.out)) = gone \cup {o.id}
    <3>1. /\ EventsFrom(r.out, n, live) /\ Len(r.out) = Len(c.out) + 1
          /\ AcceptedFirst(r.out)
          /\ Ended(r.out, Len(c.out) + 1) = gone \cup {o.id}
      BY <1>1, <1>6, <2>4, ZenonT(60) DEF EventsGrown, gone
    <3> QED BY <1>1, <2>1, <2>5, <3>1
  <2>7. r.seq \in Nat /\ n <= r.seq
    BY <1>1, <2>1
  <2>8. SeqsBelow(r.book, r.seq)
    BY <1>1, <2>1, <2>7, SeqsBelowRises, ZenonT(60)
  <2>9. Settled(r, live)
    BY <1>1, <2>1, <2>6, ZenonT(60) DEF Settled, live, BookContains
  <2>10. CallResult(r, n, live)
    BY <1>1, <1>3, <2>1, <2>6, <2>7, <2>8, ZenonT(60) DEF CallResult
  <2> QED BY <2>6, <2>9, <2>10, ZenonT(60) DEF r, live
<1> QED BY <1>8, <1>9, ZenonT(60)

(* The events of an order that is rejected.                                *)
RejectedOnly(out, o, n) == out = <<Done(o.id, o.qty, "Rejected", n)>>

(* What accept does, for an order with any id: its events, and what rests  *)
(* if the id did not rest before.                                          *)
AcceptResult(r, b, n, o) ==
  /\ CallResult(r, n, DOMAIN b.index \cup {o.id})
  /\ ~BookContains(b, o.id) => Settled(r, DOMAIN b.index \cup {o.id})
  /\ AcceptedFirst(r.out) \/ RejectedOnly(r.out, o, n)

(* accept, whatever it decides.                                            *)
LEMMA AcceptOK ==
  ASSUME NEW b, BookOK(b), NEW n \in Nat, SeqsBelow(b, n),
         IsFiniteSet(DOMAIN b.index), NEW o \in NewOrders
  PROVE  AcceptResult(AcceptCall(b, n, o), b, n, o)
<1> DEFINE r == AcceptCall(b, n, o)
           live == DOMAIN b.index \cup {o.id}
<1>1. CASE RejectedUpfront(b, o)
  <2> DEFINE e == Done(o.id, o.qty, "Rejected", n)
  <2>1. r.book = b /\ r.seq = n + 1 /\ r.out = <<e>>
    BY <1>1, ZenonT(60) DEF AcceptCall
  <2>2. o.id \in OrderIds /\ o.qty \in Qtys
    BY OrderFields
  <2>3. e \in Events
    BY <2>2, EventTypes
  <2>4. e.seq = n /\ e.type = "Done" /\ e.id = o.id /\ Named(e) \subseteq live
    BY ZenonT(60) DEF Named, Done
  <2>5. RejectedOnly(<<e>>, o, n)
    BY DEF RejectedOnly
  <2> HIDE DEF e, r, live
  <2>6. EventsFrom(<<e>>, n, live) /\ Len(<<e>>) = 1 /\ Ended(<<e>>, 1) = {o.id}
    BY <2>3, <2>4, EventsStart, ZenonT(60)
  <2>7. r.seq \in Nat /\ n <= r.seq /\ r.seq - n = 1
    BY <2>1
  <2>8. SeqsBelow(r.book, r.seq)
    BY <2>1, <2>7, SeqsBelowRises
  <2>9. CallResult(r, n, live)
    BY <2>1, <2>6, <2>7, <2>8, ZenonT(60) DEF CallResult
  <2>10. ~BookContains(b, o.id) => Settled(r, live)
    BY <2>1, <2>6, ZenonT(60) DEF Settled, live, BookContains
  <2> QED BY <2>1, <2>5, <2>9, <2>10 DEF AcceptResult, r, live
<1>2. CASE ~RejectedUpfront(b, o)
  <2>1. ~BookContains(b, o.id)
    BY <1>2 DEF RejectedUpfront, BadOrder
  <2>2. PICK c : AfterLoop(Received(b, n, o), o) = {c} /\ LoopEnd(c, o, b, n)
    BY <2>1, LoopEnds
  <2>3. r = CHOOSE end \in {EndOfCall(x, o, n) : x \in {c}} : TRUE
    BY <1>2, <2>2 DEF AcceptCall
  <2>4. r = EndOfCall(c, o, n)
    BY <2>3
  <2> HIDE DEF r
  <2>5. CallResult(r, n, live) /\ Settled(r, live) /\ AcceptedFirst(r.out)
    BY <2>1, <2>2, <2>4, EndOfCallOK, ZenonT(60)
  <2> QED BY <2>5, ZenonT(60) DEF AcceptResult, r
<1> QED BY <1>1, <1>2

(* cancel, found or not.                                                   *)
LEMMA CancelCallOK ==
  ASSUME NEW b, BookOK(b), NEW n \in Nat, SeqsBelow(b, n),
         IsFiniteSet(DOMAIN b.index), NEW id \in OrderIds
  PROVE  /\ CallResult(CancelCall(b, n, id), n, DOMAIN b.index)
         /\ Settled(CancelCall(b, n, id), DOMAIN b.index)
         /\ \A i \in DOMAIN CancelCall(b, n, id).out :
              CancelCall(b, n, id).out[i].reason = "Cancelled"
<1> DEFINE r == CancelCall(b, n, id)
           live == DOMAIN b.index
           q == CancelQty(b, id)
           e == Done(id, q, "Cancelled", n)
<1>1. /\ r.book = CancelBook(b, id)
      /\ r.seq = IF CancelFinds(b, id) THEN n + 1 ELSE n
      /\ r.out = IF CancelFinds(b, id) THEN <<e>> ELSE << >>
  BY ZenonT(60) DEF CancelCall
<1>2. /\ BookOK(r.book) /\ SeqsBelow(r.book, n)
      /\ DOMAIN r.book.index = live \ {id}
      /\ CancelFinds(b, id) <=> id \in live
      /\ CancelFinds(b, id) => q \in Qtys
  BY <1>1, CancelPreserves, ZenonT(60) DEF CancelOK
<1> HIDE DEF r
<1>3. IsFiniteSet(DOMAIN r.book.index)
  BY <1>2, FS_Subset
<1>4. r.seq \in Nat /\ n <= r.seq
  <2>1. r.seq = n + 1 \/ r.seq = n
    BY <1>1, ZenonT(60)
  <2> QED BY <2>1
<1>5. SeqsBelow(r.book, r.seq)
  BY <1>2, <1>4, SeqsBelowRises, ZenonT(60)
<1>6. CASE CancelFinds(b, id)
  <2> HIDE DEF q
  <2>1. e \in Events
    BY <1>2, <1>6, EventTypes
  <2>2. /\ e.seq = n /\ e.type = "Done" /\ e.id = id /\ Named(e) = {id}
        /\ e.reason = "Cancelled"
    BY ZenonT(60) DEF Named, Done
  <2>3. r.out = <<e>> /\ r.seq - n = 1
    BY <1>1, <1>6
  <2> HIDE DEF e, live
  <2>4. EventsFrom(<<e>>, n, live) /\ Len(<<e>>) = 1 /\ Ended(<<e>>, 1) = {id}
    <3>1. Named(e) \subseteq live
      BY <1>2, <1>6, <2>2, ZenonT(60)
    <3> QED BY <2>1, <2>2, <3>1, EventsStart
  <2>5. \A i \in DOMAIN r.out : r.out[i].reason = "Cancelled"
    BY <2>2, <2>3
  <2>6. CallResult(r, n, live) /\ Settled(r, live)
    BY <1>2, <1>3, <1>4, <1>5, <2>3, <2>4, ZenonT(60) DEF CallResult, Settled
  <2> QED BY <2>5, <2>6, ZenonT(60) DEF r, live
<1>7. CASE ~CancelFinds(b, id)
  <2>1. r.out = << >> /\ r.seq = n /\ Len(r.out) = r.seq - n /\ Len(r.out) = 0
    BY <1>1, <1>7
  <2>2. Ended(r.out, 0) = {}
    BY DEF Ended
  <2>3. EventsFrom(r.out, n, live)
    BY <2>1 DEF EventsFrom
  <2>4. Settled(r, live)
    BY <1>2, <1>7, <2>1, <2>2, ZenonT(60) DEF Settled
  <2>5. CallResult(r, n, live)
    BY <1>2, <1>3, <1>4, <1>5, <2>1, <2>3 DEF CallResult
  <2> QED BY <2>1, <2>4, <2>5 DEF r
<1> QED BY <1>6, <1>7, ZenonT(60)

(* The orders a command may produce events about.                          *)
Live(b, cmd) ==
  IF cmd.type = "New" THEN DOMAIN b.index \cup {cmd.order.id} ELSE DOMAIN b.index

(* What the matcher threads do with a command.                             *)
LEMMA ProcessOK ==
  ASSUME NEW b, BookOK(b), NEW n \in Nat, SeqsBelow(b, n),
         IsFiniteSet(DOMAIN b.index), NEW cmd \in AllCommands
  PROVE  CallResult(Process(b, n, cmd), n, Live(b, cmd))
<1>1. CASE cmd.type = "New"
  <2>1. cmd.order \in NewOrders
    BY <1>1 DEF AllCommands
  <2>2. Process(b, n, cmd) = AcceptCall(b, n, cmd.order)
    BY <1>1 DEF Process
  <2>3. AcceptResult(AcceptCall(b, n, cmd.order), b, n, cmd.order)
    BY <2>1, AcceptOK, ZenonT(60)
  <2> QED BY <1>1, <2>2, <2>3, ZenonT(60) DEF AcceptResult, Live
<1>2. CASE cmd.type # "New"
  <2>1. cmd.id \in OrderIds
    BY <1>2 DEF AllCommands
  <2>2. Process(b, n, cmd) = CancelCall(b, n, cmd.id)
    BY <1>2, ZenonT(60) DEF Process
  <2>3. CallResult(CancelCall(b, n, cmd.id), n, DOMAIN b.index)
    BY <2>1, CancelCallOK
  <2> QED BY <1>2, <2>2, <2>3 DEF Live
<1> QED BY <1>1, <1>2

=============================================================================
