--------------------------- MODULE MatcherProofs -----------------------------
(***************************************************************************)
(* The safety of the matcher, for every set of ids, price range, greatest  *)
(* quantity and length of run.                                             *)
(***************************************************************************)
EXTENDS Matcher, BookProofs

(* The provers of a leaf that names none, and their time in seconds.        *)
USE SMTT(60), ZenonT(60)

-----------------------------------------------------------------------------
(* Takers.                                                                 *)

(* A call in progress is not the idle value.                               *)
LEMMA TakerFields ==
  ASSUME NEW t \in Takers \cup {NoTaker}, t # NoTaker
  PROVE  /\ t \in Takers /\ t.order \in NewOrders /\ t.remaining \in Qtys
         /\ t.receiveSeq \in Nat
BY DEF Takers

(* Nor is any taker accept can hold.                                       *)
LEMMA TakerNotIdle ==
  ASSUME NEW t \in Takers
  PROVE  t # NoTaker
<1>1. "remaining" \in DOMAIN t
  BY DEF Takers
<1>2. "remaining" \notin DOMAIN NoTaker
  BY DEF NoTaker
<1> QED BY <1>1, <1>2

-----------------------------------------------------------------------------
(* The inductive invariant.                                                *)

(* Matcher::new establishes the invariant.                                 *)
LEMMA InitInv ==
  Init => IInv
<1> SUFFICES ASSUME Init PROVE IInv
  OBVIOUS
<1>1. BookOK(book) /\ SeqsBelow(book, seq)
  BY NewBookOK DEF Init
<1>2. TypeOK
  BY <1>1 DEF Init, TypeOK, BookOK
<1> QED BY <1>1, <1>2 DEF Init, IInv, TakerIsLatest, NoSelfTrade, Idle

(* An upfront rejection only issues a number.                              *)
LEMMA RejectInv ==
  ASSUME IInv, NEW o \in NewOrders, Reject(o)
  PROVE  IInv'
<1>1. /\ seq \in Nat \ {0} /\ BookOK(book) /\ SeqsBelow(book, seq) /\ TypeOK
      /\ book' = book /\ taker' = taker /\ seq' = seq + 1 /\ Idle
      /\ out' = <<Done(o.id, o.qty, "Rejected", seq)>>
  BY DEF IInv, TypeOK, Reject
<1>2. SeqsBelow(book, seq')
  BY <1>1, SeqsBelowRises
<1>3. out' \in Seq(Events)
  <2>1. Done(o.id, o.qty, "Rejected", seq) \in Events
    BY <1>1, OrderFields, EventTypes
  <2> QED BY <1>1, <2>1
<1>4. TypeOK'
  BY <1>1, <1>3 DEF TypeOK
<1> QED BY <1>1, <1>2, <1>4 DEF IInv, TakerIsLatest, NoSelfTrade, Idle

(* The receive acknowledgement: the taker does not rest and is the latest. *)
LEMMA ReceiveInv ==
  ASSUME IInv, NEW o \in NewOrders, Receive(o)
  PROVE  IInv'
<1>1. /\ seq \in Nat \ {0} /\ BookOK(book) /\ SeqsBelow(book, seq) /\ TypeOK
      /\ book' = book /\ seq' = seq + 1 /\ Idle
      /\ taker' = [order |-> o, remaining |-> o.qty, receiveSeq |-> seq]
      /\ out' = <<Accepted(o.id, o.qty, seq)>>
      /\ ~BookContains(book, o.id)
  BY DEF IInv, TypeOK, Receive, RejectedUpfront, BadOrder
<1>2. SeqsBelow(book, seq')
  BY <1>1, SeqsBelowRises
<1>3. out' \in Seq(Events)
  <2>1. Accepted(o.id, o.qty, seq) \in Events
    BY <1>1, OrderFields, EventTypes
  <2> QED BY <1>1, <2>1
<1>4. taker' \in Takers /\ taker'.receiveSeq = seq /\ taker'.order = o
  BY <1>1, OrderFields DEF Takers
<1>5. TypeOK'
  BY <1>1, <1>3, <1>4 DEF TypeOK
<1>6. TakerIsLatest' /\ NoSelfTrade'
  BY <1>1, <1>4 DEF TakerIsLatest, NoSelfTrade
<1> QED BY <1>1, <1>2, <1>5, <1>6 DEF IInv

(* One iteration of the loop, in terms of what take_front did.             *)
LEMMA MatchStep ==
  ASSUME IInv, Match,
         NEW s, s = Opposite(taker.order.side),
         NEW p, p = Best(book, s),
         NEW t, t = TakeFront(book, s, p, taker.remaining)
  PROVE  /\ s \in Sides /\ p \in DOMAIN book.levels[s] /\ p \in Prices
         /\ taker \in Takers /\ taker.remaining \in Qtys /\ taker.remaining > 0
         /\ TakeFrontOK(book, s, p, taker.remaining, t)
         /\ book' = t.book
         /\ seq' = IF t.remaining = 0 THEN seq + 2 ELSE seq + 1
         /\ taker' = [taker EXCEPT !.remaining = SaturatingSub(taker.remaining, t.taken)]
         /\ out' = << >> \o MatchEvents(taker.order, p, t, seq)
<1>1. /\ taker \in Takers /\ taker.order \in NewOrders /\ taker.remaining \in Qtys
      /\ BookOK(book)
  BY TakerFields DEF IInv, TypeOK, Match, Idle
<1>2. s \in Sides
  BY <1>1, OrderFields
<1>3. p \in DOMAIN book.levels[s] /\ taker.remaining > 0
  BY <1>1, LoopTakes DEF Match
<1>4. p \in Prices
  BY <1>1, <1>2, <1>3 DEF BookOK, BookType
<1>5. TakeFrontOK(book, s, p, taker.remaining, t)
  BY <1>1, <1>2, <1>3, TakeFrontPreserves
<1>6. /\ Call.book = book /\ Call.seq = seq /\ Call.remaining = taker.remaining
      /\ Call.out = << >>
  BY DEF Call
<1> DEFINE c == MatchOnce(Call, taker.order)
<1>7. /\ c.book = t.book
      /\ c.seq = IF t.remaining = 0 THEN seq + 2 ELSE seq + 1
      /\ c.remaining = SaturatingSub(taker.remaining, t.taken)
      /\ c.out = << >> \o MatchEvents(taker.order, p, t, seq)
  BY <1>6 DEF MatchOnce
<1>8. /\ book' = c.book /\ seq' = c.seq /\ out' = c.out
      /\ taker' = [taker EXCEPT !.remaining = c.remaining]
  BY DEF Match
<1> QED BY <1>1, <1>2, <1>3, <1>4, <1>5, <1>7, <1>8

(* One iteration of the loop: makers leave, the taker shrinks.             *)
LEMMA MatchInv ==
  ASSUME IInv, Match
  PROVE  IInv'
<1> DEFINE s == Opposite(taker.order.side)
           p == Best(book, s)
           t == TakeFront(book, s, p, taker.remaining)
<1>1. /\ s \in Sides /\ p \in DOMAIN book.levels[s] /\ p \in Prices
      /\ taker \in Takers /\ taker.remaining \in Qtys /\ taker.remaining > 0
      /\ TakeFrontOK(book, s, p, taker.remaining, t)
      /\ book' = t.book
      /\ seq' = IF t.remaining = 0 THEN seq + 2 ELSE seq + 1
      /\ taker' = [taker EXCEPT !.remaining = SaturatingSub(taker.remaining, t.taken)]
      /\ out' = << >> \o MatchEvents(taker.order, p, t, seq)
  BY MatchStep
<1> HIDE DEF s, p, t
<1>2. /\ seq \in Nat \ {0} /\ BookOK(book) /\ SeqsBelow(book, seq)
      /\ TakerIsLatest /\ NoSelfTrade /\ ~Idle
  BY DEF IInv, TypeOK, Match
<1>3. seq' \in Nat \ {0} /\ seq < seq' /\ seq <= seq'
  BY <1>1, <1>2
<1>4. BookOK(book') /\ SeqsBelow(book', seq')
  <2>1. BookOK(book') /\ SeqsBelow(book', seq)
    BY <1>1, <1>2 DEF TakeFrontOK
  <2> QED BY <1>2, <1>3, <2>1, SeqsBelowRises
<1>5. t.maker \in OrderIds /\ t.taken \in Nat /\ t.taken \in Qtys
  <2>1. t.maker \in DOMAIN book.index
    BY <1>1, ZenonT(60) DEF TakeFrontOK, IndexedAt
  <2>2. t.maker \in OrderIds
    BY <1>2, <2>1 DEF BookOK, BookType
  <2>3. t.taken \in Nat /\ t.taken <= taker.remaining
    BY <1>1 DEF TakeFrontOK
  <2> QED BY <1>1, <2>2, <2>3, BookAssumption DEF Qtys
<1>6. out' \in Seq(Events)
  <2>1. taker.order \in NewOrders
    BY <1>1 DEF Takers
  <2> QED BY <1>1, <1>2, <1>5, <2>1, MatchEventsOK
<1>7. /\ taker' \in Takers /\ taker'.order = taker.order
      /\ taker'.receiveSeq = taker.receiveSeq
  <2>1. SaturatingSub(taker.remaining, t.taken) \in Qtys
    BY <1>1, <1>5, BookAssumption DEF SaturatingSub, Qtys
  <2> QED BY <1>1, <2>1 DEF Takers
<1>8. taker'.receiveSeq < seq' /\ SeqsBelow(book', taker'.receiveSeq)
  <2>1. taker.receiveSeq \in Nat /\ taker.receiveSeq < seq /\ SeqsBelow(book, taker.receiveSeq)
    BY <1>1, <1>2 DEF TakerIsLatest, Takers
  <2>2. SeqsBelow(t.book, taker.receiveSeq)
    BY <1>1, <2>1 DEF TakeFrontOK
  <2> QED BY <1>1, <1>2, <1>3, <1>7, <2>1, <2>2
<1>9. ~BookContains(book', taker'.order.id)
  BY <1>1, <1>2, <1>7 DEF NoSelfTrade, BookContains, TakeFrontOK
<1>10. TypeOK'
  BY <1>3, <1>4, <1>6, <1>7 DEF TypeOK, BookOK
<1> QED BY <1>4, <1>8, <1>9, <1>10 DEF IInv, TakerIsLatest, NoSelfTrade

(* The end of the call, in its two cases.                                  *)
LEMMA FinishStep ==
  ASSUME Finish, NEW o, o = taker.order, NEW r, r = taker.remaining
  PROVE  /\ taker' = NoTaker
         /\ Rests(o, r) => /\ book' = Add(book, o.id, o.side, o.price, r, taker.receiveSeq)
                           /\ seq' = seq /\ out' = << >>
         /\ ~Rests(o, r) => /\ book' = book /\ seq' = seq + 1
                            /\ out' = <<Done(o.id, r, EndReason(o, r), seq)>>
<1>1. /\ Call.book = book /\ Call.seq = seq /\ Call.remaining = r
      /\ Call.out = << >> /\ DOMAIN Call = {"book", "seq", "remaining", "out"}
  BY DEF Call
<1> DEFINE c == EndOfCall(Call, o, taker.receiveSeq)
<1>2. ASSUME Rests(o, r)
      PROVE  /\ c.book = Add(book, o.id, o.side, o.price, r, taker.receiveSeq)
             /\ c.seq = seq /\ c.out = << >>
  <2>1. c = [Call EXCEPT !.book = Add(Call.book, o.id, o.side, o.price, r, taker.receiveSeq)]
    BY <1>1, <1>2 DEF EndOfCall
  <2> QED BY <1>1, <2>1
<1>3. ASSUME ~Rests(o, r)
      PROVE  /\ c.book = book /\ c.seq = seq + 1
             /\ c.out = <<Done(o.id, r, EndReason(o, r), seq)>>
  <2> DEFINE d == Done(o.id, r, EndReason(o, r), seq)
  <2>1. c = [Call EXCEPT !.seq = Call.seq + 1, !.out = Append(Call.out, d)]
    BY <1>1, <1>3, Zenon DEF EndOfCall
  <2>2. Append(<< >>, d) = <<d>>
    OBVIOUS
  <2> HIDE DEF d
  <2>3. c.book = book /\ c.seq = seq + 1 /\ c.out = Append(<< >>, d)
    BY <1>1, <2>1
  <2> QED BY <2>2, <2>3 DEF d
<1>4. book' = c.book /\ seq' = c.seq /\ out' = c.out /\ taker' = NoTaker
  BY DEF Finish
<1> QED BY <1>2, <1>3, <1>4

(* The end of the call: a remainder rests behind everything at its price,  *)
(* and crosses nothing, or is cancelled.                                   *)
LEMMA FinishInv ==
  ASSUME IInv, Finish
  PROVE  IInv'
<1> DEFINE o == taker.order
           r == taker.remaining
<1>1. /\ seq \in Nat \ {0} /\ BookOK(book) /\ SeqsBelow(book, seq)
      /\ TakerIsLatest /\ NoSelfTrade /\ ~Idle /\ out \in Seq(Events)
      /\ taker \in Takers /\ o \in NewOrders /\ r \in Qtys /\ taker.receiveSeq \in Nat
      /\ ~LoopContinues(book, o, r)
  BY TakerFields DEF IInv, TypeOK, Finish, Idle
<1>2. o.id \in OrderIds /\ o.side \in Sides /\ (o.kind # "Market" => o.price \in Prices)
  BY <1>1, OrderFields
<1>3. taker' = NoTaker
  BY FinishStep
<1>4. CASE Rests(o, r)
  <2>1. /\ book' = Add(book, o.id, o.side, o.price, r, taker.receiveSeq)
        /\ seq' = seq /\ out' = << >>
    BY <1>4, FinishStep
  <2>2. r > 0 /\ o.kind # "Market" /\ o.price \in Prices
    BY <1>1, <1>2, <1>4, BookAssumption DEF Rests, Qtys
  <2>3. NoneCrosses(book, o.side, o.price)
    BY <1>1, <2>2, LoopStops
  <2>4. /\ ~BookContains(book, o.id)
        /\ taker.receiveSeq < seq /\ SeqsBelow(book, taker.receiveSeq)
    BY <1>1 DEF NoSelfTrade, TakerIsLatest
  <2> HIDE DEF o, r
  <2>5. AddedOK(book, book', o.id, seq)
    BY <1>1, <1>2, <2>1, <2>2, <2>3, <2>4, AddPreserves
  <2>6. BookOK(book') /\ SeqsBelow(book', seq')
    BY <2>1, <2>5 DEF AddedOK
  <2>7. TypeOK'
    BY <1>1, <1>3, <2>1, <2>6 DEF TypeOK, BookOK
  <2> QED BY <1>3, <2>6, <2>7 DEF IInv, TakerIsLatest, NoSelfTrade, Idle
<1>5. CASE ~Rests(o, r)
  <2>1. /\ book' = book /\ seq' = seq + 1
        /\ out' = <<Done(o.id, r, EndReason(o, r), seq)>>
    BY <1>5, FinishStep
  <2>2. SeqsBelow(book', seq')
    BY <1>1, <2>1, SeqsBelowRises
  <2>3. EndReason(o, r) \in {"Filled", "Cancelled", "Expired", "NoLiquidity", "Rejected"}
    BY DEF EndReason
  <2> HIDE DEF o, r
  <2>4. out' \in Seq(Events)
    <3>1. Done(o.id, r, EndReason(o, r), seq) \in Events
      BY <1>1, <1>2, <2>3, EventTypes
    <3> QED BY <2>1, <3>1
  <2>5. TypeOK'
    BY <1>1, <1>3, <2>1, <2>4 DEF TypeOK, BookOK
  <2> QED BY <1>1, <1>3, <2>1, <2>2, <2>5 DEF IInv, TakerIsLatest, NoSelfTrade, Idle
<1> QED BY <1>4, <1>5

(* cancel, found or not.                                                   *)
LEMMA CancelInv ==
  ASSUME IInv, NEW id \in OrderIds, Cancel(id)
  PROVE  IInv'
<1>1. /\ seq \in Nat \ {0} /\ BookOK(book) /\ SeqsBelow(book, seq) /\ TypeOK
      /\ Idle /\ taker' = taker
  BY DEF IInv, TypeOK, Cancel
<1>2. /\ book' = CancelBook(book, id)
      /\ seq' = IF CancelFinds(book, id) THEN seq + 1 ELSE seq
      /\ out' = IF CancelFinds(book, id)
                THEN <<Done(id, CancelQty(book, id), "Cancelled", seq)>> ELSE << >>
  BY DEF Cancel, CancelCall
<1>3. CancelOK(book, id)
  BY <1>1, CancelPreserves
<1>4. BookOK(book') /\ SeqsBelow(book', seq)
  BY <1>1, <1>2, <1>3 DEF CancelOK
<1>5. seq' \in Nat \ {0} /\ seq <= seq'
  BY <1>1, <1>2
<1>6. SeqsBelow(book', seq')
  BY <1>1, <1>4, <1>5, SeqsBelowRises
<1>7. out' \in Seq(Events)
  <2>1. CASE CancelFinds(book, id)
    <3>1. Done(id, CancelQty(book, id), "Cancelled", seq) \in Events
      BY <1>1, <1>3, <2>1, EventTypes DEF CancelOK
    <3> QED BY <1>2, <2>1, <3>1
  <2>2. CASE ~CancelFinds(book, id)
    BY <1>2, <2>2
  <2> QED BY <2>1, <2>2
<1>8. TypeOK'
  BY <1>1, <1>4, <1>5, <1>7 DEF TypeOK, BookOK
<1> QED BY <1>1, <1>4, <1>6, <1>8 DEF IInv, TakerIsLatest, NoSelfTrade, Idle

(* Every step of the matcher preserves the invariant.                      *)
LEMMA NextInv ==
  IInv /\ [Next]_vars => IInv'
<1> SUFFICES ASSUME IInv, [Next]_vars PROVE IInv'
  OBVIOUS
<1>1. ASSUME NEW o \in NewOrders, Reject(o) PROVE IInv'
  BY <1>1, RejectInv
<1>2. ASSUME NEW o \in NewOrders, Receive(o) PROVE IInv'
  BY <1>2, ReceiveInv
<1>3. ASSUME NEW id \in OrderIds, Cancel(id) PROVE IInv'
  BY <1>3, CancelInv
<1>4. CASE Match
  BY <1>4, MatchInv
<1>5. CASE Finish
  BY <1>5, FinishInv
<1>6. CASE UNCHANGED vars
  BY <1>6 DEF vars, IInv, TypeOK, TakerIsLatest, NoSelfTrade, Idle
<1> QED BY <1>1, <1>2, <1>3, <1>4, <1>5, <1>6 DEF Next, NewCall

-----------------------------------------------------------------------------
(* The theorems.                                                           *)

(* The inductive invariant holds in every reachable state of the matcher.  *)
THEOREM Invariance ==
  Spec => []IInv
<1>1. Init => IInv
  BY InitInv
<1>2. IInv /\ [Next]_vars => IInv'
  BY NextInv
<1> QED BY <1>1, <1>2, PTL DEF Spec

(* The fields of Matcher and Book, and accept's locals, keep their types.  *)
THEOREM TypeCorrect ==
  Spec => []TypeOK
<1>1. IInv => TypeOK
  BY DEF IInv
<1> QED BY <1>1, Invariance, PTL

(* The index and the levels of Book always describe the same orders, and   *)
(* no empty level stays behind, whatever add, cancel and take_front did.   *)
THEOREM Consistency ==
  Spec => []BookConsistent
<1>1. IInv => BookConsistent
  BY DEF IInv, BookOK, BookConsistent
<1> QED BY <1>1, Invariance, PTL

(* Every level stands in the order of acknowledgement: accept, which adds  *)
(* a remainder under its receive_seq, never lets it overtake.              *)
THEOREM TimePriorityKept ==
  Spec => []TimePriority
<1>1. IInv => TimePriority
  BY DEF IInv, BookOK, TimePriority
<1> QED BY <1>1, Invariance, PTL

(* No bid ever meets an ask in the book that accept leaves.                *)
THEOREM BookUncrossed ==
  Spec => []NeverCrossed
<1>1. IInv => NeverCrossed
  BY DEF IInv, BookOK, NeverCrossed
<1> QED BY <1>1, Invariance, PTL

(* The duplicate-id gate of accept prevents every self-trade.              *)
THEOREM SelfTradePrevented ==
  Spec => []NoSelfTrade
<1>1. IInv => NoSelfTrade
  BY DEF IInv
<1> QED BY <1>1, Invariance, PTL

(* A post-only order that passes accept's pre-check never trades.          *)
THEOREM PostOnlyMakes ==
  Spec => []PostOnlyNeverTakes
<1>1. Init => PostOnlyNeverTakes
  BY DEF Init, PostOnlyNeverTakes, Idle
<1>2. IInv /\ PostOnlyNeverTakes /\ [Next]_vars => PostOnlyNeverTakes'
  <2> SUFFICES ASSUME IInv, PostOnlyNeverTakes, [Next]_vars
               PROVE  PostOnlyNeverTakes'
    OBVIOUS
  <2>1. ASSUME NEW o \in NewOrders, Reject(o) PROVE PostOnlyNeverTakes'
    BY <2>1 DEF Reject, PostOnlyNeverTakes, Idle
  <2>2. ASSUME NEW o \in NewOrders, Receive(o) PROVE PostOnlyNeverTakes'
    <3>1. taker'.order = o /\ taker'.remaining = o.qty /\ book' = book
      BY <2>2 DEF Receive
    <3>2. o.kind = "PostOnly" => ~BestCrosses(book, o)
      BY <2>2 DEF Receive, RejectedUpfront, PostOnlyWouldCross
    <3> QED BY <3>1, <3>2 DEF PostOnlyNeverTakes, LoopContinues
  <2>3. ASSUME NEW id \in OrderIds, Cancel(id) PROVE PostOnlyNeverTakes'
    BY <2>3 DEF Cancel, PostOnlyNeverTakes, Idle
  <2>4. CASE Match
    <3>1. taker \in Takers
      BY <2>4, MatchStep
    <3>2. taker'.order = taker.order
      BY <2>4, <3>1 DEF Match, Takers
    <3>3. taker.order.kind # "PostOnly"
      BY <2>4 DEF Match, PostOnlyNeverTakes
    <3> QED BY <3>2, <3>3 DEF PostOnlyNeverTakes
  <2>5. CASE Finish
    BY <2>5 DEF Finish, PostOnlyNeverTakes, Idle
  <2>6. CASE UNCHANGED vars
    BY <2>6 DEF vars, PostOnlyNeverTakes, Idle
  <2> QED BY <2>1, <2>2, <2>3, <2>4, <2>5, <2>6 DEF Next, NewCall
<1> QED BY <1>1, <1>2, Invariance, PTL DEF Spec

(* The step of GapFree.                                                    *)
Consecutive ==
  /\ Len(out') = seq' - seq
  /\ \A i \in DOMAIN out' : out'[i].seq = seq + i - 1

(* One event with the number that was next.                                *)
LEMMA OneEvent ==
  ASSUME NEW n \in Nat, NEW e, e.seq = n, NEW evs, evs = <<e>>
  PROVE  Len(evs) = (n + 1) - n /\ \A i \in DOMAIN evs : evs[i].seq = n + i - 1
OBVIOUS

(* Every step of accept and cancel numbers its events consecutively.       *)
LEMMA NextConsecutive ==
  IInv /\ [Next]_vars => [Consecutive]_vars
<1> SUFFICES ASSUME IInv, Next PROVE Consecutive
  OBVIOUS
<1>0. seq \in Nat
  BY DEF IInv, TypeOK
<1>1. ASSUME NEW o \in NewOrders, Reject(o) PROVE Consecutive
  <2> DEFINE e == Done(o.id, o.qty, "Rejected", seq)
  <2>1. e.seq = seq
    BY DEF Done
  <2>2. out' = <<e>> /\ seq' = seq + 1
    BY <1>1 DEF Reject
  <2> HIDE DEF e
  <2> QED BY <1>0, <2>1, <2>2, OneEvent DEF Consecutive
<1>2. ASSUME NEW o \in NewOrders, Receive(o) PROVE Consecutive
  <2> DEFINE e == Accepted(o.id, o.qty, seq)
  <2>1. e.seq = seq
    BY DEF Accepted
  <2>2. out' = <<e>> /\ seq' = seq + 1
    BY <1>2 DEF Receive
  <2> HIDE DEF e
  <2> QED BY <1>0, <2>1, <2>2, OneEvent DEF Consecutive
<1>3. ASSUME NEW id \in OrderIds, Cancel(id) PROVE Consecutive
  <2>1. CASE CancelFinds(book, id)
    <3> DEFINE e == Done(id, CancelQty(book, id), "Cancelled", seq)
    <3>1. e.seq = seq
      BY DEF Done
    <3>2. out' = <<e>> /\ seq' = seq + 1
      BY <1>3, <2>1 DEF Cancel, CancelCall
    <3> HIDE DEF e
    <3> QED BY <1>0, <3>1, <3>2, OneEvent DEF Consecutive
  <2>2. CASE ~CancelFinds(book, id)
    <3>1. out' = << >> /\ seq' = seq
      BY <1>3, <2>2 DEF Cancel, CancelCall
    <3> QED BY <1>0, <3>1 DEF Consecutive
  <2> QED BY <2>1, <2>2
<1>4. CASE Match
  <2> DEFINE s == Opposite(taker.order.side)
             p == Best(book, s)
             t == TakeFront(book, s, p, taker.remaining)
  <2>1. /\ p \in Prices /\ taker \in Takers /\ taker.remaining \in Qtys
        /\ TakeFrontOK(book, s, p, taker.remaining, t)
        /\ seq' = IF t.remaining = 0 THEN seq + 2 ELSE seq + 1
        /\ out' = << >> \o MatchEvents(taker.order, p, t, seq)
    BY <1>4, MatchStep
  <2> HIDE DEF s, p, t
  <2>2. t.maker \in DOMAIN book.index
    BY <2>1, ZenonT(60) DEF TakeFrontOK, IndexedAt
  <2>3. t.maker \in OrderIds
    BY <2>2 DEF IInv, BookOK, BookType
  <2>4. t.taken \in Nat /\ t.taken <= taker.remaining
    BY <2>1 DEF TakeFrontOK
  <2>5. t.taken \in Qtys
    BY <2>1, <2>4, BookAssumption DEF Qtys
  <2>6. taker.order \in NewOrders
    BY <2>1 DEF Takers
  <2>7. /\ Len(out') = IF t.remaining = 0 THEN 2 ELSE 1
        /\ \A i \in DOMAIN out' : out'[i].seq = seq + i - 1
    BY <1>0, <2>1, <2>3, <2>5, <2>6, MatchEventsOK, ZenonT(60)
  <2> QED BY <1>0, <2>1, <2>7 DEF Consecutive
<1>5. CASE Finish
  <2> DEFINE o == taker.order
             r == taker.remaining
  <2>1. CASE Rests(o, r)
    <3>1. out' = << >> /\ seq' = seq
      BY <1>5, <2>1, FinishStep
    <3> QED BY <1>0, <3>1 DEF Consecutive
  <2>2. CASE ~Rests(o, r)
    <3> DEFINE e == Done(o.id, r, EndReason(o, r), seq)
    <3>1. e.seq = seq
      BY DEF Done
    <3>2. out' = <<e>> /\ seq' = seq + 1
      BY <1>5, <2>2, FinishStep
    <3> HIDE DEF e
    <3> QED BY <1>0, <3>1, <3>2, OneEvent DEF Consecutive
  <2> QED BY <2>1, <2>2
<1> QED BY <1>1, <1>2, <1>3, <1>4, <1>5 DEF Next, NewCall

(* The numbers of the emitted events never skip and never repeat, across   *)
(* all calls of accept and cancel.                                         *)
THEOREM EventsGapFree ==
  Spec => GapFree
<1>1. IInv /\ [Next]_vars => [Consecutive]_vars
  BY NextConsecutive
<1>2. Spec => [][Consecutive]_vars
  BY <1>1, Invariance, PTL DEF Spec
<1> QED BY <1>2, PTL DEF GapFree, Consecutive
=============================================================================
