------------------------------- MODULE Matcher -------------------------------
(***************************************************************************)
(* The matcher of matcher.rs, one step per event-producing point of        *)
(* accept: the upfront rejection, the receive acknowledgement, one         *)
(* iteration of the matching loop, the end of the call; and cancel. The    *)
(* matcher is single-threaded: while a call is in progress (taker is not   *)
(* NoTaker) only its own steps happen.                                     *)
(***************************************************************************)
EXTENDS Matching

CONSTANT MaxSeq   \* bound: no new call starts once seq exceeds it

ASSUME MaxSeqAssumption == MaxSeq \in Nat

VARIABLES
  book,    \* the order book
  seq,     \* SequenceGenerator.next: the number the next event carries
  taker,   \* the order being matched: [order, remaining, receiveSeq]
  out      \* the events the last step appended to the caller's buffer

vars == <<book, seq, taker, out>>

NoTaker == [order |-> "none"]

Idle == taker = NoTaker

Init ==
  /\ book = NewBook
  /\ seq = 1
  /\ taker = NoTaker
  /\ out = << >>

(* accept: rejected before any state changes.                              *)
Reject(o) ==
  /\ Idle
  /\ RejectedUpfront(book, o)
  /\ out' = <<Done(o.id, o.qty, "Rejected", seq)>>
  /\ seq' = seq + 1
  /\ UNCHANGED <<book, taker>>

(* accept: the receive acknowledgement.                                    *)
Receive(o) ==
  /\ Idle
  /\ ~RejectedUpfront(book, o)
  /\ out' = <<Accepted(o.id, o.qty, seq)>>
  /\ seq' = seq + 1
  /\ taker' = [order |-> o, remaining |-> o.qty, receiveSeq |-> seq]
  /\ UNCHANGED book

Call == [book |-> book, seq |-> seq, remaining |-> taker.remaining,
         out |-> << >>]

(* accept: one iteration of the loop.                                      *)
Match ==
  /\ ~Idle
  /\ LoopContinues(book, taker.order, taker.remaining)
  /\ LET c == MatchOnce(Call, taker.order)
     IN  /\ book' = c.book
         /\ seq' = c.seq
         /\ out' = c.out
         /\ taker' = [taker EXCEPT !.remaining = c.remaining]

(* accept: the loop ended; the remainder, if any, rests or is cancelled.   *)
Finish ==
  /\ ~Idle
  /\ ~LoopContinues(book, taker.order, taker.remaining)
  /\ LET c == EndOfCall(Call, taker.order, taker.receiveSeq)
     IN  /\ book' = c.book
         /\ seq' = c.seq
         /\ out' = c.out
  /\ taker' = NoTaker

Cancel(id) ==
  /\ Idle
  /\ LET c == CancelCall(book, seq, id)
     IN  /\ book' = c.book
         /\ seq' = c.seq
         /\ out' = c.out
  /\ UNCHANGED taker

NewCall ==
  /\ seq <= MaxSeq
  /\ \/ \E o \in NewOrders : Reject(o) \/ Receive(o)
     \/ \E id \in OrderIds : Cancel(id)

Next == NewCall \/ Match \/ Finish

Spec == Init /\ [][Next]_vars

-----------------------------------------------------------------------------
(* Properties                                                              *)

Takers == [order : NewOrders, remaining : Qtys, receiveSeq : Nat]

(* Type invariant: the fields of Matcher and Book hold values of their     *)
(* Rust types, and accept's locals do too.                                 *)
TypeOK ==
  /\ BookType(book)
  /\ seq \in Nat \ {0}
  /\ taker \in Takers \cup {NoTaker}
  /\ out \in Seq(Events)

(* The index and the levels describe the same orders, in both directions,  *)
(* and no level outlives its last order: Book.add, cancel and take_front   *)
(* each update the three maps separately.                                  *)
BookConsistent ==
  /\ NoEmptyLevel(book)
  /\ IndexedRests(book)
  /\ RestingIndexed(book)
  /\ RestingOpen(book)

(* Time priority: within a level the orders stand in the order in which    *)
(* accept acknowledged them, and the next number issued is later than all. *)
TimePriority == TimeOrdered(book) /\ SeqsBelow(book, seq)

(* The book is never crossed: the loop stops only when nothing crosses,    *)
(* so that a remainder that rests never crosses the opposite side.         *)
NeverCrossed == Uncrossed(book)

(* An order never meets itself: while accept runs, the id of the taker is  *)
(* not resting (the self-trade prevention of the duplicate-id gate).       *)
NoSelfTrade == ~Idle => ~BookContains(book, taker.order.id)

(* A fill-or-kill order that passes the pre-check of fillable_qty_at fills *)
(* completely: when its loop ends nothing remains, so the defensive        *)
(* Expired arm of accept is never taken for it.                            *)
FokFillsWhole ==
  ~Idle /\ taker.order.kind = "Fok"
    /\ ~LoopContinues(book, taker.order, taker.remaining)
  => taker.remaining = 0

(* A post-only order that passes its pre-check never takes liquidity.      *)
PostOnlyNeverTakes ==
  ~Idle /\ taker.order.kind = "PostOnly"
  => ~LoopContinues(book, taker.order, taker.remaining)

(* The strengthening that is inductive. TimePriority of a remainder that   *)
(* rests needs that accept's receive_seq, issued before the loop ran, is   *)
(* still later than every resting order when the loop is over.             *)
TakerIsLatest ==
  ~Idle => taker.receiveSeq < seq /\ SeqsBelow(book, taker.receiveSeq)

IInv ==
  /\ TypeOK
  /\ BookOK(book)
  /\ SeqsBelow(book, seq)
  /\ TakerIsLatest
  /\ NoSelfTrade

(* Every event carries a number exactly one above the event before it, and *)
(* no number is skipped, across calls (test monotonic_sequence).           *)
GapFree ==
  [][/\ Len(out') = seq' - seq
     /\ \A i \in DOMAIN out' : out'[i].seq = seq + i - 1]_vars
=============================================================================
