------------------------------ MODULE Snapshot -------------------------------
(***************************************************************************)
(* The snapshot file of snapshot.rs: what write puts into it and what read *)
(* makes of it. The bytes are left out; the order of the records and the   *)
(* rebuilding of the book through add are kept.                            *)
(***************************************************************************)
EXTENDS Matching

(* iter_resting: bids, then asks, prices ascending, oldest first.          *)
IterSide(b, side) ==
  LET RestingAt(price) ==
        [i \in DOMAIN b.levels[side][price] |->
           [id |-> b.levels[side][price][i].id, side |-> side, price |-> price,
            qty |-> b.levels[side][price][i].qty, seq |-> b.levels[side][price][i].seq]]
  IN  MapThenFoldSet(LAMBDA level, before : before \o level, << >>,
                     RestingAt, Max, DOMAIN b.levels[side])

IterResting(b) == IterSide(b, "Buy") \o IterSide(b, "Sell")

SnapshotOf(b, matcherSeq, walSeq) ==
  [orders |-> IterResting(b), matcherSeq |-> matcherSeq, walSeq |-> walSeq]

(* read: every order is added; one the book refuses is InvalidOrder.       *)
AddResting(b, o) == Add(b, o.id, o.side, o.price, o.qty, o.seq)

Rebuild(b, orders) ==
  LET After[n \in Nat] == IF n = 0 THEN b ELSE AddResting(After[n - 1], orders[n])
  IN  After[Len(orders)]

SnapshotBook(s) == Rebuild(NewBook, s.orders)

(* SequenceGenerator::starting_at                                          *)
StartingAt(n) == IF n = 0 THEN 1 ELSE n
=============================================================================
