-------------------------------- MODULE Ledger --------------------------------
(***************************************************************************)
(* What a reader of the event stream can reconstruct. The observer keeps   *)
(* the open quantity of every order, driven by the emitted events alone    *)
(* (the state machine of the matcher's test lifecycle_consistent), and is  *)
(* compared with the book.                                                 *)
(***************************************************************************)
EXTENDS Calls

VARIABLE open   \* observer: open quantity of every id with an open lifecycle

ledgerVars == <<callVars, open>>

Sub(f, id, qty) == [f EXCEPT ![id] = @ - qty]

(* Accepted opens an id, Trade reduces both sides, Done closes the id; a   *)
(* Rejected order was never opened.                                        *)
Observe(f, e) ==
  CASE e.type = "Accepted" -> Insert(f, e.id, e.qty)
    [] e.type = "Trade" -> Sub(Sub(f, e.taker, e.qty), e.maker, e.qty)
    [] e.type = "Done" -> IF e.reason = "Rejected" THEN f ELSE Without(f, e.id)

(* A step emits at most two events.                                        *)
ObserveAll(f, evs) ==
  CASE evs = << >>   -> f
    [] Len(evs) = 1  -> Observe(f, evs[1])
    [] Len(evs) > 1  -> Observe(Observe(f, evs[1]), evs[2])

(* What the event says must be possible for the open quantities so far.    *)
Legal(f, e) ==
  CASE e.type = "Accepted" -> e.id \notin DOMAIN f
    [] e.type = "Trade" -> /\ {e.taker, e.maker} \subseteq DOMAIN f
                           /\ e.taker # e.maker
                           /\ e.qty > 0
                           /\ e.qty <= f[e.taker]
                           /\ e.qty <= f[e.maker]
    [] e.type = "Done" -> e.reason # "Rejected" =>
                            /\ e.id \in DOMAIN f
                            /\ e.leaves = f[e.id]

LedgerInit == CallsInit /\ open = EmptyMap

LedgerNext == CallsNext /\ open' = ObserveAll(open, out')

LedgerSpec == LedgerInit /\ [][LedgerNext]_ledgerVars

-----------------------------------------------------------------------------
(* The ids with an open lifecycle are exactly those resting plus the taker *)
(* of the call in progress, and the open quantity the events add up to is  *)
(* the quantity the order still has: nothing is over- or under-filled,     *)
(* lost or created between the book and the event stream.                  *)
LedgerAgrees ==
  /\ DOMAIN open = DOMAIN book.index \cup (IF Idle THEN {} ELSE {taker.order.id})
  /\ ~Idle => open[taker.order.id] = taker.remaining
  /\ \A s \in Sides : \A p \in DOMAIN book.levels[s] :
       \A i \in DOMAIN book.levels[s][p] :
         open[book.levels[s][p][i].id] = book.levels[s][p][i].qty

(* Every emitted event is legal where it stands in the stream: no order is *)
(* accepted twice, no trade without two open orders with enough quantity,  *)
(* and leaves_qty of a Done is what the events before it left open.        *)
LifecycleConsistent ==
  [][/\ Len(out') >= 1 => Legal(open, out'[1])
     /\ Len(out') >= 2 => Legal(Observe(open, out'[1]), out'[2])]_ledgerVars
=============================================================================
