-------------------------- MODULE MatcherRefinement --------------------------
(***************************************************************************)
(* The matcher over levels, deques and an index implements price-time      *)
(* priority over a set of resting orders.                                  *)
(***************************************************************************)
EXTENDS Matcher

(* iter_resting as a set: every order of every level.                      *)
RestingOrders(b) ==
  UNION {UNION {{[id |-> o.id, side |-> s, price |-> p, qty |-> o.qty,
                  seq |-> o.seq] : o \in Range(b.levels[s][p])}
                : p \in DOMAIN b.levels[s]} : s \in Sides}

Promise == INSTANCE PriceTime WITH resting <- RestingOrders(book)

(* Every step of accept and cancel is a step of price-time priority: the   *)
(* maker is the best-priced, oldest marketable order whatever the history  *)
(* of the levels; rejections (duplicate id, post-only, and the saturating, *)
(* early-returning scan of fillable_qty_at) are decided exactly as on the  *)
(* plain set; cancel removes exactly the named order.                      *)
ImplementsPriceTime == Promise!PTSpec
=============================================================================
