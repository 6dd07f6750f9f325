------------------------------ MODULE MCMatcher ------------------------------
(* Matcher, its refinement of PriceTime, its whole calls and the ledger of *)
(* its events, on a small instance.                                        *)
EXTENDS MatcherRefinement, Ledger, TLC

Symmetry == Permutations(OrderIds)
=============================================================================
