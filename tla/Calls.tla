-------------------------------- MODULE Calls --------------------------------
(***************************************************************************)
(* The whole call AcceptCall, which the engine, the hub and the recovery   *)
(* use as one step, against the step-by-step accept of module Matcher.     *)
(***************************************************************************)
EXTENDS Matcher

VARIABLES
  start,   \* observer: book and seq when the call in progress began
  buffer   \* observer: the events the call has appended so far

callVars == <<book, seq, taker, out, start, buffer>>

NoCall == [book |-> NewBook, seq |-> 0]

CallsInit == Init /\ start = NoCall /\ buffer = << >>

CallsNext ==
  /\ Next
  /\ start' = CASE taker' = NoTaker -> NoCall
                [] Idle /\ taker' # NoTaker -> [book |-> book, seq |-> seq]
                [] OTHER -> start
  /\ buffer' = IF taker' = NoTaker THEN << >> ELSE buffer \o out'

(* accept is deterministic and its steps add up: the call as one operator  *)
(* ends in the book, the next number and the events that the steps of the  *)
(* receive, the loop and the end produce, however many makers it takes.    *)
CallsAgree ==
  [][~Idle /\ taker' = NoTaker =>
       LET call == AcceptCall(start.book, start.seq, taker.order)
       IN  /\ call.book = book'
           /\ call.seq = seq'
           /\ call.out = buffer \o out']_callVars
=============================================================================
