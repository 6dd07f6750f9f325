---------------------------- MODULE BoundedQueue -----------------------------
(***************************************************************************)
(* What a single-producer single-consumer channel promises: a first-in     *)
(* first-out queue with a capacity. A push fails only when the queue is    *)
(* full, a pop only when it is empty, unless failures may be spurious (the *)
(* other side's last operation is not yet visible). The values pushed are  *)
(* 1, 2, 3, ...; when both halves are gone, what was left in the queue is  *)
(* dropped.                                                                *)
(***************************************************************************)
EXTENDS Naturals, Sequences

CONSTANTS Capacity, MaxItems

VARIABLES
  queue,       \* values in the queue
  delivered,   \* values popped so far
  dropped,     \* values destroyed with the queue
  pushResult,  \* result of the last try_push and of the last try_pop
  popResult,
  halves,      \* which halves exist
  spurious     \* whether a push or a pop may fail without cause

queueVars == <<queue, delivered, dropped, pushResult, popResult, halves,
              spurious>>

BQInit ==
  /\ queue = << >>
  /\ delivered = << >>
  /\ dropped = << >>
  /\ pushResult = "none"
  /\ popResult = "none"
  /\ halves = {"producer", "consumer"}
  /\ spurious \in BOOLEAN

BQPush ==
  /\ "producer" \in halves
  /\ Len(queue) < Capacity
  /\ queue' = Append(queue, Len(delivered) + Len(queue) + 1)
  /\ pushResult' = "ok"
  /\ UNCHANGED <<delivered, dropped, popResult, halves>>

BQPushFull ==
  /\ "producer" \in halves
  /\ Len(queue) = Capacity \/ spurious
  /\ pushResult' = "full"
  /\ UNCHANGED <<queue, delivered, dropped, popResult, halves>>

BQPop ==
  /\ "consumer" \in halves
  /\ queue # << >>
  /\ delivered' = Append(delivered, Head(queue))
  /\ queue' = Tail(queue)
  /\ popResult' = "some"
  /\ UNCHANGED <<dropped, pushResult, halves>>

BQPopEmpty ==
  /\ "consumer" \in halves
  /\ queue = << >> \/ spurious
  /\ popResult' = "none"
  /\ UNCHANGED <<queue, delivered, dropped, pushResult, halves>>

BQDrop(half) ==
  /\ half \in halves
  /\ halves' = halves \ {half}
  /\ IF halves' = {} THEN dropped' = queue /\ queue' = << >>
                     ELSE UNCHANGED <<queue, dropped>>
  /\ UNCHANGED <<delivered, pushResult, popResult>>

BQNext ==
  /\ \/ BQPush \/ BQPushFull \/ BQPop \/ BQPopEmpty
     \/ \E half \in {"producer", "consumer"} : BQDrop(half)
  /\ UNCHANGED spurious

BQSpec == BQInit /\ [][BQNext]_queueVars
=============================================================================
