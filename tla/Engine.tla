------------------------------- MODULE Engine --------------------------------
(***************************************************************************)
(* The single-connection engine of engine.rs: a gateway pushes commands    *)
(* into one channel, the matcher thread processes them and pushes the      *)
(* events into another, a publisher pops the events, and an owner stops    *)
(* the thread. The two channels are the bounded queues that module Spsc    *)
(* implements.                                                             *)
(***************************************************************************)
EXTENDS Matching

CONSTANTS
  Commands,         \* commands the gateway may push
  CommandCapacity,  \* capacities of the two channels
  EventCapacity,
  MaxCommands       \* bound: commands pushed

ASSUME EngineAssumption ==
  /\ Commands \subseteq AllCommands
  /\ CommandCapacity \in Nat \ {0}
  /\ EventCapacity \in Nat \ {0}
  /\ MaxCommands \in Nat

VARIABLES
  commands, events,   \* the two channels
  stop,               \* stop_flag
  phase,              \* where matcher_loop is: "poll", "checkStop", "last"
                      \* (the drain pass after stop), "exited"
  pending,            \* events of the command in hand not yet pushed
  book, seq,          \* the matcher
  split,              \* Engine::split was called
  received,           \* sequence numbers the publisher popped
  pushed, processed,  \* commands pushed, commands taken by the matcher
  pushedAtStop        \* commands pushed when stop was requested

vars == <<commands, events, stop, phase, pending, book, seq, split, received,
          pushed, processed, pushedAtStop>>

Init ==
  /\ commands = << >> /\ events = << >>
  /\ stop = FALSE
  /\ phase = "poll"
  /\ pending = << >>
  /\ book = NewBook /\ seq = 1
  /\ split = FALSE
  /\ received = << >>
  /\ pushed = 0 /\ processed = 0 /\ pushedAtStop = 0

(* stop(self) and drop consume the engine with both channel halves; after  *)
(* split they are owned by others, who go on.                              *)
HalvesHeld == ~stop \/ split

-----------------------------------------------------------------------------
(* The gateway, the publisher and the owner.                               *)

PushCommand(cmd) ==
  /\ HalvesHeld
  /\ pushed < MaxCommands
  /\ Len(commands) < CommandCapacity
  /\ commands' = Append(commands, cmd)
  /\ pushed' = pushed + 1
  /\ UNCHANGED <<events, stop, phase, pending, book, seq, split, received,
                 processed, pushedAtStop>>

PopEvent ==
  /\ HalvesHeld
  /\ events # << >>
  /\ received' = Append(received, Head(events).seq)
  /\ events' = Tail(events)
  /\ UNCHANGED <<commands, stop, phase, pending, book, seq, split, pushed,
                 processed, pushedAtStop>>

Split ==
  /\ ~stop /\ ~split
  /\ split' = TRUE
  /\ UNCHANGED <<commands, events, stop, phase, pending, book, seq, received,
                 pushed, processed, pushedAtStop>>

(* Engine::stop, EngineHandle::stop and drop: set the flag, then join.     *)
RequestStop ==
  /\ ~stop
  /\ stop' = TRUE
  /\ pushedAtStop' = pushed
  /\ UNCHANGED <<commands, events, phase, pending, book, seq, split, received,
                 pushed, processed>>

-----------------------------------------------------------------------------
(* matcher_loop                                                            *)

(* drain_one pops a command and runs the matcher on it.                    *)
DrainCommand ==
  /\ phase \in {"poll", "last"} /\ pending = << >>
  /\ commands # << >>
  /\ \E call \in {Process(book, seq, Head(commands))} :
       book' = call.book /\ seq' = call.seq /\ pending' = call.out
  /\ commands' = Tail(commands)
  /\ processed' = processed + 1
  /\ UNCHANGED <<events, stop, phase, split, received, pushed, pushedAtStop>>

(* Faulty: an event that finds no room is dropped.                         *)
EmitDropping ==
  /\ pending # << >>
  /\ events' = IF Len(events) < EventCapacity THEN Append(events, Head(pending))
               ELSE events
  /\ pending' = Tail(pending)
  /\ UNCHANGED <<commands, stop, phase, book, seq, split, received, pushed,
                 processed, pushedAtStop>>

(* drain_one pushes one event; it spins while the channel is full.         *)
Emit ==
  /\ pending # << >>
  /\ Len(events) < EventCapacity
  /\ events' = Append(events, Head(pending))
  /\ pending' = Tail(pending)
  /\ UNCHANGED <<commands, stop, phase, book, seq, split, received, pushed,
                 processed, pushedAtStop>>


(* drain_one finds no command.                                             *)
DrainNothing ==
  /\ phase \in {"poll", "last"} /\ pending = << >>
  /\ commands = << >>
  /\ phase' = IF phase = "poll" THEN "checkStop" ELSE "exited"
  /\ UNCHANGED <<commands, events, stop, pending, book, seq, split, received,
                 pushed, processed, pushedAtStop>>

(* Faulty: no drain pass after the flag is seen.                           *)
CheckStopAndExit ==
  /\ phase = "checkStop"
  /\ phase' = IF stop THEN "exited" ELSE "poll"
  /\ UNCHANGED <<commands, events, stop, pending, book, seq, split, received,
                 pushed, processed, pushedAtStop>>

(* Faulty: an empty poll ends the loop.                                    *)
ExitWhenEmpty ==
  /\ phase = "checkStop"
  /\ phase' = "last"
  /\ UNCHANGED <<commands, events, stop, pending, book, seq, split, received,
                 pushed, processed, pushedAtStop>>

CheckStop ==
  /\ phase = "checkStop"
  /\ phase' = IF stop THEN "last" ELSE "poll"
  /\ UNCHANGED <<commands, events, stop, pending, book, seq, split, received,
                 pushed, processed, pushedAtStop>>

MatcherThread == DrainCommand \/ Emit \/ DrainNothing \/ CheckStop

Next ==
  \/ \E cmd \in Commands : PushCommand(cmd)
  \/ PopEvent \/ Split \/ RequestStop
  \/ MatcherThread

Spec == Init /\ [][Next]_vars

(* The matcher thread is scheduled, and whoever holds the event half keeps *)
(* popping.                                                                *)
FairSpec == Spec /\ WF_vars(MatcherThread) /\ WF_vars(PopEvent)

-----------------------------------------------------------------------------
(* Properties                                                              *)

Numbers(evs) == [i \in DOMAIN evs |-> evs[i].seq]

(* Backpressure loses, repeats and reorders nothing: what the publisher    *)
(* received, what is in the channel and what drain_one still holds are     *)
(* together the events 1, 2, 3, ... of the matcher.                        *)
EventStreamIntact ==
  received \o Numbers(events) \o Numbers(pending) = [i \in 1 .. seq - 1 |-> i]

(* The documentation: on stop the matcher "drains anything that raced in". *)
(* A command pushed before the flag was set is processed before the thread *)
(* exits, even if it came in between an empty poll and the load of stop.   *)
StopDrains == phase = "exited" => processed >= pushedAtStop


(* A command in the channel is processed, whatever the backpressure, while *)
(* the engine runs.                                                        *)
CommandsProcessed ==
  \A n \in 1 .. MaxCommands : pushed >= n ~> processed >= n \/ stop

(* The documentation: on stop the matcher "exits returning the final       *)
(* Matcher".                                                               *)
StopReturns == stop ~> phase = "exited"
=============================================================================
