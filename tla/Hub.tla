--------------------------------- MODULE Hub ---------------------------------
(***************************************************************************)
(* The multi-tenant hub of hub.rs: connections push messages into one      *)
(* bounded inbox, the matcher thread pops them, runs the matcher and sends *)
(* every event to the connections it concerns; an owner stops the thread.  *)
(*                                                                         *)
(* The handling of one message is one step: between the pop and the next   *)
(* poll the thread touches only its own state and the sending ends of      *)
(* unbounded channels, and a send never waits.                             *)
(***************************************************************************)
EXTENDS Matching

CONSTANTS
  Conns,          \* connection ids
  Commands,       \* commands a connection may submit
  InboxCapacity,  \* capacity of the inbox
  FreshIds,       \* whether clients reuse an id only after it is done
  MaxSubmits      \* bound: new orders submitted

ASSUME HubAssumption ==
  /\ Commands \subseteq AllCommands
  /\ InboxCapacity \in Nat \ {0}
  /\ FreshIds \in BOOLEAN
  /\ MaxSubmits \in Nat

VARIABLES
  inbox,            \* the ArrayQueue: messages, oldest first
  conn,             \* state of each connection: "new", "open", "gone"
  rxOpen,           \* the connections whose event receiver exists
  sent,             \* events the last command sent to each connection
  stop,             \* stop_flag
  phase, didWork,   \* where matcher_loop is: "pop", "checkStop", "exited"
  routes,           \* the connections that have a sender in routes
  orderOwner,       \* order_owner: id -> connection
  book, seq,        \* the matcher
  submits,          \* new orders submitted so far
  home              \* observer: id -> connection whose order it is

gateways == <<conn, rxOpen, submits>>
thread == <<phase, didWork, routes, orderOwner, book, seq, sent>>
vars == <<inbox, stop, gateways, thread, home>>

Connect(c) == [type |-> "Connect", conn |-> c]
Disconnect(c) == [type |-> "Disconnect", conn |-> c]
Cmd(c, cmd) == [type |-> "Cmd", conn |-> c, cmd |-> cmd]

NothingSent == [c \in Conns |-> << >>]

Init ==
  /\ inbox = << >>
  /\ conn = [c \in Conns |-> "new"]
  /\ rxOpen = {}
  /\ sent = NothingSent
  /\ stop = FALSE
  /\ phase = "pop" /\ didWork = FALSE
  /\ routes = {}
  /\ orderOwner = EmptyMap
  /\ book = NewBook /\ seq = 1
  /\ submits = 0
  /\ home = EmptyMap

(* ArrayQueue::push: fails when the queue is full.                         *)
HasRoom == Len(inbox) < InboxCapacity

-----------------------------------------------------------------------------
(* The gateways and the owner.                                             *)

(* Faulty: a Connect that finds the inbox full is dropped.                 *)
RegisterBestEffort(c) ==
  /\ conn[c] = "new" /\ ~stop
  /\ inbox' = IF HasRoom THEN Append(inbox, Connect(c)) ELSE inbox
  /\ conn' = [conn EXCEPT ![c] = "open"]
  /\ rxOpen' = rxOpen \cup {c}
  /\ UNCHANGED <<stop, submits, thread, home>>

(* register: spins until the Connect is in the inbox.                      *)
Register(c) ==
  /\ conn[c] = "new" /\ ~stop
  /\ HasRoom
  /\ inbox' = Append(inbox, Connect(c))
  /\ conn' = [conn EXCEPT ![c] = "open"]
  /\ rxOpen' = rxOpen \cup {c}
  /\ UNCHANGED <<stop, submits, thread, home>>

(* The ids of the new orders that are on their way or rest.                *)
IdsInUse ==
  DOMAIN book.index
    \cup {m.cmd.order.id : m \in {m \in Range(inbox) :
                                   m.type = "Cmd" /\ m.cmd.type = "New"}}

(* submit: spins until the command is in the inbox. There is no bound on   *)
(* cancels, so a gateway may submit without end.                           *)
Submit(c, cmd) ==
  /\ conn[c] = "open"
  /\ cmd.type = "New" =>
       submits < MaxSubmits /\ (FreshIds => cmd.order.id \notin IdsInUse)
  /\ HasRoom
  /\ inbox' = Append(inbox, Cmd(c, cmd))
  /\ submits' = IF cmd.type = "New" THEN submits + 1 ELSE submits
  /\ UNCHANGED <<stop, conn, rxOpen, thread, home>>

(* Drop for SubmitterInner: the Disconnect is dropped if the inbox is full.*)
DropSubmitter(c) ==
  /\ conn[c] = "open"
  /\ conn' = [conn EXCEPT ![c] = "gone"]
  /\ inbox' = IF HasRoom THEN Append(inbox, Disconnect(c)) ELSE inbox
  /\ UNCHANGED <<stop, rxOpen, submits, thread, home>>

DropReceiver(c) ==
  /\ c \in rxOpen
  /\ rxOpen' = rxOpen \ {c}
  /\ UNCHANGED <<inbox, stop, conn, submits, thread, home>>

(* Hub::stop and drop: set the flag, then join.                            *)
RequestStop ==
  /\ ~stop
  /\ stop' = TRUE
  /\ UNCHANGED <<inbox, gateways, thread, home>>

-----------------------------------------------------------------------------
(* matcher_loop                                                            *)

IsDone(e) == e.type = "Done"

Parties(e) == IF e.type = "Trade" THEN {e.taker, e.maker} ELSE {e.id}

(* Faulty: a trade goes to the taker's connection only.                    *)
TakerTargets(owner, from, e) ==
  LET id == IF e.type = "Trade" THEN e.taker ELSE e.id
  IN  {IF id \in DOMAIN owner THEN owner[id] ELSE from}

(* The connections an event is sent to, as a set: a trade between two      *)
(* orders of one connection goes there once.                               *)
Targets(owner, from, e) ==
  {IF id \in DOMAIN owner THEN owner[id] ELSE from : id \in Parties(e)}

(* Faulty: owners are never forgotten.                                     *)
DispatchKeepingOwner(d, e) ==
  LET to == Targets(d.owner, d.from, e) \cap routes \cap rxOpen
  IN  [d EXCEPT
        !.sent = [c \in Conns |-> IF c \in to THEN Append(@[c], e) ELSE @[c]]]

(* Sends one event and forgets the owner of an order that is done.         *)
Dispatch(d, e) ==
  LET to == Targets(d.owner, d.from, e) \cap routes \cap rxOpen
  IN  [d EXCEPT
        !.sent = [c \in Conns |-> IF c \in to THEN Append(@[c], e) ELSE @[c]],
        !.owner = IF IsDone(e) THEN Without(@, e.id) ELSE @]

(* order_owner.insert comes before accept decides on the order.            *)
OwnerBefore(from, cmd) ==
  IF cmd.type = "New" THEN Insert(orderOwner, cmd.order.id, from) ELSE orderOwner

(* Whose order an id is, as far as events of this command go: the resting  *)
(* orders belong to those who submitted them, and an order that is         *)
(* accepted to the sender.                                                 *)
HomeDuring(from, cmd, events) ==
  LET resting == Restrict(home, DOMAIN book.index)
  IN  IF cmd.type = "New" /\ events[1].type = "Accepted"
      THEN Insert(resting, cmd.order.id, from) ELSE resting

(* All events dispatched in their order, as a singleton.                   *)
Dispatched(d, events) ==
  LET After[n \in Nat] == IF n = 0 THEN {d}
                          ELSE {Dispatch(x, events[n]) : x \in After[n - 1]}
  IN  After[Len(events)]

HandleCmd(from, cmd) ==
  \E call \in {Process(book, seq, cmd)} :
  \E d \in Dispatched([from |-> from, owner |-> OwnerBefore(from, cmd),
                      sent |-> NothingSent], call.out) :
    /\ book' = call.book
    /\ seq' = call.seq
    /\ orderOwner' = d.owner
    /\ sent' = d.sent
    /\ home' = HomeDuring(from, cmd, call.out)
    /\ UNCHANGED routes

Pop(m) ==
  /\ phase = "pop" /\ inbox # << >> /\ m = Head(inbox)
  /\ inbox' = Tail(inbox)
  /\ didWork' = TRUE
  /\ UNCHANGED <<stop, gateways, phase>>

HandleConnect ==
  \E c \in Conns :
    /\ Pop(Connect(c))
    /\ routes' = routes \cup {c}
    /\ UNCHANGED <<orderOwner, book, seq, sent, home>>

HandleDisconnect ==
  \E c \in Conns :
    /\ Pop(Disconnect(c))
    /\ routes' = routes \ {c}
    /\ UNCHANGED <<orderOwner, book, seq, sent, home>>

HandleCommand ==
  \E c \in Conns, cmd \in Commands : Pop(Cmd(c, cmd)) /\ HandleCmd(c, cmd)

(* Faulty: did_work is not reset by the next pass.                         *)
PopNothingKeepingDidWork ==
  /\ phase = "pop" /\ inbox = << >>
  /\ phase' = IF didWork THEN "pop" ELSE "checkStop"
  /\ UNCHANGED <<inbox, stop, gateways, didWork, routes, orderOwner, book, seq,
                 sent, home>>

(* The inbox is empty. After a pass with work the thread polls again;      *)
(* after one without it looks at the stop flag.                            *)
PopNothing ==
  /\ phase = "pop" /\ inbox = << >>
  /\ phase' = IF didWork THEN "pop" ELSE "checkStop"
  /\ didWork' = FALSE
  /\ UNCHANGED <<inbox, stop, gateways, routes, orderOwner, book, seq, sent,
                 home>>

(* Faulty: a pass without work ends the loop.                              *)
ExitWhenEmpty ==
  /\ phase = "checkStop"
  /\ phase' = "exited"
  /\ UNCHANGED <<inbox, stop, gateways, didWork, routes, orderOwner, book, seq,
                 sent, home>>

CheckStop ==
  /\ phase = "checkStop"
  /\ phase' = IF stop THEN "exited" ELSE "pop"
  /\ UNCHANGED <<inbox, stop, gateways, didWork, routes, orderOwner, book, seq,
                 sent, home>>

MatcherThread ==
  HandleConnect \/ HandleDisconnect \/ HandleCommand \/ PopNothing \/ CheckStop

Next ==
  \/ \E c \in Conns : \/ Register(c) \/ DropSubmitter(c) \/ DropReceiver(c)
                      \/ \E cmd \in Commands : Submit(c, cmd)
  \/ RequestStop
  \/ MatcherThread

Spec == Init /\ [][Next]_vars

(* The matcher thread is scheduled: it is an OS thread that never waits.   *)
FairSpec == Spec /\ WF_vars(MatcherThread)

-----------------------------------------------------------------------------
(* Properties                                                              *)

Messages == [type : {"Connect", "Disconnect"}, conn : Conns]
            \cup [type : {"Cmd"}, conn : Conns, cmd : Commands]

(* The connections an event concerns: those whose orders are its parties,  *)
(* and for a rejection the sender.                                         *)
Concerned(from, owners, e) ==
  IF IsDone(e) /\ e.reason = "Rejected" THEN {from}
  ELSE {owners[id] : id \in Parties(e)}

(* The events that concern a connection, in the matcher's order.           *)
EventsFor(c, from, owners, events) ==
  LET For[n \in 0 .. Len(events)] ==
        IF n = 0 THEN << >>
        ELSE IF c \in Concerned(from, owners, events[n])
             THEN Append(For[n - 1], events[n]) ELSE For[n - 1]
  IN  For[Len(events)]

HandlingCommand ==
  /\ phase = "pop" /\ inbox # << >> /\ inbox' = Tail(inbox)
  /\ Head(inbox).type = "Cmd"

(* Events route home ("Track which conn owns which order id, so cancel     *)
(* events route home", "Trade goes to both sides. Dedupe if the same       *)
(* connection owns both"): each connected tenant receives exactly the      *)
(* events that concern its orders, each once and in the matcher's order,   *)
(* and no event of another tenant's orders.                                *)
RoutedHome ==
  [][HandlingCommand =>
       LET from   == Head(inbox).conn
           cmd    == Head(inbox).cmd
           events == Process(book, seq, cmd).out
           owners == HomeDuring(from, cmd, events)
       IN  \A c \in Conns :
             sent'[c] = IF c \in routes \cap rxOpen
                        THEN EventsFor(c, from, owners, events) ELSE << >>]_vars

(* order_owner knows every resting order, under the connection that        *)
(* submitted it, and nothing else: it neither forgets nor leaks.           *)
OwnersExact ==
  /\ DOMAIN orderOwner = DOMAIN book.index
  /\ \A id \in DOMAIN orderOwner : orderOwner[id] = home[id]

(* register queues the Connect before it hands out the submitter, so a     *)
(* command is never handled for a connection without a sender.             *)
CommandsAreRouted ==
  phase = "pop" /\ inbox # << >> /\ Head(inbox).type = "Cmd"
    => Head(inbox).conn \in routes

(* Why: a submitter exists after its Connect was queued and until its      *)
(* Disconnect is, so in the inbox a command stands behind the Connect, if  *)
(* that was not handled yet, and before any Disconnect. Inductive.         *)
RoutingIInv ==
  /\ inbox \in Seq(Messages)
  /\ conn \in [Conns -> {"new", "open", "gone"}]
  /\ \A i \in DOMAIN inbox :
       inbox[i].type = "Disconnect" => conn[inbox[i].conn] = "gone"
  /\ \A c \in Conns : conn[c] = "open" =>
       c \in routes \/ \E i \in DOMAIN inbox : inbox[i] = Connect(c)
  /\ \A i \in DOMAIN inbox : inbox[i].type = "Cmd" =>
       /\ \/ inbox[i].conn \in routes
          \/ \E j \in 1 .. i - 1 : inbox[j] = Connect(inbox[i].conn)
       /\ \A j \in 1 .. i - 1 : inbox[j] # Disconnect(inbox[i].conn)

(* Some gateway submits again and again, without end.                      *)
SubmittingForever ==
  []<><<\E c \in Conns, cmd \in Commands : Submit(c, cmd)>>_vars

(* Hub::stop returns unless a gateway submits for ever: matcher_loop reads *)
(* the flag only after a pass without work, so it needs them to pause.     *)
StopReturns == SubmittingForever \/ (stop ~> phase = "exited")

(* matcher_loop handles every message in the inbox as long as nobody stops *)
(* it: only messages that never cease keep the inbox from running empty.   *)
InboxDrains == SubmittingForever \/ (inbox # << >> ~> inbox = << >> \/ stop)
=============================================================================
