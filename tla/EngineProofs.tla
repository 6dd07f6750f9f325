---------------------------- MODULE EngineProofs -----------------------------
(***************************************************************************)
(* The single-connection engine, for any commands, any capacities of the   *)
(* two channels and any number of commands: no event is lost, repeated or  *)
(* reordered, and a stop leaves no command behind.                         *)
(***************************************************************************)
EXTENDS Engine, BookProofs

(* The provers of a leaf that names none, and their time in seconds.        *)
USE SMTT(60), ZenonT(60)

(* What the publisher received, what is in the channel and what drain_one  *)
(* holds, element by element.                                              *)
StreamOK ==
  /\ received \in Seq(Nat) /\ events \in Seq(Events) /\ pending \in Seq(Events)
  /\ Len(received) + Len(events) + Len(pending) = seq - 1
  /\ \A i \in DOMAIN received : received[i] = i
  /\ \A i \in DOMAIN events : events[i].seq = Len(received) + i
  /\ \A i \in DOMAIN pending : pending[i].seq = Len(received) + Len(events) + i

(* The matcher's book is well-formed between commands.                     *)
MatcherOK ==
  /\ BookOK(book) /\ SeqsBelow(book, seq) /\ IsFiniteSet(DOMAIN book.index)
  /\ seq \in Nat \ {0}

(* No command is lost, and the thread exits only on stop.                  *)
CommandsOK ==
  /\ commands \in Seq(Commands)
  /\ pushed \in Nat /\ processed \in Nat /\ pushedAtStop \in Nat
  /\ processed + Len(commands) = pushed
  /\ pushedAtStop <= pushed
  /\ phase \in {"poll", "checkStop", "last", "exited"}
  /\ phase \in {"last", "exited"} => stop
  /\ StopDrains

(* The inductive invariant.                                                *)
EngineIInv == StreamOK /\ MatcherOK /\ CommandsOK

-----------------------------------------------------------------------------
(* The channels, element by element.                                       *)

(* push.                                                                   *)
LEMMA PushElements ==
  ASSUME NEW S, NEW q \in Seq(S), NEW x \in S
  PROVE  /\ Append(q, x) \in Seq(S) /\ Len(Append(q, x)) = Len(q) + 1
         /\ Len(q) \in Nat /\ DOMAIN q = 1 .. Len(q)
         /\ DOMAIN Append(q, x) = 1 .. Len(q) + 1
         /\ Append(q, x)[Len(q) + 1] = x
         /\ \A i \in 1 .. Len(q) : Append(q, x)[i] = q[i]
OBVIOUS

(* pop.                                                                    *)
LEMMA PopElements ==
  ASSUME NEW S, NEW q \in Seq(S), q # << >>
  PROVE  /\ Tail(q) \in Seq(S) /\ Len(Tail(q)) = Len(q) - 1
         /\ Len(q) \in Nat /\ Len(q) > 0 /\ DOMAIN q = 1 .. Len(q)
         /\ DOMAIN Tail(q) = 1 .. Len(q) - 1
         /\ 1 \in DOMAIN q /\ Head(q) = q[1] /\ Head(q) \in S
         /\ \A i \in 1 .. Len(q) - 1 : i + 1 \in DOMAIN q /\ Tail(q)[i] = q[i + 1]
OBVIOUS

(* An event has a number.                                                  *)
LEMMA EventNumber ==
  ASSUME NEW e \in Events
  PROVE  e.seq \in Nat
BY DEF Events

(* StreamOK is EventStreamIntact, element by element.                      *)
LEMMA StreamIsIntact ==
  ASSUME StreamOK, seq \in Nat \ {0}
  PROVE  EventStreamIntact
<1> DEFINE r == Len(received)
           e == Len(events)
           p == Len(pending)
           ne == Numbers(events)
           np == Numbers(pending)
           all == [i \in 1 .. seq - 1 |-> i]
<1>1. /\ received \in Seq(Nat) /\ DOMAIN received = 1 .. r /\ r \in Nat
      /\ DOMAIN events = 1 .. e /\ e \in Nat /\ DOMAIN pending = 1 .. p /\ p \in Nat
      /\ r + e + p = seq - 1
      /\ \A i \in 1 .. r : received[i] = i
      /\ \A i \in 1 .. e : events[i].seq = r + i
      /\ \A i \in 1 .. p : pending[i].seq = r + e + i
  BY DEF StreamOK
<1> HIDE DEF r, e, p
<1>2. /\ ne \in Seq(Nat) /\ Len(ne) = e /\ \A i \in 1 .. e : ne[i] = r + i
  <2>1. ne = [i \in 1 .. e |-> r + i]
    BY <1>1 DEF Numbers
  <2> HIDE DEF ne
  <2>2. ne \in [1 .. e -> Nat]
    BY <1>1, <2>1
  <2>3. ne \in Seq(Nat) /\ Len(ne) = e
    BY <1>1, <2>2
  <2> QED BY <2>1, <2>3, ZenonT(60)
<1>3. /\ np \in Seq(Nat) /\ Len(np) = p /\ \A i \in 1 .. p : np[i] = r + e + i
  <2>1. np = [i \in 1 .. p |-> r + e + i]
    BY <1>1 DEF Numbers
  <2> HIDE DEF np
  <2>2. np \in [1 .. p -> Nat]
    BY <1>1, <2>1
  <2>3. np \in Seq(Nat) /\ Len(np) = p
    BY <1>1, <2>2
  <2> QED BY <2>1, <2>3, ZenonT(60)
<1> HIDE DEF ne, np
<1> DEFINE a == received \o ne
           b == a \o np
<1>4. /\ a \in Seq(Nat) /\ Len(a) = r + e
      /\ \A i \in 1 .. r + e : a[i] = i
  <2>1. Len(received) = r
    BY DEF r
  <2>2. a \in Seq(Nat) /\ Len(a) = r + e
    <3>1. a \in Seq(Nat) /\ Len(a) = Len(received) + Len(ne)
      <4>1. received \in Seq(Nat) /\ ne \in Seq(Nat)
        BY <1>1, <1>2
      <4> QED BY <4>1, Concat
    <3> QED BY <1>2, <2>1, <3>1
  <2>3. ASSUME NEW i \in 1 .. r + e PROVE a[i] = i
    <3>1. a[i] = IF i <= r THEN received[i] ELSE ne[i - r]
      <4>1. i \in 1 .. Len(received) + Len(ne)
        BY <1>2, <2>1
      <4>2. a[i] = IF i <= Len(received) THEN received[i] ELSE ne[i - Len(received)]
        BY <1>1, <1>2, <4>1, Concat
      <4> QED BY <2>1, <4>2
    <3>2. CASE i <= r
      BY <1>1, <3>1, <3>2
    <3>3. CASE ~ (i <= r)
      <4>1. i - r \in 1 .. e /\ r + (i - r) = i
        BY <1>1, <3>3
      <4>2. ne[i - r] = r + (i - r)
        BY <1>2, <4>1
      <4> QED BY <3>1, <3>3, <4>1, <4>2
    <3> QED BY <3>2, <3>3, ZenonT(60)
  <2> QED BY <2>2, <2>3
<1> HIDE DEF a
<1>5. b \in Seq(Nat) /\ Len(b) = seq - 1 /\ \A i \in 1 .. seq - 1 : b[i] = i
  <2>1. b \in Seq(Nat) /\ Len(b) = r + e + p
    <3>1. b \in Seq(Nat) /\ Len(b) = Len(a) + Len(np)
      BY <1>3, <1>4, Concat, ZenonT(60)
    <3> QED BY <1>3, <1>4, <3>1
  <2>2. ASSUME NEW i \in 1 .. seq - 1 PROVE b[i] = i
    <3>1. b[i] = IF i <= r + e THEN a[i] ELSE np[i - (r + e)]
      <4>1. i \in 1 .. Len(a) + Len(np)
        BY <1>1, <1>3, <1>4
      <4>2. b[i] = IF i <= Len(a) THEN a[i] ELSE np[i - Len(a)]
        BY <1>3, <1>4, <4>1, Concat
      <4> QED BY <1>4, <4>2
    <3>2. CASE i <= r + e
      BY <1>1, <1>4, <3>1, <3>2
    <3>3. CASE ~ (i <= r + e)
      <4>1. i - (r + e) \in 1 .. p /\ r + e + (i - (r + e)) = i
        BY <1>1, <3>3
      <4>2. np[i - (r + e)] = r + e + (i - (r + e))
        BY <1>3, <4>1
      <4> QED BY <3>1, <3>3, <4>1, <4>2
    <3> QED BY <3>2, <3>3, ZenonT(60)
  <2> QED BY <1>1, <2>1, <2>2
<1> HIDE DEF b
<1>6. DOMAIN b = 1 .. seq - 1 /\ b = [i \in DOMAIN b |-> b[i]]
  BY <1>5
<1>7. b = all
  BY <1>5, <1>6
<1> QED BY <1>7 DEF EventStreamIntact, a, b, ne, np

-----------------------------------------------------------------------------
(* Every step keeps the invariant.                                         *)

(* Engine::start establishes it.                                           *)
LEMMA EngineInit ==
  Init => EngineIInv
<1> SUFFICES ASSUME Init PROVE EngineIInv
  OBVIOUS
<1>1. MatcherOK
  <2>1. BookOK(book) /\ SeqsBelow(book, seq)
    BY NewBookOK DEF Init
  <2>2. DOMAIN book.index = {}
    BY DEF Init, NewBook, EmptyMap
  <2>3. IsFiniteSet(DOMAIN book.index)
    BY <2>2, FS_EmptySet
  <2> QED BY <2>1, <2>3 DEF Init, MatcherOK
<1>2. StreamOK
  BY DEF Init, StreamOK
<1>3. CommandsOK
  BY DEF Init, CommandsOK, StopDrains
<1> QED BY <1>1, <1>2, <1>3 DEF EngineIInv

(* The gateway pushes a command.                                           *)
LEMMA PushCommandInv ==
  ASSUME EngineIInv, NEW cmd \in Commands, PushCommand(cmd)
  PROVE  EngineIInv'
<1>1. CommandsOK'
  <2>1. /\ commands' \in Seq(Commands) /\ Len(commands') = Len(commands) + 1
        /\ Len(commands) \in Nat
    BY PushElements DEF EngineIInv, CommandsOK, PushCommand
  <2> QED BY <2>1 DEF EngineIInv, CommandsOK, PushCommand, StopDrains
<1> QED BY <1>1 DEF EngineIInv, StreamOK, MatcherOK, PushCommand

(* The publisher pops an event.                                            *)
LEMMA PopEventInv ==
  ASSUME EngineIInv, PopEvent
  PROVE  EngineIInv'
<1> DEFINE h == Head(events)
           t == Tail(events)
<1>1. /\ events' = t /\ received' = Append(received, h.seq) /\ events # << >>
      /\ UNCHANGED <<commands, stop, phase, pending, book, seq, pushed, processed,
                     pushedAtStop>>
  BY DEF PopEvent
<1>2. /\ received \in Seq(Nat) /\ events \in Seq(Events) /\ pending \in Seq(Events)
      /\ Len(pending) \in Nat /\ seq \in Nat
      /\ Len(received) + Len(events) + Len(pending) = seq - 1
      /\ \A i \in DOMAIN received : received[i] = i
      /\ \A i \in DOMAIN events : events[i].seq = Len(received) + i
      /\ \A i \in DOMAIN pending : pending[i].seq = Len(received) + Len(events) + i
  BY DEF EngineIInv, StreamOK, MatcherOK
<1>3. /\ t \in Seq(Events) /\ Len(t) = Len(events) - 1
      /\ Len(events) \in Nat /\ DOMAIN t = 1 .. Len(events) - 1
      /\ h = events[1] /\ 1 \in DOMAIN events /\ h \in Events
      /\ \A i \in 1 .. Len(events) - 1 : i + 1 \in DOMAIN events /\ t[i] = events[i + 1]
  BY <1>1, <1>2, PopElements
<1> HIDE DEF h, t
<1>4. h.seq \in Nat /\ h.seq = Len(received) + 1
  BY <1>2, <1>3, EventNumber, ZenonT(60)
<1> DEFINE x == h.seq
           r == Append(received, x)
<1> HIDE DEF x
<1>5. /\ r \in Seq(Nat) /\ Len(r) = Len(received) + 1 /\ Len(received) \in Nat
      /\ DOMAIN received = 1 .. Len(received) /\ DOMAIN r = 1 .. Len(received) + 1
      /\ r[Len(received) + 1] = x /\ \A i \in 1 .. Len(received) : r[i] = received[i]
  BY <1>2, <1>4, PushElements DEF x
<1> HIDE DEF r
<1>6. events' = t /\ received' = r
  BY <1>1 DEF r, x
<1>7. ASSUME NEW i \in DOMAIN r PROVE r[i] = i
  <2>1. CASE i \in 1 .. Len(received)
    BY <1>2, <1>5, <2>1
  <2>2. CASE i = Len(received) + 1
    BY <1>4, <1>5, <2>2 DEF x
  <2> QED BY <1>5, <2>1, <2>2
<1>8. ASSUME NEW i \in DOMAIN t PROVE t[i].seq = Len(r) + i
  <2>1. i \in 1 .. Len(events) - 1 /\ i \in Nat
    BY <1>3
  <2>2. i + 1 \in DOMAIN events /\ t[i] = events[i + 1]
    BY <1>3, <2>1
  <2>3. events[i + 1].seq = Len(received) + (i + 1)
    BY <1>2, <2>2
  <2> QED BY <1>5, <2>1, <2>2, <2>3
<1>9. Len(r) + Len(t) = Len(received) + Len(events)
  BY <1>3, <1>5
<1>10. /\ Len(r) + Len(t) + Len(pending) = seq - 1
       /\ \A i \in DOMAIN pending : pending[i].seq = Len(r) + Len(t) + i
  BY <1>2, <1>9, ZenonT(60)
<1>11. StreamOK'
  BY <1>1, <1>2, <1>3, <1>5, <1>6, <1>7, <1>8, <1>10 DEF StreamOK
<1> QED BY <1>1, <1>11 DEF EngineIInv, MatcherOK, CommandsOK, StopDrains

(* The thread pops a command and runs the matcher on it: the events get    *)
(* the next numbers.                                                       *)
LEMMA DrainCommandInv ==
  ASSUME EngineIInv, DrainCommand
  PROVE  EngineIInv'
<1> DEFINE cmd == Head(commands)
           call == Process(book, seq, cmd)
<1>1. /\ phase \in {"poll", "last"} /\ pending = << >> /\ commands # << >>
      /\ book' = call.book /\ seq' = call.seq /\ pending' = call.out
      /\ commands' = Tail(commands) /\ processed' = processed + 1
      /\ UNCHANGED <<events, stop, phase, received, pushed, pushedAtStop>>
  BY DEF DrainCommand
<1>2. /\ Tail(commands) \in Seq(Commands) /\ Len(Tail(commands)) = Len(commands) - 1
      /\ Len(commands) \in Nat /\ cmd \in Commands
  BY <1>1, PopElements DEF EngineIInv, CommandsOK
<1>3. cmd \in AllCommands
  BY <1>2, EngineAssumption
<1> HIDE DEF cmd
<1>4. CallResult(call, seq, Live(book, cmd))
  BY <1>3, ProcessOK DEF EngineIInv, MatcherOK
<1> HIDE DEF call
<1>5. /\ call.seq \in Nat /\ seq <= call.seq /\ call.out \in Seq(Events)
      /\ Len(call.out) = call.seq - seq
      /\ \A i \in DOMAIN call.out : call.out[i].seq = seq + i - 1
      /\ BookOK(call.book) /\ SeqsBelow(call.book, call.seq)
      /\ IsFiniteSet(DOMAIN call.book.index)
  BY <1>4 DEF CallResult, EventsFrom
<1>6. seq \in Nat \ {0} /\ StreamOK /\ CommandsOK
  BY DEF EngineIInv, MatcherOK
<1>7. MatcherOK'
  BY <1>1, <1>5, <1>6 DEF MatcherOK
<1>8. StreamOK'
  <2>1. /\ Len(received) \in Nat /\ Len(events) \in Nat
        /\ Len(received) + Len(events) = seq - 1
        /\ received \in Seq(Nat) /\ events \in Seq(Events)
    BY <1>1, <1>6 DEF StreamOK
  <2>2. Len(received) + Len(events) + Len(call.out) = call.seq - 1
    BY <1>5, <1>6, <2>1
  <2>3. ASSUME NEW i \in DOMAIN call.out
        PROVE  call.out[i].seq = Len(received) + Len(events) + i
    <3>1. i \in Nat /\ call.out[i].seq = seq + i - 1
      BY <1>5
    <3> QED BY <1>6, <2>1, <3>1
  <2> QED BY <1>1, <1>5, <1>6, <2>1, <2>2, <2>3 DEF StreamOK
<1>9. CommandsOK'
  BY <1>1, <1>2, <1>6 DEF CommandsOK, StopDrains
<1> QED BY <1>7, <1>8, <1>9 DEF EngineIInv

(* The thread pushes an event.                                             *)
LEMMA EmitInv ==
  ASSUME EngineIInv, Emit
  PROVE  EngineIInv'
<1> DEFINE h == Head(pending)
           t == Tail(pending)
           n == Append(events, h)
<1>1. /\ events' = n /\ pending' = t /\ pending # << >>
      /\ UNCHANGED <<commands, stop, phase, book, seq, received, pushed, processed,
                     pushedAtStop>>
  BY DEF Emit
<1>2. /\ received \in Seq(Nat) /\ events \in Seq(Events) /\ pending \in Seq(Events)
      /\ Len(received) \in Nat /\ seq \in Nat
      /\ Len(received) + Len(events) + Len(pending) = seq - 1
      /\ \A i \in DOMAIN received : received[i] = i
      /\ \A i \in DOMAIN events : events[i].seq = Len(received) + i
      /\ \A i \in DOMAIN pending : pending[i].seq = Len(received) + Len(events) + i
  BY DEF EngineIInv, StreamOK, MatcherOK
<1>3. /\ t \in Seq(Events) /\ Len(t) = Len(pending) - 1
      /\ Len(pending) \in Nat /\ DOMAIN t = 1 .. Len(pending) - 1
      /\ h = pending[1] /\ 1 \in DOMAIN pending /\ h \in Events
      /\ \A i \in 1 .. Len(pending) - 1 : i + 1 \in DOMAIN pending /\ t[i] = pending[i + 1]
  BY <1>1, <1>2, PopElements
<1> HIDE DEF h, t
<1>4. /\ n \in Seq(Events) /\ Len(n) = Len(events) + 1 /\ Len(events) \in Nat
      /\ DOMAIN events = 1 .. Len(events) /\ DOMAIN n = 1 .. Len(events) + 1
      /\ n[Len(events) + 1] = h /\ \A i \in 1 .. Len(events) : n[i] = events[i]
  BY <1>2, <1>3, PushElements
<1> HIDE DEF n
<1>5. ASSUME NEW i \in DOMAIN n PROVE n[i].seq = Len(received) + i
  <2>1. CASE i \in 1 .. Len(events)
    BY <1>2, <1>4, <2>1
  <2>2. CASE i = Len(events) + 1
    <3>1. h.seq = Len(received) + Len(events) + 1
      BY <1>2, <1>3, ZenonT(60)
    <3> QED BY <1>2, <1>4, <2>2, <3>1
  <2> QED BY <1>4, <2>1, <2>2
<1>6. ASSUME NEW i \in DOMAIN t PROVE t[i].seq = Len(received) + Len(n) + i
  <2>1. i \in 1 .. Len(pending) - 1 /\ i \in Nat
    BY <1>3
  <2>2. i + 1 \in DOMAIN pending /\ t[i] = pending[i + 1]
    BY <1>3, <2>1
  <2>3. pending[i + 1].seq = Len(received) + Len(events) + (i + 1)
    BY <1>2, <2>2
  <2> QED BY <1>2, <1>4, <2>1, <2>2, <2>3
<1>7. Len(received) + Len(n) + Len(t) = seq - 1
  BY <1>2, <1>3, <1>4
<1>8. StreamOK'
  BY <1>1, <1>2, <1>3, <1>4, <1>5, <1>6, <1>7 DEF StreamOK
<1> QED BY <1>1, <1>8 DEF EngineIInv, MatcherOK, CommandsOK, StopDrains

(* The owner's steps and the thread's steps that move no message.          *)
LEMMA ControlInv ==
  ASSUME EngineIInv, Split \/ RequestStop \/ DrainNothing \/ CheckStop
  PROVE  EngineIInv'
<1>1. UNCHANGED <<commands, events, pending, book, seq, received, pushed, processed>>
  BY DEF Split, RequestStop, DrainNothing, CheckStop
<1>2. StreamOK' /\ MatcherOK'
  BY <1>1 DEF EngineIInv, StreamOK, MatcherOK
<1>3. CommandsOK'
  <2>1. CASE Split
    BY <1>1, <2>1 DEF EngineIInv, CommandsOK, StopDrains, Split
  <2>2. CASE RequestStop
    BY <1>1, <2>2 DEF EngineIInv, CommandsOK, StopDrains, RequestStop
  <2>3. CASE DrainNothing
    <3>1. Len(commands) = 0
      BY <2>3 DEF DrainNothing
    <3> QED BY <1>1, <2>3, <3>1 DEF EngineIInv, CommandsOK, StopDrains, DrainNothing
  <2>4. CASE CheckStop
    BY <1>1, <2>4 DEF EngineIInv, CommandsOK, StopDrains, CheckStop
  <2> QED BY <2>1, <2>2, <2>3, <2>4
<1> QED BY <1>2, <1>3 DEF EngineIInv

(* Every step keeps the invariant.                                         *)
LEMMA EngineNext ==
  EngineIInv /\ [Next]_vars => EngineIInv'
<1> SUFFICES ASSUME EngineIInv, [Next]_vars PROVE EngineIInv'
  OBVIOUS
<1>1. CASE UNCHANGED vars
  BY <1>1 DEF vars, EngineIInv, StreamOK, MatcherOK, CommandsOK, StopDrains
<1>2. CASE Next
  BY <1>2, PushCommandInv, PopEventInv, DrainCommandInv, EmitInv, ControlInv
     DEF Next, MatcherThread
<1> QED BY <1>1, <1>2

(* The inductive invariant holds in every state of the engine: among other *)
(* things its book is well-formed between any two commands.                *)
THEOREM EngineInvariant ==
  Spec => []EngineIInv
BY EngineInit, EngineNext, PTL DEF Spec

(* Backpressure loses, repeats and reorders no event, whatever the         *)
(* capacities: drain_one spins on a full channel instead of dropping.      *)
THEOREM EngineStreamIntact ==
  Spec => []EventStreamIntact
<1>1. EngineIInv => EventStreamIntact
  BY StreamIsIntact DEF EngineIInv, MatcherOK
<1> QED BY <1>1, EngineInvariant, PTL

(* A command pushed before stop was requested is processed before the      *)
(* thread exits: the drain pass after the flag is seen leaves none behind. *)
THEOREM EngineStopDrains ==
  Spec => []StopDrains
<1>1. EngineIInv => StopDrains
  BY DEF EngineIInv, CommandsOK
<1> QED BY <1>1, EngineInvariant, PTL
=============================================================================
