------------------------------ MODULE HubProofs ------------------------------
(***************************************************************************)
(* The hub, for any set of connections, any commands and any capacity of   *)
(* the inbox: commands are routed, order_owner is exact, and every event   *)
(* goes to the connections it concerns.                                    *)
(***************************************************************************)
EXTENDS Hub, BookProofs

(* The provers of a leaf that names none, and their time in seconds.        *)
USE SMTT(60), ZenonT(60)

(* The messages of the inbox have their types.                             *)
LEMMA MessageKinds ==
  ASSUME NEW c \in Conns
  PROVE  /\ Connect(c) \in Messages /\ Disconnect(c) \in Messages
         /\ \A cmd \in Commands : Cmd(c, cmd) \in Messages
         /\ \A m \in Messages : m.conn \in Conns
BY DEF Messages, Connect, Disconnect, Cmd

(* push and pop of the inbox, element by element.                          *)
LEMMA PushAppends ==
  ASSUME inbox \in Seq(Messages), NEW m \in Messages, inbox' = Append(inbox, m)
  PROVE  /\ inbox' \in Seq(Messages)
         /\ DOMAIN inbox = 1 .. Len(inbox) /\ Len(inbox) \in Nat
         /\ DOMAIN inbox' = 1 .. Len(inbox) + 1
         /\ \A i \in 1 .. Len(inbox) : inbox'[i] = inbox[i]
         /\ inbox'[Len(inbox) + 1] = m
OBVIOUS

(* pop: what stood second is the front.                                    *)
LEMMA PopShifts ==
  ASSUME inbox \in Seq(Messages), inbox # << >>, inbox' = Tail(inbox)
  PROVE  /\ inbox' \in Seq(Messages)
         /\ DOMAIN inbox = 1 .. Len(inbox) /\ Len(inbox) \in Nat \ {0}
         /\ DOMAIN inbox' = 1 .. Len(inbox) - 1
         /\ \A i \in 1 .. Len(inbox) - 1 : inbox'[i] = inbox[i + 1]
         /\ Head(inbox) = inbox[1]
OBVIOUS

-----------------------------------------------------------------------------
(* The dispatch loop as a recursive function.                              *)

(* One more event dispatched.                                              *)
DispatchedOne(ds, e) == {Dispatch(x, e) : x \in ds}

(* The first n events dispatched.                                          *)
DispatchPrefix(g, n, d, evs) ==
  g[0] = {d} /\ \A i \in 1 .. n : g[i] = DispatchedOne(g[i - 1], evs[i])

(* All of them.                                                            *)
DispatchRun(d, evs) ==
  CHOOSE f : f = [n \in Nat |-> IF n = 0 THEN {d}
                                ELSE {Dispatch(x, evs[n]) : x \in f[n - 1]}]

(* What was dispatched is determined by the events.                        *)
LEMMA DispatchPrefixUnique ==
  ASSUME NEW d, NEW evs, NEW m \in Nat, NEW n \in Nat, NEW g, NEW h,
         DispatchPrefix(g, m, d, evs), DispatchPrefix(h, n, d, evs)
  PROVE  \A i \in Nat : i <= m /\ i <= n => g[i] = h[i]
<1> DEFINE T == {i \in Nat : i <= m /\ i <= n => g[i] = h[i]}
<1>1. 0 \in T
  BY DEF DispatchPrefix
<1>2. ASSUME NEW i \in Nat, i \in T PROVE i + 1 \in T
  <2> SUFFICES ASSUME i + 1 <= m, i + 1 <= n PROVE g[i + 1] = h[i + 1]
    OBVIOUS
  <2>1. g[i] = h[i]
    BY <1>2
  <2>2. i + 1 \in 1 .. m /\ i + 1 \in 1 .. n /\ (i + 1) - 1 = i
    OBVIOUS
  <2>3. /\ g[i + 1] = DispatchedOne(g[i], evs[i + 1])
        /\ h[i + 1] = DispatchedOne(h[i], evs[i + 1])
    BY <2>2 DEF DispatchPrefix
  <2> QED BY <2>1, <2>3
<1> HIDE DEF T
<1>3. Nat \subseteq T
  BY <1>1, <1>2, SetInduction
<1> QED BY <1>3 DEF T

(* Any number of events can be dispatched.                                 *)
LEMMA DispatchPrefixExists ==
  ASSUME NEW d, NEW evs
  PROVE  \A n \in Nat : \E g : DispatchPrefix(g, n, d, evs)
<1> DEFINE T == {n \in Nat : \E g : DispatchPrefix(g, n, d, evs)}
<1>1. 0 \in T
  <2> DEFINE g == [i \in {0} |-> {d}]
  <2>1. DispatchPrefix(g, 0, d, evs)
    BY DEF DispatchPrefix
  <2> QED BY <2>1
<1>2. ASSUME NEW n \in Nat, n \in T PROVE n + 1 \in T
  <2>1. PICK g : DispatchPrefix(g, n, d, evs)
    BY <1>2
  <2> DEFINE h == [i \in 0 .. n + 1 |-> IF i <= n THEN g[i]
                                        ELSE DispatchedOne(g[n], evs[n + 1])]
  <2>2. h[0] = {d}
    BY <2>1 DEF DispatchPrefix
  <2>3. ASSUME NEW i \in 1 .. n + 1 PROVE h[i] = DispatchedOne(h[i - 1], evs[i])
    <3>1. CASE i <= n
      <4>1. i \in 1 .. n /\ i \in 0 .. n + 1 /\ i - 1 \in 0 .. n + 1 /\ i - 1 <= n
        BY <3>1
      <4>2. h[i] = g[i] /\ h[i - 1] = g[i - 1]
        BY <3>1, <4>1
      <4>3. g[i] = DispatchedOne(g[i - 1], evs[i])
        BY <2>1, <4>1 DEF DispatchPrefix
      <4> QED BY <4>2, <4>3
    <3>2. CASE i = n + 1
      <4>1. i - 1 = n /\ n \in 0 .. n + 1 /\ i \in 0 .. n + 1 /\ ~ (i <= n)
        BY <3>2
      <4>2. h[i] = DispatchedOne(g[n], evs[n + 1]) /\ h[n] = g[n]
        BY <4>1
      <4> QED BY <3>2, <4>1, <4>2
    <3> QED BY <3>1, <3>2
  <2> HIDE DEF h
  <2>4. DispatchPrefix(h, n + 1, d, evs)
    BY <2>2, <2>3 DEF DispatchPrefix
  <2> QED BY <2>4
<1> HIDE DEF T
<1>3. Nat \subseteq T
  BY <1>1, <1>2, SetInduction
<1> QED BY <1>3 DEF T

(* The recursive function that the dispatch of a command uses is           *)
(* well-defined.                                                           *)
LEMMA DispatchRunDef ==
  ASSUME NEW d, NEW evs
  PROVE  /\ DispatchRun(d, evs)[0] = {d}
         /\ \A n \in Nat : DispatchRun(d, evs)[n + 1]
                             = DispatchedOne(DispatchRun(d, evs)[n], evs[n + 1])
<1> DEFINE G(n) == CHOOSE g : DispatchPrefix(g, n, d, evs)
           f == [n \in Nat |-> G(n)[n]]
<1>1. \A n \in Nat : DispatchPrefix(G(n), n, d, evs)
  BY DispatchPrefixExists
<1> HIDE DEF G
<1>2. f[0] = {d}
  BY <1>1 DEF DispatchPrefix
<1>3. ASSUME NEW n \in Nat, n # 0 PROVE f[n] = DispatchedOne(f[n - 1], evs[n])
  <2>1. n - 1 \in Nat /\ n - 1 <= n /\ n - 1 <= n - 1 /\ n \in 1 .. n
    BY <1>3
  <2>2. DispatchPrefix(G(n), n, d, evs) /\ DispatchPrefix(G(n - 1), n - 1, d, evs)
    BY <1>1, <2>1
  <2>3. G(n)[n - 1] = G(n - 1)[n - 1]
    <3> DEFINE g == G(n)
               h == G(n - 1)
               m == n - 1
    <3>1. m \in Nat /\ DispatchPrefix(g, n, d, evs) /\ DispatchPrefix(h, m, d, evs)
      BY <2>1, <2>2
    <3> HIDE DEF g, h, m
    <3>2. \A i \in Nat : i <= n /\ i <= m => g[i] = h[i]
      BY <3>1, DispatchPrefixUnique
    <3> QED BY <2>1, <3>2 DEF g, h, m
  <2>4. G(n)[n] = DispatchedOne(G(n)[n - 1], evs[n])
    BY <2>1, <2>2 DEF DispatchPrefix
  <2> QED BY <2>1, <2>3, <2>4
<1>4. f = [n \in Nat |-> IF n = 0 THEN {d} ELSE {Dispatch(x, evs[n]) : x \in f[n - 1]}]
  <2> DEFINE h == [n \in Nat |-> IF n = 0 THEN {d} ELSE DispatchedOne(f[n - 1], evs[n])]
  <2>1. \A n \in Nat : f[n] = h[n]
    <3> HIDE DEF f
    <3> QED BY <1>2, <1>3
  <2>2. f = h
    BY <2>1, ZenonT(60)
  <2> HIDE DEF f
  <2> QED BY <2>2, ZenonT(60) DEF DispatchedOne
<1> HIDE DEF f
<1> DEFINE r == DispatchRun(d, evs)
<1>5. r = [n \in Nat |-> IF n = 0 THEN {d} ELSE {Dispatch(x, evs[n]) : x \in r[n - 1]}]
  BY <1>4, Zenon DEF DispatchRun
<1>6. r = [n \in Nat |-> IF n = 0 THEN {d} ELSE DispatchedOne(r[n - 1], evs[n])]
  BY <1>5, Zenon DEF DispatchedOne
<1> HIDE DEF r
<1>7. r[0] = {d}
  BY <1>6
<1>8. ASSUME NEW n \in Nat PROVE r[n + 1] = DispatchedOne(r[n], evs[n + 1])
  <2>1. n + 1 \in Nat /\ n + 1 # 0 /\ (n + 1) - 1 = n
    OBVIOUS
  <2>2. r[n + 1] = DispatchedOne(r[(n + 1) - 1], evs[n + 1])
    BY <1>6, <2>1
  <2> QED BY <2>1, <2>2
<1> QED BY <1>7, <1>8 DEF r

(* The dispatch of a command's events is that function.                    *)
LEMMA DispatchedRuns ==
  ASSUME NEW d, NEW evs
  PROVE  Dispatched(d, evs) = DispatchRun(d, evs)[Len(evs)]
BY Zenon DEF Dispatched, DispatchRun

-----------------------------------------------------------------------------
(* The dispatch of the events evs of a command that came from the          *)
(* connection from, when owner0 maps the ids of live to their connections. *)

(* The connections whose orders an event is about.                         *)
EventHome(owner0, e) == {owner0[id] : id \in Parties(e)}

(* After k events, the owners of the orders that have not ended are left.  *)
DispatchOK(x, k, from, owner0, live, evs) ==
  /\ DOMAIN x = {"from", "owner", "sent"}
  /\ x.from = from
  /\ x.owner = [id \in live \ Ended(evs, k) |-> owner0[id]]

(* The event e went to the connections it is about, as far as they listen. *)
SentTo(x, y, owner0, e) ==
  \A c \in Conns : y.sent[c] = IF c \in EventHome(owner0, e) \cap routes \cap rxOpen
                               THEN Append(x.sent[c], e) ELSE x.sent[c]

(* Parties and IsDone are what the facts about calls say of an event.      *)
LEMMA EndedNext ==
  ASSUME NEW evs, NEW k \in Nat
  PROVE  Ended(evs, k + 1)
           = Ended(evs, k) \cup (IF IsDone(evs[k + 1]) THEN {evs[k + 1].id} ELSE {})
<1> DEFINE A == {i \in 1 .. k : evs[i].type = "Done"}
           B == {i \in 1 .. k + 1 : evs[i].type = "Done"}
<1>1. B = A \cup (IF evs[k + 1].type = "Done" THEN {k + 1} ELSE {})
  <2>1. 1 .. k + 1 = 1 .. k \cup {k + 1}
    OBVIOUS
  <2> QED BY <2>1
<1> HIDE DEF A, B
<1>2. Ended(evs, k) = {evs[j].id : j \in A} /\ Ended(evs, k + 1) = {evs[j].id : j \in B}
  BY DEF Ended, A, B
<1> QED BY <1>1, <1>2 DEF IsDone

(* One event.                                                              *)
LEMMA DispatchStep ==
  ASSUME NEW n, NEW live, NEW evs, EventsFrom(evs, n, live),
         NEW from, NEW owner0, NEW k \in Nat, k + 1 \in DOMAIN evs,
         NEW x, DispatchOK(x, k, from, owner0, live, evs)
  PROVE  /\ DispatchOK(Dispatch(x, evs[k + 1]), k + 1, from, owner0, live, evs)
         /\ SentTo(x, Dispatch(x, evs[k + 1]), owner0, evs[k + 1])
<1> DEFINE e == evs[k + 1]
           y == Dispatch(x, e)
           D == live \ Ended(evs, k)
           to == Targets(x.owner, x.from, e) \cap routes \cap rxOpen
           snt == [c \in Conns |-> IF c \in to THEN Append(x.sent[c], e) ELSE x.sent[c]]
           own == IF IsDone(e) THEN Without(x.owner, e.id) ELSE x.owner
<1>1. /\ DOMAIN x = {"from", "owner", "sent"} /\ x.from = from
      /\ x.owner = [id \in D |-> owner0[id]]
  BY DEF DispatchOK
<1>2. Parties(e) \subseteq D
  <2>1. Named(e) \subseteq live \ Ended(evs, (k + 1) - 1)
    BY DEF EventsFrom
  <2>2. (k + 1) - 1 = k
    OBVIOUS
  <2> QED BY <2>1, <2>2 DEF Named, Parties
<1>3. y = [x EXCEPT !.sent = snt, !.owner = own]
  BY DEF Dispatch
<1> HIDE DEF e, y, D, snt, own
<1>4. DOMAIN y = {"from", "owner", "sent"} /\ y.from = from /\ y.sent = snt /\ y.owner = own
  BY <1>1, <1>3
<1>5. Targets(x.owner, x.from, e) = EventHome(owner0, e)
  <2>1. \A id \in Parties(e) : id \in DOMAIN x.owner /\ x.owner[id] = owner0[id]
    BY <1>1, <1>2
  <2> QED BY <2>1 DEF Targets, EventHome
<1>6. SentTo(x, y, owner0, e)
  BY <1>4, <1>5 DEF SentTo, snt
<1>7. own = [id \in live \ Ended(evs, k + 1) |-> owner0[id]]
  <2>1. live \ Ended(evs, k + 1) = D \ (IF IsDone(e) THEN {e.id} ELSE {})
    BY EndedNext DEF D, e
  <2>2. CASE IsDone(e)
    <3>1. own = [id \in D \ {e.id} |-> x.owner[id]]
      BY <1>1, <2>2 DEF own, Without, Restrict
    <3>2. own = [id \in D \ {e.id} |-> owner0[id]]
      BY <1>1, <3>1
    <3> QED BY <2>1, <2>2, <3>2
  <2>3. CASE ~IsDone(e)
    BY <1>1, <2>1, <2>3 DEF own
  <2> QED BY <2>2, <2>3
<1> QED BY <1>4, <1>6, <1>7 DEF DispatchOK, y, e

(* The states of the dispatch, one after each event.                       *)
DispatchTrace(X, d, from, owner0, live, evs) ==
  /\ X[0] = d
  /\ \A k \in 0 .. Len(evs) : DispatchOK(X[k], k, from, owner0, live, evs)
  /\ \A k \in 0 .. Len(evs) - 1 : SentTo(X[k], X[k + 1], owner0, evs[k + 1])

(* The dispatch goes through such states and ends in the last one.         *)
HasTrace(d, from, owner0, live, evs) ==
  \E X : /\ DispatchTrace(X, d, from, owner0, live, evs)
         /\ Dispatched(d, evs) = {X[Len(evs)]}

(* That is so for the events of a command.                                 *)
LEMMA DispatchTraces ==
  ASSUME NEW n, NEW live, NEW evs, EventsFrom(evs, n, live), NEW from, NEW owner0,
         NEW d, DispatchOK(d, 0, from, owner0, live, evs)
  PROVE  HasTrace(d, from, owner0, live, evs)
<1> DEFINE r == DispatchRun(d, evs)
           L == Len(evs)
           T == {k \in Nat : k <= L => \E x : /\ r[k] = {x}
                                              /\ DispatchOK(x, k, from, owner0, live, evs)}
           X == [k \in 0 .. L |-> CHOOSE x : r[k] = {x}]
<1>1. r[0] = {d} /\ \A k \in Nat : r[k + 1] = DispatchedOne(r[k], evs[k + 1])
  BY DispatchRunDef
<1>2. Dispatched(d, evs) = r[L]
  BY DispatchedRuns
<1>3. L \in Nat /\ DOMAIN evs = 1 .. L
  BY DEF EventsFrom
<1> HIDE DEF r, L
<1>4. ASSUME NEW k \in Nat, k + 1 <= L, NEW x, r[k] = {x},
             DispatchOK(x, k, from, owner0, live, evs)
      PROVE  /\ r[k + 1] = {Dispatch(x, evs[k + 1])}
             /\ DispatchOK(Dispatch(x, evs[k + 1]), k + 1, from, owner0, live, evs)
             /\ SentTo(x, Dispatch(x, evs[k + 1]), owner0, evs[k + 1])
  <2>1. k + 1 \in DOMAIN evs
    BY <1>3, <1>4
  <2>2. r[k + 1] = {Dispatch(x, evs[k + 1])}
    BY <1>1, <1>4 DEF DispatchedOne
  <2> QED BY <1>4, <2>1, <2>2, DispatchStep
<1>5. Nat \subseteq T
  <2>1. 0 \in T
    BY <1>1
  <2>2. ASSUME NEW k \in Nat, k \in T PROVE k + 1 \in T
    <3> SUFFICES ASSUME k + 1 <= L
                 PROVE  \E x : /\ r[k + 1] = {x}
                               /\ DispatchOK(x, k + 1, from, owner0, live, evs)
      OBVIOUS
    <3>1. k <= L
      BY <1>3
    <3>2. PICK x : r[k] = {x} /\ DispatchOK(x, k, from, owner0, live, evs)
      BY <2>2, <3>1
    <3> QED BY <1>4, <3>2
  <2> HIDE DEF T
  <2> QED BY <2>1, <2>2, SetInduction
<1>6. ASSUME NEW k \in 0 .. L
      PROVE  r[k] = {X[k]} /\ DispatchOK(X[k], k, from, owner0, live, evs)
  <2>1. k \in T /\ k <= L
    <3>1. k \in Nat /\ k <= L
      BY <1>3
    <3> HIDE DEF T
    <3> QED BY <1>5, <3>1
  <2>2. PICK x : r[k] = {x} /\ DispatchOK(x, k, from, owner0, live, evs)
    BY <2>1
  <2>3. r[k] = {X[k]}
    BY <2>2
  <2>4. X[k] = x
    BY <2>2, <2>3
  <2> HIDE DEF X
  <2> QED BY <2>2, <2>4
<1> HIDE DEF X, T
<1>7. X[0] = d
  <2>1. 0 \in 0 .. L
    BY <1>3
  <2>2. r[0] = {X[0]}
    BY <1>6, <2>1
  <2> QED BY <1>1, <2>2
<1>8. ASSUME NEW k \in 0 .. L - 1 PROVE SentTo(X[k], X[k + 1], owner0, evs[k + 1])
  <2>1. k \in Nat /\ k + 1 <= L /\ k \in 0 .. L /\ k + 1 \in 0 .. L
    BY <1>3
  <2>2. r[k] = {X[k]} /\ DispatchOK(X[k], k, from, owner0, live, evs)
    BY <1>6, <2>1
  <2>3. r[k + 1] = {X[k + 1]}
    BY <1>6, <2>1
  <2>4. /\ r[k + 1] = {Dispatch(X[k], evs[k + 1])}
        /\ SentTo(X[k], Dispatch(X[k], evs[k + 1]), owner0, evs[k + 1])
    BY <1>4, <2>1, <2>2
  <2>5. X[k + 1] = Dispatch(X[k], evs[k + 1])
    BY <2>3, <2>4, ZenonT(60)
  <2> QED BY <2>4, <2>5
<1>9. Dispatched(d, evs) = {X[L]}
  BY <1>2, <1>3, <1>6
<1>10. DispatchTrace(X, d, from, owner0, live, evs)
  BY <1>6, <1>7, <1>8 DEF DispatchTrace, L
<1> QED BY <1>9, <1>10 DEF L, HasTrace

(* A connection that is not listening is sent nothing.                     *)
LEMMA SentNothing ==
  ASSUME NEW X, NEW d, NEW from, NEW owner0, NEW live, NEW evs \in Seq(Events),
         DispatchTrace(X, d, from, owner0, live, evs), d.sent = NothingSent,
         NEW c \in Conns, c \notin routes \cap rxOpen
  PROVE  X[Len(evs)].sent[c] = << >>
<1> DEFINE L == Len(evs)
           T == {k \in Nat : k <= L => X[k].sent[c] = << >>}
<1>1. L \in Nat
  OBVIOUS
<1>2. 0 \in T
  BY DEF DispatchTrace, NothingSent
<1>3. ASSUME NEW k \in Nat, k \in T PROVE k + 1 \in T
  <2> SUFFICES ASSUME k + 1 <= L PROVE X[k + 1].sent[c] = << >>
    OBVIOUS
  <2>1. k \in 0 .. L - 1 /\ k <= L
    BY <1>1
  <2>2. SentTo(X[k], X[k + 1], owner0, evs[k + 1])
    BY <2>1 DEF DispatchTrace
  <2> QED BY <1>3, <2>1, <2>2 DEF SentTo
<1>4. Nat \subseteq T
  <2> HIDE DEF T
  <2> QED BY <1>2, <1>3, SetInduction
<1> QED BY <1>1, <1>4

(* The observer's view of whom the events concern is what owner0 says.     *)
HomesKnown(from, owners, owner0, evs) ==
  \A k \in DOMAIN evs : Concerned(from, owners, evs[k]) = EventHome(owner0, evs[k])

(* The recursion of EventsFor.                                             *)
ForStep(f, c, from, owners, evs, k) ==
  IF k = 0 THEN << >>
  ELSE IF c \in Concerned(from, owners, evs[k]) THEN Append(f[k - 1], evs[k]) ELSE f[k - 1]

ForRun(c, from, owners, evs) ==
  CHOOSE f : f = [k \in 0 .. Len(evs) |-> ForStep(f, c, from, owners, evs, k)]

(* EventsFor is the last value of that recursion.                          *)
LEMMA EventsForRuns ==
  ASSUME NEW c, NEW from, NEW owners, NEW evs
  PROVE  EventsFor(c, from, owners, evs) = ForRun(c, from, owners, evs)[Len(evs)]
BY Zenon DEF EventsFor, ForRun, ForStep

(* A listening connection is sent the events that concern it.              *)
LEMMA SentConcerned ==
  ASSUME NEW X, NEW d, NEW from, NEW owner0, NEW owners, NEW live, NEW evs \in Seq(Events),
         DispatchTrace(X, d, from, owner0, live, evs), d.sent = NothingSent,
         HomesKnown(from, owners, owner0, evs),
         NEW c \in Conns, c \in routes \cap rxOpen
  PROVE  X[Len(evs)].sent[c] = EventsFor(c, from, owners, evs)
<1> DEFINE L == Len(evs)
           w == [k \in 0 .. L |-> X[k].sent[c]]
           f == ForRun(c, from, owners, evs)
           T == {k \in Nat : k <= L => f[k] = X[k].sent[c]}
<1>1. L \in Nat /\ DOMAIN evs = 1 .. L
  OBVIOUS
<1>2. X[0].sent[c] = << >>
  BY DEF DispatchTrace, NothingSent
<1>3. ASSUME NEW k \in 1 .. L
      PROVE  X[k].sent[c] = IF c \in Concerned(from, owners, evs[k])
                            THEN Append(X[k - 1].sent[c], evs[k]) ELSE X[k - 1].sent[c]
  <2>1. k - 1 \in 0 .. L - 1 /\ (k - 1) + 1 = k /\ k \in DOMAIN evs
    BY <1>1
  <2>2. SentTo(X[k - 1], X[k], owner0, evs[k])
    <3>1. SentTo(X[k - 1], X[(k - 1) + 1], owner0, evs[(k - 1) + 1])
      BY <2>1 DEF DispatchTrace
    <3> QED BY <2>1, <3>1
  <2>3. Concerned(from, owners, evs[k]) = EventHome(owner0, evs[k])
    BY <2>1 DEF HomesKnown
  <2> QED BY <2>2, <2>3 DEF SentTo
<1> HIDE DEF L
<1>4. w = [k \in 0 .. L |-> ForStep(w, c, from, owners, evs, k)]
  <2> SUFFICES ASSUME NEW k \in 0 .. L PROVE w[k] = ForStep(w, c, from, owners, evs, k)
    BY Zenon
  <2>1. CASE k = 0
    BY <1>2, <2>1 DEF ForStep
  <2>2. CASE k # 0
    <3>1. k \in 1 .. L /\ k - 1 \in 0 .. L
      BY <1>1, <2>2
    <3>2. w[k] = X[k].sent[c] /\ w[k - 1] = X[k - 1].sent[c]
      BY <3>1
    <3> QED BY <1>3, <2>2, <3>1, <3>2 DEF ForStep
  <2> QED BY <2>1, <2>2
<1>5. f = [k \in 0 .. L |-> ForStep(f, c, from, owners, evs, k)]
  <2> HIDE DEF w
  <2> QED BY <1>4, Zenon DEF ForRun, L
<1> HIDE DEF f, w
<1>6. ASSUME NEW k \in 0 .. L PROVE f[k] = ForStep(f, c, from, owners, evs, k)
  BY <1>5, ZenonT(60)
<1>7. Nat \subseteq T
  <2>1. 0 \in T
    BY <1>1, <1>2, <1>6 DEF ForStep
  <2>2. ASSUME NEW k \in Nat, k \in T PROVE k + 1 \in T
    <3> SUFFICES ASSUME k + 1 <= L PROVE f[k + 1] = X[k + 1].sent[c]
      OBVIOUS
    <3>1. k + 1 \in 1 .. L /\ k + 1 \in 0 .. L /\ k + 1 # 0 /\ (k + 1) - 1 = k /\ k <= L
      BY <1>1
    <3>2. f[k] = X[k].sent[c]
      BY <2>2, <3>1
    <3>3. f[k + 1] = ForStep(f, c, from, owners, evs, k + 1)
      BY <1>6, <3>1
    <3>4. f[k + 1] = IF c \in Concerned(from, owners, evs[k + 1])
                     THEN Append(f[k], evs[k + 1]) ELSE f[k]
      BY <3>1, <3>3 DEF ForStep
    <3>5. X[k + 1].sent[c] = IF c \in Concerned(from, owners, evs[k + 1])
                     THEN Append(X[k].sent[c], evs[k + 1]) ELSE X[k].sent[c]
      <4>1. X[k + 1].sent[c] = IF c \in Concerned(from, owners, evs[k + 1])
                     THEN Append(X[(k + 1) - 1].sent[c], evs[k + 1]) ELSE X[(k + 1) - 1].sent[c]
        BY <1>3, <3>1
      <4> QED BY <3>1, <4>1
    <3> QED BY <3>2, <3>4, <3>5
  <2> HIDE DEF T
  <2> QED BY <2>1, <2>2, SetInduction
<1>8. f[L] = X[L].sent[c]
  BY <1>1, <1>7
<1> QED BY <1>8, EventsForRuns DEF f, L

-----------------------------------------------------------------------------
(* order_owner. The clients reuse an id only after it is done.             *)

IsNew(m) == m.type = "Cmd" /\ m.cmd.type = "New"

(* New orders on their way carry ids that do not rest, each its own.       *)
IdsFresh ==
  /\ \A i \in DOMAIN inbox :
       IsNew(inbox[i]) => inbox[i].cmd.order.id \notin DOMAIN book.index
  /\ \A i, j \in DOMAIN inbox :
       i # j /\ IsNew(inbox[i]) /\ IsNew(inbox[j])
         => inbox[i].cmd.order.id # inbox[j].cmd.order.id

HubMatcherOK ==
  /\ BookOK(book) /\ IsFiniteSet(DOMAIN book.index)
  /\ seq \in Nat /\ SeqsBelow(book, seq)

(* Why order_owner is exact: an insert is never for an id that rests, and  *)
(* the matcher's events end exactly the orders that leave the book.        *)
OwnersIInv ==
  /\ inbox \in Seq(Messages)
  /\ IdsFresh
  /\ HubMatcherOK
  /\ orderOwner \in [DOMAIN book.index -> Conns]
  /\ OwnersExact

(* A command with the result r and the owners own during the call: own     *)
(* knows the orders the call is about, its events concern them as own      *)
(* says, and the observer agrees on the ones that are left.                *)
CommandOK(from, cmd, r, own, owners) ==
  /\ CallResult(r, seq, Live(book, cmd))
  /\ Settled(r, Live(book, cmd))
  /\ own \in [Live(book, cmd) -> Conns]
  /\ HomesKnown(from, owners, own, r.out)
  /\ \A id \in Live(book, cmd) \ Ended(r.out, Len(r.out)) : owners[id] = own[id]

(* The events of an order that is accepted concern the owners.             *)
LEMMA HomesOfAccepted ==
  ASSUME NEW n, NEW live, NEW evs, EventsFrom(evs, n, live),
         \A i \in DOMAIN evs : evs[i].type = "Done" => evs[i].reason # "Rejected",
         NEW from, NEW own, NEW owners, \A id \in live : owners[id] = own[id]
  PROVE  HomesKnown(from, owners, own, evs)
<1> SUFFICES ASSUME NEW k \in DOMAIN evs
             PROVE  Concerned(from, owners, evs[k]) = EventHome(own, evs[k])
  BY DEF HomesKnown
<1>1. Named(evs[k]) \subseteq live
  BY DEF EventsFrom
<1>2. Parties(evs[k]) = Named(evs[k])
  BY DEF Parties, Named
<1>3. Concerned(from, owners, evs[k]) = {owners[id] : id \in Parties(evs[k])}
  BY ZenonT(60) DEF Concerned, IsDone
<1> QED BY <1>1, <1>2, <1>3 DEF EventHome

(* accept, for an id that does not rest.                                   *)
LEMMA NewHandled ==
  ASSUME OwnersIInv, NEW c \in Conns, NEW cmd \in Commands, cmd.type = "New",
         cmd.order.id \notin DOMAIN book.index
  PROVE  CommandOK(c, cmd, Process(book, seq, cmd), OwnerBefore(c, cmd),
                   HomeDuring(c, cmd, Process(book, seq, cmd).out))
<1> DEFINE r == Process(book, seq, cmd)
           o == cmd.order
           own == OwnerBefore(c, cmd)
           owners == HomeDuring(c, cmd, r.out)
           D == DOMAIN book.index
           live == D \cup {o.id}
           resting == Restrict(home, D)
<1>1. /\ HubMatcherOK /\ DOMAIN orderOwner = D /\ orderOwner \in [D -> Conns]
      /\ \A id \in D : orderOwner[id] = home[id]
  BY DEF OwnersIInv, OwnersExact
<1>2. o \in NewOrders
  BY HubAssumption DEF AllCommands
<1>3. r = AcceptCall(book, seq, o)
  BY ZenonT(60) DEF Process
<1>4. AcceptResult(r, book, seq, o)
  BY <1>1, <1>2, <1>3, AcceptOK DEF HubMatcherOK
<1>5. Live(book, cmd) = live
  BY ZenonT(60) DEF Live
<1>6. /\ own = [x \in live |-> IF x = o.id THEN c ELSE orderOwner[x]]
      /\ resting = [x \in D |-> home[x]]
      /\ owners = IF r.out[1].type = "Accepted" THEN Insert(resting, o.id, c) ELSE resting
  BY <1>1, ZenonT(60) DEF OwnerBefore, Insert, HomeDuring, Restrict
<1> HIDE DEF r, o, own, owners, resting
<1>7. own \in [live -> Conns]
  BY <1>1, <1>6, ZenonT(60)
<1>8. CallResult(r, seq, live) /\ Settled(r, live)
  BY <1>4 DEF AcceptResult, BookContains, o
<1>9. EventsFrom(r.out, seq, live)
  BY <1>8, ZenonT(60) DEF CallResult
<1>10. CASE AcceptedFirst(r.out)
  <2>1. owners = Insert(resting, o.id, c)
    BY <1>6, <1>10 DEF AcceptedFirst
  <2>2. \A id \in live : owners[id] = own[id]
    BY <1>1, <1>6, <2>1, ZenonT(60) DEF Insert
  <2>3. HomesKnown(c, owners, own, r.out)
    BY <1>9, <1>10, <2>2, HomesOfAccepted DEF AcceptedFirst
  <2> QED BY <1>5, <1>7, <1>8, <2>2, <2>3, ZenonT(60) DEF CommandOK, r, own, owners
<1>11. CASE RejectedOnly(r.out, o, seq)
  <2> DEFINE e == Done(o.id, o.qty, "Rejected", seq)
  <2>1. r.out = <<e>> /\ Len(r.out) = 1 /\ DOMAIN r.out = {1} /\ r.out[1] = e
    BY <1>11 DEF RejectedOnly
  <2>2. e.type = "Done" /\ e.reason = "Rejected" /\ e.id = o.id
    BY DEF Done
  <2> HIDE DEF e
  <2>3. owners = resting
    BY <1>6, <2>1, <2>2
  <2>4. Ended(r.out, Len(r.out)) = {o.id}
    BY <2>1, <2>2 DEF Ended
  <2>5. \A id \in live \ {o.id} : owners[id] = own[id]
    BY <1>1, <1>6, <2>3
  <2>6. HomesKnown(c, owners, own, r.out)
    <3>1. Concerned(c, owners, e) = {c}
      BY <2>2 DEF Concerned, IsDone
    <3>2. EventHome(own, e) = {c}
      BY <1>6, <2>2 DEF EventHome, Parties
    <3> QED BY <2>1, <3>1, <3>2 DEF HomesKnown
  <2> QED BY <1>5, <1>7, <1>8, <2>4, <2>5, <2>6, ZenonT(60) DEF CommandOK, r, own, owners
<1> QED BY <1>4, <1>10, <1>11 DEF AcceptResult

(* cancel.                                                                 *)
LEMMA CancelHandled ==
  ASSUME OwnersIInv, NEW c \in Conns, NEW cmd \in Commands, cmd.type # "New"
  PROVE  CommandOK(c, cmd, Process(book, seq, cmd), OwnerBefore(c, cmd),
                   HomeDuring(c, cmd, Process(book, seq, cmd).out))
<1> DEFINE r == Process(book, seq, cmd)
           own == OwnerBefore(c, cmd)
           owners == HomeDuring(c, cmd, r.out)
           D == DOMAIN book.index
<1>1. /\ HubMatcherOK /\ DOMAIN orderOwner = D /\ orderOwner \in [D -> Conns]
      /\ \A id \in D : orderOwner[id] = home[id]
  BY DEF OwnersIInv, OwnersExact
<1>2. cmd.id \in OrderIds
  BY HubAssumption DEF AllCommands
<1>3. r = CancelCall(book, seq, cmd.id)
  BY ZenonT(60) DEF Process
<1>4. /\ CallResult(r, seq, D) /\ Settled(r, D)
      /\ \A i \in DOMAIN r.out : r.out[i].reason = "Cancelled"
  <2> HIDE DEF r
  <2> QED BY <1>1, <1>2, <1>3, CancelCallOK DEF HubMatcherOK
<1>5. Live(book, cmd) = D
  BY ZenonT(60) DEF Live
<1>6. own = orderOwner /\ owners = [x \in D |-> home[x]]
  BY DEF OwnerBefore, HomeDuring, Restrict
<1> HIDE DEF r, own, owners
<1>7. \A id \in D : owners[id] = own[id]
  BY <1>1, <1>6, ZenonT(60)
<1>8. HomesKnown(c, owners, own, r.out)
  <2>1. EventsFrom(r.out, seq, D)
    BY <1>4 DEF CallResult
  <2>2. \A i \in DOMAIN r.out : r.out[i].type = "Done" => r.out[i].reason # "Rejected"
    BY <1>4, ZenonT(60)
  <2> QED BY <1>7, <2>1, <2>2, HomesOfAccepted
<1> QED BY <1>1, <1>4, <1>5, <1>6, <1>7, <1>8, ZenonT(60) DEF CommandOK, r, own, owners

(* The events of a command arrive where they belong.                       *)
SentHome(from, cmd) ==
  LET events == Process(book, seq, cmd).out
      owners == HomeDuring(from, cmd, events)
  IN  \A c \in Conns : sent'[c] = IF c \in routes \cap rxOpen
                                  THEN EventsFor(c, from, owners, events) ELSE << >>

(* The handling of a command: the book and the owners stay in step, and    *)
(* the events go home.                                                     *)
LEMMA HandledHome ==
  ASSUME OwnersIInv, NEW c \in Conns, NEW cmd \in Commands,
         cmd.type = "New" => cmd.order.id \notin DOMAIN book.index,
         HandleCmd(c, cmd)
  PROVE  /\ HubMatcherOK'
         /\ orderOwner' \in [DOMAIN book'.index -> Conns] /\ OwnersExact'
         /\ DOMAIN book'.index \subseteq Live(book, cmd)
         /\ SentHome(c, cmd)
<1> DEFINE r == Process(book, seq, cmd)
           evs == r.out
           L == Len(evs)
           own == OwnerBefore(c, cmd)
           owners == HomeDuring(c, cmd, evs)
           live == Live(book, cmd)
           d0 == [from |-> c, owner |-> own, sent |-> NothingSent]
           left == live \ Ended(evs, L)
<1>1. CommandOK(c, cmd, r, own, owners)
  BY NewHandled, CancelHandled
<1>2. PICK d \in Dispatched(d0, evs) :
        /\ book' = r.book /\ seq' = r.seq
        /\ orderOwner' = d.owner /\ sent' = d.sent
        /\ home' = owners
  BY ZenonT(60) DEF HandleCmd
<1> HIDE DEF r, own, owners, live
<1>3. /\ CallResult(r, seq, live) /\ Settled(r, live) /\ own \in [live -> Conns]
      /\ HomesKnown(c, owners, own, evs)
      /\ \A id \in left : owners[id] = own[id]
  BY <1>1, ZenonT(60) DEF CommandOK, live
<1>4. EventsFrom(evs, seq, live) /\ evs \in Seq(Events) /\ L \in Nat
  <2>1. EventsFrom(evs, seq, live)
    BY <1>3, ZenonT(60) DEF CallResult
  <2> HIDE DEF evs
  <2>2. evs \in Seq(Events)
    BY <2>1, ZenonT(60) DEF EventsFrom
  <2> QED BY <2>1, <2>2
<1>5. DispatchOK(d0, 0, c, own, live, evs) /\ d0.sent = NothingSent
  <2>1. Ended(evs, 0) = {}
    BY DEF Ended
  <2>2. live \ Ended(evs, 0) = live /\ own = [id \in live |-> own[id]]
    BY <1>3, <2>1
  <2> HIDE DEF evs
  <2> QED BY <2>2 DEF DispatchOK
<1> HIDE DEF d0, evs, L
<1>6. PICK X : DispatchTrace(X, d0, c, own, live, evs) /\ Dispatched(d0, evs) = {X[Len(evs)]}
  <2>1. HasTrace(d0, c, own, live, evs)
    BY <1>4, <1>5, DispatchTraces, ZenonT(60)
  <2> QED BY <2>1, ZenonT(60) DEF HasTrace
<1>7. d = X[L] /\ DispatchOK(d, L, c, own, live, evs)
  <2>1. d \in {X[L]}
    BY <1>2, <1>6, ZenonT(60) DEF L
  <2>2. L \in 0 .. L
    BY <1>4
  <2>3. DispatchOK(X[L], L, c, own, live, evs)
    BY <1>6, <2>2, ZenonT(60) DEF DispatchTrace, L
  <2> QED BY <2>1, <2>3
<1>8. DOMAIN book'.index = left /\ orderOwner' = [id \in left |-> own[id]]
  BY <1>2, <1>3, <1>7, ZenonT(60) DEF Settled, DispatchOK, evs, L
<1>9. HubMatcherOK'
  BY <1>2, <1>3, ZenonT(60) DEF CallResult, HubMatcherOK
<1>10. orderOwner' \in [DOMAIN book'.index -> Conns]
  BY <1>3, <1>8, ZenonT(60)
<1>11. OwnersExact'
  BY <1>2, <1>3, <1>8, ZenonT(60) DEF OwnersExact
<1>12. SentHome(c, cmd)
  <2>1. ASSUME NEW x \in Conns
        PROVE  sent'[x] = IF x \in routes \cap rxOpen
                          THEN EventsFor(x, c, owners, evs) ELSE << >>
    <3>1. CASE x \in routes \cap rxOpen
      <4>1. X[Len(evs)].sent[x] = EventsFor(x, c, owners, evs)
        <5>1. /\ DispatchTrace(X, d0, c, own, live, evs) /\ d0.sent = NothingSent
              /\ HomesKnown(c, owners, own, evs) /\ evs \in Seq(Events)
          BY <1>3, <1>4, <1>5, <1>6, ZenonT(60)
        <5> QED BY <3>1, <5>1, SentConcerned
      <4> QED BY <1>2, <1>7, <3>1, <4>1, ZenonT(60) DEF L
    <3>2. CASE x \notin routes \cap rxOpen
      <4>1. X[Len(evs)].sent[x] = << >>
        <5>1. /\ DispatchTrace(X, d0, c, own, live, evs) /\ d0.sent = NothingSent
              /\ evs \in Seq(Events)
          BY <1>4, <1>5, <1>6, ZenonT(60)
        <5> QED BY <3>2, <5>1, SentNothing
      <4> QED BY <1>2, <1>7, <3>2, <4>1, ZenonT(60) DEF L
    <3> QED BY <3>1, <3>2, ZenonT(60)
  <2> QED BY <2>1, ZenonT(60) DEF SentHome, r, evs, owners
<1> QED BY <1>8, <1>9, <1>10, <1>11, <1>12, ZenonT(60) DEF live

(* Hub::start: nothing rests and nothing is on its way.                    *)
LEMMA OwnersInit ==
  ASSUME Init
  PROVE  OwnersIInv
<1>1. inbox = << >> /\ orderOwner = EmptyMap /\ book = NewBook /\ seq = 1
  BY DEF Init
<1>2. DOMAIN book.index = {} /\ DOMAIN orderOwner = {}
  BY <1>1 DEF NewBook, EmptyMap
<1>3. BookOK(book) /\ SeqsBelow(book, seq)
  BY <1>1, NewBookOK
<1>4. IsFiniteSet(DOMAIN book.index)
  BY <1>2, FS_EmptySet
<1>5. orderOwner \in [DOMAIN book.index -> Conns]
  BY <1>1, <1>2 DEF EmptyMap
<1>6. inbox \in Seq(Messages) /\ IdsFresh
  BY <1>1 DEF IdsFresh
<1> QED BY <1>1, <1>2, <1>3, <1>4, <1>5, <1>6
        DEF OwnersIInv, HubMatcherOK, OwnersExact

(* A step that leaves the inbox and the matcher thread alone.              *)
LEMMA OwnersUnchanged ==
  ASSUME OwnersIInv, UNCHANGED <<inbox, book, seq, orderOwner, home>>
  PROVE  OwnersIInv'
<1>1. IdsFresh'
  BY DEF OwnersIInv, IdsFresh, IsNew
<1>2. HubMatcherOK' /\ OwnersExact'
  BY DEF OwnersIInv, HubMatcherOK, OwnersExact
<1> QED BY <1>1, <1>2 DEF OwnersIInv

(* A push, of a new order only with a fresh id.                            *)
LEMMA PushOwners ==
  ASSUME OwnersIInv, NEW m \in Messages, inbox' = Append(inbox, m),
         IsNew(m) => m.cmd.order.id \notin IdsInUse, UNCHANGED <<thread, home>>
  PROVE  OwnersIInv'
<1>1. PICK n \in Nat :
        /\ n = Len(inbox) /\ inbox' \in Seq(Messages)
        /\ DOMAIN inbox = 1 .. n /\ DOMAIN inbox' = 1 .. n + 1
        /\ \A i \in 1 .. n : inbox'[i] = inbox[i]
        /\ inbox'[n + 1] = m
  BY PushAppends DEF OwnersIInv
<1>2. UNCHANGED <<book, seq, orderOwner, home>>
  BY DEF thread
<1>3. IsNew(m) => /\ m.cmd.order.id \notin DOMAIN book.index
                  /\ \A i \in 1 .. n : IsNew(inbox[i]) =>
                       inbox[i].cmd.order.id # m.cmd.order.id
  <2>1. \A i \in 1 .. n : inbox[i] \in Range(inbox)
    BY <1>1 DEF Range
  <2>2. ASSUME NEW i \in 1 .. n, IsNew(inbox[i])
        PROVE  inbox[i].cmd.order.id \in IdsInUse
    BY <2>1, <2>2, ZenonT(60) DEF IdsInUse, IsNew
  <2> QED BY <2>2, ZenonT(60) DEF IdsInUse
<1>4. IdsFresh'
  <2>1. IdsFresh
    BY ZenonT(60) DEF OwnersIInv
  <2>2. ASSUME NEW i \in 1 .. n + 1, IsNew(inbox'[i])
        PROVE  inbox'[i].cmd.order.id \notin DOMAIN book.index
    BY <1>1, <1>3, <2>1, <2>2 DEF IdsFresh
  <2>3. ASSUME NEW i \in 1 .. n + 1, NEW j \in 1 .. n + 1, i # j,
               IsNew(inbox'[i]), IsNew(inbox'[j])
        PROVE  inbox'[i].cmd.order.id # inbox'[j].cmd.order.id
    <3>1. i \in 1 .. n \/ i = n + 1
      OBVIOUS
    <3>2. j \in 1 .. n \/ j = n + 1
      OBVIOUS
    <3>3. CASE i \in 1 .. n /\ j \in 1 .. n
      BY <1>1, <2>1, <2>3, <3>3 DEF IdsFresh
    <3>4. CASE i = n + 1 /\ j \in 1 .. n
      BY <1>1, <1>3, <2>3, <3>4, ZenonT(60)
    <3>5. CASE j = n + 1 /\ i \in 1 .. n
      BY <1>1, <1>3, <2>3, <3>5
    <3> QED BY <2>3, <3>1, <3>2, <3>3, <3>4, <3>5, ZenonT(60)
  <2>4. DOMAIN inbox' = 1 .. n + 1
    BY <1>1
  <2> QED BY <1>2, <2>2, <2>3, <2>4 DEF IdsFresh, IsNew
<1> QED BY <1>1, <1>2, <1>4, ZenonT(60) DEF OwnersIInv, HubMatcherOK, OwnersExact

(* A pop that leaves at most the popped order's id resting besides what    *)
(* rested before.                                                          *)
LEMMA PopFresh ==
  ASSUME OwnersIInv, inbox # << >>, inbox' = Tail(inbox),
         \A id \in DOMAIN book'.index :
           \/ id \in DOMAIN book.index
           \/ IsNew(Head(inbox)) /\ id = Head(inbox).cmd.order.id
  PROVE  inbox' \in Seq(Messages) /\ IdsFresh'
<1>1. PICK n \in Nat :
        /\ inbox' \in Seq(Messages)
        /\ DOMAIN inbox = 1 .. n + 1 /\ DOMAIN inbox' = 1 .. n
        /\ \A i \in 1 .. n : inbox'[i] = inbox[i + 1]
        /\ Head(inbox) = inbox[1]
  <2>1. /\ inbox' \in Seq(Messages) /\ Len(inbox) \in Nat \ {0}
        /\ DOMAIN inbox = 1 .. Len(inbox)
        /\ DOMAIN inbox' = 1 .. Len(inbox) - 1
        /\ \A i \in 1 .. Len(inbox) - 1 : inbox'[i] = inbox[i + 1]
        /\ Head(inbox) = inbox[1]
    BY PopShifts DEF OwnersIInv
  <2>2. Len(inbox) - 1 \in Nat /\ (Len(inbox) - 1) + 1 = Len(inbox)
    BY <2>1
  <2> QED BY <2>1, <2>2, ZenonT(60)
<1>2. IdsFresh
  BY DEF OwnersIInv
<1>3. ASSUME NEW i \in 1 .. n, IsNew(inbox'[i])
      PROVE  inbox'[i].cmd.order.id \notin DOMAIN book'.index
  <2>1. i + 1 \in DOMAIN inbox /\ 1 \in DOMAIN inbox /\ i + 1 # 1
    BY <1>1
  <2>2. inbox'[i] = inbox[i + 1]
    BY <1>1
  <2>3. inbox[i + 1].cmd.order.id \notin DOMAIN book.index
    BY <1>2, <1>3, <2>1, <2>2 DEF IdsFresh
  <2>4. IsNew(inbox[1]) => inbox[i + 1].cmd.order.id # inbox[1].cmd.order.id
    BY <1>2, <1>3, <2>1, <2>2, ZenonT(60) DEF IdsFresh
  <2> QED BY <1>1, <2>2, <2>3, <2>4
<1>4. ASSUME NEW i \in 1 .. n, NEW j \in 1 .. n, i # j,
             IsNew(inbox'[i]), IsNew(inbox'[j])
      PROVE  inbox'[i].cmd.order.id # inbox'[j].cmd.order.id
  <2>1. i + 1 \in DOMAIN inbox /\ j + 1 \in DOMAIN inbox /\ i + 1 # j + 1
    BY <1>1, <1>4
  <2> QED BY <1>1, <1>2, <1>4, <2>1 DEF IdsFresh
<1>5. IdsFresh'
  <2>1. DOMAIN inbox' = 1 .. n
    BY <1>1
  <2>2. \A i \in DOMAIN inbox' :
          IsNew(inbox'[i]) => inbox'[i].cmd.order.id \notin DOMAIN book'.index
    BY <1>3, <2>1
  <2>3. \A i, j \in DOMAIN inbox' :
          i # j /\ IsNew(inbox'[i]) /\ IsNew(inbox'[j])
            => inbox'[i].cmd.order.id # inbox'[j].cmd.order.id
    BY <1>4, <2>1
  <2> QED BY <2>2, <2>3 DEF IdsFresh, IsNew
<1> QED BY <1>1, <1>5

(* register, submit, the drop of a submitter.                              *)
LEMMA GatewayOwners ==
  ASSUME FreshIds, OwnersIInv, NEW c \in Conns,
         Register(c) \/ DropSubmitter(c) \/ DropReceiver(c)
           \/ \E cmd \in Commands : Submit(c, cmd)
  PROVE  OwnersIInv'
<1>1. CASE Register(c)
  <2>1. Connect(c) \in Messages /\ ~IsNew(Connect(c))
    BY MessageKinds, ZenonT(60) DEF Connect, IsNew
  <2> QED BY <1>1, <2>1, PushOwners DEF Register
<1>2. CASE DropSubmitter(c)
  <2>1. Disconnect(c) \in Messages /\ ~IsNew(Disconnect(c))
    BY MessageKinds DEF Disconnect, IsNew
  <2>2. CASE HasRoom
    BY <1>2, <2>1, <2>2, PushOwners, ZenonT(60) DEF DropSubmitter
  <2>3. CASE ~HasRoom
    BY <1>2, <2>3, OwnersUnchanged, ZenonT(60) DEF DropSubmitter, thread
  <2> QED BY <2>2, <2>3
<1>3. CASE DropReceiver(c)
  BY <1>3, OwnersUnchanged, ZenonT(60) DEF DropReceiver, thread
<1>4. ASSUME NEW cmd \in Commands, Submit(c, cmd)
      PROVE  OwnersIInv'
  <2> DEFINE m == Cmd(c, cmd)
  <2>1. m \in Messages /\ m.cmd = cmd /\ (IsNew(m) => cmd.type = "New")
    BY MessageKinds DEF Cmd, IsNew
  <2>2. /\ inbox' = Append(inbox, m) /\ UNCHANGED <<thread, home>>
        /\ cmd.type = "New" => cmd.order.id \notin IdsInUse
    BY <1>4 DEF Submit
  <2> HIDE DEF m
  <2> QED BY <2>1, <2>2, PushOwners
<1> QED BY <1>1, <1>2, <1>3, <1>4

(* What a command's message carries.                                       *)
LEMMA CmdFields ==
  ASSUME NEW c, NEW cmd, NEW m, m = Cmd(c, cmd)
  PROVE  /\ m.conn = c /\ m.cmd = cmd
         /\ IsNew(m) <=> cmd.type = "New"
BY DEF Cmd, IsNew

(* The command at the front of the inbox is handled.                       *)
LEMMA CommandHandled ==
  ASSUME OwnersIInv, NEW c \in Conns, NEW cmd \in Commands,
         Pop(Cmd(c, cmd)), HandleCmd(c, cmd)
  PROVE  /\ OwnersIInv'
         /\ SentHome(c, cmd)
         /\ Head(inbox).conn = c /\ Head(inbox).cmd = cmd
<1>1. /\ inbox # << >> /\ inbox' = Tail(inbox) /\ Head(inbox) = Cmd(c, cmd)
  BY DEF Pop
<1>2. /\ Head(inbox).conn = c /\ Head(inbox).cmd = cmd
      /\ IsNew(Head(inbox)) <=> cmd.type = "New"
  BY <1>1, CmdFields, ZenonT(60)
<1>3. inbox[1] = Head(inbox) /\ 1 \in DOMAIN inbox
  <2>1. inbox \in Seq(Messages)
    BY DEF OwnersIInv
  <2> QED BY <1>1, <2>1
<1>4. cmd.type = "New" => cmd.order.id \notin DOMAIN book.index
  <2>1. IdsFresh
    BY DEF OwnersIInv
  <2> QED BY <1>2, <1>3, <2>1, ZenonT(60) DEF IdsFresh
<1>5. /\ HubMatcherOK'
      /\ orderOwner' \in [DOMAIN book'.index -> Conns] /\ OwnersExact'
      /\ DOMAIN book'.index \subseteq Live(book, cmd)
      /\ SentHome(c, cmd)
  BY <1>4, HandledHome
<1>6. \A id \in DOMAIN book'.index :
        \/ id \in DOMAIN book.index
        \/ IsNew(Head(inbox)) /\ id = Head(inbox).cmd.order.id
  BY <1>2, <1>5 DEF Live
<1>7. inbox' \in Seq(Messages) /\ IdsFresh'
  BY <1>1, <1>6, PopFresh, ZenonT(60)
<1> QED BY <1>2, <1>5, <1>7, ZenonT(60) DEF OwnersIInv

(* One pass of the matcher thread.                                         *)
LEMMA ThreadOwners ==
  ASSUME OwnersIInv, MatcherThread
  PROVE  OwnersIInv'
<1>1. CASE HandleConnect \/ HandleDisconnect
  <2>1. /\ inbox # << >> /\ inbox' = Tail(inbox)
        /\ UNCHANGED <<orderOwner, book, seq, home>>
    BY <1>1 DEF HandleConnect, HandleDisconnect, Pop
  <2>2. inbox' \in Seq(Messages) /\ IdsFresh'
    BY <2>1, PopFresh
  <2> QED BY <2>1, <2>2, ZenonT(60) DEF OwnersIInv, HubMatcherOK, OwnersExact
<1>2. CASE HandleCommand
  BY <1>2, CommandHandled DEF HandleCommand
<1>3. CASE PopNothing
  BY <1>3, OwnersUnchanged, ZenonT(60) DEF PopNothing
<1>4. CASE CheckStop
  BY <1>4, OwnersUnchanged, ZenonT(60) DEF CheckStop
<1> QED BY <1>1, <1>2, <1>3, <1>4 DEF MatcherThread

(* Every step of the hub.                                                  *)
LEMMA OwnersNext ==
  ASSUME FreshIds, OwnersIInv, [Next]_vars
  PROVE  OwnersIInv'
<1>1. CASE UNCHANGED vars
  BY <1>1, OwnersUnchanged, ZenonT(60) DEF vars, thread
<1>2. CASE RequestStop
  BY <1>2, OwnersUnchanged, ZenonT(60) DEF RequestStop, thread
<1> QED BY <1>1, <1>2, GatewayOwners, ThreadOwners DEF Next

(* As long as clients reuse an id only after it is done, the invariant of  *)
(* the matcher thread's state holds.                                       *)
THEOREM OwnersInvariance == FreshIds => (Spec => []OwnersIInv)
<1> SUFFICES ASSUME FreshIds PROVE Spec => []OwnersIInv
  OBVIOUS
<1>1. Init => OwnersIInv
  BY OwnersInit
<1>2. OwnersIInv /\ [Next]_vars => OwnersIInv'
  BY OwnersNext
<1> QED BY <1>1, <1>2, PTL DEF Spec

(* order_owner of matcher_loop knows every resting order, under the        *)
(* connection that submitted it, and nothing else.                         *)
THEOREM OwnersAreExact == FreshIds => (Spec => []OwnersExact)
<1> SUFFICES ASSUME FreshIds PROVE Spec => []OwnersExact
  OBVIOUS
<1>1. Spec => []OwnersIInv
  BY OwnersInvariance
<1>2. OwnersIInv => OwnersExact
  BY DEF OwnersIInv
<1> QED BY <1>1, <1>2, PTL

(* The step that pops a command handles it and sends its events home.      *)
LEMMA PoppedSentHome ==
  ASSUME OwnersIInv, Next, HandlingCommand
  PROVE  SentHome(Head(inbox).conn, Head(inbox).cmd)
<1>1. /\ inbox \in Seq(Messages) /\ inbox # << >> /\ inbox' = Tail(inbox)
      /\ Head(inbox).type = "Cmd"
  BY DEF OwnersIInv, HandlingCommand
<1>2. inbox' # inbox /\ \A m : inbox' # Append(inbox, m)
  <2>1. Len(inbox) \in Nat \ {0} /\ Len(inbox') = Len(inbox) - 1
    BY <1>1
  <2>2. \A m : Len(Append(inbox, m)) = Len(inbox) + 1
    BY <1>1
  <2> QED BY <2>1, <2>2
<1>3. MatcherThread
  BY <1>2 DEF Next, Register, DropSubmitter, DropReceiver, Submit, RequestStop
<1>4. HandleCommand
  <2>1. ~HandleConnect /\ ~HandleDisconnect
    <3>1. \A c : Connect(c).type = "Connect" /\ Disconnect(c).type = "Disconnect"
      BY DEF Connect, Disconnect
    <3>2. \A m : Pop(m) => m.type = "Cmd"
      BY <1>1 DEF Pop
    <3> QED BY <3>1, <3>2, Zenon DEF HandleConnect, HandleDisconnect
  <2>2. ~PopNothing /\ ~CheckStop
    BY <1>1, <1>2 DEF PopNothing, CheckStop
  <2> QED BY <1>3, <2>1, <2>2 DEF MatcherThread
<1>5. PICK c \in Conns, cmd \in Commands : Pop(Cmd(c, cmd)) /\ HandleCmd(c, cmd)
  BY <1>4 DEF HandleCommand
<1> QED BY <1>5, CommandHandled

(* dispatch in matcher_loop: each connected tenant receives exactly the    *)
(* events that concern its orders, each once and in the matcher's order.   *)
THEOREM EventsRoutedHome == FreshIds => (Spec => RoutedHome)
<1> SUFFICES ASSUME FreshIds PROVE Spec => RoutedHome
  OBVIOUS
<1>1. Spec => []OwnersIInv
  BY OwnersInvariance
<1>2. OwnersIInv /\ [Next]_vars =>
        [HandlingCommand => SentHome(Head(inbox).conn, Head(inbox).cmd)]_vars
  BY PoppedSentHome
<1>3. RoutedHome <=>
        [][HandlingCommand => SentHome(Head(inbox).conn, Head(inbox).cmd)]_vars
  BY DEF RoutedHome, SentHome
<1> QED BY <1>1, <1>2, <1>3, PTL DEF Spec

-----------------------------------------------------------------------------
(* Routing: Connect, commands and Disconnect in the inbox.                 *)

(* Hub::start: nothing is queued and nobody is connected.                  *)
LEMMA RoutingInit ==
  ASSUME Init
  PROVE  RoutingIInv
BY DEF Init, RoutingIInv

(* The gateways push: a Connect when the connection opens, commands while  *)
(* it is open, a Disconnect when it is gone.                               *)
LEMMA PushRouting ==
  ASSUME RoutingIInv, NEW m \in Messages, inbox' = Append(inbox, m),
         routes' = routes, conn' \in [Conns -> {"new", "open", "gone"}],
         \A c \in Conns : conn[c] = "gone" => conn'[c] = "gone",
         \A c \in Conns : conn'[c] = "open" => conn[c] = "open" \/ m = Connect(c),
         m.type = "Disconnect" => conn'[m.conn] = "gone",
         m.type = "Cmd" => conn[m.conn] = "open"
  PROVE  RoutingIInv'
<1>1. PICK n \in Nat :
        /\ n = Len(inbox) /\ inbox' \in Seq(Messages)
        /\ DOMAIN inbox = 1 .. n /\ DOMAIN inbox' = 1 .. n + 1
        /\ \A i \in 1 .. n : inbox'[i] = inbox[i]
        /\ inbox'[n + 1] = m
  BY PushAppends DEF RoutingIInv
<1>2. \A i \in 1 .. n : inbox[i] \in Messages /\ inbox[i].conn \in Conns
  <2>1. inbox \in Seq(Messages)
    BY DEF RoutingIInv
  <2>2. \A i \in 1 .. n : inbox[i] \in Messages
    BY <1>1, <2>1
  <2> QED BY <2>2 DEF Messages
<1>3. \A i \in 1 .. n + 1 :
        inbox'[i].type = "Disconnect" => conn'[inbox'[i].conn] = "gone"
  <2> SUFFICES ASSUME NEW i \in 1 .. n + 1, inbox'[i].type = "Disconnect"
               PROVE  conn'[inbox'[i].conn] = "gone"
    BY ZenonT(60)
  <2>1. CASE i = n + 1
    BY <1>1, <2>1, ZenonT(60)
  <2>2. CASE i # n + 1
    <3>1. i \in 1 .. n /\ inbox'[i] = inbox[i]
      BY <1>1, <2>2
    <3> QED BY <1>1, <1>2, <3>1 DEF RoutingIInv
  <2> QED BY <2>1, <2>2, ZenonT(60)
<1>4. ASSUME NEW c \in Conns, conn'[c] = "open"
      PROVE  c \in routes' \/ \E i \in 1 .. n + 1 : inbox'[i] = Connect(c)
  <2>1. CASE m = Connect(c)
    BY <1>1, <2>1
  <2>2. CASE conn[c] = "open"
    <3>1. c \in routes \/ \E i \in 1 .. n : inbox[i] = Connect(c)
      BY <1>1, <2>2 DEF RoutingIInv
    <3> QED BY <1>1, <3>1
  <2> QED BY <1>4, <2>1, <2>2, ZenonT(60)
<1>5. ASSUME NEW i \in 1 .. n + 1, inbox'[i].type = "Cmd"
      PROVE  /\ \/ inbox'[i].conn \in routes'
                \/ \E j \in 1 .. i - 1 : inbox'[j] = Connect(inbox'[i].conn)
             /\ \A j \in 1 .. i - 1 : inbox'[j] # Disconnect(inbox'[i].conn)
  <2>1. \A j \in 1 .. i - 1 : j \in 1 .. n /\ inbox'[j] = inbox[j]
    BY <1>1
  <2>2. CASE i = n + 1
    <3>1. inbox'[i] = m /\ conn[m.conn] = "open" /\ m.conn \in Conns
      BY <1>1, <1>5, <2>2, ZenonT(60) DEF Messages
    <3>2. m.conn \in routes \/ \E j \in 1 .. n : inbox[j] = Connect(m.conn)
      BY <1>1, <3>1, ZenonT(60) DEF RoutingIInv
    <3>3. \A j \in 1 .. n : inbox[j] # Disconnect(m.conn)
      BY <1>1, <3>1, SMTT(60) DEF RoutingIInv, Disconnect
    <3>4. 1 .. n = 1 .. i - 1
      BY <2>2
    <3> QED BY <2>1, <3>1, <3>2, <3>3, <3>4, ZenonT(60)
  <2>3. CASE i # n + 1
    <3>1. i \in DOMAIN inbox /\ inbox'[i] = inbox[i]
      BY <1>1, <2>3
    <3> QED BY <1>5, <2>1, <3>1, ZenonT(60) DEF RoutingIInv
  <2> QED BY <2>2, <2>3, ZenonT(60)
<1> QED BY <1>1, <1>3, <1>4, <1>5 DEF RoutingIInv

(* register, submit and the drops of a submitter, as pushes.               *)
LEMMA GatewayRouting ==
  ASSUME RoutingIInv, NEW c \in Conns,
         Register(c) \/ DropSubmitter(c) \/ \E cmd \in Commands : Submit(c, cmd)
  PROVE  RoutingIInv'
<1>1. conn \in [Conns -> {"new", "open", "gone"}]
  BY DEF RoutingIInv
<1>2. CASE Register(c)
  <2>1. /\ routes' = routes /\ conn' = [conn EXCEPT ![c] = "open"]
        /\ conn[c] = "new" /\ inbox' = Append(inbox, Connect(c))
    BY <1>2 DEF Register, thread
  <2>2. Connect(c).type = "Connect"
    BY DEF Connect
  <2> QED BY <1>1, <2>1, <2>2, MessageKinds, PushRouting
<1>3. CASE DropSubmitter(c)
  <2>1. routes' = routes /\ conn' = [conn EXCEPT ![c] = "gone"]
    BY <1>3 DEF DropSubmitter, thread
  <2>2. Disconnect(c).type = "Disconnect" /\ Disconnect(c).conn = c
    BY ZenonT(60) DEF Disconnect
  <2>3. CASE inbox' = inbox
    BY <1>1, <2>1, <2>3, MessageKinds, SMTT(60) DEF RoutingIInv
  <2>4. CASE inbox' = Append(inbox, Disconnect(c))
    BY <1>1, <2>1, <2>2, <2>4, MessageKinds, PushRouting
  <2> QED BY <1>3, <2>3, <2>4 DEF DropSubmitter
<1>4. ASSUME NEW cmd \in Commands, Submit(c, cmd) PROVE RoutingIInv'
  <2>1. /\ routes' = routes /\ conn' = conn
        /\ conn[c] = "open" /\ inbox' = Append(inbox, Cmd(c, cmd))
    BY <1>4 DEF Submit, thread
  <2>2. Cmd(c, cmd).type = "Cmd" /\ Cmd(c, cmd).conn = c
    BY DEF Cmd
  <2> QED BY <1>1, <2>1, <2>2, MessageKinds, PushRouting
<1> QED BY <1>2, <1>3, <1>4, ZenonT(60)

(* The matcher thread pops.                                                *)
LEMMA PopRouting ==
  ASSUME RoutingIInv, NEW m, Pop(m),
         \/ \E c \in Conns : m = Connect(c) /\ routes' = routes \cup {c}
         \/ \E c \in Conns : m = Disconnect(c) /\ routes' = routes \ {c}
         \/ \E c \in Conns, cmd \in Commands : m = Cmd(c, cmd) /\ routes' = routes
  PROVE  RoutingIInv'
<1>1. inbox \in Seq(Messages) /\ inbox # << >> /\ inbox' = Tail(inbox)
      /\ m = Head(inbox) /\ conn' = conn
  BY ZenonT(60) DEF RoutingIInv, Pop, gateways
<1>2. PICK n \in Nat :
        /\ inbox' \in Seq(Messages)
        /\ DOMAIN inbox = 1 .. n + 1 /\ DOMAIN inbox' = 1 .. n
        /\ \A i \in 1 .. n : inbox'[i] = inbox[i + 1]
        /\ inbox[1] = m
  <2>1. Len(inbox) - 1 \in Nat /\ (Len(inbox) - 1) + 1 = Len(inbox)
    BY <1>1, PopShifts
  <2> QED BY <1>1, <2>1, PopShifts, ZenonT(60)
<1>3. \A i \in 1 .. n : i + 1 \in 1 .. n + 1 /\ \A j \in 1 .. i : j \in 1 .. n + 1
  OBVIOUS
<1>4. \A i \in 1 .. n : inbox'[i].type = "Disconnect" => conn'[inbox'[i].conn] = "gone"
  BY <1>1, <1>2, <1>3, SMTT(60) DEF RoutingIInv
<1>5. ASSUME NEW c \in Conns, conn'[c] = "open"
      PROVE  c \in routes' \/ \E i \in 1 .. n : inbox'[i] = Connect(c)
  <2>1. CASE c \in routes
    <3>1. m # Disconnect(c)
      BY <1>1, <1>2, <1>5 DEF RoutingIInv, Disconnect
    <3> QED BY <2>1, <3>1, ZenonT(60) DEF Disconnect, Connect, Cmd
  <2>2. ASSUME NEW i \in 1 .. n + 1, inbox[i] = Connect(c)
        PROVE  c \in routes' \/ \E k \in 1 .. n : inbox'[k] = Connect(c)
    <3>1. CASE i = 1
      BY <1>2, <2>2, <3>1 DEF Connect, Disconnect, Cmd
    <3>2. CASE i # 1
      <4>1. i - 1 \in 1 .. n /\ inbox'[i - 1] = inbox[i]
        BY <1>2, <3>2
      <4> QED BY <2>2, <4>1, ZenonT(60)
    <3> QED BY <3>1, <3>2, ZenonT(60)
  <2> QED BY <1>1, <1>2, <1>5, <2>1, <2>2 DEF RoutingIInv
<1>6. ASSUME NEW i \in 1 .. n, inbox'[i].type = "Cmd"
      PROVE  /\ \/ inbox'[i].conn \in routes'
                \/ \E j \in 1 .. i - 1 : inbox'[j] = Connect(inbox'[i].conn)
             /\ \A j \in 1 .. i - 1 : inbox'[j] # Disconnect(inbox'[i].conn)
  <2> DEFINE c == inbox[i + 1].conn
  <2>1. inbox'[i] = inbox[i + 1] /\ inbox[i + 1].type = "Cmd"
        /\ i + 1 \in DOMAIN inbox
    BY <1>2, <1>3, <1>6, ZenonT(60)
  <2>2. /\ c \in routes \/ \E j \in 1 .. i : inbox[j] = Connect(c)
        /\ \A j \in 1 .. i : inbox[j] # Disconnect(c)
    BY <2>1 DEF RoutingIInv
  <2>3. \A j \in 1 .. i - 1 : inbox'[j] # Disconnect(c)
    BY <1>2, <2>2
  <2>4. c \in routes' \/ \E j \in 1 .. i - 1 : inbox'[j] = Connect(c)
    <3> HIDE DEF c
    <3>1. m # Disconnect(c)
      BY <1>2, <2>2
    <3>2. CASE c \in routes
      BY <3>1, <3>2 DEF Disconnect, Connect, Cmd
    <3>3. ASSUME NEW j \in 1 .. i, inbox[j] = Connect(c)
          PROVE  c \in routes' \/ \E k \in 1 .. i - 1 : inbox'[k] = Connect(c)
      <4>1. CASE j = 1
        BY <1>2, <3>3, <4>1 DEF Connect, Disconnect, Cmd
      <4>2. CASE j # 1
        <5>1. j - 1 \in 1 .. i - 1 /\ inbox'[j - 1] = inbox[j]
          BY <1>2, <4>2
        <5> QED BY <3>3, <5>1, ZenonT(60)
      <4> QED BY <4>1, <4>2, ZenonT(60)
    <3> QED BY <2>2, <3>2, <3>3, ZenonT(60)
  <2> QED BY <2>1, <2>3, <2>4, ZenonT(60)
<1> QED BY <1>1, <1>2, <1>4, <1>5, <1>6, ZenonT(60) DEF RoutingIInv

(* Every step of matcher_loop.                                             *)
LEMMA ThreadRouting ==
  ASSUME RoutingIInv, MatcherThread
  PROVE  RoutingIInv'
<1>1. CASE HandleConnect
  BY <1>1, PopRouting DEF HandleConnect
<1>2. CASE HandleDisconnect
  BY <1>2, PopRouting DEF HandleDisconnect
<1>3. CASE HandleCommand
  <2>1. PICK c \in Conns, cmd \in Commands : Pop(Cmd(c, cmd)) /\ HandleCmd(c, cmd)
    BY <1>3, ZenonT(60) DEF HandleCommand
  <2>2. routes' = routes
    BY <2>1, ZenonT(60) DEF HandleCmd
  <2> QED BY <2>1, <2>2, PopRouting
<1>4. CASE PopNothing \/ CheckStop
  BY <1>4 DEF PopNothing, CheckStop, gateways, RoutingIInv
<1> QED BY <1>1, <1>2, <1>3, <1>4 DEF MatcherThread

(* Every step of the hub and its gateways.                                 *)
LEMMA RoutingNext ==
  ASSUME RoutingIInv, [Next]_vars
  PROVE  RoutingIInv'
<1>1. CASE UNCHANGED vars
  BY <1>1, ZenonT(60) DEF vars, gateways, thread, RoutingIInv
<1>2. CASE RequestStop
  BY <1>2, ZenonT(60) DEF RequestStop, gateways, thread, RoutingIInv
<1>3. ASSUME NEW c \in Conns, DropReceiver(c) PROVE RoutingIInv'
  BY <1>3 DEF DropReceiver, thread, RoutingIInv
<1> QED BY <1>1, <1>2, <1>3, GatewayRouting, ThreadRouting, ZenonT(60) DEF Next

(* In the inbox of the hub a command stands behind the Connect of its      *)
(* connection and before any Disconnect of it, for every number of         *)
(* connections and every capacity.                                         *)
THEOREM RoutingInvariance == Spec => []RoutingIInv
BY RoutingInit, RoutingNext, PTL DEF Spec

(* A command that matcher_loop handles comes from a connection that has a  *)
(* sender in routes, whatever connects, disconnects and fills the inbox.   *)
THEOREM CommandsRouted == Spec => []CommandsAreRouted
<1>1. RoutingIInv => CommandsAreRouted
  <2> SUFFICES ASSUME RoutingIInv, inbox # << >>, Head(inbox).type = "Cmd"
               PROVE  Head(inbox).conn \in routes
    BY DEF CommandsAreRouted
  <2>1. inbox \in Seq(Messages) /\ 1 \in DOMAIN inbox /\ Head(inbox) = inbox[1]
    BY DEF RoutingIInv
  <2> QED BY <2>1 DEF RoutingIInv
<1> QED BY <1>1, RoutingInvariance, PTL

=============================================================================
