# A TLA+ model of bourse

bourse is a limit-order-book matching engine: a single-threaded matcher over an
in-memory order book, fed through lock-free queues or a multi-tenant hub, with a
write-ahead log, snapshots and a replay tool beside it, and a TCP server with a
binary protocol and a client in front. This directory holds TLA+ modules
translated from the source, the TLC configurations that check them on small
instances, and proofs for the matcher, its event stream, the ring buffer, the
engine, the hub's routing and the server's tasks that TLAPS checks for every
instance. `PROJECT.json` names the source lines behind every definition, the runs, the mutants that show each property can fail,
the findings, the hazards and the theorems.

Paths below are relative to `src/crates/bourse-core/src/` unless they start with
`crates/`.

## The parts of the system

| part | source | modules | state |
|---|---|---|---|
| order book | `order_book.rs` | `OrderBook`, `BookProofs` | modelled |
| value types | `types/*.rs` | in `OrderBook`, `Matcher`, `Snapshot` | partly: no price arithmetic, no timestamps |
| matcher | `matcher.rs` | `Matching`, `Matcher`, `PriceTime`, `MatcherRefinement`, `Calls`, `Ledger`, `MatcherProofs`, `LedgerProofs` | modelled, safety proved |
| SPSC ring | `spsc.rs` | `Spsc`, `BoundedQueue`, `SpscProofs` | modelled, safety and refinement proved |
| engine | `engine.rs` | `Engine`, `EngineProofs` | modelled, safety proved |
| hub | `hub.rs` | `Hub`, `HubProofs` | modelled, routing of commands and events proved |
| write-ahead log | `wal.rs` | `Wal`, `Recovery`, `Codec`, `Stream` | partly: no file system errors on a running writer |
| snapshots | `snapshot.rs` | `Snapshot`, `Recovery` | modelled, without the bytes of the file |
| replay tool | `crates/bourse-replay` | `Recovery` | partly: one file there, a directory here |
| server | `crates/bourse-server` | `Server`, `Stream`, `ServerProofs` | modelled, life of the tasks proved |
| wire protocol | `crates/bourse-protocol` | `Codec`, `Stream` | modelled |
| client | `crates/bourse-client` | `Client` | modelled |
| bench | `crates/bourse-bench` | - | a stub |

How they interact: the server gives each TCP connection a `Submitter` of the
hub; the hub's thread owns a matcher and routes its events back. The client talks to the server in length-prefixed frames of the wire protocol.
The engine is the single-connection variant, with an SPSC ring on either side of
its matcher thread. Neither of them writes the log: the write-ahead log and the snapshots are
used by the tests, the benches and the replay tool, with the discipline "append,
commit, then match" that `docs/correctness-guarantees.md` states for the whole.

## Modules

**OrderBook** is the data structure as operators on a value
`[levels, index]`: `levels[side]` maps a price to the sequence of its orders
(the `VecDeque` of a level) and `index` maps an id to its side and price.
`Add`, `CancelBook`, `TakeFront`, `Best` and `FillableQtyAt` follow
`Book::add`, `cancel`, `take_front`, `best_bid`/`best_ask` and `fillable_qty_at`,
with the separate updates of the three maps. `BookOK` collects what a book
must satisfy.

**Matching** is what one `accept` or `cancel` computes: the gates, one iteration
of the loop (`MatchOnce`), the end (`EndOfCall`), and whole calls (`AcceptCall`,
`CancelCall`, `Process`).

**Matcher** is the state machine. One action per point of `accept` that emits:
`Reject`, `Receive`, `Match` (one loop iteration), `Finish`; and `Cancel`. The
variables are the book, the next sequence number, the locals of the call in
progress (`taker`) and the events of the last step (`out`).

**PriceTime** is the promise: price-time priority over a plain set of orders,
without levels, index or scan. **MatcherRefinement** maps the book to that set
and states that the matcher implements it.

**Calls** ties the two granularities together: the call as one operator, which
`Engine`, `Hub` and `Recovery` use, gives what the steps of `Matcher` give.
**Ledger** is a reader of the event stream that keeps every order's open
quantity from the events alone.

**Spsc** is the ring buffer, one action per access of shared memory. `tailLog`
and `headLog` are the modification orders of the two atomics; an acquire load
may return any value at least as new as the last one its thread saw, and brings
with it what the store published. A slot remembers its last write and read, so
that a data race or an uninitialised read is visible. Indices wrap at
`IndexModulus`, a power of two like the width of `usize`. **BoundedQueue** is
the promise the ring implements.

**Engine** composes a gateway, the matcher thread (`matcher_loop`, `drain_one`),
a publisher and the owner over two bounded queues. **Hub** composes connections,
the bounded inbox and the hub's thread with its `routes` and `order_owner` maps.

**Wal** and **Snapshot** are the operators on segments, frames and snapshot
files. **Recovery** composes writer, matcher, snapshots, crashes and restarts: a
crash keeps what was synced, any prefix of what was not, perhaps a torn frame,
perhaps a segment without a header. The torn frame is only a mark there, as the reader
takes it for the end of its segment; that it does is checked in **Stream**. The caller's discipline comes from
`crates/bourse-core/tests/snapshot_recovery.rs` (append, commit, match, marker
`next_seq - 1`) and from the group commit of the bench `wal_commit`. Replay reads the directory
with `for_each_record_dir`, with the loop body of the replay tool.

**Codec** is the bytes: little-endian words, the encoders and decoders of the wire
protocol and of the log's records, with `ByteBase`, `WordBytes` and `LenBytes` for
the 256, 8 and 4 of the code. Signed fields wrap as they do in two's complement.
**Stream** is one byte stream and its reader: a socket from client to server
(`reader_loop`), one from server to client, or a log segment (`append`, `commit`,
`WalReader`). Bytes arrive in pieces of any size; a socket is cut anywhere; a crash
cuts the segment behind what was synced, or fills its tail with zeros; a byte of a
segment is damaged. The checksum is a polynomial one in the place of CRC-32: it
detects every change of one byte, as CRC-32 does.

**Server** composes `serve_until`, the handler, reader and writer task of each
connection, the sockets and the hub. A step of a task is what happens between two
awaits; an abort takes effect at the next await, and a dropped `JoinHandle`
detaches its task. The state of `Server` is what each task is waiting for
(`main`, `handler`, `reader`, `writer`), what it holds (`pending`, `chan`) and the
frames in each socket. **Client** adds the peers: the program of
`crates/bourse-client` (round trips on one connection, then a burst with its
receiving task on another), arbitrary peers that send an order or a frame that does
not decode, read or do not, and close, or peers of which one may send cancels
without end. Which of the three is chosen in the initial state (`population`).

**MC\*** modules fix small sets of commands and symmetries. Definitions whose
comment begins with "Faulty" are deliberate mistakes; the mutants in
`PROJECT.json` put them in the place of the definition that follows to show that
a property notices.

## Runs

| run | what it checks | distinct states |
|---|---|---|
| `matcher` | index and levels agree, time order, uncrossed book, no self trade, fill-or-kill fills whole, post-only never takes, gap-free events, the inductive invariant; refinement of `PriceTime`; the events alone reconstruct all open quantities, every event is legal where it stands, whole calls equal their steps | 37,608 |
| `spsc` | no data race, order kept, nothing leaked or dropped twice, under stale loads and wraparound; the ring implements a bounded queue; a polling consumer gets everything | 30,700 |
| `engine` | events survive backpressure, stop drains what came before it, and returns after `split` | 26,741 |
| `engine_stop` | **violated**: `stop` returns, also without `split` | – |
| `hub` | ownership map exact, commands always routed, events route home, the inductive invariant of the routing; unless a gateway submits for ever, the inbox is drained and `stop` returns | 310,561 |
| `hub_reuse` | **violated**: events route home, also when a client submits an id that is resting | – |
| `stream` | what a reader hands on is a prefix of what was encoded, everything that arrived whole is handed on, a torn tail is the end and not an error, damage is noticed | 233,275 |
| `server` | the inductive invariant of the tasks, a shutdown that aborts nobody leaves no task, the client program ends; unless a client sends for ever, `serve_until` returns, `submit` and `register` return while the hub runs, and a connection whose client has gone is released | 181,403 |
| `server_cleanup` | **violated**: no task is left when `serve_until` has returned | – |
| `recovery` | acknowledged records are durable, recovered state equals full replay, segments bounded | 320,894 |
| `recovery_restart` | **violated**: the same equality after a second crash | – |
| `recovery_header` | **violated**: a crash in a rotating append is tolerated | – |

### What the violated runs show

- `engine_stop`: `Engine::stop` owns the event consumer while it joins the
  thread. If the events still to come do not fit the event channel, the thread
  spins in `drain_one` and `stop` never returns. After `split` the publisher
  can go on, and the `engine` run shows that stop then returns.
- `hub_reuse`: the hub records the sender as owner before `accept` rejects a
  duplicate id, and removes the owner on the rejection's `Done`. Later events of
  the resting order go to the wrong connection. The `hub` run shows that
  routing is exact as long as an id in use is not submitted again.
- `server_cleanup`: `serve_until` promises to return "once everything is cleaned
  up", but `abort_all` drops a handler at its await of the reader, which detaches
  the reader and the writer. They go on after the hub has stopped. The `server` run
  shows that nothing is left when the grace period is long enough.
- `recovery_restart`: `open_dir` numbers records from 1 in every life, so a
  snapshot's marker selects by numbers of another life.
- `recovery_header`: a segment file whose header was not written makes
  `for_each_record_dir` fail, after the records of the segments before it were handed
  on; every later replay of the directory ends with that error, and what is appended
  to new segments afterwards is not reached.

Two things seen while modelling are not runs. The documentation of `spsc.rs` (lines
18-20) has the condition for re-reading the other side's index the wrong way round;
the code is right. And the checksum of a log frame does not cover its length, so
that a damaged length may read as a torn tail: `DamageDetected` is about checksum
and payload only.

### Bounds

- `MaxSeq` (matcher): no new call starts after that many events. With
  three ids, two prices, quantities up to 2 and five events a run reaches books
  with two orders in one level and on two levels, a taker that empties one level
  and goes on in the next, partial fills of either side, cancels in the middle,
  reuse of an id, and every rejection. Ids are symmetric.
- `MinCapacity` 3, rounded up to 4 by the code, `IndexModulus` 8, `MaxItems` 17:
  the indices wrap twice, every slot is used four times, and full and empty are
  both reached on either side of the wrap.
- `CommandCapacity`, `EventCapacity` 2, `MaxCommands` 4: one command can emit
  more events than the event channel holds.
- `InboxCapacity` 2, two connections, `MaxSubmits` 3 (4 for the violation) new orders:
  the inbox is full for a `Connect`, a command and a `Disconnect`; two tenants trade
  with each other and with themselves. Cancels are not bounded: one that finds nothing
  changes nothing, so gateways may go on for ever in a finite model.
- `MaxSegmentBytes` 96 with frames of 26 and 52 bytes: one to three records per
  segment, so batches cross rotations. `MaxAppends` 4 and `MaxOpens` 2: one
  crash anywhere, and a life after it. The violation runs use three lives, and
  the smallest segment (64 bytes).

- `stream`: words and lengths of two bytes, two messages per stream from a set with
  every order kind, every event and the limits of every field (0, the greatest
  unsigned value, the least and greatest signed price). Bytes keep their 256
  values. Two frames are enough for a reader to lose its place between them;
  `ZeroTails` 4 and 9 are as long as a frame header and longer; `Flips` changes one
  byte, at every position of the segment. One fault per stream.
- `server`: two connections, `InboxCapacity` 1 and `SocketRoom` 1, so that inbox and
  sockets are full with one frame each. The client makes one round trip to warm up,
  one that is measured and a burst of two orders, one more than a socket or the
  inbox holds (`server_cleanup`: three orders, `InboxCapacity` 2). Of the two peers
  one sends a frame (`MaxFrames`), an order or garbage, or cancels for as long as it
  likes, and both read or close, at every point of the life of the other connection
  and of the shutdown.

Deadlock is not checked: every instance stops at its bounds, and the threads stop
by design.

### Fairness

- `Engine`, `Hub`: weak fairness of the matcher thread. It is an OS thread that
  polls and never blocks. In `Engine` also of popping events, by whoever holds
  that half: the publisher's loop. After `stop(self)` nobody holds it, which
  the model's guard `HalvesHeld` says.
- `Spsc`: weak fairness of the consumer's steps (`TryPop`), for a consumer that
  polls. Liveness of the ring is about behaviours whose loads return the newest
  value (the variable `stale`, chosen in the initial state), for the memory model
  promises only that a store becomes visible in a finite time.
- `Stream`: weak fairness of the reader, a task that runs whenever `read_exact` can
  return, with a piece, the end or an error.
- `Server`: weak fairness of the matcher thread and, as a whole, of the runtime:
  tokio runs some task whenever one is ready or a timer has fired. It need not be
  fair among the tasks: once the clients pause, each is ready finitely often. `Client` adds weak
  fairness of the client program, which waits for nothing but its sockets.
- Gateways, peers, owners, a shutdown, a failing `accept` and crashes have none.

### Endless senders

Neither the hub nor the server promises anything to come about while a gateway or a
client never pauses, and the models have such senders. `matcher_loop` looks at the stop
flag only after a pass that found nothing, so `stop` waits for a pause
(`StopReturns`). `submit` and `register` only try again, and may lose every free
slot to another (`SubmitReturns`). At the end of the grace period a reader is detached
and not ended, so a client that goes on sending keeps the thread busy that the drop of
the hub joins, and `serve_until` may not return (`ServeReturns`). These properties
therefore have a first disjunct, `SubmittingForever` or `SendingForever`: an endless
repetition of the submission, or of a client's send. Without that disjunct TLC refutes
them, `ServeReturns` also when every task is scheduled fairly.

## Proofs

Eight modules hold proofs, and all of them are for every value of the constants.
`Induction` and `BookProofs` are lemmas, and the others the theorems.

| module | theorem | states |
|---|---|---|
| `MatcherProofs` | `Invariance` | `Spec => []IInv` |
| | `TypeCorrect` | `Spec => []TypeOK` |
| | `Consistency` | `Spec => []BookConsistent` |
| | `TimePriorityKept` | `Spec => []TimePriority` |
| | `BookUncrossed` | `Spec => []NeverCrossed` |
| | `SelfTradePrevented` | `Spec => []NoSelfTrade` |
| | `PostOnlyMakes` | `Spec => []PostOnlyNeverTakes` |
| | `EventsGapFree` | `Spec => GapFree` |
| `LedgerProofs` | `EventsAddUp` | `LedgerSpec => []LedgerAgrees` |
| | `EventsLegal` | `LedgerSpec => LifecycleConsistent` |
| | `StepsAddUp` | `LedgerSpec => CallsAgree` |
| `SpscProofs` | `RingInvariant` | `Spec => []RingIInv` |
| | `RingRaceFree` | `Spec => []NoDataRace` |
| | `RingNoLeak` | `Spec => []NoLeakNoDoubleDrop` |
| | `RingImplementsQueue` | `Spec => ImplementsQueue` |
| `EngineProofs` | `EngineInvariant` | `Spec => []EngineIInv` |
| | `EngineStreamIntact` | `Spec => []EventStreamIntact` |
| | `EngineStopDrains` | `Spec => []StopDrains` |
| `HubProofs` | `RoutingInvariance` | `Spec => []RoutingIInv` |
| | `CommandsRouted` | `Spec => []CommandsAreRouted` |
| | `OwnersInvariance` | `FreshIds => (Spec => []OwnersIInv)` |
| | `OwnersAreExact` | `FreshIds => (Spec => []OwnersExact)` |
| | `EventsRoutedHome` | `FreshIds => (Spec => RoutedHome)` |
| `ServerProofs` | `ServerInvariance` | `[]ServerIInv` |
| | `DrainLeavesNothing` | `[]DrainedIsClean` |

Assumptions, all of them named in the module that declares the constants and
evaluated by TLC: prices, quantities, bounds and capacities are numbers, capacities
of channels are not zero, and the commands of engine and hub are commands
(`BookAssumption`, `MaxSeqAssumption`, `EngineAssumption`, `HubAssumption`). The ring
needs that the range of its indices is a multiple of the capacity and at least twice
as large (`SpscAssumption`), which a power of two below `2^63` and `usize` give.
`FreshIds` is the hypothesis of three theorems on the hub and not an assumption: an id
in use is not submitted again. Without it the properties are false, as `hub_reuse`
shows.

### Loops and recursion

`AcceptCall` runs the matching loop to its end, and the hub's `Dispatch` walks over a
list of events: both are recursive functions. The library's induction theorems take an
operator as a parameter, which the provers cannot instantiate. `Induction` states
induction over a *set* of naturals (`SetInduction`) and the existence of a recursively
defined function given by a *function* for its step, proved from the well-foundedness
of `<` on `Nat`; both can be cited. A proof about a loop then names the function,
shows that it satisfies its recursion, and shows by induction that the set of the
iterations after which the wanted fact holds is all of `Nat`.

### The matcher

`IInv` is the conjunction of the type invariant, `BookOK` (consistency, time order and
an uncrossed book), `SeqsBelow(book, seq)`, `NoSelfTrade` and `TakerIsLatest`. None of
the parts is inductive alone. That a remainder may be appended to its level needs that
the level holds only earlier orders; the remainder carries `receive_seq`, which is
older than `seq` by the time the loop ends. So the invariant has to say that nothing
that rests is younger than `receive_seq`: `TakerIsLatest`. That `take_front` finds in
the index the order it removes needs that levels and index agree in both directions;
that the remainder does not cross needs that the loop stops only when the best opposite
price does not cross (`LoopStops`), which needs that no level is empty.

The book lemmas say what each operation does to one level (`TakeFrontPreserves`,
`CancelPreserves`, `AddPreserves`) in terms of two relations, a level that shrinks
and a level that grows, so that the invariant is argued once per relation and not
once per operation. `MatcherProofs` then has one lemma per action and combines
them in `NextInv`. `PostOnlyMakes` is an induction of its own: the pre-check
establishes the property when the call begins, and the property itself excludes
the only step that changes the book before the call ends.

`LedgerProofs` proves that book and event stream never part. `LedgerAgrees` is
inductive together with `IInv`: that a trade is legal needs that the taker is not
the maker (`NoSelfTrade`), and that a change of one order's quantity disturbs no
other needs that an id rests in one place only (`BookOK`). Each operation of
the book is described by `BookQtys`, "the quantity of x, and of nobody else, is now
q"; `AgreementCarries` turns that, and an observer that changed its entry of x alone,
into the agreement of the next state. There is one lemma per action again.

### Whole calls

`BookProofs` goes on from one operation of the book to a call. `CallOK` is the
invariant of the matching loop: the book is in order, the events so far are numbered
from the call's first number, only the taker and resting orders are named in them, and
the index has lost exactly the ids whose `Done` is among them. `LoopEnds` shows that the
loop has ended after one iteration more than there are resting orders, as every
iteration but the last uses up a maker. What `Process` returns for any command follows,
and engine and hub cite nothing else.

`StepsAddUp` shows that the steps of `Matcher` and the call agree. Its invariant,
`CallsIInv`, says of a call in progress that its state is among the iterations of the
loop from the state where it was received. `Match` adds one iteration; `Finish` is
enabled only where the loop stays at rest, and there all further iterations are the
same (`LoopStays`), the last of them included.

### The ring buffer

`RingIInv` counts in pushes and pops and not in indices. `Counts` says that the n-th
store of an atomic has the value n modulo the width of the index and publishes n
accesses, stale loads or not; `ProducerOK` and `ConsumerOK` say that what a side cached
and what it learnt belong to the same store, and where its locals stand at each point of
the call; `SlotsOK` says which push and which pop touched each slot last. Between two
accesses of the same slot there are `Capacity` pushes, so that "the cached head says
there is room" and "the consumer's read of this slot was published to me" are the same
inequality: this is the argument of the `SAFETY` comments, and `RingRaceFree` is its
conclusion. The arithmetic of wrapping indices is in five lemmas (`Occupancy`,
`SameIndex`, `WrappedSuccessor`, `SlotOfWrapped`, `DistinctSlots`), and rests on the two conditions of
`SpscAssumption`.

`RingImplementsQueue` is a refinement proof, step by step. Under the invariant the
abstract queue is the list of the numbers between the last pop and the last push
(`Mapping`); the stores of tail and head are the moments of push and pop, a refresh that
still finds no room or no value is a failing call, and all other steps stutter.

### Engine, hub and server

`EngineProofs`: `EngineIInv` gives each event of the stream, wherever it is, its number
(`StreamOK`), says that the book is well-formed between commands, and counts commands
from the gateway to the matcher. For `StopDrains` it has to remember more than the
theorem says: when the thread is in its last pass, what was pushed before the stop is
processed or still in the channel.

`HubProofs`: a command is handled with its sender in `routes` because in the inbox
the `Connect` of a connection stands before its commands and its `Disconnect` behind
them. `RoutingIInv` says so of every position of the inbox and of what the gateways
may still push; pushing at the back and popping at the front preserve it whatever
the capacity. `OwnersIInv` adds that `order_owner` is exact between commands and that an
id on its way in a `New` is nobody else's. One command changes the map once per event,
so the proof follows the map through `Dispatch` (`DispatchTrace`): after n events it
knows the orders that were live before, the new one included, without those whose
`Done` is among the n. What is sent to a connection is then, event by event, what
concerns it.

`ServerProofs`: `ServerIInv` relates the stages of handler, reader and writer of each
connection, who holds the submitter and the receiver, and the stage of
`serve_until`. The point that is not local is `HubHeld`: no handler appears once the
accept loop is left, so that "all handlers joined" stays true until the hub is
dropped. It is also why `register` never spins on the inbox of a hub that was stopped.
`DrainLeavesNothing` is a consequence.

### Only model-checked

- Liveness: every property stated with `~>`, under fairness. The prover has
  no rule for fairness and none for `ENABLED`.
- `FokFillsWhole` and `ImplementsPriceTime`: both compare the book with a sum or a choice over
  all resting orders (`fillable_qty_at` is a fold over levels within a fold over
  prices, with saturation and an early end). The folds of the community modules take
  operators as parameters, so that each would have to be restated as a function first.
- `Codec` and `Stream`: what a decoder makes of the bytes of an encoder is a property of
  recursive operators over byte sequences, and `Codec` is written with them.
- `Recovery`: the durable prefix and the replay are selections, concatenations and folds
  over sequences of segments, with operator parameters throughout.

## Not modelled

- Price arithmetic and display: the matcher only compares prices, so that their
  fixed-point scale does not influence it. Prices are a small range of integers.
  Quantities saturate in the code; in the model `FillableQtyAt` keeps its early
  return and the matcher's subtractions are shown never to go below zero.
- Timestamps: carried and encoded (in `Codec`), never read by the matcher.
- The read-only queries of the book that no other part uses.
- The bytes of a snapshot file: written and renamed as a whole, with a crash before
  and after each step, and read back by re-adding the orders; its encoding is a
  list of fixed-width fields like those `Codec` checks.
- File system errors on a running writer (a failed write in `append`, `commit` or
  a rotation): what they leave depends on the buffer and the file system, and no
  caller in the repository goes on after one. The loss of a directory entry for want
  of an fsync of the directory, and blocks that reach the disk out of order.
- The kinds of decoding errors: every caller treats them alike.
- Binding the listener, logging, the histograms and the printing of client and
  replay tool. The bench crate is a stub; the unit tests are read as
  documentation of what the code promises.
- Several client programs at once: they would use the same order ids.
