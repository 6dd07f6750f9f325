------------------------------- MODULE Server -------------------------------
(***************************************************************************)
(* The TCP server of bourse-server around the hub: the accept loop and its *)
(* shutdown (serve_until), one handler task per connection, its reader and *)
(* writer tasks, and the sockets.                                          *)
(*                                                                         *)
(* A step of a task is what it does between two awaits. Aborting a task    *)
(* drops it at its next await, and dropping a JoinHandle leaves its task   *)
(* running: an aborted handler gives up its reader and writer, which go    *)
(* on. Messages are whole frames here; module Stream has their bytes.      *)
(***************************************************************************)
EXTENDS Hub

CONSTANT SocketRoom   \* frames a socket buffers in each direction

ASSUME ServerAssumption == SocketRoom \in Nat \ {0}

VARIABLES
  main,      \* serve_until: "accepting", "draining", "aborting", "dropping",
             \* "joining" (the matcher thread), "returned", or "failed"
  handler,   \* "none", "spawned", "registering", "running" (awaits the
             \* reader), "ending" (awaits the writer), "done"
  aborted,   \* the handlers that abort was called on
  reader,    \* "none", "reading", "ended"
  pending,   \* the command a reader has decoded and is submitting
  writer,    \* "none", "writing", "aborted", "ended"
  chan,      \* the events in each connection's channel
  peer,      \* the client's end: "idle", "connected", "closed"
  up, down   \* the frames in each socket, to the server and to the client

tasks == <<handler, aborted, reader, pending, writer>>
sockets == <<chan, peer, up, down>>
serverVars == <<main, tasks, sockets>>
allVars == <<vars, serverVars>>

Garbage == [type |-> "Garbage"]   \* a frame that does not decode

ServerInit(peers) ==
  /\ Init
  /\ main = "accepting"
  /\ handler = [c \in Conns |-> "none"]
  /\ aborted = {}
  /\ reader = [c \in Conns |-> "none"]
  /\ pending = [c \in Conns |-> << >>]
  /\ writer = [c \in Conns |-> "none"]
  /\ peer = [c \in Conns |-> peers]
  /\ chan = [c \in Conns |-> << >>]
  /\ up = [c \in Conns |-> << >>]
  /\ down = [c \in Conns |-> << >>]

Live == {c \in Conns : handler[c] \notin {"none", "done"}}

-----------------------------------------------------------------------------
(* The client's end of a socket.                                           *)

PeerConnect(c) ==
  /\ peer[c] = "idle"
  /\ peer' = [peer EXCEPT ![c] = "connected"]
  /\ UNCHANGED <<vars, main, tasks, chan, up, down>>

PeerSend(c, frame) ==
  /\ peer[c] = "connected" /\ Len(up[c]) < SocketRoom
  /\ up' = [up EXCEPT ![c] = Append(@, frame)]
  /\ UNCHANGED <<vars, main, tasks, chan, peer, down>>

PeerReceive(c) ==
  /\ peer[c] = "connected" /\ down[c] # << >>
  /\ down' = [down EXCEPT ![c] = Tail(@)]
  /\ UNCHANGED <<vars, main, tasks, chan, peer, up>>

PeerClose(c) ==
  /\ peer[c] = "connected"
  /\ peer' = [peer EXCEPT ![c] = "closed"]
  /\ down' = [down EXCEPT ![c] = << >>]
  /\ UNCHANGED <<vars, main, tasks, chan, up>>

(* The client reads the end of the stream: the write half was dropped, or  *)
(* the whole stream with its handler or with the listener.                 *)
ServerClosed(c) ==
  /\ down[c] = << >>
  /\ \/ writer[c] = "ended"
     \/ handler[c] = "done" /\ writer[c] = "none"
     \/ handler[c] = "none" /\ main \in {"joining", "returned", "failed"}

-----------------------------------------------------------------------------
(* serve_until                                                             *)

Accept(c) ==
  /\ main = "accepting" /\ peer[c] # "idle" /\ handler[c] = "none"
  /\ handler' = [handler EXCEPT ![c] = "spawned"]
  /\ UNCHANGED <<vars, main, aborted, reader, pending, writer, sockets>>

(* An error of accept leaves serve_until at once: the JoinSet is dropped,  *)
(* which aborts the handlers and does not wait for them.                   *)
AcceptFails ==
  /\ main = "accepting"
  /\ main' = "failed"
  /\ aborted' = Live
  /\ UNCHANGED <<vars, handler, reader, pending, writer, sockets>>

Shutdown ==
  /\ main = "accepting"
  /\ main' = "draining"
  /\ UNCHANGED <<vars, tasks, sockets>>

(* Faulty: the deadline does not abort the handlers.                       *)
DeadlineWithoutAbort ==
  /\ main = "draining"
  /\ main' = "aborting"
  /\ UNCHANGED <<vars, tasks, sockets>>

DeadlineExpires ==
  /\ main = "draining"
  /\ main' = "aborting"
  /\ aborted' = Live
  /\ UNCHANGED <<vars, handler, reader, pending, writer, sockets>>

(* join_next has returned None.                                            *)
JoinedAll == main \in {"draining", "aborting"} /\ Live = {}

HandlersJoined ==
  /\ JoinedAll
  /\ main' = "dropping"
  /\ UNCHANGED <<vars, tasks, sockets>>

(* The last Arc<Hub> is dropped, by serve_until or, after accept failed,   *)
(* by the last handler: Drop sets the flag and joins the thread.           *)
DropHub ==
  /\ Live = {}
  /\ \/ main = "dropping" /\ main' = "joining"
     \/ main = "failed" /\ UNCHANGED main
  /\ RequestStop
  /\ UNCHANGED <<tasks, sockets>>

JoinMatcher ==
  /\ main = "joining" /\ phase = "exited"
  /\ main' = "returned"
  /\ UNCHANGED <<vars, tasks, sockets>>

-----------------------------------------------------------------------------
(* handle_connection                                                       *)

StartHandler(c) ==
  /\ handler[c] = "spawned"
  /\ handler' = [handler EXCEPT ![c] = "registering"]
  /\ UNCHANGED <<vars, main, aborted, reader, pending, writer, sockets>>

(* register, then spawn the reader and the writer.                         *)
RegisterConn(c) ==
  /\ handler[c] = "registering"
  /\ Register(c)
  /\ handler' = [handler EXCEPT ![c] = "running"]
  /\ reader' = [reader EXCEPT ![c] = "reading"]
  /\ writer' = [writer EXCEPT ![c] = "writing"]
  /\ UNCHANGED <<main, aborted, pending, sockets>>

(* Faulty: the writer is awaited without being aborted.                    *)
AwaitWriter(c) ==
  /\ handler[c] = "running" /\ reader[c] = "ended"
  /\ handler' = [handler EXCEPT ![c] = "ending"]
  /\ UNCHANGED <<vars, main, aborted, reader, pending, writer, sockets>>

(* The reader has returned: abort the writer.                              *)
AbortWriter(c) ==
  /\ handler[c] = "running" /\ reader[c] = "ended"
  /\ handler' = [handler EXCEPT ![c] = "ending"]
  /\ writer' = [writer EXCEPT ![c] = IF @ = "writing" THEN "aborted" ELSE @]
  /\ UNCHANGED <<vars, main, aborted, reader, pending, sockets>>

(* Faulty: the handler does not await the writer.                          *)
HandlerLeaves(c) ==
  /\ handler[c] = "ending"
  /\ handler' = [handler EXCEPT ![c] = "done"]
  /\ UNCHANGED <<vars, main, aborted, reader, pending, writer, sockets>>

HandlerReturns(c) ==
  /\ handler[c] = "ending" /\ writer[c] = "ended"
  /\ handler' = [handler EXCEPT ![c] = "done"]
  /\ UNCHANGED <<vars, main, aborted, reader, pending, writer, sockets>>

(* An aborted handler is dropped before its first step or at an await; the *)
(* tasks it spawned are detached.                                          *)
HandlerDropped(c) ==
  /\ c \in aborted /\ handler[c] \in {"spawned", "running", "ending"}
  /\ handler' = [handler EXCEPT ![c] = "done"]
  /\ UNCHANGED <<vars, main, aborted, reader, pending, writer, sockets>>

-----------------------------------------------------------------------------
(* reader_loop                                                             *)

ReadCommand(c) ==
  /\ reader[c] = "reading" /\ pending[c] = << >>
  /\ up[c] # << >> /\ Head(up[c]) # Garbage
  /\ pending' = [pending EXCEPT ![c] = <<Head(up[c])>>]
  /\ up' = [up EXCEPT ![c] = Tail(@)]
  /\ UNCHANGED <<vars, main, handler, aborted, reader, writer, chan, peer, down>>

SubmitCommand(c) ==
  /\ pending[c] # << >>
  /\ Submit(c, Head(pending[c]))
  /\ pending' = [pending EXCEPT ![c] = << >>]
  /\ UNCHANGED <<main, handler, aborted, reader, writer, sockets>>

(* Faulty: the submitter outlives the reader.                              *)
ReaderKeepsSubmitter(c) ==
  /\ reader[c] = "reading" /\ pending[c] = << >>
  /\ peer[c] = "closed" \/ (up[c] # << >> /\ Head(up[c]) = Garbage)
  /\ reader' = [reader EXCEPT ![c] = "ended"]
  /\ UNCHANGED <<vars, main, handler, aborted, pending, writer, sockets>>

(* The end of the stream, a connection reset (frames not read yet are      *)
(* lost) or a frame that does not decode: the reader returns and drops its *)
(* submitter.                                                              *)
ReaderReturns(c) ==
  /\ reader[c] = "reading" /\ pending[c] = << >>
  /\ peer[c] = "closed" \/ (up[c] # << >> /\ Head(up[c]) = Garbage)
  /\ DropSubmitter(c)
  /\ reader' = [reader EXCEPT ![c] = "ended"]
  /\ UNCHANGED <<main, handler, aborted, pending, writer, sockets>>

-----------------------------------------------------------------------------
(* writer_loop                                                             *)

WriteEvent(c) ==
  /\ writer[c] = "writing" /\ chan[c] # << >>
  /\ peer[c] = "connected" /\ Len(down[c]) < SocketRoom
  /\ down' = [down EXCEPT ![c] = Append(@, Head(chan[c]))]
  /\ chan' = [chan EXCEPT ![c] = Tail(@)]
  /\ UNCHANGED <<vars, main, tasks, peer, up>>

(* Some UnboundedSender of the channel exists: in routes, or in a Connect  *)
(* that nobody has popped.                                                 *)
SenderExists(c) ==
  \/ c \in routes /\ phase # "exited"
  \/ Connect(c) \in Range(inbox)

(* The writer ends: aborted at an await, after a failed write, or because  *)
(* recv returned None. Its receiver is dropped.                            *)
WriterReturns(c) ==
  /\ \/ writer[c] = "aborted"
     \/ writer[c] = "writing" /\ chan[c] # << >> /\ peer[c] = "closed"
     \/ writer[c] = "writing" /\ chan[c] = << >> /\ ~SenderExists(c)
  /\ DropReceiver(c)
  /\ writer' = [writer EXCEPT ![c] = "ended"]
  /\ chan' = [chan EXCEPT ![c] = << >>]
  /\ UNCHANGED <<main, handler, aborted, reader, pending, peer, up, down>>

-----------------------------------------------------------------------------
(* The matcher thread: what it sends goes to the channels.                 *)
RunMatcher ==
  /\ MatcherThread
  /\ chan' = IF phase = "pop" /\ inbox # << >> /\ Head(inbox).type = "Cmd"
             THEN [c \in Conns |-> chan[c] \o sent'[c]] ELSE chan
  /\ UNCHANGED <<main, tasks, peer, up, down>>

MainTask ==
  \/ \E c \in Conns : Accept(c)
  \/ DeadlineExpires \/ HandlersJoined \/ DropHub \/ JoinMatcher

HandlerTask(c) ==
  \/ StartHandler(c) \/ RegisterConn(c) \/ AbortWriter(c) \/ HandlerReturns(c)
  \/ HandlerDropped(c)

ReaderTask(c) == ReadCommand(c) \/ SubmitCommand(c) \/ ReaderReturns(c)

WriterTask(c) == WriteEvent(c) \/ WriterReturns(c)

Runtime ==
  \/ MainTask
  \/ \E c \in Conns : HandlerTask(c) \/ ReaderTask(c) \/ WriterTask(c)

ServerNext == Runtime \/ AcceptFails \/ Shutdown \/ RunMatcher

(* The matcher thread runs, and the runtime runs some task whenever one is *)
(* ready or a timer has fired. Once the clients pause every task is ready  *)
(* finitely often, so it need not be fair among them. Nothing is assumed   *)
(* of shutdown, of accept failing or of the clients.                       *)
ServerFairness == WF_allVars(RunMatcher) /\ WF_allVars(Runtime)

-----------------------------------------------------------------------------
(* Properties                                                              *)

(* Type invariant of the server's own state.                               *)
ServerTypeOK ==
  /\ main \in {"accepting", "draining", "aborting", "dropping", "joining",
               "returned", "failed"}
  /\ handler \in [Conns -> {"none", "spawned", "registering", "running",
                            "ending", "done"}]
  /\ reader \in [Conns -> {"none", "reading", "ended"}]
  /\ writer \in [Conns -> {"none", "writing", "aborted", "ended"}]
  /\ conn \in [Conns -> {"new", "open", "gone"}]
  /\ aborted \subseteq Conns /\ rxOpen \subseteq Conns /\ stop \in BOOLEAN

(* The reader and the writer exist as far as the handler has come, the     *)
(* submitter and the receiver as long as they do; a handler that was not   *)
(* aborted is done only when both have returned.                           *)
TasksInStep ==
  \A c \in Conns :
    /\ reader[c] = "none" <=> writer[c] = "none"
    /\ handler[c] \in {"none", "spawned", "registering"} => reader[c] = "none"
    /\ handler[c] = "running" => reader[c] # "none"
    /\ handler[c] = "ending" => reader[c] = "ended"
    /\ handler[c] = "done" /\ c \notin aborted =>
         reader[c] = "ended" /\ writer[c] = "ended"
    /\ reader[c] = "none" <=> conn[c] = "new"
    /\ reader[c] = "reading" <=> conn[c] = "open"
    /\ writer[c] \in {"writing", "aborted"} <=> c \in rxOpen

(* The hub is dropped once, and only when no handler is left; nobody is    *)
(* aborted before accept fails or the deadline expires.                    *)
HubHeld ==
  /\ main \in {"accepting", "draining"} => aborted = {}
  /\ main \in {"dropping", "joining", "returned"} => Live = {}
  /\ stop => main \in {"joining", "returned", "failed"} /\ Live = {}

(* The inductive invariant of serve_until and its tasks: what the handlers *)
(* hold, and that none appears once the accept loop is left.               *)
ServerIInv == ServerTypeOK /\ TasksInStep /\ HubHeld

(* Some client sends again and again, without end.                         *)
SendingForever ==
  []<><<\E c \in Conns : Len(up'[c]) > Len(up[c])>>_up

(* serve_until comes back after shutdown unless a client sends for ever:   *)
(* idle connections are aborted at the deadline, a full inbox or socket    *)
(* does not hold it up, and the matcher thread ends. It ends as well after *)
(* accept has failed. A client that never pauses can hold it up: its       *)
(* reader outlives the abort, and the thread that Hub::drop joins looks at *)
(* the flag only after a pass without work.                                *)
ServeReturns ==
  \/ SendingForever
  \/ main \in {"draining", "failed"}
       ~> main = "returned" \/ (main = "failed" /\ phase = "exited")

(* A shutdown that aborted nobody leaves nothing behind: no reader or      *)
(* writer task outlives serve_until.                                       *)
DrainedIsClean ==
  main = "returned" /\ aborted = {} =>
    \A c \in Conns : reader[c] # "reading" /\ writer[c] \in {"none", "ended"}

Pushing == \E c \in Conns : pending[c] # << >> \/ handler[c] = "registering"

(* submit and register come back while the hub runs: a full inbox is       *)
(* emptied by the matcher thread, which waits for nobody. They only try    *)
(* again, so a client that sends for ever may win every free slot.         *)
SubmitReturns == SendingForever \/ (Pushing ~> ~Pushing \/ stop)

GoneHeld == \E c \in Live : peer[c] = "closed"

(* A connection whose client has gone is released: its handler, which      *)
(* keeps the hub alive, ends even if its writer has nothing to write and   *)
(* the Disconnect that would have closed its channel was dropped. No       *)
(* client comes back, so none held means that each was released.           *)
ConnectionReleased == SendingForever \/ (GoneHeld ~> ~GoneHeld)

(* "Returns once everything is cleaned up" (serve_until): no task of any   *)
(* connection is left.                                                     *)
CleanedUp ==
  main = "returned" =>
    \A c \in Conns : reader[c] # "reading" /\ writer[c] \in {"none", "ended"}
=============================================================================
