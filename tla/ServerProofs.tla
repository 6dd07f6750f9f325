---------------------------- MODULE ServerProofs -----------------------------
(***************************************************************************)
(* The server's tasks and its shutdown are safe for any set of             *)
(* connections, any clients and any capacities.                            *)
(***************************************************************************)
EXTENDS Client, TLAPS

(* The provers of a leaf that names none, and their time in seconds.        *)
USE SMTT(60), ZenonT(60)

(* What the invariant talks about.                                         *)
held == <<main, handler, reader, writer, conn, aborted, rxOpen, stop>>

(* Whoever changes nothing of it keeps the invariant.                      *)
LEMMA HeldUnchanged ==
  ASSUME ServerIInv, UNCHANGED held
  PROVE  ServerIInv'
BY DEF held, ServerIInv, ServerTypeOK, TasksInStep, HubHeld, Live

(* serve_until starts with no connection.                                  *)
LEMMA ServerInitInv ==
  ASSUME NEW peers, ServerInit(peers)
  PROVE  ServerIInv
BY ZenonT(60) DEF ServerInit, Init, ServerIInv, ServerTypeOK, TasksInStep, HubHeld, Live

(* The accept loop, the shutdown and the drop of the hub.                  *)
LEMMA MainInv ==
  ASSUME ServerIInv, MainTask \/ AcceptFails \/ Shutdown
  PROVE  ServerIInv'
<1> USE DEF ServerIInv, ServerTypeOK, Live, tasks, sockets, vars, gateways
<1>1. ASSUME NEW c \in Conns, Accept(c) PROVE ServerIInv'
  BY <1>1 DEF Accept, TasksInStep, HubHeld
<1>2. CASE AcceptFails
  BY <1>2 DEF AcceptFails, TasksInStep, HubHeld
<1>3. CASE Shutdown
  BY <1>3 DEF Shutdown, TasksInStep, HubHeld
<1>4. CASE DeadlineExpires
  BY <1>4 DEF DeadlineExpires, TasksInStep, HubHeld
<1>5. CASE HandlersJoined
  BY <1>5 DEF HandlersJoined, JoinedAll, TasksInStep, HubHeld
<1>6. CASE DropHub
  BY <1>6 DEF DropHub, RequestStop, TasksInStep, HubHeld
<1>7. CASE JoinMatcher
  BY <1>7 DEF JoinMatcher, TasksInStep, HubHeld
<1> QED BY <1>1, <1>2, <1>3, <1>4, <1>5, <1>6, <1>7 DEF MainTask

(* handle_connection.                                                      *)
LEMMA HandlerInv ==
  ASSUME ServerIInv, NEW c \in Conns, HandlerTask(c)
  PROVE  ServerIInv'
<1> USE DEF ServerIInv, ServerTypeOK, Live, tasks, sockets, vars, gateways
<1>1. CASE StartHandler(c)
  BY <1>1 DEF StartHandler, TasksInStep, HubHeld
<1>2. CASE RegisterConn(c)
  BY <1>2 DEF RegisterConn, Register, TasksInStep, HubHeld
<1>3. CASE AbortWriter(c)
  BY <1>3 DEF AbortWriter, TasksInStep, HubHeld
<1>4. CASE HandlerReturns(c)
  BY <1>4 DEF HandlerReturns, TasksInStep, HubHeld
<1>5. CASE HandlerDropped(c)
  BY <1>5 DEF HandlerDropped, TasksInStep, HubHeld
<1> QED BY <1>1, <1>2, <1>3, <1>4, <1>5 DEF HandlerTask

(* reader_loop and writer_loop.                                            *)
LEMMA ReaderWriterInv ==
  ASSUME ServerIInv, NEW c \in Conns, ReaderTask(c) \/ WriterTask(c)
  PROVE  ServerIInv'
<1> USE DEF tasks, sockets, vars, gateways
<1>1. CASE ReadCommand(c) \/ SubmitCommand(c) \/ WriteEvent(c)
  <2>1. UNCHANGED held
    BY <1>1 DEF ReadCommand, SubmitCommand, Submit, WriteEvent, held
  <2> QED BY <2>1, HeldUnchanged
<1>2. CASE ReaderReturns(c)
  BY <1>2 DEF ReaderReturns, DropSubmitter, ServerIInv, ServerTypeOK,
              TasksInStep, HubHeld, Live
<1>3. CASE WriterReturns(c)
  BY <1>3 DEF WriterReturns, DropReceiver, ServerIInv, ServerTypeOK,
              TasksInStep, HubHeld, Live
<1> QED BY <1>1, <1>2, <1>3 DEF ReaderTask, WriterTask

(* The matcher thread and the clients touch nothing that is held.          *)
LEMMA MatcherHolds ==
  ASSUME RunMatcher
  PROVE  UNCHANGED held
<1>1. UNCHANGED <<main, tasks>>
  BY DEF RunMatcher
<1>2. UNCHANGED <<stop, gateways>>
  <2>1. ASSUME NEW m, Pop(m) PROVE UNCHANGED <<stop, gateways>>
    BY <2>1 DEF Pop
  <2> QED BY <2>1 DEF RunMatcher, MatcherThread, HandleConnect,
             HandleDisconnect, HandleCommand, PopNothing, CheckStop
<1> QED BY <1>1, <1>2 DEF held, tasks, gateways

(* So do the sockets.                                                      *)
LEMMA ClientsHold ==
  ASSUME ClientProgram \/ Peers
  PROVE  UNCHANGED held
<1> USE DEF held, tasks, vars, gateways
<1>1. ASSUME NEW c, PeerConnect(c) PROVE UNCHANGED held
  BY <1>1 DEF PeerConnect
<1>2. ASSUME NEW c, NEW frame, PeerSend(c, frame) PROVE UNCHANGED held
  BY <1>2 DEF PeerSend
<1>3. ASSUME NEW c, PeerReceive(c) PROVE UNCHANGED held
  BY <1>3 DEF PeerReceive
<1>4. ASSUME NEW c, PeerClose(c) PROVE UNCHANGED held
  BY <1>4 DEF PeerClose
<1> HIDE DEF held, tasks, vars, gateways
<1> QED BY <1>1, <1>2, <1>3, <1>4
        DEF ClientProgram, Peers, RttConnect, RttSell, RttBuy, RttDrain, RttDone,
            BurstConnect, BurstWrite, BurstReceive, BurstDone, GiveUp

(* Every step of the server, its runtime and its clients.                  *)
LEMMA ClientNextInv ==
  ASSUME ServerIInv, [ClientNext]_clientVars
  PROVE  ServerIInv'
<1>1. CASE UNCHANGED clientVars
  <2>1. UNCHANGED held
    BY <1>1 DEF clientVars, allVars, serverVars, vars, gateways, tasks, held
  <2> QED BY <2>1, HeldUnchanged
<1>2. CASE Runtime
  BY <1>2, MainInv, HandlerInv, ReaderWriterInv DEF Runtime
<1>3. CASE AcceptFails \/ Shutdown
  BY <1>3, MainInv
<1>4. CASE RunMatcher
  BY <1>4, MatcherHolds, HeldUnchanged
<1>5. CASE ClientProgram \/ Peers
  BY <1>5, ClientsHold, HeldUnchanged
<1> QED BY <1>1, <1>2, <1>3, <1>4, <1>5 DEF ClientNext, ServerNext

(* Each task holds what it should, and the hub outlives every handler,     *)
(* through accept, register, disconnect, abort and shutdown.               *)
THEOREM ServerInvariance == ClientSpec => []ServerIInv
<1>1. ClientInit => ServerIInv
  BY ServerInitInv DEF ClientInit
<1> QED BY <1>1, ClientNextInv, PTL DEF ClientSpec

(* A drain that aborts no handler leaves no task behind.                   *)
THEOREM DrainLeavesNothing == ClientSpec => []DrainedIsClean
<1>1. ServerIInv => DrainedIsClean
  BY DEF ServerIInv, ServerTypeOK, TasksInStep, HubHeld, DrainedIsClean, Live
<1> QED BY <1>1, ServerInvariance, PTL
=============================================================================
