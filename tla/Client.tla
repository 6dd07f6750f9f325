------------------------------- MODULE Client -------------------------------
(***************************************************************************)
(* The server with its clients. One of three populations is chosen at the  *)
(* start: the bourse client program (bourse-client's main: round trips on  *)
(* one connection, then a pipelined burst on another, with the same ids),  *)
(* peers that send a few frames, read and close as they please, or peers   *)
(* of which one may send cancels for ever.                                 *)
(***************************************************************************)
EXTENDS Server

CONSTANTS
  RttConn, BurstConn,   \* the program's two connections
  NRtt, WarmupCap,      \* n_rtt, and the 100 of the warmup
  NThroughput,          \* n_throughput
  PeerFrames, MaxFrames \* bound: the frames the peers may send

VARIABLES
  population,   \* "client", "peers" or "endless"
  program,      \* the client: its place pc, iteration i, orders written,
                \* Done(Filled) events got
  frames        \* how many frames the peers have sent

clientVars == <<allVars, population, program, frames>>

ClientInit ==
  /\ population \in {"client", "peers", "endless"}
  /\ ServerInit(IF population = "client" THEN "idle" ELSE "connected")
  /\ program = [pc |-> "start", i |-> 0, written |-> 0, got |-> 0]
  /\ frames = 0

Price100 == 1   \* 100 in the code

LimitOrder(id, side) ==
  NewCommand([kind |-> "Limit", price |-> Price100, id |-> id, side |-> side,
              qty |-> 1])

At(pc) == population = "client" /\ program.pc = pc

Goto(pc) ==
  /\ program' = [program EXCEPT !.pc = pc]
  /\ UNCHANGED <<population, frames>>

-----------------------------------------------------------------------------
(* rtt_bench: the ids of the warmup, then those of the measured iterations *)

Warmup == IF NRtt < WarmupCap THEN NRtt ELSE WarmupCap
Base == Warmup * 2 + 1

SellId(i) == IF i < Warmup THEN i * 2 + 1 ELSE Base + (i - Warmup) * 2
BuyId(i) == SellId(i) + 1

RttConnect == At("start") /\ PeerConnect(RttConn) /\ Goto("sell")

RttSell ==
  /\ At("sell") /\ program.i < Warmup + NRtt
  /\ PeerSend(RttConn, LimitOrder(SellId(program.i), "Sell"))
  /\ Goto("accepted")

RttBuy ==
  /\ At("buy")
  /\ PeerSend(RttConn, LimitOrder(BuyId(program.i), "Buy"))
  /\ Goto("filled")

IsAccepted(e, id) == e.type = "Accepted" /\ e.id = id
IsFilled(e) == e.type = "Done" /\ e.reason = "Filled"

(* drain_until: reads events until the one it waits for.                   *)
RttDrain ==
  /\ \/ At("accepted") \/ At("filled")
  /\ PeerReceive(RttConn)
  /\ \E e \in {Head(down[RttConn])} :
       program' =
         IF At("accepted") /\ IsAccepted(e, SellId(program.i))
         THEN [program EXCEPT !.pc = "buy"]
         ELSE IF At("filled") /\ IsFilled(e) /\ e.id = BuyId(program.i)
         THEN [program EXCEPT !.pc = "sell", !.i = @ + 1]
         ELSE program
  /\ UNCHANGED <<population, frames>>

RttDone ==
  /\ At("sell") /\ program.i = Warmup + NRtt
  /\ PeerClose(RttConn) /\ Goto("connect")

(* throughput_bench                                                        *)

BurstConnect == At("connect") /\ PeerConnect(BurstConn) /\ Goto("burst")

BurstWrite ==
  /\ At("burst") /\ program.written < NThroughput
  /\ \E i \in {program.written + 1} :
       PeerSend(BurstConn, LimitOrder(i, IF i % 2 = 1 THEN "Sell" ELSE "Buy"))
  /\ program' = [program EXCEPT !.written = @ + 1]
  /\ UNCHANGED <<population, frames>>

(* Faulty: a Done is expected for every order.                             *)
AllDones == NThroughput

TargetDones == NThroughput \div 2

BurstReceive ==
  /\ At("burst") /\ program.got < TargetDones
  /\ PeerReceive(BurstConn)
  /\ \E e \in {Head(down[BurstConn])} :
       program' = IF IsFilled(e) /\ e.id % 2 = 0
                  THEN [program EXCEPT !.got = @ + 1] ELSE program
  /\ UNCHANGED <<population, frames>>

BurstDone ==
  /\ At("burst") /\ program.written = NThroughput /\ program.got = TargetDones
  /\ PeerClose(BurstConn) /\ Goto("finished")

(* The server has closed the connection: drain_until fails, and the burst  *)
(* ends with the fills it has seen or with a failed write.                 *)
GiveUp ==
  \E c \in {RttConn, BurstConn} :
    /\ population = "client" /\ program.pc \notin {"finished", "failed"}
    /\ ServerClosed(c)
    /\ PeerClose(c) /\ Goto("failed")

ClientProgram ==
  \/ RttConnect \/ RttSell \/ RttBuy \/ RttDrain \/ RttDone
  \/ BurstConnect \/ BurstWrite \/ BurstReceive \/ BurstDone \/ GiveUp

-----------------------------------------------------------------------------
(* External: peers that keep no rule, connected before the server starts;  *)
(* one of them sends.                                                      *)
Peers ==
  /\ population # "client"
  /\ \E c \in Conns :
       \/ /\ PeerReceive(c) \/ PeerClose(c)
          /\ UNCHANGED frames
       \/ /\ population = "peers" /\ c = RttConn /\ frames < MaxFrames
          /\ \E frame \in PeerFrames : PeerSend(c, frame)
          /\ frames' = frames + 1
       \/ /\ population = "endless" /\ c = RttConn
          /\ PeerSend(c, CancelCommand(1))
          /\ UNCHANGED frames
  /\ UNCHANGED <<population, program>>

ClientNext ==
  \/ ServerNext /\ UNCHANGED <<population, program, frames>>
  \/ ClientProgram
  \/ Peers

ClientSpec ==
  /\ ClientInit /\ [][ClientNext]_clientVars
  /\ ServerFairness
  /\ WF_clientVars(ClientProgram)

(* The client program ends with all its round trips and fills, unless the  *)
(* server is shut down under it: neither end waits for the other for ever, *)
(* no reply it waits for is lost or goes elsewhere, and the ids the burst  *)
(* uses again are free by then.                                            *)
ClientFinishes ==
  population = "client" ~> program.pc = "finished" \/ main # "accepting"
=============================================================================
