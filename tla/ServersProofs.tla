--------------------------- MODULE ServersProofs ---------------------------
(***************************************************************************)
(* Proofs about Servers, for every number of clients and of restarts.      *)
(***************************************************************************)
EXTENDS Servers, TLAPS

(* The call returns what Serve returned: there is none without the other.  *)
ReturnedIsServed == fn = "returned" => Served

(* A server told to stop while it serves has lost its listener, and one    *)
(* told before does not come to serve: Serve, which leaves the address as  *)
(* it finds it, cannot return with the address taken.                      *)
StoppedIsClosed == stopping /\ serve = "serving" => port # "ours"

ServerInv == TypeOK /\ ReturnedIsServed /\ StoppedIsClosed

-----------------------------------------------------------------------------
LEMMA InitServerInv == Init => ServerInv
<1> SUFFICES ASSUME Init PROVE ServerInv
  OBVIOUS
<1>1. done \in BOOLEAN /\ stopping \in BOOLEAN /\ expired \in BOOLEAN /\ ~ stopping
  BY Zenon DEF Init
<1>2. restarts \in 0 .. MaxRestarts /\ orphans \in 0 .. restarts
  BY BoundsAssumption DEF Init
<1>3. TypeOK
  BY <1>1, <1>2 DEF Init, TypeOK
<1> QED
  BY <1>1, <1>3 DEF Init, ServerInv, ReturnedIsServed, StoppedIsClosed

(* Around the servers: only Restart needs more than the types, namely that *)
(* the call it repeats left the address.                                   *)
LEMMA SurroundingsServerInv ==
  ASSUME ServerInv, ContextDone \/ Restart \/ OthersPort
  PROVE  ServerInv'
<1> USE DEF ServerInv, ReturnedIsServed, StoppedIsClosed, Served
<1>1. CASE ContextDone
  <2>1. done' \in BOOLEAN /\ done'
    BY <1>1, Zenon DEF ContextDone
  <2>2. UNCHANGED <<kind, restarts, fn, serve, port, stopping, stopper, orphans,
                    expired, handler, gone>>
    BY <1>1 DEF ContextDone, serveVars, stopVars, clientVars
  <2> QED
    BY <2>1, <2>2 DEF TypeOK
<1>2. CASE Restart
  <2>1. /\ fn = "returned" /\ restarts < MaxRestarts
        /\ restarts' = restarts + 1 /\ orphans' = orphans + 1
        /\ fn' = "running" /\ serve' = "new"
        /\ UNCHANGED <<kind, done, port, stopping, stopper, expired, handler, gone>>
    BY <1>2 DEF Restart, clientVars
  <2>2. port # "ours"
    BY <2>1 DEF TypeOK
  <2>3. restarts' \in 0 .. MaxRestarts /\ orphans' \in 0 .. restarts'
    BY <2>1, BoundsAssumption DEF TypeOK
  <2> QED
    BY <2>1, <2>2, <2>3 DEF TypeOK
<1>3. CASE OthersPort
  <2>1. /\ port' \in {"free", "other"}
        /\ UNCHANGED <<kind, done, restarts, fn, serve, stopping, stopper, orphans,
                       expired, handler, gone>>
    BY <1>3 DEF OthersPort, lifeVars, stopVars, clientVars
  <2> QED
    BY <2>1 DEF TypeOK
<1> QED
  BY <1>1, <1>2, <1>3

(* The address is taken by Bind and given back by BeginServe, when it      *)
(* comes too late, by ServeFails, or by BeginStop.                         *)
LEMMA ServingServerInv ==
  ASSUME ServerInv, Serving \/ ServeFails
  PROVE  ServerInv'
<1> USE DEF ServerInv, ReturnedIsServed, StoppedIsClosed, Served
<1>0. UNCHANGED <<kind, done, restarts, fn, stopping, orphans, expired, handler, gone>>
  BY DEF Serving, ServeFails, BeginListen, Bind, BindFails, BeginServe, ServeReturns,
         lifeVars, stopVars, clientVars
<1>1. CASE BeginListen
  BY <1>0, <1>1 DEF BeginListen, stopVars, TypeOK
<1>2. CASE Bind
  BY <1>0, <1>2 DEF Bind, TypeOK
<1>3. CASE BindFails
  BY <1>0, <1>3 DEF BindFails, stopVars, TypeOK
<1>4. CASE BeginServe
  BY <1>0, <1>4 DEF BeginServe, stopVars, TypeOK
<1>5. CASE ServeFails
  BY <1>0, <1>5 DEF ServeFails, stopVars, TypeOK
<1>6. CASE ServeReturns
  BY <1>0, <1>6 DEF ServeReturns, stopVars, TypeOK
<1> QED
  BY <1>1, <1>2, <1>3, <1>4, <1>5, <1>6 DEF Serving

LEMMA StoppingServerInv ==
  ASSUME ServerInv, Stopping \/ Expire \/ OrphanEnds
  PROVE  ServerInv'
<1> USE DEF ServerInv, ReturnedIsServed, StoppedIsClosed, Served
<1>0. UNCHANGED <<kind, done, restarts, serve, handler, gone>>
  BY DEF Stopping, BeginStop, StopEnds, StartReturns, ServeResult, Expire, OrphanEnds,
         lifeVars, serveVars, clientVars
<1>1. CASE BeginStop
  <2>1. stopping' \in BOOLEAN /\ stopping' /\ done
    BY <1>1, Zenon DEF BeginStop
  <2>2. /\ port' = IF serve = "serving" THEN "free" ELSE port
        /\ stopper' = "shutdown"
        /\ UNCHANGED <<fn, orphans, expired>>
    BY <1>1 DEF BeginStop
  <2> QED
    BY <1>0, <2>1, <2>2 DEF TypeOK
<1>2. CASE StopEnds
  BY <1>0, <1>2 DEF StopEnds, serveVars, TypeOK
<1>3. CASE StartReturns
  BY <1>0, <1>3 DEF StartReturns, serveVars, TypeOK
<1>4. CASE ServeResult
  BY <1>0, <1>4 DEF ServeResult, serveVars, stopVars, TypeOK
<1>5. CASE Expire
  <2>1. expired' \in BOOLEAN
    BY <1>5, Zenon DEF Expire
  <2>2. UNCHANGED <<fn, port, stopping, stopper, orphans>>
    BY <1>5 DEF Expire, serveVars
  <2> QED
    BY <1>0, <2>1, <2>2 DEF TypeOK
<1>6. CASE OrphanEnds
  <2>1. orphans > 0 /\ orphans' = orphans - 1
        /\ UNCHANGED <<fn, port, stopping, stopper, expired>>
    BY <1>6 DEF OrphanEnds, serveVars
  <2>2. orphans' \in 0 .. restarts
    BY <2>1, BoundsAssumption DEF TypeOK
  <2> QED
    BY <1>0, <2>1, <2>2 DEF TypeOK
<1> QED
  BY <1>1, <1>2, <1>3, <1>4, <1>5, <1>6 DEF Stopping

(* The clients and the handlers touch nothing else.                        *)
LEMMA ClientServerInv ==
  ASSUME ServerInv, NEW c \in Clients, Request(c) \/ Leave(c) \/ Handling(c)
  PROVE  ServerInv'
<1>1. /\ UNCHANGED <<kind, done, restarts, fn, serve, port, stopping, stopper, orphans,
                     expired>>
      /\ \/ UNCHANGED handler
         \/ \E h \in {"none", "called", "open"} : handler' = [handler EXCEPT ![c] = h]
      /\ gone' \in {gone, gone \cup {c}, gone \ {c}}
  BY DEF Request, Leave, Handling, Answer, OpenStream, CloseStream, lifeVars, serveVars,
         stopVars
<1>2. handler' \in [Clients -> {"none", "called", "open"}] /\ gone' \subseteq Clients
  BY <1>1 DEF ServerInv, TypeOK
<1> QED
  BY <1>1, <1>2 DEF ServerInv, TypeOK, ReturnedIsServed, StoppedIsClosed, Served

LEMMA NextServerInv == ServerInv /\ [Next]_vars => ServerInv'
<1> SUFFICES ASSUME ServerInv, [Next]_vars PROVE ServerInv'
  OBVIOUS
<1>1. CASE ContextDone \/ Restart \/ OthersPort
  BY <1>1, SurroundingsServerInv
<1>2. CASE Serving \/ ServeFails
  BY <1>2, ServingServerInv
<1>3. CASE Stopping \/ Expire \/ OrphanEnds
  BY <1>3, StoppingServerInv
<1>4. CASE \E c \in Clients : Request(c) \/ Leave(c) \/ Handling(c)
  BY <1>4, ClientServerInv
<1>5. CASE UNCHANGED vars
  BY <1>5 DEF vars, lifeVars, serveVars, stopVars, clientVars, ServerInv, TypeOK,
              ReturnedIsServed, StoppedIsClosed, Served
<1> QED
  BY <1>1, <1>2, <1>3, <1>4, <1>5 DEF Next

LEMMA Invariant == Spec => []ServerInv
BY InitServerInv, NextServerInv, PTL DEF Spec

-----------------------------------------------------------------------------
(* The state of the three servers has its types: among them, a server is   *)
(* told to stop only once its context is done, and a listener has the      *)
(* address only between net.Listen and the end of Serve.                   *)
THEOREM TypeCorrect == Spec => []TypeOK
<1>1. ServerInv => TypeOK
  BY DEF ServerInv
<1> QED
  BY <1>1, Invariant, PTL

(* When AdminServer.Start, the Fn of fk-hello-http or                      *)
(* StartLogGatewayServer has returned, its address is free of it, however  *)
(* Serve, Shutdown and the restarts of the worker raced.                   *)
THEOREM Released == Spec => []PortReleased
<1>1. ServerInv => PortReleased
  BY DEF ServerInv, TypeOK, ReturnedIsServed, Served, PortReleased
<1> QED
  BY <1>1, Invariant, PTL
=============================================================================
