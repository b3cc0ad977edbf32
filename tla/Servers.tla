------------------------------ MODULE Servers ------------------------------
(***************************************************************************)
(* The three servers of the program, each by the call that runs it until   *)
(* its context is done:                                                    *)
(*   admin    AdminServer.Start (cmd/rk/http_admin_server_gen.go), whose   *)
(*            SSE handler (http_admin_logs_gen.go) subscribes to the bus;  *)
(*   hello    the Fn of fk-hello-http, a worker of the site domain         *)
(*            (kernels/examples/site/site_domain_gen.go);                  *)
(*   gateway  StartLogGatewayServer (cmd/rk/log_gateway_server_gen.go).    *)
(*                                                                         *)
(* net/http and gRPC are external, as their documentation has them: a      *)
(* server that was told to stop serves no more, even when Serve is called  *)
(* after that; http.Server.Serve returns at once and Shutdown waits for    *)
(* the handlers until its context ends; GracefulStop waits for them        *)
(* without a limit, and Serve for GracefulStop.                            *)
(***************************************************************************)
EXTENDS Naturals

CONSTANTS
  Clients,
  MaxRestarts   (* bound of the model: restarts of the worker by Supervisor *)

ASSUME BoundsAssumption == MaxRestarts \in Nat

VARIABLES
  kind,      (* which of the servers this is                                *)
  done,      (* its context is done                                         *)
  fn,        (* the call: running or returned                               *)
  serve,     (* where ListenAndServe stands, or net.Listen and Serve        *)
  stopping,  (* the server was told to stop                                 *)
  stopper,   (* who tells it: the select of Start, or a goroutine           *)
  orphans,   (* goroutines of earlier calls of Fn that wait for the context *)
  restarts,
  expired,   (* the 5 seconds of shutdownCtx have passed                    *)
  port,      (* who listens at the address                                  *)
  handler,   (* where the handler of a client's request stands              *)
  gone       (* the clients that have left, their request's context is done *)

lifeVars == <<kind, done, restarts>>
serveVars == <<serve, port>>
stopVars == <<stopping, stopper, orphans, expired>>
clientVars == <<handler, gone>>
vars == <<lifeVars, fn, serveVars, stopVars, clientVars>>

TypeOK ==
  /\ kind \in {"admin", "hello", "gateway"}
  /\ done \in BOOLEAN
  /\ fn \in {"running", "returned"}
  /\ serve \in {"new", "listen", "bound", "serving", "closed", "failed"}
  /\ stopping \in BOOLEAN /\ (stopping => done)
  /\ stopper \in {"off", "wait", "shutdown", "ended"}
  /\ restarts \in 0 .. MaxRestarts /\ orphans \in 0 .. restarts
  /\ expired \in BOOLEAN
  /\ port \in {"free", "ours", "other"}
  /\ (port = "ours" => serve \in {"bound", "serving"})
  /\ handler \in [Clients -> {"none", "called", "open"}]
  /\ gone \subseteq Clients

(* The goroutine of the gateway is started behind its net.Listen.          *)
Init ==
  /\ kind \in {"admin", "hello", "gateway"}
  /\ done = FALSE
  /\ fn = "running"
  /\ serve = "new"
  /\ stopping = FALSE /\ expired = FALSE
  /\ orphans = 0 /\ restarts = 0
  /\ stopper = IF kind = "gateway" THEN "off" ELSE "wait"
  /\ port \in {"free", "other"}
  /\ handler = [c \in Clients |-> "none"]
  /\ gone = {}

-----------------------------------------------------------------------------
(* Around the servers.                                                     *)

ContextDone ==
  /\ ~ done
  /\ done' = TRUE
  /\ UNCHANGED <<kind, restarts, fn, serveVars, stopVars, clientVars>>

(* Supervisor calls the Fn of hello again: with a new server and a new     *)
(* goroutine, while that of the last call waits on.  An accepted request   *)
(* is not told from one of the new server: it ends by itself.              *)
Restart ==
  /\ kind = "hello" /\ fn = "returned" /\ ~ done
  /\ restarts < MaxRestarts
  /\ restarts' = restarts + 1
  /\ fn' = "running"
  /\ serve' = "new"
  /\ orphans' = orphans + 1
  /\ UNCHANGED <<kind, done, port, stopping, stopper, expired, clientVars>>

(* Another process takes the port or gives it back.                        *)
OthersPort ==
  /\ port' \in {"free", "other"} \ {port} /\ port # "ours"
  /\ UNCHANGED <<lifeVars, fn, serve, stopVars, clientVars>>

-----------------------------------------------------------------------------
(* Listening and serving.                                                  *)

(* ListenAndServe looks whether it was told to stop; gRPC does not yet.    *)
BeginListen ==
  /\ serve = "new"
  /\ serve' = IF stopping THEN "closed" ELSE "listen"
  /\ UNCHANGED <<lifeVars, fn, port, stopVars, clientVars>>

Bind ==
  /\ serve = "listen" /\ port = "free"
  /\ serve' = "bound"
  /\ port' = "ours"
  /\ stopper' = IF kind = "gateway" THEN "wait" ELSE stopper
  /\ UNCHANGED <<lifeVars, fn, stopping, orphans, expired, clientVars>>

BindFails ==
  /\ serve = "listen" /\ port = "other"
  /\ serve' = "failed"
  /\ UNCHANGED <<lifeVars, fn, port, stopVars, clientVars>>

(* Serve takes the listener, or closes it when it comes too late.          *)
BeginServe ==
  /\ serve = "bound"
  /\ serve' = IF stopping THEN "closed" ELSE "serving"
  /\ port' = IF stopping THEN "free" ELSE port
  /\ UNCHANGED <<lifeVars, fn, stopVars, clientVars>>

(* The listener breaks: Serve closes it and returns the error.             *)
ServeFails ==
  /\ serve = "serving" /\ ~ stopping
  /\ serve' = "failed"
  /\ port' = "free"
  /\ UNCHANGED <<lifeVars, fn, stopVars, clientVars>>

ServeReturns ==
  /\ serve = "serving" /\ stopping
  /\ kind = "gateway" => stopper = "ended"
  /\ serve' = "closed"
  /\ UNCHANGED <<lifeVars, fn, port, stopVars, clientVars>>

Serving == BeginListen \/ Bind \/ BindFails \/ BeginServe \/ ServeReturns

-----------------------------------------------------------------------------
(* Stopping.                                                               *)

(* Fault: the goroutine does not wait for the context.                     *)
BeginStopEarly ==
  /\ stopper = "wait"
  /\ stopper' = "shutdown"
  /\ stopping' = TRUE
  /\ port' = IF serve = "serving" THEN "free" ELSE port
  /\ UNCHANGED <<lifeVars, fn, serve, orphans, expired, clientVars>>

(* The context is done: Shutdown, or GracefulStop, closes the listener     *)
(* that Serve has, and marks the server.                                   *)
BeginStop ==
  /\ stopper = "wait" /\ done
  /\ stopper' = "shutdown"
  /\ stopping' = TRUE
  /\ port' = IF serve = "serving" THEN "free" ELSE port
  /\ UNCHANGED <<lifeVars, fn, serve, orphans, expired, clientVars>>

Idle == \A c \in Clients : handler[c] = "none"

(* Fault: Shutdown is called without a timeout.                            *)
StopEndsIdle ==
  /\ stopper = "shutdown" /\ Idle
  /\ stopper' = "ended"
  /\ UNCHANGED <<lifeVars, fn, serveVars, stopping, orphans, expired, clientVars>>

(* Only admin gives its Shutdown a limit.                                  *)
StopEnds ==
  /\ stopper = "shutdown" /\ (Idle \/ expired)
  /\ stopper' = "ended"
  /\ UNCHANGED <<lifeVars, fn, serveVars, stopping, orphans, expired, clientVars>>

Expire ==
  /\ kind = "admin" /\ stopper = "shutdown" /\ ~ expired
  /\ expired' = TRUE
  /\ UNCHANGED <<lifeVars, fn, serveVars, stopping, stopper, orphans, clientVars>>

(* A goroutine left over calls Shutdown of a server that is gone.          *)
OrphanEnds ==
  /\ orphans > 0 /\ done /\ Idle
  /\ orphans' = orphans - 1
  /\ UNCHANGED <<lifeVars, fn, serveVars, stopping, stopper, expired, clientVars>>

Served == serve \in {"closed", "failed"}

(* Fault: Start returns as soon as Shutdown has run into its timeout or    *)
(* has ended, without taking the result of ListenAndServe.                 *)
StartReturnsUnjoined ==
  /\ kind = "admin" /\ fn = "running"
  /\ \/ stopper = "ended" /\ UNCHANGED stopper
     \/ stopper = "wait" /\ Served /\ stopper' = "off"
  /\ fn' = "returned"
  /\ UNCHANGED <<lifeVars, serveVars, stopping, orphans, expired, clientVars>>

(* admin.Start: the result of ListenAndServe comes out of errCh behind     *)
(* Shutdown, or before the select has seen the context.                    *)
StartReturns ==
  /\ kind = "admin" /\ fn = "running" /\ Served
  /\ \/ stopper = "ended" /\ UNCHANGED stopper
     \/ stopper = "wait" /\ stopper' = "off"
  /\ fn' = "returned"
  /\ UNCHANGED <<lifeVars, serveVars, stopping, orphans, expired, clientVars>>

(* The other two return what Serve returns, and leave the goroutine alone. *)
ServeResult ==
  /\ kind # "admin" /\ fn = "running" /\ Served
  /\ fn' = "returned"
  /\ UNCHANGED <<lifeVars, serveVars, stopVars, clientVars>>

Stopping == BeginStop \/ StopEnds \/ StartReturns \/ ServeResult

-----------------------------------------------------------------------------
(* The clients and the handlers of their requests.                         *)

Request(c) ==
  /\ serve = "serving" /\ ~ stopping
  /\ handler[c] = "none"
  /\ handler' = [handler EXCEPT ![c] = "called"]
  /\ gone' = gone \ {c}
  /\ UNCHANGED <<lifeVars, fn, serveVars, stopVars>>

(* It answers and is done: /hello, and all of admin but the SSE stream.    *)
Answer(c) ==
  /\ kind # "gateway" /\ handler[c] = "called"
  /\ handler' = [handler EXCEPT ![c] = "none"]
  /\ UNCHANGED <<lifeVars, fn, serveVars, stopVars, gone>>

(* The SSE handler subscribes to the bus; PushLogs receives.               *)
OpenStream(c) ==
  /\ kind # "hello" /\ handler[c] = "called"
  /\ handler' = [handler EXCEPT ![c] = "open"]
  /\ UNCHANGED <<lifeVars, fn, serveVars, stopVars, gone>>

Leave(c) ==
  /\ handler[c] # "none" /\ c \notin gone
  /\ gone' = gone \cup {c}
  /\ UNCHANGED <<lifeVars, fn, serveVars, stopVars, handler>>

(* The context of the request ends the select and the subscriptions; the   *)
(* end of the stream, or an error, ends Recv.                              *)
CloseStream(c) ==
  /\ handler[c] = "open" /\ c \in gone
  /\ handler' = [handler EXCEPT ![c] = "none"]
  /\ UNCHANGED <<lifeVars, fn, serveVars, stopVars, gone>>

Handling(c) == Answer(c) \/ OpenStream(c) \/ CloseStream(c)

-----------------------------------------------------------------------------
Next ==
  \/ ContextDone \/ Restart \/ OthersPort
  \/ Serving \/ ServeFails
  \/ Stopping \/ Expire \/ OrphanEnds
  \/ \E c \in Clients : Request(c) \/ Leave(c) \/ Handling(c)

Spec == Init /\ [][Next]_vars

(* All goroutines are scheduled and the timeout expires; the clients and   *)
(* the other processes do what they like.                                  *)
Fairness ==
  /\ WF_vars(Serving) /\ WF_vars(Stopping) /\ WF_vars(Expire)
  /\ WF_vars(OrphanEnds)
  /\ \A c \in Clients : WF_vars(Handling(c))

FairSpec == Spec /\ Fairness

(* Premise: no client keeps its stream open for ever.                      *)
ClientsLeave == \A c \in Clients : WF_vars(Leave(c))

-----------------------------------------------------------------------------
(* Whoever goes on behind the call (the supervisor that restarts a worker, *)
(* the reload that starts a domain again) finds the address free of this   *)
(* server, however Serve and the end of the context raced.                 *)
PortReleased == fn = "returned" => port # "ours"

NothingRuns ==
  /\ fn = "returned" /\ Served
  /\ stopper \in {"off", "ended"} /\ orphans = 0 /\ Idle

(* A done context ends admin and hello whatever their clients do: it is    *)
(* what Supervisor assumes of a worker.  Once the clients have left, all   *)
(* three have ended and nothing is left: no goroutine that waits for a     *)
(* context, no handler, no subscription.                                   *)
ShutsDown ==
  /\ (done /\ kind # "gateway") ~> fn = "returned"
  /\ ClientsLeave => (done ~> NothingRuns)

(* The gateway ends with its context, too, whatever its clients do.  It    *)
(* does not while a forwarder keeps its stream, since GracefulStop waits.  *)
GatewayEnds == (done /\ kind = "gateway") ~> fn = "returned"
=============================================================================
