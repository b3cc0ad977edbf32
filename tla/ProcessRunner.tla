--------------------------- MODULE ProcessRunner ---------------------------
(***************************************************************************)
(* The runner of an external kernel process,                               *)
(* platform/runtime/process_runner_gen.go: Start, the two readers of its   *)
(* pipes, the goroutine that waits for its end, WaitReady and Stop.  The   *)
(* process itself, os/exec and the handler of the events are external.     *)
(*                                                                         *)
(* The lines of a pipe are numbered as the process writes them; what the   *)
(* pipe holds are the lines written and not yet taken.  A line is atomic.  *)
(* A Start that fails leaves the runner as it was and is no step.  A panic *)
(* that nothing recovers ends the whole Go program.                        *)
(***************************************************************************)
EXTENDS Naturals, Sequences

CONSTANTS
  HealthURL,  (* WithHealthHTTP was given                                   *)
  PipeCap,    (* lines a pipe of the system holds                           *)
  LogCap,     (* of p.logCh, 256 in the code                                *)
  MaxLines    (* bound of the model: lines written to one pipe              *)

ASSUME BoundsAssumption ==
  /\ HealthURL \in BOOLEAN
  /\ PipeCap \in Nat \ {0} /\ LogCap \in Nat \ {0} /\ MaxLines \in Nat

Origins == {"stdout", "stderr"}

VARIABLES
  readyNo,   (* the line of stdout that has the prefix; 0: no line has      *)
  runner,    (* p.cmd, and "starting": Start holds p.mu and emits           *)
  proc,      (* the process                                                 *)
  termed,    (* it was sent SIGTERM                                         *)
  done,      (* the context of Start is done                                *)
  written,   (* how many lines the process has written                      *)
  taken,     (* how many of them the reader has taken                       *)
  reader,    (* where a reader stands                                       *)
  waiter,    (* where the goroutine that waits stands                       *)
  logCh,     (* the buffer of p.logCh                                       *)
  logClosed,
  got,       (* how many lines of a pipe the reader of Logs() has received  *)
  ready,     (* p.ready                                                     *)
  caller,    (* where WaitReady stands                                      *)
  late       (* its timeout has passed                                      *)

procVars == <<proc, termed, done, written>>
readVars == <<taken, reader, waiter, ready>>
logVars == <<logCh, logClosed, got>>
callVars == <<caller, late>>
vars == <<readyNo, runner, procVars, readVars, logVars, callVars>>

Lines == [from : Origins, no : 1 .. MaxLines]

TypeOK ==
  /\ readyNo \in 0 .. MaxLines
  /\ runner \in {"new", "starting", "started"}
  /\ proc \in {"none", "running", "exited"}
  /\ (proc = "none") = (runner = "new")
  /\ termed \in BOOLEAN /\ done \in BOOLEAN
  /\ written \in [Origins -> 0 .. MaxLines]
  /\ taken \in [Origins -> 0 .. MaxLines]
  /\ \A o \in Origins : taken[o] <= written[o] /\ written[o] - taken[o] <= PipeCap
  /\ reader \in [Origins -> {"off", "scan", "send", "mark", "ended", "panicked"}]
  /\ waiter \in {"off", "wait", "exit", "ended"}
  /\ logCh \in Seq(Lines) /\ Len(logCh) <= LogCap
  /\ logClosed \in BOOLEAN
  /\ got \in [Origins -> 0 .. MaxLines]
  /\ ready \in BOOLEAN
  /\ caller \in {"off", "wait", "probe", "ok", "failed"}
  /\ late \in BOOLEAN

Init ==
  /\ readyNo \in 0 .. MaxLines
  /\ runner = "new"
  /\ proc = "none" /\ termed = FALSE /\ done = FALSE
  /\ written = [o \in Origins |-> 0]
  /\ taken = [o \in Origins |-> 0]
  /\ reader = [o \in Origins |-> "off"]
  /\ waiter = "off"
  /\ logCh = <<>> /\ logClosed = FALSE
  /\ got = [o \in Origins |-> 0]
  /\ ready = FALSE
  /\ caller = "off" /\ late = FALSE

-----------------------------------------------------------------------------
(* Start, Stop and the context.                                            *)

(* cmd.Start: the process runs, the event is emitted under p.mu.           *)
Start ==
  /\ runner = "new" /\ ~ done
  /\ runner' = "starting"
  /\ proc' = "running"
  /\ UNCHANGED <<readyNo, termed, done, written, readVars, logVars, callVars>>

(* The handler has returned: the goroutines start.                         *)
StartReturns ==
  /\ runner = "starting"
  /\ runner' = "started"
  /\ reader' = [o \in Origins |-> "scan"]
  /\ waiter' = "wait"
  /\ UNCHANGED <<readyNo, procVars, taken, ready, logVars, callVars>>

(* Stop, once it has p.mu.  Before Start, and after Wait, it does nothing. *)
Stop ==
  /\ runner = "started" /\ proc = "running" /\ ~ termed
  /\ termed' = TRUE
  /\ UNCHANGED <<readyNo, runner, proc, done, written, readVars, logVars, callVars>>

ContextDone ==
  /\ ~ done
  /\ done' = TRUE
  /\ UNCHANGED <<readyNo, runner, proc, termed, written, readVars, logVars, callVars>>

-----------------------------------------------------------------------------
(* The process.                                                            *)

(* It waits while the pipe is full; a pipe whose reader is gone fails.     *)
Write(o) ==
  /\ proc = "running" /\ reader[o] # "ended"
  /\ written[o] < MaxLines /\ written[o] - taken[o] < PipeCap
  /\ written' = [written EXCEPT ![o] = @ + 1]
  /\ UNCHANGED <<readyNo, runner, proc, termed, done, readVars, logVars, callVars>>

(* By itself, because of SIGTERM, or killed.                               *)
ProcessEnds ==
  /\ proc = "running"
  /\ proc' = "exited"
  /\ UNCHANGED <<readyNo, runner, termed, done, written, readVars, logVars, callVars>>

(* os/exec kills it when the context is done.                              *)
Killed == done /\ ProcessEnds

-----------------------------------------------------------------------------
(* readPipe.                                                               *)

(* A whole line is there, in the pipe or in the buffer of the scanner.     *)
TakeLine(o) ==
  /\ reader[o] = "scan" /\ taken[o] < written[o]
  /\ taken' = [taken EXCEPT ![o] = @ + 1]
  /\ reader' = [reader EXCEPT ![o] = "send"]
  /\ UNCHANGED <<readyNo, runner, procVars, waiter, ready, logVars, callVars>>

(* Scan returns false: behind the last line of a process that has ended,   *)
(* with what is left in a pipe that Wait has closed, or at a line of more  *)
(* than 1 MiB.  Nobody reads this pipe any more.                           *)
ScanEnds(o) ==
  /\ reader[o] = "scan"
  /\ proc = "exited" \/ taken[o] < written[o]
  /\ reader' = [reader EXCEPT ![o] = "ended"]
  /\ UNCHANGED <<readyNo, runner, procVars, taken, waiter, ready, logVars, callVars>>

HasPrefix(o) == o = "stdout" /\ taken[o] = readyNo

(* Faults: a channel without bound; the line is dropped when it is full.   *)
SendLogUnbounded(o) ==
  /\ reader[o] = "send" /\ ~ logClosed
  /\ logCh' = Append(logCh, [from |-> o, no |-> taken[o]])
  /\ reader' = [reader EXCEPT ![o] = IF HasPrefix(o) THEN "mark" ELSE "scan"]
  /\ UNCHANGED <<readyNo, runner, procVars, taken, waiter, ready, logClosed, got,
                 callVars>>

SendLogDrops(o) ==
  /\ reader[o] = "send" /\ ~ logClosed
  /\ logCh' = IF Len(logCh) < LogCap
              THEN Append(logCh, [from |-> o, no |-> taken[o]]) ELSE logCh
  /\ reader' = [reader EXCEPT ![o] = IF HasPrefix(o) THEN "mark" ELSE "scan"]
  /\ UNCHANGED <<readyNo, runner, procVars, taken, waiter, ready, logClosed, got,
                 callVars>>

SendLog(o) ==
  /\ reader[o] = "send" /\ ~ logClosed /\ Len(logCh) < LogCap
  /\ logCh' = Append(logCh, [from |-> o, no |-> taken[o]])
  /\ reader' = [reader EXCEPT ![o] = IF HasPrefix(o) THEN "mark" ELSE "scan"]
  /\ UNCHANGED <<readyNo, runner, procVars, taken, waiter, ready, logClosed, got,
                 callVars>>

(* The channel is closed, also while the reader waits for room in it: the  *)
(* send panics, and the program ends.                                      *)
SendOnClosed(o) ==
  /\ reader[o] = "send" /\ logClosed
  /\ reader' = [reader EXCEPT ![o] = "panicked"]
  /\ UNCHANGED <<readyNo, runner, procVars, taken, waiter, ready, logVars, callVars>>

(* Fault: the reader that has seen the line forgets it.                    *)
MarkNothing(o) ==
  /\ reader[o] = "mark"
  /\ reader' = [reader EXCEPT ![o] = "scan"]
  /\ UNCHANGED <<readyNo, runner, procVars, taken, waiter, ready, logVars, callVars>>

Mark(o) ==
  /\ reader[o] = "mark"
  /\ ready' = TRUE
  /\ reader' = [reader EXCEPT ![o] = "scan"]
  /\ UNCHANGED <<readyNo, runner, procVars, taken, waiter, logVars, callVars>>

Reading(o) ==
  TakeLine(o) \/ ScanEnds(o) \/ SendLog(o) \/ SendOnClosed(o) \/ Mark(o)

-----------------------------------------------------------------------------
(* The goroutine that waits.                                               *)

(* cmd.Wait closes the pipes; the exit is emitted.                         *)
WaitReturns ==
  /\ waiter = "wait" /\ proc = "exited"
  /\ waiter' = "exit"
  /\ UNCHANGED <<readyNo, runner, procVars, taken, reader, ready, logVars, callVars>>

(* Fault: it returns without the close.                                    *)
CloseNothing ==
  /\ waiter = "exit"
  /\ waiter' = "ended"
  /\ UNCHANGED <<readyNo, runner, procVars, taken, reader, ready, logVars, callVars>>

CloseLogs ==
  /\ waiter = "exit"
  /\ waiter' = "ended"
  /\ logClosed' = TRUE
  /\ UNCHANGED <<readyNo, runner, procVars, taken, reader, ready, logCh, got, callVars>>

-----------------------------------------------------------------------------
(* The callers.                                                            *)

ReceiveLog ==
  /\ logCh # <<>>
  /\ got' = [got EXCEPT ![Head(logCh).from] = Head(logCh).no]
  /\ logCh' = Tail(logCh)
  /\ UNCHANGED <<readyNo, runner, procVars, readVars, logClosed, callVars>>

(* WaitReady may be called at any time, also before Start.                 *)
WaitReady ==
  /\ caller = "off"
  /\ caller' = "wait"
  /\ UNCHANGED <<readyNo, runner, procVars, readVars, logVars, late>>

Timeout ==
  /\ caller \in {"wait", "probe"} /\ ~ late
  /\ late' = TRUE
  /\ UNCHANGED <<readyNo, runner, procVars, readVars, logVars, caller>>

(* A tick of the ticker.                                                   *)
Tick ==
  /\ caller = "wait" /\ (ready \/ HealthURL)
  /\ caller' = IF ready THEN "ok" ELSE "probe"
  /\ UNCHANGED <<readyNo, runner, procVars, readVars, logVars, late>>

(* The answer of the probe: whoever listens at the URL, if anybody.        *)
ProbeOK ==
  /\ caller = "probe"
  /\ caller' = "ok"
  /\ UNCHANGED <<readyNo, runner, procVars, readVars, logVars, late>>

ProbeKO ==
  /\ caller = "probe"
  /\ caller' = "wait"
  /\ UNCHANGED <<readyNo, runner, procVars, readVars, logVars, late>>

(* The timeout of WaitReady, or the context of its caller.                 *)
GiveUp ==
  /\ caller = "wait" /\ late
  /\ caller' = "failed"
  /\ UNCHANGED <<readyNo, runner, procVars, readVars, logVars, late>>

-----------------------------------------------------------------------------
(* A reader has panicked: the program is gone with all its goroutines.     *)
Crashed == \E o \in Origins : reader[o] = "panicked"

Next ==
  /\ ~ Crashed
  /\ \/ Start \/ StartReturns \/ Stop \/ ContextDone
     \/ ProcessEnds \/ \E o \in Origins : Write(o) \/ Reading(o)
     \/ WaitReturns \/ CloseLogs
     \/ ReceiveLog
     \/ WaitReady \/ Timeout \/ Tick \/ ProbeOK \/ ProbeKO \/ GiveUp

Spec == Init /\ [][Next]_vars

(* Start returns (its handler does), the goroutines are scheduled, a done  *)
(* context kills the process, timers expire and a probe ends.  The select  *)
(* of WaitReady takes each case that stays possible in the end, though its *)
(* ticker has more.  Nobody need read the logs, nor the process write; and *)
(* nothing is owed once the program has crashed.                           *)
Fairness ==
  /\ WF_vars(~ Crashed /\ StartReturns) /\ WF_vars(~ Crashed /\ Killed)
  /\ \A o \in Origins : WF_vars(~ Crashed /\ Reading(o))
  /\ WF_vars(~ Crashed /\ WaitReturns) /\ WF_vars(~ Crashed /\ CloseLogs)
  /\ WF_vars(~ Crashed /\ Timeout) /\ WF_vars(~ Crashed /\ Tick)
  /\ WF_vars(~ Crashed /\ (ProbeOK \/ ProbeKO))
  /\ SF_vars(~ Crashed /\ GiveUp)

FairSpec == Spec /\ Fairness

(* Premises: somebody reads the logs; the process heeds SIGTERM.           *)
LogsAreRead == WF_vars(~ Crashed /\ ReceiveLog)
HeedsTerm == WF_vars(~ Crashed /\ termed /\ ProcessEnds)

-----------------------------------------------------------------------------
(* The lines the readers have sent; the lines of a pipe in the channel.    *)
Sent(o) == taken[o] - IF reader[o] \in {"send", "panicked"} THEN 1 ELSE 0

Waiting(o) == {logCh[k].no : k \in {j \in DOMAIN logCh : logCh[j].from = o}}

(* Logs() gives every pipe's lines from the first on, none left out, none  *)
(* twice, whichever of the two readers the channel serves and whenever the *)
(* process ends: what is lost is a tail.  And p.ready is set behind the    *)
(* line that says so, so that whoever reads the logs can find it.          *)
LogsInOrder ==
  /\ \A o \in Origins : got[o] <= Sent(o) /\ Waiting(o) = got[o] + 1 .. Sent(o)
  /\ \A j, k \in DOMAIN logCh :
       j < k /\ logCh[j].from = logCh[k].from => logCh[j].no < logCh[k].no
  /\ ready => readyNo \in 1 .. Sent("stdout")

(* A range loop over Logs() ends, and a reader panics, only behind the end *)
(* of the process, neither by Stop nor by a done context alone.            *)
LogsOutliveProcess == logClosed \/ Crashed => proc = "exited"

(* How many steps at most a reader takes for the line it holds, and for    *)
(* all that is left when nothing is written any more.                      *)
StepsOfStage == [off |-> 0, ended |-> 0, panicked |-> 0, scan |-> 1, mark |-> 2,
                 send |-> 3]

StepsLeft(o) == 3 * (written[o] - taken[o]) + StepsOfStage[reader[o]]

(* Behind the end of the process a reader that goes on gets closer to its  *)
(* end with each of its steps, whether or not anybody reads the logs: it   *)
(* takes what is left in the pipe once, and nothing is added.              *)
ReadersRunDry ==
  [][proc = "exited" =>
       \A o \in Origins :
         reader[o] # "off" =>
           \/ StepsLeft(o)' < StepsLeft(o)
           \/ UNCHANGED <<written[o], taken[o], reader[o]>>]_vars

RunnerAtRest ==
  proc = "exited" /\ logClosed /\ \A o \in Origins : reader[o] = "ended"

(* Once the context is done, or a process that heeds SIGTERM was stopped,  *)
(* nothing hangs, although nobody may have read Logs() and a reader waits  *)
(* for room in it: either the process is gone, both readers have returned  *)
(* and a range loop over Logs() ends, or the close of the channel under a  *)
(* reader that still had a line has ended the whole program (NoPanic).     *)
EndsOrCrashes ==
  /\ (done /\ runner # "new") ~> (RunnerAtRest \/ Crashed)
  /\ HeedsTerm => (termed ~> (RunnerAtRest \/ Crashed))

(* Where somebody reads the logs, a READY that was printed is seen unless  *)
(* the reader gave up or the process ended before; WaitReady is answered   *)
(* whether or not it is, unless the program crashes before.                *)
ReadySeen ==
  /\ LogsAreRead =>
       ((readyNo \in 1 .. written["stdout"] /\ proc = "running") ~>
          (ready \/ reader["stdout"] = "ended" \/ proc = "exited"))
  /\ (caller = "wait") ~> (caller \in {"ok", "failed"} \/ Crashed)

(* "It starts an external process, reads stdout/stderr (the channel        *)
(* Logs())" (README of the package): a line that was read gets into the    *)
(* channel.  It does not when the channel is closed behind the exit while  *)
(* a reader still has the line, and the send ends the program.             *)
NoPanic == ~ Crashed
=============================================================================
