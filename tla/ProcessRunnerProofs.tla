------------------------ MODULE ProcessRunnerProofs ------------------------
(***************************************************************************)
(* Proofs about ProcessRunner, for every length of the output, every       *)
(* capacity of the pipes and of the log channel.                           *)
(***************************************************************************)
EXTENDS ProcessRunner, Integers, TLAPS

-----------------------------------------------------------------------------
(* The channel.                                                            *)

(* The lines of a pipe in a buffer, and that each pipe's stand in order.   *)
Nos(c, o) == {c[k].no : k \in {j \in DOMAIN c : c[j].from = o}}

Rising(c) ==
  \A j, k \in DOMAIN c : j < k /\ c[j].from = c[k].from => c[j].no < c[k].no

(* What sending a line adds.                                               *)
LEMMA AppendNos ==
  ASSUME NEW c \in Seq(Lines), NEW l \in Lines
  PROVE  /\ Append(c, l) \in Seq(Lines) /\ Len(Append(c, l)) = Len(c) + 1
         /\ Nos(Append(c, l), l.from) = Nos(c, l.from) \cup {l.no}
         /\ \A o \in Origins : o # l.from => Nos(Append(c, l), o) = Nos(c, o)
         /\ Rising(c) /\ (\A n \in Nos(c, l.from) : n < l.no) => Rising(Append(c, l))
<1> DEFINE d == Append(c, l)
<1>1. /\ d \in Seq(Lines) /\ Len(d) = Len(c) + 1 /\ Len(c) \in Nat
      /\ DOMAIN c = 1 .. Len(c) /\ DOMAIN d = 1 .. Len(c) + 1
      /\ \A k \in 1 .. Len(c) : d[k] = c[k]
      /\ d[Len(c) + 1] = l
  OBVIOUS
<1> HIDE DEF d
<1>2. DOMAIN d = DOMAIN c \cup {Len(c) + 1} /\ Len(c) + 1 \notin DOMAIN c
  BY <1>1
<1>3. \A k \in DOMAIN c : d[k] = c[k]
  BY <1>1
<1>4. Nos(d, l.from) = Nos(c, l.from) \cup {l.no}
  BY <1>1, <1>2, <1>3 DEF Nos
<1>5. \A o \in Origins : o # l.from => Nos(d, o) = Nos(c, o)
  BY <1>1, <1>2, <1>3 DEF Nos
<1>6. ASSUME Rising(c), \A n \in Nos(c, l.from) : n < l.no
      PROVE  Rising(d)
  <2> SUFFICES ASSUME NEW j \in DOMAIN d, NEW k \in DOMAIN d, j < k,
                      d[j].from = d[k].from
               PROVE  d[j].no < d[k].no
    BY DEF Rising
  <2>1. j \in DOMAIN c
    BY <1>1
  <2>2. CASE k \in DOMAIN c
    BY <2>1, <2>2, <1>3, <1>6 DEF Rising
  <2>3. CASE k = Len(c) + 1
    <3>1. c[j].no \in Nos(c, l.from)
      BY <2>1, <2>3, <1>1, <1>3 DEF Nos
    <3> QED
      BY <3>1, <2>1, <2>3, <1>1, <1>3, <1>6
  <2> QED
    BY <2>2, <2>3, <1>2
<1> QED
  BY <1>1, <1>4, <1>5, <1>6 DEF d

(* What receiving takes away: the first line of its pipe.                  *)
LEMMA TailNos ==
  ASSUME NEW c \in Seq(Lines), c # <<>>, Rising(c)
  PROVE  /\ Head(c) \in Lines /\ Tail(c) \in Seq(Lines) /\ Len(Tail(c)) = Len(c) - 1
         /\ Head(c).no \in Nos(c, Head(c).from)
         /\ \A n \in Nos(c, Head(c).from) : Head(c).no <= n
         /\ Nos(Tail(c), Head(c).from) = Nos(c, Head(c).from) \ {Head(c).no}
         /\ \A o \in Origins : o # Head(c).from => Nos(Tail(c), o) = Nos(c, o)
         /\ Rising(Tail(c))
<1> DEFINE d == Tail(c)  h == Head(c)
<1>1. /\ d \in Seq(Lines) /\ Len(d) = Len(c) - 1 /\ Len(c) \in Nat /\ Len(c) > 0
      /\ h \in Lines /\ h = c[1]
      /\ DOMAIN c = 1 .. Len(c) /\ DOMAIN d = 1 .. Len(c) - 1
      /\ \A k \in 1 .. Len(c) - 1 : d[k] = c[k + 1]
      /\ \A k \in 1 .. Len(c) : c[k] \in Lines
  OBVIOUS
<1> HIDE DEF d, h
<1>2. h.no \in Nat /\ \A k \in DOMAIN c : c[k].no \in Nat
  BY <1>1, BoundsAssumption DEF Lines
<1>3. h.no \in Nos(c, h.from)
  BY <1>1 DEF Nos
<1>4. \A k \in DOMAIN c : k # 1 /\ c[k].from = h.from => h.no < c[k].no
  BY <1>1 DEF Rising
<1>5. \A n \in Nos(c, h.from) : h.no <= n
  BY <1>1, <1>2, <1>4 DEF Nos
<1>6. \A k \in DOMAIN c : k # 1 => k - 1 \in DOMAIN d /\ d[k - 1] = c[k]
  BY <1>1
<1>7. \A k \in DOMAIN d : k + 1 \in DOMAIN c /\ k + 1 # 1 /\ d[k] = c[k + 1]
  BY <1>1
<1>8. ASSUME NEW o \in Origins
      PROVE  Nos(d, o) = {c[k].no : k \in {j \in DOMAIN c : j # 1 /\ c[j].from = o}}
  BY <1>6, <1>7 DEF Nos
<1>9. h.from \in Origins
  BY <1>1 DEF Lines
<1>10. Nos(d, h.from) = Nos(c, h.from) \ {h.no}
  <2>1. \A k \in DOMAIN c : k # 1 /\ c[k].from = h.from => c[k].no # h.no
    BY <1>2, <1>4
  <2>2. ASSUME NEW k \in DOMAIN c, c[k].from = h.from, c[k].no # h.no
        PROVE  k # 1
    BY <2>2, <1>1
  <2>3. Nos(d, h.from) \subseteq Nos(c, h.from) \ {h.no}
    <3>1. ASSUME NEW k \in DOMAIN c, k # 1, c[k].from = h.from
          PROVE  c[k].no \in Nos(c, h.from) \ {h.no}
      BY <3>1, <2>1 DEF Nos
    <3>2. Nos(d, h.from) = {c[k].no : k \in {j \in DOMAIN c : j # 1 /\ c[j].from = h.from}}
      BY <1>8, <1>9
    <3> QED
      BY <3>1, <3>2
  <2>4. Nos(c, h.from) \ {h.no} \subseteq Nos(d, h.from)
    <3>1. ASSUME NEW k \in DOMAIN c, c[k].from = h.from, c[k].no # h.no
          PROVE  c[k].no \in Nos(d, h.from)
      <4>1. k - 1 \in DOMAIN d /\ d[k - 1] = c[k]
        BY <3>1, <2>2, <1>6
      <4> QED
        BY <4>1, <3>1 DEF Nos
    <3> QED
      BY <3>1 DEF Nos
  <2> QED
    BY <2>3, <2>4
<1>11. ASSUME NEW o \in Origins, o # h.from PROVE Nos(d, o) = Nos(c, o)
  <2>1. \A k \in DOMAIN c : c[k].from = o => k # 1
    BY <1>1, <1>11
  <2>2. {j \in DOMAIN c : j # 1 /\ c[j].from = o} = {j \in DOMAIN c : c[j].from = o}
    BY <2>1
  <2> QED
    BY <2>2, <1>8 DEF Nos
<1>12. Rising(d)
  <2> SUFFICES ASSUME NEW j \in DOMAIN d, NEW k \in DOMAIN d, j < k,
                      d[j].from = d[k].from
               PROVE  d[j].no < d[k].no
    BY DEF Rising
  <2>1. j + 1 < k + 1
    BY <1>1
  <2> QED
    BY <2>1, <1>7 DEF Rising
<1> QED
  BY <1>1, <1>3, <1>5, <1>10, <1>11, <1>12 DEF d, h

-----------------------------------------------------------------------------
(* Typing.                                                                 *)

(* Where a reader stands, beside its type: there is none before the        *)
(* goroutines start, one that sends has a line, and one that marks has     *)
(* sent the line that says the process is ready.                           *)
ReadersPlaced ==
  \A o \in Origins :
    /\ runner # "started" => reader[o] = "off"
    /\ reader[o] \in {"send", "mark", "panicked"} => taken[o] > 0
    /\ reader[o] = "mark" => HasPrefix(o)

RunnerInv == TypeOK /\ ReadersPlaced

Places == {"off", "scan", "send", "mark", "ended", "panicked"}

LEMMA InitRunnerInv == Init => RunnerInv
<1> SUFFICES ASSUME Init PROVE RunnerInv
  OBVIOUS
<1>1. /\ termed \in BOOLEAN /\ done \in BOOLEAN /\ logClosed \in BOOLEAN
      /\ ready \in BOOLEAN /\ late \in BOOLEAN
  BY Zenon DEF Init
<1>2. logCh \in Seq(Lines) /\ Len(logCh) <= LogCap
  BY BoundsAssumption DEF Init
<1>3. /\ written \in [Origins -> 0 .. MaxLines] /\ taken \in [Origins -> 0 .. MaxLines]
      /\ got \in [Origins -> 0 .. MaxLines]
      /\ \A o \in Origins : taken[o] <= written[o] /\ written[o] - taken[o] <= PipeCap
  BY BoundsAssumption DEF Init
<1> QED
  BY <1>1, <1>2, <1>3 DEF Init, RunnerInv, TypeOK, ReadersPlaced

(* Start, Stop, the context, the process and the callers: the readers and  *)
(* the channel are as before.                                              *)
LEMMA ControlRunnerInv ==
  ASSUME RunnerInv,
         \/ Start \/ Stop \/ ContextDone \/ ProcessEnds
         \/ WaitReady \/ Timeout \/ Tick \/ ProbeOK \/ ProbeKO \/ GiveUp
  PROVE  RunnerInv' /\ UNCHANGED <<readyNo, readVars, logVars>>
<1> USE DEF RunnerInv, ReadersPlaced, HasPrefix
<1>0. UNCHANGED <<readyNo, written, taken, reader, waiter, ready, logCh, logClosed, got>>
  BY DEF Start, Stop, ContextDone, ProcessEnds, WaitReady, Timeout, Tick, ProbeOK,
         ProbeKO, GiveUp, procVars, readVars, logVars
<1>1. CASE Start
  BY <1>0, <1>1 DEF Start, callVars, TypeOK, readVars, logVars
<1>2. CASE Stop
  <2>1. termed' \in BOOLEAN /\ UNCHANGED <<runner, proc, done, caller, late>>
    BY <1>2, Zenon DEF Stop, callVars
  <2> QED
    BY <1>0, <2>1 DEF TypeOK, readVars, logVars
<1>3. CASE ContextDone
  <2>1. done' \in BOOLEAN /\ UNCHANGED <<runner, proc, termed, caller, late>>
    BY <1>3, Zenon DEF ContextDone, callVars
  <2> QED
    BY <1>0, <2>1 DEF TypeOK, readVars, logVars
<1>4. CASE ProcessEnds
  BY <1>0, <1>4 DEF ProcessEnds, callVars, TypeOK, readVars, logVars
<1>5. CASE WaitReady \/ Tick \/ ProbeOK \/ ProbeKO \/ GiveUp
  <2>1. /\ caller' \in {"wait", "probe", "ok", "failed"}
        /\ UNCHANGED <<runner, proc, termed, done, late>>
    BY <1>5 DEF WaitReady, Tick, ProbeOK, ProbeKO, GiveUp, procVars
  <2> QED
    BY <1>0, <2>1 DEF TypeOK, readVars, logVars
<1>6. CASE Timeout
  <2>1. late' \in BOOLEAN /\ UNCHANGED <<runner, proc, termed, done, caller>>
    BY <1>6, Zenon DEF Timeout, procVars
  <2> QED
    BY <1>0, <2>1 DEF TypeOK, readVars, logVars
<1> QED
  BY <1>1, <1>2, <1>3, <1>4, <1>5, <1>6

(* The goroutines start; the one that waits goes on; a line is received.   *)
LEMMA ChannelRunnerInv ==
  ASSUME RunnerInv, StartReturns \/ WaitReturns \/ CloseLogs \/ ReceiveLog
  PROVE  RunnerInv'
<1> USE DEF RunnerInv, ReadersPlaced, HasPrefix
<1>0. UNCHANGED <<readyNo, proc, termed, done, written, taken, ready, caller, late>>
  BY DEF StartReturns, WaitReturns, CloseLogs, ReceiveLog, procVars, readVars, callVars
<1>1. CASE StartReturns
  BY <1>0, <1>1 DEF StartReturns, logVars, TypeOK
<1>2. CASE WaitReturns
  BY <1>0, <1>2 DEF WaitReturns, logVars, TypeOK
<1>3. CASE CloseLogs
  <2>1. logClosed' \in BOOLEAN /\ waiter' = "ended" /\ UNCHANGED <<runner, reader, logCh, got>>
    BY <1>3, Zenon DEF CloseLogs
  <2> QED
    BY <1>0, <2>1 DEF TypeOK
<1>4. CASE ReceiveLog
  <2>1. /\ logCh # <<>> /\ logCh' = Tail(logCh)
        /\ got' = [got EXCEPT ![Head(logCh).from] = Head(logCh).no]
        /\ UNCHANGED <<runner, reader, waiter, logClosed>>
    BY <1>4 DEF ReceiveLog, readVars
  <2>2. logCh \in Seq(Lines) /\ Len(logCh) <= LogCap
    BY DEF TypeOK
  <2>3. Head(logCh) \in Lines /\ Tail(logCh) \in Seq(Lines) /\ Len(Tail(logCh)) = Len(logCh) - 1
    BY <2>1, <2>2
  <2>4. logCh' \in Seq(Lines) /\ Len(logCh') <= LogCap
    BY <2>1, <2>2, <2>3, BoundsAssumption
  <2>5. got' \in [Origins -> 0 .. MaxLines]
    BY <2>1, <2>3, BoundsAssumption DEF Lines, TypeOK
  <2> QED
    BY <1>0, <2>1, <2>4, <2>5 DEF TypeOK
<1> QED
  BY <1>1, <1>2, <1>3, <1>4

LEMMA LineHeld ==
  ASSUME RunnerInv, NEW o \in Origins, reader[o] = "send"
  PROVE  [from |-> o, no |-> taken[o]] \in Lines
<1>1. taken[o] \in 0 .. MaxLines /\ taken[o] > 0
  BY DEF RunnerInv, TypeOK, ReadersPlaced
<1>2. taken[o] \in 1 .. MaxLines
  BY <1>1, BoundsAssumption
<1> QED
  BY <1>2 DEF Lines

LEMMA PipeRunnerInv ==
  ASSUME RunnerInv, NEW o \in Origins, Write(o) \/ Reading(o)
  PROVE  RunnerInv'
<1> USE DEF RunnerInv, ReadersPlaced, HasPrefix
<1>0. UNCHANGED <<readyNo, runner, proc, termed, done, waiter, logClosed, got, caller, late>>
  BY DEF Write, Reading, TakeLine, ScanEnds, SendLog, SendOnClosed, Mark, procVars,
         readVars, logVars, callVars
<1>1. CASE Write(o)
  <2>1. /\ proc = "running" /\ written[o] < MaxLines /\ written[o] - taken[o] < PipeCap
        /\ written' = [written EXCEPT ![o] = @ + 1]
        /\ UNCHANGED <<taken, reader, ready, logCh>>
    BY <1>1 DEF Write, readVars, logVars
  <2>2. written' \in [Origins -> 0 .. MaxLines]
    BY <2>1, BoundsAssumption DEF TypeOK
  <2>3. \A q \in Origins : taken'[q] <= written'[q] /\ written'[q] - taken'[q] <= PipeCap
    BY <2>1, BoundsAssumption DEF TypeOK
  <2> QED
    BY <1>0, <2>1, <2>2, <2>3 DEF TypeOK
<1>2. CASE TakeLine(o)
  <2>1. /\ reader[o] = "scan" /\ taken[o] < written[o]
        /\ taken' = [taken EXCEPT ![o] = @ + 1]
        /\ reader' = [reader EXCEPT ![o] = "send"]
        /\ UNCHANGED <<written, ready, logCh>>
    BY <1>2 DEF TakeLine, procVars, logVars
  <2>2. taken' \in [Origins -> 0 .. MaxLines]
    BY <2>1, BoundsAssumption DEF TypeOK
  <2>3. \A q \in Origins : taken'[q] <= written'[q] /\ written'[q] - taken'[q] <= PipeCap
    BY <2>1, BoundsAssumption DEF TypeOK
  <2>4. reader' \in [Origins -> Places] /\ taken'[o] > 0
    BY <2>1, BoundsAssumption DEF TypeOK, Places
  <2>5. ReadersPlaced'
    BY <1>0, <2>1, <2>4 DEF TypeOK
  <2> QED
    BY <1>0, <2>1, <2>2, <2>3, <2>4, <2>5 DEF TypeOK, Places
<1>3. CASE ScanEnds(o)
  BY <1>0, <1>3 DEF ScanEnds, procVars, logVars, TypeOK
<1>4. CASE SendLog(o)
  <2>1. /\ reader[o] = "send" /\ Len(logCh) < LogCap
        /\ logCh' = Append(logCh, [from |-> o, no |-> taken[o]])
        /\ reader' = [reader EXCEPT ![o] = IF HasPrefix(o) THEN "mark" ELSE "scan"]
        /\ UNCHANGED <<written, taken, ready>>
    BY <1>4 DEF SendLog, procVars
  <2>2. logCh' \in Seq(Lines) /\ Len(logCh') <= LogCap
    <3>1. logCh \in Seq(Lines) /\ [from |-> o, no |-> taken[o]] \in Lines
      BY <2>1, LineHeld DEF TypeOK
    <3> QED
      BY <2>1, <3>1, AppendNos, BoundsAssumption
  <2>3. reader' \in [Origins -> Places] /\ ReadersPlaced'
    BY <1>0, <2>1 DEF TypeOK, Places
  <2> QED
    BY <1>0, <2>1, <2>2, <2>3 DEF TypeOK, Places
<1>5. CASE SendOnClosed(o)
  BY <1>0, <1>5 DEF SendOnClosed, procVars, logVars, TypeOK
<1>6. CASE Mark(o)
  <2>1. ready' \in BOOLEAN
    BY <1>6, Zenon DEF Mark
  <2>2. reader' = [reader EXCEPT ![o] = "scan"] /\ reader[o] = "mark"
        /\ UNCHANGED <<written, taken, logCh>>
    BY <1>6 DEF Mark, procVars, logVars
  <2> QED
    BY <1>0, <2>1, <2>2 DEF TypeOK
<1> QED
  BY <1>1, <1>2, <1>3, <1>4, <1>5, <1>6 DEF Reading

LEMMA NextRunnerInv == RunnerInv /\ [Next]_vars => RunnerInv'
<1> SUFFICES ASSUME RunnerInv, [Next]_vars PROVE RunnerInv'
  OBVIOUS
<1>1. CASE \/ Start \/ Stop \/ ContextDone \/ ProcessEnds
           \/ WaitReady \/ Timeout \/ Tick \/ ProbeOK \/ ProbeKO \/ GiveUp
  BY <1>1, ControlRunnerInv
<1>2. CASE StartReturns \/ WaitReturns \/ CloseLogs \/ ReceiveLog
  BY <1>2, ChannelRunnerInv
<1>3. CASE \E o \in Origins : Write(o) \/ Reading(o)
  BY <1>3, PipeRunnerInv
<1>4. CASE UNCHANGED vars
  BY <1>4 DEF vars, procVars, readVars, logVars, callVars, RunnerInv, TypeOK,
              ReadersPlaced, HasPrefix
<1> QED
  BY <1>1, <1>2, <1>3, <1>4 DEF Next

LEMMA Placing == Spec => []RunnerInv
BY InitRunnerInv, NextRunnerInv, PTL DEF Spec

(* The state of the runner has its types: among them, a process never      *)
(* writes more than its pipe holds, and no reader more than p.logCh does.  *)
THEOREM TypeCorrect == Spec => []TypeOK
<1>1. RunnerInv => TypeOK
  BY DEF RunnerInv
<1> QED
  BY <1>1, Placing, PTL

-----------------------------------------------------------------------------
(* The order of the lines.                                                 *)

(* The invariant in the terms of the lemmas about the channel.             *)
NosInOrder ==
  /\ \A o \in Origins : got[o] <= Sent(o) /\ Nos(logCh, o) = got[o] + 1 .. Sent(o)
  /\ Rising(logCh)
  /\ ready => readyNo \in 1 .. Sent("stdout")

LEMMA LogsInOrderNos == (LogsInOrder <=> NosInOrder) /\ (LogsInOrder' <=> NosInOrder')
<1>1. LogsInOrder <=> NosInOrder
  BY DEF LogsInOrder, NosInOrder, Waiting, Nos, Rising
<1>2. LogsInOrder' <=> NosInOrder'
  BY DEF LogsInOrder, NosInOrder, Waiting, Nos, Rising
<1> QED
  BY <1>1, <1>2

LEMMA InitLogsInOrder == Init => LogsInOrder
<1> SUFFICES ASSUME Init PROVE LogsInOrder
  OBVIOUS
<1>1. DOMAIN logCh = {}
  BY DEF Init
<1>2. \A o \in Origins : got[o] = 0 /\ Sent(o) = 0
  BY DEF Init, Sent
<1>3. \A o \in Origins : Nos(logCh, o) = {}
  BY <1>1 DEF Nos
<1>4. ~ ready
  BY Zenon DEF Init
<1>5. \A o \in Origins : Nos(logCh, o) = got[o] + 1 .. Sent(o)
  BY <1>2, <1>3
<1>6. Rising(logCh)
  BY <1>1 DEF Rising
<1> QED
  BY <1>2, <1>4, <1>5, <1>6, LogsInOrderNos DEF NosInOrder

(* No reader moves a number behind: of a step that leaves the channel      *)
(* alone, it is enough that it sends nothing and receives nothing.         *)
LEMMA QuietLogsInOrder ==
  ASSUME RunnerInv, LogsInOrder, UNCHANGED <<logCh, got, readyNo>>,
         \A o \in Origins : Sent(o)' = Sent(o),
         ready' => ready \/ readyNo \in 1 .. Sent("stdout")
  PROVE  LogsInOrder'
<1>1. "stdout" \in Origins
  BY DEF Origins
<1>2. \A o \in Origins : Waiting(o)' = Waiting(o)
  BY DEF Waiting
<1> QED
  BY <1>1, <1>2 DEF LogsInOrder

(* A reader sends the line behind the last one it has sent.                *)
LEMMA SendLogInOrder ==
  ASSUME RunnerInv, LogsInOrder, NEW o \in Origins, SendLog(o)
  PROVE  LogsInOrder'
<1> DEFINE l == [from |-> o, no |-> taken[o]]
<1>1. /\ reader[o] = "send" /\ logCh' = Append(logCh, l)
      /\ reader' = [reader EXCEPT ![o] = IF HasPrefix(o) THEN "mark" ELSE "scan"]
      /\ UNCHANGED <<readyNo, taken, got, ready>>
  BY DEF SendLog
<1>2. /\ l \in Lines /\ l.from = o /\ l.no = taken[o] /\ logCh \in Seq(Lines)
      /\ taken \in [Origins -> 0 .. MaxLines] /\ got \in [Origins -> 0 .. MaxLines]
      /\ reader \in [Origins -> Places]
  BY <1>1, LineHeld DEF RunnerInv, TypeOK, Places
<1> HIDE DEF l
<1>3. /\ \A q \in Origins : got[q] <= Sent(q) /\ Nos(logCh, q) = got[q] + 1 .. Sent(q)
      /\ Rising(logCh)
      /\ ready => readyNo \in 1 .. Sent("stdout")
  BY LogsInOrderNos DEF NosInOrder
<1>4. Sent(o) = taken[o] - 1 /\ Sent(o)' = taken[o] /\ taken[o] \in Nat /\ got[o] \in Nat
  BY <1>1, <1>2, BoundsAssumption DEF Sent
<1>5. \A q \in Origins : q # o => Sent(q)' = Sent(q)
  BY <1>1, <1>2 DEF Sent
<1>6. /\ Nos(logCh', o) = Nos(logCh, o) \cup {taken[o]}
      /\ \A q \in Origins : q # o => Nos(logCh', q) = Nos(logCh, q)
      /\ (\A n \in Nos(logCh, o) : n < taken[o]) => Rising(logCh')
  BY <1>1, <1>2, <1>3, AppendNos
<1>7. got[o] <= taken[o] - 1 /\ Nos(logCh, o) = got[o] + 1 .. taken[o] - 1
  BY <1>3, <1>4
<1>8. Nos(logCh', o) = got[o] + 1 .. taken[o] /\ Rising(logCh')
  BY <1>4, <1>6, <1>7
<1>9. \A q \in Origins : got'[q] <= Sent(q)' /\ Nos(logCh', q) = got'[q] + 1 .. Sent(q)'
  <2> TAKE q \in Origins
  <2>1. CASE q = o
    BY <2>1, <1>1, <1>4, <1>7, <1>8
  <2>2. CASE q # o
    BY <2>2, <1>1, <1>3, <1>5, <1>6
  <2> QED
    BY <2>1, <2>2
<1>10. ready' => readyNo' \in 1 .. Sent("stdout")'
  <2>1. CASE o = "stdout"
    BY <2>1, <1>1, <1>3, <1>4
  <2>2. CASE o # "stdout"
    BY <2>2, <1>1, <1>3, <1>5 DEF Origins
  <2> QED
    BY <2>1, <2>2
<1> QED
  BY <1>8, <1>9, <1>10, LogsInOrderNos DEF NosInOrder

(* The reader of Logs() gets, of the pipe the line is from, the next one.  *)
LEMMA ReceiveLogInOrder ==
  ASSUME RunnerInv, LogsInOrder, ReceiveLog
  PROVE  LogsInOrder'
<1> DEFINE h == Head(logCh)
<1>1. /\ logCh # <<>> /\ logCh' = Tail(logCh)
      /\ got' = [got EXCEPT ![h.from] = h.no]
      /\ UNCHANGED <<readyNo, taken, reader, ready>>
  BY DEF ReceiveLog, readVars
<1>2. /\ logCh \in Seq(Lines) /\ got \in [Origins -> 0 .. MaxLines]
      /\ taken \in [Origins -> 0 .. MaxLines]
  BY DEF RunnerInv, TypeOK
<1>3. /\ \A q \in Origins : got[q] <= Sent(q) /\ Nos(logCh, q) = got[q] + 1 .. Sent(q)
      /\ Rising(logCh)
      /\ ready => readyNo \in 1 .. Sent("stdout")
  BY LogsInOrderNos DEF NosInOrder
<1>4. /\ h \in Lines
      /\ h.no \in Nos(logCh, h.from)
      /\ \A n \in Nos(logCh, h.from) : h.no <= n
      /\ Nos(logCh', h.from) = Nos(logCh, h.from) \ {h.no}
      /\ \A q \in Origins : q # h.from => Nos(logCh', q) = Nos(logCh, q)
      /\ Rising(logCh')
  BY <1>1, <1>2, <1>3, TailNos
<1>5. \A q \in Origins : Sent(q)' = Sent(q) /\ Sent(q) \in Int /\ got[q] \in Nat
  BY <1>1, <1>2, BoundsAssumption DEF Sent
<1> HIDE DEF h
<1>6. h.from \in Origins /\ h.no \in Nat
  BY <1>4, BoundsAssumption DEF Lines
<1>7. h.no = got[h.from] + 1 /\ h.no <= Sent(h.from)
  <2>1. h.no \in got[h.from] + 1 .. Sent(h.from)
    BY <1>3, <1>4, <1>6
  <2>2. h.no <= Sent(h.from) /\ got[h.from] + 1 <= h.no
    BY <2>1, <1>5, <1>6
  <2>3. got[h.from] + 1 \in Nos(logCh, h.from)
    BY <2>2, <1>3, <1>5, <1>6
  <2>4. h.no <= got[h.from] + 1
    BY <2>3, <1>4
  <2> QED
    BY <2>2, <2>4, <1>5, <1>6
<1>8. /\ got'[h.from] = h.no /\ \A q \in Origins : q # h.from => got'[q] = got[q]
  BY <1>1, <1>2, <1>6
<1>9. \A q \in Origins : got'[q] <= Sent(q)' /\ Nos(logCh', q) = got'[q] + 1 .. Sent(q)'
  <2> TAKE q \in Origins
  <2>1. CASE q = h.from
    BY <2>1, <1>3, <1>4, <1>5, <1>6, <1>7, <1>8
  <2>2. CASE q # h.from
    BY <2>2, <1>3, <1>4, <1>5, <1>8
  <2> QED
    BY <2>1, <2>2
<1>10. ready' => readyNo' \in 1 .. Sent("stdout")'
  BY <1>1, <1>3, <1>5 DEF Origins
<1> QED
  BY <1>4, <1>9, <1>10, LogsInOrderNos DEF NosInOrder

LEMMA NextLogsInOrder == RunnerInv /\ LogsInOrder /\ [Next]_vars => LogsInOrder'
<1> SUFFICES ASSUME RunnerInv, LogsInOrder, [Next]_vars PROVE LogsInOrder'
  OBVIOUS
<1>0. /\ taken \in [Origins -> 0 .. MaxLines] /\ reader \in [Origins -> Places]
      /\ \A o \in Origins : taken[o] \in Nat
  BY BoundsAssumption DEF RunnerInv, TypeOK, Places
<1>1. CASE \/ Start \/ Stop \/ ContextDone \/ ProcessEnds
           \/ WaitReady \/ Timeout \/ Tick \/ ProbeOK \/ ProbeKO \/ GiveUp
           \/ WaitReturns \/ CloseLogs \/ UNCHANGED vars
  <2>1. UNCHANGED <<readyNo, taken, reader, ready, logCh, got>>
    <3>1. CASE WaitReturns \/ CloseLogs \/ UNCHANGED vars
      BY <3>1 DEF WaitReturns, CloseLogs, vars, readVars, logVars
    <3> QED
      BY <1>1, <3>1, ControlRunnerInv DEF readVars, logVars
  <2>2. \A o \in Origins : Sent(o)' = Sent(o)
    BY <2>1 DEF Sent
  <2> QED
    BY <2>1, <2>2, QuietLogsInOrder
<1>2. CASE StartReturns
  <2>1. /\ reader' = [o \in Origins |-> "scan"] /\ UNCHANGED <<readyNo, taken, ready, logCh, got>>
        /\ \A o \in Origins : reader[o] = "off"
    BY <1>2 DEF StartReturns, logVars, RunnerInv, ReadersPlaced
  <2>2. \A o \in Origins : Sent(o)' = Sent(o)
    BY <2>1 DEF Sent
  <2> QED
    BY <2>1, <2>2, QuietLogsInOrder
<1>3. CASE ReceiveLog
  BY <1>3, ReceiveLogInOrder
<1>4. ASSUME NEW o \in Origins, Write(o) \/ Reading(o)
      PROVE  LogsInOrder'
  <2>1. CASE Write(o) \/ ScanEnds(o) \/ SendOnClosed(o) \/ TakeLine(o)
    <3>1. UNCHANGED <<readyNo, ready, logCh, got>>
      BY <2>1 DEF Write, ScanEnds, SendOnClosed, TakeLine, readVars, logVars
    <3>2. \A q \in Origins : Sent(q)' = Sent(q)
      BY <2>1, <1>0 DEF Write, ScanEnds, SendOnClosed, TakeLine, readVars, Sent
    <3> QED
      BY <3>1, <3>2, QuietLogsInOrder
  <2>2. CASE SendLog(o)
    BY <2>2, SendLogInOrder
  <2>3. CASE Mark(o)
    <3>1. /\ reader[o] = "mark" /\ reader' = [reader EXCEPT ![o] = "scan"]
          /\ UNCHANGED <<readyNo, taken, logCh, got>>
      BY <2>3 DEF Mark, logVars
    <3>2. \A q \in Origins : Sent(q)' = Sent(q)
      BY <3>1, <1>0 DEF Sent
    <3>3. o = "stdout" /\ readyNo = taken[o] /\ taken[o] > 0 /\ Sent("stdout") = taken[o]
      <4>1. o = "stdout" /\ readyNo = taken[o] /\ taken[o] > 0
        BY <3>1 DEF RunnerInv, ReadersPlaced, HasPrefix
      <4>2. Sent("stdout") = taken["stdout"]
        BY <3>1, <4>1, <1>0 DEF Sent
      <4> QED
        BY <4>1, <4>2
    <3> QED
      BY <3>1, <3>2, <3>3, <1>0, QuietLogsInOrder
  <2> QED
    BY <1>4, <2>1, <2>2, <2>3 DEF Reading
<1> QED
  BY <1>1, <1>2, <1>3, <1>4 DEF Next

(* Logs() has no gap, nothing twice and nothing out of order in a pipe, and *)
(* p.ready is set only behind the line that says so, for every capacity.    *)
THEOREM LogsHaveNoGap == Spec => []LogsInOrder
BY InitLogsInOrder, NextLogsInOrder, Placing, PTL DEF Spec

-----------------------------------------------------------------------------
(* The end of the process.                                                 *)

(* LogsOutliveProcess is not inductive: what says that the process is gone *)
(* when the channel is closed is where the goroutine that waits stands.    *)
ExitSeen ==
  /\ runner # "started" => waiter = "off"
  /\ waiter \in {"exit", "ended"} => proc = "exited"
  /\ logClosed => waiter = "ended"

LEMMA InitExit == Init => ExitSeen /\ LogsOutliveProcess
<1> SUFFICES ASSUME Init
             PROVE  /\ ~ logClosed /\ waiter = "off"
                    /\ \A o \in Origins : reader[o] = "off"
  BY DEF ExitSeen, LogsOutliveProcess, Crashed
<1>1. ~ logClosed
  BY Zenon DEF Init
<1> QED
  BY <1>1 DEF Init

(* No step takes an ended process back: there is one Start of a runner.    *)
LEMMA ExitIsFinal ==
  TypeOK /\ [Next]_vars =>
    /\ proc = "exited" => proc' = "exited"
    /\ runner = "started" => runner' = "started"
BY DEF TypeOK, Next, vars, procVars, Start, StartReturns, Stop, ContextDone, ProcessEnds,
       Write, Reading, TakeLine, ScanEnds, SendLog, SendOnClosed, Mark, WaitReturns,
       CloseLogs, ReceiveLog, WaitReady, Timeout, Tick, ProbeOK, ProbeKO, GiveUp

(* The waiter moves on in three steps, each behind the exit but the first; *)
(* a reader panics only at a channel that is closed.                       *)
LEMMA NextExit ==
  RunnerInv /\ ExitSeen /\ LogsOutliveProcess /\ [Next]_vars
    => ExitSeen' /\ LogsOutliveProcess'
<1> SUFFICES ASSUME RunnerInv, ExitSeen, LogsOutliveProcess, [Next]_vars
             PROVE  ExitSeen' /\ LogsOutliveProcess'
  OBVIOUS
<1>0. /\ proc = "exited" => proc' = "exited"
      /\ runner = "started" => runner' = "started"
  BY ExitIsFinal DEF RunnerInv
(* Steps that leave the waiter, the channel and who has panicked alone.    *)
<1>1. ASSUME UNCHANGED <<waiter, logClosed>>,
             \A o \in Origins : reader'[o] = "panicked" => reader[o] = "panicked"
      PROVE  ExitSeen' /\ LogsOutliveProcess'
  BY <1>0, <1>1 DEF ExitSeen, LogsOutliveProcess, Crashed
<1>2. CASE \/ Start \/ Stop \/ ContextDone \/ ProcessEnds
           \/ WaitReady \/ Timeout \/ Tick \/ ProbeOK \/ ProbeKO \/ GiveUp
  BY <1>1, <1>2, ControlRunnerInv DEF readVars, logVars
<1>3. CASE UNCHANGED vars \/ ReceiveLog
  BY <1>1, <1>3 DEF vars, readVars, logVars, ReceiveLog
<1>4. CASE StartReturns
  <2>1. /\ runner = "starting" /\ runner' = "started" /\ waiter' = "wait"
        /\ reader' = [o \in Origins |-> "scan"] /\ logClosed' = logClosed
    BY <1>4 DEF StartReturns, logVars
  <2>2. ~ logClosed
    BY <2>1 DEF ExitSeen
  <2> QED
    BY <2>1, <2>2 DEF ExitSeen, LogsOutliveProcess, Crashed
<1>5. CASE WaitReturns
  <2>1. /\ waiter = "wait" /\ proc = "exited" /\ waiter' = "exit"
        /\ UNCHANGED <<runner, proc, reader, logClosed>>
    BY <1>5 DEF WaitReturns, procVars, logVars
  <2> QED
    BY <2>1 DEF ExitSeen, LogsOutliveProcess, Crashed
<1>6. CASE CloseLogs
  <2>1. waiter = "exit" /\ waiter' = "ended" /\ UNCHANGED <<runner, proc, reader>>
    BY <1>6 DEF CloseLogs, procVars
  <2> QED
    BY <2>1 DEF ExitSeen, LogsOutliveProcess, Crashed
<1>7. ASSUME NEW o \in Origins, Write(o) \/ TakeLine(o) \/ ScanEnds(o) \/ SendLog(o) \/ Mark(o)
      PROVE  ExitSeen' /\ LogsOutliveProcess'
  <2>1. UNCHANGED <<waiter, logClosed>>
    BY <1>7 DEF Write, TakeLine, ScanEnds, SendLog, Mark, readVars, logVars
  <2>2. reader \in [Origins -> Places]
    BY DEF RunnerInv, TypeOK, Places
  <2>3. \A q \in Origins : reader'[q] = "panicked" => reader[q] = "panicked"
    BY <1>7, <2>2 DEF Write, TakeLine, ScanEnds, SendLog, Mark, readVars
  <2> QED
    BY <1>1, <2>1, <2>3
<1>8. ASSUME NEW o \in Origins, SendOnClosed(o) PROVE ExitSeen' /\ LogsOutliveProcess'
  <2>1. logClosed /\ UNCHANGED <<runner, proc, waiter, logClosed>>
    BY <1>8 DEF SendOnClosed, procVars, logVars
  <2> QED
    BY <2>1 DEF ExitSeen, LogsOutliveProcess, Crashed
<1> QED
  BY <1>2, <1>3, <1>4, <1>5, <1>6, <1>7, <1>8 DEF Next, Reading

(* Logs() is closed, and the program crashes, only when the process ended: *)
(* a Stop or a done context alone does neither.                            *)
THEOREM LogsEndBehindProcess == Spec => []LogsOutliveProcess
BY InitExit, NextExit, Placing, PTL DEF Spec

(* Behind the exit nothing is written, and each step of a reader shortens  *)
(* what it has left: EndsOrCrashes needs no more than that they get their  *)
(* turn.                                                                   *)
THEOREM ReadersEnd == Spec => ReadersRunDry
<1> DEFINE Shorter(o) ==
             reader[o] # "off" =>
               \/ StepsLeft(o)' < StepsLeft(o)
               \/ UNCHANGED <<written[o], taken[o], reader[o]>>
           Dry == proc = "exited" => \A o \in Origins : Shorter(o)
<1>1. RunnerInv /\ [Next]_vars => Dry
  <2> SUFFICES ASSUME RunnerInv, [Next]_vars, proc = "exited", NEW q \in Origins,
                      reader[q] # "off"
               PROVE  \/ StepsLeft(q)' < StepsLeft(q)
                      \/ UNCHANGED <<written[q], taken[q], reader[q]>>
    OBVIOUS
  <2>0. /\ reader \in [Origins -> Places]
        /\ written \in [Origins -> 0 .. MaxLines] /\ taken \in [Origins -> 0 .. MaxLines]
        /\ written[q] \in Nat /\ taken[q] \in Nat
    BY BoundsAssumption DEF RunnerInv, TypeOK, Places
  <2>1. CASE UNCHANGED <<written, taken, reader>>
    BY <2>1
  <2>2. ASSUME NEW o \in Origins, TakeLine(o)
        PROVE  \/ StepsLeft(q)' < StepsLeft(q)
               \/ UNCHANGED <<written[q], taken[q], reader[q]>>
    <3>1. /\ reader[o] = "scan" /\ written' = written
          /\ taken' = [taken EXCEPT ![o] = taken[o] + 1]
          /\ reader' = [reader EXCEPT ![o] = "send"]
      BY <2>2 DEF TakeLine, procVars
    <3>2. CASE q = o
      <4>1. taken'[q] = taken[q] + 1 /\ reader[q] = "scan" /\ reader'[q] = "send"
        BY <2>0, <3>1, <3>2
      <4>2. /\ StepsLeft(q) = 3 * (written[q] - taken[q]) + 1
            /\ StepsLeft(q)' = 3 * (written[q] - (taken[q] + 1)) + 3
        BY <3>1, <4>1 DEF StepsLeft, StepsOfStage
      <4> QED
        BY <2>0, <4>2
    <3>3. CASE q # o
      BY <2>0, <3>1, <3>3
    <3> QED
      BY <3>2, <3>3
  <2>3. ASSUME NEW o \in Origins, ScanEnds(o) \/ SendLog(o) \/ SendOnClosed(o) \/ Mark(o)
        PROVE  \/ StepsLeft(q)' < StepsLeft(q)
               \/ UNCHANGED <<written[q], taken[q], reader[q]>>
    <3>1. UNCHANGED <<written, taken>>
      BY <2>3 DEF ScanEnds, SendLog, SendOnClosed, Mark, procVars
    <3>2. \/ reader[o] = "scan" /\ reader' = [reader EXCEPT ![o] = "ended"]
          \/ reader[o] = "send" /\ reader' = [reader EXCEPT ![o] = "mark"]
          \/ reader[o] = "send" /\ reader' = [reader EXCEPT ![o] = "scan"]
          \/ reader[o] = "send" /\ reader' = [reader EXCEPT ![o] = "panicked"]
          \/ reader[o] = "mark" /\ reader' = [reader EXCEPT ![o] = "scan"]
      BY <2>3 DEF ScanEnds, SendLog, SendOnClosed, Mark
    <3>3. CASE q = o
      <4>1. StepsOfStage[reader'[q]] < StepsOfStage[reader[q]]
        BY <2>0, <3>2, <3>3 DEF StepsOfStage
      <4>2. StepsOfStage[reader'[q]] \in Nat /\ StepsOfStage[reader[q]] \in Nat
        BY <2>0, <3>2, <3>3 DEF StepsOfStage
      <4>3. 3 * (written[q] - taken[q]) \in Int
        BY <2>0
      <4> QED
        BY <3>1, <4>1, <4>2, <4>3 DEF StepsLeft
    <3>4. CASE q # o
      BY <2>0, <3>1, <3>2, <3>4
    <3> QED
      BY <3>3, <3>4
  <2>4. ~ StartReturns
    BY DEF StartReturns, RunnerInv, ReadersPlaced
  <2>5. \A o \in Origins : ~ Write(o)
    BY DEF Write
  <2>6. CASE \/ Start \/ Stop \/ ContextDone \/ ProcessEnds
             \/ WaitReady \/ Timeout \/ Tick \/ ProbeOK \/ ProbeKO \/ GiveUp
             \/ WaitReturns \/ CloseLogs \/ ReceiveLog \/ UNCHANGED vars
    <3>1. UNCHANGED <<written, taken, reader>>
      BY <2>6 DEF Start, Stop, ContextDone, ProcessEnds, WaitReady, Timeout, Tick,
                  ProbeOK, ProbeKO, GiveUp, WaitReturns, CloseLogs, ReceiveLog, vars,
                  procVars, readVars
    <3> QED
      BY <2>1, <3>1
  <2> QED
    BY <2>2, <2>3, <2>4, <2>5, <2>6 DEF Next, Reading
<1>2. RunnerInv /\ [Next]_vars => [Dry]_vars
  BY <1>1
<1> QED
  BY <1>2, Placing, PTL DEF Spec, ReadersRunDry
=============================================================================
