---------------------------- MODULE Daemon_proofs ----------------------------
(***************************************************************************)
(* The drain and the exit, for every set of connections and listeners.     *)
(***************************************************************************)
EXTENDS Daemon, SequenceTheorems, FiniteSetTheorems, TLAPS

\* Taking one command out of a queue keeps the others.
LEMMA RemoveOne ==
  ASSUME NEW S, NEW s \in Seq(S), NEW i \in DOMAIN s
  PROVE  LET t == SX!RemoveAt(s, i) IN
         /\ t \in Seq(S)
         /\ Len(t) = Len(s) - 1
         /\ \A j \in DOMAIN t : \E k \in DOMAIN s : t[j] = s[k]
<1> DEFINE a == SubSeq(s, 1, i - 1)
           b == SubSeq(s, i + 1, Len(s))
           n == Len(s)
<1>1. n \in Nat /\ DOMAIN s = 1..n /\ i \in 1..n /\ \A k \in 1..n : s[k] \in S
  BY LenProperties, ElementOfSeq
<1>2. /\ a \in Seq(S) /\ Len(a) = i - 1
      /\ \A k \in 1..(i - 1) : a[k] = s[k]
  BY <1>1, SubSeqProperties
<1>3. /\ b \in Seq(S) /\ Len(b) = n - i
      /\ \A k \in 1..(n - i) : b[k] = s[i + k]
  BY <1>1, SubSeqProperties
<1> HIDE DEF a, b
<1>4. SX!RemoveAt(s, i) = a \o b
  BY DEF SX!RemoveAt, a, b
<1>5. a \in Seq(S) /\ b \in Seq(S)
  BY <1>2, <1>3
<1>6. /\ a \o b \in Seq(S)
      /\ Len(a \o b) = Len(a) + Len(b)
      /\ \A k \in 1..(Len(a) + Len(b)) :
           (a \o b)[k] = IF k <= Len(a) THEN a[k] ELSE b[k - Len(a)]
  BY <1>5, ConcatProperties
<1>7. Len(a) = i - 1 /\ Len(b) = n - i /\ Len(a) + Len(b) = n - 1
  BY <1>1, <1>2, <1>3
<1>8. ASSUME NEW j \in 1..(n - 1)
      PROVE  \E k \in 1..n : (a \o b)[j] = s[k]
  <2>1. CASE j <= i - 1
    <3>1. (a \o b)[j] = a[j] /\ j \in 1..(i - 1) /\ j \in 1..n
      BY <2>1, <1>1, <1>6, <1>7
    <3> QED
      BY <3>1, <1>2
  <2>2. CASE j > i - 1
    <3>1. (a \o b)[j] = b[j - (i - 1)]
      BY <2>2, <1>1, <1>6, <1>7
    <3>2. j - (i - 1) \in 1..(n - i) /\ j + 1 \in 1..n /\ i + (j - (i - 1)) = j + 1
      BY <2>2, <1>1
    <3> QED
      BY <3>1, <3>2, <1>3
  <2>3. j <= i - 1 \/ j > i - 1
    BY <1>1
  <2> QED
    BY <2>1, <2>2, <2>3
<1>9. DOMAIN (a \o b) = 1..(n - 1)
  BY <1>6, <1>7, LenProperties
<1> QED
  BY <1>1, <1>4, <1>6, <1>7, <1>8, <1>9
-----------------------------------------------------------------------------
(* The inductive invariant.                                                *)

Owners ==
  /\ \A w \in Workers : job[w] # NoJob => Of[job[w]] = w
  /\ \A w \in Workers : \A i \in DOMAIN queue[w] : Of[queue[w][i]] = w
  /\ \A c \in Callers : client[c] = "sending" => Of[c] = "encoder"

\* A thread that ended its loop had no sender left and gains none; one that
\* panicked holds nothing.
ThreadsEnd ==
  /\ started => job["encoder"] # NoJob
  /\ \A w \in Workers : thread[w] = "ended" => ~HandlesLive
  /\ \A w \in Workers : thread[w] = "panicked" => job[w] = NoJob /\ queue[w] = <<>>

\* Listeners are open only while main serves, or when the process was ended.
ListenersServe == listening # {} => main = "serving" \/ Exited

SignalInOrder ==
  /\ signal \in {"unready", "triggered"} => ~ready
  /\ main = "serving" /\ listening # Listeners => signal = "triggered"

MarkedAfterDrop ==
  /\ marked \cap engines = {}
  /\ dropped => Workers \subseteq marked

\* Only the end of the process cuts a connection off, no connection is accepted
\* before main serves, and a worker's mark means that no handle is left: main
\* then knows that nobody will be cut off.
CutIsTheEnd == \A c \in Callers : client[c] = "cut" => Exited
UnboundAlone ==
  main \in {"binding", "flushing an error"} => \A c \in Callers : ~Alive(c)
MarkedAlone == marked # {} => ~HandlesLive
DroppedAlone == dropped => ~HandlesLive /\ \A c \in Callers : client[c] # "cut"
Ending == CutIsTheEnd /\ UnboundAlone /\ MarkedAlone /\ DroppedAlone

\* The callers between gauge and channel.
Sending == {c \in Callers : client[c] = "sending"}

GaugeCovers == depth >= Cardinality(Sending)

Shape == TypeOK /\ Owners /\ ThreadsEnd /\ ListenersServe

IInv ==
  /\ Shape
  /\ GaugeCovers
  /\ GaugeCounts
  /\ Ending
  /\ CutOffForCause
  /\ SignalInOrder
  /\ DrainLeavesNobody
  /\ MarkedAfterDrop
  /\ FailsOnlyOnPanic

LEMMA InitIInv == Init => IInv
<1> SUFFICES ASSUME Init PROVE IInv
  OBVIOUS
<1> USE DaemonAssumption DEF Init, Workers
<1>1. TypeOK
  BY EmptySeq DEF TypeOK, Phases
<1>2. Owners /\ ThreadsEnd /\ ListenersServe
  BY DEF Owners, ThreadsEnd, ListenersServe, HandlesLive, RouterHeld
<1>3. Sending = {} /\ Cardinality(Sending) = 0
  BY FS_EmptySet DEF Sending
<1>4. Len(queue["encoder"]) = 0
  BY EmptySeq
<1>5. GaugeCovers /\ GaugeCounts
  BY <1>3, <1>4 DEF GaugeCovers, GaugeCounts, Sending
<1>6. CutOffForCause /\ SignalInOrder /\ DrainLeavesNobody
  BY DEF CutOffForCause, SignalInOrder, DrainLeavesNobody
<1>7. MarkedAfterDrop /\ FailsOnlyOnPanic
  BY DEF MarkedAfterDrop, FailsOnlyOnPanic
<1>8. Ending
  BY DEF Ending, CutIsTheEnd, UnboundAlone, MarkedAlone, DroppedAlone, Alive
<1> QED
  BY <1>1, <1>2, <1>5, <1>6, <1>7, <1>8 DEF IInv, Shape
-----------------------------------------------------------------------------
(* Every action keeps the shape of the state.                              *)

Counted == GaugeCovers /\ GaugeCounts

\* A step of the signal, of the listeners or of main leaves requests alone, but
\* for the last.
Outside ==
  \/ SignalArrives \/ BeginShutdown \/ Bind \/ BindFails \/ CapPasses
  \/ MainSteps \/ (\E l \in Listeners : StopListening(l))
  \/ (\E w \in Workers : Monitor(w))
Quits == Exit \/ (\E w \in Workers : Monitor(w))

LEMMA OutsideQuiet ==
  ASSUME Outside
  PROVE  UNCHANGED <<queue, job, started, depth, workers>> /\ (Quits \/ UNCHANGED client)
BY DEF Outside, SignalArrives, BeginShutdown, Bind, BindFails, CapPasses, MainSteps,
   ServeReturns, ReturnAt, WaitEnds, WaitTimesOut, Exit, StopListening, Monitor, MonitorExit,
   EndProcess, Quits, requests

LEMMA QuitsCuts ==
  ASSUME Quits
  PROVE  /\ Exited' /\ UNCHANGED <<workers, shutdown, dropped>>
         /\ client' = [c \in Callers |-> IF Alive(c) THEN "cut" ELSE client[c]]
BY DEF Quits, Exit, Monitor, MonitorExit, EndProcess, Exited

\* No connection comes to life by a step from outside.
LEMMA OutsideAlive ==
  ASSUME Outside, NEW c \in Callers
  PROVE  /\ client'[c] = client[c] \/ (Quits /\ Alive(c) /\ client'[c] = "cut")
         /\ Alive(c)' => Alive(c)
<1>1. CASE UNCHANGED client
  BY <1>1 DEF Alive
<1>2. CASE Quits
  BY <1>2, QuitsCuts DEF Alive
<1> QED
  BY <1>1, <1>2, OutsideQuiet

LEMMA SendingFinite ==
  IsFiniteSet(Sending) /\ Cardinality(Sending) \in Nat
<1>1. Sending \subseteq Callers
  BY DEF Sending
<1> QED
  BY <1>1, DaemonAssumption, FS_Subset, FS_CardinalityType

\* Whoever is between gauge and channel is counted.
LEMMA SendingCounted ==
  ASSUME TypeOK, GaugeCovers, NEW c \in Callers, client[c] = "sending"
  PROVE  depth - 1 \in Nat
<1>1. Sending # {}
  BY DEF Sending
<1>2. Cardinality(Sending) \in Nat \ {0}
  BY <1>1, SendingFinite, FS_EmptySet
<1>3. depth \in Nat
  BY DEF TypeOK
<1>4. depth >= Cardinality(Sending)
  BY DEF GaugeCovers
<1> HIDE DEF Sending
<1> QED
  BY <1>2, <1>3, <1>4

LEMMA StartCounted ==
  ASSUME TypeOK, ThreadsEnd, GaugeCounts, Start PROVE depth - 1 \in Nat
<1>1. Running /\ thread["encoder"] # "panicked" /\ job["encoder"] # NoJob /\ ~started
  BY DEF Start, ThreadsEnd, Workers
<1>2. Len(queue["encoder"]) \in Nat
  BY LenProperties DEF TypeOK, Workers
<1>3. depth = Cardinality(Sending) + Len(queue["encoder"]) + 1
  BY <1>1 DEF GaugeCounts, Sending
<1>4. Cardinality(Sending) \in Nat
  BY SendingFinite
<1> QED
  BY <1>2, <1>3, <1>4

LEMMA HearType ==
  ASSUME client \in [Callers -> Phases], NEW heard, NEW phase \in Phases, Hear(heard, phase)
  PROVE  client' \in [Callers -> Phases]
BY DEF Hear

LEMMA TypeStep == Shape /\ Counted /\ [Next]_vars => TypeOK'
<1> SUFFICES ASSUME Shape, Counted, [Next]_vars PROVE TypeOK'
  OBVIOUS
<1> USE DEF Shape
<1>1. CASE UNCHANGED vars
  BY <1>1 DEF vars, requests, workers, shutdown, exiting, TypeOK
<1>2. CASE Outside
  <2>1. UNCHANGED <<queue, job, started, depth, workers>>
    BY <1>2, OutsideQuiet
  <2>2. client' \in [Callers -> Phases]
    BY <1>2, OutsideQuiet, QuitsCuts DEF TypeOK, Phases
  <2>3. UNCHANGED <<queue, job, started, depth, thread, engines, marked, monitored>>
    BY <2>1 DEF workers
  <2>4. /\ signal' \in {"none", "stopping", "unready", "triggered"}
        /\ ready' \in BOOLEAN /\ listening' \subseteq Listeners /\ capped' \in BOOLEAN
        /\ dropped' \in BOOLEAN
        /\ main' \in {"binding", "serving", "waiting", "flushing", "flushing an error",
                     "exit 0", "exit 1", "exit 1, unbound"}
    BY <1>2 DEF Outside, SignalArrives, BeginShutdown, Bind, BindFails, CapPasses,
       MainSteps, ServeReturns, ReturnAt, WaitEnds, WaitTimesOut, Exit, StopListening,
       Monitor, MonitorExit, EndProcess, shutdown, exiting, TypeOK
  <2> QED
    BY <2>2, <2>3, <2>4 DEF TypeOK
<1>3. ASSUME NEW c \in Callers, Accept(c) \/ Close(c) \/ Disconnect(c) \/ TimeOut(c)
      PROVE  TypeOK'
  <2>1. client' \in [Callers -> Phases]
    BY <1>3 DEF Accept, Close, Disconnect, TimeOut, To, TypeOK, Phases
  <2>2. UNCHANGED <<queue, job, started, depth, thread, engines, marked, monitored>>
    BY <1>3 DEF Accept, Close, Disconnect, TimeOut, workers
  <2>3. UNCHANGED <<signal, ready, listening, capped, main, dropped>>
    BY <1>3 DEF Accept, Close, Disconnect, TimeOut, shutdown, exiting
  <2> QED
    BY <2>1, <2>2, <2>3 DEF TypeOK
<1>4. ASSUME NEW c \in Callers, BeginSend(c) PROVE TypeOK'
  <2>1. client' \in [Callers -> Phases]
    BY <1>4 DEF BeginSend, To, TypeOK, Phases
  <2>2. depth \in Nat /\ depth' = depth + 1
    BY <1>4 DEF BeginSend, TypeOK
  <2>3. depth' \in Nat
    BY <2>2
  <2> QED
    BY <1>4, <2>1, <2>3 DEF BeginSend, workers, shutdown, exiting, TypeOK
<1>5. ASSUME NEW c \in Callers, Send(c) PROVE TypeOK'
  <2>1. depth - 1 \in Nat
    BY <1>5, SendingCounted DEF Send, Counted
  <2>2. Append(queue["encoder"], c) \in Seq(Callers)
    BY AppendProperties DEF TypeOK, Workers
  <2> QED
    BY <1>5, <2>1, <2>2 DEF Send, To, workers, shutdown, exiting, TypeOK, Phases
<1>6. ASSUME NEW c \in Callers, Enqueue(c) PROVE TypeOK'
  <2>1. Append(queue["adjudicator"], c) \in Seq(Callers)
    BY AppendProperties DEF TypeOK, Workers
  <2> QED
    BY <1>6, <2>1 DEF Enqueue, To, workers, shutdown, exiting, TypeOK, Phases
<1>7. ASSUME NEW w \in Workers, Take(w) PROVE TypeOK'
  <2>1. PICK i \in DOMAIN queue[w] :
          /\ job' = [job EXCEPT ![w] = queue[w][i]]
          /\ queue' = [queue EXCEPT ![w] = SX!RemoveAt(@, i)]
    BY <1>7 DEF Take
  <2>2. SX!RemoveAt(queue[w], i) \in Seq(Callers) /\ queue[w][i] \in Callers
    BY RemoveOne, LenProperties, ElementOfSeq DEF TypeOK
  <2> QED
    BY <1>7, <2>1, <2>2 DEF Take, workers, shutdown, exiting, TypeOK
<1>8. CASE Start
  BY <1>8, StartCounted DEF Counted, Start, workers, shutdown, exiting, TypeOK
<1>9. CASE Finish \/ FinishAdjudication
  <2>1. client' \in [Callers -> Phases]
    BY <1>9, HearType DEF Finish, FinishAdjudication, TypeOK, Phases
  <2> QED
    BY <1>9, <2>1 DEF Finish, FinishAdjudication, workers, shutdown, exiting, TypeOK
<1>10. ASSUME NEW w \in Workers, Panic(w) PROVE TypeOK'
  <2>1. client' \in [Callers -> Phases] /\ <<>> \in Seq(Callers)
    BY <1>10, HearType, EmptySeq DEF Panic, TypeOK, Phases
  <2> QED
    BY <1>10, <2>1 DEF Panic, shutdown, exiting, TypeOK
<1>11. ASSUME NEW w \in Workers, EndLoop(w) \/ DropEngine(w) \/ MarkExit(w) PROVE TypeOK'
  BY <1>11 DEF EndLoop, DropEngine, MarkExit, requests, shutdown, exiting, TypeOK
<1> QED
  BY <1>1, <1>2, <1>3, <1>4, <1>5, <1>6, <1>7, <1>8, <1>9, <1>10, <1>11
     DEF Next, Work, Handler, Outside
-----------------------------------------------------------------------------
(* Who owns what, and what outlives what.                                  *)

LEMMA AppendOne ==
  ASSUME NEW S, NEW s \in Seq(S), NEW e \in S
  PROVE  /\ Append(s, e) \in Seq(S) /\ Len(Append(s, e)) = Len(s) + 1
         /\ \A j \in DOMAIN Append(s, e) :
              Append(s, e)[j] = e \/ \E k \in DOMAIN s : Append(s, e)[j] = s[k]
<1>1. /\ Append(s, e) \in Seq(S) /\ Len(Append(s, e)) = Len(s) + 1
      /\ \A k \in 1..Len(s) : Append(s, e)[k] = s[k]
      /\ Append(s, e)[Len(s) + 1] = e
  BY AppendProperties
<1>2. DOMAIN s = 1..Len(s) /\ Len(s) \in Nat
  BY LenProperties
<1>3. DOMAIN Append(s, e) = 1..(Len(s) + 1)
  BY <1>1, LenProperties
<1> QED
  BY <1>1, <1>2, <1>3

\* Answering callers neither starts nor ends a send, and ends no connection.
LEMMA HearQuiet ==
  ASSUME NEW heard, NEW phase \in {"ok", "failed"}, Hear(heard, phase),
         client \in [Callers -> Phases], NEW c \in Callers
  PROVE  /\ client'[c] = "sending" <=> client[c] = "sending"
         /\ Alive(c)' => Alive(c)
BY DEF Hear, Alive

LEMMA AliveFades ==
  ASSUME Shape, [Next]_vars, NEW c \in Callers, Alive(c)'
  PROVE  Alive(c) \/ (listening # {} /\ Running)
<1> USE DEF Shape
<1>1. CASE UNCHANGED vars
  BY <1>1 DEF vars, requests, Alive
<1>2. CASE Outside
  BY <1>2, OutsideAlive
<1>3. ASSUME NEW b \in Callers, Accept(b) \/ Handler(b) \/ Disconnect(b)
      PROVE  Alive(c) \/ (listening # {} /\ Running)
  BY <1>3 DEF Accept, Handler, BeginSend, Send, Enqueue, TimeOut, Close, Disconnect, To,
     Alive, TypeOK
<1>4. CASE Finish \/ FinishAdjudication
  BY <1>4, HearQuiet DEF Finish, FinishAdjudication, TypeOK
<1>5. ASSUME NEW w \in Workers, Panic(w) PROVE Alive(c)
  BY <1>5, HearQuiet DEF Panic, TypeOK
<1>6. ASSUME NEW w \in Workers,
             Take(w) \/ Start \/ EndLoop(w) \/ DropEngine(w) \/ MarkExit(w)
      PROVE  Alive(c)
  BY <1>6 DEF Take, Start, EndLoop, DropEngine, MarkExit, requests, Alive
<1> QED
  BY <1>1, <1>2, <1>3, <1>4, <1>5, <1>6 DEF Next, Work, Outside

\* Once the last handle is gone no new one appears.
LEMMA HandlesFade ==
  ASSUME Shape, [Next]_vars, HandlesLive' PROVE HandlesLive
<1> USE DEF Shape
<1>1. CASE RouterHeld'
  <2>1. RouterHeld
    BY <1>1 DEF RouterHeld, Next, Accept, Handler, BeginSend, Send, Enqueue, TimeOut,
       Close, Disconnect, Work, Take, Start, Finish, FinishAdjudication, Panic, EndLoop,
       DropEngine, MarkExit, SignalArrives, BeginShutdown, Bind, BindFails, CapPasses,
       MainSteps, ServeReturns, ReturnAt, WaitEnds, WaitTimesOut, Exit, StopListening,
       Monitor, MonitorExit, EndProcess, vars, exiting
  <2> QED
    BY <2>1 DEF HandlesLive
<1>2. ASSUME NEW c \in Callers, Alive(c)' PROVE HandlesLive
  BY <1>2, AliveFades DEF HandlesLive, RouterHeld, ListenersServe, Running
<1> QED
  BY <1>1, <1>2 DEF HandlesLive

LEMMA OwnersStep == Shape /\ [Next]_vars => Owners'
<1> SUFFICES ASSUME Shape, [Next]_vars PROVE Owners'
  OBVIOUS
<1> USE DEF Shape
<1>1. CASE UNCHANGED vars
  BY <1>1 DEF vars, requests, Owners
<1>2. CASE Outside
  <2>1. \A c \in Callers : client'[c] = "sending" => client[c] = "sending"
    BY <1>2, OutsideAlive
  <2> QED
    BY <1>2, <2>1, OutsideQuiet DEF Owners
<1>3. ASSUME NEW c \in Callers, Accept(c) \/ BeginSend(c) \/ Close(c) \/ Disconnect(c)
                                  \/ TimeOut(c)
      PROVE  Owners'
  BY <1>3 DEF Accept, BeginSend, Close, Disconnect, TimeOut, To, Owners, TypeOK
<1>4. ASSUME NEW c \in Callers, Send(c) \/ Enqueue(c) PROVE Owners'
  <2>1. UNCHANGED job
    BY <1>4 DEF Send, Enqueue
  <2>2. \A b \in Callers : client'[b] = "sending" => client[b] = "sending"
    BY <1>4 DEF Send, Enqueue, To, TypeOK
  <2>3. ASSUME NEW w \in Workers, NEW i \in DOMAIN queue'[w] PROVE Of[queue'[w][i]] = w
    <3>1. queue' = queue \/ queue' = [queue EXCEPT ![Of[c]] = Append(@, c)]
      BY <1>4 DEF Send, Enqueue, Owners
    <3>2. queue[w] \in Seq(Callers) /\ queue \in [Workers -> Seq(Callers)] /\ Of[c] \in Workers
      BY DaemonAssumption DEF TypeOK
    <3>3. \A j \in DOMAIN Append(queue[w], c) : Append(queue[w], c)[j] = c
            \/ \E k \in DOMAIN queue[w] : Append(queue[w], c)[j] = queue[w][k]
      BY <3>2, AppendOne
    <3>4. \A j \in DOMAIN queue[w] : Of[queue[w][j]] = w
      BY DEF Owners
    <3>5. queue'[w] = queue[w] \/ (w = Of[c] /\ queue'[w] = Append(queue[w], c))
      BY <3>1, <3>2
    <3> QED
      BY <3>3, <3>4, <3>5, <2>3
  <2> QED
    BY <2>1, <2>2, <2>3 DEF Owners
<1>5. ASSUME NEW w \in Workers, Take(w) PROVE Owners'
  <2>1. PICK i \in DOMAIN queue[w] :
          /\ job' = [job EXCEPT ![w] = queue[w][i]]
          /\ queue' = [queue EXCEPT ![w] = SX!RemoveAt(@, i)]
    BY <1>5 DEF Take
  <2>2. queue[w] \in Seq(Callers) /\ queue \in [Workers -> Seq(Callers)]
        /\ job \in [Workers -> Callers \cup {NoJob}]
    BY DEF TypeOK
  <2>3. \A j \in DOMAIN SX!RemoveAt(queue[w], i) :
          \E k \in DOMAIN queue[w] : SX!RemoveAt(queue[w], i)[j] = queue[w][k]
    BY <2>2, RemoveOne
  <2> DEFINE q == SX!RemoveAt(queue[w], i)
  <2> HIDE DEF q
  <2>4. /\ \A v \in Workers : job'[v] = IF v = w THEN queue[w][i] ELSE job[v]
        /\ \A v \in Workers : queue'[v] = IF v = w THEN q ELSE queue[v]
    BY <2>1, <2>2 DEF q
  <2>5. \A j \in DOMAIN q : \E k \in DOMAIN queue[w] : q[j] = queue[w][k]
    BY <2>3 DEF q
  <2>6. /\ \A v \in Workers : job[v] # NoJob => Of[job[v]] = v
        /\ \A v \in Workers : \A j \in DOMAIN queue[v] : Of[queue[v][j]] = v
    BY DEF Owners
  <2>7. \A v \in Workers : job'[v] # NoJob => Of[job'[v]] = v
    BY <2>4, <2>6
  <2>8. \A v \in Workers : \A j \in DOMAIN queue'[v] : Of[queue'[v][j]] = v
    BY <2>4, <2>5, <2>6
  <2>9. UNCHANGED client
    BY <1>5 DEF Take
  <2> QED
    BY <2>7, <2>8, <2>9 DEF Owners
<1>6. CASE Finish \/ FinishAdjudication
  <2>1. \A b \in Callers : client'[b] = "sending" => client[b] = "sending"
    BY <1>6, HearQuiet DEF Finish, FinishAdjudication, TypeOK
  <2>2. \A v \in Workers : job'[v] = job[v] \/ job'[v] = NoJob
    BY <1>6 DEF Finish, FinishAdjudication, TypeOK, Workers
  <2>3. UNCHANGED queue
    BY <1>6 DEF Finish, FinishAdjudication
  <2> QED
    BY <2>1, <2>2, <2>3 DEF Owners
<1>7. ASSUME NEW w \in Workers, Panic(w) PROVE Owners'
  <2>1. \A b \in Callers : client'[b] = "sending" => client[b] = "sending"
    BY <1>7, HearQuiet DEF Panic, TypeOK
  <2>2. DOMAIN <<>> = {}
    OBVIOUS
  <2> QED
    BY <1>7, <2>1, <2>2 DEF Panic, Owners, TypeOK
<1>8. ASSUME NEW w \in Workers, Start \/ EndLoop(w) \/ DropEngine(w) \/ MarkExit(w)
      PROVE  Owners'
  BY <1>8 DEF Start, EndLoop, DropEngine, MarkExit, requests, Owners
<1> QED
  BY <1>1, <1>2, <1>3, <1>4, <1>5, <1>6, <1>7, <1>8 DEF Next, Work, Handler, Outside

LEMMA ThreadsEndStep == Shape /\ [Next]_vars => ThreadsEnd'
<1> SUFFICES ASSUME Shape, [Next]_vars PROVE ThreadsEnd'
  OBVIOUS
<1> USE DEF Shape
<1>1. started' => job'["encoder"] # NoJob
  <2>1. ASSUME NEW w \in Workers, Take(w) PROVE job'["encoder"] # NoJob \/ ~started'
    <3>1. PICK i \in DOMAIN queue[w] : job' = [job EXCEPT ![w] = queue[w][i]]
      BY <2>1 DEF Take
    <3>2. job \in [Workers -> Callers \cup {NoJob}] /\ queue[w] \in Seq(Callers)
      BY DEF TypeOK
    <3>3. queue[w][i] \in Callers
      BY <3>2, LenProperties, ElementOfSeq
    <3>4. UNCHANGED started /\ (started => job["encoder"] # NoJob)
      BY <2>1 DEF Take, ThreadsEnd
    <3> QED
      BY <3>1, <3>2, <3>3, <3>4, DaemonAssumption DEF Workers
  <2>2. CASE \A w \in Workers : ~Take(w)
    <3>1. CASE Outside
      BY <3>1, OutsideQuiet DEF requests, ThreadsEnd
    <3>2. CASE ~Outside
      BY <2>2, <3>2 DEF Next, Outside, Accept, Handler, BeginSend, Send, Enqueue, TimeOut,
         Close, Disconnect, Work, Start, Finish, FinishAdjudication, Panic, EndLoop,
         DropEngine, MarkExit, vars, requests, ThreadsEnd, TypeOK, Workers
    <3> QED
      BY <3>1, <3>2
  <2> QED
    BY <2>1, <2>2
<1>2. ASSUME NEW w \in Workers, thread'[w] = "ended" PROVE ~HandlesLive'
  <2>1. CASE thread[w] = "ended"
    BY <2>1, HandlesFade DEF ThreadsEnd
  <2>2. CASE thread[w] # "ended"
    <3>1. PICK v \in Workers : EndLoop(v)
      <4>1. CASE Outside
        BY <4>1, <1>2, <2>2, OutsideQuiet DEF workers
      <4>2. CASE ~Outside
        BY <4>2, <1>2, <2>2 DEF Next, Outside, Accept, Handler, BeginSend, Send, Enqueue,
           TimeOut, Close, Disconnect, Work, Take, Start, Finish, FinishAdjudication,
           Panic, DropEngine, MarkExit, vars, workers, TypeOK
      <4> QED
        BY <4>1, <4>2
    <3>2. ~HandlesLive
      BY <3>1 DEF EndLoop
    <3> QED
      BY <3>2, HandlesFade
  <2> QED
    BY <2>1, <2>2
<1>3. ASSUME NEW w \in Workers, thread'[w] = "panicked"
      PROVE  job'[w] = NoJob /\ queue'[w] = <<>>
  <2>1. CASE Outside
    BY <2>1, <1>3, OutsideQuiet DEF requests, workers, ThreadsEnd
  <2>2. CASE ~Outside
    BY <2>2, <1>3 DEF Next, Outside, Accept, Handler, BeginSend, Send, Enqueue,
       TimeOut, Close, Disconnect, Work, Take, Start, Finish, FinishAdjudication,
       Panic, EndLoop, DropEngine, MarkExit, vars, requests, workers, ThreadsEnd, TypeOK,
       Workers
  <2> QED
    BY <2>1, <2>2
<1> QED
  BY <1>1, <1>2, <1>3 DEF ThreadsEnd

LEMMA ListenersStep == Shape /\ [Next]_vars => ListenersServe'
BY DEF Shape, ListenersServe, Next, Accept, Handler, BeginSend, Send, Enqueue, TimeOut,
   Close, Disconnect, Work, Take, Start, Finish, FinishAdjudication, Panic, EndLoop,
   DropEngine, MarkExit, SignalArrives, BeginShutdown, Bind, BindFails, CapPasses,
   MainSteps, ServeReturns, ReturnAt, WaitEnds, WaitTimesOut, Exit, StopListening, Monitor,
   MonitorExit, EndProcess, Exited, Running, vars, shutdown, exiting

\* Requests and worker threads change neither the drain nor main.
LEMMA InsideQuiet ==
  ASSUME [Next]_vars, ~Outside PROVE UNCHANGED <<shutdown, exiting>>
BY DEF Outside, Next, Accept, Handler, BeginSend, Send, Enqueue, TimeOut, Close,
   Disconnect, Work, Take, Start, Finish, FinishAdjudication, Panic, EndLoop, DropEngine,
   MarkExit, vars

LEMMA SignalStep == Shape /\ SignalInOrder /\ [Next]_vars => SignalInOrder'
<1> SUFFICES ASSUME Shape, SignalInOrder, [Next]_vars PROVE SignalInOrder'
  OBVIOUS
<1>1. CASE ~Outside
  BY <1>1, InsideQuiet DEF shutdown, exiting, SignalInOrder
<1>2. CASE SignalArrives
  BY <1>2 DEF SignalArrives, exiting, SignalInOrder
<1>3. CASE BeginShutdown
  BY <1>3 DEF BeginShutdown, exiting, SignalInOrder
<1>4. CASE CapPasses
  BY <1>4 DEF CapPasses, exiting, SignalInOrder
<1>5. CASE ServeReturns
  BY <1>5 DEF ServeReturns, ReturnAt, SignalInOrder
<1>6. CASE WaitEnds \/ WaitTimesOut \/ Exit \/ (\E w \in Workers : Monitor(w))
  <2>1. main' # "serving" /\ UNCHANGED shutdown
    BY <1>6 DEF WaitEnds, WaitTimesOut, Exit, Monitor, MonitorExit, EndProcess
  <2> QED
    BY <2>1 DEF shutdown, SignalInOrder
<1>7. CASE Bind
  BY <1>7 DEF Bind, SignalInOrder
<1>8. CASE BindFails
  BY <1>8 DEF BindFails, shutdown, SignalInOrder
<1>9. ASSUME NEW l \in Listeners, StopListening(l) PROVE SignalInOrder'
  BY <1>9 DEF StopListening, SignalInOrder
<1> QED
  BY <1>1, <1>2, <1>3, <1>4, <1>5, <1>6, <1>7, <1>8, <1>9 DEF Outside, MainSteps

LEMMA MarkedStep == Shape /\ MarkedAfterDrop /\ [Next]_vars => MarkedAfterDrop'
<1> SUFFICES ASSUME Shape, MarkedAfterDrop, [Next]_vars PROVE MarkedAfterDrop'
  OBVIOUS
<1>1. CASE Outside
  <2>1. UNCHANGED <<engines, marked>>
    BY <1>1, OutsideQuiet DEF workers
  <2>2. dropped' = dropped \/ Workers \subseteq marked
    BY <1>1 DEF Outside, SignalArrives, BeginShutdown, Bind, BindFails, CapPasses,
       MainSteps, ServeReturns, ReturnAt, WaitEnds, WaitTimesOut, Exit, StopListening,
       Monitor, MonitorExit, EndProcess, exiting
  <2> QED
    BY <2>1, <2>2 DEF MarkedAfterDrop
<1>2. CASE ~Outside
  <2>1. UNCHANGED dropped
    BY <1>2, InsideQuiet DEF exiting
  <2>2. /\ marked \subseteq marked'
        /\ engines' \subseteq engines
        /\ marked' \cap engines' = {}
    BY <1>2 DEF Outside, Next, Accept, Handler, BeginSend, Send, Enqueue, TimeOut, Close,
       Disconnect, Work, Take, Start, Finish, FinishAdjudication, Panic, EndLoop,
       DropEngine, MarkExit, vars, workers, MarkedAfterDrop
  <2> QED
    BY <2>1, <2>2 DEF MarkedAfterDrop
<1> QED
  BY <1>1, <1>2

LEMMA ExitedStays ==
  ASSUME [Next]_vars, Exited PROVE Exited' /\ main' = main
BY DEF Next, SignalArrives, BeginShutdown, Bind, BindFails, CapPasses, MainSteps,
   ServeReturns, ReturnAt, WaitEnds, WaitTimesOut, Exit, StopListening, Monitor,
   MonitorExit, Accept, Handler, BeginSend, Send, Enqueue, TimeOut, Close, Disconnect,
   Work, Take, Start, Finish, FinishAdjudication, Panic, EndLoop, DropEngine, MarkExit,
   vars, exiting, Exited, Running

\* Only the end of the process cuts anybody off, and only who was connected.
LEMMA CutFrom ==
  ASSUME Shape, [Next]_vars, NEW c \in Callers, client'[c] = "cut"
  PROVE  client[c] = "cut" \/ (Quits /\ Alive(c))
<1> USE DEF Shape
<1>1. CASE Outside
  BY <1>1, OutsideAlive
<1>2. CASE UNCHANGED client
  BY <1>2
<1>3. ASSUME NEW b \in Callers, Accept(b) \/ Handler(b) \/ Disconnect(b)
      PROVE  client[c] = "cut"
  BY <1>3 DEF Accept, Handler, BeginSend, Send, Enqueue, TimeOut, Close, Disconnect, To,
     TypeOK
<1>4. ASSUME NEW heard, NEW phase \in {"ok", "failed"}, Hear(heard, phase)
      PROVE  client[c] = "cut"
  BY <1>4 DEF Hear
<1>5. CASE Finish \/ FinishAdjudication
  BY <1>4, <1>5 DEF Finish, FinishAdjudication
<1>6. ASSUME NEW w \in Workers, Panic(w) PROVE client[c] = "cut"
  BY <1>4, <1>6 DEF Panic
<1>7. ASSUME NEW w \in Workers,
             Take(w) \/ Start \/ EndLoop(w) \/ DropEngine(w) \/ MarkExit(w)
      PROVE  UNCHANGED client
  BY <1>7 DEF Take, Start, EndLoop, DropEngine, MarkExit, requests
<1>8. CASE UNCHANGED vars
  BY <1>2, <1>8 DEF vars, requests
<1> QED
  BY <1>1, <1>2, <1>3, <1>5, <1>6, <1>7, <1>8 DEF Next, Work, Outside

LEMMA EndingStep == Shape /\ Ending /\ [Next]_vars => Ending'
<1> SUFFICES ASSUME Shape, Ending, [Next]_vars PROVE Ending'
  OBVIOUS
<1>1. CutIsTheEnd'
  BY CutFrom, QuitsCuts, ExitedStays DEF Ending, CutIsTheEnd
<1>2. UnboundAlone'
  <2> SUFFICES ASSUME main' \in {"binding", "flushing an error"}, NEW c \in Callers
               PROVE  ~Alive(c)'
    BY DEF UnboundAlone
  <2>1. main \in {"binding", "flushing an error"}
    BY DEF Next, SignalArrives, BeginShutdown, Bind, BindFails, CapPasses, MainSteps,
       ServeReturns, ReturnAt, WaitEnds, WaitTimesOut, Exit, StopListening, Monitor,
       MonitorExit, EndProcess, Accept, Handler, BeginSend, Send, Enqueue, TimeOut, Close,
       Disconnect, Work, Take, Start, Finish, FinishAdjudication, Panic, EndLoop,
       DropEngine, MarkExit, vars, exiting
  <2>2. ~Alive(c)
    BY <2>1 DEF Ending, UnboundAlone
  <2>3. listening = {}
    BY <2>1 DEF Shape, ListenersServe, Exited
  <2> QED
    BY <2>2, <2>3, AliveFades
<1>3. MarkedAlone'
  <2>1. marked' = marked \/ \E w \in Workers : MarkExit(w)
    <3>1. CASE Outside
      BY <3>1, OutsideQuiet DEF workers
    <3>2. CASE ~Outside
      BY <3>2 DEF Next, Outside, Accept, Handler, BeginSend, Send, Enqueue, TimeOut, Close,
         Disconnect, Work, Take, Start, Finish, FinishAdjudication, Panic, EndLoop,
         DropEngine, vars, workers
    <3> QED
      BY <3>1, <3>2
  <2>2. ASSUME NEW w \in Workers, MarkExit(w) PROVE ~HandlesLive
    BY <2>2 DEF MarkExit, Shape, ThreadsEnd
  <2> QED
    BY <2>1, <2>2, HandlesFade DEF Ending, MarkedAlone
<1>4. DroppedAlone'
  <2> SUFFICES ASSUME dropped' PROVE ~HandlesLive' /\ \A c \in Callers : client'[c] # "cut"
    BY DEF DroppedAlone
  <2>1. CASE dropped
    <3>1. ~HandlesLive /\ \A c \in Callers : client[c] # "cut"
      BY <2>1 DEF Ending, DroppedAlone
    <3> QED
      BY <3>1, HandlesFade, CutFrom DEF HandlesLive
  <2>2. CASE ~dropped
    <3>1. WaitEnds
      <4>1. CASE Outside
        BY <2>2, <4>1 DEF Outside, SignalArrives, BeginShutdown, Bind, BindFails, CapPasses,
           MainSteps, ServeReturns, ReturnAt, WaitTimesOut, Exit, StopListening,
           Monitor, MonitorExit, EndProcess, exiting
      <4>2. CASE ~Outside
        BY <2>2, <4>2, InsideQuiet DEF exiting
      <4> QED
        BY <4>1, <4>2
    <3>2. ~HandlesLive
      BY <3>1 DEF WaitEnds, Ending, MarkedAlone, Workers
    <3>3. ~Exited /\ client' = client
      BY <3>1 DEF WaitEnds, Exited, requests
    <3> QED
      BY <3>2, <3>3, HandlesFade DEF Ending, CutIsTheEnd
  <2> QED
    BY <2>1, <2>2
<1> QED
  BY <1>1, <1>2, <1>3, <1>4 DEF Ending

LEMMA DrainStep == Shape /\ Ending /\ DrainLeavesNobody /\ [Next]_vars => DrainLeavesNobody'
<1> SUFFICES ASSUME Shape, Ending, DrainLeavesNobody, [Next]_vars,
                    main' \in {"waiting", "flushing", "exit 0"}, ~capped',
                    NEW c \in Callers
             PROVE  ~Alive(c)' /\ client'[c] # "cut"
  BY DEF DrainLeavesNobody
<1>1. CASE main \in {"waiting", "flushing", "exit 0"}
  <2>1. ~capped
    BY DEF Next, Outside, InsideQuiet, shutdown, SignalArrives, BeginShutdown, Bind,
       BindFails, CapPasses, MainSteps, ServeReturns, ReturnAt, WaitEnds, WaitTimesOut,
       Exit, StopListening, Monitor, MonitorExit, EndProcess, Accept, Handler, BeginSend, Send,
       Enqueue, TimeOut, Close, Disconnect, Work, Take, Start, Finish,
       FinishAdjudication, Panic, EndLoop, DropEngine, MarkExit, vars
  <2>2. ~Alive(c) /\ client[c] # "cut"
    BY <1>1, <2>1 DEF DrainLeavesNobody
  <2>3. ~(listening # {} /\ Running)
    BY <1>1 DEF Shape, ListenersServe, Running, Exited
  <2> QED
    BY <2>2, <2>3, AliveFades, CutFrom
<1>2. CASE main \notin {"waiting", "flushing", "exit 0"}
  <2>1. CASE ~Outside
    BY <1>2, <2>1, InsideQuiet DEF exiting
  <2>2. CASE Outside
    <3>1. ServeReturns
      BY <1>2, <2>2 DEF Outside, SignalArrives, BeginShutdown, Bind, BindFails, CapPasses,
         MainSteps, WaitEnds, WaitTimesOut, Exit, StopListening, Monitor, MonitorExit,
         EndProcess, exiting
    <3>2. ~capped /\ Drained /\ client' = client /\ ~Exited
      BY <3>1 DEF ServeReturns, ReturnAt, requests, shutdown, Exited
    <3> QED
      BY <3>2 DEF Drained, Alive, Ending, CutIsTheEnd
  <2> QED
    BY <2>1, <2>2
<1> QED
  BY <1>1, <1>2

LEMMA FailStep == Shape /\ FailsOnlyOnPanic /\ [Next]_vars => FailsOnlyOnPanic'
<1> SUFFICES ASSUME Shape, FailsOnlyOnPanic, [Next]_vars, main' = "exit 1"
             PROVE  \E w \in Workers : thread'[w] = "panicked"
  BY DEF FailsOnlyOnPanic
<1>1. CASE Outside
  <2>1. UNCHANGED thread
    BY <1>1, OutsideQuiet DEF workers
  <2>2. main = "exit 1" \/ \E w \in Workers : thread[w] = "panicked"
    BY <1>1 DEF Outside, SignalArrives, BeginShutdown, Bind, BindFails, CapPasses,
       MainSteps, ServeReturns, ReturnAt, WaitEnds, WaitTimesOut, Exit, StopListening,
       Monitor, MonitorExit, EndProcess, exiting
  <2> QED
    BY <2>1, <2>2 DEF FailsOnlyOnPanic
<1>2. CASE ~Outside
  <2>1. main = "exit 1"
    BY <1>2, InsideQuiet DEF exiting
  <2>2. UNCHANGED thread
    BY <1>2, <2>1 DEF Outside, Next, Accept, Handler, BeginSend, Send, Enqueue, TimeOut,
       Close, Disconnect, Work, Take, Start, Finish, FinishAdjudication, Panic, EndLoop,
       DropEngine, MarkExit, vars, workers, Running, Exited
  <2> QED
    BY <2>1, <2>2 DEF FailsOnlyOnPanic
<1> QED
  BY <1>1, <1>2
-----------------------------------------------------------------------------
(* Encoder requests and the gauge.                                         *)

LEMMA FailedStep ==
  ASSUME Shape, CutOffForCause, [Next]_vars,
         NEW c \in Callers, client'[c] = "failed", Of[c] = "encoder"
  PROVE  thread'["encoder"] = "panicked"
<1> USE DEF Shape
<1>1. CASE client[c] = "failed"
  <2>1. thread["encoder"] = "panicked"
    BY <1>1 DEF CutOffForCause
  <2>2. CASE Outside
    BY <2>1, <2>2, OutsideQuiet DEF workers
  <2>3. CASE ~Outside
    BY <2>1, <2>3 DEF Outside, Next, Accept, Handler, BeginSend, Send, Enqueue, TimeOut,
       Close, Disconnect, Work, Take, Start, Finish, FinishAdjudication, Panic, EndLoop,
       DropEngine, MarkExit, vars, workers, TypeOK, Workers
  <2> QED
    BY <2>2, <2>3
<1>2. CASE client[c] # "failed"
  <2>1. CASE UNCHANGED client
    BY <1>2, <2>1
  <2>2. ASSUME NEW b \in Callers, Accept(b) \/ BeginSend(b) \/ Close(b) \/ Disconnect(b)
        PROVE  FALSE
    BY <1>2, <2>2 DEF Accept, BeginSend, Close, Disconnect, To, TypeOK
  <2>3. ASSUME NEW b \in Callers, TimeOut(b) \/ Enqueue(b) PROVE FALSE
    BY <1>2, <2>3 DEF TimeOut, Enqueue, To, TypeOK
  <2>4. ASSUME NEW b \in Callers, Send(b) PROVE thread'["encoder"] = "panicked"
    <3>1. b = c /\ client[c] = "sending" /\ thread["encoder"] # "serving"
          /\ UNCHANGED thread
      BY <1>2, <2>4 DEF Send, To, TypeOK, workers
    <3>2. thread["encoder"] # "ended"
      BY <3>1 DEF ThreadsEnd, HandlesLive, Alive, Workers
    <3> QED
      BY <3>1, <3>2 DEF TypeOK, Workers
  <2>5. ASSUME Finish PROVE FALSE
    BY <1>2, <2>5 DEF Finish, Hear
  <2>6. ASSUME FinishAdjudication PROVE FALSE
    BY <1>2, <2>6 DEF FinishAdjudication, Hear, Owners, Workers
  <2>7. ASSUME NEW w \in Workers, Panic(w) PROVE thread'["encoder"] = "panicked"
    <3>1. c \in {job[w]} \cup Owed(w) /\ thread' = [thread EXCEPT ![w] = "panicked"]
      BY <1>2, <2>7 DEF Panic, Hear
    <3>2. Of[c] = w
      BY <3>1, <2>7 DEF Owed, Owners, Panic
    <3> QED
      BY <3>1, <3>2 DEF TypeOK
  <2>8. CASE Outside
    BY <1>2, <2>8, OutsideAlive
  <2>9. ASSUME NEW w \in Workers,
               Take(w) \/ Start \/ EndLoop(w) \/ DropEngine(w) \/ MarkExit(w)
        PROVE  FALSE
    BY <1>2, <2>9 DEF Take, Start, EndLoop, DropEngine, MarkExit, requests
  <2>10. CASE UNCHANGED vars
    BY <1>2, <2>10 DEF vars, requests
  <2> QED
    BY <2>1, <2>2, <2>3, <2>4, <2>5, <2>6, <2>7, <2>8, <2>9, <2>10
       DEF Next, Work, Handler, Outside
<1> QED
  BY <1>1, <1>2

Cause == capped \/ \E w \in Workers : thread[w] = "panicked"

LEMMA CauseStays == ASSUME Shape, [Next]_vars, Cause PROVE Cause'
<1>1. CASE capped
  BY <1>1 DEF Cause, Next, SignalArrives, BeginShutdown, Bind, BindFails, CapPasses,
     MainSteps, ServeReturns, ReturnAt, WaitEnds, WaitTimesOut, Exit, StopListening,
     Monitor, MonitorExit, EndProcess, Accept, Handler, BeginSend, Send, Enqueue, TimeOut,
     Close, Disconnect, Work, Take, Start, Finish, FinishAdjudication, Panic, EndLoop,
     DropEngine, MarkExit, vars, shutdown
<1>2. ASSUME NEW w \in Workers, thread[w] = "panicked" PROVE thread'[w] = "panicked"
  <2>1. CASE Outside
    BY <1>2, <2>1, OutsideQuiet DEF workers
  <2>2. CASE ~Outside
    BY <1>2, <2>2 DEF Outside, Next, Accept, Handler, BeginSend, Send, Enqueue, TimeOut,
       Close, Disconnect, Work, Take, Start, Finish, FinishAdjudication, Panic, EndLoop,
       DropEngine, MarkExit, vars, workers, Shape, TypeOK
  <2> QED
    BY <2>1, <2>2
<1> QED
  BY <1>1, <1>2 DEF Cause

\* A quitting process has a cause to cut off whoever is still connected: before
\* main serves nobody is, and a drain short of its cap left nobody.
LEMMA QuitsForCause ==
  ASSUME Ending, DrainLeavesNobody, Quits, NEW c \in Callers, Alive(c) PROVE Cause
<1>1. CASE \E w \in Workers : Monitor(w)
  BY <1>1 DEF Monitor, MonitorExit, Cause
<1>2. CASE Exit
  BY <1>2 DEF Exit, Ending, UnboundAlone, DrainLeavesNobody, Cause
<1> QED
  BY <1>1, <1>2 DEF Quits

LEMMA CutStep ==
  Shape /\ Ending /\ DrainLeavesNobody /\ CutOffForCause /\ [Next]_vars => CutOffForCause'
<1> SUFFICES ASSUME Shape, Ending, DrainLeavesNobody, CutOffForCause, [Next]_vars
             PROVE  CutOffForCause'
  OBVIOUS
<1>1. ASSUME NEW c \in Callers, client'[c] = "cut" PROVE Cause'
  <2>1. Cause
    BY <1>1, CutFrom, QuitsForCause DEF CutOffForCause, Cause
  <2> QED
    BY <2>1, CauseStays
<1> QED
  BY <1>1, FailedStep DEF CutOffForCause, Cause

\* Only a caller that raises the gauge, one that sends and the end of the
\* process change who is between gauge and channel.
LEMMA SendingSteps ==
  ASSUME Shape, [Next]_vars
  PROVE  \/ \E c \in Callers : BeginSend(c) \/ Send(c)
         \/ Quits
         \/ Sending' = Sending
<1> USE DEF Shape
<1>1. CASE Outside \/ UNCHANGED vars
  BY <1>1, OutsideQuiet DEF vars, requests, Sending
<1>2. ASSUME NEW c \in Callers, Accept(c) \/ Close(c) \/ Disconnect(c) \/ TimeOut(c)
                                  \/ Enqueue(c)
      PROVE  Sending' = Sending
  BY <1>2 DEF Accept, Close, Disconnect, TimeOut, Enqueue, To, TypeOK, Sending
<1>3. CASE Finish \/ FinishAdjudication
  BY <1>3, HearQuiet DEF Finish, FinishAdjudication, TypeOK, Sending
<1>4. ASSUME NEW w \in Workers, Panic(w) PROVE Sending' = Sending
  BY <1>4, HearQuiet DEF Panic, TypeOK, Sending
<1>5. ASSUME NEW w \in Workers,
             Take(w) \/ Start \/ EndLoop(w) \/ DropEngine(w) \/ MarkExit(w)
      PROVE  Sending' = Sending
  BY <1>5 DEF Take, Start, EndLoop, DropEngine, MarkExit, requests, Sending
<1> QED
  BY <1>1, <1>2, <1>3, <1>4, <1>5 DEF Next, Work, Handler, Outside

Waits == Len(queue["encoder"])
InHand == IF job["encoder"] # NoJob /\ ~started THEN 1 ELSE 0

LEMMA CountedMeans ==
  ASSUME TypeOK
  PROVE  /\ depth \in Nat /\ Waits \in Nat /\ Cardinality(Sending) \in Nat
         /\ Counted <=>
              /\ depth >= Cardinality(Sending)
              /\ Running /\ thread["encoder"] # "panicked" =>
                   depth = Cardinality(Sending) + Waits + InHand
<1>1. queue["encoder"] \in Seq(Callers) /\ depth \in Nat
  BY DEF TypeOK, Workers
<1>2. Waits \in Nat
  BY <1>1, LenProperties DEF Waits
<1> QED
  BY <1>1, <1>2, SendingFinite DEF Counted, GaugeCovers, GaugeCounts, Waits, InHand, Sending

LEMMA CountedMeansNext ==
  /\ Cardinality(Sending)' = Cardinality(Sending')
  /\ depth' >= Cardinality(Sending') => GaugeCovers'
  /\ (Running' /\ thread'["encoder"] # "panicked" =>
        depth' = Cardinality(Sending') + Waits' + InHand') => GaugeCounts'
BY DEF GaugeCovers, GaugeCounts, Waits, InHand, Sending

\* Nothing the gauge counts changes.
LEMMA CountQuiet ==
  ASSUME Counted, Running' => Running, Sending' = Sending, depth' = depth, Waits' = Waits, InHand' = InHand,
         thread'["encoder"] = "panicked" <=> thread["encoder"] = "panicked"
  PROVE  Counted'
BY DEF Counted, GaugeCovers, GaugeCounts, Waits, InHand, Sending

LEMMA CountStep == Shape /\ Counted /\ [Next]_vars => Counted'
<1> SUFFICES ASSUME Shape, Counted, [Next]_vars PROVE Counted'
  OBVIOUS
<1> DEFINE n == Cardinality(Sending)
<1>1. TypeOK /\ ThreadsEnd
  BY DEF Shape
<1>2. /\ depth \in Nat /\ Waits \in Nat /\ n \in Nat
      /\ depth >= n
      /\ Running /\ thread["encoder"] # "panicked" => depth = n + Waits + InHand
      /\ Running' => Running
  BY <1>1, CountedMeans, ExitedStays DEF Running
<1>3. queue["encoder"] \in Seq(Callers)
  BY <1>1 DEF TypeOK, Workers
<1>4. ASSUME NEW c \in Callers, BeginSend(c) PROVE Counted'
  <2>1. Sending' = Sending \cup {c} /\ c \notin Sending
    BY <1>1, <1>4 DEF BeginSend, To, Sending, TypeOK
  <2>2. Cardinality(Sending') = n + 1
    BY <2>1, SendingFinite, FS_AddElement
  <2>3. /\ depth' = depth + 1 /\ Waits' = Waits /\ InHand' = InHand
        /\ thread' = thread
    BY <1>4 DEF BeginSend, Waits, InHand, workers
  <2>4. InHand \in {0, 1}
    BY DEF InHand
  <2> QED
    BY <1>2, <2>2, <2>3, <2>4, CountedMeansNext DEF Counted
<1>5. ASSUME NEW c \in Callers, Send(c) PROVE Counted'
  <2>1. Sending' = Sending \ {c} /\ c \in Sending
    BY <1>1, <1>5 DEF Send, To, Sending, TypeOK
  <2>2. Cardinality(Sending') = n - 1
    BY <2>1, SendingFinite, FS_RemoveElement
  <2>3. InHand' = InHand /\ thread' = thread /\ InHand \in {0, 1}
    BY <1>5 DEF Send, InHand, workers
  <2>4. CASE thread["encoder"] = "serving"
    <3>1. depth' = depth /\ queue' = [queue EXCEPT !["encoder"] = Append(@, c)]
      BY <1>5, <2>4 DEF Send
    <3>2. queue'["encoder"] = Append(queue["encoder"], c)
      BY <1>1, <3>1 DEF TypeOK, Workers
    <3>3. Waits' = Waits + 1
      BY <1>3, <3>2, AppendOne DEF Waits
    <3> QED
      BY <1>2, <2>2, <2>3, <2>4, <3>1, <3>3, CountedMeansNext DEF Counted
  <2>5. CASE thread["encoder"] # "serving"
    <3>1. depth' = depth - 1
      BY <1>5, <2>5 DEF Send
    <3>2. Alive(c)
      BY <1>5 DEF Send, Alive
    <3>3. thread["encoder"] = "panicked"
      BY <1>1, <2>5, <3>2 DEF ThreadsEnd, HandlesLive, TypeOK, Workers
    <3> QED
      BY <1>2, <2>2, <2>3, <3>1, <3>3, CountedMeansNext DEF Counted
  <2> QED
    BY <2>4, <2>5
<1>6. CASE Quits
  <2>1. Sending' = {} /\ Cardinality(Sending') = 0
    BY <1>6, QuitsCuts, FS_EmptySet DEF Sending, Alive
  <2>2. depth' = depth /\ ~Running'
    BY <1>6, QuitsCuts, OutsideQuiet DEF Quits, Outside, MainSteps, Running
  <2> QED
    BY <1>2, <2>1, <2>2, CountedMeansNext DEF Counted
<1>7. CASE ~Quits /\ \A c \in Callers : ~BeginSend(c) /\ ~Send(c)
  <2>1. Sending' = Sending /\ Cardinality(Sending') = n
    BY <1>7, SendingSteps
  <2>2. CASE Outside \/ UNCHANGED vars
    <3>1. UNCHANGED <<queue, job, started, depth, thread>>
      BY <2>2, OutsideQuiet DEF vars, requests, workers
    <3> QED
      BY <1>2, <2>1, <3>1, CountQuiet DEF Waits, InHand
  <2>3. ASSUME NEW c \in Callers,
               Accept(c) \/ Close(c) \/ Disconnect(c) \/ TimeOut(c)
        PROVE  Counted'
    <3>1. UNCHANGED <<queue, job, started, depth, thread>>
      BY <2>3 DEF Accept, Close, Disconnect, TimeOut, workers
    <3> QED
      BY <1>2, <2>1, <3>1, CountQuiet DEF Waits, InHand
  <2>4. ASSUME NEW c \in Callers, Enqueue(c) PROVE Counted'
    <3>1. UNCHANGED <<job, started, depth, thread>>
          /\ queue'["encoder"] = queue["encoder"]
      BY <1>1, <2>4 DEF Enqueue, workers, TypeOK, Workers
    <3> QED
      BY <1>2, <2>1, <3>1, CountQuiet DEF Waits, InHand
  <2>5. ASSUME NEW w \in Workers, Take(w) PROVE Counted'
    <3>1. PICK i \in DOMAIN queue[w] :
            /\ job' = [job EXCEPT ![w] = queue[w][i]]
            /\ queue' = [queue EXCEPT ![w] = SX!RemoveAt(@, i)]
      BY <2>5 DEF Take
    <3>2. UNCHANGED <<started, depth, thread>> /\ job[w] = NoJob
          /\ thread[w] = "serving"
      BY <2>5 DEF Take, workers
    <3>3. job \in [Workers -> Callers \cup {NoJob}] /\ queue \in [Workers -> Seq(Callers)]
      BY <1>1 DEF TypeOK
    <3>4. CASE w = "adjudicator"
      <4>1. job'["encoder"] = job["encoder"] /\ queue'["encoder"] = queue["encoder"]
        BY <3>1, <3>3, <3>4 DEF Workers
      <4> QED
        BY <1>2, <2>1, <3>2, <4>1, CountQuiet DEF Waits, InHand
    <3>5. CASE w = "encoder"
      <4>1. job'["encoder"] = queue["encoder"][i]
            /\ queue'["encoder"] = SX!RemoveAt(queue["encoder"], i)
        BY <3>1, <3>3, <3>5 DEF Workers
      <4>2. queue["encoder"][i] \in Callers
        BY <1>3, <3>1, <3>5, LenProperties, ElementOfSeq
      <4>3. Waits' = Waits - 1
        BY <1>3, <3>1, <3>5, <4>1, RemoveOne DEF Waits
      <4>4. ~started
        BY <1>1, <3>2, <3>5 DEF ThreadsEnd
      <4>5. InHand = 0 /\ InHand' = 1
        BY <3>2, <3>5, <4>1, <4>2, <4>4, DaemonAssumption DEF InHand
      <4> QED
        BY <1>2, <2>1, <3>2, <3>5, <4>3, <4>5, CountedMeansNext DEF Counted
    <3> QED
      BY <3>4, <3>5 DEF Workers
  <2>6. CASE Start
    <3>1. /\ job["encoder"] # NoJob /\ ~started /\ started' /\ depth' = depth - 1
          /\ Running /\ UNCHANGED <<queue, job, thread>>
      BY <2>6 DEF Start, workers
    <3>2. InHand = 1 /\ InHand' = 0 /\ Waits' = Waits
      BY <3>1 DEF InHand, Waits
    <3>3. thread["encoder"] # "panicked"
      BY <1>1, <3>1 DEF ThreadsEnd, Workers
    <3> QED
      BY <1>2, <2>1, <3>1, <3>2, <3>3, CountedMeansNext DEF Counted
  <2>7. CASE Finish
    <3>1. UNCHANGED <<queue, depth, thread>> /\ started /\ job'["encoder"] = NoJob
      BY <1>1, <2>7 DEF Finish, workers, TypeOK, Workers
    <3>2. Waits' = Waits /\ InHand' = InHand
      BY <3>1 DEF Waits, InHand
    <3> QED
      BY <1>2, <2>1, <3>1, <3>2, CountQuiet
  <2>8. CASE FinishAdjudication
    <3>1. UNCHANGED <<queue, started, depth, thread>> /\ job'["encoder"] = job["encoder"]
      BY <1>1, <2>8 DEF FinishAdjudication, workers, TypeOK, Workers
    <3> QED
      BY <1>2, <2>1, <3>1, CountQuiet DEF Waits, InHand
  <2>9. ASSUME NEW w \in Workers, Panic(w) PROVE Counted'
    <3>1. CASE w = "encoder"
      <4>1. depth' = depth /\ thread'["encoder"] = "panicked"
        BY <1>1, <2>9, <3>1 DEF Panic, TypeOK
      <4> QED
        BY <1>2, <2>1, <4>1, CountedMeansNext DEF Counted
    <3>2. CASE w = "adjudicator"
      <4>1. /\ depth' = depth /\ thread'["encoder"] = thread["encoder"]
            /\ job'["encoder"] = job["encoder"] /\ queue'["encoder"] = queue["encoder"]
            /\ started' <=> started
        BY <1>1, <2>9, <3>2 DEF Panic, TypeOK, Workers
      <4> QED
        BY <1>2, <2>1, <4>1, CountQuiet DEF Waits, InHand
    <3> QED
      BY <3>1, <3>2 DEF Workers
  <2>10. ASSUME NEW w \in Workers, EndLoop(w) \/ DropEngine(w) \/ MarkExit(w)
         PROVE  Counted'
    <3>1. UNCHANGED <<queue, job, started, depth>>
      BY <2>10 DEF EndLoop, DropEngine, MarkExit, requests
    <3>2. thread'["encoder"] = "panicked" <=> thread["encoder"] = "panicked"
      <4>1. CASE EndLoop(w)
        <5>1. /\ thread[w] = "serving"
              /\ thread' = [thread EXCEPT ![w] = "ended"]
          BY <4>1 DEF EndLoop
        <5>2. thread \in [Workers -> {"serving", "ended", "panicked"}]
          BY <1>1 DEF TypeOK
        <5>3. CASE w = "encoder"
          <6>1. thread'["encoder"] = "ended" /\ thread["encoder"] = "serving"
            BY <5>1, <5>2, <5>3
          <6> QED
            BY <6>1
        <5>4. CASE w # "encoder"
          <6>1. thread'["encoder"] = thread["encoder"]
            BY <5>1, <5>2, <5>4 DEF Workers
          <6> QED
            BY <6>1
        <5> QED
          BY <5>3, <5>4
      <4>2. CASE DropEngine(w) \/ MarkExit(w)
        <5>1. thread' = thread
          BY <4>2 DEF DropEngine, MarkExit
        <5> QED
          BY <5>1
      <4> QED
        BY <2>10, <4>1, <4>2
    <3> QED
      BY <1>2, <2>1, <3>1, <3>2, CountQuiet DEF Waits, InHand
  <2> QED
    BY <1>7, <2>2, <2>3, <2>4, <2>5, <2>6, <2>7, <2>8, <2>9, <2>10
       DEF Next, Work, Handler, Outside
<1> QED
  BY <1>4, <1>5, <1>7, <1>6
-----------------------------------------------------------------------------
(* The theorems.                                                           *)

LEMMA NextIInv == IInv /\ [Next]_vars => IInv'
<1> SUFFICES ASSUME IInv, [Next]_vars PROVE IInv'
  OBVIOUS
<1>1. Shape /\ Counted
  BY DEF IInv, Counted
<1>2. TypeOK' /\ Owners' /\ ThreadsEnd' /\ ListenersServe'
  BY <1>1, TypeStep, OwnersStep, ThreadsEndStep, ListenersStep
<1>3. GaugeCovers' /\ GaugeCounts'
  BY <1>1, CountStep DEF Counted
<1>4. Ending' /\ CutOffForCause' /\ SignalInOrder' /\ DrainLeavesNobody'
  BY <1>1, EndingStep, CutStep, SignalStep, DrainStep DEF IInv
<1>5. MarkedAfterDrop' /\ FailsOnlyOnPanic'
  BY <1>1, MarkedStep, FailStep DEF IInv
<1> QED
  BY <1>2, <1>3, <1>4, <1>5 DEF IInv, Shape

LEMMA AlwaysIInv == Spec => []IInv
<1> QED
  BY InitIInv, NextIInv, PTL DEF Spec

\* For every set of connections and listeners the state keeps its type; above
\* all the queue gauge never wraps below zero.
THEOREM DaemonTypeCorrect == Spec => []TypeOK
<1>1. IInv => TypeOK
  BY DEF IInv, Shape
<1> QED
  BY <1>1, AlwaysIInv, PTL

\* The gauge counts the commands on their way to the encoder and no others.
THEOREM GaugeAlwaysCounts == Spec => []GaugeCounts
<1>1. IInv => GaugeCounts
  BY DEF IInv
<1> QED
  BY <1>1, AlwaysIInv, PTL

\* The stop refuses no encoder request that was accepted, and the process ends
\* on no open connection but at the drain's cap or by a panic.
THEOREM AlwaysCutOffForCause == Spec => []CutOffForCause
<1>1. IInv => CutOffForCause
  BY DEF IInv
<1> QED
  BY <1>1, AlwaysIInv, PTL

\* Readiness is withdrawn before the first listener closes.
THEOREM AlwaysUnreadyBeforeClosing == Spec => []UnreadyBeforeClosing
<1>1. IInv => UnreadyBeforeClosing
  BY DEF IInv, SignalInOrder, UnreadyBeforeClosing
<1> QED
  BY <1>1, AlwaysIInv, PTL

\* A drain that the cap did not cut short leaves no connection behind.
THEOREM DrainAlwaysLeavesNobody == Spec => []DrainLeavesNobody
<1>1. IInv => DrainLeavesNobody
  BY DEF IInv
<1> QED
  BY <1>1, AlwaysIInv, PTL

\* A process that learned its workers are done exits with no engine alive and on
\* no connection, and one that served fails only because a worker panicked.
THEOREM ExitAlwaysMeansIt == Spec => []ExitMeansIt
<1>1. IInv => ExitsAfterDrop
  BY DEF IInv, Shape, TypeOK, MarkedAfterDrop, Ending, DroppedAlone, ExitsAfterDrop
<1>2. IInv => ExitMeansIt
  BY <1>1 DEF IInv, ExitMeansIt
<1> QED
  BY <1>2, AlwaysIInv, PTL
=============================================================================
