------------------------------- MODULE Daemon -------------------------------
(***************************************************************************)
(* The process around the two workers (lfm2d/src/main.rs, server.rs,       *)
(* shutdown.rs, worker.rs): requests arrive on the listeners, the encoder  *)
(* worker serves its unbounded queue, a signal starts the drain, main      *)
(* waits for the engines to drop, flushes telemetry and exits; a panic on  *)
(* a worker thread ends the process through its monitor.                   *)
(*                                                                         *)
(* The adjudicator's own queues are module Worker's subject: here it takes *)
(* any waiting job, and what is kept is its stop flag, its callers'        *)
(* timeout and its exit.  Timers fire at any moment they could.            *)
(***************************************************************************)
EXTENDS Integers, Sequences, FiniteSets

SX == INSTANCE SequencesExt

CONSTANTS
  Callers,    \* the connections, each making one request
  Of,         \* Of[c]: the worker that serves it
  Listeners,  \* the configured transports: TCP, a Unix socket, or both
  NoJob       \* an idle worker's job

Workers == {"encoder", "adjudicator"}

ASSUME DaemonAssumption ==
  /\ Of \in [Callers -> Workers]
  /\ IsFiniteSet(Callers)
  /\ Listeners # {}
  /\ NoJob \notin Callers

VARIABLES
  client,     \* client[c]: where connection c is
  queue,      \* queue[w]: jobs sent and not taken
  job,        \* job[w]: the job taken
  started,    \* the encoder's job is past run_timed's accounting
  depth,      \* the queue_depth gauge
  thread,     \* thread[w]: where the worker thread is
  engines,    \* the workers whose engine is not dropped
  marked,     \* the workers whose WorkerExit has fired
  monitored,  \* the workers spawned with a crash monitor
  signal,     \* how far the signal handler is
  ready,      \* what /readyz answers
  listening,  \* the listeners that accept
  capped,     \* the drain's hard cap has passed
  main,       \* where main is
  dropped     \* what exit_after_serve learned of the engines

workers == <<thread, engines, marked, monitored>>
requests == <<client, queue, job, started, depth>>
shutdown == <<signal, ready, listening, capped>>
exiting == <<main, dropped>>
vars == <<requests, workers, shutdown, exiting>>

Exited == main \in {"exit 0", "exit 1", "exit 1, unbound"}
Running == ~Exited

\* A connection's task lives, and with it its clones of both workers' handles.
Alive(c) == client[c] \in {"open", "sending", "waiting", "ok", "failed"}
RouterHeld == main \in {"binding", "serving"}
HandlesLive == RouterHeld \/ \E c \in Callers : Alive(c)

Init ==
  /\ client = [c \in Callers |-> "idle"]
  /\ queue = [w \in Workers |-> <<>>]
  /\ job = [w \in Workers |-> NoJob]
  /\ started = FALSE
  /\ depth = 0
  /\ thread = [w \in Workers |-> "serving"]
  /\ engines = Workers
  /\ marked = {}
  /\ monitored \in {Workers, {"adjudicator"}}
  /\ signal = "none"
  /\ ready = TRUE
  /\ listening = {}
  /\ capped = FALSE
  /\ main = "binding"
  /\ dropped = FALSE
-----------------------------------------------------------------------------
(* Connections and their handlers.                                         *)

To(c, phase) == client' = [client EXCEPT ![c] = phase]

Accept(c) ==
  /\ Running /\ client[c] = "idle" /\ listening # {}
  /\ To(c, "open")
  /\ UNCHANGED <<queue, job, started, depth, workers, shutdown, exiting>>

\* WorkerHandle::send raises the gauge before the command is on the channel.
BeginSend(c) ==
  /\ Running /\ client[c] = "open" /\ Of[c] = "encoder"
  /\ To(c, "sending")
  /\ depth' = depth + 1
  /\ UNCHANGED <<queue, job, started, workers, shutdown, exiting>>

\* The channel is unbounded: sending fails only once the receiver is gone.
Send(c) ==
  /\ Running /\ client[c] = "sending"
  /\ IF thread["encoder"] = "serving"
     THEN /\ queue' = [queue EXCEPT !["encoder"] = Append(@, c)]
          /\ To(c, "waiting")
          /\ UNCHANGED depth
     ELSE /\ To(c, "failed")
          /\ depth' = depth - 1
          /\ UNCHANGED queue
  /\ UNCHANGED <<job, started, workers, shutdown, exiting>>

\* Handle::enqueue: the stop flag refuses, and so does a worker that is gone.
Enqueue(c) ==
  /\ Running /\ client[c] = "open" /\ Of[c] = "adjudicator"
  /\ IF signal = "none" /\ thread["adjudicator"] = "serving"
     THEN /\ queue' = [queue EXCEPT !["adjudicator"] = Append(@, c)]
          /\ To(c, "waiting")
     ELSE /\ To(c, "failed")
          /\ UNCHANGED queue
  /\ UNCHANGED <<job, started, depth, workers, shutdown, exiting>>

\* The adjudicator's callers wait no longer than their job's timeout.
TimeOut(c) ==
  /\ Running /\ client[c] = "waiting" /\ Of[c] = "adjudicator"
  /\ To(c, "failed")
  /\ UNCHANGED <<queue, job, started, depth, workers, shutdown, exiting>>

\* The response is written and the connection closes, or its client left
\* before that: the handler is dropped, but not between its gauge and channel.
Close(c) ==
  /\ Running /\ client[c] \in {"ok", "failed"}
  /\ To(c, "closed")
  /\ UNCHANGED <<queue, job, started, depth, workers, shutdown, exiting>>

Disconnect(c) ==
  /\ Running /\ client[c] \in {"open", "waiting"}
  /\ To(c, "closed")
  /\ UNCHANGED <<queue, job, started, depth, workers, shutdown, exiting>>
-----------------------------------------------------------------------------
(* The worker threads.                                                     *)

\* The encoder takes commands in order; the adjudicator by class.
Take(w) ==
  /\ Running /\ thread[w] = "serving" /\ job[w] = NoJob
  /\ \E i \in DOMAIN queue[w] :
       /\ w = "encoder" => i = 1
       /\ job' = [job EXCEPT ![w] = queue[w][i]]
       /\ queue' = [queue EXCEPT ![w] = SX!RemoveAt(@, i)]
  /\ UNCHANGED <<client, started, depth, workers, shutdown, exiting>>

\* run_timed counts the command out before it runs the engine.
Start_Unheard ==
  /\ Running /\ job["encoder"] # NoJob /\ ~started
  /\ started' = TRUE
  /\ depth' = IF client[job["encoder"]] = "waiting" THEN depth - 1 ELSE depth
  /\ UNCHANGED <<client, queue, job, workers, shutdown, exiting>>

Start ==
  /\ Running /\ job["encoder"] # NoJob /\ ~started
  /\ started' = TRUE
  /\ depth' = depth - 1
  /\ UNCHANGED <<client, queue, job, workers, shutdown, exiting>>

\* What a caller that still listens hears.
Hear(heard, phase) ==
  client' = [c \in Callers |->
    IF c \in heard /\ client[c] = "waiting" THEN phase ELSE client[c]]

\* The encoder runs every command to its end, whoever still listens.
Finish_RefuseOnStop ==
  /\ Running /\ started
  /\ Hear({job["encoder"]}, IF signal = "none" THEN "ok" ELSE "failed")
  /\ job' = [job EXCEPT !["encoder"] = NoJob]
  /\ started' = FALSE
  /\ UNCHANGED <<queue, depth, workers, shutdown, exiting>>

Finish ==
  /\ Running /\ started
  /\ Hear({job["encoder"]}, "ok")
  /\ job' = [job EXCEPT !["encoder"] = NoJob]
  /\ started' = FALSE
  /\ UNCHANGED <<queue, depth, workers, shutdown, exiting>>

\* The adjudicator gives up on a job between chunks once the flag is up.
FinishAdjudication ==
  /\ Running /\ job["adjudicator"] # NoJob
  /\ \/ Hear({job["adjudicator"]}, "ok")
     \/ signal # "none" /\ Hear({job["adjudicator"]}, "failed")
  /\ job' = [job EXCEPT !["adjudicator"] = NoJob]
  /\ UNCHANGED <<queue, started, depth, workers, shutdown, exiting>>

\* An engine panics: unwinding drops the reply in hand and the queue, and with
\* them every reply the thread still owed.
Owed(w) == {queue[w][i] : i \in DOMAIN queue[w]}

Panic_KeepQueue(w) ==
  /\ Running /\ job[w] # NoJob /\ (w = "encoder" => started)
  /\ thread' = [thread EXCEPT ![w] = "panicked"]
  /\ engines' = engines \ {w}
  /\ Hear({job[w]}, "failed")
  /\ job' = [job EXCEPT ![w] = NoJob]
  /\ started' = (started /\ w # "encoder")
  /\ UNCHANGED <<queue, depth, marked, monitored, shutdown, exiting>>

Panic(w) ==
  /\ Running /\ job[w] # NoJob /\ (w = "encoder" => started)
  /\ thread' = [thread EXCEPT ![w] = "panicked"]
  /\ engines' = engines \ {w}
  /\ Hear({job[w]} \cup Owed(w), "failed")
  /\ job' = [job EXCEPT ![w] = NoJob]
  /\ queue' = [queue EXCEPT ![w] = <<>>]
  /\ started' = (started /\ w # "encoder")
  /\ UNCHANGED <<depth, marked, monitored, shutdown, exiting>>

\* Every sender is gone and the queue is drained: the loop ends, the engine
\* drops, and only then is the exit marked.
EndLoop(w) ==
  /\ Running /\ thread[w] = "serving"
  /\ job[w] = NoJob /\ queue[w] = <<>> /\ ~HandlesLive
  /\ thread' = [thread EXCEPT ![w] = "ended"]
  /\ UNCHANGED <<requests, engines, marked, monitored, shutdown, exiting>>

DropEngine(w) ==
  /\ Running /\ thread[w] = "ended" /\ w \in engines
  /\ engines' = engines \ {w}
  /\ UNCHANGED <<requests, thread, marked, monitored, shutdown, exiting>>

MarkExit_First(w) ==
  /\ Running /\ thread[w] = "ended" /\ w \notin marked
  /\ marked' = marked \cup {w}
  /\ UNCHANGED <<requests, thread, engines, monitored, shutdown, exiting>>

MarkExit(w) ==
  /\ Running /\ thread[w] = "ended" /\ w \notin engines /\ w \notin marked
  /\ marked' = marked \cup {w}
  /\ UNCHANGED <<requests, thread, engines, monitored, shutdown, exiting>>
-----------------------------------------------------------------------------
(* The signal, the listeners and the drain.                                *)

\* SIGTERM or SIGINT: the adjudicator's stop flag, then /readyz, then the
\* listeners, each visible to every other thread at once.
SignalArrives ==
  /\ Running /\ signal = "none"
  /\ signal' = "stopping"
  /\ UNCHANGED <<requests, workers, ready, listening, capped, exiting>>

BeginShutdown ==
  /\ Running
  /\ \/ signal = "stopping" /\ signal' = "unready" /\ ready' = FALSE
     \/ signal = "unready" /\ signal' = "triggered" /\ UNCHANGED ready
  /\ UNCHANGED <<requests, workers, listening, capped, exiting>>

Bind ==
  /\ main = "binding"
  /\ main' = "serving"
  /\ listening' = Listeners
  /\ UNCHANGED <<requests, workers, signal, ready, capped, dropped>>

BindFails ==
  /\ main = "binding"
  /\ main' = "flushing an error"
  /\ UNCHANGED <<requests, workers, shutdown, dropped>>

StopListening(l) ==
  /\ main = "serving" /\ signal = "triggered" /\ l \in listening
  /\ listening' = listening \ {l}
  /\ UNCHANGED <<requests, workers, signal, ready, capped, exiting>>

CapPasses ==
  /\ main = "serving" /\ signal = "triggered" /\ ~capped
  /\ capped' = TRUE
  /\ UNCHANGED <<requests, workers, signal, ready, listening, exiting>>

\* serve returns once every listener has stopped and its connections are
\* closed, or at the cap; the router drops, the connections' tasks live on.
Drained == listening = {} /\ \A c \in Callers : ~Alive(c)

ReturnAt(done) ==
  /\ main = "serving" /\ done
  /\ main' = "waiting"
  /\ listening' = {}
  /\ UNCHANGED <<requests, workers, signal, ready, capped, dropped>>

ServeReturns_NoCap == ReturnAt(Drained)
ServeReturns_Closed == ReturnAt(listening = {} \/ capped)
ServeReturns == ReturnAt(Drained \/ capped)
-----------------------------------------------------------------------------
(* The tail of main: exit_after_serve.                                     *)

WaitEnds ==
  /\ main = "waiting" /\ Workers \subseteq marked
  /\ main' = "flushing"
  /\ dropped' = TRUE
  /\ UNCHANGED <<requests, workers, shutdown>>

WaitTimesOut ==
  /\ main = "waiting" /\ ~(Workers \subseteq marked)
  /\ main' = "flushing"
  /\ UNCHANGED <<requests, workers, shutdown, dropped>>

\* process::exit waits for nobody: whoever still has a connection, draining past
\* the cap or asking a worker that lives on, is cut off.
EndProcess(status) ==
  /\ main' = status
  /\ client' = [c \in Callers |-> IF Alive(c) THEN "cut" ELSE client[c]]
  /\ UNCHANGED <<queue, job, started, depth, workers, shutdown, dropped>>

\* The flush ends or its own timeout passes: the process exits either way.
Exit ==
  /\ main \in {"flushing", "flushing an error"}
  /\ EndProcess(IF main = "flushing" THEN "exit 0" ELSE "exit 1, unbound")

\* The monitor of a panicked thread ends the process, and of no other.
MonitorExit(crashed) ==
  /\ Running /\ crashed
  /\ EndProcess("exit 1")

Monitor_AnyEnd(w) == MonitorExit(thread[w] # "serving" /\ w \in monitored)
Monitor(w) == MonitorExit(thread[w] = "panicked" /\ w \in monitored)
-----------------------------------------------------------------------------
Work(w) ==
  \/ Take(w) \/ Panic(w) \/ EndLoop(w) \/ DropEngine(w) \/ MarkExit(w)
  \/ w = "encoder" /\ (Start \/ Finish)
  \/ w = "adjudicator" /\ FinishAdjudication

Handler(c) == BeginSend(c) \/ Send(c) \/ Enqueue(c) \/ TimeOut(c) \/ Close(c)

MainSteps == ServeReturns \/ WaitEnds \/ WaitTimesOut \/ Exit

Next ==
  \/ \E c \in Callers : Accept(c) \/ Handler(c) \/ Disconnect(c)
  \/ \E w \in Workers : Work(w) \/ Monitor(w)
  \/ SignalArrives \/ BeginShutdown
  \/ Bind \/ BindFails \/ CapPasses \/ MainSteps
  \/ \E l \in Listeners : StopListening(l)

Spec == Init /\ [][Next]_vars

\* The signal task, the timers and main run; of the workers, their monitors, the
\* callers and the listeners nothing is assumed, and nobody need send a signal.
ExitSpec ==
  /\ Spec
  /\ WF_vars(BeginShutdown) /\ WF_vars(Bind \/ BindFails) /\ WF_vars(CapPasses)
  /\ WF_vars(MainSteps)

\* The request tasks and the worker threads run.
WorkersRun ==
  /\ \A w \in Workers : WF_vars(Work(w))
  /\ \A c \in Callers : WF_vars(Send(c))
-----------------------------------------------------------------------------
Phases == {"idle", "open", "sending", "waiting", "ok", "failed", "closed", "cut"}

\* Every variable keeps its type, and the gauge never wraps below zero.
TypeOK ==
  /\ client \in [Callers -> Phases]
  /\ queue \in [Workers -> Seq(Callers)]
  /\ job \in [Workers -> Callers \cup {NoJob}]
  /\ started \in BOOLEAN
  /\ depth \in Nat
  /\ thread \in [Workers -> {"serving", "ended", "panicked"}]
  /\ engines \subseteq Workers /\ marked \subseteq Workers
  /\ monitored \subseteq Workers
  /\ signal \in {"none", "stopping", "unready", "triggered"}
  /\ ready \in BOOLEAN
  /\ listening \subseteq Listeners
  /\ capped \in BOOLEAN
  /\ main \in {"binding", "serving", "waiting", "flushing", "flushing an error",
               "exit 0", "exit 1", "exit 1, unbound"}
  /\ dropped \in BOOLEAN


\* The gauge an operator reads counts the commands on their way to the encoder
\* and no others, whoever left meanwhile.  A worker that panicked no longer
\* counts its own out, and one whose process ended is not read.
GaugeCounts ==
  Running /\ thread["encoder"] # "panicked" =>
    depth = Cardinality({c \in Callers : client[c] = "sending"})
            + Len(queue["encoder"])
            + (IF job["encoder"] # NoJob /\ ~started THEN 1 ELSE 0)

\* The stop refuses no encoder request that was accepted: one fails only if its
\* worker panicked.  And the process ends on no connection that is still open,
\* answered or not, unless the drain reached its cap or a worker panicked: only
\* a request draining past the cap does not get to finish.
CutOffForCause ==
  \A c \in Callers :
    /\ client[c] = "failed" /\ Of[c] = "encoder" => thread["encoder"] = "panicked"
    /\ client[c] = "cut" => capped \/ \E w \in Workers : thread[w] = "panicked"

\* No load balancer sees a ready pod whose listeners are going down.
UnreadyBeforeClosing ==
  main = "serving" /\ listening # Listeners => ~ready

\* A drain the cap did not cut short leaves no connection behind, and none
\* appears while main winds down; the exit then cuts nobody off.
DrainLeavesNobody ==
  main \in {"waiting", "flushing", "exit 0"} /\ ~capped =>
    \A c \in Callers : ~Alive(c) /\ client[c] # "cut"

\* When main learns in time that both workers are done, the process exits with
\* no engine alive, so no device memory is freed under the driver's teardown,
\* and on no connection, capped or not: their handles kept the workers' loops.
ExitsAfterDrop ==
  main = "exit 0" /\ dropped => engines = {} /\ \A c \in Callers : client[c] # "cut"

\* A process that served ends in failure only because a worker panicked: the
\* end of a worker thread that drained and dropped its engine is no crash.
FailsOnlyOnPanic == main = "exit 1" => \E w \in Workers : thread[w] = "panicked"

\* The exit status can be believed, for all that the drain, its cap, the two
\* worker threads, their monitors and main race to the end.
ExitMeansIt == ExitsAfterDrop /\ FailsOnlyOnPanic

\* Once a signal arrives the process ends, whatever the workers, the callers
\* and the listeners do.
SignalEndsProcess == (signal # "none") ~> Exited

\* As long as the threads and the tasks run, whoever waits for an answer hears
\* one, if only of a panic, unless it leaves or the process ends: no reply is
\* dropped unheard.
CallersHear ==
  WorkersRun =>
    \A c \in Callers : (client[c] \in {"sending", "waiting"}) ~>
      (Exited \/ client[c] \in {"ok", "failed", "closed"})
=============================================================================
