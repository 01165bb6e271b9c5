------------------------------- MODULE Worker -------------------------------
(***************************************************************************)
(* The adjudicator's queues and its one worker thread                      *)
(* (lfm2d/src/adjudicator.rs: Priority, Job, Worker, Pause, Handle): two   *)
(* bounded queues, a generative job that pauses between chunks of model    *)
(* work so that waiting reads run nested inside it, deadlines, callers     *)
(* that leave, the live menu, and the stop.                                *)
(*                                                                         *)
(* A caller is one HTTP request task at a time: it submits, waits, hears   *)
(* an answer and may come back.  What a job computes is left out; what is  *)
(* kept is the chunks of model work it is made of, the checks between them *)
(* and, for registration and deletion, the specs they load and unload.     *)
(***************************************************************************)
EXTENDS Naturals, Sequences, FiniteSets

CONSTANTS
  Callers,
  Op,         \* Op[c]: what caller c asks for
  Target,     \* Target[c]: the spec it names
  Specs,      \* the specs that may be loaded
  BootSpecs,  \* those loaded at startup, never evicted or deleted
  Capacity,   \* how many uploaded specs may be loaded
  QueueDepth, \* QUEUE_DEPTH
  Nobody,     \* who waits for a background task
  MaxChunks,  \* bound on the chunks of one job
  MaxBackground \* bound on the background tasks outstanding

Ops == {"read", "generate", "register", "unregister"}

ASSUME WorkerAssumption ==
  /\ Op \in [Callers -> Ops]
  /\ Target \in [Callers -> Specs]
  /\ BootSpecs \in SUBSET Specs
  /\ Capacity \in Nat \ {0}
  /\ QueueDepth \in Nat \ {0}
  /\ Nobody \notin Callers
  /\ MaxChunks \in Nat \ {0}
  /\ MaxBackground \in Nat

VARIABLES
  queue,      \* queue[class]: the callers whose job waits, oldest first
  stack,      \* the jobs on the worker thread: at the top the one running
  caller,     \* caller[c]: where the request task is
  loaded,     \* the worker's spec store: the loaded specs
  menu,       \* the menu every Handle reads
  background, \* the generator's background tasks outstanding
  stopping,   \* the stop flag
  handles,    \* some Handle is alive
  exited,     \* the worker thread has returned
  waited      \* waited[c]: chunks of others' paused-class work begun, or under
              \* way, since c's job was queued (history, read by no action)

vars == <<queue, stack, caller, loaded, menu, background,
          stopping, handles, exited, waited>>

Classes == {"generative", "interactive"}
ClassOf(op) == IF op = "read" THEN "interactive" ELSE "generative"

\* A frame of the worker thread: a caller's job, or a background task.
Stages == {"begin", "boundary", "chunk", "publish", "reply"}
Phases == {"idle", "admitted", "waiting", "late", "gone"}
Frame == [job : Callers \cup {Nobody}, at : Stages, left : 0..MaxChunks]

Interactive(frame) == frame.job # Nobody /\ Op[frame.job] = "read"
Top == stack[Len(stack)]
Below == SubSeq(stack, 1, Len(stack) - 1)
WithTop(frame) == [stack EXCEPT ![Len(stack)] = frame]
OnStack == {stack[i].job : i \in DOMAIN stack}
InQueue(c, class) == \E i \in DOMAIN queue[class] : queue[class][i] = c
Queued(c) == \E class \in Classes : InQueue(c, class)

Init ==
  /\ queue = [class \in Classes |-> <<>>]
  /\ stack = <<>>
  /\ caller = [c \in Callers |-> "idle"]
  /\ loaded = BootSpecs
  /\ menu = BootSpecs
  /\ background = 0
  /\ stopping = FALSE
  /\ handles = TRUE
  /\ exited = FALSE
  /\ waited = [c \in Callers |-> 0]
-----------------------------------------------------------------------------
(* The request tasks.                                                      *)

\* A request passes its handler's own checks: for a read the menu, which may
\* be stale by the time the job runs, and for all the stop flag.  One that does
\* not pass is answered at once and changes nothing.
Arrive(c) ==
  /\ handles /\ caller[c] = "idle"
  /\ ~stopping
  /\ Op[c] = "read" => Target[c] \in menu
  /\ caller' = [caller EXCEPT ![c] = "admitted"]
  /\ UNCHANGED <<queue, stack, loaded, menu, background, stopping, handles,
                 exited, waited>>

Full(class) == Len(queue[class]) >= QueueDepth

\* Paused-class work is under way when c's job is queued.
Underway ==
  IF \E i \in DOMAIN stack : ~Interactive(stack[i]) /\ stack[i].at \in {"chunk", "publish"}
  THEN 1 ELSE 0

\* The job is queued, even if the daemon began to stop since it was admitted.
Enqueue(c) ==
  LET class == ClassOf(Op[c]) IN
  /\ caller[c] = "admitted" /\ ~Full(class)
  /\ queue' = [queue EXCEPT ![class] = Append(@, c)]
  /\ caller' = [caller EXCEPT ![c] = "waiting"]
  /\ waited' = [waited EXCEPT ![c] = Underway]
  /\ UNCHANGED <<stack, loaded, menu, background, stopping, handles, exited>>

Overload(c) ==
  /\ caller[c] = "admitted" /\ Full(ClassOf(Op[c]))
  /\ caller' = [caller EXCEPT ![c] = "idle"]
  /\ UNCHANGED <<queue, stack, loaded, menu, background, stopping, handles,
                 exited, waited>>

\* The job's deadline passes on the worker's clock; its caller still listens.
Expire(c) ==
  /\ caller[c] = "waiting"
  /\ caller' = [caller EXCEPT ![c] = "late"]
  /\ UNCHANGED <<queue, stack, loaded, menu, background, stopping,
                 handles, exited, waited>>

\* The request task ends first: its own timeout passes, or its client
\* disconnects.  The job stays where it is, its reply channel closed.
GiveUp(c) ==
  /\ caller[c] \in {"waiting", "late"}
  /\ caller' = [caller EXCEPT ![c] = "gone"]
  /\ UNCHANGED <<queue, stack, loaded, menu, background, stopping, handles,
                 exited, waited>>

\* SIGTERM or SIGINT raises the stop flag.
Stop ==
  /\ ~stopping
  /\ stopping' = TRUE
  /\ UNCHANGED <<queue, stack, caller, loaded, menu, background,
                 handles, exited, waited>>

\* The server has drained: no request task holds a Handle any more.
DropHandles ==
  /\ stopping /\ handles
  /\ \A c \in Callers : caller[c] \in {"idle", "gone"}
  /\ handles' = FALSE
  /\ UNCHANGED <<queue, stack, caller, loaded, menu, background,
                 stopping, exited, waited>>
-----------------------------------------------------------------------------
(* The worker thread.                                                      *)

\* The check of a frame's job: its caller still listens, its deadline has not
\* passed and the daemon is not stopping.
Wanted(frame) == ~stopping /\ (frame.job # Nobody => caller[frame.job] = "waiting")

\* The worker's turn to act on the frame on top, at a given stage.
At(stage) == stack # <<>> /\ Top.at = stage

\* The job on top is over: its reply goes to the caller, if it still listens.
Reply ==
  /\ stack' = Below
  /\ caller' = [c \in Callers |-> IF c = Top.job THEN "idle" ELSE caller[c]]

\* Paused-class work begins: every read queued behind it waits it out.
CountWork ==
  waited' = [c \in Callers |->
               waited[c] + (IF InQueue(c, "interactive") /\ ~Interactive(Top) THEN 1 ELSE 0)]

Take_Peek(class) ==
  /\ queue[class] # <<>>
  /\ stack' = Append(stack, [job |-> Head(queue[class]), at |-> "begin", left |-> 0])
  /\ waited' = [waited EXCEPT ![Head(queue[class])] = 0]
  /\ UNCHANGED queue

\* The oldest job of a class leaves its queue for the worker thread.
Take(class) ==
  /\ queue[class] # <<>>
  /\ queue' = [queue EXCEPT ![class] = Tail(@)]
  /\ stack' = Append(stack, [job |-> Head(queue[class]), at |-> "begin", left |-> 0])
  /\ waited' = [waited EXCEPT ![Head(queue[class])] = 0]

Pick_GenerativeFirst ==
  /\ stack = <<>> /\ ~exited
  /\ \E class \in Classes :
       /\ class = "interactive" => queue["generative"] = <<>>
       /\ Take(class)
  /\ UNCHANGED <<caller, loaded, menu, background, stopping, handles, exited>>
Pick_HighestOnly ==
  /\ stack = <<>> /\ ~exited
  /\ Take("interactive")
  /\ UNCHANGED <<caller, loaded, menu, background, stopping, handles, exited>>

\* The worker picks the highest class with work waiting.
Pick ==
  /\ stack = <<>> /\ ~exited
  /\ \E class \in Classes :
       /\ class = "generative" => queue["interactive"] = <<>>
       /\ Take(class)
  /\ UNCHANGED <<caller, loaded, menu, background, stopping, handles, exited>>

\* With every queue empty, the generator runs one of its own tasks.
PickBackground ==
  /\ stack = <<>> /\ handles
  /\ \A class \in Classes : queue[class] = <<>>
  /\ background > 0
  /\ background' = background - 1
  /\ stack' = <<[job |-> Nobody, at |-> "begin", left |-> 0]>>
  /\ UNCHANGED <<queue, caller, loaded, menu, stopping, handles,
                 exited, waited>>

Exit_BackgroundFirst ==
  /\ stack = <<>> /\ ~exited /\ ~handles /\ background = 0
  /\ \A class \in Classes : queue[class] = <<>>
  /\ exited' = TRUE
  /\ UNCHANGED <<queue, stack, caller, loaded, menu, background, stopping, handles, waited>>

\* Every Handle is gone and every queue drained: the thread returns.
Exit ==
  /\ stack = <<>> /\ ~exited /\ ~handles
  /\ \A class \in Classes : queue[class] = <<>>
  /\ exited' = TRUE
  /\ UNCHANGED <<queue, stack, caller, loaded, menu, background,
                 stopping, handles, waited>>

\* A job no longer wanted stops at its next check, or before it starts.
Abandon ==
  /\ At("begin") \/ At("boundary")
  /\ ~Wanted(Top)
  /\ Reply
  /\ UNCHANGED <<queue, loaded, menu, background, stopping, handles, exited,
                 waited>>

\* A read or a generation resolves its spec against the store, not the menu,
\* and has some number of chunks to run: none when everything is cached.
Begin ==
  /\ At("begin") /\ Wanted(Top)
  /\ Top.job # Nobody => Op[Top.job] \in {"read", "generate"} /\ Target[Top.job] \in loaded
  /\ \E n \in 0..MaxChunks : stack' = WithTop([job |-> Top.job, at |-> "boundary", left |-> n])
  /\ UNCHANGED <<queue, caller, loaded, menu, background, stopping,
                 handles, exited, waited>>

\* An unknown spec, a boot spec to delete, a spec that fails to load.
Refuse ==
  /\ At("begin") /\ Wanted(Top) /\ Top.job # Nobody
  /\ IF Op[Top.job] = "register"
     THEN Target[Top.job] \notin loaded
     ELSE Target[Top.job] \notin loaded \/ (Op[Top.job] = "unregister" /\ Target[Top.job] \in BootSpecs)
  /\ Reply
  /\ UNCHANGED <<queue, loaded, menu, background, stopping, handles, exited, waited>>

\* What the store may hold once spec is loaded: an uploaded one goes if it is full.
Loads(spec) ==
  LET uploaded == loaded \ BootSpecs IN
  IF spec \in loaded THEN {loaded}
  ELSE IF Cardinality(uploaded) < Capacity THEN {loaded \cup {spec}}
  ELSE {(loaded \ {out}) \cup {spec} : out \in uploaded}

\* Registration and deletion run unpaused.  What leaves the store takes its
\* background tasks along.
ChangeSpecs ==
  /\ At("begin") /\ Wanted(Top) /\ Top.job # Nobody
  /\ \/ Op[Top.job] = "register" /\ loaded' \in Loads(Target[Top.job])
     \/ /\ Op[Top.job] = "unregister" /\ Target[Top.job] \in loaded \ BootSpecs
        /\ loaded' = loaded \ {Target[Top.job]}
  /\ background' \in IF loaded \subseteq loaded' THEN {background} ELSE 0..background
  /\ stack' = WithTop([job |-> Top.job, at |-> "publish", left |-> 0])
  /\ CountWork
  /\ UNCHANGED <<queue, caller, menu, stopping, handles, exited>>

Publish_IfHeard ==
  /\ At("publish")
  /\ menu' = IF caller[Top.job] = "waiting" THEN loaded ELSE menu
  /\ stack' = WithTop([job |-> Top.job, at |-> "reply", left |-> 0])
  /\ UNCHANGED <<queue, caller, loaded, background, stopping, handles, exited, waited>>

\* The worker publishes the menu itself, before any reply, and whether or not
\* anyone waits for one.
Publish ==
  /\ At("publish")
  /\ menu' = loaded
  /\ stack' = WithTop([job |-> Top.job, at |-> "reply", left |-> 0])
  /\ UNCHANGED <<queue, caller, loaded, background, stopping, handles,
                 exited, waited>>

Confirm ==
  /\ At("reply")
  /\ Reply
  /\ UNCHANGED <<queue, loaded, menu, background, stopping, handles, exited,
                 waited>>

Pauses_NotBackground ==
  Top.job # Nobody /\ ~Interactive(Top) /\ queue["interactive"] # <<>>

\* A pause: the oldest waiting read runs to completion inside the paused job.
\* Reads themselves never pause.
Pauses == ~Interactive(Top) /\ queue["interactive"] # <<>>

ServeAtPause_AnyClass ==
  /\ At("boundary") /\ Top.left > 0 /\ Wanted(Top)
  /\ ~Interactive(Top)
  /\ \E class \in Classes : Take(class)
  /\ UNCHANGED <<caller, loaded, menu, background, stopping, handles, exited>>
ServeAtPause_Unchecked ==
  /\ At("boundary") /\ Top.left > 0
  /\ Pauses
  /\ Take("interactive")
  /\ UNCHANGED <<caller, loaded, menu, background, stopping, handles, exited>>
ServeAtPause ==
  /\ At("boundary") /\ Top.left > 0 /\ Wanted(Top)
  /\ Pauses
  /\ Take("interactive")
  /\ UNCHANGED <<caller, loaded, menu, background, stopping, handles, exited>>

NextChunk ==
  /\ At("boundary") /\ Top.left > 0 /\ Wanted(Top)
  /\ ~Pauses
  /\ stack' = WithTop([job |-> Top.job, at |-> "chunk", left |-> Top.left])
  /\ CountWork
  /\ UNCHANGED <<queue, caller, loaded, menu, background, stopping,
                 handles, exited>>

\* The chunk ends.  A generation may hold a checkpoint then, which queues
\* background tasks and drops those of the checkpoints it evicts.
EndChunk ==
  /\ At("chunk")
  /\ stack' = WithTop([job |-> Top.job, at |-> "boundary", left |-> Top.left - 1])
  /\ IF Interactive(Top) \/ Top.job = Nobody
     THEN UNCHANGED background
     ELSE background' \in 0..MaxBackground /\ background' <= background + 1
  /\ UNCHANGED <<queue, caller, loaded, menu, stopping, handles,
                 exited, waited>>

\* The model fails: the job ends there.
ChunkFails ==
  /\ At("chunk")
  /\ Reply
  /\ UNCHANGED <<queue, loaded, menu, background, stopping, handles, exited,
                 waited>>

Finish ==
  /\ At("boundary") /\ Top.left = 0 /\ Wanted(Top)
  /\ Reply
  /\ UNCHANGED <<queue, loaded, menu, background, stopping, handles, exited,
                 waited>>

Work ==
  \/ Pick \/ PickBackground \/ Exit
  \/ Abandon \/ Begin \/ Refuse \/ ChangeSpecs \/ Publish \/ Confirm
  \/ ServeAtPause \/ NextChunk \/ EndChunk \/ ChunkFails \/ Finish

Submit(c) == Enqueue(c) \/ Overload(c)

Requests ==
  \E c \in Callers : Arrive(c) \/ Submit(c) \/ Expire(c) \/ GiveUp(c)

Next == Requests \/ Stop \/ DropHandles \/ Work

\* The worker thread runs and an admitted request submits; the server, once it
\* stops, drains.  Nobody has to call, leave or stop the daemon.
Fairness ==
  /\ WF_vars(Work)
  /\ WF_vars(DropHandles)
  /\ \A c \in Callers : WF_vars(Submit(c))

Spec == Init /\ [][Next]_vars
FairSpec == Spec /\ Fairness
-----------------------------------------------------------------------------
(* What must hold.                                                         *)

\* Every variable stays in its range; no queue outgrows QUEUE_DEPTH.
TypeOK ==
  /\ queue \in [Classes -> Seq(Callers)]
  /\ \A class \in Classes : Len(queue[class]) <= QueueDepth
  /\ stack \in Seq(Frame)
  /\ caller \in [Callers -> Phases]
  /\ loaded \in SUBSET Specs /\ BootSpecs \subseteq loaded
  /\ menu \in SUBSET Specs
  /\ background \in Nat
  /\ stopping \in BOOLEAN /\ handles \in BOOLEAN /\ exited \in BOOLEAN
  /\ waited \in [Callers -> Nat]

\* Only a read is ever served inside another job, and only inside one that is
\* at a boundary and is no read itself: the pauses never nest further.
PausesNestOnce ==
  /\ Len(stack) <= 2
  /\ Len(stack) = 2 => /\ Interactive(stack[2])
                       /\ ~Interactive(stack[1]) /\ stack[1].at = "boundary"

\* A read never waits for more than one stretch of generative or background
\* work: the one under way when it was queued, or one that began as it arrived.
ReadsWaitOneChunk ==
  \A c \in Callers : InQueue(c, "interactive") => waited[c] <= 1

\* The spec a job works with stays loaded while it works, however long it is
\* paused: nothing served at a pause removes it.
WorkedSpecStaysLoaded ==
  \A i \in DOMAIN stack :
    (stack[i].job # Nobody /\ stack[i].at \in {"boundary", "chunk"})
      => Target[stack[i].job] \in loaded

\* The menu says what the store holds except while the worker is publishing,
\* even when the caller of a registration or deletion is gone.
MenuAgrees ==
  (\A i \in DOMAIN stack : stack[i].at # "publish") => menu = loaded

\* A job whose caller waits, or has left without an answer, is in exactly one
\* place: once in the queue of its class, or once on the worker's stack.
Places(c) ==
  {place \in Classes \X (1..QueueDepth) :
     place[2] \in DOMAIN queue[place[1]] /\ queue[place[1]][place[2]] = c}
  \cup {<<"stack", i>> : i \in {j \in DOMAIN stack : stack[j].job = c}}
JobsInOnePlace ==
  \A c \in Callers :
    Cardinality(Places(c)) = IF caller[c] \in {"waiting", "late", "gone"} THEN 1 ELSE 0

\* A read that waits is answered, whatever else keeps arriving.
ReadsAnswered ==
  \A c \in Callers :
    Op[c] = "read" => ((caller[c] = "waiting") ~> (caller[c] \in {"idle", "gone"}))

\* A job on the worker's stack whose caller is gone or whose deadline has
\* passed leaves it, even under an endless stream of reads at its pauses.
UnwantedJobsStop ==
  \A c \in Callers :
    (c \in OnStack /\ caller[c] \in {"late", "gone"}) ~> (c \notin OnStack)

\* Once told to stop, the worker drains its queues and its thread returns.
WorkerExits == stopping ~> exited

\* Reads postpone the other class only while they keep coming: once no read is
\* asked for any more, every waiting job is answered.
ReadsQuiet == \A c \in Callers : Op[c] = "read" => caller[c] = "idle"
GenerationsAnswered ==
  \A c \in Callers :
    (<>[]ReadsQuiet) => ((caller[c] = "waiting") ~> (caller[c] \in {"idle", "gone"}))
=============================================================================
