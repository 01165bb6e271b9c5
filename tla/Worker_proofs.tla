---------------------------- MODULE Worker_proofs ----------------------------
(***************************************************************************)
(* The worker's pauses, waits and menu, for every set of callers, specs,   *)
(* queue depth, capacity and number of chunks.                             *)
(***************************************************************************)
EXTENDS Worker, SequenceTheorems, FiniteSetTheorems, TLAPS

\* Every job sits in the queue of its own class.
JobsInTheirClass ==
  \A class \in Classes : \A i \in DOMAIN queue[class] :
    ClassOf(Op[queue[class][i]]) = class

\* A chunk is under way only while some are left to run.
ChunksLeft == \A i \in DOMAIN stack : stack[i].at = "chunk" => stack[i].left > 0

\* Paused-class work that has been picked and not begun found no read waiting,
\* and every read that came since waited for nothing yet.
FreshAtBegin ==
  (\E i \in DOMAIN stack : ~Interactive(stack[i]) /\ stack[i].at = "begin")
    => \A c \in Callers : InQueue(c, "interactive") => waited[c] = 0

IInv ==
  /\ TypeOK
  /\ JobsInTheirClass
  /\ PausesNestOnce
  /\ ChunksLeft
  /\ WorkedSpecStaysLoaded
  /\ MenuAgrees
  /\ ReadsWaitOneChunk
  /\ FreshAtBegin
-----------------------------------------------------------------------------
(* The three ways the stack changes.                                       *)

LEMMA TopType ==
  ASSUME NEW S, NEW s \in Seq(S), s # <<>>
  PROVE  /\ Len(s) \in Nat \ {0} /\ DOMAIN s = 1..Len(s)
         /\ Len(s) \in DOMAIN s /\ s[Len(s)] \in S
         /\ \A i \in DOMAIN s : s[i] \in S
BY EmptySeq, LenProperties, ElementOfSeq

\* Taking the top frame away leaves the frames below as they were.
LEMMA PopStack ==
  ASSUME NEW S, NEW s \in Seq(S), s # <<>>
  PROVE  LET t == SubSeq(s, 1, Len(s) - 1) IN
         /\ t \in Seq(S)
         /\ Len(t) = Len(s) - 1
         /\ DOMAIN t = 1..(Len(s) - 1)
         /\ \A i \in DOMAIN t : i \in DOMAIN s /\ t[i] = s[i]
<1>1. Len(s) \in Nat \ {0} /\ \A i \in 1..Len(s) : s[i] \in S
  BY TopType
<1>2. Len(s) - 1 \in Int /\ 1 \in Int /\ \A i \in 1..(Len(s) - 1) : s[i] \in S
  BY <1>1
<1> DEFINE t == SubSeq(s, 1, Len(s) - 1)
<1>3. /\ t \in Seq(S)
      /\ Len(t) = IF 1 <= Len(s) - 1 THEN (Len(s) - 1) - 1 + 1 ELSE 0
      /\ \A i \in 1..((Len(s) - 1) - 1 + 1) : t[i] = s[1 + i - 1]
  BY <1>2, SubSeqProperties
<1> DEFINE n == Len(s)
<1>4. n \in Nat \ {0}
  BY <1>1
<1> HIDE DEF t, n
<1>5. /\ (IF 1 <= n - 1 THEN (n - 1) - 1 + 1 ELSE 0) = n - 1
      /\ (n - 1) - 1 + 1 = n - 1
      /\ \A i \in 1..(n - 1) : 1 + i - 1 = i /\ i \in 1..n
  BY <1>4
<1>6. Len(t) = n - 1 /\ \A i \in 1..(n - 1) : t[i] = s[i] /\ i \in 1..n
  BY <1>3, <1>5 DEF n
<1>7. DOMAIN t = 1..(n - 1) /\ DOMAIN s = 1..n
  BY <1>3, <1>6, LenProperties DEF n
<1> QED BY <1>3, <1>6, <1>7 DEF t, n

\* Replacing the top frame leaves the frames below as they were.
LEMMA RetopStack ==
  ASSUME NEW S, NEW s \in Seq(S), s # <<>>, NEW e \in S
  PROVE  LET t == [s EXCEPT ![Len(s)] = e] IN
         /\ t \in Seq(S)
         /\ Len(t) = Len(s)
         /\ DOMAIN t = DOMAIN s
         /\ t[Len(s)] = e
         /\ \A i \in DOMAIN t : i # Len(s) => t[i] = s[i]
BY TopType, ExceptSeq, LenProperties

LEMMA PushStack ==
  ASSUME NEW S, NEW s \in Seq(S), NEW e \in S
  PROVE  LET t == Append(s, e) IN
         /\ t \in Seq(S)
         /\ Len(t) = Len(s) + 1
         /\ DOMAIN t = 1..(Len(s) + 1)
         /\ t[Len(s) + 1] = e
         /\ \A i \in DOMAIN s : i \in DOMAIN t /\ t[i] = s[i]
BY AppendProperties, LenProperties
-----------------------------------------------------------------------------
(* What each change of the stack preserves.                                *)

\* The worker leaves the queues, the stack, the store and the menu alone.
LEMMA QuietStep ==
  ASSUME IInv, TypeOK', UNCHANGED <<queue, stack, loaded, menu, waited>>
  PROVE  IInv'
BY DEF IInv, JobsInTheirClass, PausesNestOnce, ChunksLeft, WorkedSpecStaysLoaded,
       MenuAgrees, ReadsWaitOneChunk, FreshAtBegin, InQueue, Interactive

LEMMA StackType ==
  ASSUME TypeOK, stack # <<>>
  PROVE  /\ stack \in Seq(Frame)
         /\ Len(stack) \in Nat \ {0} /\ DOMAIN stack = 1..Len(stack)
         /\ Len(stack) \in DOMAIN stack /\ Top \in Frame
         /\ \A i \in DOMAIN stack : stack[i] \in Frame
BY TopType DEF TypeOK, Top

\* A job leaves the stack, at any stage but publishing.
LEMMA PopStep ==
  ASSUME IInv, TypeOK', stack # <<>>, stack' = Below, Top.at # "publish",
         UNCHANGED <<queue, loaded, menu, waited>>
  PROVE  IInv'
<1>1. /\ stack \in Seq(Frame) /\ Len(stack) \in Nat \ {0}
      /\ DOMAIN stack = 1..Len(stack)
  BY StackType DEF IInv
<1>2. /\ Len(stack') = Len(stack) - 1 /\ DOMAIN stack' = 1..(Len(stack) - 1)
      /\ \A i \in DOMAIN stack' : i \in DOMAIN stack /\ stack'[i] = stack[i]
  BY <1>1, PopStack DEF Below
<1>3. JobsInTheirClass'
  BY DEF IInv, JobsInTheirClass
<1>4. PausesNestOnce'
  BY <1>1, <1>2 DEF IInv, PausesNestOnce
<1>5. ChunksLeft' /\ WorkedSpecStaysLoaded'
  BY <1>2 DEF IInv, ChunksLeft, WorkedSpecStaysLoaded
<1>6. MenuAgrees'
  <2>1. \A i \in DOMAIN stack : i \in DOMAIN stack' \/ i = Len(stack)
    BY <1>1, <1>2
  <2> QED BY <1>2, <2>1 DEF IInv, MenuAgrees, Top
<1>7. ReadsWaitOneChunk' /\ FreshAtBegin'
  BY <1>2 DEF IInv, ReadsWaitOneChunk, FreshAtBegin, InQueue, Interactive
<1> QED BY <1>3, <1>4, <1>5, <1>6, <1>7 DEF IInv

\* The job on top moves on to a later stage.
LEMMA RetopStep ==
  ASSUME IInv, TypeOK', stack # <<>>, NEW e \in Frame, stack' = WithTop(e),
         e.job = Top.job, e.at # "begin",
         e.at = "chunk" => e.left > 0,
         UNCHANGED queue,
         ReadsWaitOneChunk',
         MenuAgrees',
         (e.job # Nobody /\ e.at \in {"boundary", "chunk"}) => Target[e.job] \in loaded',
         loaded' = loaded \/ Len(stack) = 1
  PROVE  IInv'
<1>1. /\ stack \in Seq(Frame) /\ Len(stack) \in Nat \ {0}
      /\ DOMAIN stack = 1..Len(stack)
  BY StackType DEF IInv
<1>2. /\ Len(stack') = Len(stack) /\ DOMAIN stack' = DOMAIN stack
      /\ stack'[Len(stack)] = e
      /\ \A i \in DOMAIN stack' : i # Len(stack) => stack'[i] = stack[i]
  BY <1>1, RetopStack DEF WithTop
<1>3. JobsInTheirClass'
  BY DEF IInv, JobsInTheirClass
<1>4. PausesNestOnce'
  <2>1. Len(stack) <= 2
    BY DEF IInv, PausesNestOnce
  <2>2. ASSUME Len(stack) = 2
        PROVE  /\ Interactive(stack'[2])
               /\ ~Interactive(stack'[1]) /\ stack'[1].at = "boundary"
    BY <1>1, <1>2, <2>2 DEF IInv, PausesNestOnce, Interactive, Top
  <2> QED BY <1>2, <2>1, <2>2 DEF PausesNestOnce, Interactive
<1>5. ChunksLeft'
  BY <1>2 DEF IInv, ChunksLeft
<1>6. WorkedSpecStaysLoaded'
  BY <1>1, <1>2 DEF IInv, WorkedSpecStaysLoaded
<1>7. FreshAtBegin'
  <2>1. ASSUME NEW i \in DOMAIN stack', ~Interactive(stack'[i]), stack'[i].at = "begin"
        PROVE  FALSE
    <3>1. i # Len(stack) /\ stack'[i] = stack[i]
      BY <1>2, <2>1
    <3>2. Len(stack) = 2 /\ i = 1
      BY <1>1, <1>2, <3>1 DEF IInv, PausesNestOnce
    <3> QED BY <2>1, <3>1, <3>2 DEF IInv, PausesNestOnce
  <2> QED BY <2>1 DEF FreshAtBegin, Interactive
<1> QED BY <1>3, <1>4, <1>5, <1>6, <1>7 DEF IInv

\* What taking the oldest job of a class does to its queue and to the stack.
LEMMA Taken ==
  ASSUME TypeOK, NEW class \in Classes, Take(class)
  PROVE  LET c == Head(queue[class]) IN
         /\ c \in Callers /\ c = queue[class][1] /\ 1 \in DOMAIN queue[class]
         /\ stack'[Len(stack) + 1] = [job |-> c, at |-> "begin", left |-> 0]
         /\ Len(stack') = Len(stack) + 1 /\ DOMAIN stack' = 1..(Len(stack) + 1)
         /\ \A i \in DOMAIN stack : i \in DOMAIN stack' /\ stack'[i] = stack[i]
         /\ Len(stack) \in Nat /\ DOMAIN stack = 1..Len(stack)
         /\ DOMAIN queue'[class] = 1..(Len(queue[class]) - 1)
         /\ DOMAIN queue[class] = 1..Len(queue[class])
         /\ Len(queue[class]) \in Nat \ {0}
         /\ \A i \in DOMAIN queue'[class] :
              i + 1 \in DOMAIN queue[class] /\ queue'[class][i] = queue[class][i + 1]
         /\ \A other \in Classes : other # class => queue'[other] = queue[other]
         /\ waited' = [waited EXCEPT ![c] = 0]
<1> DEFINE c == Head(queue[class])
           frame == [job |-> c, at |-> "begin", left |-> 0]
<1>1. /\ queue[class] \in Seq(Callers) /\ queue[class] # <<>>
      /\ queue \in [Classes -> Seq(Callers)] /\ stack \in Seq(Frame)
  BY DEF TypeOK, Take
<1>2. /\ c \in Callers /\ c = queue[class][1] /\ 1 \in DOMAIN queue[class]
      /\ frame \in Frame
  <2>1. c \in Callers /\ c = queue[class][1] /\ 1 \in DOMAIN queue[class]
    BY <1>1, HeadTailProperties, TopType
  <2>2. 0 \in 0..MaxChunks
    BY WorkerAssumption
  <2> QED BY <2>1, <2>2 DEF Frame, Stages
<1>3. /\ Len(stack') = Len(stack) + 1 /\ DOMAIN stack' = 1..(Len(stack) + 1)
      /\ stack'[Len(stack) + 1] = frame
      /\ \A i \in DOMAIN stack : i \in DOMAIN stack' /\ stack'[i] = stack[i]
      /\ Len(stack) \in Nat /\ DOMAIN stack = 1..Len(stack)
  BY <1>1, <1>2, PushStack, LenProperties DEF Take
<1>4. queue'[class] = Tail(queue[class])
  BY <1>1 DEF Take
<1>5. /\ Tail(queue[class]) \in Seq(Callers)
      /\ Len(Tail(queue[class])) = Len(queue[class]) - 1
      /\ \A i \in 1..Len(Tail(queue[class])) :
           Tail(queue[class])[i] = queue[class][i + 1]
  BY <1>1, HeadTailProperties
<1>6. /\ DOMAIN Tail(queue[class]) = 1..(Len(queue[class]) - 1)
      /\ DOMAIN queue[class] = 1..Len(queue[class])
      /\ Len(queue[class]) \in Nat \ {0}
  BY <1>1, <1>5, LenProperties, TopType
<1>7. /\ DOMAIN queue'[class] = 1..(Len(queue[class]) - 1)
      /\ \A i \in DOMAIN queue'[class] :
           i + 1 \in DOMAIN queue[class] /\ queue'[class][i] = queue[class][i + 1]
  BY <1>4, <1>5, <1>6
<1>8. /\ \A other \in Classes : other # class => queue'[other] = queue[other]
      /\ waited' = [waited EXCEPT ![c] = 0]
  BY <1>1 DEF Take
<1> QED BY <1>2, <1>3, <1>6, <1>7, <1>8

\* A job leaves its queue for the stack: any job when the worker is idle, a
\* read at a pause.
LEMMA TakeStep ==
  ASSUME IInv, TypeOK', NEW class \in Classes, Take(class),
         UNCHANGED <<loaded, menu>>,
         \/ stack = <<>> /\ (class = "generative" => queue["interactive"] = <<>>)
         \/ /\ stack # <<>> /\ Top.at = "boundary" /\ ~Interactive(Top)
            /\ class = "interactive"
  PROVE  IInv'
<1> DEFINE c == Head(queue[class])
           frame == [job |-> c, at |-> "begin", left |-> 0]
<1>1. /\ queue \in [Classes -> Seq(Callers)] /\ waited \in [Callers -> Nat]
      /\ stack \in Seq(Frame) /\ TypeOK
  BY DEF IInv, TypeOK
<1>2. c \in Callers /\ c = queue[class][1] /\ 1 \in DOMAIN queue[class]
  BY <1>1, Taken
<1>3. ClassOf(Op[c]) = class
  BY <1>2 DEF IInv, JobsInTheirClass
<1>4. /\ Len(stack') = Len(stack) + 1 /\ DOMAIN stack' = 1..(Len(stack) + 1)
      /\ stack'[Len(stack) + 1] = frame
      /\ \A i \in DOMAIN stack : i \in DOMAIN stack' /\ stack'[i] = stack[i]
      /\ Len(stack) \in Nat /\ DOMAIN stack = 1..Len(stack)
  BY <1>1, Taken
<1>5. /\ DOMAIN queue'[class] = 1..(Len(queue[class]) - 1)
      /\ \A i \in DOMAIN queue'[class] :
           i + 1 \in DOMAIN queue[class] /\ queue'[class][i] = queue[class][i + 1]
      /\ \A other \in Classes : other # class => queue'[other] = queue[other]
      /\ waited' = [waited EXCEPT ![c] = 0]
  BY <1>1, Taken
<1> HIDE DEF c, frame
<1>6. JobsInTheirClass'
  BY <1>5 DEF IInv, JobsInTheirClass
<1>7. \A d \in Callers : InQueue(d, "interactive")' => InQueue(d, "interactive")
  BY <1>5 DEF InQueue, Classes
<1>8. ReadsWaitOneChunk'
  BY <1>1, <1>5, <1>7 DEF IInv, ReadsWaitOneChunk
<1>9. \A i \in DOMAIN stack' :
        i = Len(stack) + 1 \/ (i \in DOMAIN stack /\ stack'[i] = stack[i])
  BY <1>4
<1>10. frame.at = "begin" /\ frame.job = c
  BY DEF frame
<1>11. ChunksLeft' /\ WorkedSpecStaysLoaded'
  BY <1>4, <1>9, <1>10 DEF IInv, ChunksLeft, WorkedSpecStaysLoaded
<1>12. MenuAgrees'
  BY <1>4, <1>9 DEF IInv, MenuAgrees
<1>13. Interactive(frame) <=> class = "interactive"
  <2>1. c # Nobody /\ Op[c] \in Ops
    BY <1>2, WorkerAssumption
  <2> QED BY <1>3, <1>10, <2>1 DEF Interactive, ClassOf, Ops
<1>14. CASE stack = <<>>
  <2>1. Len(stack) = 0
    BY <1>14, EmptySeq
  <2>2. PausesNestOnce'
    BY <1>4, <2>1 DEF PausesNestOnce
  <2>3. FreshAtBegin'
    <3>1. CASE class = "interactive"
      BY <1>4, <1>13, <2>1, <3>1 DEF FreshAtBegin, Interactive
    <3>2. CASE class = "generative"
      <4>1. queue["interactive"] = <<>>
        BY <1>14, <3>2
      <4>2. \A d \in Callers : ~InQueue(d, "interactive")
        BY <4>1 DEF InQueue
      <4> QED BY <1>7, <4>2 DEF FreshAtBegin
    <3> QED BY <3>1, <3>2 DEF Classes
  <2> QED BY <1>6, <1>8, <1>11, <1>12, <2>2, <2>3 DEF IInv
<1>15. CASE stack # <<>>
  <2>1. /\ Top.at = "boundary" /\ ~Interactive(Top) /\ class = "interactive"
        /\ Len(stack) # 0 /\ Top = stack[Len(stack)]
    BY <1>1, <1>15, TopType DEF Top
  <2>2. Len(stack) = 1
    BY <1>4, <2>1 DEF IInv, PausesNestOnce
  <2>3. stack'[1] = stack[1] /\ stack'[2] = frame
    BY <1>4, <2>2
  <2>4. PausesNestOnce'
    BY <1>4, <1>13, <2>1, <2>2, <2>3 DEF PausesNestOnce, Interactive
  <2>5. FreshAtBegin'
    BY <1>4, <1>13, <2>1, <2>2, <2>3 DEF FreshAtBegin, Interactive
  <2> QED BY <1>6, <1>8, <1>11, <1>12, <2>4, <2>5 DEF IInv
<1> QED BY <1>14, <1>15
-----------------------------------------------------------------------------
(* Every variable keeps its type.                                          *)

LEMMA ReplyType ==
  ASSUME TypeOK, stack # <<>>, Reply
  PROVE  stack' \in Seq(Frame) /\ caller' \in [Callers -> Phases]
<1>1. stack' \in Seq(Frame)
  BY PopStack DEF TypeOK, Reply, Below
<1> QED BY <1>1 DEF TypeOK, Reply, Phases

LEMMA WithTopType ==
  ASSUME TypeOK, stack # <<>>, NEW e \in Frame, stack' = WithTop(e)
  PROVE  stack' \in Seq(Frame)
BY RetopStack DEF TypeOK, WithTop

LEMMA TakeType ==
  ASSUME TypeOK, NEW class \in Classes, Take(class)
  PROVE  /\ stack' \in Seq(Frame)
         /\ queue' \in [Classes -> Seq(Callers)]
         /\ \A other \in Classes : Len(queue'[other]) <= QueueDepth
         /\ waited' \in [Callers -> Nat]
<1>1. /\ queue[class] \in Seq(Callers) /\ queue[class] # <<>>
      /\ Len(queue[class]) \in Nat /\ Len(queue[class]) <= QueueDepth
  BY LenProperties DEF TypeOK, Take
<1>2. /\ Head(queue[class]) \in Callers /\ Tail(queue[class]) \in Seq(Callers)
      /\ Len(Tail(queue[class])) = Len(queue[class]) - 1
  BY <1>1, HeadTailProperties
<1>3. /\ queue' \in [Classes -> Seq(Callers)]
      /\ \A other \in Classes :
           queue'[other] = IF other = class THEN Tail(queue[class]) ELSE queue[other]
  BY <1>2 DEF TypeOK, Take
<1>4. \A other \in Classes : Len(queue'[other]) <= QueueDepth
  BY <1>1, <1>2, <1>3, WorkerAssumption DEF TypeOK
<1>5. [job |-> Head(queue[class]), at |-> "begin", left |-> 0] \in Frame
  <2>1. 0 \in 0..MaxChunks
    BY WorkerAssumption
  <2> QED BY <1>2, <2>1 DEF Frame, Stages
<1>6. stack' \in Seq(Frame)
  BY <1>5, PushStack DEF TypeOK, Take
<1>7. waited' \in [Callers -> Nat]
  BY <1>2 DEF TypeOK, Take
<1> QED BY <1>3, <1>4, <1>6, <1>7

LEMMA CountType ==
  ASSUME TypeOK, CountWork
  PROVE  waited' \in [Callers -> Nat]
BY DEF TypeOK, CountWork

LEMMA LoadsType ==
  ASSUME TypeOK, NEW spec \in Specs, NEW new \in Loads(spec)
  PROVE  new \in SUBSET Specs /\ BootSpecs \subseteq new /\ spec \in new
BY WorkerAssumption DEF TypeOK, Loads

LEMMA FrameFields ==
  ASSUME NEW f \in Frame
  PROVE  f.job \in Callers \cup {Nobody} /\ f.at \in Stages /\ f.left \in 0..MaxChunks
BY DEF Frame

\* Requests, the stop and the drain keep the types.
LEMMA RequestsType ==
  ASSUME TypeOK, Requests \/ Stop \/ DropHandles
  PROVE  TypeOK'
<1>1. ASSUME NEW c \in Callers, Arrive(c) \/ Overload(c) \/ Expire(c) \/ GiveUp(c)
      PROVE  TypeOK'
  <2>1. caller' \in [Callers -> Phases]
    BY <1>1 DEF TypeOK, Arrive, Overload, Expire, GiveUp, Phases
  <2> QED BY <1>1, <2>1 DEF TypeOK, Arrive, Overload, Expire, GiveUp
<1>2. ASSUME NEW c \in Callers, Enqueue(c)
      PROVE  TypeOK'
  <2> DEFINE class == ClassOf(Op[c])
  <2>1. class \in Classes
    BY DEF ClassOf, Classes
  <2> HIDE DEF class
  <2>2. /\ queue[class] \in Seq(Callers) /\ Len(queue[class]) \in Nat
        /\ Len(queue[class]) < QueueDepth
    <3>1. queue[class] \in Seq(Callers)
      BY <2>1 DEF TypeOK
    <3>2. Len(queue[class]) \in Nat /\ QueueDepth \in Nat
      BY <3>1, LenProperties, WorkerAssumption
    <3> QED BY <1>2, <3>1, <3>2 DEF Enqueue, Full, class
  <2>3. /\ Append(queue[class], c) \in Seq(Callers)
        /\ Len(Append(queue[class], c)) = Len(queue[class]) + 1
    BY <2>2, AppendProperties
  <2>4. queue' = [queue EXCEPT ![class] = Append(queue[class], c)]
    BY <1>2 DEF Enqueue, class
  <2>5. /\ queue' \in [Classes -> Seq(Callers)]
        /\ \A other \in Classes : Len(queue'[other]) <= QueueDepth
    BY <2>1, <2>2, <2>3, <2>4, WorkerAssumption DEF TypeOK
  <2>6. caller' \in [Callers -> Phases] /\ waited' \in [Callers -> Nat]
    <3>1. Underway \in Nat
      BY DEF Underway
    <3> QED BY <1>2, <3>1 DEF Enqueue, TypeOK, Phases
  <2> QED BY <1>2, <2>5, <2>6 DEF Enqueue, TypeOK
<1>3. ASSUME Stop \/ DropHandles
      PROVE  TypeOK'
  BY <1>3 DEF TypeOK, Stop, DropHandles
<1> QED BY <1>1, <1>2, <1>3 DEF Requests, Submit

\* The worker's own steps keep the types.
LEMMA WorkType ==
  ASSUME TypeOK, ChunksLeft, Work
  PROVE  TypeOK'
<1>1. CASE Pick
  <2>1. PICK class \in Classes : Take(class)
    BY <1>1 DEF Pick
  <2> QED BY <1>1, <2>1, TakeType DEF TypeOK, Pick
<1>2. CASE ServeAtPause
  <2>1. "interactive" \in Classes /\ Take("interactive")
    BY <1>2 DEF ServeAtPause, Classes
  <2> QED BY <1>2, <2>1, TakeType DEF TypeOK, ServeAtPause
<1>3. CASE PickBackground
  <2>1. [job |-> Nobody, at |-> "begin", left |-> 0] \in Frame
    <3>1. 0 \in 0..MaxChunks
      BY WorkerAssumption
    <3> QED BY <3>1 DEF Frame, Stages
  <2>2. stack' \in Seq(Frame)
    BY <1>3, <2>1 DEF PickBackground
  <2>3. background' \in Nat
    BY <1>3 DEF PickBackground, TypeOK
  <2> QED BY <1>3, <2>2, <2>3 DEF TypeOK, PickBackground
<1>4. CASE Exit
  BY <1>4 DEF TypeOK, Exit
<1>5. CASE Abandon \/ Refuse \/ Confirm \/ ChunkFails \/ Finish
  <2>1. stack # <<>> /\ Reply
    BY <1>5 DEF Abandon, Refuse, Confirm, ChunkFails, Finish, At
  <2> QED BY <1>5, <2>1, ReplyType
          DEF TypeOK, Abandon, Refuse, Confirm, ChunkFails, Finish
<1>6. CASE Begin
  <2>1. stack # <<>> /\ Top.job \in Callers \cup {Nobody}
    BY <1>6, StackType, FrameFields DEF Begin, At
  <2>2. PICK n \in 0..MaxChunks :
          stack' = WithTop([job |-> Top.job, at |-> "boundary", left |-> n])
    BY <1>6 DEF Begin
  <2>3. [job |-> Top.job, at |-> "boundary", left |-> n] \in Frame
    BY <2>1 DEF Frame, Stages
  <2> QED BY <1>6, <2>1, <2>2, <2>3, WithTopType DEF TypeOK, Begin
<1>7. CASE ChangeSpecs
  <2>1. stack # <<>> /\ Top.job \in Callers /\ Target[Top.job] \in Specs
    BY <1>7, StackType, FrameFields, WorkerAssumption DEF ChangeSpecs, At
  <2>2. [job |-> Top.job, at |-> "publish", left |-> 0] \in Frame
    <3>1. 0 \in 0..MaxChunks
      BY WorkerAssumption
    <3> QED BY <2>1, <3>1 DEF Frame, Stages
  <2>3. loaded' \in SUBSET Specs /\ BootSpecs \subseteq loaded'
    <3>1. CASE loaded' \in Loads(Target[Top.job])
      BY <2>1, <3>1, LoadsType
    <3>2. CASE /\ Target[Top.job] \in loaded \ BootSpecs
               /\ loaded' = loaded \ {Target[Top.job]}
      BY <3>2 DEF TypeOK
    <3> QED BY <1>7, <3>1, <3>2 DEF ChangeSpecs
  <2>4. background' \in Nat
    BY <1>7 DEF ChangeSpecs, TypeOK
  <2>5. stack' \in Seq(Frame) /\ waited' \in [Callers -> Nat]
    BY <1>7, <2>1, <2>2, WithTopType, CountType DEF ChangeSpecs
  <2> QED BY <1>7, <2>3, <2>4, <2>5 DEF TypeOK, ChangeSpecs
<1>8. CASE Publish
  <2>1. stack # <<>> /\ Top.job \in Callers \cup {Nobody}
    BY <1>8, StackType, FrameFields DEF Publish, At
  <2>2. [job |-> Top.job, at |-> "reply", left |-> 0] \in Frame
    <3>1. 0 \in 0..MaxChunks
      BY WorkerAssumption
    <3> QED BY <2>1, <3>1 DEF Frame, Stages
  <2> QED BY <1>8, <2>1, <2>2, WithTopType DEF TypeOK, Publish
<1>9. CASE NextChunk
  <2>1. stack # <<>> /\ Top \in Frame
    BY <1>9, StackType DEF NextChunk, At
  <2>2. [job |-> Top.job, at |-> "chunk", left |-> Top.left] \in Frame
    BY <2>1, FrameFields DEF Frame, Stages
  <2> QED BY <1>9, <2>1, <2>2, WithTopType, CountType DEF TypeOK, NextChunk
<1>10. CASE EndChunk
  <2>1. stack # <<>> /\ Top \in Frame /\ Top.left > 0 /\ Top.left \in 0..MaxChunks
    BY <1>10, StackType, FrameFields DEF EndChunk, At, ChunksLeft, Top
  <2>2. [job |-> Top.job, at |-> "boundary", left |-> Top.left - 1] \in Frame
    <3>1. Top.left - 1 \in 0..MaxChunks
      BY <2>1, WorkerAssumption
    <3> QED BY <2>1, <3>1, FrameFields DEF Frame, Stages
  <2>3. background' \in Nat
    BY <1>10, WorkerAssumption DEF EndChunk, TypeOK
  <2> QED BY <1>10, <2>1, <2>2, <2>3, WithTopType DEF TypeOK, EndChunk
<1> QED BY <1>1, <1>2, <1>3, <1>4, <1>5, <1>6, <1>7, <1>8, <1>9, <1>10 DEF Work
-----------------------------------------------------------------------------
(* The invariant is inductive.                                             *)

LEMMA InitIInv == Init => IInv
<1> SUFFICES ASSUME Init PROVE IInv
  OBVIOUS
<1>1. <<>> \in Seq(Callers) /\ <<>> \in Seq(Frame) /\ Len(<<>>) = 0
  BY EmptySeq
<1>2. stack = <<>> /\ DOMAIN stack = {} /\ Len(stack) = 0
  BY <1>1 DEF Init
<1>3. \A class \in Classes : queue[class] = <<>> /\ DOMAIN queue[class] = {}
  BY DEF Init
<1>4. TypeOK
  <2>1. queue \in [Classes -> Seq(Callers)]
    BY <1>1 DEF Init
  <2>2. \A class \in Classes : Len(queue[class]) <= QueueDepth
    BY <1>1, <1>3, WorkerAssumption
  <2>3. caller \in [Callers -> Phases] /\ waited \in [Callers -> Nat]
    BY DEF Init, Phases
  <2>4. /\ loaded \in SUBSET Specs /\ BootSpecs \subseteq loaded /\ menu \in SUBSET Specs
        /\ background \in Nat /\ stopping \in BOOLEAN /\ handles \in BOOLEAN
        /\ exited \in BOOLEAN
    BY WorkerAssumption DEF Init
  <2>5. stack \in Seq(Frame)
    BY <1>1, <1>2
  <2> QED BY <2>1, <2>2, <2>3, <2>4, <2>5 DEF TypeOK
<1>5. \A c \in Callers : ~InQueue(c, "interactive")
  BY <1>3 DEF InQueue, Classes
<1> QED BY <1>2, <1>3, <1>4, <1>5
        DEF IInv, Init, JobsInTheirClass, PausesNestOnce, ChunksLeft,
            WorkedSpecStaysLoaded, MenuAgrees, ReadsWaitOneChunk, FreshAtBegin

\* A request that is queued waits for what is under way and nothing else yet.
LEMMA EnqueueStep ==
  ASSUME IInv, TypeOK', NEW c \in Callers, Enqueue(c)
  PROVE  IInv'
<1> DEFINE class == ClassOf(Op[c])
<1>1. class \in Classes /\ queue[class] \in Seq(Callers)
  BY DEF ClassOf, Classes, IInv, TypeOK
<1>2. /\ queue' = [queue EXCEPT ![class] = Append(queue[class], c)]
      /\ queue \in [Classes -> Seq(Callers)] /\ waited \in [Callers -> Nat]
      /\ waited' = [waited EXCEPT ![c] = Underway]
      /\ UNCHANGED <<stack, loaded, menu>>
  BY DEF Enqueue, IInv, TypeOK
<1>3. /\ DOMAIN queue'[class] = 1..(Len(queue[class]) + 1)
      /\ queue'[class][Len(queue[class]) + 1] = c
      /\ \A i \in DOMAIN queue[class] : queue'[class][i] = queue[class][i]
      /\ DOMAIN queue[class] = 1..Len(queue[class]) /\ Len(queue[class]) \in Nat
      /\ \A other \in Classes : other # class => queue'[other] = queue[other]
  BY <1>1, <1>2, PushStack, LenProperties
<1>4. \A i \in DOMAIN queue'[class] :
        i = Len(queue[class]) + 1 \/ (i \in DOMAIN queue[class] /\ queue'[class][i] = queue[class][i])
  BY <1>3
<1>5. JobsInTheirClass'
  BY <1>3, <1>4 DEF IInv, JobsInTheirClass
<1>6. \A d \in Callers :
        InQueue(d, "interactive")' => d = c \/ InQueue(d, "interactive")
  BY <1>3, <1>4 DEF InQueue, Classes
<1>7. Underway \in {0, 1}
  BY DEF Underway
<1>8. ReadsWaitOneChunk'
  BY <1>2, <1>6, <1>7 DEF IInv, ReadsWaitOneChunk
<1>9. FreshAtBegin'
  <2>1. ASSUME NEW i \in DOMAIN stack, ~Interactive(stack[i]), stack[i].at = "begin"
        PROVE  Underway = 0
    <3>1. DOMAIN stack = 1..Len(stack) /\ Len(stack) \in Nat
      BY LenProperties DEF IInv, TypeOK
    <3>2. Len(stack) = 1 /\ i = 1
      BY <2>1, <3>1 DEF IInv, PausesNestOnce
    <3> QED BY <2>1, <3>1, <3>2 DEF Underway
  <2> QED BY <1>2, <1>6, <2>1 DEF IInv, FreshAtBegin, Interactive
<1>10. PausesNestOnce' /\ ChunksLeft' /\ WorkedSpecStaysLoaded' /\ MenuAgrees'
  BY <1>2 DEF IInv, PausesNestOnce, ChunksLeft, WorkedSpecStaysLoaded, MenuAgrees,
              Interactive
<1> QED BY <1>5, <1>8, <1>9, <1>10 DEF IInv

\* Paused-class work counts only against reads that wait for nothing yet.
LEMMA CountStep ==
  ASSUME IInv, CountWork, UNCHANGED queue,
         \/ ~Pauses
         \/ stack # <<>> /\ Top.at = "begin"
  PROVE  ReadsWaitOneChunk'
<1>1. /\ \A c \in Callers : waited[c] \in Nat
      /\ \A c \in Callers : waited'[c] = waited[c] + (IF InQueue(c, "interactive") /\ ~Interactive(Top) THEN 1 ELSE 0)
  BY DEF CountWork, IInv, TypeOK
<1>2. \A c \in Callers : InQueue(c, "interactive")' <=> InQueue(c, "interactive")
  BY DEF InQueue
<1>3. CASE Interactive(Top)
  BY <1>1, <1>2, <1>3 DEF IInv, ReadsWaitOneChunk
<1>4. CASE ~Interactive(Top) /\ ~Pauses
  <2>1. queue["interactive"] = <<>>
    BY <1>4 DEF Pauses
  <2>2. \A c \in Callers : ~InQueue(c, "interactive")
    BY <2>1 DEF InQueue
  <2> QED BY <1>2, <2>2 DEF ReadsWaitOneChunk
<1>5. CASE ~Interactive(Top) /\ stack # <<>> /\ Top.at = "begin"
  <2>1. Len(stack) \in DOMAIN stack /\ Top = stack[Len(stack)]
    BY <1>5, StackType DEF IInv, Top
  <2>2. \A c \in Callers : InQueue(c, "interactive") => waited[c] = 0
    BY <1>5, <2>1 DEF IInv, FreshAtBegin
  <2> QED BY <1>1, <1>2, <2>2 DEF ReadsWaitOneChunk
<1> QED BY <1>3, <1>4, <1>5

LEMMA ReadsWaitUnchanged ==
  ASSUME IInv, UNCHANGED <<queue, waited>>
  PROVE  ReadsWaitOneChunk'
BY DEF IInv, ReadsWaitOneChunk, InQueue

\* A frame that is not on top cannot be publishing, and one that works stays so.
LEMMA RetopMenu ==
  ASSUME IInv, stack # <<>>, NEW e \in Frame, stack' = WithTop(e),
         Top.at # "publish" /\ UNCHANGED <<loaded, menu>>
  PROVE  MenuAgrees'
<1>1. /\ stack \in Seq(Frame) /\ Len(stack) \in DOMAIN stack /\ Top = stack[Len(stack)]
  BY StackType DEF IInv, Top
<1>2. /\ DOMAIN stack' = DOMAIN stack
      /\ \A i \in DOMAIN stack' : i # Len(stack) => stack'[i] = stack[i]
  BY <1>1, RetopStack DEF WithTop
<1> QED BY <1>1, <1>2 DEF IInv, MenuAgrees
-----------------------------------------------------------------------------
LEMMA NextIInv == IInv /\ [Next]_vars => IInv'
<1> SUFFICES ASSUME IInv, [Next]_vars PROVE IInv'
  OBVIOUS
<1>1. TypeOK'
  <2>1. CASE UNCHANGED vars
    BY <2>1 DEF IInv, TypeOK, vars
  <2> QED BY <2>1, RequestsType, WorkType DEF IInv, Next
<1>2. CASE UNCHANGED vars
  BY <1>1, <1>2, QuietStep DEF vars
<1>3. CASE Requests
  <2>1. PICK c \in Callers :
          Arrive(c) \/ Enqueue(c) \/ Overload(c) \/ Expire(c) \/ GiveUp(c)
    BY <1>3 DEF Requests, Submit
  <2>2. CASE Enqueue(c)
    BY <1>1, <2>2, EnqueueStep
  <2>3. CASE Arrive(c) \/ Overload(c) \/ Expire(c) \/ GiveUp(c)
    <3>1. UNCHANGED <<queue, stack, loaded, menu, waited>>
      BY <2>3 DEF Arrive, Overload, Expire, GiveUp
    <3> QED BY <1>1, <3>1, QuietStep
  <2> QED BY <2>1, <2>2, <2>3
<1>4. CASE Stop \/ DropHandles \/ Exit
  <2>1. UNCHANGED <<queue, stack, loaded, menu, waited>>
    BY <1>4 DEF Stop, DropHandles, Exit
  <2> QED BY <1>1, <2>1, QuietStep
<1>5. CASE Abandon \/ Refuse \/ Confirm \/ ChunkFails \/ Finish
  <2>1. /\ stack # <<>> /\ stack' = Below /\ Top.at # "publish"
        /\ UNCHANGED <<queue, loaded, menu, waited>>
    BY <1>5 DEF Abandon, Refuse, Confirm, ChunkFails, Finish, At, Reply
  <2> QED BY <1>1, <2>1, PopStep
<1>6. CASE Pick
  <2>1. PICK class \in Classes :
          Take(class) /\ (class = "generative" => queue["interactive"] = <<>>)
    BY <1>6 DEF Pick
  <2>2. stack = <<>> /\ UNCHANGED <<loaded, menu>>
    BY <1>6 DEF Pick
  <2> QED BY <1>1, <2>1, <2>2, TakeStep
<1>7. CASE ServeAtPause
  <2>1. /\ stack # <<>> /\ Top.at = "boundary" /\ ~Interactive(Top)
        /\ "interactive" \in Classes /\ Take("interactive")
        /\ UNCHANGED <<loaded, menu>>
    BY <1>7 DEF ServeAtPause, At, Pauses, Classes
  <2> QED BY <1>1, <2>1, TakeStep
<1>8. CASE PickBackground
  <2>1. /\ stack = <<>> /\ stack' = <<[job |-> Nobody, at |-> "begin", left |-> 0]>>
        /\ \A class \in Classes : queue[class] = <<>>
        /\ UNCHANGED <<queue, loaded, menu, waited>>
    BY <1>8 DEF PickBackground
  <2>2. \A c \in Callers : ~InQueue(c, "interactive")'
    BY <2>1 DEF InQueue, Classes
  <2>3. /\ Len(stack') = 1 /\ DOMAIN stack' = {1}
        /\ stack'[1].at = "begin" /\ DOMAIN stack = {}
    BY <2>1
  <2>4. PausesNestOnce' /\ ChunksLeft' /\ WorkedSpecStaysLoaded' /\ FreshAtBegin'
    BY <2>2, <2>3 DEF PausesNestOnce, ChunksLeft, WorkedSpecStaysLoaded, FreshAtBegin
  <2>5. MenuAgrees' /\ ReadsWaitOneChunk' /\ JobsInTheirClass'
    BY <2>1, <2>2, <2>3
       DEF IInv, MenuAgrees, ReadsWaitOneChunk, JobsInTheirClass
  <2> QED BY <1>1, <2>4, <2>5 DEF IInv
<1>9. CASE Begin
  <2>1. /\ stack # <<>> /\ Top.at = "begin" /\ Top \in Frame
        /\ UNCHANGED <<queue, loaded, menu, waited>>
    BY <1>9, StackType DEF Begin, At, IInv
  <2>2. PICK n \in 0..MaxChunks :
          stack' = WithTop([job |-> Top.job, at |-> "boundary", left |-> n])
    BY <1>9 DEF Begin
  <2> DEFINE e == [job |-> Top.job, at |-> "boundary", left |-> n]
  <2>3. e \in Frame /\ e.job = Top.job /\ e.at = "boundary" /\ stack' = WithTop(e)
    BY <2>1, <2>2, FrameFields DEF Frame, Stages
  <2>4. e.job # Nobody => Target[e.job] \in loaded'
    BY <1>9, <2>1, <2>3 DEF Begin
  <2> HIDE DEF e
  <2>5. MenuAgrees' /\ ReadsWaitOneChunk'
    BY <2>1, <2>3, RetopMenu, ReadsWaitUnchanged
  <2> QED BY <1>1, <2>1, <2>3, <2>4, <2>5, RetopStep
<1>10. CASE ChangeSpecs
  <2>1. /\ stack # <<>> /\ Top.at = "begin" /\ Top \in Frame /\ Top.job \in Callers
        /\ Op[Top.job] \in {"register", "unregister"}
        /\ CountWork /\ UNCHANGED <<queue, menu>>
        /\ stack' = WithTop([job |-> Top.job, at |-> "publish", left |-> 0])
    BY <1>10, StackType, FrameFields DEF ChangeSpecs, At, IInv
  <2> DEFINE e == [job |-> Top.job, at |-> "publish", left |-> 0]
  <2>2. e \in Frame /\ e.job = Top.job /\ e.at = "publish" /\ stack' = WithTop(e)
    <3>1. 0 \in 0..MaxChunks
      BY WorkerAssumption
    <3> QED BY <2>1, <3>1 DEF Frame, Stages
  <2> HIDE DEF e
  <2>3. ~Interactive(Top)
    BY <2>1 DEF Interactive
  <2>4. Len(stack) = 1
    <3>1. Len(stack) \in Nat \ {0} /\ Top = stack[Len(stack)]
      BY <2>1, StackType DEF IInv, Top
    <3>2. Len(stack) <= 2 /\ (Len(stack) = 2 => Interactive(stack[2]))
      BY DEF IInv, PausesNestOnce
    <3>3. Len(stack) # 2
      BY <2>3, <3>1, <3>2
    <3> QED BY <3>1, <3>2, <3>3
  <2>5. ReadsWaitOneChunk'
    BY <2>1, CountStep
  <2>6. MenuAgrees'
    <3>1. Len(stack) \in DOMAIN stack' /\ stack'[Len(stack)] = e
      BY <2>1, <2>2, StackType, RetopStack DEF IInv, WithTop
    <3> QED BY <2>2, <3>1 DEF MenuAgrees
  <2> QED BY <1>1, <2>1, <2>2, <2>4, <2>5, <2>6, RetopStep
<1>11. CASE Publish
  <2>1. /\ stack # <<>> /\ Top.at = "publish" /\ Top \in Frame
        /\ menu' = loaded' /\ UNCHANGED <<queue, loaded, waited>>
        /\ stack' = WithTop([job |-> Top.job, at |-> "reply", left |-> 0])
    BY <1>11, StackType DEF Publish, At, IInv
  <2> DEFINE e == [job |-> Top.job, at |-> "reply", left |-> 0]
  <2>2. e \in Frame /\ e.job = Top.job /\ e.at = "reply" /\ stack' = WithTop(e)
    <3>1. 0 \in 0..MaxChunks
      BY WorkerAssumption
    <3> QED BY <2>1, <3>1, FrameFields DEF Frame, Stages
  <2> HIDE DEF e
  <2>3. MenuAgrees' /\ ReadsWaitOneChunk'
    BY <2>1, ReadsWaitUnchanged DEF MenuAgrees
  <2> QED BY <1>1, <2>1, <2>2, <2>3, RetopStep
<1>12. CASE NextChunk
  <2>1. /\ stack # <<>> /\ Top.at = "boundary" /\ Top.left > 0 /\ Top \in Frame
        /\ ~Pauses /\ CountWork /\ UNCHANGED <<queue, loaded, menu>>
        /\ stack' = WithTop([job |-> Top.job, at |-> "chunk", left |-> Top.left])
    BY <1>12, StackType DEF NextChunk, At, IInv
  <2> DEFINE e == [job |-> Top.job, at |-> "chunk", left |-> Top.left]
  <2>2. /\ e \in Frame /\ e.job = Top.job /\ e.at = "chunk" /\ e.left > 0
        /\ stack' = WithTop(e)
    BY <2>1, FrameFields DEF Frame, Stages
  <2> HIDE DEF e
  <2>3. Top.job # Nobody => Target[Top.job] \in loaded
    <3>1. Len(stack) \in DOMAIN stack /\ Top = stack[Len(stack)]
      BY <2>1, StackType DEF IInv, Top
    <3> QED BY <2>1, <3>1 DEF IInv, WorkedSpecStaysLoaded
  <2>4. MenuAgrees' /\ ReadsWaitOneChunk'
    BY <2>1, <2>2, RetopMenu, CountStep
  <2> QED BY <1>1, <2>1, <2>2, <2>3, <2>4, RetopStep
<1>13. CASE EndChunk
  <2>1. /\ stack # <<>> /\ Top.at = "chunk" /\ Top \in Frame
        /\ Len(stack) \in DOMAIN stack /\ Top = stack[Len(stack)]
        /\ UNCHANGED <<queue, loaded, menu, waited>>
        /\ stack' = WithTop([job |-> Top.job, at |-> "boundary", left |-> Top.left - 1])
    BY <1>13, StackType DEF EndChunk, At, IInv, Top
  <2> DEFINE e == [job |-> Top.job, at |-> "boundary", left |-> Top.left - 1]
  <2>2. e \in Frame /\ e.job = Top.job /\ e.at = "boundary" /\ stack' = WithTop(e)
    <3>1. Top.left > 0 /\ Top.left \in 0..MaxChunks
      BY <2>1, FrameFields DEF IInv, ChunksLeft
    <3>2. Top.left - 1 \in 0..MaxChunks
      BY <3>1, WorkerAssumption
    <3> QED BY <2>1, <3>2, FrameFields DEF Frame, Stages
  <2> HIDE DEF e
  <2>3. Top.job # Nobody => Target[Top.job] \in loaded
    BY <2>1 DEF IInv, WorkedSpecStaysLoaded
  <2>4. MenuAgrees' /\ ReadsWaitOneChunk'
    BY <2>1, <2>2, RetopMenu, ReadsWaitUnchanged
  <2> QED BY <1>1, <2>1, <2>2, <2>3, <2>4, RetopStep
<1> QED BY <1>2, <1>3, <1>4, <1>5, <1>6, <1>7, <1>8, <1>9, <1>10, <1>11, <1>12, <1>13
        DEF Next, Work

LEMMA AlwaysIInv == Spec => []IInv
BY InitIInv, NextIInv, PTL DEF Spec
-----------------------------------------------------------------------------
\* Queues, stack, callers, store and menu keep their types, and no queue
\* outgrows QUEUE_DEPTH: Handle::enqueue, Worker::serve, Worker::run.
THEOREM WorkerTypeCorrect == Spec => []TypeOK
<1>1. IInv => TypeOK
  BY DEF IInv
<1> QED BY <1>1, AlwaysIInv, PTL

\* Nothing but a read is ever served at a pause, and never inside a read:
\* Worker::next_at_pause and Pause::pause.
THEOREM PausesAlwaysNestOnce == Spec => []PausesNestOnce
<1>1. IInv => PausesNestOnce
  BY DEF IInv
<1> QED BY <1>1, AlwaysIInv, PTL

\* A read waits for at most one stretch of generative, background or
\* administrative work, however many are queued: Worker::serve and Pause::pause.
THEOREM ReadsAlwaysWaitOneChunk == Spec => []ReadsWaitOneChunk
<1>1. IInv => ReadsWaitOneChunk
  BY DEF IInv
<1> QED BY <1>1, AlwaysIInv, PTL

\* Nothing served at a pause unloads the spec of the job that is paused: why
\* registration and deletion wait in the generative queue.
THEOREM WorkedSpecAlwaysLoaded == Spec => []WorkedSpecStaysLoaded
<1>1. IInv => WorkedSpecStaysLoaded
  BY DEF IInv
<1> QED BY <1>1, AlwaysIInv, PTL

\* The menu every Handle reads says what the store holds, except while the
\* worker is publishing a change: the Register and Unregister arms of Worker::run.
THEOREM MenuAlwaysAgrees == Spec => []MenuAgrees
<1>1. IInv => MenuAgrees
  BY DEF IInv
<1> QED BY <1>1, AlwaysIInv, PTL
-----------------------------------------------------------------------------
(* Every job that is waited for is in one place.                           *)

InSystem == {"waiting", "late", "gone"}

\* No job is twice in a queue, twice on the stack or in both; those that are
\* in either are those somebody waits for or has stopped waiting for.
Placed ==
  /\ \A class \in Classes : \A i, j \in DOMAIN queue[class] :
       queue[class][i] = queue[class][j] => i = j
  /\ \A i, j \in DOMAIN stack :
       stack[i].job = stack[j].job /\ stack[i].job \in Callers => i = j
  /\ \A c \in Callers : ~(Queued(c) /\ c \in OnStack)
  /\ \A c \in Callers : caller[c] \in InSystem <=> Queued(c) \/ c \in OnStack

\* The same jobs stay in the same places.
LEMMA SamePlaces ==
  ASSUME Placed, UNCHANGED queue,
         DOMAIN stack' = DOMAIN stack,
         \A i \in DOMAIN stack : stack'[i].job = stack[i].job,
         \A c \in Callers : caller'[c] \in InSystem <=> caller[c] \in InSystem
  PROVE  Placed'
<1>1. OnStack' = OnStack /\ \A c : Queued(c)' <=> Queued(c)
  BY DEF OnStack, Queued, InQueue
<1> QED BY <1>1 DEF Placed

\* A job that is over leaves the only place it had, and its caller is idle.
LEMMA ReplyPlaces ==
  ASSUME TypeOK, Placed, stack # <<>>, Reply, UNCHANGED queue
  PROVE  Placed'
<1>1. /\ stack \in Seq(Frame) /\ Len(stack) \in Nat \ {0}
      /\ DOMAIN stack = 1..Len(stack) /\ Len(stack) \in DOMAIN stack
      /\ stack[Len(stack)] = Top /\ caller \in [Callers -> Phases]
  BY StackType DEF Top, TypeOK
<1>2. /\ DOMAIN stack' = 1..(Len(stack) - 1)
      /\ \A i \in DOMAIN stack' : i \in DOMAIN stack /\ stack'[i] = stack[i]
  BY <1>1, PopStack DEF Below, Reply
<1>3. \A c \in Callers : c \in OnStack' <=> c \in OnStack /\ c # Top.job
  <2>1. ASSUME NEW c \in Callers, c \in OnStack'
        PROVE  c \in OnStack /\ c # Top.job
    <3>1. PICK i \in DOMAIN stack' : stack'[i].job = c
      BY <2>1 DEF OnStack
    <3>2. i \in DOMAIN stack /\ stack[i].job = c /\ i # Len(stack)
      BY <1>1, <1>2, <3>1
    <3> QED BY <1>1, <3>2 DEF OnStack, Placed
  <2>2. ASSUME NEW c \in Callers, c \in OnStack, c # Top.job
        PROVE  c \in OnStack'
    <3>1. PICK i \in DOMAIN stack : stack[i].job = c
      BY <2>2 DEF OnStack
    <3>2. i \in DOMAIN stack'
      BY <1>1, <1>2, <2>2, <3>1
    <3> QED BY <1>2, <3>1, <3>2 DEF OnStack
  <2> QED BY <2>1, <2>2
<1>4. Top.job \in OnStack
  BY <1>1 DEF OnStack
<1>5. \A c \in Callers : Queued(c)' <=> Queued(c)
  BY DEF Queued, InQueue
<1>6. \A c \in Callers : caller'[c] = IF c = Top.job THEN "idle" ELSE caller[c]
  BY DEF Reply
<1>7. \A i, j \in DOMAIN stack' :
        stack'[i].job = stack'[j].job /\ stack'[i].job \in Callers => i = j
  BY <1>2 DEF Placed
<1>8. \A c \in Callers : caller'[c] \in InSystem <=> Queued(c)' \/ c \in OnStack'
  BY <1>3, <1>4, <1>5, <1>6 DEF Placed, InSystem
<1> QED BY <1>3, <1>5, <1>7, <1>8 DEF Placed

\* A job goes from the head of its queue to the top of the stack.
LEMMA TakePlaces ==
  ASSUME TypeOK, JobsInTheirClass, Placed,
         NEW class \in Classes, Take(class), UNCHANGED caller
  PROVE  Placed'
<1> PICK c \in Callers : c = Head(queue[class])
  BY Taken
<1> DEFINE n == Len(queue[class])
           top == Len(stack) + 1
<1>0. /\ c = queue[class][1] /\ 1 \in DOMAIN queue[class]
      /\ Len(stack) \in Nat /\ DOMAIN stack = 1..Len(stack) /\ DOMAIN stack' = 1..top
      /\ stack'[top] = [job |-> c, at |-> "begin", left |-> 0]
      /\ \A i \in DOMAIN stack : stack'[i] = stack[i]
      /\ n \in Nat \ {0} /\ DOMAIN queue[class] = 1..n /\ DOMAIN queue'[class] = 1..(n - 1)
      /\ \A i \in DOMAIN queue'[class] :
           i + 1 \in DOMAIN queue[class] /\ queue'[class][i] = queue[class][i + 1]
      /\ \A other \in Classes : other # class => queue'[other] = queue[other]
  BY Taken
<1>1. /\ top \in Nat \ {0} /\ DOMAIN stack = 1..(top - 1) /\ stack'[top].job = c
  BY <1>0
<1> HIDE DEF n, top
<1>2. Queued(c) /\ c \notin OnStack
  BY <1>0 DEF Queued, InQueue, Placed
<1>3. /\ \A i \in DOMAIN stack' : i = top \/ i \in DOMAIN stack
      /\ top \in DOMAIN stack' /\ DOMAIN stack \subseteq DOMAIN stack'
  BY <1>0, <1>1
<1>4. OnStack' = OnStack \cup {c}
  BY <1>0, <1>1, <1>3 DEF OnStack
<1>5. \A other \in Classes : \A i, j \in DOMAIN queue'[other] :
        queue'[other][i] = queue'[other][j] => i = j
  <2> SUFFICES ASSUME NEW other \in Classes,
                      NEW i \in DOMAIN queue'[other], NEW j \in DOMAIN queue'[other],
                      queue'[other][i] = queue'[other][j]
               PROVE  i = j
    OBVIOUS
  <2>1. CASE other = class
    <3>1. /\ i + 1 \in DOMAIN queue[class] /\ j + 1 \in DOMAIN queue[class]
          /\ queue[class][i + 1] = queue[class][j + 1]
      <4>1. /\ i \in DOMAIN queue'[class] /\ j \in DOMAIN queue'[class]
            /\ queue'[class][i] = queue'[class][j]
        BY <2>1
      <4> QED BY <1>0, <4>1
    <3>2. i + 1 = j + 1
      BY <3>1 DEF Placed
    <3>3. i \in 1..(n - 1) /\ j \in 1..(n - 1)
      BY <1>0, <2>1
    <3> QED BY <3>2, <3>3
  <2>2. CASE other # class
    BY <1>0, <2>2 DEF Placed
  <2> QED BY <2>1, <2>2
<1>6. \A i, j \in DOMAIN stack' :
        stack'[i].job = stack'[j].job /\ stack'[i].job \in Callers => i = j
  <2>1. \A i \in DOMAIN stack : stack[i].job # c
    BY <1>2 DEF OnStack
  <2> QED BY <1>0, <1>1, <1>3, <2>1 DEF Placed
<1>7. \A other \in Classes : \A d : d # c => (InQueue(d, other)' <=> InQueue(d, other))
  <2> SUFFICES ASSUME NEW other \in Classes, NEW d, d # c
               PROVE  InQueue(d, other)' <=> InQueue(d, other)
    OBVIOUS
  <2>1. CASE other = class
    <3>1. ASSUME InQueue(d, class)
          PROVE  InQueue(d, class)'
      <4>1. PICK i \in DOMAIN queue[class] : queue[class][i] = d
        BY <3>1 DEF InQueue
      <4>2. i # 1 /\ i \in 1..n
        BY <1>0, <4>1
      <4>3. i - 1 \in DOMAIN queue'[class] /\ (i - 1) + 1 = i
        BY <1>0, <4>2
      <4> QED BY <1>0, <4>1, <4>3 DEF InQueue
    <3>2. ASSUME InQueue(d, class)'
          PROVE  InQueue(d, class)
      BY <1>0, <3>2 DEF InQueue
    <3> QED BY <2>1, <3>1, <3>2
  <2>2. CASE other # class
    BY <1>0, <2>2 DEF InQueue
  <2> QED BY <2>1, <2>2
<1>8. \A d \in Callers : d # c => (Queued(d)' <=> Queued(d))
  BY <1>7 DEF Queued
<1>9. ~Queued(c)'
  <2>1. ASSUME NEW other \in Classes, InQueue(c, other)'
        PROVE  FALSE
    <3>1. CASE other = class
      <4>1. PICK i \in DOMAIN queue'[class] : queue'[class][i] = c
        BY <2>1, <3>1 DEF InQueue
      <4>2. i + 1 \in DOMAIN queue[class] /\ queue[class][i + 1] = queue[class][1]
        BY <1>0, <4>1
      <4>3. i + 1 = 1 /\ i \in 1..(n - 1)
        BY <1>0, <4>1, <4>2 DEF Placed
      <4> QED BY <1>0, <4>3
    <3>2. CASE other # class
      <4>1. InQueue(c, other) /\ InQueue(c, class)
        BY <1>0, <2>1, <3>2 DEF InQueue
      <4>2. ClassOf(Op[c]) = other /\ ClassOf(Op[c]) = class
        BY <4>1 DEF InQueue, JobsInTheirClass
      <4> QED BY <3>2, <4>2
    <3> QED BY <3>1, <3>2
  <2> QED BY <2>1 DEF Queued
<1>10. \A d \in Callers : ~(Queued(d)' /\ d \in OnStack')
  BY <1>4, <1>8, <1>9 DEF Placed
<1>11. \A d \in Callers : caller'[d] \in InSystem <=> Queued(d)' \/ d \in OnStack'
  BY <1>2, <1>4, <1>8 DEF Placed
<1> QED BY <1>5, <1>6, <1>10, <1>11 DEF Placed

\* A job joins the end of the queue of its class.
LEMMA EnqueuePlaces ==
  ASSUME TypeOK, Placed, NEW c \in Callers, Enqueue(c)
  PROVE  Placed'
<1> DEFINE class == ClassOf(Op[c])
           n == Len(queue[class]) + 1
<1>1. class \in Classes /\ queue[class] \in Seq(Callers)
  BY DEF ClassOf, Classes, TypeOK
<1>2. /\ queue' = [queue EXCEPT ![class] = Append(queue[class], c)]
      /\ queue \in [Classes -> Seq(Callers)] /\ caller \in [Callers -> Phases]
      /\ caller[c] = "admitted" /\ caller' = [caller EXCEPT ![c] = "waiting"]
      /\ UNCHANGED stack
  BY DEF Enqueue, TypeOK
<1>3. /\ n \in DOMAIN queue'[class] /\ queue'[class][n] = c
      /\ \A i \in DOMAIN queue[class] :
           i \in DOMAIN queue'[class] /\ queue'[class][i] = queue[class][i]
      /\ \A i \in DOMAIN queue'[class] : i = n \/ i \in DOMAIN queue[class]
      /\ \A other \in Classes : other # class => queue'[other] = queue[other]
  BY <1>1, <1>2, PushStack, LenProperties
<1> HIDE DEF class, n
<1>4. ~Queued(c) /\ c \notin OnStack
  BY <1>2 DEF Placed, InSystem
<1>5. \A i \in DOMAIN queue[class] : queue[class][i] # c
  BY <1>1, <1>4 DEF Queued, InQueue
<1>6. \A other \in Classes : \A i, j \in DOMAIN queue'[other] :
        queue'[other][i] = queue'[other][j] => i = j
  BY <1>3, <1>5 DEF Placed
<1>7. \A d \in Callers : Queued(d)' <=> Queued(d) \/ d = c
  <2>1. Queued(c)'
    BY <1>1, <1>3 DEF Queued, InQueue
  <2>2. \A d \in Callers, other \in Classes :
          InQueue(d, other)' => InQueue(d, other) \/ d = c
    BY <1>3 DEF InQueue
  <2>3. \A d \in Callers, other \in Classes : InQueue(d, other) => InQueue(d, other)'
    BY <1>3 DEF InQueue
  <2> QED BY <2>1, <2>2, <2>3 DEF Queued
<1>8. /\ OnStack' = OnStack
      /\ \A i, j \in DOMAIN stack' :
           stack'[i].job = stack'[j].job /\ stack'[i].job \in Callers => i = j
  BY <1>2 DEF OnStack, Placed
<1>9. \A d \in Callers : caller'[d] = IF d = c THEN "waiting" ELSE caller[d]
  BY <1>2
<1>10. /\ \A d \in Callers : ~(Queued(d)' /\ d \in OnStack')
       /\ \A d \in Callers : caller'[d] \in InSystem <=> Queued(d)' \/ d \in OnStack'
  BY <1>4, <1>7, <1>8, <1>9 DEF Placed, InSystem
<1> QED BY <1>6, <1>8, <1>10 DEF Placed

LEMMA InitPlaced == Init => Placed
<1> SUFFICES ASSUME Init PROVE Placed
  OBVIOUS
<1>1. /\ \A class \in Classes : DOMAIN queue[class] = {}
      /\ DOMAIN stack = {} /\ \A c \in Callers : caller[c] = "idle"
  BY DEF Init
<1>2. \A c \in Callers : ~Queued(c) /\ c \notin OnStack
  BY <1>1 DEF Queued, InQueue, OnStack
<1> QED BY <1>1, <1>2 DEF Placed, InSystem

LEMMA NextPlaced == IInv /\ Placed /\ [Next]_vars => Placed'
<1> SUFFICES ASSUME IInv, Placed, [Next]_vars PROVE Placed'
  OBVIOUS
<1>1. TypeOK /\ JobsInTheirClass /\ caller \in [Callers -> Phases]
  BY DEF IInv, TypeOK
<1>2. CASE Requests
  <2>1. PICK c \in Callers :
          Arrive(c) \/ Enqueue(c) \/ Overload(c) \/ Expire(c) \/ GiveUp(c)
    BY <1>2 DEF Requests, Submit
  <2>2. CASE Enqueue(c)
    BY <1>1, <2>2, EnqueuePlaces
  <2>3. CASE Arrive(c) \/ Overload(c) \/ Expire(c) \/ GiveUp(c)
    <3>1. /\ UNCHANGED <<queue, stack>>
          /\ \A d \in Callers : caller'[d] \in InSystem <=> caller[d] \in InSystem
      BY <1>1, <2>3 DEF Arrive, Overload, Expire, GiveUp, InSystem
    <3> QED BY <3>1, SamePlaces
  <2> QED BY <2>1, <2>2, <2>3
<1>3. CASE Stop \/ DropHandles \/ Exit \/ UNCHANGED vars
  <2>1. UNCHANGED <<queue, stack, caller>>
    BY <1>3 DEF Stop, DropHandles, Exit, vars
  <2> QED BY <2>1, SamePlaces
<1>4. CASE Abandon \/ Refuse \/ Confirm \/ ChunkFails \/ Finish
  <2>1. stack # <<>> /\ Reply /\ UNCHANGED queue
    BY <1>4 DEF Abandon, Refuse, Confirm, ChunkFails, Finish, At
  <2> QED BY <1>1, <2>1, ReplyPlaces
<1>5. CASE Pick \/ ServeAtPause
  <2>1. UNCHANGED caller /\ \E class \in Classes : Take(class)
    BY <1>5 DEF Pick, ServeAtPause, Classes
  <2> QED BY <1>1, <2>1, TakePlaces
<1>6. CASE PickBackground
  <2>1. /\ DOMAIN stack = {} /\ DOMAIN stack' = {1} /\ stack'[1].job = Nobody
        /\ UNCHANGED <<queue, caller>>
    BY <1>6 DEF PickBackground
  <2>2. OnStack = {} /\ OnStack' = {Nobody}
    BY <2>1 DEF OnStack
  <2>3. \A c \in Callers : Queued(c)' <=> Queued(c)
    BY <2>1 DEF Queued, InQueue
  <2> QED BY <2>1, <2>2, <2>3, WorkerAssumption DEF Placed
<1>7. CASE Begin \/ ChangeSpecs \/ Publish \/ NextChunk \/ EndChunk
  <2>1. stack # <<>> /\ UNCHANGED <<queue, caller>>
    BY <1>7 DEF Begin, ChangeSpecs, Publish, NextChunk, EndChunk, At
  <2>2. PICK at, left : stack' = WithTop([job |-> Top.job, at |-> at, left |-> left])
    BY <1>7, Zenon DEF Begin, ChangeSpecs, Publish, NextChunk, EndChunk
  <2>3. \A i \in DOMAIN stack : stack'[i].job = stack[i].job
    BY <2>1, <2>2 DEF WithTop, Top
  <2>4. DOMAIN stack' = DOMAIN stack
    BY <2>2 DEF WithTop
  <2> QED BY <2>1, <2>3, <2>4, SamePlaces
<1> QED BY <1>2, <1>3, <1>4, <1>5, <1>6, <1>7 DEF Next, Work

LEMMA AlwaysPlaced == Spec => []Placed
<1>1. Init => Placed
  BY InitPlaced
<1>2. IInv /\ Placed /\ [Next]_vars => Placed'
  BY NextPlaced
<1> QED BY <1>1, <1>2, AlwaysIInv, PTL DEF Spec

\* No request is lost between its queue and its reply, and none is served
\* twice: from Handle::enqueue on its job is in the queue of its class, then
\* on the worker thread's stack, paused or not, until it is answered.
THEOREM JobsAlwaysInOnePlace == Spec => []JobsInOnePlace
<1>1. ASSUME IInv, Placed
      PROVE  JobsInOnePlace
  <2> SUFFICES ASSUME NEW c \in Callers
               PROVE  Cardinality(Places(c)) = IF caller[c] \in InSystem THEN 1 ELSE 0
    BY DEF JobsInOnePlace, InSystem
  <2> DEFINE waits == {place \in Classes \X (1..QueueDepth) :
                         place[2] \in DOMAIN queue[place[1]] /\ queue[place[1]][place[2]] = c}
             works == {<<"stack", i>> : i \in {j \in DOMAIN stack : stack[j].job = c}}
  <2>1. Places(c) = waits \cup works
    BY DEF Places
  <2>2. CASE ~Queued(c)
    <3>1. waits = {}
      BY <2>2 DEF Queued, InQueue
    <3>2. CASE c \notin OnStack
      <4>1. works = {}
        BY <3>2 DEF OnStack
      <4> QED BY <2>1, <2>2, <3>1, <3>2, <4>1, <1>1, FS_EmptySet DEF Placed
    <3>3. CASE c \in OnStack
      <4>1. PICK i \in DOMAIN stack : stack[i].job = c
        BY <3>3 DEF OnStack
      <4>2. {j \in DOMAIN stack : stack[j].job = c} = {i}
        BY <1>1, <4>1 DEF Placed
      <4>3. works = {<<"stack", i>>}
        BY <4>2
      <4>4. Cardinality(Places(c)) = 1
        BY <2>1, <3>1, <4>3, FS_Singleton
      <4> QED BY <1>1, <3>3, <4>4 DEF Placed
    <3> QED BY <3>2, <3>3
  <2>3. CASE Queued(c)
    <3>0. PICK class \in Classes : InQueue(c, class)
      BY <2>3 DEF Queued
    <3>1. PICK i \in DOMAIN queue[class] : queue[class][i] = c
      BY <3>0 DEF InQueue
    <3>2. i \in 1..QueueDepth
      <4>1. queue[class] \in Seq(Callers) /\ Len(queue[class]) <= QueueDepth
        BY <1>1 DEF IInv, TypeOK
      <4>2. DOMAIN queue[class] = 1..Len(queue[class]) /\ Len(queue[class]) \in Nat
        BY <4>1, LenProperties
      <4> QED BY <3>1, <4>1, <4>2, WorkerAssumption
    <3>3. \A other \in Classes : \A j \in DOMAIN queue[other] :
            queue[other][j] = c => other = class /\ j = i
      <4>1. \A other \in Classes : \A j \in DOMAIN queue[other] :
              queue[other][j] = c => ClassOf(Op[c]) = other
        BY <1>1 DEF IInv, JobsInTheirClass
      <4> QED BY <1>1, <3>1, <4>1 DEF Placed
    <3>4. waits = {<<class, i>>}
      <4>1. <<class, i>> \in waits
        BY <3>1, <3>2
      <4>2. ASSUME NEW place \in waits
            PROVE  place = <<class, i>>
        BY <3>3
      <4> QED BY <4>1, <4>2
    <3>5. c \notin OnStack
      BY <1>1, <2>3 DEF Placed
    <3>6. works = {}
      BY <3>5 DEF OnStack
    <3>7. Cardinality(Places(c)) = 1
      BY <2>1, <3>4, <3>6, FS_Singleton
    <3> QED BY <1>1, <2>3, <3>7 DEF Placed
  <2> QED BY <2>2, <2>3
<1> QED BY <1>1, AlwaysIInv, AlwaysPlaced, PTL
=============================================================================
