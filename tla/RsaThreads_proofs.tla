------------------------- MODULE RsaThreads_proofs -------------------------
(***************************************************************************)
(* RSADATA has one owner at a time: a worker that started in time never    *)
(* touches a freed block, the timeout thread deletes only what nobody else *)
(* has, and nobody clears the queue a worker is serving.  For every number *)
(* of blocks and messages, and however late a worker starts.               *)
(*                                                                         *)
(* The argument rests on one fact.  rsa_free, which replaces the RSADATA   *)
(* of a context, is always followed by the context's deletion, and a       *)
(* deleted context receives nothing: so only the first block of a context  *)
(* ever has an event, a queue and a worker.                                *)
(***************************************************************************)
EXTENDS RsaThreads, SequenceTheorems, TLAPS

Freeing(pc) == pc \in {"free", "realloc"}

\* No block but the first is ever given a worker, an event or a message.
Alone == \A o \in Block \ {1} :
    /\ worker[o].pc = "none"
    /\ ~heap[o].event
    /\ heap[o].exit = 0
    /\ heap[o].queue = <<>>

\* The window thread works on no other, and the timeout thread frees no other.
Targets ==
    /\ win.pc # "idle" => win.p = 1
    /\ Freeing(timer.pc) => timer.p = 1

\* A context with another block is being deleted, is deleted or is cleared.
PdataOne == ctx.pdata # 1 =>
    /\ ctx.status # "live" \/ win.pc = "notify"
    /\ ~Freeing(win.pc)
    /\ ~Freeing(timer.pc)

\* The timeout thread clears only a deleted context, which the window thread
\* no longer enters.
TimerAlone == timer.pc \in {"free", "realloc", "delete"} =>
    ctx.status = "deleted" /\ win.pc \in {"idle", "join", "joined", "tail"}

\* The first block stays as long as its worker does.
Owns == worker[1].pc \notin {"none", "done"} => heap[1].event /\ heap[1].mem = "live"

\* It is told to free itself only while it is taken from its context.
ToldWhileFreeing == heap[1].exit = 2 /\ ctx.pdata = 1 => Freeing(win.pc) \/ Freeing(timer.pc)

\* Otherwise the block of a context is there.
PdataThere ==
    ctx.status # "gone" /\ ~Freeing(win.pc) /\ ~Freeing(timer.pc)
        => heap[ctx.pdata].mem = "live"

\* rsa_free_thread goes on only when the thread has ended.
JoinedIsDone == win.pc = "joined" => worker[1].pc = "done"

\* What is to be deleted has no thread.
DeletesIdle == timer.pc = "delete" => ~heap[ctx.pdata].event

\* The message a worker serves stays at the head of the queue.
Serves == worker[1].pc \in {"recv", "handle", "ask", "pop"} =>
    /\ worker[1].p = 1
    /\ heap[1].queue # <<>>
    /\ Head(heap[1].queue) = worker[1].msg

Ownership == /\ Alone /\ Targets /\ PdataOne /\ TimerAlone /\ Owns /\ ToldWhileFreeing
             /\ PdataThere /\ JoinedIsDone /\ DeletesIdle /\ Serves

-----------------------------------------------------------------------------
(* Types.                                                                  *)

LEMMA FreshDataType == FreshData \in Data /\ NoData \in Data
  <1>1. NoData \in Data
    BY DEF NoData, Data
  <1>. QED  BY <1>1 DEF FreshData, Data

LEMMA AfterType ==
    ASSUME NEW t \in AnyTime \cup Stepwise
    PROVE  After[t] \subseteq {3, 4, 5, 6}
  BY DEF After, AnyTime, Stepwise

LEMMA EditType ==
    ASSUME NEW d \in Data
    PROVE  /\ \A s \in {0, 2, 3, 4, 5, 6, 7} : \A b \in BOOLEAN :
                  [d EXCEPT !.state = s, !.time = b] \in Data
           /\ \A s \in {0, 2, 3, 4, 5, 6, 7} : [d EXCEPT !.state = s] \in Data
           /\ \A b \in BOOLEAN : [d EXCEPT !.signal = b] \in Data
           /\ [d EXCEPT !.exit = 1] \in Data /\ [d EXCEPT !.exit = 2] \in Data
           /\ [d EXCEPT !.mem = "freed"] \in Data
           /\ \A q \in Seq(AnyTime \cup Stepwise) : [d EXCEPT !.queue = q] \in Data
           /\ Rearm(d) \in Data
           /\ [d EXCEPT !.event = FALSE, !.signal = FALSE, !.exit = 0,
                         !.time = FALSE, !.queue = <<>>] \in Data
  <1>3. Rearm(d) \in Data
    BY DEF Rearm, Data
  <1>4. <<>> \in Seq(AnyTime \cup Stepwise)
    OBVIOUS
  <1>5. [d EXCEPT !.event = FALSE, !.signal = FALSE, !.exit = 0,
                         !.time = FALSE, !.queue = <<>>] \in Data
    <2> DEFINE d1 == [d EXCEPT !.event = FALSE, !.signal = FALSE]
               d2 == [d1 EXCEPT !.exit = 0, !.time = FALSE]
    <2>1. d1 \in Data
      BY DEF Data
    <2>2. d2 \in Data
      BY <2>1 DEF Data
    <2>3. [d2 EXCEPT !.queue = <<>>] \in Data
      BY <2>2, <1>4 DEF Data
    <2>. QED  BY <2>3
  <1>. QED  BY <1>3, <1>5 DEF Data

\* What a step may write into one block.
LEMMA UpdateType ==
    ASSUME TypeOK, NEW o, NEW d, o \in Block => d \in Data
    PROVE  [heap EXCEPT ![o] = d] \in [Block -> Data]
  BY DEF TypeOK

LEMMA HeapType ==
    ASSUME NEW o \in Block, TypeOK
    PROVE  /\ heap[o] \in Data
           /\ worker[o].pc \in {"none", "start", "wait", "check", "loop", "recv",
                               "handle", "ask", "pop", "done"}
           /\ worker[o].p \in Block \cup {Nil} /\ worker[o].q \in Block \cup {Nil}
           /\ worker[o].msg \in AnyTime \cup Stepwise
  BY DEF TypeOK, Thread

LEMMA ThreadType ==
    ASSUME NEW t \in Thread, NEW m \in AnyTime \cup Stepwise
    PROVE  [t EXCEPT !.pc = "recv", !.msg = m] \in Thread
  BY DEF Thread

LEMMA TypeInit == Init => TypeOK
  BY ConstantsOK, FreshDataType
  DEF Init, TypeOK, Block, Nil, AnyTime, Thread, Running

LEMMA TypeWindow == TypeOK /\ (Connect \/ Disconnect \/ Recv \/ Window) => TypeOK'
  <1> SUFFICES ASSUME TypeOK, Connect \/ Disconnect \/ Recv \/ Window PROVE TypeOK'
    OBVIOUS
  <1> USE DEF P, Running
  <1>1. CASE Connect
    <2>1. P \in Block /\ heap[P] \in Data
      BY <1>1 DEF Connect, Enter, TypeOK
    <2>2. [heap[P] EXCEPT !.state = 2, !.time = TRUE] \in Data
      BY <2>1, EditType
    <2>3. heap' \in [Block -> Data]
      BY <1>1, <2>2, UpdateType DEF Connect
    <2>. QED  BY <1>1, <2>3 DEF Connect, TypeOK
  <1>0. ASSUME NEW next \in {"idle", "tail"}, NEW d \in Data, BeginFree(next, d),
               ctx.status # "gone",
               UNCHANGED <<last, ctx, worker, timer>>, recv' \in 0 .. MaxRecv
        PROVE  TypeOK'
    <2>1. (IF d.event THEN [d EXCEPT !.exit = 2] ELSE d) \in Data
      <3>1. [d EXCEPT !.exit = 2] \in Data
        BY EditType
      <3>. QED  BY <3>1
    <2>2. heap' \in [Block -> Data]
      BY <1>0, <2>1, UpdateType DEF BeginFree
    <2>. QED  BY <1>0, <2>2 DEF BeginFree, TypeOK
  <1>2. CASE Disconnect
    <2>1. heap[P] \in Data /\ ctx.status # "gone"
      BY <1>2 DEF Disconnect, Enter, TypeOK
    <2>. QED  BY <1>0, <1>2, <2>1 DEF Disconnect, TypeOK
  <1>3. CASE Recv
    <2> PICK t \in Incoming : \/ RecvWrongStep(t) \/ RecvForWorker(t) \/ RecvTest(t)
                             \/ RecvUndecodable(t) \/ RecvDisconnect(t)
      BY <1>3 DEF Recv
    <2>0. /\ heap[P] \in Data /\ ctx.status = "live" /\ P \in Block
          /\ recv' \in 0 .. MaxRecv /\ timer' = timer
      BY ConstantsOK DEF RecvWrongStep, RecvForWorker, RecvTest, RecvUndecodable, RecvDisconnect,
         Arrives, Enter, TypeOK
    <2>1. CASE RecvWrongStep(t)
      <3>1. [heap[P] EXCEPT !.state = 0, !.time = FALSE] \in Data
        BY <2>0 DEF Data
      <3>. QED  BY <1>0, <2>0, <2>1, <3>1 DEF RecvWrongStep
    <2>2. CASE RecvForWorker(t)
      <3> DEFINE d == [heap[P] EXCEPT !.event = TRUE, !.signal = TRUE,
                                       !.queue = Append(@, t)]
      <3>1. d \in Data
        <4>1. Append(heap[P].queue, t) \in Seq(AnyTime \cup Stepwise)
          BY <2>0, <2>2 DEF RecvForWorker, Data
        <4>. QED  BY <2>0, <4>1 DEF Data
      <3>2. Rearm(d) \in Data
        BY <3>1, EditType
      <3>4. heap' \in [Block -> Data]
        BY <2>0, <2>2, <3>2, UpdateType DEF RecvForWorker
      <3>. QED  BY <2>0, <2>2, <3>4 DEF RecvForWorker, TypeOK, AnyTime, Nil, Thread
    <2>3. CASE RecvTest(t)
      <3> DEFINE d == [heap[P] EXCEPT !.state = 7, !.time = FALSE]
      <3>1. d \in Data
        BY <2>0, EditType
      <3>2. (IF d.event THEN [d EXCEPT !.exit = 1] ELSE [d EXCEPT !.queue = <<>>]) \in Data
        <4>1. <<>> \in Seq(AnyTime \cup Stepwise)
          OBVIOUS
        <4>2. [d EXCEPT !.exit = 1] \in Data /\ [d EXCEPT !.queue = <<>>] \in Data
          BY <3>1, <4>1, EditType
        <4>. QED  BY <4>2
      <3>3. heap' \in [Block -> Data]
        BY <2>3, <3>2, UpdateType DEF RecvTest
      <3>. QED  BY <2>0, <2>3, <3>3 DEF RecvTest, TypeOK
    <2>4. CASE RecvUndecodable(t)
      <3>1. [heap[P] EXCEPT !.state = 0, !.time = FALSE] \in Data
        BY <2>0, EditType
      <3>2. heap' \in [Block -> Data]
        BY <2>4, <3>1, UpdateType DEF RecvUndecodable, TypeOK
      <3>. QED  BY <2>0, <2>4, <3>2 DEF RecvUndecodable, TypeOK, Deleted
    <2>5. CASE RecvDisconnect(t)
      <3>1. [heap[P] EXCEPT !.state = 0] \in Data
        BY <2>0 DEF Data
      <3>. QED  BY <1>0, <2>0, <2>5, <3>1 DEF RecvDisconnect
    <2>. QED  BY <2>1, <2>2, <2>3, <2>4, <2>5
  <1>4. CASE Window
    <2>1. CASE FreeSignal
      <3>1. win.p \in Block => [heap[win.p] EXCEPT !.signal = TRUE] \in Data
        BY EditType, HeapType
      <3>2. heap' \in [Block -> Data]
        BY <2>1, <3>1, UpdateType DEF FreeSignal, SetEvent
      <3>. QED  BY <2>1, <3>2 DEF FreeSignal, TypeOK
    <2>2. CASE FreeAlloc
      <3>1. last + 1 \in Block /\ last' = last + 1
        BY <2>2, ConstantsOK DEF FreeAlloc, FreeReplaces, TypeOK, Block
      <3>2. heap' \in [Block -> Data]
        BY <2>2, FreshDataType, UpdateType DEF FreeAlloc, Alloc
      <3>. QED  BY <2>2, <3>1, <3>2 DEF FreeAlloc, FreeReplaces, TypeOK, Block, Nil
    <2>3. CASE Notify
      BY <2>3 DEF Notify, Deleted, TypeOK
    <2>4. CASE StopSignal
      <3>1. win.p \in Block => [heap[win.p] EXCEPT !.signal = TRUE] \in Data
        BY EditType, HeapType
      <3>2. heap' \in [Block -> Data]
        BY <2>4, <3>1, UpdateType DEF StopSignal, SetEvent
      <3>. QED  BY <2>4, <3>2 DEF StopSignal, TypeOK
    <2>5. CASE Joined
      BY <2>5 DEF Joined, TypeOK
    <2>6. CASE FreeThread
      <3>1. win.p \in Block =>
               [heap[win.p] EXCEPT !.event = FALSE, !.signal = FALSE, !.exit = 0,
                                   !.time = FALSE, !.queue = <<>>] \in Data
        BY EditType, HeapType
      <3>2. heap' \in [Block -> Data]
        BY <2>6, <3>1, UpdateType DEF FreeThread
      <3>. QED  BY <2>6, <3>2 DEF FreeThread, TypeOK
    <2>7. CASE TailOfRecv
      <3>1. win.p \in Block => Rearm(heap[win.p]) \in Data
        BY EditType, HeapType
      <3>3. heap' \in [Block -> Data]
        BY <2>7, <3>1, UpdateType DEF TailOfRecv
      <3>. QED  BY <2>7, <3>3 DEF TailOfRecv, TypeOK
    <2>. QED  BY <1>4, <2>1, <2>2, <2>3, <2>4, <2>5, <2>6, <2>7 DEF Window
  <1>. QED  BY <1>1, <1>2, <1>3, <1>4

LEMMA TypeWorker ==
    ASSUME TypeOK, NEW w \in Block, Worker(w) \/ Answer(w)
    PROVE  TypeOK'
  <1> USE DEF At, Goto, D
  <1> DEFINE p == worker[w].p
             q == worker[w].q
  <1>0. /\ worker[w].pc \in {"none", "start", "wait", "check", "loop", "recv",
                             "handle", "ask", "pop", "done"}
        /\ worker[w].msg \in AnyTime \cup Stepwise
        /\ p \in Block \cup {Nil} /\ q \in Block \cup {Nil}
        /\ p \in Block => heap[p] \in Data
        /\ q \in Block => heap[q] \in Data
    BY HeapType
  <1>a. ASSUME NEW s \in {0, 2, 3, 4, 5, 6, 7}, NEW b \in BOOLEAN
        PROVE  [heap EXCEPT ![q] = [@ EXCEPT !.state = s, !.time = b]] \in [Block -> Data]
    <2>1. q \in Block => [heap[q] EXCEPT !.state = s, !.time = b] \in Data
      BY <1>0, EditType
    <2>. QED  BY <2>1, UpdateType
  <1>b. ASSUME NEW qu \in Seq(AnyTime \cup Stepwise)
        PROVE  [heap EXCEPT ![p] = [@ EXCEPT !.queue = qu]] \in [Block -> Data]
    <2>1. p \in Block => [heap[p] EXCEPT !.queue = qu] \in Data
      BY <1>0, EditType
    <2>. QED  BY <2>1, UpdateType
  <1>c. ASSUME NEW pc \in {"wait", "check", "loop", "handle", "pop", "done"},
               worker' = [worker EXCEPT ![w].pc = pc], Running(w)
        PROVE  /\ worker' \in [Block -> Thread]
               /\ \A v \in Block : Running(v)' => worker'[v].p \in Block
    BY <1>c DEF TypeOK, Thread, Running
  <1>d. CASE Failed(w) /\ Running(w)
    <2>1. heap' \in [Block -> Data]
      BY <1>d, <1>a DEF Failed
    <2>2. /\ worker' \in [Block -> Thread]
          /\ \A v \in Block : Running(v)' => worker'[v].p \in Block
      BY <1>d, <1>c DEF Failed
    <2>. QED  BY <1>d, <2>1, <2>2 DEF Failed, Deleted, TypeOK
  <1>1. CASE WorkerStart(w)
    BY <1>1 DEF WorkerStart, TypeOK, Nil, Thread, Running
  <1>r. CASE worker[w].pc \notin {"none", "start", "done"}
    <2>0. Running(w) /\ p \in Block /\ p # Nil
      BY <1>r DEF Running, TypeOK, Nil, Block
    <2>. DEFINE WorkersOK == /\ worker' \in [Block -> Thread]
                             /\ \A v \in Block : Running(v)' => worker'[v].p \in Block
    <2>2. CASE WorkerWake(w)
      <3>1. [heap[p] EXCEPT !.signal = FALSE] \in Data
        BY <1>0, <2>0, EditType
      <3>2. heap' \in [Block -> Data]
        BY <2>2, <3>1, UpdateType DEF WorkerWake
      <3>3. WorkersOK
        BY <2>2, <2>0, <1>c DEF WorkerWake
      <3>. QED  BY <2>2, <3>2, <3>3 DEF WorkerWake, TypeOK
    <2>3. CASE WorkerCheck(w)
      <3>1. [heap[p] EXCEPT !.mem = "freed"] \in Data
        BY <1>0, <2>0, EditType
      <3>2. heap' \in [Block -> Data]
        BY <2>3, <3>1, UpdateType DEF WorkerCheck, TypeOK
      <3>3. WorkersOK
        BY <2>3, <2>0, <1>c DEF WorkerCheck
      <3>. QED  BY <2>3, <3>2, <3>3 DEF WorkerCheck, TypeOK
    <2>4. CASE WorkerLoop(w)
      <3>1. CASE heap[p].exit = 0 /\ heap[p].queue # <<>>
        <4>1. Head(heap[p].queue) \in AnyTime \cup Stepwise
          BY <3>1, <2>0, <1>0 DEF Data
        <4>a. [worker[w] EXCEPT !.pc = "recv", !.msg = Head(heap[p].queue)] \in Thread
          <5>1. worker[w] \in Thread
            BY DEF TypeOK
          <5>. QED  BY <4>1, <5>1, ThreadType
        <4>b. worker' = [worker EXCEPT ![w] =
                            [worker[w] EXCEPT !.pc = "recv", !.msg = Head(heap[p].queue)]]
          BY <2>4, <3>1 DEF WorkerLoop
        <4>c. worker' \in [Block -> Thread]
          BY <4>a, <4>b DEF TypeOK
        <4>d. \A v \in Block : worker'[v].p = worker[v].p /\ (v # w => worker'[v] = worker[v])
          BY <4>b DEF TypeOK, Thread
        <4>3. WorkersOK
          BY <2>0, <4>c, <4>d DEF TypeOK, Running
        <4>. QED  BY <2>4, <4>3 DEF WorkerLoop, TypeOK
      <3>2. CASE ~(heap[p].exit = 0 /\ heap[p].queue # <<>>)
        <4>1. WorkersOK
          BY <2>4, <3>2, <2>0, <1>c DEF WorkerLoop
        <4>. QED  BY <2>4, <4>1 DEF WorkerLoop, TypeOK
      <3>. QED  BY <3>1, <3>2
    <2>5. CASE WorkerFetch(w)
      <3>1. ctx.pdata \in Block \cup {Nil}
        BY DEF TypeOK
      <3>2. WorkersOK
        BY <2>5, <2>0, <3>1 DEF WorkerFetch, TypeOK, Thread, Running
      <3>. QED  BY <2>5, <3>2 DEF WorkerFetch, TypeOK
    <2>7. CASE WorkerPop(w)
      <3>1. heap[p].queue # <<>> => Tail(heap[p].queue) \in Seq(AnyTime \cup Stepwise)
        BY <1>0, <2>0 DEF Data
      <3>2. ASSUME heap[p].queue = <<>> PROVE heap' \in [Block -> Data]
        <4>1. heap' = heap
          BY <2>7, <3>2 DEF WorkerPop
        <4>. QED  BY <4>1 DEF TypeOK
      <3>a. ASSUME heap[p].queue # <<>> PROVE heap' \in [Block -> Data]
        <4>1. heap' = [heap EXCEPT ![p] = [@ EXCEPT !.queue = Tail(heap[p].queue)]]
          BY <2>0, <2>7, <3>a DEF WorkerPop
        <4>. QED  BY <3>1, <3>a, <4>1, <1>b
      <3>3. heap' \in [Block -> Data]
        BY <3>2, <3>a DEF TypeOK
      <3>4. WorkersOK
        BY <2>7, <2>0, <1>c DEF WorkerPop
      <3>. QED  BY <2>7, <3>3, <3>4 DEF WorkerPop, TypeOK
    <2>8. ASSUME NEW s \in After[worker[w].msg], heap' = Accepted(w, s), Goto(w, "pop"),
                 UNCHANGED <<last, ctx, win, timer, recv>>
          PROVE  TypeOK'
      <3>1. heap' \in [Block -> Data]
        BY <2>8, <1>0, <1>a, AfterType DEF Accepted
      <3>2. WorkersOK
        BY <2>8, <2>0, <1>c
      <3>. QED  BY <2>8, <3>1, <3>2 DEF TypeOK
    <2>9. CASE WorkerHandle(w)
      BY <2>9, <2>8, <1>d, <2>0 DEF WorkerHandle
    <2>10. CASE AnswerYes(w)
      <3>1. CASE heap[q].state = 0
        <4>1. <<>> \in Seq(AnyTime \cup Stepwise)
          OBVIOUS
        <4>2. heap' \in [Block -> Data]
          BY <2>10, <3>1, <4>1, <1>b DEF AnswerYes
        <4>3. WorkersOK
          BY <2>10, <3>1, <2>0, <1>c DEF AnswerYes
        <4>. QED  BY <2>10, <4>2, <4>3 DEF AnswerYes, TypeOK
      <3>2. CASE heap[q].state # 0
        BY <2>10, <3>2, <2>8 DEF AnswerYes
      <3>. QED  BY <3>1, <3>2
    <2>11. CASE AnswerNo(w)
      BY <2>11, <1>d, <2>0 DEF AnswerNo
    <2>. QED  BY <1>r, <2>2, <2>3, <2>4, <2>5, <2>7, <2>9, <2>10, <2>11
              DEF Worker, Answer, WorkerStart
  <1>. QED  BY <1>1, <1>r DEF Worker, Answer, WorkerWake, WorkerCheck, WorkerLoop,
            WorkerFetch, WorkerHandle, WorkerPop, AnswerYes, AnswerNo

LEMMA TypeTimer == TypeOK /\ (TimerExpire \/ Timer) => TypeOK'
  <1> SUFFICES ASSUME TypeOK, TimerExpire \/ Timer PROVE TypeOK'
    OBVIOUS
  <1> USE DEF P, Running
  <1>0. /\ ctx.status # "gone" => P \in Block
        /\ P \in Block => heap[P] \in Data
        /\ timer.p \in Block => heap[timer.p] \in Data
    BY HeapType DEF TypeOK
  <1>1. CASE TimerExpire
    BY <1>1 DEF TimerExpire, TypeOK
  <1>2. CASE TimerTimeout
    <2>1. timer.p \in Block => [heap[timer.p] EXCEPT !.state = 0, !.time = FALSE] \in Data
      BY <1>0, EditType
    <2>2. heap' \in [Block -> Data]
      BY <1>2, <2>1, UpdateType DEF TimerTimeout
    <2>. QED  BY <1>2, <2>2 DEF TimerTimeout, Deleted, TypeOK, Nil
  <1>3. CASE TimerFree
    <2>1. P \in Block => [heap[P] EXCEPT !.exit = 2] \in Data
      BY <1>0, EditType
    <2>2. heap' \in [Block -> Data]
      BY <1>3, <2>1, UpdateType DEF TimerFree, TypeOK
    <2>. QED  BY <1>3, <2>2 DEF TimerFree, TypeOK
  <1>4. CASE TimerSignal
    <2>1. timer.p \in Block => [heap[timer.p] EXCEPT !.signal = TRUE] \in Data
      BY <1>0, EditType
    <2>2. heap' \in [Block -> Data]
      BY <1>4, <2>1, UpdateType DEF TimerSignal, SetEvent
    <2>. QED  BY <1>4, <2>2 DEF TimerSignal, TypeOK
  <1>5. CASE TimerAlloc
    <2>1. last + 1 \in Block /\ last' = last + 1
      BY <1>5, ConstantsOK DEF TimerAlloc, FreeReplaces, TypeOK, Block
    <2>2. heap' \in [Block -> Data]
      BY <1>5, FreshDataType, UpdateType DEF TimerAlloc, Alloc
    <2>. QED  BY <1>5, <2>1, <2>2 DEF TimerAlloc, FreeReplaces, TypeOK, Block, Nil
  <1>6. CASE TimerDelete
    <2>1. P \in Block => [heap[P] EXCEPT !.mem = "freed"] \in Data
      BY <1>0, EditType
    <2>2. heap' \in [Block -> Data]
      BY <1>6, <2>1, UpdateType DEF TimerDelete
    <2>. QED  BY <1>6, <2>2 DEF TimerDelete, TypeOK, Nil
  <1>. QED  BY <1>1, <1>2, <1>3, <1>4, <1>5, <1>6 DEF Timer

LEMMA TypeNext == TypeOK /\ [Next]_vars => TypeOK'
  <1> SUFFICES ASSUME TypeOK, [Next]_vars PROVE TypeOK'
    OBVIOUS
  <1>1. CASE UNCHANGED vars
    BY <1>1 DEF vars, TypeOK, Running
  <1>2. CASE \E w \in Block : Worker(w) \/ Answer(w)
    BY <1>2, TypeWorker
  <1>. QED  BY <1>1, <1>2, TypeWindow, TypeTimer DEF Next

\* Every variable keeps its type: no state or pointer of the threads is one the
\* code has no name for.
THEOREM TypeCorrect == Spec => []TypeOK
  <1>1. Init => TypeOK
    BY TypeInit
  <1>2. TypeOK /\ [Next]_vars => TypeOK'
    BY TypeNext
  <1>. QED  BY <1>1, <1>2, PTL DEF Spec

-----------------------------------------------------------------------------
(* Ownership.                                                              *)

\* What says who has a block is as before; so is the queue, but for the
\* first block's.
SameOwner == \A o \in Block :
    /\ heap'[o].mem = heap[o].mem
    /\ heap'[o].event = heap[o].event
    /\ heap'[o].exit = heap[o].exit
    /\ o # 1 => heap'[o].queue = heap[o].queue

SameQueue == heap'[1].queue = heap[1].queue

LEMMA OneIsBlock == 1 \in Block
  BY ConstantsOK DEF Block

LEMMA EditKeepsOwner ==
    ASSUME TypeOK, NEW o, NEW d, heap' = [heap EXCEPT ![o] = d],
           o \in Block => /\ d.mem = heap[o].mem /\ d.event = heap[o].event
                          /\ d.exit = heap[o].exit /\ d.queue = heap[o].queue
    PROVE  SameOwner /\ SameQueue
  BY OneIsBlock DEF SameOwner, SameQueue, TypeOK

LEMMA SameHeapKeepsOwner == heap' = heap => SameOwner /\ SameQueue
  BY DEF SameOwner, SameQueue

\* What the threads write into a block that is not about its owner.
LEMMA EditFields ==
    ASSUME TypeOK, NEW o
    PROVE  /\ \A s, b : heap' = [heap EXCEPT ![o] = [@ EXCEPT !.state = s, !.time = b]]
                            => SameOwner /\ SameQueue
           /\ \A b : heap' = [heap EXCEPT ![o] = [@ EXCEPT !.signal = b]]
                            => SameOwner /\ SameQueue
           /\ heap' = [heap EXCEPT ![o] = Rearm(@)] => SameOwner /\ SameQueue
           /\ \A s : heap' = [heap EXCEPT ![o] = [@ EXCEPT !.state = s]]
                            => SameOwner /\ SameQueue
  <1>1. o \in Block => heap[o] \in Data
    BY DEF TypeOK
  <1>2. ASSUME NEW s, NEW b, heap' = [heap EXCEPT ![o] = [@ EXCEPT !.state = s, !.time = b]]
        PROVE  SameOwner /\ SameQueue
    <2> DEFINE d == [heap[o] EXCEPT !.state = s, !.time = b]
    <2>1. o \in Block => /\ d.mem = heap[o].mem /\ d.event = heap[o].event
                         /\ d.exit = heap[o].exit /\ d.queue = heap[o].queue
      BY <1>1 DEF Data
    <2>2. heap' = [heap EXCEPT ![o] = d]
      BY <1>2
    <2> HIDE DEF d
    <2>. QED  BY <2>1, <2>2, EditKeepsOwner
  <1>3. ASSUME NEW b, heap' = [heap EXCEPT ![o] = [@ EXCEPT !.signal = b]]
        PROVE  SameOwner /\ SameQueue
    <2> DEFINE d == [heap[o] EXCEPT !.signal = b]
    <2>1. o \in Block => /\ d.mem = heap[o].mem /\ d.event = heap[o].event
                         /\ d.exit = heap[o].exit /\ d.queue = heap[o].queue
      BY <1>1 DEF Data
    <2>2. heap' = [heap EXCEPT ![o] = d]
      BY <1>3
    <2> HIDE DEF d
    <2>. QED  BY <2>1, <2>2, EditKeepsOwner
  <1>4. ASSUME heap' = [heap EXCEPT ![o] = Rearm(@)] PROVE SameOwner /\ SameQueue
    <2> DEFINE d == Rearm(heap[o])
    <2>1. o \in Block => /\ d.mem = heap[o].mem /\ d.event = heap[o].event
                         /\ d.exit = heap[o].exit /\ d.queue = heap[o].queue
      BY <1>1 DEF Rearm, Data
    <2>2. heap' = [heap EXCEPT ![o] = d]
      BY <1>4
    <2> HIDE DEF d
    <2>. QED  BY <2>1, <2>2, EditKeepsOwner
  <1>5. ASSUME NEW s, heap' = [heap EXCEPT ![o] = [@ EXCEPT !.state = s]]
        PROVE  SameOwner /\ SameQueue
    <2> DEFINE d == [heap[o] EXCEPT !.state = s]
    <2>1. o \in Block => /\ d.mem = heap[o].mem /\ d.event = heap[o].event
                         /\ d.exit = heap[o].exit /\ d.queue = heap[o].queue
      BY <1>1 DEF Data
    <2>2. heap' = [heap EXCEPT ![o] = d]
      BY <1>5
    <2> HIDE DEF d
    <2>. QED  BY <2>1, <2>2, EditKeepsOwner
  <1>. QED  BY <1>2, <1>3, <1>4, <1>5

LEMMA DeletedContext ==
    ASSUME TypeOK, ctx' = ctx \/ ctx' = Deleted
    PROVE  /\ ctx'.pdata = ctx.pdata
           /\ ctx'.status = "gone" <=> ctx.status = "gone"
           /\ ctx.status # "live" => ctx'.status = ctx.status
           /\ ctx'.status = "live" => ctx.status = "live"
  BY DEF Deleted, TypeOK

\* A step that leaves the owners alone and moves the window and the timeout
\* thread nowhere keeps Ownership if the worker still has its message.
LEMMA QuietStep ==
    ASSUME TypeOK, Ownership, SameOwner, Serves',
           UNCHANGED win, timer' = timer \/ timer'.pc \in {"idle", "expired"},
           ~Freeing(timer.pc) \/ timer' = timer,
           ctx' = ctx \/ ctx' = Deleted,
           \A o \in Block \ {1} : worker'[o].pc = "none",
           worker[1].pc \in {"none", "done"} => worker'[1].pc = worker[1].pc
    PROVE  Ownership'
  <1>1. /\ ctx'.pdata = ctx.pdata
        /\ ctx'.status = "gone" <=> ctx.status = "gone"
        /\ ctx.status # "live" => ctx'.status = ctx.status
        /\ ctx'.status = "live" => ctx.status = "live"
    BY DeletedContext
  <1>2. Alone'
    BY DEF Ownership, Alone, SameOwner
  <1>3. Targets' /\ PdataOne' /\ TimerAlone'
    BY <1>1 DEF Ownership, Targets, PdataOne, TimerAlone, Freeing
  <1>4. Owns' /\ JoinedIsDone'
    BY OneIsBlock DEF Ownership, Owns, JoinedIsDone, SameOwner
  <1>5. ToldWhileFreeing'
    BY <1>1, OneIsBlock DEF Ownership, ToldWhileFreeing, SameOwner, Freeing
  <1>6. PdataThere'
    <2>1. ctx.status # "gone" => heap'[ctx.pdata].mem = heap[ctx.pdata].mem
      BY DEF SameOwner, TypeOK
    <2>. QED  BY <1>1, <2>1 DEF Ownership, PdataThere, Freeing
  <1>7. DeletesIdle'
    <2>1. timer'.pc = "delete" => timer.pc = "delete" /\ ctx.pdata \in Block
      BY DEF Ownership, TimerAlone, TypeOK
    <2>. QED  BY <1>1, <2>1 DEF Ownership, DeletesIdle, SameOwner
  <1>. QED  BY <1>2, <1>3, <1>4, <1>5, <1>6, <1>7 DEF Ownership

LEMMA OwnershipWorker ==
    ASSUME TypeOK, Ownership, NEW w \in Block, Worker(w) \/ Answer(w)
    PROVE  Ownership'
  <1> USE DEF At, Goto, D
  <1> DEFINE p == worker[1].p
             q == worker[1].q
  <1>1. w = 1
    <2>1. Worker(w) => worker[w].pc # "none"
      <3>1. WorkerStart(w) \/ WorkerWake(w) => worker[w].pc # "none"
        BY DEF WorkerStart, WorkerWake
      <3>2. WorkerCheck(w) \/ WorkerLoop(w) => worker[w].pc # "none"
        BY DEF WorkerCheck, WorkerLoop
      <3>3. WorkerFetch(w) \/ WorkerHandle(w) => worker[w].pc # "none"
        BY DEF WorkerFetch, WorkerHandle
      <3>4. WorkerPop(w) => worker[w].pc # "none"
        BY DEF WorkerPop
      <3>. QED  BY <3>1, <3>2, <3>3, <3>4 DEF Worker
    <2>2. Answer(w) => worker[w].pc # "none"
      BY DEF Answer, AnswerYes, AnswerNo
    <2>3. \A o \in Block : worker[o].pc # "none" => o = 1
      BY DEF Ownership, Alone
    <2>. QED  BY <2>1, <2>2, <2>3
  <1>2. 1 \in Block /\ heap[1] \in Data
    BY OneIsBlock DEF TypeOK
  <1>3. Running(1) => p \in Block /\ heap[p] \in Data
    BY <1>2 DEF TypeOK
  <1>t. ASSUME NEW pc, worker' = [worker EXCEPT ![1].pc = pc]
        PROVE  /\ \A o \in Block \ {1} : worker'[o] = worker[o]
               /\ worker'[1].pc = pc /\ worker'[1].p = p /\ worker'[1].msg = worker[1].msg
    BY <1>t, <1>2 DEF TypeOK, Thread
  <1>n. \A o \in Block \ {1} : worker'[o] = worker[o] => worker'[o].pc = "none"
    BY DEF Ownership, Alone
  <1>e. ASSUME SameOwner, NEW pc, worker' = [worker EXCEPT ![1].pc = pc],
               UNCHANGED <<win, timer>>, ctx' = ctx \/ ctx' = Deleted,
               worker[1].pc \notin {"none", "done"},
               pc \in {"recv", "handle", "ask", "pop"} =>
                  SameQueue /\ worker[1].pc \in {"recv", "handle", "ask", "pop"}
        PROVE  Ownership'
    <2>1. Serves'
      BY <1>e, <1>t DEF Ownership, Serves, SameQueue
    <2>. QED  BY <1>e, <1>t, <1>n, <2>1, QuietStep
  <1>4. CASE WorkerStart(1)
    <2>1. /\ \A o \in Block \ {1} : worker'[o] = worker[o]
          /\ worker'[1].pc \in {"done", "wait"} /\ worker[1].pc = "start"
      BY <1>4, <1>2 DEF WorkerStart, TypeOK, Thread
    <2>2. Serves'
      BY <2>1 DEF Serves
    <2>. QED  BY <1>4, <2>1, <2>2, <1>n, SameHeapKeepsOwner, QuietStep DEF WorkerStart
  <1>5. CASE WorkerWake(1)
    <2>1. SameOwner
      BY <1>5, EditFields DEF WorkerWake
    <2>. QED  BY <1>5, <2>1, <1>e DEF WorkerWake
  <1>6. CASE WorkerCheck(1)
    <2>0. p \in Block /\ heap[p] \in Data
      BY <1>3, <1>6 DEF WorkerCheck, Running
    <2>1. CASE ~Frees(heap[p])
      <3>1. heap' = heap
        BY <1>6, <2>1 DEF WorkerCheck
      <3>. QED  BY <1>6, <3>1, <1>e, SameHeapKeepsOwner DEF WorkerCheck
    <2>2. CASE Frees(heap[p])
      \* exit is 2 in the first block only, and while that is being replaced
      <3>1. p = 1
        BY <2>0, <2>2 DEF Frees, Ownership, Alone
      <3>2. heap' = [heap EXCEPT ![1] = [heap[1] EXCEPT !.mem = "freed"]]
        BY <1>6, <2>2, <3>1 DEF WorkerCheck
      <3>3. /\ \A o \in Block \ {1} : heap'[o] = heap[o]
            /\ heap'[1].event = heap[1].event /\ heap'[1].exit = heap[1].exit
        BY <3>2, <1>2 DEF TypeOK, Data
      <3>a. worker' = [worker EXCEPT ![1].pc = "done"] /\ UNCHANGED <<last, ctx, win, timer, recv>>
        BY <1>6, <2>2 DEF WorkerCheck, Frees
      <3>4. /\ \A o \in Block \ {1} : worker'[o] = worker[o]
            /\ worker'[1].pc = "done" /\ UNCHANGED <<last, ctx, win, timer, recv>>
        BY <3>a, <1>t
      <3>5. Alone'
        BY <3>3, <3>4 DEF Ownership, Alone
      <3>6. Targets' /\ PdataOne' /\ TimerAlone' /\ Owns' /\ JoinedIsDone' /\ Serves'
        BY <3>4 DEF Ownership, Targets, PdataOne, TimerAlone, Owns, JoinedIsDone, Serves
      <3>7. ToldWhileFreeing'
        BY <3>3, <3>4 DEF Ownership, ToldWhileFreeing
      <3>8. PdataThere'
        <4>1. ctx.pdata = 1 => Freeing(win.pc) \/ Freeing(timer.pc)
          BY <2>2, <3>1 DEF Frees, Ownership, ToldWhileFreeing
        <4>2. ctx.status # "gone" => ctx.pdata \in Block
          BY DEF TypeOK
        <4>. QED  BY <3>3, <3>4, <4>1, <4>2 DEF Ownership, PdataThere
      <3>9. DeletesIdle'
        <4>1. timer.pc = "delete" => ctx.pdata \in Block
          BY DEF Ownership, TimerAlone, TypeOK
        <4>. QED  BY <3>3, <3>4, <4>1 DEF Ownership, DeletesIdle
      <3>. QED  BY <3>5, <3>6, <3>7, <3>8, <3>9 DEF Ownership
    <2>. QED  BY <2>1, <2>2
  <1>7. CASE WorkerLoop(1)
    <2>0. p \in Block /\ worker[1].pc = "loop"
      BY <1>3, <1>7 DEF WorkerLoop, Running
    <2>1. CASE heap[p].exit = 0 /\ heap[p].queue # <<>>
      <3>1. p = 1
        BY <2>0, <2>1 DEF Ownership, Alone
      <3>2. /\ \A o \in Block \ {1} : worker'[o] = worker[o]
            /\ worker'[1].pc = "recv" /\ worker'[1].p = 1
            /\ worker'[1].msg = Head(heap[1].queue)
        BY <1>7, <1>2, <2>1, <3>1 DEF WorkerLoop, TypeOK, Thread
      <3>3. Serves'
        BY <1>7, <2>1, <3>1, <3>2 DEF Serves, WorkerLoop
      <3>. QED  BY <1>7, <2>0, <3>2, <3>3, <1>n, SameHeapKeepsOwner, QuietStep DEF WorkerLoop
    <2>2. CASE ~(heap[p].exit = 0 /\ heap[p].queue # <<>>)
      BY <1>7, <2>0, <2>2, <1>e, SameHeapKeepsOwner DEF WorkerLoop
    <2>. QED  BY <2>1, <2>2
  <1>8. CASE WorkerFetch(1)
    <2>1. /\ \A o \in Block \ {1} : worker'[o] = worker[o]
          /\ worker'[1].pc \in {"pop", "ask", "handle"} /\ worker[1].pc = "recv"
          /\ worker'[1].p = p /\ worker'[1].msg = worker[1].msg
      BY <1>8, <1>2 DEF WorkerFetch, TypeOK, Thread
    <2>2. Serves'
      BY <1>8, <2>1 DEF Ownership, Serves, WorkerFetch
    <2>. QED  BY <1>8, <2>1, <2>2, <1>n, SameHeapKeepsOwner, QuietStep DEF WorkerFetch
  <1>9. ASSUME NEW s, NEW b, heap' = [heap EXCEPT ![q] = [@ EXCEPT !.state = s, !.time = b]],
               worker' = [worker EXCEPT ![1].pc = "pop"], UNCHANGED <<win, timer>>,
               ctx' = ctx \/ ctx' = Deleted, worker[1].pc \in {"handle", "ask"}
        PROVE  Ownership'
    <2>1. SameOwner /\ SameQueue
      BY <1>9, EditFields
    <2>. QED  BY <1>9, <2>1, <1>e
  <1>10. CASE WorkerHandle(1)
    BY <1>10, <1>9 DEF WorkerHandle, Failed, Accepted
  <1>11. CASE AnswerNo(1)
    BY <1>11, <1>9 DEF AnswerNo, Failed
  <1>12. ASSUME NEW qu, heap' = [heap EXCEPT ![1] = [@ EXCEPT !.queue = qu]]
         PROVE  SameOwner
    <2>1. /\ \A o \in Block \ {1} : heap'[o] = heap[o]
          /\ heap'[1] = [heap[1] EXCEPT !.queue = qu]
      BY <1>2, <1>12 DEF TypeOK
    <2>. QED  BY <2>1, <1>2 DEF SameOwner, Data
  <1>13. CASE AnswerYes(1)
    <2>1. CASE heap[q].state = 0
      <3>1. p = 1
        BY <1>13 DEF AnswerYes, Ownership, Serves
      <3>2. SameOwner
        BY <1>13, <2>1, <3>1, <1>12 DEF AnswerYes
      <3>. QED  BY <1>13, <2>1, <3>2, <1>e DEF AnswerYes
    <2>2. CASE heap[q].state # 0
      BY <1>13, <2>2, <1>9 DEF AnswerYes, Accepted
    <2>. QED  BY <2>1, <2>2
  <1>14. CASE WorkerPop(1)
    <2>1. p = 1
      BY <1>14 DEF WorkerPop, Ownership, Serves
    <2>2. SameOwner
      <3>1. CASE heap[1].queue = <<>>
        BY <1>14, <2>1, <3>1, SameHeapKeepsOwner DEF WorkerPop
      <3>2. CASE heap[1].queue # <<>>
        BY <1>14, <2>1, <3>2, <1>12 DEF WorkerPop
      <3>. QED  BY <3>1, <3>2
    <2>. QED  BY <1>14, <2>2, <1>e DEF WorkerPop
  <1>. QED  BY <1>1, <1>4, <1>5, <1>6, <1>7, <1>8, <1>10, <1>11, <1>13, <1>14
            DEF Worker, Answer

\* A step of the window thread that leaves the owners alone, begins no rsa_free
\* and replaces no block.
LEMMA WindowMoves ==
    ASSUME TypeOK, Ownership, SameOwner, SameQueue, UNCHANGED <<worker, timer>>,
           ctx' = ctx \/ ctx' = Deleted,
           win'.pc # "idle" => win'.p = 1,
           Freeing(win.pc) <=> Freeing(win'.pc),
           win.pc = "notify" => ctx'.status # "live",
           timer.pc \in {"free", "realloc", "delete"} =>
               win'.pc \in {"idle", "join", "joined", "tail"},
           win'.pc = "joined" => worker[1].pc = "done"
    PROVE  Ownership'
  <1>1. /\ ctx'.pdata = ctx.pdata
        /\ ctx'.status = "gone" <=> ctx.status = "gone"
        /\ ctx.status # "live" => ctx'.status = ctx.status
        /\ ctx'.status = "live" => ctx.status = "live"
    BY DeletedContext
  <1>2. Alone' /\ Owns' /\ Serves'
    BY OneIsBlock DEF Ownership, Alone, Owns, Serves, SameOwner, SameQueue
  <1>3. Targets' /\ PdataOne' /\ TimerAlone' /\ JoinedIsDone'
    BY <1>1 DEF Ownership, Targets, PdataOne, TimerAlone, JoinedIsDone
  <1>5. ToldWhileFreeing'
    BY <1>1, OneIsBlock DEF Ownership, ToldWhileFreeing, SameOwner
  <1>6. PdataThere'
    <2>1. ctx.status # "gone" => heap'[ctx.pdata].mem = heap[ctx.pdata].mem
      BY DEF SameOwner, TypeOK
    <2>. QED  BY <1>1, <2>1 DEF Ownership, PdataThere
  <1>7. DeletesIdle'
    <2>1. timer.pc = "delete" => ctx.pdata \in Block
      BY DEF Ownership, TimerAlone, TypeOK
    <2>. QED  BY <1>1, <2>1 DEF Ownership, DeletesIdle, SameOwner
  <1>. QED  BY <1>2, <1>3, <1>5, <1>6, <1>7 DEF Ownership

\* What the window thread finds when it enters the context: the first block,
\* which is there, and the timeout thread elsewhere.
LEMMA Entered ==
    ASSUME TypeOK, Ownership, Enter
    PROVE  /\ P = 1 /\ heap[1].mem = "live" /\ heap[1] \in Data
           /\ timer.pc \in {"idle", "expired"}
           /\ heap[1].exit # 2
           /\ ~heap[1].event => worker[1].pc \in {"none", "done"}
  <1>1. timer.pc \in {"idle", "expired"}
    BY DEF Enter, Ownership, TimerAlone, TypeOK
  <1>2. P = 1
    BY DEF Enter, Ownership, PdataOne, P
  <1>3. heap[1].mem = "live" /\ heap[1].exit # 2
    BY <1>1, <1>2 DEF Enter, Ownership, PdataThere, ToldWhileFreeing, P, Freeing
  <1>4. ~heap[1].event => worker[1].pc \in {"none", "done"}
    BY DEF Ownership, Owns
  <1>5. heap[1] \in Data
    BY OneIsBlock DEF TypeOK
  <1>. QED  BY <1>1, <1>2, <1>3, <1>4, <1>5

\* A step of the window thread that enters the context, keeps the block in its
\* place and changes only that block.
LEMMA EnteredStep ==
    ASSUME TypeOK, Ownership, Enter, NEW d, heap' = [heap EXCEPT ![1] = d],
           UNCHANGED <<ctx, timer>>,
           d.mem = "live",
           win'.pc # "idle" => win'.p = 1,
           win'.pc \in {"idle", "free", "notify", "stop", "tail"},
           d.exit = 2 => win'.pc = "free",
           \A o \in Block \ {1} : worker'[o].pc = "none",
           worker'[1].pc \notin {"none", "done"} => d.event,
           worker'[1].pc \in {"recv", "handle", "ask", "pop"} =>
               /\ worker'[1] = worker[1]
               /\ d.queue # <<>>
               /\ heap[1].queue # <<>> => Head(d.queue) = Head(heap[1].queue)
    PROVE  Ownership'
  <1>1. /\ P = 1 /\ heap[1].mem = "live" /\ timer.pc \in {"idle", "expired"}
    BY Entered
  <1>2. heap'[1] = d /\ \A o \in Block \ {1} : heap'[o] = heap[o]
    BY OneIsBlock DEF TypeOK
  <1>3. Alone'
    BY <1>2 DEF Ownership, Alone
  <1>4. Targets' /\ PdataOne' /\ TimerAlone' /\ JoinedIsDone' /\ DeletesIdle'
    BY <1>1 DEF Targets, PdataOne, TimerAlone, JoinedIsDone, DeletesIdle, Freeing, P
  <1>5. Owns' /\ ToldWhileFreeing' /\ PdataThere'
    BY <1>1, <1>2 DEF Owns, ToldWhileFreeing, PdataThere, Freeing, P
  <1>6. Serves'
    BY <1>2 DEF Ownership, Serves
  <1>. QED  BY <1>3, <1>4, <1>5, <1>6 DEF Ownership

LEMMA OwnershipWindow ==
    ASSUME TypeOK, Ownership, Connect \/ Disconnect \/ Recv \/ Window
    PROVE  Ownership'
  <1>0. /\ 1 \in Block
        /\ \A o \in Block \ {1} : worker[o].pc = "none"
        /\ worker[1].pc \in {"recv", "handle", "ask", "pop"} => heap[1].queue # <<>>
        /\ worker[1].pc \notin {"none", "done"} => heap[1].event
    BY OneIsBlock DEF Ownership, Alone, Serves, Owns
  <1>1. CASE Connect
    <2>1. SameOwner /\ SameQueue
      BY <1>1, EditFields DEF Connect
    <2>2. Serves'
      BY <1>1, <2>1 DEF Connect, Ownership, Serves, SameQueue
    <2>. QED  BY <1>0, <1>1, <2>1, <2>2, QuietStep DEF Connect
  <1>2. ASSUME NEW next \in {"idle", "tail"}, NEW d, Enter, BeginFree(next, d),
               UNCHANGED <<ctx, worker, timer>>, d \in Data,
               d.mem = heap[1].mem, d.event = heap[1].event, d.exit = heap[1].exit,
               d.queue = heap[1].queue
        PROVE  Ownership'
    <2>1. P = 1 /\ heap[1].mem = "live" /\ heap[1].exit # 2
      BY <1>2, Entered
    <2> DEFINE e == IF d.event THEN [d EXCEPT !.exit = 2] ELSE d
    <2>2. /\ e.mem = "live" /\ e.event = heap[1].event /\ e.queue = heap[1].queue
          /\ e.exit = 2 <=> d.event
      BY <1>2, <2>1 DEF Data
    <2>3. heap' = [heap EXCEPT ![1] = e]
      BY <1>2, <2>1 DEF BeginFree
    <2>4. win'.pc = (IF d.event THEN "free" ELSE "notify") /\ win'.p = 1
      BY <1>2, <2>1 DEF BeginFree
    <2> HIDE DEF e
    <2>. QED  BY <1>0, <1>2, <2>2, <2>3, <2>4, EnteredStep
  <1>3. CASE Disconnect
    <2>1. Enter /\ P = 1 /\ heap[1] \in Data
      BY <1>3, Entered DEF Disconnect
    <2>. QED  BY <1>2, <1>3, <2>1 DEF Disconnect
  <1>4. CASE Recv
    <2> PICK t \in Incoming : \/ RecvWrongStep(t) \/ RecvForWorker(t) \/ RecvTest(t)
                             \/ RecvUndecodable(t) \/ RecvDisconnect(t)
      BY <1>4 DEF Recv
    <2>0. Enter /\ timer' = timer
      BY DEF RecvWrongStep, RecvForWorker, RecvTest, RecvUndecodable, RecvDisconnect, Arrives
    <2>e. /\ P = 1 /\ heap[1].mem = "live" /\ heap[1] \in Data
          /\ heap[1].exit # 2
          /\ ~heap[1].event => worker[1].pc \in {"none", "done"}
      BY <2>0, Entered
    <2>1. CASE RecvWrongStep(t)
      <3> DEFINE d == [heap[1] EXCEPT !.state = 0, !.time = FALSE]
      <3>1. /\ d \in Data /\ d.mem = heap[1].mem /\ d.event = heap[1].event
            /\ d.exit = heap[1].exit /\ d.queue = heap[1].queue
        BY <2>e DEF Data
      <3>2. BeginFree("idle", d) /\ UNCHANGED <<ctx, worker>>
        BY <2>1, <2>e DEF RecvWrongStep
      <3> HIDE DEF d
      <3>. QED  BY <1>2, <2>0, <3>1, <3>2
    <2>2. CASE RecvForWorker(t)
      <3> DEFINE c == [heap[1] EXCEPT !.event = TRUE, !.signal = TRUE, !.queue = Append(@, t)]
                 d == Rearm(c)
      <3>1. t \in AnyTime \cup Stepwise /\ heap[1].queue \in Seq(AnyTime \cup Stepwise)
        BY <2>2, <2>e DEF RecvForWorker, Data
      <3>2. /\ Append(heap[1].queue, t) \in Seq(AnyTime \cup Stepwise)
            /\ Append(heap[1].queue, t) # <<>>
            /\ heap[1].queue # <<>> => Head(Append(heap[1].queue, t)) = Head(heap[1].queue)
        <4> DEFINE S == AnyTime \cup Stepwise
                   q == heap[1].queue
        <4> HIDE DEF S, q
        <4>1. q \in Seq(S) /\ t \in S
          BY <3>1 DEF S, q
        <4>2. /\ Append(q, t) \in Seq(S) /\ Append(q, t) # <<>>
              /\ \A i \in 1 .. Len(q) : Append(q, t)[i] = q[i]
          BY <4>1, AppendProperties
        <4>3. q # <<>> => 1 \in 1 .. Len(q)
          BY <4>1
        <4>4. q # <<>> => Head(Append(q, t)) = Head(q)
          BY <4>1, <4>2, <4>3
        <4>. QED  BY <4>2, <4>4 DEF S, q
      <3>3. c \in Data /\ c.mem = "live" /\ c.event /\ c.exit = heap[1].exit
            /\ c.queue = Append(heap[1].queue, t)
        BY <2>e, <3>2 DEF Data
      <3>4. d.mem = "live" /\ d.event /\ d.exit = heap[1].exit
            /\ d.queue = Append(heap[1].queue, t)
        <4> HIDE DEF c
        <4>. QED  BY <3>3 DEF Rearm, Data
      <3>5. heap' = [heap EXCEPT ![1] = d] /\ UNCHANGED <<ctx, win>>
        BY <2>2, <2>e DEF RecvForWorker
      <3>6. /\ \A o \in Block \ {1} : worker'[o].pc = "none"
            /\ worker'[1].pc \in {"recv", "handle", "ask", "pop"} => worker'[1] = worker[1]
        <4>1. worker' = worker \/ \E pc \in {"wait", "start"} :
                 worker' = [worker EXCEPT ![1] = [pc |-> pc, p |-> 1, q |-> Nil, msg |-> "10"]]
          BY <2>2, <2>e DEF RecvForWorker
        <4>. QED  BY <1>0, <4>1 DEF TypeOK
      <3> HIDE DEF c, d
      <3>. QED  BY <2>0, <2>e, <3>2, <3>4, <3>5, <3>6, EnteredStep DEF Enter
    <2>3. CASE RecvTest(t)
      <3> DEFINE c == [heap[1] EXCEPT !.state = 7, !.time = FALSE]
                 d == IF c.event THEN [c EXCEPT !.exit = 1] ELSE [c EXCEPT !.queue = <<>>]
      <3>1. /\ c \in Data /\ c.mem = "live" /\ c.event = heap[1].event
            /\ c.exit = heap[1].exit /\ c.queue = heap[1].queue
        BY <2>e DEF Data
      <3>2. /\ d.mem = "live" /\ d.event = heap[1].event /\ d.exit # 2
            /\ heap[1].event => d.queue = heap[1].queue
        <4> HIDE DEF c
        <4>. QED  BY <2>e, <3>1 DEF Data
      <3>3. heap' = [heap EXCEPT ![1] = d] /\ UNCHANGED <<ctx, worker>>
            /\ win'.pc \in {"stop", "tail"} /\ win'.p = 1
        BY <2>3, <2>e DEF RecvTest
      <3> HIDE DEF c, d
      <3>. QED  BY <1>0, <2>0, <2>e, <3>2, <3>3, EnteredStep
    <2>4. CASE RecvUndecodable(t)
      <3>1. SameOwner /\ SameQueue
        BY <2>4, EditFields, SameHeapKeepsOwner DEF RecvUndecodable
      <3>2. Serves'
        BY <2>4, <3>1 DEF RecvUndecodable, Ownership, Serves, SameQueue
      <3>. QED  BY <1>0, <2>0, <2>4, <3>1, <3>2, QuietStep DEF RecvUndecodable
    <2>5. CASE RecvDisconnect(t)
      <3> DEFINE d == [heap[1] EXCEPT !.state = 0]
      <3>1. /\ d \in Data /\ d.mem = heap[1].mem /\ d.event = heap[1].event
            /\ d.exit = heap[1].exit /\ d.queue = heap[1].queue
        BY <2>e DEF Data
      <3>2. BeginFree("tail", d) /\ UNCHANGED <<ctx, worker>>
        BY <2>5, <2>e DEF RecvDisconnect
      <3> HIDE DEF d
      <3>. QED  BY <1>2, <2>0, <3>1, <3>2
    <2>. QED  BY <2>1, <2>2, <2>3, <2>4, <2>5
  <1>w. /\ win.pc # "idle" => win.p = 1
        /\ timer.pc \in {"free", "realloc", "delete"} => win.pc \in {"idle", "join", "joined", "tail"}
    BY DEF Ownership, Targets, TimerAlone
  <1>5. CASE FreeSignal
    <2>1. SameOwner /\ SameQueue
      BY <1>5, EditFields DEF FreeSignal, SetEvent
    <2>2. win'.pc = "realloc" /\ win'.p = win.p
      BY <1>5 DEF FreeSignal, TypeOK
    <2>. QED  BY <1>5, <1>w, <2>1, <2>2, WindowMoves DEF FreeSignal, Freeing
  <1>6. CASE FreeAlloc
    <2>1. last + 1 \in Block /\ last + 1 # 1
      BY <1>6, ConstantsOK DEF FreeAlloc, FreeReplaces, TypeOK, Block
    <2>2. /\ heap'[last + 1] = FreshData
          /\ \A o \in Block : o # last + 1 => heap'[o] = heap[o]
      BY <1>6, <2>1 DEF FreeAlloc, Alloc, TypeOK
    <2>3. /\ ctx'.pdata = last + 1 /\ ctx'.status = ctx.status
          /\ win'.pc = "notify" /\ win'.p = 1 /\ UNCHANGED <<worker, timer>>
          /\ timer.pc \notin {"free", "realloc", "delete"}
      BY <1>6, <1>w DEF FreeAlloc, FreeReplaces, TypeOK
    <2>4. Alone'
      BY <2>2, <2>3 DEF Ownership, Alone, FreshData, NoData
    <2>5. Targets' /\ PdataOne' /\ TimerAlone' /\ JoinedIsDone' /\ ToldWhileFreeing' /\ DeletesIdle'
      BY <2>1, <2>3 DEF Targets, PdataOne, TimerAlone, JoinedIsDone, ToldWhileFreeing,
                        DeletesIdle, Freeing
    <2>6. Owns' /\ Serves'
      BY <1>0, <2>1, <2>2, <2>3 DEF Ownership, Owns, Serves
    <2>7. PdataThere'
      BY <2>2, <2>3 DEF PdataThere, FreshData, NoData
    <2>. QED  BY <2>4, <2>5, <2>6, <2>7 DEF Ownership
  <1>7. CASE Notify
    <2>1. /\ win'.pc \in {"idle", "tail"} /\ win'.p = win.p
      BY <1>7 DEF Notify, TypeOK
    <2>2. ctx'.status # "live"
      BY <1>7 DEF Notify, Deleted, TypeOK
    <2>. QED  BY <1>7, <1>w, <2>1, <2>2, SameHeapKeepsOwner, WindowMoves DEF Notify, Freeing
  <1>8. CASE StopSignal
    <2>1. SameOwner /\ SameQueue
      BY <1>8, EditFields DEF StopSignal, SetEvent
    <2>2. win'.pc = "join" /\ win'.p = win.p
      BY <1>8 DEF StopSignal, TypeOK
    <2>. QED  BY <1>8, <1>w, <2>1, <2>2, WindowMoves DEF StopSignal, Freeing
  <1>9. CASE Joined
    <2>1. win'.pc = "joined" /\ win'.p = win.p
      BY <1>9 DEF Joined, TypeOK
    <2>. QED  BY <1>9, <1>w, <2>1, SameHeapKeepsOwner, WindowMoves DEF Joined, Freeing
  <1>10. CASE FreeThread
    \* the worker has ended: nobody serves the queue that is cleared
    <2>1. worker[1].pc = "done" /\ win.p = 1
      BY <1>10, <1>w DEF FreeThread, Ownership, JoinedIsDone
    <2>2. /\ heap'[1].mem = heap[1].mem /\ ~heap'[1].event /\ heap'[1].exit = 0
          /\ \A o \in Block \ {1} : heap'[o] = heap[o]
      <3>1. heap' = [heap EXCEPT ![1] = [heap[1] EXCEPT !.event = FALSE, !.signal = FALSE,
                                           !.exit = 0, !.time = FALSE, !.queue = <<>>]]
        BY <1>10, <2>1 DEF FreeThread
      <3>. QED  BY <1>0, <3>1 DEF TypeOK, Data
    <2>3. win'.pc = "tail" /\ win'.p = 1 /\ UNCHANGED <<ctx, worker, timer>>
      BY <1>10, <2>1 DEF FreeThread, TypeOK
    <2>4. Alone'
      BY <2>2, <2>3 DEF Ownership, Alone
    <2>5. Targets' /\ PdataOne' /\ TimerAlone' /\ JoinedIsDone'
      BY <1>10, <2>3 DEF FreeThread, Ownership, Targets, PdataOne, TimerAlone, JoinedIsDone, Freeing
    <2>6. Owns' /\ Serves' /\ ToldWhileFreeing'
      BY <2>1, <2>2, <2>3 DEF Owns, Serves, ToldWhileFreeing
    <2>7. PdataThere'
      <3>1. ctx.status # "gone" => heap'[ctx.pdata].mem = heap[ctx.pdata].mem
        BY <2>2 DEF TypeOK
      <3>. QED  BY <1>10, <2>3, <3>1 DEF FreeThread, Ownership, PdataThere, Freeing
    <2>8. DeletesIdle'
      <3>1. timer.pc = "delete" => ctx.pdata \in Block
        BY DEF Ownership, TimerAlone, TypeOK
      <3>. QED  BY <2>2, <2>3, <3>1 DEF Ownership, DeletesIdle
    <2>. QED  BY <2>4, <2>5, <2>6, <2>7, <2>8 DEF Ownership
  <1>11. CASE TailOfRecv
    <2>1. SameOwner /\ SameQueue
      BY <1>11, EditFields DEF TailOfRecv
    <2>2. win'.pc = "idle" /\ win'.p = win.p
      BY <1>11 DEF TailOfRecv, TypeOK
    <2>. QED  BY <1>11, <1>w, <2>1, <2>2, WindowMoves DEF TailOfRecv, Freeing
  <1>. QED  BY <1>1, <1>3, <1>4, <1>5, <1>6, <1>7, <1>8, <1>9, <1>10, <1>11 DEF Window

LEMMA OwnershipTimer ==
    ASSUME TypeOK, Ownership, TimerExpire \/ Timer
    PROVE  Ownership'
  <1>0. /\ 1 \in Block /\ heap[1] \in Data
        /\ \A o \in Block \ {1} : worker[o].pc = "none"
        /\ ctx.status = "deleted" => ctx.pdata \in Block
    BY OneIsBlock DEF Ownership, Alone, TypeOK
  <1>1. CASE TimerExpire
    <2>1. Serves'
      BY <1>1 DEF TimerExpire, Ownership, Serves
    <2>. QED  BY <1>0, <1>1, <2>1, SameHeapKeepsOwner, QuietStep DEF TimerExpire, Freeing
  <1>2. CASE TimerTimeout
    <2>1. SameOwner /\ SameQueue
      BY <1>2, EditFields DEF TimerTimeout
    <2>2. Serves'
      BY <1>2, <2>1 DEF TimerTimeout, Ownership, Serves, SameQueue
    <2>. QED  BY <1>0, <1>2, <2>1, <2>2, QuietStep DEF TimerTimeout, Freeing
  <1>3. CASE TimerFree
    <2>0. /\ ctx.status = "deleted" /\ P \in Block /\ win.pc \in {"idle", "join"}
          /\ timer.pc = "idle" /\ UNCHANGED <<ctx, win, worker>>
      BY <1>0, <1>3 DEF TimerFree, Settled, P
    <2>1. CASE heap[P].event
      \* only the first block has an event
      <3>1. P = 1
        BY <2>0, <2>1 DEF Ownership, Alone
      <3>2. /\ heap'[1].mem = heap[1].mem /\ heap'[1].event = heap[1].event
            /\ heap'[1].queue = heap[1].queue
            /\ \A o \in Block \ {1} : heap'[o] = heap[o]
        <4>1. heap' = [heap EXCEPT ![1] = [heap[1] EXCEPT !.exit = 2]]
          BY <1>3, <2>1, <3>1 DEF TimerFree
        <4>. QED  BY <1>0, <4>1 DEF TypeOK, Data
      <3>3. timer'.pc = "free" /\ timer'.p = 1
        BY <1>3, <2>1, <3>1 DEF TimerFree
      <3>4. Alone' /\ Owns' /\ Serves'
        BY <2>0, <3>2 DEF Ownership, Alone, Owns, Serves
      <3>5. Targets' /\ PdataOne' /\ TimerAlone' /\ ToldWhileFreeing' /\ PdataThere'
            /\ JoinedIsDone' /\ DeletesIdle'
        BY <2>0, <3>1, <3>3 DEF Ownership, Targets, PdataOne, TimerAlone, ToldWhileFreeing,
           PdataThere, JoinedIsDone, DeletesIdle, Freeing, P
      <3>. QED  BY <3>4, <3>5 DEF Ownership
    <2>2. CASE ~heap[P].event
      <3>1. heap' = heap /\ timer'.pc = "delete"
        BY <1>3, <2>2 DEF TimerFree
      <3>. QED  BY <2>0, <2>2, <3>1 DEF Ownership, Alone, Targets, PdataOne, TimerAlone, Owns,
           ToldWhileFreeing, PdataThere, JoinedIsDone, DeletesIdle, Serves, Freeing, P
    <2>. QED  BY <2>1, <2>2
  <1>4. CASE TimerSignal
    <2>1. SameOwner /\ SameQueue
      BY <1>4, EditFields DEF TimerSignal, SetEvent
    <2>2. timer.pc = "free" /\ timer'.pc = "realloc" /\ timer'.p = timer.p
          /\ UNCHANGED <<ctx, win, worker>>
      BY <1>4 DEF TimerSignal, TypeOK
    <2>3. Alone' /\ Owns' /\ Serves' /\ ToldWhileFreeing'
      BY <1>0, <2>1, <2>2 DEF Ownership, Alone, Owns, Serves, ToldWhileFreeing, SameOwner,
         SameQueue, Freeing
    <2>4. Targets' /\ PdataOne' /\ TimerAlone' /\ PdataThere' /\ JoinedIsDone' /\ DeletesIdle'
      BY <2>2 DEF Ownership, Targets, PdataOne, TimerAlone, PdataThere, JoinedIsDone,
         DeletesIdle, Freeing
    <2>. QED  BY <2>3, <2>4 DEF Ownership
  <1>5. CASE TimerAlloc
    <2>1. last + 1 \in Block /\ last + 1 # 1
      BY <1>5, ConstantsOK DEF TimerAlloc, FreeReplaces, TypeOK, Block
    <2>2. /\ heap'[last + 1] = FreshData
          /\ \A o \in Block : o # last + 1 => heap'[o] = heap[o]
      BY <1>5, <2>1 DEF TimerAlloc, Alloc, TypeOK
    <2>3. /\ ctx'.pdata = last + 1 /\ ctx'.status = "deleted"
          /\ win.pc \in {"idle", "join", "joined", "tail"}
          /\ UNCHANGED <<win, worker>> /\ timer'.pc = "delete"
      BY <1>5 DEF TimerAlloc, FreeReplaces, TypeOK, Ownership, TimerAlone
    <2>4. Alone'
      BY <2>2, <2>3 DEF Ownership, Alone, FreshData, NoData
    <2>5. Owns' /\ Serves'
      BY <1>0, <2>1, <2>2, <2>3 DEF Ownership, Owns, Serves
    <2>6. Targets' /\ PdataOne' /\ TimerAlone' /\ JoinedIsDone' /\ ToldWhileFreeing'
      BY <2>1, <2>3 DEF Ownership, Targets, PdataOne, TimerAlone, JoinedIsDone,
         ToldWhileFreeing, Freeing
    <2>7. PdataThere' /\ DeletesIdle'
      BY <2>2, <2>3 DEF PdataThere, DeletesIdle, FreshData, NoData
    <2>. QED  BY <2>4, <2>5, <2>6, <2>7 DEF Ownership
  <1>6. CASE TimerDelete
    \* the block that goes has no event, and so no worker
    <2>1. /\ ctx.status = "deleted" /\ P \in Block /\ ~heap[P].event
          /\ win.pc \in {"idle", "join", "joined", "tail"}
      BY <1>0, <1>6 DEF TimerDelete, Ownership, TimerAlone, DeletesIdle, P
    <2>2. /\ heap'[P] = [heap[P] EXCEPT !.mem = "freed"]
          /\ \A o \in Block : o # P => heap'[o] = heap[o]
      BY <1>6, <2>1 DEF TimerDelete, TypeOK
    <2>3. \A o \in Block : /\ heap'[o].event = heap[o].event /\ heap'[o].exit = heap[o].exit
                           /\ heap'[o].queue = heap[o].queue
      BY <2>1, <2>2 DEF TypeOK, Data
    <2>4. /\ ctx'.status = "gone" /\ ctx'.pdata = Nil /\ timer'.pc = "idle"
          /\ UNCHANGED <<win, worker>>
      BY <1>6 DEF TimerDelete
    <2>5. Alone' /\ Serves'
      BY <1>0, <2>3, <2>4 DEF Ownership, Alone, Serves
    <2>6. Owns'
      BY <1>0, <2>1, <2>2, <2>4 DEF Ownership, Owns
    <2>7. Targets' /\ PdataOne' /\ TimerAlone' /\ ToldWhileFreeing' /\ PdataThere'
          /\ JoinedIsDone' /\ DeletesIdle'
      BY <2>1, <2>4 DEF Ownership, Targets, PdataOne, TimerAlone, ToldWhileFreeing,
         PdataThere, JoinedIsDone, DeletesIdle, Freeing, Nil
    <2>. QED  BY <2>5, <2>6, <2>7 DEF Ownership
  <1>. QED  BY <1>1, <1>2, <1>3, <1>4, <1>5, <1>6 DEF Timer

LEMMA OwnershipInit == Init => Ownership
  BY ConstantsOK DEF Init, Ownership, Alone, Targets, PdataOne, TimerAlone, Owns,
     ToldWhileFreeing, PdataThere, JoinedIsDone, DeletesIdle, Serves, Freeing,
     FreshData, NoData, Block

LEMMA OwnershipNext == TypeOK /\ Ownership /\ [Next]_vars => Ownership'
  <1> SUFFICES ASSUME TypeOK, Ownership, [Next]_vars PROVE Ownership'
    OBVIOUS
  <1>1. CASE UNCHANGED vars
    BY <1>1 DEF vars, Ownership, Alone, Targets, PdataOne, TimerAlone, Owns,
       ToldWhileFreeing, PdataThere, JoinedIsDone, DeletesIdle, Serves
  <1>2. CASE \E w \in Block : Worker(w) \/ Answer(w)
    BY <1>2, OwnershipWorker
  <1>. QED  BY <1>1, <1>2, OwnershipWindow, OwnershipTimer DEF Next

\* Who may use, free and replace the RSADATA of a context, however the threads
\* interleave and however late a worker starts.
THEOREM OneOwner == Spec => []Ownership
  <1>1. Init => Ownership
    BY OwnershipInit
  <1>2. TypeOK /\ Ownership /\ [Next]_vars => Ownership'
    BY OwnershipNext
  <1>. QED  BY <1>1, <1>2, TypeCorrect, PTL DEF Spec

\* A worker that started in time never touches its RSADATA after the block is
\* freed (sttConnectThread, rsa_free).
THEOREM WorkersAreSafe == Spec => []WorkerUsesLiveData
  <1>1. Ownership => WorkerUsesLiveData
    <2> SUFFICES ASSUME Ownership, NobodyLate, NEW w \in Block, Running(w)
                 PROVE  heap[worker[w].p].mem = "live"
      BY DEF WorkerUsesLiveData
    <2>1. w = 1
      BY DEF Ownership, Alone, Running
    <2>2. worker[1].p = 1
      BY <2>1 DEF NobodyLate, Running, At
    <2>. QED  BY <2>1, <2>2 DEF Ownership, Owns, Running
  <1>. QED  BY <1>1, OneOwner, PTL

\* What cpp_free_keys deletes is not freed yet, and no worker that started in
\* time serves it.
THEOREM DeletionIsSafe == Spec => []DeletesUnusedData
  <1>1. Ownership => DeletesUnusedData
    <2> SUFFICES ASSUME Ownership, NobodyLate, timer.pc = "delete"
                 PROVE  /\ heap[P].mem = "live"
                        /\ \A w \in Block : Running(w) => worker[w].p # P
      BY DEF DeletesUnusedData
    <2>1. heap[P].mem = "live"
      BY DEF Ownership, TimerAlone, PdataThere, Freeing, P
    <2>2. ASSUME NEW w \in Block, Running(w), worker[w].p = P
          PROVE  FALSE
      <3>1. w = 1
        BY <2>2 DEF Ownership, Alone, Running
      <3>2. P = 1
        BY <2>2, <3>1 DEF NobodyLate, Running, At
      <3>. QED  BY <2>2, <3>1, <3>2 DEF Ownership, Owns, DeletesIdle, Running, P
    <2>. QED  BY <2>1, <2>2
  <1>. QED  BY <1>1, OneOwner, PTL

\* The context a handle leads to has RSADATA that is not freed, whenever no
\* thread is inside rsa_free.
THEOREM ContextIsWhole == Spec => []ContextHasLiveData
  <1>1. Ownership => ContextHasLiveData
    BY DEF Ownership, PdataThere, ContextHasLiveData, Freeing
  <1>. QED  BY <1>1, OneOwner, PTL

\* The message a worker takes off the queue is the one it has handled, and a
\* worker never takes from an empty queue (sttConnectThread, clear_queue).
THEOREM PopsAreSafe == Spec => []PopsWhatItHandled
  <1>1. Ownership => PopsWhatItHandled
    <2> SUFFICES ASSUME Ownership, NEW w \in Block, At(w, "pop")
                 PROVE  D(w).queue # <<>> /\ Head(D(w).queue) = worker[w].msg
      BY DEF PopsWhatItHandled
    <2>1. w = 1
      BY DEF Ownership, Alone, At
    <2>. QED  BY <2>1 DEF Ownership, Serves, At, D
  <1>. QED  BY <1>1, OneOwner, PTL

=============================================================================
