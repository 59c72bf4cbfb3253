----------------------------- MODULE RsaThreads -----------------------------
(***************************************************************************)
(* Who uses and who frees RSADATA (cpp_rsam.cpp, cpp_cntx.cpp): the window *)
(* thread in rsa_recv and its kin, the worker threads (sttConnectThread),  *)
(* and the timeout thread, for one crypto context from its creation until  *)
(* its slot is cleared.  No lock protects RSADATA; every step here is the  *)
(* code between two accesses another thread may change the meaning of.     *)
(*                                                                         *)
(* Abstracted: keys and texts, and the other contact, which may send any   *)
(* message of Incoming at any time.  Ten seconds (the grace of a deleted   *)
(* context) outlast every computation, and only the waits - for an event,  *)
(* a thread or a user - outlast them.                                      *)
(***************************************************************************)
EXTENDS Naturals, Sequences

CONSTANTS
    MaxData,        \* bound: RSADATA blocks ever allocated
    MaxRecv,        \* bound: messages that arrive
    Incoming,       \* the message types that arrive
    PromptStart     \* does a new worker fetch its RSADATA before its creator goes on?

\* left to the worker, in any state; in the state the type names; asking the user
AnyTime == {"10"}
Stepwise == {"21", "22", "23", "24", "32", "33", "34", "40"}
Asking == {"22", "24", "33", "34"}
Tests == {"50", "60"}

ASSUME ConstantsOK ==
    /\ {MaxData, MaxRecv} \subseteq Nat
    /\ MaxData > 0
    /\ Incoming \subseteq AnyTime \cup Stepwise \cup Tests \cup {"70", "F0"}
    /\ PromptStart \in BOOLEAN

Block == 1 .. MaxData
Nil == 0

VARIABLES
    heap,       \* heap[o]: RSADATA block o
    last,       \* blocks allocated so far
    ctx,        \* the context: used by its contact, marked as deleted, or cleared
    win,        \* the window thread: where it is and the p it holds
    worker,     \* worker[o]: the thread started for the event of block o
    timer,      \* the timeout thread
    recv        \* messages that arrived so far

vars == <<heap, last, ctx, win, worker, timer, recv>>

-----------------------------------------------------------------------------
StepOf == [t \in Stepwise \cup Tests \cup {"70"} |->
    CASE t \in {"21", "22", "23", "24"} -> 2
      [] t \in {"32", "33", "34"}       -> 3
      [] t = "40"                       -> 4
      [] t = "50"                       -> 5
      [] t = "60"                       -> 6
      [] t = "70"                       -> 7]

\* (fault: the state is the step of the message handled, not of the one awaited)
AfterSameStep == [t \in AnyTime \cup Stepwise |-> IF t = "10" THEN {1} ELSE {StepOf[t]}]

\* the states rsa_recv_thread may leave after a message it accepts
After == [t \in AnyTime \cup Stepwise |->
    CASE t = "10"                 -> {3, 5}
      [] t \in {"23", "24"}       -> {4}
      [] t \in {"22", "33", "34"} -> {5}
      [] t \in {"21", "32", "40"} -> {6}]

InExchange(d) == d.state \notin {0, 7}

\* the tail of rsa_recv
Rearm(d) == IF InExchange(d) THEN [d EXCEPT !.time = TRUE] ELSE d

NoData == [mem |-> "none", state |-> 0, time |-> FALSE, event |-> FALSE,
           signal |-> FALSE, exit |-> 0, queue |-> <<>>]

\* rsa_alloc
FreshData == [NoData EXCEPT !.mem = "live"]
Alloc(h) == [h EXCEPT ![last + 1] = FreshData]

\* (fault: the thread is not woken)
SetEventNever(h, o) == h

SetEvent(h, o) == [h EXCEPT ![o] = [@ EXCEPT !.signal = TRUE]]

\* thread_exit: 1, the thread ends; 2, it also frees the block
Frees(d) == d.exit = 2

\* rsa_notify on a failed or finished session: deleteRSAcntx, which only marks
Deleted == IF ctx.status = "live" THEN [ctx EXCEPT !.status = "deleted"] ELSE ctx

Init ==
    /\ heap = [o \in Block |-> IF o = 1 THEN FreshData ELSE NoData]
    /\ last = 1
    /\ ctx = [status |-> "live", pdata |-> 1]
    /\ win = [pc |-> "idle", p |-> Nil, then |-> "idle"]
    /\ worker = [o \in Block |-> [pc |-> "none", p |-> Nil, q |-> Nil, msg |-> "10"]]
    /\ timer = [pc |-> "idle", p |-> Nil]
    /\ recv = 0

-----------------------------------------------------------------------------
(* The window thread.  win.p is the p of the function it is in.            *)

P == ctx.pdata

\* (fault: a fresh block is not put in the place of the one given away)
FreeKeepsPdata ==
    /\ last' = last
    /\ ctx' = ctx

\* the end of rsa_free: rsa_alloc gives the context a new block
FreeReplaces ==
    /\ last < MaxData
    /\ last' = last + 1
    /\ ctx' = [ctx EXCEPT !.pdata = last + 1]

Enter ==
    /\ win.pc = "idle"
    /\ ctx.status = "live"

\* rsa_connect
Connect ==
    /\ Enter
    /\ heap[P].state = 0
    /\ heap' = [heap EXCEPT ![P] = [@ EXCEPT !.state = 2, !.time = TRUE]]
    /\ UNCHANGED <<last, ctx, win, worker, timer, recv>>

\* rsa_free, first statement; without an event there is nothing to free
BeginFree(next, d) ==
    /\ heap' = [heap EXCEPT ![P] = IF d.event THEN [d EXCEPT !.exit = 2] ELSE d]
    /\ win' = [pc |-> IF d.event THEN "free" ELSE "notify", p |-> P, then |-> next]

\* rsa_disconnect and rsa_disabled, up to rsa_free
Disconnect ==
    /\ Enter
    /\ BeginFree("idle", heap[P])
    /\ UNCHANGED <<last, ctx, worker, timer, recv>>

Arrives(t) ==
    /\ Enter
    /\ t \in Incoming
    /\ recv < MaxRecv
    /\ recv' = recv + 1
    /\ UNCHANGED timer

WrongStep(t) == t \in DOMAIN StepOf /\ heap[P].state # StepOf[t]

\* a message of another step: the session is over
RecvWrongStep(t) ==
    /\ Arrives(t)
    /\ WrongStep(t)
    /\ BeginFree("idle", [heap[P] EXCEPT !.state = 0, !.time = FALSE])
    /\ UNCHANGED <<last, ctx, worker>>

\* the case of 0x10-0x40: an event and a thread if there are none, the queue,
\* and the tail
RecvForWorker(t) ==
    LET d == heap[P]
        started == [pc |-> IF PromptStart THEN "wait" ELSE "start",
                    p |-> P, q |-> Nil, msg |-> "10"]
    IN
    /\ Arrives(t)
    /\ t \in AnyTime \cup Stepwise
    /\ ~WrongStep(t)
    /\ heap' = [heap EXCEPT ![P] = Rearm([d EXCEPT !.event = TRUE, !.signal = TRUE,
                                             !.queue = Append(@, t)])]
    /\ worker' = IF d.event THEN worker ELSE [worker EXCEPT ![P] = started]
    /\ UNCHANGED <<last, ctx, win>>

\* 0x50, 0x60: the test decodes, state 7 is set, rsa_free_thread begins
RecvTest(t) ==
    LET d == [heap[P] EXCEPT !.state = 7, !.time = FALSE] IN
    /\ Arrives(t)
    /\ t \in Tests
    /\ ~WrongStep(t)
    /\ heap' = [heap EXCEPT ![P] = IF d.event THEN [d EXCEPT !.exit = 1]
                                   ELSE [d EXCEPT !.queue = <<>>]]
    /\ win' = [pc |-> IF d.event THEN "stop" ELSE "tail", p |-> P, then |-> "idle"]
    /\ UNCHANGED <<last, ctx, worker>>

\* 0x50, 0x60, 0x70: the text does not decode.  No rsa_free: the worker, if
\* any, stays until the context is cleared.
RecvUndecodable(t) ==
    /\ Arrives(t)
    /\ t \in Tests \cup {"70"}
    /\ ~WrongStep(t)
    /\ heap' = IF t \in Tests
               THEN [heap EXCEPT ![P] = [@ EXCEPT !.state = 0, !.time = FALSE]] ELSE heap
    /\ ctx' = Deleted
    /\ UNCHANGED <<last, win, worker>>

\* 0xF0 in an open session: as rsa_disconnect, but the tail follows
RecvDisconnect(t) ==
    /\ Arrives(t)
    /\ t = "F0"
    /\ heap[P].state = 7
    /\ BeginFree("tail", [heap[P] EXCEPT !.state = 0])
    /\ UNCHANGED <<last, ctx, worker>>

Recv == \E t \in Incoming :
    \/ RecvWrongStep(t)
    \/ RecvForWorker(t)
    \/ RecvTest(t)
    \/ RecvUndecodable(t)
    \/ RecvDisconnect(t)

\* rsa_free: SetEvent(p->event), which reads p again
FreeSignal ==
    /\ win.pc = "free"
    /\ heap' = SetEvent(heap, win.p)
    /\ win' = [win EXCEPT !.pc = "realloc"]
    /\ UNCHANGED <<last, ctx, worker, timer, recv>>

\* rsa_free: rsa_alloc
FreeAlloc ==
    /\ win.pc = "realloc"
    /\ FreeReplaces
    /\ heap' = Alloc(heap)
    /\ win' = [win EXCEPT !.pc = "notify"]
    /\ UNCHANGED <<worker, timer, recv>>

\* null_msg or rsa_notify: the contact lets go of the context
Notify ==
    /\ win.pc = "notify"
    /\ ctx' = Deleted
    /\ win' = [win EXCEPT !.pc = win.then]
    /\ UNCHANGED <<heap, last, worker, timer, recv>>

\* rsa_free_thread: SetEvent, then the wait for p->thread
StopSignal ==
    /\ win.pc = "stop"
    /\ heap' = SetEvent(heap, win.p)
    /\ win' = [win EXCEPT !.pc = "join"]
    /\ UNCHANGED <<last, ctx, worker, timer, recv>>

\* (fault: the queue is cleared without waiting for the thread)
JoinedAtOnce ==
    /\ win.pc = "join"
    /\ win' = [win EXCEPT !.pc = "joined"]
    /\ UNCHANGED <<heap, last, ctx, worker, timer, recv>>

\* the thread has ended
Joined ==
    /\ win.pc = "join"
    /\ worker[win.p].pc = "done"
    /\ win' = [win EXCEPT !.pc = "joined"]
    /\ UNCHANGED <<heap, last, ctx, worker, timer, recv>>

\* the rest of rsa_free_thread
FreeThread ==
    /\ win.pc = "joined"
    /\ heap' = [heap EXCEPT ![win.p] = [@ EXCEPT !.event = FALSE, !.signal = FALSE,
                                           !.exit = 0, !.time = FALSE, !.queue = <<>>]]
    /\ win' = [win EXCEPT !.pc = "tail"]
    /\ UNCHANGED <<last, ctx, worker, timer, recv>>

\* the last statement of rsa_recv
TailOfRecv ==
    /\ win.pc = "tail"
    /\ heap' = [heap EXCEPT ![win.p] = Rearm(@)]
    /\ win' = [win EXCEPT !.pc = "idle"]
    /\ UNCHANGED <<last, ctx, worker, timer, recv>>

Window == \/ FreeSignal \/ FreeAlloc \/ Notify
          \/ StopSignal \/ Joined \/ FreeThread \/ TailOfRecv

-----------------------------------------------------------------------------
(* sttConnectThread and rsa_recv_thread.  worker[w].p is the p of the       *)
(* first, worker[w].q the p of the second.                                 *)

At(w, pc) == worker[w].pc = pc
Goto(w, pc) == worker' = [worker EXCEPT ![w].pc = pc]
D(w) == heap[worker[w].p]

\* the two lines before the loop: the block the context has by now
WorkerStart(w) ==
    /\ At(w, "start")
    /\ worker' = [worker EXCEPT ![w].p = ctx.pdata,
                    ![w].pc = IF ctx.status = "gone" THEN "done" ELSE "wait"]
    /\ UNCHANGED <<heap, last, ctx, win, timer, recv>>

\* WaitForSingleObject on an event that resets itself; a null handle fails at once
WorkerWake(w) ==
    /\ At(w, "wait")
    /\ D(w).signal \/ ~D(w).event
    /\ heap' = [heap EXCEPT ![worker[w].p] = [@ EXCEPT !.signal = FALSE]]
    /\ Goto(w, "check")
    /\ UNCHANGED <<last, ctx, win, timer, recv>>

\* thread_exit after the wait
WorkerCheck(w) ==
    /\ At(w, "check")
    /\ heap' = IF Frees(D(w)) THEN [heap EXCEPT ![worker[w].p] = [@ EXCEPT !.mem = "freed"]] ELSE heap
    /\ Goto(w, IF D(w).exit # 0 THEN "done" ELSE "loop")
    /\ UNCHANGED <<last, ctx, win, timer, recv>>

\* (fault: one message per signal)
WorkerLoopOnce(w) ==
    /\ At(w, "loop")
    /\ worker' = [worker EXCEPT ![w].pc = IF D(w).exit = 0 /\ D(w).queue # <<>>
                                             /\ worker[w].q = Nil
                                          THEN "recv" ELSE "wait",
                                ![w].q = Nil,
                                ![w].msg = IF D(w).queue # <<>> THEN Head(D(w).queue) ELSE @]
    /\ UNCHANGED <<heap, last, ctx, win, timer, recv>>

\* the loop over the queue: thread_exit is looked at before each message
WorkerLoop(w) ==
    /\ At(w, "loop")
    /\ worker' = IF D(w).exit = 0 /\ D(w).queue # <<>>
                 THEN [worker EXCEPT ![w] = [@ EXCEPT !.pc = "recv", !.msg = Head(D(w).queue)]]
                 ELSE [worker EXCEPT ![w].pc = "wait"]
    /\ UNCHANGED <<heap, last, ctx, win, timer, recv>>

\* rsa_recv_thread fetches the context's block, which need not be the worker's;
\* rsa_check_pub asks nobody when no contact has the context any more
WorkerFetch(w) ==
    /\ At(w, "recv")
    /\ worker' = [worker EXCEPT ![w].q = ctx.pdata,
                    ![w].pc = IF ctx.status = "gone" THEN "pop"
                              ELSE IF worker[w].msg \in Asking /\ ctx.status = "live"
                                   THEN "ask" ELSE "handle"]
    /\ UNCHANGED <<heap, last, ctx, win, timer, recv>>

\* what an accepted message leaves behind, with the tail
Accepted(w, s) == [heap EXCEPT ![worker[w].q] = [@ EXCEPT !.state = s, !.time = TRUE]]

\* null_msg after a refusal or a text that does not decode
Failed(w) ==
    /\ heap' = [heap EXCEPT ![worker[w].q] = [@ EXCEPT !.state = 0, !.time = FALSE]]
    /\ ctx' = Deleted
    /\ Goto(w, "pop")
    /\ UNCHANGED <<last, win, timer, recv>>

\* a message without a question
WorkerHandle(w) ==
    /\ At(w, "handle")
    /\ \/ /\ worker[w].msg \notin Asking
          /\ \E s \in After[worker[w].msg] : heap' = Accepted(w, s)
          /\ Goto(w, "pop")
          /\ UNCHANGED <<last, ctx, win, timer, recv>>
       \/ /\ worker[w].msg \in Asking \cup {"21", "32", "40"}
          /\ Failed(w)

\* the user accepts the key: if the exchange is over by then, -1 and clear_queue
AnswerYes(w) ==
    /\ At(w, "ask")
    /\ IF heap[worker[w].q].state = 0
       THEN /\ heap' = [heap EXCEPT ![worker[w].p] = [@ EXCEPT !.queue = <<>>]]
            /\ Goto(w, "wait")
       ELSE /\ \E s \in After[worker[w].msg] : heap' = Accepted(w, s)
            /\ Goto(w, "pop")
    /\ UNCHANGED <<last, ctx, win, timer, recv>>

\* the user refuses it
AnswerNo(w) ==
    /\ At(w, "ask")
    /\ Failed(w)

\* p->queue->pop()
WorkerPop(w) ==
    /\ At(w, "pop")
    /\ heap' = IF D(w).queue = <<>> THEN heap
             ELSE [heap EXCEPT ![worker[w].p] = [@ EXCEPT !.queue = Tail(D(w).queue)]]
    /\ Goto(w, "loop")
    /\ UNCHANGED <<last, ctx, win, timer, recv>>

Answer(w) == AnswerYes(w) \/ AnswerNo(w)
Worker(w) == \/ WorkerStart(w) \/ WorkerWake(w) \/ WorkerCheck(w) \/ WorkerLoop(w)
             \/ WorkerFetch(w) \/ WorkerHandle(w) \/ WorkerPop(w)

-----------------------------------------------------------------------------
(* sttTimeoutThread, for this context.                                     *)

\* an exchange is over its time, of a context in use or not yet cleared
TimerExpire ==
    /\ timer.pc = "idle"
    /\ ctx.status # "gone"
    /\ heap[P].time
    /\ timer' = [pc |-> "expired", p |-> P]
    /\ UNCHANGED <<heap, last, ctx, win, worker, recv>>

\* rsa_timeout
TimerTimeout ==
    /\ timer.pc = "expired"
    /\ heap' = [heap EXCEPT ![timer.p] = [@ EXCEPT !.state = 0, !.time = FALSE]]
    /\ ctx' = Deleted
    /\ timer' = [pc |-> "idle", p |-> Nil]
    /\ UNCHANGED <<last, win, worker, recv>>

Settled ==
    /\ win.pc \in {"idle", "join"}
    /\ \A w \in Block : worker[w].pc \in {"none", "wait", "ask", "done"}

\* ten seconds after the deletion: cpp_free_keys, rsa_free, first statement
TimerFree ==
    /\ timer.pc = "idle"
    /\ ctx.status = "deleted"
    /\ Settled
    /\ heap' = IF heap[P].event THEN [heap EXCEPT ![P] = [@ EXCEPT !.exit = 2]] ELSE heap
    /\ timer' = [pc |-> IF heap[P].event THEN "free" ELSE "delete", p |-> P]
    /\ UNCHANGED <<last, ctx, win, worker, recv>>

TimerSignal ==
    /\ timer.pc = "free"
    /\ heap' = SetEvent(heap, timer.p)
    /\ timer' = [timer EXCEPT !.pc = "realloc"]
    /\ UNCHANGED <<last, ctx, win, worker, recv>>

TimerAlloc ==
    /\ timer.pc = "realloc"
    /\ FreeReplaces
    /\ heap' = Alloc(heap)
    /\ timer' = [timer EXCEPT !.pc = "delete"]
    /\ UNCHANGED <<win, worker, recv>>

\* cpp_free_keys: SAFE_DELETE(ptr->pdata); then the slot is marked as empty
TimerDelete ==
    /\ timer.pc = "delete"
    /\ heap' = [heap EXCEPT ![P] = [@ EXCEPT !.mem = "freed"]]
    /\ ctx' = [status |-> "gone", pdata |-> Nil]
    /\ timer' = [pc |-> "idle", p |-> Nil]
    /\ UNCHANGED <<last, win, worker, recv>>

Timer == TimerTimeout \/ TimerFree \/ TimerSignal \/ TimerAlloc \/ TimerDelete

-----------------------------------------------------------------------------
Next == \/ Connect \/ Disconnect \/ Recv \/ Window
        \/ \E w \in Block : Worker(w) \/ Answer(w)
        \/ TimerExpire \/ Timer

Spec == Init /\ [][Next]_vars

\* Every thread runs on, and every question is answered some day.
LiveSpec ==
    /\ Spec
    /\ WF_vars(Window)
    /\ WF_vars(Timer)
    /\ \A w \in Block : WF_vars(Worker(w)) /\ WF_vars(Answer(w))

-----------------------------------------------------------------------------
Data == [mem : {"none", "live", "freed"}, state : {0, 2, 3, 4, 5, 6, 7},
         time : BOOLEAN, event : BOOLEAN, signal : BOOLEAN, exit : {0, 1, 2},
         queue : Seq(AnyTime \cup Stepwise)]

Thread == [pc : {"none", "start", "wait", "check", "loop", "recv",
                 "handle", "ask", "pop", "done"},
           p : Block \cup {Nil}, q : Block \cup {Nil}, msg : AnyTime \cup Stepwise]

Running(w) == worker[w].pc \notin {"none", "start", "done"}

TypeOK ==
    /\ heap \in [Block -> Data]
    /\ last \in Block
    /\ ctx \in [status : {"live", "deleted", "gone"}, pdata : Block \cup {Nil}]
    /\ ctx.status # "gone" => ctx.pdata \in Block
    /\ win \in [pc : {"idle", "free", "realloc", "notify", "stop", "join", "joined", "tail"},
                p : Block \cup {Nil}, then : {"idle", "tail"}]
    /\ worker \in [Block -> Thread]
    /\ \A w \in Block : Running(w) => worker[w].p \in Block
    /\ timer \in [pc : {"idle", "expired", "free", "realloc", "delete"},
                  p : Block \cup {Nil}]
    /\ recv \in 0 .. MaxRecv

\* A worker that starts only after rsa_free has replaced the block it was made
\* for gets another's (sttConnectThread). NobodyLate: that has not happened to
\* a worker that is alive.
NobodyLate == \A w \in Block : worker[w].pc # "none" =>
    w = IF At(w, "start") THEN ctx.pdata ELSE worker[w].p

\* A worker that started in time never touches its RSADATA after the block is
\* freed: rsa_free and cpp_free_keys leave a block that has a thread to that
\* thread (sttConnectThread, rsa_free).
WorkerUsesLiveData == NobodyLate =>
    \A w \in Block : Running(w) => heap[worker[w].p].mem = "live"

\* The message a worker takes off the queue is the one it has handled: nobody
\* clears the queue under it (sttConnectThread, clear_queue).
PopsWhatItHandled == \A w \in Block :
    At(w, "pop") => D(w).queue # <<>> /\ Head(D(w).queue) = worker[w].msg

\* But for the time that rsa_free takes, the RSADATA a context points to is not
\* freed: the threads that fetch it from the context, which they do without a
\* lock, find memory that is there (rsa_free, cpp_alloc_pdata).
ContextHasLiveData ==
    ctx.status # "gone" /\ win.pc \notin {"free", "realloc"} /\ timer.pc \notin {"free", "realloc"}
        => heap[ctx.pdata].mem = "live"

\* If no worker started late, what cpp_free_keys deletes is a block that is not
\* freed yet and that no worker serves: rsa_free has put another one in its
\* place (cpp_free_keys).
DeletesUnusedData == NobodyLate /\ timer.pc = "delete" =>
    /\ heap[P].mem = "live"
    /\ \A w \in Block : Running(w) => worker[w].p # P

\* rsa_free_thread does not hold the window thread for ever, as long as
\* questions are answered (the wait for p->thread).
JoinEnds == win.pc = "join" ~> win.pc # "join"

\* Every message left to a worker is served or dropped, however the signals of
\* the event run together, unless a worker starts late (the queue and the event
\* of RSADATA).
MessagesServed == []NobodyLate => \A o \in Block :
    LET pending == heap[o].mem = "live" /\ heap[o].queue # <<>>
    IN  pending ~> ~pending

\* A block that rsa_free took from its context is freed by its worker, however
\* late that worker starts (rsa_free, sttConnectThread).
EveryOrphanCollected == \A o \in Block :
    LET orphan == heap[o].mem = "live" /\ ctx.pdata # o /\ heap[o].event
    IN  orphan ~> ~orphan

\* The same as long as no worker starts late: no thread and no queue is left
\* behind by rsa_free.
OrphanCollected == []NobodyLate => EveryOrphanCollected

\* The window thread never touches an RSADATA that a worker has freed.
WindowUsesLiveData ==
    win.pc \in {"free", "stop", "joined", "tail"} => heap[win.p].mem = "live"

\* The timeout thread never touches an RSADATA that a worker has freed.
TimeoutUsesLiveData == timer.pc \in {"expired", "free"} => heap[timer.p].mem = "live"

\* Messages that may ask the user are left to a thread of their own, so that
\* no question stops the window thread.
WindowNotHeldByQuestion == win.pc = "join" => worker[win.p].pc # "ask"

=============================================================================
