---------------------------- MODULE ExchangeQueue ----------------------------
(***************************************************************************)
(* The queue of unsent messages of one contact in RSA/AES mode             *)
(* (crypt_misc.cpp, addMsg2Queue, the RSA part of onSendMsg): messages     *)
(* typed before a session is open wait in msgQueue, and a waiter thread    *)
(* (sttWaitForExchange) polls waitForExchange and then resends them, or    *)
(* asks the user whether to send them unencrypted.  The window thread, the *)
(* waiter and the threads that tell the plugin about the session share the *)
(* fields of UinKey; localQueueMutex covers only the list.                 *)
(*                                                                         *)
(* Abstracted: the session is closed, in an exchange or open (RsaSession); *)
(* the contact is online, enabled and known to use SecureIM.               *)
(***************************************************************************)
EXTENDS Naturals, Sequences, SequencesExt

CONSTANTS
    MaxMsg,     \* bound: messages the user types
    Closable,   \* may an open session end or be renegotiated?
    Answers     \* what the user may answer to the waiter's question

ASSUME ConstantsOK ==
    /\ MaxMsg \in Nat
    /\ Closable \in BOOLEAN
    /\ Answers \subseteq {"yes", "no"}

Msg == 1 .. MaxMsg

VARIABLES
    typed,      \* number of messages typed so far
    session,    \* the state of the context: 0; 2-6; 7
    queue,      \* msgQueue: the messages in the list that are not freed
    stale,      \* msgQueue points at a message that is freed
    flag,       \* waitForExchange
    sendQueue,  \* UinKey.sendQueue
    lock,       \* localQueueMutex: free, or held by the waiter
    win,        \* the window thread, in onSendMsg or rsa_notify
    waiter,     \* the waiter thread and the message it is at
    note,       \* another thread in rsa_notify
    asked,      \* messages the user agreed to send unencrypted
    sent,       \* messages gone out, and how
    lost,       \* messages dropped by rsa_send
    bad,        \* addMsg2Queue has walked over freed memory
    dead        \* and the process with it

vars == <<typed, session, queue, stale, flag, sendQueue, lock, win, waiter, note,
          asked, sent, lost, bad, dead>>
list == <<queue, stale, bad, dead>>
gone == <<asked, sent, lost>>

Init ==
    /\ typed = 0
    /\ session = "closed"
    /\ queue = <<>> /\ stale = FALSE
    /\ flag = 0
    /\ sendQueue = FALSE
    /\ lock = "free"
    /\ win = [pc |-> "idle", msg |-> 0]
    /\ waiter = [pc |-> "none", msg |-> 0]
    /\ note = "none"
    /\ asked = {} /\ sent = {} /\ lost = {}
    /\ bad = FALSE /\ dead = FALSE

WinAt(pc) == win.pc = pc /\ ~dead
WinGoto(pc) == win' = [win EXCEPT !.pc = pc]
WinDone == win' = [pc |-> "idle", msg |-> 0]
At(pc) == waiter.pc = pc /\ ~dead
Goto(pc) == waiter' = [waiter EXCEPT !.pc = pc]

Clear(m) == [msg |-> m, clear |-> TRUE, open |-> session = "open", asked |-> m \in asked]
Encrypted(m) == [msg |-> m, clear |-> FALSE, open |-> session = "open", asked |-> FALSE]

\* rsa_send: the message goes to the session, or in state 0 under the contact's
\* public key if the context has it; else it is dropped
RsaSend(m) ==
    \/ session # "exchange" /\ sent' = sent \cup {Encrypted(m)} /\ lost' = lost
    \/ session # "open" /\ sent' = sent /\ lost' = lost \cup {m}

\* addMsg2Queue walks the list to its end, starting where msgQueue points
AddMsg2Queue(q, m) == Append(q, m)

\* Freed memory may still hold the list, or not.
Walk == /\ bad' = (bad \/ stale)
        /\ dead' \in IF stale THEN BOOLEAN ELSE {dead}

\* rsa_connect does nothing in an exchange or a session
RsaConnect == session' = IF session = "closed" THEN "exchange" ELSE session

-----------------------------------------------------------------------------
(* onSendMsg on the window thread.                                         *)

\* a message is typed: unhandled while the queue is sent, to the session, or
\* to the queue
Type ==
    /\ WinAt("idle")
    /\ typed < MaxMsg
    /\ typed' = typed + 1
    /\ IF sendQueue
       THEN sent' = sent \cup {Clear(typed + 1)} /\ win' = win
       ELSE /\ sent' = sent
            /\ win' = [pc |-> IF session = "open" THEN "send" ELSE "queue", msg |-> typed + 1]
    /\ UNCHANGED <<session, list, flag, sendQueue, lock, waiter, note, asked, lost>>

\* (fault: no return, the message goes to the queue as well)
WinSendFallsThrough ==
    /\ WinAt("send")
    /\ RsaSend(win.msg)
    /\ WinGoto("queue")
    /\ UNCHANGED <<typed, session, list, flag, sendQueue, lock, waiter, note, asked>>

WinSend ==
    /\ WinAt("send")
    /\ RsaSend(win.msg)
    /\ WinDone
    /\ UNCHANGED <<typed, session, list, flag, sendQueue, lock, waiter, note, asked>>

WinQueue ==
    /\ WinAt("queue")
    /\ lock = "free"
    /\ queue' = AddMsg2Queue(queue, win.msg)
    /\ Walk
    /\ win' = [pc |-> "wait", msg |-> 0]
    /\ UNCHANGED <<typed, session, stale, flag, sendQueue, lock, waiter, note, gone>>

\* waitForExchange(ptr,1): a thread, if none is under way
WinWait ==
    /\ WinAt("wait")
    /\ IF flag = 0 THEN flag' = 1 /\ waiter' = [pc |-> "poll", msg |-> 0]
                   ELSE UNCHANGED <<flag, waiter>>
    /\ WinGoto("connect")
    /\ UNCHANGED <<typed, session, list, sendQueue, lock, note, gone>>

WinConnect ==
    /\ WinAt("connect")
    /\ RsaConnect
    /\ WinDone
    /\ UNCHANGED <<typed, list, flag, sendQueue, lock, waiter, note, gone>>

\* SIG_DEIN: the user ends the exchange or the session
WinDisconnect ==
    /\ WinAt("idle")
    /\ session = "exchange" \/ (session = "open" /\ Closable)
    /\ session' = "closed"
    /\ WinGoto("see3")
    /\ UNCHANGED <<typed, list, flag, sendQueue, lock, waiter, note, gone>>

\* rsa_recv of the last test: state 7, and rsa_notify(1)
Opens ==
    /\ WinAt("idle")
    /\ session = "exchange"
    /\ note = "none"
    /\ session' = "open"
    /\ WinGoto("see2")
    /\ UNCHANGED <<typed, list, flag, sendQueue, lock, waiter, note, gone>>

\* waitForExchange(ptr,2) or (ptr,3): the flag is looked at, then set
WinSee ==
    /\ WinAt("see2") \/ WinAt("see3")
    /\ IF flag = 0 THEN WinDone ELSE WinGoto(IF WinAt("see2") THEN "set2" ELSE "set3")
    /\ UNCHANGED <<typed, session, list, flag, sendQueue, lock, waiter, note, gone>>

\* (fault: the new value is added to the old)
WinSetAdds ==
    /\ WinAt("set2") \/ WinAt("set3")
    /\ flag' = flag + IF WinAt("set2") THEN 2 ELSE 3
    /\ WinDone
    /\ UNCHANGED <<typed, session, list, sendQueue, lock, waiter, note, gone>>

WinSet ==
    /\ WinAt("set2") \/ WinAt("set3")
    /\ flag' = IF WinAt("set2") THEN 2 ELSE 3
    /\ WinDone
    /\ UNCHANGED <<typed, session, list, sendQueue, lock, waiter, note, gone>>

Window == \/ WinSend \/ WinQueue \/ WinWait \/ WinConnect \/ WinSee \/ WinSet

-----------------------------------------------------------------------------
(* The worker and the timeout thread, in rsa_notify.                       *)

\* the exchange fails or is over its time, the session fails
Ends ==
    /\ ~dead
    /\ session = "exchange" \/ (session = "open" /\ Closable)
    /\ note = "none"
    /\ session' = "closed"
    /\ note' = "see"
    /\ UNCHANGED <<typed, list, flag, sendQueue, lock, win, waiter, gone>>

\* 0x10 in an open session: the worker begins a new exchange
Renegotiates ==
    /\ ~dead
    /\ session = "open" /\ Closable
    /\ session' = "exchange"
    /\ UNCHANGED <<typed, list, flag, sendQueue, lock, win, waiter, note, gone>>

NoteSee ==
    /\ note = "see" /\ ~dead
    /\ note' = IF flag = 0 THEN "none" ELSE "set"
    /\ UNCHANGED <<typed, session, list, flag, sendQueue, lock, win, waiter, gone>>

NoteSet ==
    /\ note = "set" /\ ~dead
    /\ flag' = 3
    /\ note' = "none"
    /\ UNCHANGED <<typed, session, list, sendQueue, lock, win, waiter, gone>>

-----------------------------------------------------------------------------
(* sttWaitForExchange.                                                     *)

\* (fault: no time limit)
PollFlagOnly ==
    /\ At("poll")
    /\ flag # 1
    /\ Goto("first")
    /\ UNCHANGED <<typed, session, list, flag, sendQueue, lock, win, note, gone>>

\* the polling ends: the flag has changed, or the time is over
Poll ==
    /\ At("poll")
    /\ Goto("first")
    /\ UNCHANGED <<typed, session, list, flag, sendQueue, lock, win, note, gone>>

\* the first look at the flag afterwards
First ==
    /\ At("first")
    /\ Goto(IF flag \in {1, 3} THEN IF queue # <<>> THEN "ask" ELSE "reset" ELSE "second")
    /\ UNCHANGED <<typed, session, list, flag, sendQueue, lock, win, note, gone>>

AnswerNo ==
    /\ At("ask")
    /\ "no" \in Answers
    /\ Goto("reset")
    /\ UNCHANGED <<typed, session, list, flag, sendQueue, lock, win, note, gone>>

AnswerYes ==
    /\ At("ask")
    /\ "yes" \in Answers
    /\ lock = "free"
    /\ lock' = "waiter"
    /\ sendQueue' = TRUE
    /\ asked' = ToSet(queue)
    /\ Goto("clear")
    /\ UNCHANGED <<typed, session, list, flag, win, note, sent, lost>>

\* one message, through onSendMsg, which lets it pass, and off the list
SendClear ==
    /\ At("clear") /\ queue # <<>>
    /\ sent' = sent \cup {Clear(Head(queue))}
    /\ queue' = Tail(queue)
    /\ stale' = TRUE
    /\ UNCHANGED <<typed, session, flag, sendQueue, lock, win, waiter, note, asked, lost,
                   bad, dead>>

\* (fault: localQueueMutex is not left)
ClearDoneLocked ==
    /\ At("clear") /\ queue = <<>>
    /\ stale' = FALSE
    /\ sendQueue' = FALSE
    /\ Goto("reset")
    /\ UNCHANGED <<typed, session, queue, flag, lock, win, note, gone, bad, dead>>

ClearDone ==
    /\ At("clear") /\ queue = <<>>
    /\ stale' = FALSE
    /\ sendQueue' = FALSE
    /\ lock' = "free"
    /\ Goto("reset")
    /\ UNCHANGED <<typed, session, queue, flag, win, note, gone, bad, dead>>

\* outside localQueueMutex
Reset ==
    /\ At("reset")
    /\ flag' = 0
    /\ Goto("none")
    /\ UNCHANGED <<typed, session, list, sendQueue, lock, win, note, gone>>

\* (fault: the list is not locked while it is sent)
SecondUnlocked ==
    /\ At("second")
    /\ IF flag = 2 THEN Goto("resend") ELSE Goto("none")
    /\ UNCHANGED <<typed, session, list, flag, sendQueue, lock, win, note, gone>>

\* (fault: the flag is taken down before the work is done)
SecondTakesFlag ==
    /\ At("second")
    /\ flag' = 0
    /\ IF flag = 2 THEN lock = "free" /\ lock' = "waiter" /\ Goto("resend")
                   ELSE lock' = lock /\ Goto("none")
    /\ UNCHANGED <<typed, session, list, sendQueue, win, note, gone>>

\* the next looks at the flag: 2, or none of the cases and the thread ends (the
\* case of 0, which drops the list, never comes: OneWaiter)
Second ==
    /\ At("second")
    /\ IF flag = 2 THEN lock = "free" /\ lock' = "waiter" /\ Goto("resend")
                   ELSE lock' = lock /\ Goto("none")
    /\ UNCHANGED <<typed, session, list, flag, sendQueue, win, note, gone>>

\* one message, through onSendMsg: in an open session to rsa_send
ResendOpen ==
    /\ At("resend") /\ queue # <<>>
    /\ session = "open"
    /\ waiter' = [pc |-> "send", msg |-> Head(queue)]
    /\ queue' = Tail(queue)
    /\ UNCHANGED <<typed, session, stale, flag, sendQueue, lock, win, note, gone, bad, dead>>

WaiterSend ==
    /\ At("send")
    /\ RsaSend(waiter.msg)
    /\ stale' = TRUE
    /\ waiter' = [pc |-> "resend", msg |-> 0]
    /\ UNCHANGED <<typed, session, queue, flag, sendQueue, lock, win, note, asked, bad, dead>>

\* otherwise a copy goes to the end of the list that is being walked (the lock
\* is recursive), and rsa_connect
ResendClosed ==
    /\ At("resend") /\ queue # <<>>
    /\ session # "open"
    /\ Walk
    /\ queue' = Tail(AddMsg2Queue(queue, Head(queue)))
    /\ stale' = TRUE
    /\ RsaConnect
    /\ UNCHANGED <<typed, flag, sendQueue, lock, win, waiter, note, gone>>

ResendDone ==
    /\ At("resend") /\ queue = <<>>
    /\ stale' = FALSE
    /\ flag' = 0
    /\ lock' = "free"
    /\ Goto("none")
    /\ UNCHANGED <<typed, session, queue, sendQueue, win, note, gone, bad, dead>>

Waiter == \/ Poll \/ First \/ SendClear \/ ClearDone \/ Reset
          \/ Second \/ ResendOpen \/ WaiterSend \/ ResendClosed \/ ResendDone
Answer == AnswerYes \/ AnswerNo

-----------------------------------------------------------------------------
Next == \/ Type \/ WinDisconnect \/ Opens \/ Window
        \/ Ends \/ Renegotiates \/ NoteSee \/ NoteSet
        \/ Waiter \/ Answer

Spec == Init /\ [][Next]_vars

\* The threads run on, and the user answers.
LiveSpec ==
    /\ Spec
    /\ WF_vars(Window) /\ WF_vars(NoteSee \/ NoteSet)
    /\ WF_vars(Waiter) /\ WF_vars(Answer)

\* The peer, too, completes every exchange it is given the time for.
WillingPeerSpec == LiveSpec /\ SF_vars(Opens)

-----------------------------------------------------------------------------
TypeOK ==
    /\ typed \in 0 .. MaxMsg
    /\ session \in {"closed", "exchange", "open"}
    /\ queue \in Seq(Msg)
    /\ flag \in 0 .. 3
    /\ stale \in BOOLEAN /\ sendQueue \in BOOLEAN /\ bad \in BOOLEAN /\ dead \in BOOLEAN
    /\ lock \in {"free", "waiter"}
    /\ win \in [pc : {"idle", "send", "queue", "wait", "connect", "see2", "see3", "set2", "set3"},
                msg : Msg \cup {0}]
    /\ waiter \in [pc : {"none", "poll", "first", "ask", "clear", "reset", "second", "resend", "send"},
                   msg : Msg \cup {0}]
    /\ note \in {"none", "see", "set"}
    /\ sent \subseteq [msg : Msg, clear : BOOLEAN, open : BOOLEAN, asked : BOOLEAN]
    /\ asked \subseteq Msg /\ lost \subseteq Msg

\* Two waiters never work on one queue: while a thread waits, asks or sends,
\* waitForExchange keeps another from being started, whoever writes the flag
\* in between (waitForExchange, sttWaitForExchange).
OneWaiter == waiter.pc # "none" => flag # 0

\* The list is not touched while the waiter sends it, except by the waiter
\* (localQueueMutex in addMsg2Queue).
WalkIsAlone == stale => lock = "waiter"

InHand == {win.msg, waiter.msg} \ {0}

Outbox == INSTANCE Outbox WITH
    pending <- ToSet(queue) \cup InHand,
    out <- {r.msg : r \in sent},
    MayLose <- Closable

\* Every message typed is in one place, goes out once, and is lost only when
\* a session ends.
ImplementsOutbox == Outbox!OSpec

\* Sooner or later the waiter only resends into an open session.
ResendsEnd == <>[](waiter.pc = "resend" => session = "open")

\* The waiter thread ends, whatever becomes of the exchange, so that a later
\* message can get a waiter of its own, unless it resends for ever what the
\* session does not take (sttWaitForExchange).
WaiterEnds == []~dead /\ ResendsEnd => (waiter.pc # "none" ~> waiter.pc = "none")

\* Likewise, whoever adds a message to the queue returns: the lock is given
\* back (addMsg2Queue, sttWaitForExchange).
WindowReturns == ResendsEnd => (WinAt("queue") ~> ~WinAt("queue"))

\* Even then, if the peer answers.
WindowNeverHeld == WinAt("queue") ~> ~WinAt("queue")

\* A message in the queue has a thread that waits and resends it.
QueueHasWaiter ==
    queue # <<>> => waiter.pc # "none" \/ win.pc = "wait"

\* The queue is resent only through the session, and addMsg2Queue walks a
\* list that is there.
ResentInSession == ~bad

\* The encrypted message a user sees as sent is sent.
NothingDropped == lost = {}

\* Unencrypted messages are those the user was asked about.
ClearWasAsked == \A r \in sent : r.clear => r.asked

\* Messages go out unencrypted only if the exchange has failed.
ClearOnlyUnestablished == \A r \in sent : r.clear => ~r.open

=============================================================================
