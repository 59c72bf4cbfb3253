----------------------------- MODULE RsaSession -----------------------------
(***************************************************************************)
(* The RSA/AES session protocol of CryptoPP (cpp_rsam.cpp, cpp_cntx.cpp)   *)
(* as the SecureIM plugin drives it (svcs_rsa.cpp, svcs_proto.cpp): two    *)
(* contacts in RSA/AES mode, each with its contact record, its crypto      *)
(* context, the window thread that runs rsa_recv, the worker thread that   *)
(* runs rsa_recv_thread, the timeout thread, and the dialogs in which the  *)
(* user accepts or refuses a public key.                                   *)
(*                                                                         *)
(* Abstracted: cryptography (an AES key is a number, a public key is the   *)
(* name of its owner; encrypting, signing and hashing are what they let    *)
(* the receiver tell apart), message texts, splitting into parts, popups   *)
(* and logging, and clock values (a deadline may pass at any moment).      *)
(***************************************************************************)
EXTENDS Naturals, Sequences

CONSTANTS
    Alice, Bob,     \* the two contacts; a contact's name is also its RSA key pair
    OldKey,         \* a key pair the contact no longer uses
    None,           \* no public key
    AutoAccept,     \* bAAK: rsa_check_pub accepts without asking
    TimersExpire,   \* can an exchange outlast the "ket" seconds of its timer?
    MaxConnect,     \* bound: exchanges started by the two users together
    MaxUser,        \* bound: other commands of the two users and status changes
    MaxLoss,        \* bound: messages the network loses
    MaxDup,         \* bound: messages the network delivers twice
    MaxKey          \* bound: AES keys drawn

ASSUME ConstantsOK ==
    /\ Alice # Bob
    /\ OldKey \notin {Alice, Bob}
    /\ None \notin {Alice, Bob, OldKey}
    /\ AutoAccept \in BOOLEAN
    /\ TimersExpire \in BOOLEAN
    /\ {MaxConnect, MaxUser, MaxLoss, MaxDup, MaxKey} \subseteq Nat

Endpoint == {Alice, Bob}
Peer(e) == IF e = Alice THEN Bob ELSE Alice
PubKey == {Alice, Bob, OldKey}

NoKey == 0      \* an empty aes_k; the keys gen_aes_key_iv draws are 1, 2, ...

VARIABLES
    net,        \* net[e]: messages on their way to e, in order
    uin,        \* uin[e]: e's UinKey record for the other contact
    pdata,      \* pdata[e]: the RSADATA of e's crypto context
    main,       \* main[e]: where e's window thread is inside rsa_recv
    dialog,     \* dialog[e]: keys asked about for contexts deleted meanwhile
    lastKey,    \* number of AES keys drawn so far
    held,       \* held[e]: AES keys e has ever had (history)
    tested,     \* tested[e]: key with which e last decoded a crypto test (history)
    budget      \* what is left of each bound

vars == <<net, uin, pdata, main, dialog, lastKey, held, tested, budget>>

-----------------------------------------------------------------------------
(* Messages.  The type is the code's first byte, in hex.  "own" is the     *)
(* sender's public key or its hash or the key the sender signed with;      *)
(* "peer" is the key the sender has for the receiver (sent as a hash, or   *)
(* encrypted to); "aes" is the AES key carried or encrypted with.          *)

Exchange == {"21", "22", "23", "24", "32", "33", "34", "40"}
WorkerTypes == {"10"} \cup Exchange
Types == WorkerTypes \cup {"50", "60", "70", "E0", "F0", "00", "FF"}

Message == [type : Types, own : PubKey \cup {None},
            peer : PubKey \cup {None}, aes : Nat]

Plain(t) == [type |-> t, own |-> None, peer |-> None, aes |-> NoKey]
WithPub(t, own, peer) == [type |-> t, own |-> own, peer |-> peer, aes |-> NoKey]
WithAes(t, k) == [type |-> t, own |-> None, peer |-> None, aes |-> k]
Sealed(t, own, peer, k) == [type |-> t, own |-> own, peer |-> peer, aes |-> k]

\* type>>4 of the messages that belong to one step of the exchange
StepOf == [t \in Exchange \cup {"50", "60", "70"} |->
    CASE t \in {"21", "22", "23", "24"} -> 2
      [] t \in {"32", "33", "34"}       -> 3
      [] t = "40"                       -> 4
      [] t = "50"                       -> 5
      [] t = "60"                       -> 6
      [] t = "70"                       -> 7]

\* un_tlv yields type -1 for a record with an empty value, and both null_msg
\* and rsa_disabled send one.
Readable(m) == m.type \notin {"00", "FF"}

\* (fault: any text decodes)
DecodesAnyText(d, m) == d.aes_k # NoKey

\* decode_msg: the receiver's AES key must be the one encrypted with
Decodes(d, m) == d.aes_k # NoKey /\ d.aes_k = m.aes

\* decode_rsa: encrypted to e's key, signed by the key e has for the sender
Opens(e, d, m) == m.peer = e /\ d.pub_k # None /\ m.own = d.pub_k

-----------------------------------------------------------------------------
(* Contexts.                                                               *)

\* rsa_alloc
FreshData == [state |-> 0, time |-> FALSE, expired |-> FALSE, pub_k |-> None,
              aes_k |-> NoKey, event |-> FALSE, queue |-> <<>>, busy |-> FALSE]

InExchange(d) == d.state \notin {0, 7}

\* (fault: only rsa_connect starts the timer)
RearmNever(d) == d

\* the tail of rsa_recv and of rsa_recv_thread: rearm the timer
Rearm(d) == IF InExchange(d) THEN [d EXCEPT !.time = TRUE] ELSE d

\* createRSAcntx, then loadRSAkey
NeedsKey(e) == ~uin[e].cntx \/ ~uin[e].keyLoaded
OpenUin(e) == [uin[e] EXCEPT !.cntx = TRUE,
                 !.keyLoaded = IF NeedsKey(e) THEN uin[e].rsa_pub # None ELSE TRUE]
OpenData(e) == IF NeedsKey(e) /\ uin[e].rsa_pub # None
               THEN [pdata[e] EXCEPT !.pub_k = uin[e].rsa_pub]
               ELSE pdata[e]

\* (fault: no case 0x33)
AsksNot33(m) == m.type \in {"22", "24", "34"}

\* A context that goes away while its worker has a question on the screen
\* leaves the question there.
Asks(m) == m.type \in {"22", "24", "33", "34"}
LeaveDialog(e) ==
    IF pdata[e].busy /\ Asks(Head(pdata[e].queue))
    THEN [dialog EXCEPT ![e] = @ \cup {Head(pdata[e].queue).own}]
    ELSE dialog

\* deleteRSAcntx.  Nothing else that the worker, the window thread and the
\* timeout thread still do for the deleted context reaches a contact, because
\* getUinCtx no longer finds one.
Shut(e) ==
    /\ uin' = [uin EXCEPT ![e] = [@ EXCEPT !.cntx = FALSE, !.keyLoaded = FALSE]]
    /\ pdata' = [pdata EXCEPT ![e] = FreshData]
    /\ main' = [main EXCEPT ![e] = "idle"]
    /\ UNCHANGED <<lastKey, held, tested>>
Close(e) == Shut(e) /\ dialog' = LeaveDialog(e)

\* rsa_inject
Send(e, m) == net' = [net EXCEPT ![Peer(e)] = Append(@, m)]

\* e consumes its first message (m is sent back)
Consume(e) == net' = [net EXCEPT ![e] = Tail(@)]
Answer(e, m) == net' = [net EXCEPT ![e] = Tail(@), ![Peer(e)] = Append(@, m)]

Spend(what) == budget[what] > 0 /\ budget' = [budget EXCEPT ![what] = @ - 1]

-----------------------------------------------------------------------------
Init ==
    /\ net = [e \in Endpoint |-> <<>>]
    /\ uin \in {u \in [Endpoint -> [cntx : {FALSE}, keyLoaded : {FALSE},
                         rsa_pub : PubKey \cup {None}, disabled : {FALSE}]] :
                  \A e \in Endpoint : u[e].rsa_pub # e}
    /\ pdata = [e \in Endpoint |-> FreshData]
    /\ main = [e \in Endpoint |-> "idle"]
    /\ dialog = [e \in Endpoint |-> {}]
    /\ lastKey = 0
    /\ held = [e \in Endpoint |-> {}]
    /\ tested = [e \in Endpoint |-> NoKey]
    /\ budget = [connect |-> MaxConnect, user |-> MaxUser, loss |-> MaxLoss, dup |-> MaxDup]

-----------------------------------------------------------------------------
(* The user's commands and status changes.                                 *)

\* onSendMsg with SIG_INIT or with a first message: rsa_connect
Connect(e) ==
    /\ Spend("connect")
    /\ ~uin[e].disabled
    /\ pdata[e].state = 0
    /\ uin' = [uin EXCEPT ![e] = OpenUin(e)]
    /\ pdata' = [pdata EXCEPT ![e] = [OpenData(e) EXCEPT !.state = 2, !.time = TRUE]]
    /\ Send(e, WithPub("10", e, OpenData(e).pub_k))
    /\ UNCHANGED <<main, dialog, lastKey, held, tested>>

\* onSendMsg with SIG_DEIN: rsa_disconnect, deleteRSAcntx.  With a worker
\* alive rsa_free has already put a blank RSADATA in place: nothing is sent.
Disconnect(e) ==
    /\ Spend("user")
    /\ main[e] = "idle"
    /\ uin[e].cntx /\ ~uin[e].disabled
    /\ IF pdata[e].event \/ pdata[e].state = 0
       THEN UNCHANGED net
       ELSE Send(e, WithAes("F0", pdata[e].aes_k))
    /\ Close(e)

\* onContactSettingChanged: the contact goes offline while a session is open
GoesOffline(e) ==
    /\ Spend("user")
    /\ main[e] = "idle"
    /\ pdata[e].state = 7
    /\ Close(e)
    /\ UNCHANGED net

\* onSendMsg to an open session: rsa_send in state 7
SendData(e) ==
    /\ Spend("user")
    /\ ~uin[e].disabled
    /\ pdata[e].state = 7
    /\ Send(e, WithAes("70", pdata[e].aes_k))
    /\ UNCHANGED <<uin, pdata, main, dialog, lastKey, held, tested>>

\* onSendMsg to a contact shown as offline, with bSOM: a context in any state
\* but 0 is replaced first (resetRSAcntx), then loadRSAkey and rsa_send.
SendOffline(e) ==
    LET reset == uin[e].cntx /\ pdata[e].state # 0
        key == uin[e].rsa_pub
        u == IF reset THEN [uin[e] EXCEPT !.keyLoaded = key # None] ELSE OpenUin(e)
        d == IF reset THEN [FreshData EXCEPT !.pub_k = key] ELSE OpenData(e)
    IN
    /\ Spend("user")
    /\ main[e] = "idle"
    /\ ~uin[e].disabled
    /\ uin' = [uin EXCEPT ![e] = u]
    /\ pdata' = [pdata EXCEPT ![e] = d]
    /\ dialog' = IF reset THEN LeaveDialog(e) ELSE dialog
    /\ IF u.keyLoaded /\ d.pub_k # None
       THEN Send(e, WithPub("E0", e, d.pub_k))
       ELSE UNCHANGED net
    /\ UNCHANGED <<main, lastKey, held, tested>>

\* Service_Status: SecureIM is disabled for the contact, or enabled again
SetStatus(e) ==
    /\ Spend("user")
    /\ main[e] = "idle"
    /\ uin' = [uin EXCEPT ![e] = [@ EXCEPT !.disabled = ~uin[e].disabled]]
    /\ UNCHANGED <<net, pdata, main, dialog, lastKey, held, tested>>

\* onSendMsg with SIG_INIT or SIG_DEIN while disabled: rsa_disabled, deleteRSAcntx
CommandWhileDisabled(e) ==
    /\ Spend("user")
    /\ main[e] = "idle"
    /\ uin[e].disabled /\ uin[e].cntx
    /\ Send(e, Plain("FF"))
    /\ Close(e)

-----------------------------------------------------------------------------
(* rsa_recv, on e's window thread, called by onRecvMsg for a message that   *)
(* starts with the RSA signature.                                          *)

Arrives(e, m) ==
    /\ main[e] = "idle"
    /\ m = Head(net[e])
    /\ ~uin[e].disabled
    /\ UNCHANGED budget

\* (fault: p->state is compared with 0 only)
WrongStepIfIdle(e, m) == m.type \in DOMAIN StepOf /\ pdata[e].state = 0

\* the message belongs to a step of the exchange, and not to this one
WrongStep(e, m) == m.type \in DOMAIN StepOf /\ pdata[e].state # StepOf[m.type]

\* onRecvMsg for a disabled contact: rsa_disabled, deleteRSAcntx
RecvWhileDisabled(e) ==
    /\ main[e] = "idle"
    /\ net[e] # <<>>
    /\ uin[e].disabled
    /\ Answer(e, Plain("FF"))
    /\ Close(e)
    /\ UNCHANGED budget

\* nothing but createRSAcntx and loadRSAkey
Ignore(e) ==
    /\ Consume(e)
    /\ uin' = [uin EXCEPT ![e] = OpenUin(e)]
    /\ pdata' = [pdata EXCEPT ![e] = OpenData(e)]
    /\ UNCHANGED <<main, dialog, lastKey, held, tested>>

\* the value is empty: type -1, the switch is never reached
RecvUnreadable(e, m) ==
    /\ Arrives(e, m)
    /\ ~Readable(m)
    /\ Ignore(e)

\* not the message this state waits for: null_msg(0x00,-1)
RecvWrongStep(e, m) ==
    /\ Arrives(e, m)
    /\ WrongStep(e, m)
    /\ Answer(e, Plain("00"))
    /\ Close(e)

\* left to the worker thread, which is started if there is none
RecvForWorker(e, m) ==
    /\ Arrives(e, m)
    /\ m.type \in WorkerTypes
    /\ ~WrongStep(e, m)
    /\ Consume(e)
    /\ uin' = [uin EXCEPT ![e] = OpenUin(e)]
    /\ pdata' = [pdata EXCEPT ![e] = Rearm([OpenData(e) EXCEPT !.event = TRUE,
                                              !.queue = Append(@, m)])]
    /\ UNCHANGED <<main, dialog, lastKey, held, tested>>

\* 0x50 and 0x60, first half: decode_msg
RecvTest(e, m) ==
    /\ Arrives(e, m)
    /\ m.type \in {"50", "60"}
    /\ ~WrongStep(e, m)
    /\ IF Decodes(pdata[e], m)
       THEN /\ Consume(e)
            /\ uin' = [uin EXCEPT ![e] = OpenUin(e)]
            /\ pdata' = [pdata EXCEPT ![e] = OpenData(e)]
            /\ main' = [main EXCEPT ![e] = IF m.type = "50" THEN "reply" ELSE "accept"]
            /\ tested' = [tested EXCEPT ![e] = pdata[e].aes_k]
            /\ UNCHANGED <<dialog, lastKey, held>>
       ELSE /\ Answer(e, Plain("00"))
            /\ Close(e)

\* second half: the answer to 0x50, state 7, and rsa_free_thread up to its wait
Establish(e) ==
    /\ main[e] \in {"reply", "accept"}
    /\ pdata' = [pdata EXCEPT ![e] = [@ EXCEPT !.state = 7, !.time = FALSE]]
    /\ main' = [main EXCEPT ![e] = "join"]
    /\ IF main[e] = "reply"
       THEN Send(e, WithAes("60", pdata[e].aes_k))
       ELSE UNCHANGED net
    /\ UNCHANGED <<uin, dialog, lastKey, held, tested, budget>>

\* the worker is gone: the rest of rsa_free_thread, rsa_notify(1) and the tail
Join(e) ==
    /\ main[e] = "join"
    /\ ~pdata[e].busy
    /\ pdata' = [pdata EXCEPT ![e] = Rearm([@ EXCEPT !.event = FALSE,
                                              !.time = FALSE, !.queue = <<>>])]
    /\ main' = [main EXCEPT ![e] = "idle"]
    /\ UNCHANGED <<net, uin, dialog, lastKey, held, tested, budget>>

\* 0x70 in state 7: shown to the user, or rsa_notify(-5)
RecvData(e, m) ==
    /\ Arrives(e, m)
    /\ m.type = "70"
    /\ ~WrongStep(e, m)
    /\ IF Decodes(pdata[e], m) THEN Ignore(e) ELSE Consume(e) /\ Close(e)

\* 0xE0 in any state: shown to the user, or rsa_notify(-6)
RecvOffline(e, m) ==
    /\ Arrives(e, m)
    /\ m.type = "E0"
    /\ IF Opens(e, OpenData(e), m) THEN Ignore(e) ELSE Consume(e) /\ Close(e)

\* 0xF0: the other side disconnects; only an open session listens
RecvDisconnect(e, m) ==
    /\ Arrives(e, m)
    /\ m.type = "F0"
    /\ IF pdata[e].state = 7 /\ Decodes(pdata[e], m)
       THEN Consume(e) /\ Close(e)
       ELSE Ignore(e)

Recv(e) ==
    /\ net[e] # <<>>
    /\ LET m == Head(net[e]) IN
       \/ RecvUnreadable(e, m)
       \/ RecvWrongStep(e, m)
       \/ RecvForWorker(e, m)
       \/ RecvTest(e, m)
       \/ RecvData(e, m)
       \/ RecvOffline(e, m)
       \/ RecvDisconnect(e, m)

-----------------------------------------------------------------------------
(* sttConnectThread and rsa_recv_thread, on e's worker thread.             *)

\* the loop head: thread_exit is read once, then the front message is handled
Take(e) ==
    /\ pdata[e].event /\ ~pdata[e].busy /\ pdata[e].queue # <<>>
    /\ main[e] # "join"
    /\ pdata' = [pdata EXCEPT ![e] = [@ EXCEPT !.busy = TRUE]]
    /\ UNCHANGED <<net, uin, main, dialog, lastKey, held, tested, budget>>

Handles(e, m) == m = Head(pdata[e].queue) /\ UNCHANGED budget

\* d is the RSADATA the handler leaves; the tail rearms the timer, the loop pops
Done(e, d) ==
    /\ pdata' = [pdata EXCEPT ![e] = [Rearm(d) EXCEPT !.busy = FALSE, !.queue = Tail(@)]]
    /\ UNCHANGED <<main, dialog, tested>>

\* (fault: the state counts the steps, as Note 0 of readme.txt has it)
SendFreshKeyCounts(e, t, d) ==
    /\ lastKey < MaxKey
    /\ lastKey' = lastKey + 1
    /\ held' = [held EXCEPT ![e] = @ \cup {lastKey + 1}]
    /\ Send(e, Sealed(t, e, d.pub_k, lastKey + 1))
    /\ Done(e, [d EXCEPT !.aes_k = lastKey + 1, !.state = @ + 1])

\* gen_aes_key_iv, and encode_rsa for the key d holds
SendFreshKey(e, t, d) ==
    /\ lastKey < MaxKey
    /\ lastKey' = lastKey + 1
    /\ held' = [held EXCEPT ![e] = @ \cup {lastKey + 1}]
    /\ Send(e, Sealed(t, e, d.pub_k, lastKey + 1))
    /\ Done(e, [d EXCEPT !.aes_k = lastKey + 1, !.state = 5])

\* 0x10, in whatever state: which of the two public keys is out of date?
HandleConnect(e, m) ==
    LET d == pdata[e]
        lr == d.pub_k = m.own
        ll == m.peer = e
    IN
    /\ Handles(e, m)
    /\ m.type = "10"
    /\ UNCHANGED uin
    /\ IF lr /\ ll
       THEN SendFreshKey(e, "21", d)
       ELSE /\ Send(e, IF ll THEN Plain("23")
                       ELSE WithPub(IF lr THEN "22" ELSE "24", e, None))
            /\ Done(e, [d EXCEPT !.state = 3])
            /\ UNCHANGED <<lastKey, held>>

\* 0x23: the other side wants our public key
HandleKeyWanted(e, m) ==
    /\ Handles(e, m)
    /\ m.type = "23"
    /\ Send(e, WithPub("33", e, None))
    /\ Done(e, [pdata[e] EXCEPT !.state = 4])
    /\ UNCHANGED <<uin, lastKey, held>>

\* 0x22, 0x24, 0x33, 0x34: rsa_check_pub says yes, the key is stored and used
AcceptKey(e, m) ==
    LET d == [pdata[e] EXCEPT !.pub_k = m.own] IN
    /\ Handles(e, m)
    /\ Asks(m)
    /\ uin' = [uin EXCEPT ![e] = [@ EXCEPT !.rsa_pub = m.own, !.keyLoaded = TRUE]]
    /\ IF m.type = "24"
       THEN /\ Send(e, WithPub("34", e, None))
            /\ Done(e, [d EXCEPT !.state = 4])
            /\ UNCHANGED <<lastKey, held>>
       ELSE SendFreshKey(e, IF m.type = "22" THEN "32" ELSE "40", d)

\* rsa_check_pub says no: null_msg(0x00,-type).  The question is answered.
RefuseKey(e, m) ==
    /\ Handles(e, m)
    /\ Asks(m)
    /\ ~AutoAccept
    /\ Send(e, Plain("00"))
    /\ Shut(e) /\ dialog' = dialog

\* 0x21, 0x32, 0x40: the AES key, answered by a crypto test
HandleAesKey(e, m) ==
    /\ Handles(e, m)
    /\ m.type \in {"21", "32", "40"}
    /\ IF Opens(e, pdata[e], m)
       THEN /\ Send(e, WithAes("50", m.aes))
            /\ held' = [held EXCEPT ![e] = @ \cup {m.aes}]
            /\ Done(e, [pdata[e] EXCEPT !.aes_k = m.aes, !.state = 6])
            /\ UNCHANGED <<uin, lastKey>>
       ELSE /\ Send(e, Plain("00"))
            /\ Close(e)

Work(e) ==
    /\ pdata[e].busy
    /\ LET m == Head(pdata[e].queue) IN
       \/ HandleConnect(e, m)
       \/ HandleKeyWanted(e, m)
       \/ AcceptKey(e, m)
       \/ RefuseKey(e, m)
       \/ HandleAesKey(e, m)

\* The user answers a question whose context is gone: yes still stores the key
\* and marks it loaded, then the worker finds state 0 and gives up.
LateAccept(e) == \E k \in dialog[e] :
    /\ dialog' = [dialog EXCEPT ![e] = @ \ {k}]
    /\ uin' = [uin EXCEPT ![e] = [@ EXCEPT !.rsa_pub = k, !.keyLoaded = TRUE]]
    /\ UNCHANGED <<net, pdata, main, lastKey, held, tested, budget>>

\* no, or rsa_check_pub was entered only after the context was deleted
LateRefuse(e) == \E k \in dialog[e] :
    /\ dialog' = [dialog EXCEPT ![e] = @ \ {k}]
    /\ UNCHANGED <<net, uin, pdata, main, lastKey, held, tested, budget>>

-----------------------------------------------------------------------------
(* sttTimeoutThread: the check of p->time, then rsa_timeout, which tests    *)
(* nothing again.                                                          *)

Expire(e) ==
    /\ TimersExpire
    /\ pdata[e].time /\ ~pdata[e].expired
    /\ pdata' = [pdata EXCEPT ![e] = [@ EXCEPT !.expired = TRUE]]
    /\ UNCHANGED <<net, uin, main, dialog, lastKey, held, tested, budget>>

Timeout(e) ==
    /\ pdata[e].expired
    /\ Close(e)
    /\ UNCHANGED <<net, budget>>

-----------------------------------------------------------------------------
(* The network between the two messengers.                                 *)

Lose(e) ==
    /\ Spend("loss")
    /\ net[e] # <<>>
    /\ Consume(e)
    /\ UNCHANGED <<uin, pdata, main, dialog, lastKey, held, tested>>

Duplicate(e) ==
    /\ Spend("dup")
    /\ net[e] # <<>>
    /\ net' = [net EXCEPT ![e] = Append(@, Head(@))]
    /\ UNCHANGED <<uin, pdata, main, dialog, lastKey, held, tested>>

-----------------------------------------------------------------------------
User(e) == \/ Connect(e) \/ Disconnect(e) \/ GoesOffline(e)
           \/ SendData(e) \/ SendOffline(e)
           \/ SetStatus(e) \/ CommandWhileDisabled(e)

Next == \E e \in Endpoint :
    \/ User(e)
    \/ RecvWhileDisabled(e) \/ Recv(e) \/ Establish(e) \/ Join(e)
    \/ Take(e) \/ Work(e) \/ LateAccept(e) \/ LateRefuse(e)
    \/ Expire(e) \/ Timeout(e)
    \/ Lose(e) \/ Duplicate(e)

Spec == Init /\ [][Next]_vars

\* sttTimeoutThread looks at every context once a second, for ever
TimeoutThread(e) == WF_vars(Expire(e)) /\ WF_vars(Timeout(e))
FairSpec == Spec /\ \A e \in Endpoint : TimeoutThread(e)

\* and the messenger delivers what the network does not lose, and the window
\* thread and the worker, which waits for nothing when AutoAccept, go on
Delivery(e) == WF_vars(Recv(e) \/ RecvWhileDisabled(e))
Threads(e) == WF_vars(Establish(e)) /\ WF_vars(Join(e))
              /\ WF_vars(Take(e)) /\ WF_vars(Work(e))
LiveSpec == FairSpec /\ \A e \in Endpoint : Delivery(e) /\ Threads(e)

-----------------------------------------------------------------------------
(* Properties.                                                             *)

UinKey == [cntx : BOOLEAN, keyLoaded : BOOLEAN,
           rsa_pub : PubKey \cup {None}, disabled : BOOLEAN]

RSADATA == [state : {0, 2, 3, 4, 5, 6, 7}, time : BOOLEAN, expired : BOOLEAN,
            pub_k : PubKey \cup {None}, aes_k : Nat, event : BOOLEAN,
            queue : Seq(Message), busy : BOOLEAN]

TypeOK ==
    /\ net \in [Endpoint -> Seq(Message)]
    /\ uin \in [Endpoint -> UinKey]
    /\ pdata \in [Endpoint -> RSADATA]
    /\ main \in [Endpoint -> {"idle", "reply", "accept", "join"}]
    /\ dialog \in [Endpoint -> SUBSET (PubKey \cup {None})]
    /\ lastKey \in 0 .. MaxKey
    /\ held \in [Endpoint -> SUBSET Nat]
    /\ tested \in [Endpoint -> Nat]
    /\ budget \in [{"connect", "user", "loss", "dup"} -> Nat]

Open(e) == pdata[e].state = 7

\* What the protocol keeps of the abstract state: the phase is the state of the
\* context, the evidence the key of the last crypto test that decoded.
Phase(d) == IF InExchange(d) THEN "exchange"
            ELSE IF d.state = 7 THEN "open" ELSE "none"
Session == INSTANCE SecureSession WITH
    Key <- 1 .. MaxKey,
    phase <- [e \in Endpoint |-> Phase(pdata[e])],
    evidence <- [e \in Endpoint |-> {tested[e]} \ {NoKey}],
    known <- held

\* RsaSession implements SecureSession: a contact enters state 7 only out of
\* an exchange and on the evidence of a key both have, and an AES key appears
\* at one contact by gen_aes_key_iv and at the other only from there
\* (rsa_recv, rsa_recv_thread).
ImplementsSecureSession == Session!SSpec

\* Every exchange under way has its timer armed, and no timer runs in an idle
\* context or an open session: the window thread, the worker and the timeout
\* thread all write p->time, and none may leave it behind (cpp_rsam.cpp).
TimerArmed == \A e \in Endpoint :
    main[e] = "idle" => (pdata[e].time <=> InExchange(pdata[e]))

\* An open session was tested with a key that the other contact has: rsa_recv
\* sets state 7 only for a crypto test that decodes (0x50, 0x60), and an AES
\* key travels only under the public key of its receiver.
PeerAuthenticated == \A e \in Endpoint :
    Open(e) => tested[e] \in held[e] \cap held[Peer(e)]

\* When both contacts see the session open and no window thread is inside
\* rsa_recv, both encrypt with the same key, whatever crossing exchanges,
\* refusals, timeouts and lost messages came before.
SessionKeyAgreement ==
    (\A e \in Endpoint : Open(e) /\ main[e] = "idle")
        => pdata[Alice].aes_k = pdata[Bob].aes_k

\* The key of an open session is one the other contact has: rsa_send uses
\* p->aes_k for every message from the moment p->state is 7 (0x50 and 0x60 in
\* rsa_recv test the key in one step and set the state in another).
SessionKeyShared == \A e \in Endpoint :
    Open(e) /\ main[e] = "idle" => pdata[e].aes_k \in held[Peer(e)]

\* keyLoaded says that the public key is in the context (loadRSAkey):
\* otherwise rsa_send to an offline contact drops the message unseen.
KeyLoadedMeansKey == \A e \in Endpoint :
    uin[e].cntx /\ uin[e].keyLoaded => pdata[e].pub_k # None

\* Whoever receives a preamble 0 in the middle of an exchange gives it up
\* (rsa_recv, case 0x00).
AbortEndsExchange == [][\A e \in Endpoint :
    net[e] # <<>> /\ Head(net[e]).type = "00" /\ Recv(e)
        => ~InExchange(pdata[e])']_vars

\* Whoever receives a preamble F gives up the session, open or not
\* (rsa_recv, case 0xF0).
DisconnectHeeded == [][\A e \in Endpoint :
    net[e] # <<>> /\ Head(net[e]).type = "F0" /\ Recv(e)
        => pdata'[e].state = 0]_vars

\* The timeout thread ends exchanges, never an established session
\* (sttTimeoutThread, rsa_timeout).
TimeoutSparesOpenSession == [][\A e \in Endpoint : Open(e) => ~Timeout(e)]_vars

\* No exchange lasts for ever: it ends in an open session or in none, even if
\* the other contact, the network or the user in front of a question stops
\* answering (sttTimeoutThread).
ExchangeEnds == \A e \in Endpoint : InExchange(pdata[e]) ~> ~InExchange(pdata[e])

\* Without losses, expired timers or user intervention an exchange opens the
\* session on both sides, whichever of the two stored public keys is missing
\* or out of date (the four answers of rsa_recv_thread to 0x10).
SessionEstablished ==
    (\E e \in Endpoint : InExchange(pdata[e])) ~> \A e \in Endpoint : Open(e)

\* A session open on one side only does not stay so.
HalfOpenEnds == \A e \in Endpoint :
    LET halfOpen == Open(e) /\ pdata[Peer(e)].state = 0
    IN  halfOpen ~> ~halfOpen

=============================================================================
