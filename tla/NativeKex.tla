------------------------------ MODULE NativeKex ------------------------------
(***************************************************************************)
(* The native key exchange (svcs_proto.cpp, crypt_dll.cpp, cpp_keys.cpp):  *)
(* two contacts agree on a Diffie-Hellman key in two messages (KEYR, KEYR) *)
(* or in three (KEYR, KEYA, KEYB, with the new parameters), or find that   *)
(* both know RSA/AES and leave for it; messages that cannot be read come   *)
(* back for resending, a key agreed once serves while a contact is         *)
(* offline, and the type of a message decides the mode of its receiver.    *)
(*                                                                         *)
(* Abstracted: a key pair is a number, a secret the set of the two numbers *)
(* it comes from; no pre-shared key, and a key message that arrives can be *)
(* read; contacts are enabled and known to use SecureIM, offline messages  *)
(* are on; the waiter is one step where ExchangeQueue has several; the     *)
(* exchange of RSA/AES is a request and its answer (RsaSession).           *)
(*                                                                         *)
(* A version announces what it knows in its key message (FEATURES): a      *)
(* debug build "newpg", a release build "rsa".  A peer that announces      *)
(* neither is an "old" version, which runs the two-message exchange.       *)
(***************************************************************************)
EXTENDS Naturals, Sequences, SequencesExt, FiniteSets

CONSTANTS
    Alice, Bob,     \* the two contacts
    Versions,       \* which versions the two may have, what each announces
    Modes,          \* the modes a contact may be in at first
    Typists,        \* who types messages
    MaxMsg,         \* bound: messages typed
    Disturbances,   \* what else may happen, each once
    MaxDisturb,     \* bound: how many of them
    MaxKey          \* bound: key pairs drawn

Endpoint == {Alice, Bob}
Peer(e) == IF e = Alice THEN Bob ELSE Alice

ASSUME KexOK ==
    /\ Alice # Bob
    /\ Versions \subseteq [Endpoint -> {"old", "newpg", "rsa"}]
    /\ Modes \subseteq {"native", "rsa"}
    /\ Typists \subseteq Endpoint
    /\ Disturbances \subseteq {"init", "deinit", "mode", "restart", "status"}
    /\ {MaxMsg, MaxDisturb, MaxKey} \subseteq Nat

Msg == 1 .. MaxMsg

VARIABLES
    build,      \* FEATURES of each version
    uin,        \* uin[e]: e's UinKey record of the other, with context and settings
    net,        \* net[e]: messages on their way to e, in order
    typed,      \* number of messages typed so far
    fate,       \* what became of the text of a message
    drawn,      \* key pairs drawn
    disturbed   \* what of Disturbances has happened

vars == <<build, uin, net, typed, fate, drawn, disturbed>>
given == <<typed, disturbed>>

NoKey == [id |-> 0, new |-> FALSE]

Fresh(mode) ==
    [mode |-> mode, cntx |-> "none", rsa |-> "none", keyA |-> NoKey, keyB |-> NoKey,
     keyX |-> {}, offlineKey |-> FALSE, waitForExchange |-> 0, msgQueue |-> <<>>,
     online |-> TRUE, stored |-> {}]

Init ==
    /\ build \in Versions
    /\ \E mode \in [Endpoint -> Modes] : uin = [e \in Endpoint |-> Fresh(mode[e])]
    /\ net = [e \in Endpoint |-> <<>>]
    /\ fate = [m \in Msg |-> "open"]
    /\ drawn = 0
    /\ typed = 0 /\ disturbed = {}

Disturb(d) ==
    /\ d \in Disturbances \ disturbed
    /\ Cardinality(disturbed) < MaxDisturb
    /\ disturbed' = disturbed \cup {d}
    /\ typed' = typed

-----------------------------------------------------------------------------
(* Contexts.                                                               *)

KeyMessage(t, k) == [type |-> t, key |-> k, keyX |-> {}, msg |-> 0]
Cipher(t, x, m) == [type |-> t, key |-> NoKey, keyX |-> x, msg |-> m]
Signature(t) == KeyMessage(t, NoKey)

\* cpp_free_keys: a context of the native mode, or one of RSA/AES
ResetContext(u) ==
    [u EXCEPT !.keyA = NoKey, !.keyB = NoKey, !.keyX = {}, !.rsa = "none"]
DeleteContext(u) == [ResetContext(u) EXCEPT !.cntx = "none"]
CreateContext(u, t) == IF u.cntx = "none" THEN [u EXCEPT !.cntx = t] ELSE u
DeleteRSAcntx(u) == DeleteContext(u)

Drawn(new) == [id |-> drawn + 1, new |-> new]
\* (fault: the parameters are always the old ones)
InitKeyAOldPrime(u, new) == [CreateContext(u, "sim") EXCEPT !.keyA = Drawn(FALSE)]
InitKeyA(u, new) == [CreateContext(u, "sim") EXCEPT !.keyA = Drawn(new)]
InitKeyB(u, k) == [CreateContext(u, "sim") EXCEPT !.keyB = k]

\* cpp_set_keyx refuses a context of another mode
InitKeyX(u, x) == LET v == CreateContext(u, "sim") IN
    IF v.cntx = "sim" THEN [ResetContext(v) EXCEPT !.keyX = x] ELSE v

\* (fault: KeyB is not looked at)
ReadyWithoutKeyB(u) == u.keyA # NoKey /\ u.keyX = {}
Ready(u) == u.keyA # NoKey /\ u.keyB # NoKey /\ u.keyX = {}

\* (fault: KeyA and KeyB are kept)
AgreedKeepsKeys(u) == [u EXCEPT !.keyX = {u.keyA.id, u.keyB.id},
                                !.stored = {u.keyA.id, u.keyB.id}]

\* cpp_calc_keyx frees what it used, CalculateKeyX stores the setting "offlineKey"
Agreed(u) == [ResetContext(u) EXCEPT !.keyX = {u.keyA.id, u.keyB.id},
                                     !.stored = {u.keyA.id, u.keyB.id}]

\* CalculateKeyX.  Agree checks the other's key against the own parameters: a
\* key drawn with the new ones passes for one of the old ones, or not.
CalculateKeyX(u) ==
    CASE u.keyA.new = u.keyB.new -> {Agreed(u)}
      [] ~u.keyA.new /\ u.keyB.new -> {u, Agreed(u)}
      [] OTHER -> {u}
Calculate(u) == IF Ready(u) THEN CalculateKeyX(u) ELSE {u}

\* waitForExchange
Wait(u, flag) ==
    IF (flag = 1) = (u.waitForExchange = 0) THEN [u EXCEPT !.waitForExchange = flag] ELSE u

\* rsa_connect
Connect(u) == LET v == CreateContext(u, "rsa") IN
    [u |-> IF v.rsa = "none" THEN [v EXCEPT !.rsa = "connect"] ELSE v,
     out |-> IF v.rsa = "none" THEN <<Signature("connect")>> ELSE <<>>]

\* what a restart leaves: the settings
Restarted(u) == [Fresh(u.mode) EXCEPT !.stored = u.stored]

-----------------------------------------------------------------------------
(* What a handler leaves behind: the record and the messages sent.         *)

Sends(e, u, out) ==
    /\ uin' = [uin EXCEPT ![e] = u]
    /\ net' = [net EXCEPT ![Peer(e)] = @ \o out]
    /\ build' = build

\* the same in answer to the first message on its way to e
Replies(e, u, out) ==
    /\ uin' = [uin EXCEPT ![e] = u]
    /\ net' = [net EXCEPT ![e] = Tail(@), ![Peer(e)] = @ \o out]
    /\ build' = build
Got(e, t) == net[e] # <<>> /\ Head(net[e]).type = t
In(e) == Head(net[e])
Draw == drawn < MaxKey /\ drawn' = drawn + 1
NoDraw == drawn' = drawn
NoFate == fate' = fate
Forgets(u) == fate' = [m \in Msg |-> IF Contains(u.msgQueue, m) THEN "forgotten" ELSE fate[m]]
Becomes(m, f) == fate' = IF m = 0 THEN fate ELSE [fate EXCEPT ![m] = f]

-----------------------------------------------------------------------------
(* onSendMsg.                                                              *)

\* a message to an offline contact: with the stored key, or unencrypted if the
\* user agrees (the setting may have expired)
SendOffline(e, u, m) ==
    \/ /\ u.stored # {}
       /\ Sends(e, [InitKeyX(u, u.stored) EXCEPT !.offlineKey = TRUE],
                <<Cipher("ENOF", u.stored, m)>>)
       /\ NoFate
    \/ /\ Sends(e, [u EXCEPT !.stored = {}], <<>>)
       /\ \E f \in {"clear", "refused"} : Becomes(m, f)

NoOfflineKey(u) ==
    IF u.offlineKey THEN [ResetContext(u) EXCEPT !.offlineKey = FALSE] ELSE u

\* a message to an online contact: with the key, or to the queue
SendOnline(e, u, m) ==
    \E v \in Calculate(NoOfflineKey(u)) :
        LET q == [v EXCEPT !.msgQueue = Append(@, m)] IN
        \/ /\ v.keyX # {}
           /\ Sends(e, v, <<Cipher("ENON", v.keyX, m)>>)
           /\ NoDraw
        \/ /\ v.keyX = {} /\ v.waitForExchange # 0
           /\ Sends(e, q, <<>>)
           /\ NoDraw
        \/ /\ v.keyX = {} /\ v.waitForExchange = 0
           /\ Sends(e, Wait(InitKeyA(q, FALSE), 1), <<KeyMessage("KEYR", Drawn(FALSE))>>)
           /\ Draw

\* in RSA/AES mode: to the session, or to the queue; to an offline contact with
\* the other's public key, or unencrypted
SendRSA(e, u, m) ==
    \/ /\ ~u.online
       /\ Sends(e, CreateContext(DeleteContext(u), "rsa"), <<>>)
       /\ \E f \in {"passed", "clear"} : Becomes(m, f)
    \/ /\ u.online /\ u.rsa = "open"
       /\ Sends(e, u, <<>>)
       /\ Becomes(m, "passed")
    \/ /\ u.online /\ u.rsa # "open"
       /\ LET c == Connect([u EXCEPT !.msgQueue = Append(@, m)])
          IN  Sends(e, Wait(c.u, 1), c.out)
       /\ NoFate

SendMsg(e, u, m) ==
    \/ u.mode = "rsa" /\ SendRSA(e, u, m) /\ NoDraw
    \/ u.mode = "native" /\ ~u.online /\ SendOffline(e, u, m) /\ NoDraw
    \/ u.mode = "native" /\ u.online /\ SendOnline(e, u, m) /\ NoFate

Type(e) ==
    /\ e \in Typists
    /\ typed < MaxMsg
    /\ typed' = typed + 1
    /\ SendMsg(e, uin[e], typed')
    /\ disturbed' = disturbed

\* Service_CreateIM: the context is reset, and a key sent unless a waiter waits
Begin(e) ==
    LET u == uin[e]
        k == [ResetContext(NoOfflineKey(u)) EXCEPT !.offlineKey = FALSE]
    IN
    /\ Disturb("init") /\ NoFate
    /\ u.online
    /\ \/ /\ u.mode = "rsa" /\ u.rsa # "open"
          /\ LET c == Connect(u) IN Sends(e, c.u, c.out)
          /\ NoDraw
       \/ /\ u.mode = "native" /\ u.waitForExchange # 0
          /\ Sends(e, k, <<>>)
          /\ NoDraw
       \/ /\ u.mode = "native" /\ u.waitForExchange = 0
          /\ Sends(e, Wait(InitKeyA(k, FALSE), 1), <<KeyMessage("KEYR", Drawn(FALSE))>>)
          /\ Draw

\* Service_DisableIM: the other side is told if there is a context; RSA/AES ends
\* the wait for an exchange even without one
End(e) ==
    LET u == uin[e] IN
    /\ Disturb("deinit") /\ NoFate /\ NoDraw
    /\ u.online
    /\ \/ /\ u.mode = "rsa"
          /\ Sends(e, Wait(DeleteContext(u), 3),
                   IF u.rsa = "none" THEN <<>> ELSE <<Signature("bye")>>)
       \/ /\ u.mode = "native" /\ u.cntx # "none"
          /\ Sends(e, [DeleteContext(u) EXCEPT !.offlineKey = FALSE], <<Signature("DEIN")>>)

\* Service_Mode: refused while there is a session
Mode(e) ==
    LET u == uin[e] IN
    /\ Disturb("mode") /\ NoFate /\ NoDraw
    /\ u.keyX = {} /\ u.rsa # "open"
    /\ \E mode \in {"native", "rsa"} \ {u.mode} :
          Sends(e, [DeleteContext(u) EXCEPT !.mode = mode], <<>>)

\* onContactSettingChanged: the other goes offline or comes back
Status(e) ==
    LET u == uin[e] IN
    /\ Disturb("status") /\ NoFate /\ NoDraw
    /\ Sends(e, IF u.online
                THEN [IF u.keyX # {} \/ u.rsa = "open" THEN DeleteContext(u) ELSE u
                        EXCEPT !.online = FALSE]
                ELSE [NoOfflineKey(u) EXCEPT !.online = TRUE], <<>>)

Restart(e) ==
    /\ Disturb("restart") /\ NoDraw
    /\ Sends(e, Restarted(uin[e]), <<>>)
    /\ Forgets(uin[e])

-----------------------------------------------------------------------------
(* The waiter, and the timeout of RSA/AES.                                 *)

\* nothing came, or the exchange has failed: the queue is sent unencrypted if
\* the user agrees
GiveUp(e) ==
    LET u == uin[e] IN
    /\ u.waitForExchange \in {1, 3}
    /\ UNCHANGED <<drawn, given>>
    /\ \/ /\ Sends(e, [u EXCEPT !.waitForExchange = 0], <<>>)
          /\ NoFate
       \/ /\ u.msgQueue # <<>>
          /\ Sends(e, [u EXCEPT !.waitForExchange = 0, !.msgQueue = <<>>], <<>>)
          /\ fate' = [m \in Msg |-> IF Contains(u.msgQueue, m) THEN "clear" ELSE fate[m]]

\* the exchange is done: message by message through onSendMsg
Resend(e) ==
    LET u == uin[e] IN
    /\ u.waitForExchange = 2
    /\ UNCHANGED given
    /\ \/ /\ u.msgQueue = <<>>
          /\ Sends(e, [u EXCEPT !.waitForExchange = 0], <<>>)
          /\ NoFate /\ NoDraw
       \/ /\ u.msgQueue # <<>>
          /\ SendMsg(e, [u EXCEPT !.msgQueue = Tail(@)], Head(u.msgQueue))

\* rsa_timeout and rsa_notify
RsaTimeout(e) ==
    /\ uin[e].rsa \in {"connect", "spoiled"}
    /\ Sends(e, Wait(DeleteRSAcntx(uin[e]), 3), <<>>)
    /\ UNCHANGED <<fate, drawn, given>>

-----------------------------------------------------------------------------
(* onRecvMsg.                                                              *)

\* (fault: the mode stays)
ToRSAKeepsMode(u) == CreateContext(IF u.mode = "native" THEN DeleteRSAcntx(u) ELSE u, "rsa")

\* (fault: the context of the native mode stays)
ToRSAKeepsContext(u) == CreateContext([u EXCEPT !.mode = "rsa"], "rsa")

\* a message of RSA/AES switches the mode
ToRSA(u) == CreateContext([IF u.mode = "native" THEN DeleteRSAcntx(u) ELSE u
                             EXCEPT !.mode = "rsa"], "rsa")

RecvSECU(e) ==
    /\ UNCHANGED <<fate, drawn, given>>
    /\ \/ /\ Got(e, "connect")
          /\ Replies(e, Wait([ToRSA(uin[e]) EXCEPT !.rsa = "open"], 2), <<Signature("accept")>>)
       \/ /\ Got(e, "accept")
          /\ LET u == ToRSA(uin[e])
             IN  Replies(e, IF u.rsa = "connect" THEN Wait([u EXCEPT !.rsa = "open"], 2)
                            ELSE u, <<>>)
       \/ /\ Got(e, "bye")
          /\ LET u == ToRSA(uin[e])
             IN  Replies(e, IF u.rsa = "open" THEN Wait(DeleteRSAcntx(u), 3) ELSE u, <<>>)

Decoded(u, c) == Becomes(c.msg, IF c.keyX = u.keyX THEN "got" ELSE "unread")

\* what goes back for a message that cannot be read
\* (fault: the new key goes out before the message)
SentBackKeyFirst(c) == <<KeyMessage("KEYR", Drawn(FALSE)), [c EXCEPT !.type = "RSND"]>>
SentBack(c) == <<[c EXCEPT !.type = "RSND"], KeyMessage("KEYR", Drawn(FALSE))>>

\* In RSA/AES mode cpp_init_keya writes one structure over the other: the
\* program crashes, or RSA/AES finds an address in place of its state, which is
\* never that of an open session.
Spoils(e, c) ==
    LET u == uin[e] IN
    \/ /\ Replies(e, Restarted(u), <<Head(SentBack(c))>>)
       /\ Forgets(u)
    \/ /\ \E state \in {"none", "spoiled"} :
             Replies(e, [CreateContext(ResetContext(u), "rsa") EXCEPT !.rsa = state], SentBack(c))
       /\ NoFate

\* a message of a session: read, or sent back with a new key
RecvENON(e) ==
    LET u == uin[e] IN
    /\ Got(e, "ENON")
    /\ UNCHANGED given
    /\ \/ /\ u.keyX # {}
          /\ Replies(e, u, <<>>)
          /\ Decoded(u, In(e)) /\ NoDraw
       \/ /\ u.keyX = {} /\ u.mode = "native"
          /\ Replies(e, InitKeyA(ResetContext(u), FALSE), SentBack(In(e)))
          /\ NoFate /\ Draw
       \/ /\ u.keyX = {} /\ u.mode = "rsa"
          /\ Spoils(e, In(e))
          /\ Draw

\* an offline message: read with the stored key; without one it is shown as it is
RecvENOF(e) ==
    LET u == IF uin[e].keyX = {} THEN uin[e] ELSE NoOfflineKey(uin[e])
        v == [InitKeyX(u, u.stored) EXCEPT !.offlineKey = TRUE]
    IN
    /\ Got(e, "ENOF")
    /\ UNCHANGED <<drawn, given>>
    /\ \/ /\ u.stored # {}
          /\ Replies(e, v, <<>>)
          /\ Decoded(v, In(e))
       \/ /\ u.stored = {}
          /\ Replies(e, u, <<>>)
          /\ Becomes(In(e).msg, "unread")

\* a message that came back: with the key it is queued, else dropped
RecvRSND(e) ==
    LET u == uin[e] IN
    /\ Got(e, "RSND")
    /\ UNCHANGED <<drawn, given>>
    /\ \/ /\ u.keyX # {}
          /\ Replies(e, [u EXCEPT !.msgQueue = Append(@, In(e).msg)], <<>>)
          /\ IF In(e).keyX = u.keyX THEN NoFate ELSE Becomes(In(e).msg, "unread")
       \/ /\ u.keyX = {}
          /\ Replies(e, u, <<>>)
          /\ Becomes(In(e).msg, "gone")

RecvDEIN(e) ==
    /\ Got(e, "DEIN")
    /\ Replies(e, Wait(DeleteContext(uin[e]), 3), <<>>)
    /\ UNCHANGED <<fate, drawn, given>>

\* a key message switches the mode
ToNative(u) == IF u.mode = "rsa" THEN [DeleteContext(u) EXCEPT !.mode = "native"] ELSE u

\* the common part of the key messages: the key is calculated, the queue sent
Establish(e, u, out) == \E v \in Calculate(u) : Replies(e, Wait(v, 2), out)

\* what the sender of a key message knows, as far as e looks at it
Known(e) == IF build[e] = "old" THEN "old" ELSE build[Peer(e)]

\* the first key message: what the other's version knows decides how it goes on
RecvKEYR(e) ==
    LET t == ToNative(uin[e])
        r == IF t.keyB # NoKey THEN ResetContext(t) ELSE t
        u == InitKeyB(r, In(e).key)
    IN
    /\ Got(e, "KEYR")
    /\ UNCHANGED <<fate, given>>
    /\ \/ /\ Known(e) = "rsa"
          /\ LET c == Connect(CreateContext([DeleteContext(u) EXCEPT !.mode = "rsa"], "rsa"))
             IN  Replies(e, c.u, c.out)
          /\ NoDraw
       \/ /\ Known(e) = "newpg"
          /\ Replies(e, Wait(InitKeyA(ResetContext(u), TRUE), 1), <<KeyMessage("KEYA", Drawn(TRUE))>>)
          /\ Draw
       \/ /\ Known(e) = "old" /\ u.keyA = NoKey
          /\ Establish(e, InitKeyA(u, FALSE), <<KeyMessage("KEYR", Drawn(FALSE))>>)
          /\ Draw
       \/ /\ Known(e) = "old" /\ u.keyA # NoKey
          /\ Establish(e, u, <<>>)
          /\ NoDraw

\* the answer to it with the new parameters
RecvKEYA(e) ==
    /\ Got(e, "KEYA")
    /\ UNCHANGED <<fate, given>>
    /\ Draw
    /\ Establish(e, InitKeyA(InitKeyB(ResetContext(ToNative(uin[e])), In(e).key), TRUE),
                 <<KeyMessage("KEYB", Drawn(TRUE))>>)

\* and the answer to that, if the own key is still there
RecvKEYB(e) ==
    LET u == ToNative(uin[e]) IN
    /\ Got(e, "KEYB")
    /\ UNCHANGED <<fate, drawn, given>>
    /\ \/ /\ u.keyA = NoKey
          /\ Replies(e, Wait(ResetContext(u), 3), <<>>)
       \/ /\ u.keyA # NoKey
          /\ Establish(e, InitKeyB(u, In(e).key), <<>>)

-----------------------------------------------------------------------------
Recv(e) == \/ RecvSECU(e) \/ RecvENON(e) \/ RecvENOF(e) \/ RecvRSND(e) \/ RecvDEIN(e)
           \/ RecvKEYR(e) \/ RecvKEYA(e) \/ RecvKEYB(e)
User(e) == Type(e) \/ Begin(e) \/ End(e) \/ Mode(e)
Waiter(e) == GiveUp(e) \/ Resend(e)

Next == \E e \in Endpoint :
    User(e) \/ Status(e) \/ Restart(e) \/ Waiter(e) \/ RsaTimeout(e) \/ Recv(e)

Spec == Init /\ [][Next]_vars

-----------------------------------------------------------------------------
KeyPair == [id : 1 .. MaxKey, new : BOOLEAN]
Secret == SUBSET (1 .. MaxKey)

Record == [mode : {"native", "rsa"}, cntx : {"none", "sim", "rsa"},
           rsa : {"none", "connect", "open", "spoiled"}, keyA : KeyPair \cup {NoKey},
           keyB : KeyPair \cup {NoKey}, keyX : Secret, offlineKey : BOOLEAN,
           waitForExchange : 0 .. 3, msgQueue : Seq(Msg), online : BOOLEAN, stored : Secret]

Signatures == {"connect", "accept", "bye"}
KeyTypes == {"KEYR", "KEYA", "KEYB"}
TextTypes == {"ENON", "ENOF", "RSND"}

\* only the first key message has the old parameters, and only ciphers a text
Carries(c) ==
    /\ c.type \in KeyTypes => c.key # NoKey /\ (c.key.new <=> c.type # "KEYR")
    /\ c.type \in TextTypes => c.msg # 0

Message == {c \in [type : Signatures \cup KeyTypes \cup TextTypes \cup {"DEIN"},
                   key : KeyPair \cup {NoKey}, keyX : Secret, msg : Msg \cup {0}] : Carries(c)}

Fates == {"open", "got", "unread", "gone", "clear", "refused", "passed", "forgotten"}

TypeOK ==
    /\ build \in Versions
    /\ uin \in [Endpoint -> Record]
    /\ net \in [Endpoint -> Seq(Message)]
    /\ fate \in [Msg -> Fates]
    /\ typed \in 0 .. MaxMsg
    /\ drawn \in 0 .. MaxKey
    /\ disturbed \subseteq Disturbances

Quiet == \A e \in Endpoint : net[e] = <<>>
InSession(e) == uin[e].keyX # {} /\ ~uin[e].offlineKey

\* two exchanges overlap: two of their messages are on their way, or one
\* reaches a contact that has begun one itself
Exchanging(e) ==
    SelectSeq(net[e], LAMBDA c : c.type \in {"KEYR", "KEYA", "KEYB", "connect", "accept"})
Crossing ==
    \/ Len(Exchanging(Alice)) + Len(Exchanging(Bob)) > 1
    \/ \E e \in Endpoint :
          /\ Exchanging(e) # <<>> /\ Head(Exchanging(e)).type \in {"KEYR", "connect"}
          /\ uin[e].keyA # NoKey \/ uin[e].rsa = "connect"

\* Once nothing is on its way, two contacts in a session have the same key,
\* whatever crossed, was reset or restarted before (onRecvMsg; the exchange
\* with an older version excepted).
KeysAgree ==
    /\ Quiet
    /\ \A e \in Endpoint : build[e] # "old"
    /\ \A e \in Endpoint : InSession(e)
    => uin[Alice].keyX = uin[Bob].keyX

\* The same for every version.  The side in a session keeps its key when an
\* older version begins anew: its KeyB, which onRecvMsg looks at, is gone.
KeysAgreeOld ==
    /\ Quiet
    /\ \A e \in Endpoint : InSession(e)
    => uin[Alice].keyX = uin[Bob].keyX

\* Two of one version that have exchanged keys end in the same mode, the mode
\* the type of a message decides (a mode the user chose excepted).
ModesAgree ==
    /\ Quiet /\ "mode" \notin disturbed
    /\ drawn > 0 /\ build[Alice] = build[Bob]
    => uin[Alice].mode = uin[Bob].mode

ContextFits(u) ==
    /\ u.cntx = "sim" => u.mode = "native"
    /\ u.cntx = "rsa" => u.mode = "rsa"
    /\ u.rsa # "spoiled"

\* A context is of the mode of its contact, through every switch between the
\* two (ToRSA, ToNative, RecvKEYR), and is never written as one of the other.
ContextFitsMode == "mode" \notin disturbed => \A e \in Endpoint : ContextFits(uin[e])

\* The same when the user changes the mode: a message of the session the other
\* side is still in comes to a contact in RSA/AES mode (RecvENON).
ContextFitsChosenMode == \A e \in Endpoint : ContextFits(uin[e])

\* Where no two exchanges overlap, no message stays unread: what the other had
\* no key for comes back, can be read and is queued (RSND).
MessagesReturn ==
    []("deinit" \notin disturbed /\ ~Crossing)
    => [](\A m \in Msg : fate[m] \notin {"unread", "gone"})

BothSecured ==
    \/ (\A e \in Endpoint : InSession(e)) /\ uin[Alice].keyX = uin[Bob].keyX
    \/ \A e \in Endpoint : uin[e].rsa = "open"

\* An exchange that nothing disturbs and no other overlaps ends in a session
\* with one key, or in RSA/AES where both know it.
ExchangeSucceeds ==
    [](disturbed = {} /\ ~Crossing) => (drawn > 0 ~> Quiet /\ BothSecured)

\* messages are delivered, the waiter's thread runs
LiveSpec == Spec /\ \A e \in Endpoint : WF_vars(Recv(e)) /\ WF_vars(Waiter(e))
=============================================================================
