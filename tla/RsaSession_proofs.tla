-------------------------- MODULE RsaSession_proofs --------------------------
(***************************************************************************)
(* Theorems about RsaSession, for every value of its constants.            *)
(***************************************************************************)
EXTENDS RsaSession, TLAPS

-----------------------------------------------------------------------------
(* Sequences of messages and the operators on contexts.                    *)

LEMMA HeadTail ==
    ASSUME NEW S, NEW s \in Seq(S), s # <<>>
    PROVE  /\ Head(s) \in S
           /\ Tail(s) \in Seq(S)
           /\ \A i \in DOMAIN Tail(s) : i + 1 \in DOMAIN s /\ Tail(s)[i] = s[i + 1]
           /\ 1 \in DOMAIN s /\ Head(s) = s[1]
  OBVIOUS

LEMMA AppendType ==
    ASSUME NEW S, NEW s \in Seq(S), NEW m \in S
    PROVE  /\ Append(s, m) \in Seq(S)
           /\ Append(s, m) # <<>>
           /\ \A i \in DOMAIN Append(s, m) :
                 \/ i \in DOMAIN s /\ Append(s, m)[i] = s[i]
                 \/ Append(s, m)[i] = m
  OBVIOUS

LEMMA PeerType ==
    ASSUME NEW e \in Endpoint
    PROVE  Peer(e) \in Endpoint /\ Peer(e) # e /\ Peer(Peer(e)) = e
  BY ConstantsOK DEF Endpoint, Peer

LEMMA MessageTypes ==
    /\ \A t \in Types : Plain(t) \in Message
    /\ \A t \in Types, own \in PubKey \cup {None}, peer \in PubKey \cup {None} :
          WithPub(t, own, peer) \in Message
    /\ \A t \in Types, k \in Nat : WithAes(t, k) \in Message
    /\ \A t \in Types, own \in PubKey \cup {None}, peer \in PubKey \cup {None}, k \in Nat :
          Sealed(t, own, peer, k) \in Message
  BY DEF Message, Plain, WithPub, WithAes, Sealed, NoKey

LEMMA FreshDataType == FreshData \in RSADATA
  BY DEF FreshData, RSADATA, NoKey

LEMMA RearmType ==
    ASSUME NEW d \in RSADATA
    PROVE  /\ Rearm(d) \in RSADATA
           /\ Rearm(d).state = d.state /\ Rearm(d).aes_k = d.aes_k
           /\ Rearm(d).queue = d.queue /\ Rearm(d).busy = d.busy
           /\ InExchange(d) => Rearm(d).time
           /\ ~InExchange(d) => Rearm(d) = d
  BY DEF Rearm, RSADATA

LEMMA OpenType ==
    ASSUME TypeOK, NEW e \in Endpoint
    PROVE  /\ OpenUin(e) \in UinKey
           /\ OpenData(e) \in RSADATA
           /\ OpenData(e) = [pdata[e] EXCEPT !.pub_k = OpenData(e).pub_k]
  <1>1. uin[e] \in UinKey /\ pdata[e] \in RSADATA
    BY DEF TypeOK
  <1>2. OpenUin(e) \in UinKey
    <2> DEFINE loaded == IF NeedsKey(e) THEN uin[e].rsa_pub # None ELSE TRUE
    <2>1. loaded \in BOOLEAN
      OBVIOUS
    <2>2. \A b \in BOOLEAN : [uin[e] EXCEPT !.cntx = TRUE, !.keyLoaded = b] \in UinKey
      BY <1>1 DEF UinKey
    <2> QED  BY <2>1, <2>2 DEF OpenUin
  <1>3. OpenData(e) \in RSADATA
    <2>1. uin[e].rsa_pub \in PubKey \cup {None}
      BY <1>1 DEF UinKey
    <2>2. \A k \in PubKey \cup {None} : [pdata[e] EXCEPT !.pub_k = k] \in RSADATA
      BY <1>1 DEF RSADATA
    <2> QED  BY <1>1, <2>1, <2>2 DEF OpenData
  <1>4. OpenData(e) = [pdata[e] EXCEPT !.pub_k = OpenData(e).pub_k]
    BY <1>1 DEF OpenData, RSADATA
  <1> QED  BY <1>2, <1>3, <1>4

-----------------------------------------------------------------------------
(* Types.  The worker takes its message from a queue that others write too,*)
(* so that the type of what it handles rests on the queue not being empty. *)

\* A worker that handles a message still has it at the front of its queue.
WorkerHasMessage == \A e \in Endpoint : pdata[e].busy => pdata[e].queue # <<>>

TypeInv == TypeOK /\ WorkerHasMessage

LEMMA NetType ==
    ASSUME TypeOK, NEW e \in Endpoint, NEW m \in Message
    PROVE  /\ Send(e, m) => net' \in [Endpoint -> Seq(Message)]
           /\ net[e] # <<>> /\ Consume(e) => net' \in [Endpoint -> Seq(Message)]
           /\ net[e] # <<>> /\ Answer(e, m) => net' \in [Endpoint -> Seq(Message)]
  <1>1. net \in [Endpoint -> Seq(Message)]
    BY DEF TypeOK
  <1>2. \A x \in Endpoint : Append(net[x], m) \in Seq(Message)
    BY <1>1
  <1>3. ASSUME net[e] # <<>>  PROVE Tail(net[e]) \in Seq(Message)
    BY <1>1, <1>3, HeadTail
  <1>4. Peer(e) \in Endpoint /\ Peer(e) # e
    BY PeerType
  <1> QED  BY <1>1, <1>2, <1>3, <1>4 DEF Send, Consume, Answer

LEMMA SpendType ==
    ASSUME TypeOK, NEW what \in {"connect", "user", "loss", "dup"}, Spend(what)
    PROVE  budget' \in [{"connect", "user", "loss", "dup"} -> Nat]
  BY DEF TypeOK, Spend

LEMMA LeaveDialogType ==
    ASSUME TypeInv, NEW e \in Endpoint
    PROVE  LeaveDialog(e) \in [Endpoint -> SUBSET (PubKey \cup {None})]
  <1>1. ASSUME pdata[e].busy
        PROVE  Head(pdata[e].queue).own \in PubKey \cup {None}
    <2>1. pdata[e].queue \in Seq(Message) /\ pdata[e].queue # <<>>
      BY <1>1 DEF TypeInv, TypeOK, WorkerHasMessage, RSADATA
    <2>2. Head(pdata[e].queue) \in Message
      BY <2>1, HeadTail
    <2> QED  BY <2>2 DEF Message
  <1>2. CASE pdata[e].busy /\ Asks(Head(pdata[e].queue))
    BY <1>1, <1>2 DEF TypeInv, TypeOK, LeaveDialog
  <1>3. CASE ~(pdata[e].busy /\ Asks(Head(pdata[e].queue)))
    BY <1>3 DEF TypeInv, TypeOK, LeaveDialog
  <1> QED  BY <1>2, <1>3

LEMMA ShutType ==
    ASSUME TypeInv, NEW e \in Endpoint, Shut(e),
           dialog' = LeaveDialog(e) \/ dialog' = dialog
    PROVE  /\ uin' \in [Endpoint -> UinKey]
           /\ pdata' \in [Endpoint -> RSADATA]
           /\ main' \in [Endpoint -> {"idle", "reply", "accept", "join"}]
           /\ dialog' \in [Endpoint -> SUBSET (PubKey \cup {None})]
           /\ lastKey' \in 0 .. MaxKey
           /\ held' \in [Endpoint -> SUBSET Nat]
           /\ tested' \in [Endpoint -> Nat]
           /\ WorkerHasMessage'
  <1>1. uin' \in [Endpoint -> UinKey]
    <2>1. uin[e] \in UinKey
      BY DEF TypeInv, TypeOK
    <2>2. [uin[e] EXCEPT !.cntx = FALSE, !.keyLoaded = FALSE] \in UinKey
      BY <2>1 DEF UinKey
    <2> QED  BY <2>2 DEF TypeInv, TypeOK, Shut
  <1>2. pdata' \in [Endpoint -> RSADATA]
    BY FreshDataType DEF TypeInv, TypeOK, Shut
  <1>3. main' \in [Endpoint -> {"idle", "reply", "accept", "join"}]
    BY DEF TypeInv, TypeOK, Shut
  <1>4. LeaveDialog(e) \in [Endpoint -> SUBSET (PubKey \cup {None})]
    BY LeaveDialogType
  <1>5. lastKey' \in 0 .. MaxKey /\ held' \in [Endpoint -> SUBSET Nat] /\ tested' \in [Endpoint -> Nat]
    BY DEF TypeInv, TypeOK, Shut
  <1>6. WorkerHasMessage'
    BY DEF TypeInv, TypeOK, Shut, WorkerHasMessage, FreshData
  <1>7. dialog' \in [Endpoint -> SUBSET (PubKey \cup {None})]
    BY <1>4 DEF TypeInv, TypeOK
  <1> QED  BY <1>1, <1>2, <1>3, <1>5, <1>6, <1>7

LEMMA CloseType ==
    ASSUME TypeInv, NEW e \in Endpoint, Close(e)
    PROVE  /\ uin' \in [Endpoint -> UinKey]
           /\ pdata' \in [Endpoint -> RSADATA]
           /\ main' \in [Endpoint -> {"idle", "reply", "accept", "join"}]
           /\ dialog' \in [Endpoint -> SUBSET (PubKey \cup {None})]
           /\ lastKey' \in 0 .. MaxKey
           /\ held' \in [Endpoint -> SUBSET Nat]
           /\ tested' \in [Endpoint -> Nat]
           /\ WorkerHasMessage'
  BY ShutType DEF Close

LEMMA OpenedType ==
    ASSUME TypeInv, NEW e \in Endpoint
    PROVE  /\ [uin EXCEPT ![e] = OpenUin(e)] \in [Endpoint -> UinKey]
           /\ [pdata EXCEPT ![e] = OpenData(e)] \in [Endpoint -> RSADATA]
           /\ pdata' = [pdata EXCEPT ![e] = OpenData(e)] => WorkerHasMessage'
  <1>1. OpenUin(e) \in UinKey /\ OpenData(e) \in RSADATA
    BY OpenType DEF TypeInv
  <1>2. pdata[e] \in RSADATA
    BY DEF TypeInv, TypeOK
  <1>3. OpenData(e).busy = pdata[e].busy /\ OpenData(e).queue = pdata[e].queue
    BY <1>2 DEF OpenData, RSADATA
  <1>4. \A x \in Endpoint :
          [pdata EXCEPT ![e] = OpenData(e)][x] = IF x = e THEN OpenData(e) ELSE pdata[x]
    BY DEF TypeInv, TypeOK
  <1>5. ASSUME pdata' = [pdata EXCEPT ![e] = OpenData(e)]  PROVE WorkerHasMessage'
    BY <1>3, <1>4, <1>5 DEF TypeInv, WorkerHasMessage
  <1> QED  BY <1>1, <1>5 DEF TypeInv, TypeOK

LEMMA DoneType ==
    ASSUME TypeInv, NEW e \in Endpoint, NEW d \in RSADATA, d.queue # <<>>, Done(e, d)
    PROVE  /\ pdata' \in [Endpoint -> RSADATA]
           /\ main' = main /\ dialog' = dialog /\ tested' = tested
           /\ WorkerHasMessage'
           /\ pdata'[e].state = d.state /\ pdata'[e].aes_k = d.aes_k
           /\ \A x \in Endpoint \ {e} : pdata'[x] = pdata[x]
  <1> DEFINE r == Rearm(d)
             n == [r EXCEPT !.busy = FALSE, !.queue = Tail(@)]
  <1>1. r \in RSADATA /\ r.state = d.state /\ r.aes_k = d.aes_k /\ r.queue = d.queue
    BY RearmType
  <1>2. Tail(r.queue) \in Seq(Message)
    BY <1>1, HeadTail DEF RSADATA
  <1> HIDE DEF r
  <1>3. n \in RSADATA /\ n.state = d.state /\ n.aes_k = d.aes_k /\ n.busy = FALSE
    BY <1>1, <1>2 DEF RSADATA
  <1> USE DEF r
  <1>4. pdata' = [pdata EXCEPT ![e] = n]
    BY DEF Done
  <1> HIDE DEF r, n
  <1>5. WorkerHasMessage'
    BY <1>3, <1>4 DEF TypeInv, TypeOK, WorkerHasMessage
  <1>6. pdata' \in [Endpoint -> RSADATA] /\ pdata'[e] = n
    BY <1>3, <1>4 DEF TypeInv, TypeOK
  <1>7. \A x \in Endpoint \ {e} : pdata'[x] = pdata[x]
    BY <1>4 DEF TypeInv, TypeOK
  <1> QED  BY <1>3, <1>5, <1>6, <1>7 DEF Done

\* A step that writes only d into e's context keeps the types of the contexts.
LEMMA StoreType ==
    ASSUME TypeInv, NEW e \in Endpoint, NEW d \in RSADATA,
           d.busy => d.queue # <<>>, pdata' = [pdata EXCEPT ![e] = d]
    PROVE  pdata' \in [Endpoint -> RSADATA] /\ WorkerHasMessage'
  <1>1. pdata' \in [Endpoint -> RSADATA]
    BY DEF TypeInv, TypeOK
  <1>2. \A x \in Endpoint : pdata'[x] = IF x = e THEN d ELSE pdata[x]
    BY DEF TypeInv, TypeOK
  <1> QED  BY <1>1, <1>2 DEF TypeInv, WorkerHasMessage

LEMMA OpenKeepsWorker ==
    ASSUME TypeInv, NEW e \in Endpoint
    PROVE  /\ OpenData(e) \in RSADATA
           /\ OpenData(e).busy => OpenData(e).queue # <<>>
           /\ OpenData(e).state = pdata[e].state
           /\ OpenData(e).aes_k = pdata[e].aes_k
           /\ OpenData(e).time = pdata[e].time
  <1>1. pdata[e] \in RSADATA /\ OpenData(e) \in RSADATA
    BY OpenType DEF TypeInv, TypeOK
  <1>2. \/ OpenData(e) = pdata[e]
        \/ OpenData(e) = [pdata[e] EXCEPT !.pub_k = uin[e].rsa_pub]
    BY DEF OpenData
  <1> QED  BY <1>1, <1>2 DEF TypeInv, WorkerHasMessage, RSADATA

LEMMA ConnectType ==
    ASSUME TypeInv, NEW e \in Endpoint, Connect(e)
    PROVE  TypeInv'
  <1> DEFINE d == [OpenData(e) EXCEPT !.state = 2, !.time = TRUE]
  <1>1. d \in RSADATA /\ (d.busy => d.queue # <<>>)
    BY OpenKeepsWorker DEF RSADATA
  <1>2. pdata' = [pdata EXCEPT ![e] = d]
    BY DEF Connect
  <1> HIDE DEF d
  <1>3. pdata' \in [Endpoint -> RSADATA] /\ WorkerHasMessage'
    BY <1>1, <1>2, StoreType
  <1>4. uin' \in [Endpoint -> UinKey]
    BY OpenedType DEF Connect
  <1>5. OpenData(e).pub_k \in PubKey \cup {None}
    BY OpenKeepsWorker DEF RSADATA
  <1>6. net' \in [Endpoint -> Seq(Message)]
    <2>1. WithPub("10", e, OpenData(e).pub_k) \in Message
      BY <1>5, MessageTypes DEF Types, WorkerTypes, PubKey, Endpoint
    <2> QED  BY <2>1, NetType DEF Connect, TypeInv
  <1>7. budget' \in [{"connect", "user", "loss", "dup"} -> Nat]
    BY SpendType DEF Connect, TypeInv
  <1> QED  BY <1>3, <1>4, <1>6, <1>7 DEF TypeInv, TypeOK, Connect

LEMMA DisconnectType ==
    ASSUME TypeInv, NEW e \in Endpoint,
           Disconnect(e) \/ GoesOffline(e) \/ CommandWhileDisabled(e)
    PROVE  TypeInv'
  <1>1. Close(e) /\ Spend("user")
    BY DEF Disconnect, GoesOffline, CommandWhileDisabled
  <1>2. net' \in [Endpoint -> Seq(Message)]
    <2>1. WithAes("F0", pdata[e].aes_k) \in Message /\ Plain("FF") \in Message
      BY MessageTypes DEF Types, TypeInv, TypeOK, RSADATA
    <2> QED
      BY <2>1, NetType DEF Disconnect, GoesOffline, CommandWhileDisabled, TypeInv, TypeOK
  <1>3. budget' \in [{"connect", "user", "loss", "dup"} -> Nat]
    BY <1>1, SpendType DEF TypeInv
  <1> QED  BY <1>1, <1>2, <1>3, CloseType DEF TypeInv, TypeOK

LEMMA SendOfflineType ==
    ASSUME TypeInv, NEW e \in Endpoint, SendOffline(e)
    PROVE  TypeInv'
  <1> DEFINE reset == uin[e].cntx /\ pdata[e].state # 0
             key == uin[e].rsa_pub
             u == IF reset THEN [uin[e] EXCEPT !.keyLoaded = key # None] ELSE OpenUin(e)
             d == IF reset THEN [FreshData EXCEPT !.pub_k = key] ELSE OpenData(e)
  <1>1. uin[e] \in UinKey /\ key \in PubKey \cup {None}
    BY DEF TypeInv, TypeOK, UinKey
  <1>2. u \in UinKey
    <2>1. \A b \in BOOLEAN : [uin[e] EXCEPT !.keyLoaded = b] \in UinKey
      BY <1>1 DEF UinKey
    <2>2. (key # None) \in BOOLEAN
      OBVIOUS
    <2> QED  BY <2>1, <2>2, OpenType DEF TypeInv
  <1>3. d \in RSADATA /\ (d.busy => d.queue # <<>>)
    <2>1. /\ [FreshData EXCEPT !.pub_k = key] \in RSADATA
          /\ [FreshData EXCEPT !.pub_k = key].busy = FALSE
      BY <1>1, FreshDataType DEF RSADATA, FreshData
    <2> QED  BY <2>1, OpenKeepsWorker
  <1>4. /\ uin' = [uin EXCEPT ![e] = u]
        /\ pdata' = [pdata EXCEPT ![e] = d]
        /\ dialog' = LeaveDialog(e) \/ dialog' = dialog
        /\ net' = net \/ Send(e, WithPub("E0", e, d.pub_k))
        /\ main' = main /\ lastKey' = lastKey /\ held' = held /\ tested' = tested
    BY DEF SendOffline
  <1> HIDE DEF reset, key, u, d
  <1>5. uin' \in [Endpoint -> UinKey]
    BY <1>2, <1>4 DEF TypeInv, TypeOK
  <1>6. pdata' \in [Endpoint -> RSADATA] /\ WorkerHasMessage'
    BY <1>3, <1>4, StoreType
  <1>7. net' \in [Endpoint -> Seq(Message)]
    <2>1. WithPub("E0", e, d.pub_k) \in Message
      BY <1>3, MessageTypes DEF Types, PubKey, Endpoint, RSADATA
    <2> QED  BY <1>4, <2>1, NetType DEF TypeInv, TypeOK
  <1>8. dialog' \in [Endpoint -> SUBSET (PubKey \cup {None})]
    BY <1>4, LeaveDialogType DEF TypeInv, TypeOK
  <1>9. budget' \in [{"connect", "user", "loss", "dup"} -> Nat]
    BY SpendType DEF SendOffline, TypeInv
  <1> QED  BY <1>4, <1>5, <1>6, <1>7, <1>8, <1>9 DEF TypeInv, TypeOK

LEMMA SendDataSetStatusType ==
    ASSUME TypeInv, NEW e \in Endpoint, SendData(e) \/ SetStatus(e)
    PROVE  TypeInv'
  <1>1. budget' \in [{"connect", "user", "loss", "dup"} -> Nat]
    BY SpendType DEF SendData, SetStatus, TypeInv
  <1>2. CASE SendData(e)
    <2>1. WithAes("70", pdata[e].aes_k) \in Message
      BY MessageTypes DEF Types, TypeInv, TypeOK, RSADATA
    <2>2. net' \in [Endpoint -> Seq(Message)]
      BY <1>2, <2>1, NetType DEF SendData, TypeInv
    <2> QED  BY <1>1, <1>2, <2>2 DEF SendData, TypeInv, TypeOK, WorkerHasMessage
  <1>3. CASE SetStatus(e)
    <2>1. uin[e] \in UinKey
      BY DEF TypeInv, TypeOK
    <2>2. \A b \in BOOLEAN : [uin[e] EXCEPT !.disabled = b] \in UinKey
      BY <2>1 DEF UinKey
    <2> DEFINE b == ~uin[e].disabled
    <2>3. b \in BOOLEAN
      OBVIOUS
    <2>4. uin' = [uin EXCEPT ![e] = [uin[e] EXCEPT !.disabled = b]]
      BY <1>3 DEF SetStatus
    <2> HIDE DEF b
    <2>5. uin' \in [Endpoint -> UinKey]
      BY <2>2, <2>3, <2>4 DEF TypeInv, TypeOK
    <2> QED  BY <1>1, <1>3, <2>5 DEF SetStatus, TypeInv, TypeOK, WorkerHasMessage
  <1> QED  BY <1>2, <1>3

\* The ways rsa_recv ends: the context is closed, or only opened.
LEMMA ConsumeCloseType ==
    ASSUME TypeInv, NEW e \in Endpoint, net[e] # <<>>, Close(e), budget' = budget,
           Consume(e) \/ Answer(e, Plain("00")) \/ Answer(e, Plain("FF"))
    PROVE  TypeInv'
  <1>1. Plain("00") \in Message /\ Plain("FF") \in Message
    BY MessageTypes DEF Types
  <1>2. net' \in [Endpoint -> Seq(Message)]
    BY <1>1, NetType DEF TypeInv
  <1> QED  BY <1>2, CloseType DEF TypeInv, TypeOK

LEMMA IgnoreType ==
    ASSUME TypeInv, NEW e \in Endpoint, net[e] # <<>>, Ignore(e), budget' = budget
    PROVE  TypeInv'
  <1>1. net' \in [Endpoint -> Seq(Message)]
    BY NetType, MessageTypes DEF Ignore, TypeInv, Types
  <1>2. /\ uin' \in [Endpoint -> UinKey]
        /\ pdata' \in [Endpoint -> RSADATA]
        /\ WorkerHasMessage'
    BY OpenedType DEF Ignore
  <1> QED  BY <1>1, <1>2 DEF Ignore, TypeInv, TypeOK

LEMMA RecvForWorkerType ==
    ASSUME TypeInv, NEW e \in Endpoint, NEW m \in Message, net[e] # <<>>,
           RecvForWorker(e, m)
    PROVE  TypeInv'
  <1> DEFINE o == [OpenData(e) EXCEPT !.event = TRUE, !.queue = Append(@, m)]
  <1>1. o \in RSADATA /\ o.queue # <<>>
    <2> DEFINE q == OpenData(e).queue
    <2>1. OpenData(e) \in RSADATA /\ q \in Seq(Message)
      BY OpenKeepsWorker DEF RSADATA
    <2>2. Append(q, m) \in Seq(Message) /\ Append(q, m) # <<>>
      BY <2>1, AppendType
    <2>3. \A s \in Seq(Message) :
            LET x == [OpenData(e) EXCEPT !.event = TRUE, !.queue = s]
            IN  x \in RSADATA /\ x.queue = s
      BY <2>1 DEF RSADATA
    <2> QED  BY <2>1, <2>2, <2>3
  <1>2. pdata' = [pdata EXCEPT ![e] = Rearm(o)]
    BY DEF RecvForWorker
  <1> HIDE DEF o
  <1>3. Rearm(o) \in RSADATA /\ Rearm(o).queue # <<>>
    BY <1>1, RearmType
  <1>4. pdata' \in [Endpoint -> RSADATA] /\ WorkerHasMessage'
    BY <1>2, <1>3, StoreType
  <1>5. uin' \in [Endpoint -> UinKey]
    BY OpenedType DEF RecvForWorker
  <1>6. net' \in [Endpoint -> Seq(Message)]
    BY NetType DEF RecvForWorker, TypeInv
  <1> QED  BY <1>4, <1>5, <1>6 DEF RecvForWorker, Arrives, TypeInv, TypeOK

LEMMA RecvTestType ==
    ASSUME TypeInv, NEW e \in Endpoint, NEW m \in Message, net[e] # <<>>,
           RecvTest(e, m)
    PROVE  TypeInv'
  <1>1. budget' = budget
    BY DEF RecvTest, Arrives
  <1>2. CASE Decodes(pdata[e], m)
    <2>1. net' \in [Endpoint -> Seq(Message)]
      BY <1>2, NetType DEF RecvTest, TypeInv
    <2>2. /\ uin' \in [Endpoint -> UinKey]
          /\ pdata' \in [Endpoint -> RSADATA]
          /\ WorkerHasMessage'
      BY <1>2, OpenedType DEF RecvTest
    <2>3. main' \in [Endpoint -> {"idle", "reply", "accept", "join"}]
      BY <1>2 DEF RecvTest, TypeInv, TypeOK
    <2>4. tested' \in [Endpoint -> Nat]
      BY <1>2 DEF RecvTest, TypeInv, TypeOK, RSADATA
    <2> QED  BY <1>1, <1>2, <2>1, <2>2, <2>3, <2>4 DEF RecvTest, TypeInv, TypeOK
  <1>3. CASE ~Decodes(pdata[e], m)
    BY <1>1, <1>3, ConsumeCloseType DEF RecvTest
  <1> QED  BY <1>2, <1>3

LEMMA RecvType ==
    ASSUME TypeInv, NEW e \in Endpoint, Recv(e)
    PROVE  TypeInv'
  <1> DEFINE m == Head(net[e])
  <1>1. net[e] # <<>> /\ m \in Message
    BY HeadTail DEF Recv, TypeInv, TypeOK
  <1>2. \/ RecvUnreadable(e, m) \/ RecvWrongStep(e, m) \/ RecvForWorker(e, m)
        \/ RecvTest(e, m) \/ RecvData(e, m) \/ RecvOffline(e, m)
        \/ RecvDisconnect(e, m)
    BY DEF Recv
  <1> HIDE DEF m
  <1>3. CASE RecvUnreadable(e, m)
    BY <1>1, <1>3, IgnoreType DEF RecvUnreadable, Arrives
  <1>4. CASE RecvWrongStep(e, m)
    BY <1>1, <1>4, ConsumeCloseType DEF RecvWrongStep, Arrives
  <1>5. CASE RecvForWorker(e, m)
    BY <1>1, <1>5, RecvForWorkerType
  <1>6. CASE RecvTest(e, m)
    BY <1>1, <1>6, RecvTestType
  <1>7. CASE RecvData(e, m)
    BY <1>1, <1>7, IgnoreType, ConsumeCloseType DEF RecvData, Arrives
  <1>8. CASE RecvOffline(e, m)
    BY <1>1, <1>8, IgnoreType, ConsumeCloseType DEF RecvOffline, Arrives
  <1>9. CASE RecvDisconnect(e, m)
    BY <1>1, <1>9, IgnoreType, ConsumeCloseType DEF RecvDisconnect, Arrives
  <1> QED  BY <1>2, <1>3, <1>4, <1>5, <1>6, <1>7, <1>8, <1>9

LEMMA EstablishJoinType ==
    ASSUME TypeInv, NEW e \in Endpoint, Establish(e) \/ Join(e)
    PROVE  TypeInv'
  <1>1. pdata[e] \in RSADATA /\ (pdata[e].busy => pdata[e].queue # <<>>)
    BY DEF TypeInv, TypeOK, WorkerHasMessage
  <1>2. CASE Establish(e)
    <2> DEFINE d == [pdata[e] EXCEPT !.state = 7, !.time = FALSE]
    <2>1. d \in RSADATA /\ (d.busy => d.queue # <<>>)
      BY <1>1 DEF RSADATA
    <2>2. pdata' = [pdata EXCEPT ![e] = d]
      BY <1>2 DEF Establish
    <2> HIDE DEF d
    <2>3. pdata' \in [Endpoint -> RSADATA] /\ WorkerHasMessage'
      BY <2>1, <2>2, StoreType
    <2>4. WithAes("60", pdata[e].aes_k) \in Message
      BY <1>1, MessageTypes DEF Types, RSADATA
    <2>5. net' \in [Endpoint -> Seq(Message)]
      BY <1>2, <2>4, NetType DEF Establish, TypeInv, TypeOK
    <2> QED  BY <1>2, <2>3, <2>5 DEF Establish, TypeInv, TypeOK
  <1>3. CASE Join(e)
    <2> DEFINE o == [pdata[e] EXCEPT !.event = FALSE, !.time = FALSE, !.queue = <<>>]
    <2>1. o \in RSADATA /\ o.busy = pdata[e].busy
      <3>1. <<>> \in Seq(Message)
        OBVIOUS
      <3> QED  BY <1>1, <3>1 DEF RSADATA
    <2>2. pdata' = [pdata EXCEPT ![e] = Rearm(o)] /\ ~pdata[e].busy
      BY <1>3 DEF Join
    <2> HIDE DEF o
    <2>3. Rearm(o) \in RSADATA /\ Rearm(o).busy = pdata[e].busy
      BY <2>1, RearmType
    <2>4. pdata' \in [Endpoint -> RSADATA] /\ WorkerHasMessage'
      BY <2>2, <2>3, StoreType
    <2> QED  BY <1>3, <2>4 DEF Join, TypeInv, TypeOK
  <1> QED  BY <1>2, <1>3

LEMMA SendFreshKeyType ==
    ASSUME TypeInv, NEW e \in Endpoint, NEW t \in Types, NEW d \in RSADATA,
           d.queue # <<>>, SendFreshKey(e, t, d)
    PROVE  /\ net' \in [Endpoint -> Seq(Message)]
           /\ pdata' \in [Endpoint -> RSADATA] /\ WorkerHasMessage'
           /\ main' = main /\ dialog' = dialog /\ tested' = tested
           /\ lastKey' \in 0 .. MaxKey /\ held' \in [Endpoint -> SUBSET Nat]
           /\ pdata'[e].state = 5 /\ pdata'[e].aes_k = lastKey + 1
           /\ \A x \in Endpoint \ {e} : pdata'[x] = pdata[x]
  <1>1. lastKey + 1 \in Nat
    BY DEF TypeInv, TypeOK
  <1>2. net' \in [Endpoint -> Seq(Message)]
    <2>1. Sealed(t, e, d.pub_k, lastKey + 1) \in Message
      BY <1>1, MessageTypes DEF RSADATA, PubKey, Endpoint
    <2> QED  BY <2>1, NetType DEF SendFreshKey, TypeInv
  <1>3. lastKey' \in 0 .. MaxKey /\ held' \in [Endpoint -> SUBSET Nat]
    <2>1. lastKey < MaxKey /\ lastKey' = lastKey + 1
      BY DEF SendFreshKey
    <2>2. lastKey \in 0 .. MaxKey /\ MaxKey \in Nat
      BY ConstantsOK DEF TypeInv, TypeOK
    <2>3. held' \in [Endpoint -> SUBSET Nat]
      BY <1>1 DEF SendFreshKey, TypeInv, TypeOK
    <2> QED  BY <2>1, <2>2, <2>3
  <1> DEFINE n == [d EXCEPT !.aes_k = lastKey + 1, !.state = 5]
  <1>4. /\ n \in RSADATA /\ n.queue # <<>>
        /\ n.state = 5 /\ n.aes_k = lastKey + 1
    BY <1>1 DEF RSADATA
  <1>5. Done(e, n)
    BY DEF SendFreshKey
  <1> HIDE DEF n
  <1> QED  BY <1>2, <1>3, <1>4, <1>5, DoneType

\* What a worker handles is a message, and it is still in the queue.
LEMMA WorkerMessage ==
    ASSUME TypeInv, NEW e \in Endpoint, pdata[e].busy
    PROVE  /\ Head(pdata[e].queue) \in Message
           /\ pdata[e] \in RSADATA /\ pdata[e].queue # <<>>
  <1>1. pdata[e] \in RSADATA /\ pdata[e].queue # <<>>
    BY DEF TypeInv, TypeOK, WorkerHasMessage
  <1>2. pdata[e].queue \in Seq(Message)
    BY <1>1 DEF RSADATA
  <1> QED  BY <1>1, <1>2, HeadTail

LEMMA HandleConnectType ==
    ASSUME TypeInv, NEW e \in Endpoint, pdata[e].busy,
           HandleConnect(e, Head(pdata[e].queue))
    PROVE  TypeInv'
  <1> DEFINE m == Head(pdata[e].queue)
             d == [pdata[e] EXCEPT !.state = 3]
             known == pdata[e].pub_k = m.own /\ m.peer = e
  <1>1. budget' = budget /\ uin' = uin
    BY DEF HandleConnect, Handles
  <1>2. CASE known
    <2>1. SendFreshKey(e, "21", pdata[e])
      BY <1>2 DEF HandleConnect
    <2>2. "21" \in Types
      BY DEF Types, WorkerTypes, Exchange
    <2> QED
      BY <1>1, <2>1, <2>2, WorkerMessage, SendFreshKeyType DEF TypeInv, TypeOK
  <1>3. CASE ~known
    <2>1. /\ Send(e, Plain("23")) \/ Send(e, WithPub("22", e, None))
             \/ Send(e, WithPub("24", e, None))
          /\ Done(e, d)
          /\ lastKey' = lastKey /\ held' = held
      BY <1>3 DEF HandleConnect
    <2>2. /\ Plain("23") \in Message /\ WithPub("22", e, None) \in Message
          /\ WithPub("24", e, None) \in Message
      BY MessageTypes DEF Types, WorkerTypes, Exchange, PubKey, Endpoint
    <2>3. net' \in [Endpoint -> Seq(Message)]
      BY <2>1, <2>2, NetType DEF TypeInv
    <2>4. d \in RSADATA /\ d.queue # <<>>
      BY WorkerMessage DEF RSADATA
    <2> HIDE DEF d
    <2> QED  BY <1>1, <2>1, <2>3, <2>4, DoneType DEF TypeInv, TypeOK
  <1> QED  BY <1>2, <1>3

LEMMA HandleKeyWantedType ==
    ASSUME TypeInv, NEW e \in Endpoint, pdata[e].busy,
           HandleKeyWanted(e, Head(pdata[e].queue))
    PROVE  TypeInv'
  <1> DEFINE d == [pdata[e] EXCEPT !.state = 4]
  <1>1. d \in RSADATA /\ d.queue # <<>>
    BY WorkerMessage DEF RSADATA
  <1>2. Done(e, d) /\ Send(e, WithPub("33", e, None))
    BY DEF HandleKeyWanted
  <1> HIDE DEF d
  <1>3. WithPub("33", e, None) \in Message
    BY MessageTypes DEF Types, WorkerTypes, Exchange, PubKey, Endpoint
  <1>4. net' \in [Endpoint -> Seq(Message)]
    BY <1>2, <1>3, NetType DEF TypeInv
  <1> QED
    BY <1>1, <1>2, <1>4, DoneType DEF HandleKeyWanted, Handles, TypeInv, TypeOK

LEMMA AcceptKeyType ==
    ASSUME TypeInv, NEW e \in Endpoint, pdata[e].busy,
           AcceptKey(e, Head(pdata[e].queue))
    PROVE  TypeInv'
  <1> DEFINE m == Head(pdata[e].queue)
             a == [pdata[e] EXCEPT !.pub_k = m.own]
             d == [a EXCEPT !.state = 4]
  <1>1. m.own \in PubKey \cup {None}
    BY WorkerMessage DEF Message
  <1>2. a \in RSADATA /\ a.queue # <<>>
    BY <1>1, WorkerMessage DEF RSADATA
  <1>3. budget' = budget
    BY DEF AcceptKey, Handles
  <1>4. uin' \in [Endpoint -> UinKey]
    <2>1. uin[e] \in UinKey
      BY DEF TypeInv, TypeOK
    <2>2. [uin[e] EXCEPT !.rsa_pub = m.own, !.keyLoaded = TRUE] \in UinKey
      BY <1>1, <2>1 DEF UinKey
    <2> QED  BY <2>2 DEF AcceptKey, TypeInv, TypeOK
  <1>5. CASE m.type = "24"
    <2>1. Done(e, d) /\ Send(e, WithPub("34", e, None)) /\ lastKey' = lastKey /\ held' = held
      BY <1>5 DEF AcceptKey
    <2>2. WithPub("34", e, None) \in Message
      BY MessageTypes DEF Types, WorkerTypes, Exchange, PubKey, Endpoint
    <2>3. net' \in [Endpoint -> Seq(Message)]
      BY <2>1, <2>2, NetType DEF TypeInv
    <2>4. d \in RSADATA /\ d.queue # <<>>
      BY <1>2 DEF RSADATA
    <2> HIDE DEF d
    <2> QED  BY <1>3, <1>4, <2>1, <2>3, <2>4, DoneType DEF TypeInv, TypeOK
  <1>6. CASE m.type # "24"
    <2>1. SendFreshKey(e, "32", a) \/ SendFreshKey(e, "40", a)
      BY <1>6 DEF AcceptKey
    <2>2. "32" \in Types /\ "40" \in Types
      BY DEF Types, WorkerTypes, Exchange
    <2> HIDE DEF a
    <2> QED
      BY <1>2, <1>3, <1>4, <2>1, <2>2, SendFreshKeyType DEF TypeInv, TypeOK
  <1> QED  BY <1>5, <1>6

LEMMA AbandonType ==
    ASSUME TypeInv, NEW e \in Endpoint, Send(e, Plain("00")), Shut(e),
           dialog' = LeaveDialog(e) \/ dialog' = dialog, budget' = budget
    PROVE  TypeInv'
  <1>1. net' \in [Endpoint -> Seq(Message)]
    BY MessageTypes, NetType DEF Types, TypeInv
  <1> QED  BY <1>1, ShutType DEF TypeInv, TypeOK

LEMMA HandleAesKeyType ==
    ASSUME TypeInv, NEW e \in Endpoint, pdata[e].busy,
           HandleAesKey(e, Head(pdata[e].queue))
    PROVE  TypeInv'
  <1> DEFINE m == Head(pdata[e].queue)
             d == [pdata[e] EXCEPT !.aes_k = m.aes, !.state = 6]
  <1>1. budget' = budget
    BY DEF HandleAesKey, Handles
  <1>2. CASE Opens(e, pdata[e], m)
    <2>1. m.aes \in Nat
      BY WorkerMessage DEF Message
    <2>2. /\ Done(e, d) /\ Send(e, WithAes("50", m.aes))
          /\ held' = [held EXCEPT ![e] = @ \cup {m.aes}]
          /\ uin' = uin /\ lastKey' = lastKey
      BY <1>2 DEF HandleAesKey
    <2>3. net' \in [Endpoint -> Seq(Message)]
      <3>1. WithAes("50", m.aes) \in Message
        BY <2>1, MessageTypes DEF Types
      <3> QED  BY <2>2, <3>1, NetType DEF TypeInv
    <2>4. d \in RSADATA /\ d.queue # <<>>
      BY <2>1, WorkerMessage DEF RSADATA
    <2>5. held' \in [Endpoint -> SUBSET Nat]
      BY <2>1, <2>2 DEF TypeInv, TypeOK
    <2> HIDE DEF d
    <2> QED  BY <1>1, <2>2, <2>3, <2>4, <2>5, DoneType DEF TypeInv, TypeOK
  <1>3. CASE ~Opens(e, pdata[e], m)
    BY <1>1, <1>3, AbandonType DEF HandleAesKey, Close
  <1> QED  BY <1>2, <1>3

LEMMA WorkerType ==
    ASSUME TypeInv, NEW e \in Endpoint, Take(e) \/ Work(e)
    PROVE  TypeInv'
  <1>1. CASE Take(e)
    <2> DEFINE d == [pdata[e] EXCEPT !.busy = TRUE]
    <2>1. d \in RSADATA /\ d.queue # <<>>
      BY ZenonT(60), <1>1 DEF Take, TypeInv, TypeOK, RSADATA
    <2>2. pdata' = [pdata EXCEPT ![e] = d]
      BY <1>1 DEF Take
    <2> HIDE DEF d
    <2>3. pdata' \in [Endpoint -> RSADATA] /\ WorkerHasMessage'
      BY <2>1, <2>2, StoreType
    <2> QED  BY <1>1, <2>3 DEF Take, TypeInv, TypeOK
  <1>2. CASE Work(e)
    <2> DEFINE m == Head(pdata[e].queue)
    <2>1. /\ pdata[e].busy
          /\ \/ HandleConnect(e, m) \/ HandleKeyWanted(e, m) \/ AcceptKey(e, m)
             \/ RefuseKey(e, m) \/ HandleAesKey(e, m)
      BY <1>2 DEF Work
    <2>2. CASE HandleConnect(e, m)
      BY <2>1, <2>2, HandleConnectType
    <2>3. CASE HandleKeyWanted(e, m)
      BY <2>1, <2>3, HandleKeyWantedType
    <2>4. CASE AcceptKey(e, m)
      BY <2>1, <2>4, AcceptKeyType
    <2>5. CASE RefuseKey(e, m)
      BY <2>5, AbandonType DEF RefuseKey, Handles
    <2>6. CASE HandleAesKey(e, m)
      BY <2>1, <2>6, HandleAesKeyType
    <2> QED  BY <2>1, <2>2, <2>3, <2>4, <2>5, <2>6
  <1> QED  BY <1>1, <1>2

LEMMA LateAnswerType ==
    ASSUME TypeInv, NEW e \in Endpoint, LateAccept(e) \/ LateRefuse(e)
    PROVE  TypeInv'
  <1>1. PICK k \in dialog[e] :
          /\ dialog' = [dialog EXCEPT ![e] = @ \ {k}]
          /\ \/ uin' = uin
             \/ uin' = [uin EXCEPT ![e] = [@ EXCEPT !.rsa_pub = k, !.keyLoaded = TRUE]]
          /\ UNCHANGED <<net, pdata, main, lastKey, held, tested, budget>>
    BY DEF LateAccept, LateRefuse
  <1>2. k \in PubKey \cup {None} /\ uin[e] \in UinKey
    BY <1>1 DEF TypeInv, TypeOK
  <1>3. [uin[e] EXCEPT !.rsa_pub = k, !.keyLoaded = TRUE] \in UinKey
    BY <1>2 DEF UinKey
  <1>4. uin' \in [Endpoint -> UinKey]
    BY <1>1, <1>3 DEF TypeInv, TypeOK
  <1>5. dialog' \in [Endpoint -> SUBSET (PubKey \cup {None})]
    BY <1>1 DEF TypeInv, TypeOK
  <1> QED  BY <1>1, <1>4, <1>5 DEF TypeInv, TypeOK, WorkerHasMessage

LEMMA TimeoutType ==
    ASSUME TypeInv, NEW e \in Endpoint, Expire(e) \/ Timeout(e)
    PROVE  TypeInv'
  <1>1. CASE Expire(e)
    <2> DEFINE d == [pdata[e] EXCEPT !.expired = TRUE]
    <2>1. pdata[e] \in RSADATA /\ (pdata[e].busy => pdata[e].queue # <<>>)
      BY DEF TypeInv, TypeOK, WorkerHasMessage
    <2>2. d \in RSADATA /\ (d.busy => d.queue # <<>>)
      BY <2>1 DEF RSADATA
    <2>3. pdata' = [pdata EXCEPT ![e] = d]
      BY <1>1 DEF Expire
    <2> HIDE DEF d
    <2>4. pdata' \in [Endpoint -> RSADATA] /\ WorkerHasMessage'
      BY <2>2, <2>3, StoreType
    <2> QED  BY <1>1, <2>4 DEF Expire, TypeInv, TypeOK
  <1>2. CASE Timeout(e)
    BY <1>2, CloseType DEF Timeout, TypeInv, TypeOK
  <1> QED  BY <1>1, <1>2

LEMMA NetworkType ==
    ASSUME TypeInv, NEW e \in Endpoint, Lose(e) \/ Duplicate(e)
    PROVE  TypeInv'
  <1>1. net \in [Endpoint -> Seq(Message)] /\ net[e] # <<>>
    BY DEF Lose, Duplicate, TypeInv, TypeOK
  <1>2. Head(net[e]) \in Message /\ Tail(net[e]) \in Seq(Message)
    BY <1>1, HeadTail
  <1>3. Append(net[e], Head(net[e])) \in Seq(Message)
    BY <1>1, <1>2, AppendType
  <1>4. \/ net' = [net EXCEPT ![e] = Tail(net[e])]
        \/ net' = [net EXCEPT ![e] = Append(net[e], Head(net[e]))]
    BY DEF Lose, Duplicate, Consume
  <1>5. net' \in [Endpoint -> Seq(Message)]
    BY <1>1, <1>2, <1>3, <1>4
  <1>6. budget' \in [{"connect", "user", "loss", "dup"} -> Nat]
    BY SpendType DEF Lose, Duplicate, TypeInv
  <1> QED  BY <1>5, <1>6 DEF Lose, Duplicate, TypeInv, TypeOK, WorkerHasMessage

LEMMA InitType == Init => TypeInv
  <1> SUFFICES ASSUME Init  PROVE TypeInv
    OBVIOUS
  <1>1. <<>> \in Seq(Message)
    OBVIOUS
  <1>2. net \in [Endpoint -> Seq(Message)]
    BY <1>1 DEF Init
  <1>3. uin \in [Endpoint -> UinKey]
    BY DEF Init, UinKey
  <1>4. pdata \in [Endpoint -> RSADATA]
    BY FreshDataType DEF Init
  <1>5. budget \in [{"connect", "user", "loss", "dup"} -> Nat]
    BY ConstantsOK DEF Init
  <1>6. WorkerHasMessage
    BY DEF Init, WorkerHasMessage, FreshData
  <1>7. lastKey \in 0 .. MaxKey
    BY ConstantsOK DEF Init
  <1> QED  BY <1>2, <1>3, <1>4, <1>5, <1>6, <1>7 DEF Init, TypeInv, TypeOK, NoKey

LEMMA NextType ==
    ASSUME TypeInv, [Next]_vars
    PROVE  TypeInv'
  <1>1. CASE UNCHANGED vars
    BY <1>1 DEF vars, TypeInv, TypeOK, WorkerHasMessage
  <1>2. ASSUME NEW e \in Endpoint, User(e)  PROVE TypeInv'
    BY <1>2, ConnectType, DisconnectType, SendDataSetStatusType, SendOfflineType DEF User
  <1>3. ASSUME NEW e \in Endpoint, RecvWhileDisabled(e)  PROVE TypeInv'
    BY <1>3, ConsumeCloseType DEF RecvWhileDisabled
  <1>4. ASSUME NEW e \in Endpoint, Recv(e)  PROVE TypeInv'
    BY <1>4, RecvType
  <1>5. ASSUME NEW e \in Endpoint, Establish(e) \/ Join(e)  PROVE TypeInv'
    BY <1>5, EstablishJoinType
  <1>6. ASSUME NEW e \in Endpoint, Take(e) \/ Work(e)  PROVE TypeInv'
    BY <1>6, WorkerType
  <1>7. ASSUME NEW e \in Endpoint, LateAccept(e) \/ LateRefuse(e)  PROVE TypeInv'
    BY <1>7, LateAnswerType
  <1>8. ASSUME NEW e \in Endpoint, Expire(e) \/ Timeout(e)  PROVE TypeInv'
    BY <1>8, TimeoutType
  <1>9. ASSUME NEW e \in Endpoint, Lose(e) \/ Duplicate(e)  PROVE TypeInv'
    BY <1>9, NetworkType
  <1> QED  BY <1>1, <1>2, <1>3, <1>4, <1>5, <1>6, <1>7, <1>8, <1>9 DEF Next

\* TypeOK with its strengthening is an invariant of the protocol.
THEOREM TypeInvariant == Spec => []TypeInv
  BY InitType, NextType, PTL DEF Spec

\* Every reachable state of the two contacts, their contexts, threads and
\* messages has the types cryptopp.h and crypt.h declare: in particular
\* p->state is 0 or one of the steps 2 to 7.
THEOREM TypeCorrect == Spec => []TypeOK
  <1>1. TypeInv => TypeOK
    BY DEF TypeInv
  <1> QED  BY <1>1, TypeInvariant, PTL

-----------------------------------------------------------------------------
(* Keys.  That an open session was tested with a key of the other contact  *)
(* is not inductive: it rests on where every key in a context, in a queue  *)
(* and on the network comes from.                                          *)

\* A message from someone who has had the keys ks carries none but those, and
\* the three messages that hand a key over do carry one.
Carried(m, ks) ==
    /\ m.aes \in ks \cup {NoKey}
    /\ m.type \in {"21", "32", "40"} => m.aes # NoKey

NetCarried == \A e \in Endpoint : \A i \in DOMAIN net[e] :
    Carried(net[e][i], held[Peer(e)])

QueueCarried == \A e \in Endpoint : \A i \in DOMAIN pdata[e].queue :
    Carried(pdata[e].queue[i], held[Peer(e)])

OwnKeyHeld == \A e \in Endpoint : pdata[e].aes_k \in held[e] \cup {NoKey}

KeysDrawn == \A e \in Endpoint : held[e] \subseteq 1 .. lastKey

\* From the test that decodes to the end of the session.
Marked(e) == main[e] # "idle" \/ Open(e)
TestedShared == \A e \in Endpoint :
    Marked(e) => tested[e] \in held[e] \cap held[Peer(e)]

KeyInv == NetCarried /\ QueueCarried /\ OwnKeyHeld /\ KeysDrawn /\ TestedShared

HeldGrows == \A e \in Endpoint : held[e] \subseteq held'[e]

LEMMA CarriedGrows ==
    ASSUME NEW m, NEW a, NEW b, a \subseteq b, Carried(m, a)
    PROVE  Carried(m, b)
  BY DEF Carried

LEMMA SameHeld ==
    ASSUME TypeInv, KeysDrawn, held' = held, lastKey' = lastKey
    PROVE  HeldGrows /\ KeysDrawn'
  BY DEF HeldGrows, KeysDrawn

LEMMA NetKept ==
    ASSUME TypeInv, NetCarried, HeldGrows,
           NEW e \in Endpoint, NEW m \in Message, Carried(m, held'[e]),
           \/ net' = net
           \/ Send(e, m)
           \/ net[e] # <<>> /\ Consume(e)
           \/ net[e] # <<>> /\ Answer(e, m)
    PROVE  NetCarried'
  <1>1. net \in [Endpoint -> Seq(Message)] /\ Peer(e) \in Endpoint /\ Peer(e) # e
    BY PeerType DEF TypeInv, TypeOK
  <1>2. SUFFICES ASSUME NEW x \in Endpoint, NEW i \in DOMAIN net'[x]
                 PROVE  Carried(net'[x][i], held'[Peer(x)])
    BY DEF NetCarried
  <1>3. \A j \in DOMAIN net[x] : Carried(net[x][j], held'[Peer(x)])
    BY CarriedGrows, PeerType DEF NetCarried, HeldGrows
  <1>4. CASE net'[x] = net[x]
    BY <1>3, <1>4
  <1>5. CASE x = Peer(e) /\ net'[x] = Append(net[x], m)
    <2>1. \/ i \in DOMAIN net[x] /\ net'[x][i] = net[x][i]
          \/ net'[x][i] = m
      BY <1>1, <1>5, AppendType
    <2>2. Peer(x) = e
      BY <1>5, PeerType
    <2> QED  BY <1>3, <2>1, <2>2
  <1>6. CASE net[x] # <<>> /\ net'[x] = Tail(net[x])
    <2>1. i + 1 \in DOMAIN net[x] /\ net'[x][i] = net[x][i + 1]
      BY <1>1, <1>6, HeadTail
    <2> QED  BY <1>3, <2>1
  <1>7. \/ net'[x] = net[x]
        \/ x = Peer(e) /\ net'[x] = Append(net[x], m)
        \/ net[x] # <<>> /\ net'[x] = Tail(net[x])
    BY <1>1 DEF Send, Consume, Answer
  <1> QED  BY <1>4, <1>5, <1>6, <1>7

LEMMA StoreKept ==
    ASSUME TypeInv, QueueCarried, OwnKeyHeld, HeldGrows,
           NEW e \in Endpoint, NEW d \in RSADATA, pdata' = [pdata EXCEPT ![e] = d],
           \A i \in DOMAIN d.queue : Carried(d.queue[i], held'[Peer(e)]),
           d.aes_k \in held'[e] \cup {NoKey}
    PROVE  QueueCarried' /\ OwnKeyHeld'
  <1>1. \A x \in Endpoint : pdata'[x] = IF x = e THEN d ELSE pdata[x]
    BY DEF TypeInv, TypeOK
  <1>2. ASSUME NEW x \in Endpoint, NEW i \in DOMAIN pdata'[x].queue
        PROVE  Carried(pdata'[x].queue[i], held'[Peer(x)])
    <2>1. CASE x = e
      BY <1>1, <2>1
    <2>2. CASE x # e
      BY <1>1, <2>2, CarriedGrows, PeerType DEF QueueCarried, HeldGrows
    <2> QED  BY <2>1, <2>2
  <1>3. OwnKeyHeld'
    BY <1>1 DEF OwnKeyHeld, HeldGrows
  <1> QED  BY <1>2, <1>3 DEF QueueCarried

LEMMA MarkKept ==
    ASSUME TestedShared, HeldGrows, tested' = tested,
           \A x \in Endpoint : Marked(x)' => Marked(x)
    PROVE  TestedShared'
  <1> SUFFICES ASSUME NEW x \in Endpoint, Marked(x)'
               PROVE  tested'[x] \in held'[x] \cap held'[Peer(x)]
    BY DEF TestedShared
  <1>1. tested[x] \in held[x] \cap held[Peer(x)]
    BY DEF TestedShared
  <1> QED  BY <1>1, PeerType DEF HeldGrows

\* A context that is opened keeps its messages, its keys and its mark.
LEMMA OpenedKept ==
    ASSUME TypeInv, KeyInv, NEW e \in Endpoint,
           pdata' = [pdata EXCEPT ![e] = OpenData(e)],
           held' = held, lastKey' = lastKey
    PROVE  /\ HeldGrows /\ QueueCarried' /\ OwnKeyHeld' /\ KeysDrawn'
           /\ \A x \in Endpoint : Open(x)' => Open(x)
  <1>1. HeldGrows /\ KeysDrawn'
    BY SameHeld DEF KeyInv
  <1>2. OpenData(e) \in RSADATA /\ pdata[e] \in RSADATA
    BY OpenKeepsWorker DEF TypeInv, TypeOK
  <1>3. /\ OpenData(e).queue = pdata[e].queue
        /\ OpenData(e).aes_k = pdata[e].aes_k
        /\ OpenData(e).state = pdata[e].state
    BY <1>2 DEF OpenData, RSADATA
  <1>4. QueueCarried' /\ OwnKeyHeld'
    <2>1. \A i \in DOMAIN OpenData(e).queue :
            Carried(OpenData(e).queue[i], held'[Peer(e)])
      BY <1>3 DEF KeyInv, QueueCarried
    <2>2. OpenData(e).aes_k \in held'[e] \cup {NoKey}
      BY <1>3 DEF KeyInv, OwnKeyHeld
    <2> QED  BY <1>1, <1>2, <2>1, <2>2, StoreKept DEF KeyInv
  <1>5. \A x \in Endpoint : Open(x)' => Open(x)
    BY <1>3 DEF Open, TypeInv, TypeOK
  <1> QED  BY <1>1, <1>4, <1>5

LEMMA ShutKept ==
    ASSUME TypeInv, KeyInv, NEW e \in Endpoint, Shut(e)
    PROVE  HeldGrows /\ QueueCarried' /\ OwnKeyHeld' /\ KeysDrawn' /\ TestedShared'
  <1>1. HeldGrows /\ KeysDrawn'
    BY SameHeld DEF KeyInv, Shut
  <1>2. FreshData.queue = <<>> /\ FreshData.aes_k = NoKey /\ FreshData.state = 0
    BY DEF FreshData
  <1>3. pdata' = [pdata EXCEPT ![e] = FreshData] /\ main' = [main EXCEPT ![e] = "idle"]
    BY DEF Shut
  <1>4. QueueCarried' /\ OwnKeyHeld'
    <2>1. \A i \in DOMAIN FreshData.queue : Carried(FreshData.queue[i], held'[Peer(e)])
      BY <1>2
    <2>2. FreshData.aes_k \in held'[e] \cup {NoKey}
      BY <1>2
    <2> QED  BY <1>1, <1>3, <2>1, <2>2, FreshDataType, StoreKept DEF KeyInv
  <1>5. \A x \in Endpoint : Marked(x)' => Marked(x)
    BY <1>2, <1>3 DEF Marked, Open, TypeInv, TypeOK
  <1>6. tested' = tested
    BY DEF Shut
  <1> QED  BY <1>1, <1>4, <1>5, <1>6, MarkKept DEF KeyInv

LEMMA CloseKept ==
    ASSUME TypeInv, KeyInv, NEW e \in Endpoint, Close(e)
    PROVE  HeldGrows /\ QueueCarried' /\ OwnKeyHeld' /\ KeysDrawn' /\ TestedShared'
  BY ShutKept DEF Close

LEMMA PlainCarried ==
    ASSUME NEW ks
    PROVE  /\ \A t \in Types \ {"21", "32", "40"} : Carried(Plain(t), ks)
           /\ \A own, peer : \A t \in Types \ {"21", "32", "40"} :
                 Carried(WithPub(t, own, peer), ks)
           /\ \A t \in Types \ {"21", "32", "40"}, k \in ks \cup {NoKey} :
                 Carried(WithAes(t, k), ks)
  BY DEF Carried, Plain, WithPub, WithAes

LEMMA OwnKeyCarried ==
    ASSUME TypeInv, KeyInv, HeldGrows, NEW e \in Endpoint,
           NEW t \in Types \ {"21", "32", "40"}
    PROVE  /\ WithAes(t, pdata[e].aes_k) \in Message
           /\ Carried(WithAes(t, pdata[e].aes_k), held'[e])
  <1>1. pdata[e].aes_k \in Nat /\ pdata[e].aes_k \in held'[e] \cup {NoKey}
    BY DEF TypeInv, TypeOK, RSADATA, KeyInv, OwnKeyHeld, HeldGrows
  <1> QED  BY <1>1, MessageTypes, PlainCarried

LEMMA UserKeys ==
    ASSUME TypeInv, KeyInv, NEW e \in Endpoint, User(e)
    PROVE  KeyInv'
  <1>1. CASE Connect(e)
    <2> DEFINE d == [OpenData(e) EXCEPT !.state = 2, !.time = TRUE]
               m == WithPub("10", e, OpenData(e).pub_k)
    <2>1. /\ held' = held /\ lastKey' = lastKey /\ tested' = tested /\ main' = main
          /\ pdata' = [pdata EXCEPT ![e] = d]
          /\ Send(e, m)
      BY <1>1 DEF Connect
    <2>2. OpenData(e) \in RSADATA /\ pdata[e] \in RSADATA
      BY OpenKeepsWorker DEF TypeInv, TypeOK
    <2>3. /\ d \in RSADATA /\ d.queue = pdata[e].queue
          /\ d.aes_k = pdata[e].aes_k /\ d.state = 2
      BY <2>2 DEF OpenData, RSADATA
    <2>4. m \in Message /\ Carried(m, held'[e])
      <3>1. "10" \in Types \ {"21", "32", "40"} /\ OpenData(e).pub_k \in PubKey \cup {None}
        BY <2>2 DEF Types, WorkerTypes, RSADATA
      <3> QED  BY <3>1, MessageTypes, PlainCarried DEF PubKey, Endpoint
    <2> HIDE DEF d, m
    <2>5. HeldGrows /\ KeysDrawn'
      BY <2>1, SameHeld DEF KeyInv
    <2>6. QueueCarried' /\ OwnKeyHeld'
      <3>1. \A i \in DOMAIN d.queue : Carried(d.queue[i], held'[Peer(e)])
        BY <2>1, <2>3 DEF KeyInv, QueueCarried
      <3>2. d.aes_k \in held'[e] \cup {NoKey}
        BY <2>1, <2>3 DEF KeyInv, OwnKeyHeld
      <3> QED  BY <2>1, <2>3, <2>5, <3>1, <3>2, StoreKept DEF KeyInv
    <2>7. \A x \in Endpoint : Marked(x)' => Marked(x)
      BY <2>1, <2>3 DEF Marked, Open, TypeInv, TypeOK
    <2> QED  BY <2>1, <2>4, <2>5, <2>6, <2>7, NetKept, MarkKept DEF KeyInv
  <1>2. CASE Disconnect(e) \/ GoesOffline(e) \/ CommandWhileDisabled(e)
    <2>1. Close(e)
      BY <1>2 DEF Disconnect, GoesOffline, CommandWhileDisabled
    <2>2. HeldGrows /\ QueueCarried' /\ OwnKeyHeld' /\ KeysDrawn' /\ TestedShared'
      BY <2>1, CloseKept
    <2>3. /\ WithAes("F0", pdata[e].aes_k) \in Message
          /\ Carried(WithAes("F0", pdata[e].aes_k), held'[e])
          /\ Plain("FF") \in Message /\ Carried(Plain("FF"), held'[e])
      BY <2>2, OwnKeyCarried, MessageTypes, PlainCarried DEF Types
    <2>4. \/ net' = net
          \/ Send(e, WithAes("F0", pdata[e].aes_k)) \/ Send(e, Plain("FF"))
      BY <1>2 DEF Disconnect, GoesOffline, CommandWhileDisabled
    <2>5. NetCarried'
      BY <2>2, <2>3, <2>4, NetKept DEF KeyInv
    <2> QED  BY <2>2, <2>5 DEF KeyInv
  <1>3. CASE SendData(e)
    <2>1. /\ held' = held /\ lastKey' = lastKey /\ tested' = tested
          /\ main' = main /\ pdata' = pdata
          /\ Send(e, WithAes("70", pdata[e].aes_k))
      BY <1>3 DEF SendData
    <2>2. HeldGrows /\ KeysDrawn'
      BY <2>1, SameHeld DEF KeyInv
    <2>3. /\ WithAes("70", pdata[e].aes_k) \in Message
          /\ Carried(WithAes("70", pdata[e].aes_k), held'[e])
      BY <2>2, OwnKeyCarried DEF Types
    <2>4. NetCarried'
      BY <2>1, <2>2, <2>3, NetKept DEF KeyInv
    <2> QED
      BY <2>1, <2>2, <2>4 DEF KeyInv, QueueCarried, OwnKeyHeld, TestedShared, Marked, Open
  <1>4. CASE SendOffline(e)
    <2> DEFINE key == uin[e].rsa_pub
               d == IF uin[e].cntx /\ pdata[e].state # 0
                    THEN [FreshData EXCEPT !.pub_k = key] ELSE OpenData(e)
               m == WithPub("E0", e, d.pub_k)
    <2>1. /\ held' = held /\ lastKey' = lastKey /\ tested' = tested /\ main' = main
          /\ pdata' = [pdata EXCEPT ![e] = d]
          /\ net' = net \/ Send(e, m)
      BY <1>4 DEF SendOffline
    <2>2. pdata[e] \in RSADATA /\ key \in PubKey \cup {None}
      BY DEF TypeInv, TypeOK, UinKey
    <2>3. /\ d \in RSADATA
          /\ d.queue = <<>> \/ d.queue = pdata[e].queue
          /\ d.aes_k = NoKey \/ d.aes_k = pdata[e].aes_k
          /\ d.state = 0 \/ d.state = pdata[e].state
      <3>1. CASE d = [FreshData EXCEPT !.pub_k = key]
        <4>1. FreshData \in RSADATA /\ FreshData.queue = <<>>
              /\ FreshData.aes_k = NoKey /\ FreshData.state = 0
          BY FreshDataType DEF FreshData
        <4> QED  BY <2>2, <3>1, <4>1 DEF RSADATA
      <3>2. CASE d = OpenData(e)
        <4>1. OpenData(e).queue = pdata[e].queue
          BY <2>2 DEF OpenData, RSADATA
        <4> QED  BY <3>2, <4>1, OpenKeepsWorker
      <3> QED  BY <3>1, <3>2
    <2> HIDE DEF d
    <2>4. m \in Message /\ Carried(m, held'[e])
      <3>1. "E0" \in Types \ {"21", "32", "40"} /\ d.pub_k \in PubKey \cup {None}
        BY <2>3 DEF Types, RSADATA
      <3> QED  BY <3>1, MessageTypes, PlainCarried DEF PubKey, Endpoint
    <2> HIDE DEF m
    <2>5. HeldGrows /\ KeysDrawn'
      BY <2>1, SameHeld DEF KeyInv
    <2>6. QueueCarried' /\ OwnKeyHeld'
      <3>1. \A i \in DOMAIN d.queue : Carried(d.queue[i], held'[Peer(e)])
        BY <2>1, <2>3 DEF KeyInv, QueueCarried
      <3>2. d.aes_k \in held'[e] \cup {NoKey}
        BY <2>1, <2>3 DEF KeyInv, OwnKeyHeld
      <3> QED  BY <2>1, <2>3, <2>5, <3>1, <3>2, StoreKept DEF KeyInv
    <2>7. \A x \in Endpoint : Marked(x)' => Marked(x)
      BY <2>1, <2>3 DEF Marked, Open, TypeInv, TypeOK
    <2> QED  BY <2>1, <2>4, <2>5, <2>6, <2>7, NetKept, MarkKept DEF KeyInv
  <1>5. CASE SetStatus(e)
    BY <1>5 DEF SetStatus, KeyInv, NetCarried, QueueCarried, OwnKeyHeld, KeysDrawn,
                TestedShared, Marked, Open
  <1> QED  BY <1>1, <1>2, <1>3, <1>4, <1>5 DEF User

LEMMA ConsumeCloseKeys ==
    ASSUME TypeInv, KeyInv, NEW e \in Endpoint, net[e] # <<>>, Close(e),
           Consume(e) \/ Answer(e, Plain("00")) \/ Answer(e, Plain("FF"))
    PROVE  KeyInv'
  <1>1. HeldGrows /\ QueueCarried' /\ OwnKeyHeld' /\ KeysDrawn' /\ TestedShared'
    BY CloseKept
  <1>2. /\ Plain("00") \in Message /\ Carried(Plain("00"), held'[e])
        /\ Plain("FF") \in Message /\ Carried(Plain("FF"), held'[e])
    BY MessageTypes, PlainCarried DEF Types
  <1>3. NetCarried'
    BY <1>1, <1>2, NetKept DEF KeyInv
  <1> QED  BY <1>1, <1>3 DEF KeyInv

LEMMA ConsumeKept ==
    ASSUME TypeInv, KeyInv, HeldGrows, NEW e \in Endpoint, net[e] # <<>>, Consume(e)
    PROVE  NetCarried'
  <1>1. Plain("00") \in Message /\ Carried(Plain("00"), held'[e])
    BY MessageTypes, PlainCarried DEF Types
  <1> QED  BY <1>1, NetKept DEF KeyInv

LEMMA IgnoreKeys ==
    ASSUME TypeInv, KeyInv, NEW e \in Endpoint, net[e] # <<>>, Ignore(e)
    PROVE  KeyInv'
  <1>1. /\ HeldGrows /\ QueueCarried' /\ OwnKeyHeld' /\ KeysDrawn'
        /\ \A x \in Endpoint : Open(x)' => Open(x)
    BY OpenedKept DEF Ignore
  <1>2. NetCarried'
    BY <1>1, ConsumeKept DEF Ignore
  <1>3. TestedShared'
    BY <1>1, MarkKept DEF KeyInv, Ignore, Marked
  <1> QED  BY <1>1, <1>2, <1>3 DEF KeyInv

LEMMA RecvForWorkerKeys ==
    ASSUME TypeInv, KeyInv, NEW e \in Endpoint, NEW m \in Message, net[e] # <<>>,
           Carried(m, held[Peer(e)]), RecvForWorker(e, m)
    PROVE  KeyInv'
  <1> DEFINE q == pdata[e].queue
             o == [OpenData(e) EXCEPT !.event = TRUE, !.queue = Append(@, m)]
  <1>1. /\ held' = held /\ lastKey' = lastKey /\ tested' = tested /\ main' = main
        /\ Consume(e)
        /\ pdata' = [pdata EXCEPT ![e] = Rearm(o)]
    BY DEF RecvForWorker
  <1>2. HeldGrows /\ KeysDrawn'
    BY <1>1, SameHeld DEF KeyInv
  <1>3. NetCarried'
    BY <1>1, <1>2, ConsumeKept
  <1>4. pdata[e] \in RSADATA /\ OpenData(e) \in RSADATA /\ q \in Seq(Message)
    BY OpenKeepsWorker DEF TypeInv, TypeOK, RSADATA
  <1>5. OpenData(e).queue = q
    BY <1>4 DEF OpenData, RSADATA
  <1>6. /\ o \in RSADATA /\ o.queue = Append(q, m)
        /\ o.aes_k = pdata[e].aes_k /\ o.state = pdata[e].state
    <2>1. Append(q, m) \in Seq(Message)
      BY <1>4, AppendType
    <2>2. \A s \in Seq(Message) :
            LET x == [OpenData(e) EXCEPT !.event = TRUE, !.queue = s]
            IN  /\ x \in RSADATA /\ x.queue = s
                /\ x.aes_k = OpenData(e).aes_k /\ x.state = OpenData(e).state
      BY <1>4 DEF RSADATA
    <2> QED  BY <1>5, <2>1, <2>2, OpenKeepsWorker
  <1> HIDE DEF o
  <1>7. /\ Rearm(o) \in RSADATA /\ Rearm(o).queue = Append(q, m)
        /\ Rearm(o).aes_k = pdata[e].aes_k /\ Rearm(o).state = pdata[e].state
    BY <1>6, RearmType
  <1>8. \A i \in DOMAIN Rearm(o).queue : Carried(Rearm(o).queue[i], held'[Peer(e)])
    <2>1. \A i \in DOMAIN q : Carried(q[i], held'[Peer(e)])
      BY <1>1 DEF KeyInv, QueueCarried
    <2>2. \A i \in DOMAIN Append(q, m) :
             \/ i \in DOMAIN q /\ Append(q, m)[i] = q[i]
             \/ Append(q, m)[i] = m
      BY <1>4, AppendType
    <2> QED  BY <1>1, <1>7, <2>1, <2>2
  <1>9. Rearm(o).aes_k \in held'[e] \cup {NoKey}
    BY <1>1, <1>7 DEF KeyInv, OwnKeyHeld
  <1>10. QueueCarried' /\ OwnKeyHeld'
    BY <1>1, <1>2, <1>7, <1>8, <1>9, StoreKept DEF KeyInv
  <1>11. \A x \in Endpoint : Marked(x)' => Marked(x)
    BY <1>1, <1>7 DEF Marked, Open, TypeInv, TypeOK
  <1> QED  BY <1>1, <1>2, <1>3, <1>10, <1>11, MarkKept DEF KeyInv

\* The step the theorem is about: the key a test decodes with is one the
\* receiver holds, and one its sender held.
LEMMA RecvTestKeys ==
    ASSUME TypeInv, KeyInv, NEW e \in Endpoint, NEW m \in Message, net[e] # <<>>,
           Carried(m, held[Peer(e)]), RecvTest(e, m)
    PROVE  KeyInv'
  <1>1. CASE Decodes(pdata[e], m)
    <2>1. /\ held' = held /\ lastKey' = lastKey /\ Consume(e)
          /\ pdata' = [pdata EXCEPT ![e] = OpenData(e)]
          /\ tested' = [tested EXCEPT ![e] = pdata[e].aes_k]
          /\ \A x \in Endpoint \ {e} : main'[x] = main[x]
      BY <1>1 DEF RecvTest, TypeInv, TypeOK
    <2>2. /\ HeldGrows /\ QueueCarried' /\ OwnKeyHeld' /\ KeysDrawn'
          /\ \A x \in Endpoint : Open(x)' => Open(x)
      BY <2>1, OpenedKept
    <2>3. NetCarried'
      BY <2>1, <2>2, ConsumeKept
    <2>4. pdata[e].aes_k \in held[e] \cap held[Peer(e)]
      BY <1>1 DEF Decodes, KeyInv, OwnKeyHeld, Carried
    <2>5. TestedShared'
      <3> SUFFICES ASSUME NEW x \in Endpoint, Marked(x)'
                   PROVE  tested'[x] \in held'[x] \cap held'[Peer(x)]
        BY DEF TestedShared
      <3>1. CASE x = e
        BY <2>1, <2>4, <3>1 DEF TypeInv, TypeOK
      <3>2. CASE x # e
        <4>1. Marked(x) /\ tested'[x] = tested[x]
          BY <2>1, <2>2, <3>2 DEF Marked, TypeInv, TypeOK
        <4> QED  BY <2>1, <4>1 DEF KeyInv, TestedShared
      <3> QED  BY <3>1, <3>2
    <2> QED  BY <2>2, <2>3, <2>5 DEF KeyInv
  <1>2. CASE ~Decodes(pdata[e], m)
    BY <1>2, ConsumeCloseKeys DEF RecvTest
  <1> QED  BY <1>1, <1>2

LEMMA RecvKeys ==
    ASSUME TypeInv, KeyInv, NEW e \in Endpoint, Recv(e)
    PROVE  KeyInv'
  <1> DEFINE m == Head(net[e])
  <1>1. net[e] # <<>> /\ net[e] \in Seq(Message)
    BY DEF Recv, TypeInv, TypeOK
  <1>2. m \in Message /\ Carried(m, held[Peer(e)])
    BY <1>1, HeadTail DEF KeyInv, NetCarried
  <1>3. \/ RecvUnreadable(e, m) \/ RecvWrongStep(e, m) \/ RecvForWorker(e, m)
        \/ RecvTest(e, m) \/ RecvData(e, m) \/ RecvOffline(e, m)
        \/ RecvDisconnect(e, m)
    BY DEF Recv
  <1> HIDE DEF m
  <1>4. CASE RecvForWorker(e, m)
    BY <1>1, <1>2, <1>4, RecvForWorkerKeys
  <1>5. CASE RecvTest(e, m)
    BY <1>1, <1>2, <1>5, RecvTestKeys
  <1>6. CASE \/ RecvUnreadable(e, m) \/ RecvWrongStep(e, m) \/ RecvData(e, m)
             \/ RecvOffline(e, m) \/ RecvDisconnect(e, m)
    BY <1>1, <1>6, IgnoreKeys, ConsumeCloseKeys
       DEF RecvUnreadable, RecvWrongStep, RecvData, RecvOffline, RecvDisconnect
  <1> QED  BY <1>3, <1>4, <1>5, <1>6

LEMMA EstablishJoinKeys ==
    ASSUME TypeInv, KeyInv, NEW e \in Endpoint, Establish(e) \/ Join(e)
    PROVE  KeyInv'
  <1>1. held' = held /\ lastKey' = lastKey /\ tested' = tested /\ pdata[e] \in RSADATA
    BY DEF Establish, Join, TypeInv, TypeOK
  <1>2. HeldGrows /\ KeysDrawn'
    BY <1>1, SameHeld DEF KeyInv
  <1>3. CASE Establish(e)
    <2> DEFINE d == [pdata[e] EXCEPT !.state = 7, !.time = FALSE]
    <2>1. d \in RSADATA /\ d.queue = pdata[e].queue /\ d.aes_k = pdata[e].aes_k
      BY <1>1 DEF RSADATA
    <2>2. pdata' = [pdata EXCEPT ![e] = d] /\ main[e] # "idle"
      BY <1>3 DEF Establish
    <2> HIDE DEF d
    <2>3. QueueCarried' /\ OwnKeyHeld'
      <3>1. \A i \in DOMAIN d.queue : Carried(d.queue[i], held'[Peer(e)])
        BY <1>1, <2>1 DEF KeyInv, QueueCarried
      <3>2. d.aes_k \in held'[e] \cup {NoKey}
        BY <1>1, <2>1 DEF KeyInv, OwnKeyHeld
      <3> QED  BY <1>2, <2>1, <2>2, <3>1, <3>2, StoreKept DEF KeyInv
    <2>4. NetCarried'
      <3>1. /\ WithAes("60", pdata[e].aes_k) \in Message
            /\ Carried(WithAes("60", pdata[e].aes_k), held'[e])
        BY <1>2, OwnKeyCarried DEF Types
      <3>2. net' = net \/ Send(e, WithAes("60", pdata[e].aes_k))
        BY <1>3 DEF Establish
      <3> QED  BY <1>2, <3>1, <3>2, NetKept DEF KeyInv
    <2>5. \A x \in Endpoint : Marked(x)' => Marked(x)
      BY <1>3, <2>2 DEF Establish, Marked, Open, TypeInv, TypeOK
    <2> QED  BY <1>1, <1>2, <2>3, <2>4, <2>5, MarkKept DEF KeyInv
  <1>4. CASE Join(e)
    <2> DEFINE o == [pdata[e] EXCEPT !.event = FALSE, !.time = FALSE, !.queue = <<>>]
    <2>1. o \in RSADATA /\ o.queue = <<>> /\ o.aes_k = pdata[e].aes_k
      <3>1. <<>> \in Seq(Message)
        OBVIOUS
      <3> QED  BY <1>1, <3>1 DEF RSADATA
    <2>2. pdata' = [pdata EXCEPT ![e] = Rearm(o)] /\ main[e] # "idle" /\ net' = net
      BY <1>4 DEF Join
    <2> HIDE DEF o
    <2>3. Rearm(o) \in RSADATA /\ Rearm(o).queue = <<>> /\ Rearm(o).aes_k = pdata[e].aes_k
      BY <2>1, RearmType
    <2>4. QueueCarried' /\ OwnKeyHeld'
      <3>1. \A i \in DOMAIN Rearm(o).queue : Carried(Rearm(o).queue[i], held'[Peer(e)])
        BY <2>3
      <3>2. Rearm(o).aes_k \in held'[e] \cup {NoKey}
        BY <1>1, <2>3 DEF KeyInv, OwnKeyHeld
      <3> QED  BY <1>2, <2>2, <2>3, <3>1, <3>2, StoreKept DEF KeyInv
    <2>5. NetCarried'
      BY <1>1, <2>2 DEF KeyInv, NetCarried
    <2>6. \A x \in Endpoint : Marked(x)' => Marked(x)
      BY <1>4, <2>2 DEF Join, Marked, Open, TypeInv, TypeOK
    <2> QED  BY <1>1, <1>2, <2>4, <2>5, <2>6, MarkKept DEF KeyInv
  <1> QED  BY <1>3, <1>4

\* A handler that leaves d pops its message, and opens no session.
LEMMA DoneKept ==
    ASSUME TypeInv, KeyInv, HeldGrows, NEW e \in Endpoint, NEW d \in RSADATA,
           pdata[e].queue # <<>>, d.queue = pdata[e].queue,
           d.aes_k \in held'[e] \cup {NoKey}, d.state # 7, Done(e, d)
    PROVE  QueueCarried' /\ OwnKeyHeld' /\ TestedShared'
  <1> DEFINE r == Rearm(d)
             q == pdata[e].queue
             n == [r EXCEPT !.busy = FALSE, !.queue = Tail(@)]
  <1>1. /\ r \in RSADATA /\ r.state = d.state /\ r.aes_k = d.aes_k
        /\ r.queue = q /\ q \in Seq(Message)
    BY RearmType DEF RSADATA
  <1>2. Tail(q) \in Seq(Message) /\ \A i \in DOMAIN Tail(q) : i + 1 \in DOMAIN q /\ Tail(q)[i] = q[i + 1]
    BY <1>1, HeadTail
  <1> HIDE DEF r
  <1>3. n \in RSADATA /\ n.queue = Tail(q) /\ n.aes_k = d.aes_k /\ n.state # 7
    BY <1>1, <1>2 DEF RSADATA
  <1> USE DEF r
  <1>4. pdata' = [pdata EXCEPT ![e] = n] /\ main' = main /\ tested' = tested
    BY DEF Done
  <1> HIDE DEF r, n
  <1>5. \A i \in DOMAIN n.queue : Carried(n.queue[i], held'[Peer(e)])
    <2>1. \A i \in DOMAIN q : Carried(q[i], held'[Peer(e)])
      BY CarriedGrows, PeerType DEF KeyInv, QueueCarried, HeldGrows
    <2> QED  BY <1>2, <1>3, <2>1
  <1>6. QueueCarried' /\ OwnKeyHeld'
    BY <1>3, <1>4, <1>5, StoreKept DEF KeyInv
  <1>7. \A x \in Endpoint : Marked(x)' => Marked(x)
    BY <1>3, <1>4 DEF Marked, Open, TypeInv, TypeOK
  <1> QED  BY <1>4, <1>6, <1>7, MarkKept DEF KeyInv

\* A context that stores an AES key and goes to the step it is for.
LEMMA KeyStoreType ==
    ASSUME NEW d \in RSADATA, NEW k \in Nat, NEW s \in {5, 6}
    PROVE  /\ [d EXCEPT !.aes_k = k, !.state = s] \in RSADATA
           /\ [d EXCEPT !.aes_k = k, !.state = s].queue = d.queue
           /\ [d EXCEPT !.aes_k = k, !.state = s].aes_k = k
           /\ [d EXCEPT !.aes_k = k, !.state = s].state = s
           /\ s # 7
  <1>1. [d EXCEPT !.aes_k = k, !.state = s] \in RSADATA
    BY DEF RSADATA
  <1>2. /\ [d EXCEPT !.aes_k = k, !.state = s].queue = d.queue
        /\ [d EXCEPT !.aes_k = k, !.state = s].aes_k = k
        /\ [d EXCEPT !.aes_k = k, !.state = s].state = s
    BY DEF RSADATA
  <1> QED  BY <1>1, <1>2

LEMMA SendFreshKeyKeys ==
    ASSUME TypeInv, KeyInv, NEW e \in Endpoint, NEW t \in Types, NEW d \in RSADATA,
           pdata[e].queue # <<>>, d.queue = pdata[e].queue, SendFreshKey(e, t, d)
    PROVE  KeyInv'
  <1> DEFINE k == lastKey + 1
             n == [d EXCEPT !.aes_k = k, !.state = 5]
             m == Sealed(t, e, d.pub_k, k)
  <1>1. k \in Nat /\ k # NoKey /\ lastKey \in Nat
    BY DEF TypeInv, TypeOK, NoKey
  <1>2. /\ lastKey' = k /\ held' = [held EXCEPT ![e] = @ \cup {k}]
        /\ Send(e, m) /\ Done(e, n)
    BY DEF SendFreshKey
  <1>3. HeldGrows /\ k \in held'[e] /\ KeysDrawn'
    BY <1>1, <1>2 DEF HeldGrows, TypeInv, TypeOK, KeyInv, KeysDrawn
  <1>4. m \in Message /\ Carried(m, held'[e])
    <2>1. m \in Message
      BY <1>1, MessageTypes DEF RSADATA, PubKey, Endpoint
    <2>2. m.aes = k
      BY DEF Sealed
    <2> QED  BY <1>1, <1>3, <2>1, <2>2 DEF Carried
  <1> HIDE DEF k
  <1>5. n \in RSADATA /\ n.queue = pdata[e].queue /\ n.aes_k = k /\ n.state # 7
    BY <1>1, KeyStoreType
  <1> HIDE DEF n, m
  <1>6. NetCarried'
    BY <1>2, <1>3, <1>4, NetKept DEF KeyInv
  <1>7. QueueCarried' /\ OwnKeyHeld' /\ TestedShared'
    BY <1>2, <1>3, <1>5, DoneKept
  <1> QED  BY <1>3, <1>6, <1>7 DEF KeyInv

\* A handler that sends m without a key and leaves d.
LEMMA ReplyKeys ==
    ASSUME TypeInv, KeyInv, NEW e \in Endpoint, NEW d \in RSADATA, NEW m \in Message,
           pdata[e].queue # <<>>, d.queue = pdata[e].queue,
           d.aes_k = pdata[e].aes_k, d.state # 7, Carried(m, held[e]),
           Send(e, m), Done(e, d), held' = held, lastKey' = lastKey
    PROVE  KeyInv'
  <1>1. HeldGrows /\ KeysDrawn'
    BY SameHeld DEF KeyInv
  <1>2. NetCarried'
    BY <1>1, NetKept DEF KeyInv
  <1>3. QueueCarried' /\ OwnKeyHeld' /\ TestedShared'
    BY <1>1, DoneKept DEF KeyInv, OwnKeyHeld
  <1> QED  BY <1>1, <1>2, <1>3 DEF KeyInv

LEMMA WorkerKeys ==
    ASSUME TypeInv, KeyInv, NEW e \in Endpoint, Work(e)
    PROVE  KeyInv'
  <1> DEFINE m == Head(pdata[e].queue)
  <1>1. /\ pdata[e].busy
        /\ \/ HandleConnect(e, m) \/ HandleKeyWanted(e, m) \/ AcceptKey(e, m)
           \/ RefuseKey(e, m) \/ HandleAesKey(e, m)
    BY DEF Work
  <1>2. m \in Message /\ pdata[e] \in RSADATA /\ pdata[e].queue # <<>>
    BY <1>1, WorkerMessage
  <1>3. Carried(m, held[Peer(e)])
    <2>1. pdata[e].queue \in Seq(Message)
      BY <1>2 DEF RSADATA
    <2> QED  BY <1>2, <2>1, HeadTail DEF KeyInv, QueueCarried
  <1> HIDE DEF m
  <1>4. \A s \in {3, 4} : LET d == [pdata[e] EXCEPT !.state = s]
                          IN  /\ d \in RSADATA /\ d.queue = pdata[e].queue
                              /\ d.aes_k = pdata[e].aes_k /\ d.state # 7
    BY <1>2 DEF RSADATA
  <1>5. /\ "21" \in Types /\ "32" \in Types /\ "40" \in Types
        /\ {"22", "23", "24", "33", "34", "00"} \subseteq Types \ {"21", "32", "40"}
    BY DEF Types, WorkerTypes, Exchange
  <1>6. \A t \in {"22", "24", "33", "34"} :
          WithPub(t, e, None) \in Message /\ Carried(WithPub(t, e, None), held[e])
    BY <1>5, MessageTypes, PlainCarried DEF PubKey, Endpoint
  <1>7. \A t \in {"23", "00"} : Plain(t) \in Message /\ Carried(Plain(t), held[e])
    BY <1>5, MessageTypes, PlainCarried
  <1>8. CASE HandleConnect(e, m)
    <2>1. \/ SendFreshKey(e, "21", pdata[e])
          \/ /\ \E r \in {Plain("23"), WithPub("22", e, None), WithPub("24", e, None)} :
                   Send(e, r)
             /\ Done(e, [pdata[e] EXCEPT !.state = 3])
             /\ held' = held /\ lastKey' = lastKey
      BY <1>8 DEF HandleConnect
    <2> QED  BY <1>2, <1>4, <1>5, <1>6, <1>7, <2>1, SendFreshKeyKeys, ReplyKeys
  <1>9. CASE HandleKeyWanted(e, m)
    BY <1>2, <1>4, <1>6, <1>9, ReplyKeys DEF HandleKeyWanted
  <1>10. CASE AcceptKey(e, m)
    <2> DEFINE a == [pdata[e] EXCEPT !.pub_k = m.own]
               d == [a EXCEPT !.state = 4]
    <2>1. \/ SendFreshKey(e, "32", a) \/ SendFreshKey(e, "40", a)
          \/ /\ Send(e, WithPub("34", e, None)) /\ Done(e, d)
             /\ held' = held /\ lastKey' = lastKey
      BY <1>10 DEF AcceptKey
    <2>2. a \in RSADATA /\ a.queue = pdata[e].queue /\ a.aes_k = pdata[e].aes_k
      BY <1>2 DEF RSADATA, Message
    <2> HIDE DEF a
    <2>3. /\ d \in RSADATA /\ d.queue = pdata[e].queue
          /\ d.aes_k = pdata[e].aes_k /\ d.state # 7
      BY <2>2 DEF RSADATA
    <2> HIDE DEF d
    <2> QED  BY <1>2, <1>5, <1>6, <2>1, <2>2, <2>3, SendFreshKeyKeys, ReplyKeys
  <1>11. CASE /\ RefuseKey(e, m) \/ HandleAesKey(e, m)
              /\ Send(e, Plain("00")) /\ Shut(e)
    <2>1. HeldGrows /\ QueueCarried' /\ OwnKeyHeld' /\ KeysDrawn' /\ TestedShared'
      BY <1>11, ShutKept
    <2>2. Carried(Plain("00"), held'[e]) /\ Plain("00") \in Message
      BY <1>5, PlainCarried, MessageTypes
    <2>3. NetCarried'
      BY <1>11, <2>1, <2>2, NetKept DEF KeyInv
    <2> QED  BY <2>1, <2>3 DEF KeyInv
  <1>12. CASE HandleAesKey(e, m) /\ Opens(e, pdata[e], m)
    <2> DEFINE d == [pdata[e] EXCEPT !.aes_k = m.aes, !.state = 6]
               r == WithAes("50", m.aes)
    <2>1. /\ Send(e, r) /\ Done(e, d)
          /\ held' = [held EXCEPT ![e] = @ \cup {m.aes}] /\ lastKey' = lastKey
          /\ m.type \in {"21", "32", "40"}
      BY <1>12 DEF HandleAesKey
    <2>2. m.aes \in held[Peer(e)] /\ m.aes \in Nat
      BY <1>2, <1>3, <2>1 DEF Carried, Message
    <2>3. HeldGrows /\ m.aes \in held'[e] /\ KeysDrawn'
      <3>1. \A x \in Endpoint :
              held'[x] = IF x = e THEN held[e] \cup {m.aes} ELSE held[x]
        BY <2>1 DEF TypeInv, TypeOK
      <3>2. m.aes \in 1 .. lastKey
        BY <2>2, PeerType DEF KeyInv, KeysDrawn
      <3> QED  BY <2>1, <3>1, <3>2 DEF HeldGrows, KeyInv, KeysDrawn
    <2>4. d \in RSADATA /\ d.queue = pdata[e].queue /\ d.aes_k = m.aes /\ d.state # 7
      BY <1>2, <2>2, KeyStoreType
    <2>5. r \in Message /\ Carried(r, held'[e])
      <3>1. "50" \in Types \ {"21", "32", "40"}
        BY DEF Types
      <3> QED  BY <2>2, <2>3, <3>1, MessageTypes, PlainCarried
    <2> HIDE DEF d, r
    <2>6. NetCarried'
      BY <2>1, <2>3, <2>5, NetKept DEF KeyInv
    <2>7. QueueCarried' /\ OwnKeyHeld' /\ TestedShared'
      BY <1>2, <2>1, <2>3, <2>4, DoneKept
    <2> QED  BY <2>3, <2>6, <2>7 DEF KeyInv
  <1>13. CASE RefuseKey(e, m)
    BY <1>11, <1>13 DEF RefuseKey
  <1>14. CASE HandleAesKey(e, m) /\ ~Opens(e, pdata[e], m)
    BY <1>11, <1>14 DEF HandleAesKey, Close
  <1> QED  BY <1>1, <1>8, <1>9, <1>10, <1>12, <1>13, <1>14

\* Steps that send nothing and leave keys, contexts' keys and marks alone.
LEMMA QuietKeys ==
    ASSUME TypeInv, KeyInv, NEW e \in Endpoint,
           \/ Take(e) \/ LateAccept(e) \/ LateRefuse(e) \/ Expire(e)
           \/ Lose(e) \/ Duplicate(e)
    PROVE  KeyInv'
  <1>1. held' = held /\ lastKey' = lastKey /\ tested' = tested /\ main' = main
    BY DEF Take, LateAccept, LateRefuse, Expire, Lose, Duplicate
  <1>2. HeldGrows /\ KeysDrawn'
    BY <1>1, SameHeld DEF KeyInv
  <1>3. \/ pdata' = pdata
        \/ \E b \in BOOLEAN : \/ pdata' = [pdata EXCEPT ![e] = [@ EXCEPT !.busy = b]]
                              \/ pdata' = [pdata EXCEPT ![e] = [@ EXCEPT !.expired = b]]
    BY DEF Take, LateAccept, LateRefuse, Expire, Lose, Duplicate
  <1>4. \A x \in Endpoint : /\ pdata'[x].queue = pdata[x].queue
                            /\ pdata'[x].aes_k = pdata[x].aes_k
                            /\ pdata'[x].state = pdata[x].state
    <2>1. pdata[e] \in RSADATA
      BY DEF TypeInv, TypeOK
    <2>2. ASSUME NEW d, \E b \in BOOLEAN : \/ d = [pdata[e] EXCEPT !.busy = b]
                                          \/ d = [pdata[e] EXCEPT !.expired = b]
          PROVE  /\ d.queue = pdata[e].queue /\ d.aes_k = pdata[e].aes_k
                 /\ d.state = pdata[e].state
      BY <2>1, <2>2 DEF RSADATA
    <2>3. \/ pdata'[e] = pdata[e]
          \/ \E b \in BOOLEAN : \/ pdata'[e] = [pdata[e] EXCEPT !.busy = b]
                                \/ pdata'[e] = [pdata[e] EXCEPT !.expired = b]
      BY <1>3 DEF TypeInv, TypeOK
    <2>4. \A x \in Endpoint \ {e} : pdata'[x] = pdata[x]
      BY <1>3 DEF TypeInv, TypeOK
    <2> QED  BY <2>2, <2>3, <2>4
  <1>5. QueueCarried' /\ OwnKeyHeld' /\ TestedShared'
    BY <1>1, <1>4 DEF KeyInv, QueueCarried, OwnKeyHeld, TestedShared, Marked, Open
  <1>6. NetCarried'
    <2>1. CASE net' = net
      BY <1>1, <2>1 DEF KeyInv, NetCarried
    <2>2. CASE Lose(e)
      BY <1>2, <2>2, ConsumeKept DEF Lose
    <2>3. CASE Duplicate(e)
      <3>1. net[e] \in Seq(Message) /\ net[e] # <<>>
        BY <2>3 DEF Duplicate, TypeInv, TypeOK
      <3>2. Head(net[e]) \in Message /\ Carried(Head(net[e]), held[Peer(e)])
        BY <3>1, HeadTail DEF KeyInv, NetCarried
      <3>3. Peer(e) \in Endpoint /\ Peer(Peer(e)) = e
        BY PeerType
      <3>4. Send(Peer(e), Head(net[e]))
        BY <2>3, <3>3 DEF Duplicate, Send
      <3> QED  BY <1>1, <1>2, <3>2, <3>3, <3>4, NetKept DEF KeyInv
    <2>4. net' = net \/ Lose(e) \/ Duplicate(e)
      BY DEF Take, LateAccept, LateRefuse, Expire
    <2> QED  BY <2>1, <2>2, <2>3, <2>4
  <1> QED  BY <1>2, <1>5, <1>6 DEF KeyInv

LEMMA InitKeys == Init => KeyInv
  BY DEF Init, KeyInv, NetCarried, QueueCarried, OwnKeyHeld, KeysDrawn,
         TestedShared, Marked, Open, FreshData

LEMMA NextKeys ==
    ASSUME TypeInv, KeyInv, [Next]_vars
    PROVE  KeyInv'
  <1>1. CASE UNCHANGED vars
    BY <1>1 DEF vars, KeyInv, NetCarried, QueueCarried, OwnKeyHeld, KeysDrawn,
                TestedShared, Marked, Open
  <1>2. ASSUME NEW e \in Endpoint, User(e)  PROVE KeyInv'
    BY <1>2, UserKeys
  <1>3. ASSUME NEW e \in Endpoint, RecvWhileDisabled(e)  PROVE KeyInv'
    BY <1>3, ConsumeCloseKeys DEF RecvWhileDisabled
  <1>4. ASSUME NEW e \in Endpoint, Recv(e)  PROVE KeyInv'
    BY <1>4, RecvKeys
  <1>5. ASSUME NEW e \in Endpoint, Establish(e) \/ Join(e)  PROVE KeyInv'
    BY <1>5, EstablishJoinKeys
  <1>6. ASSUME NEW e \in Endpoint, Work(e)  PROVE KeyInv'
    BY <1>6, WorkerKeys
  <1>7. ASSUME NEW e \in Endpoint, Timeout(e)  PROVE KeyInv'
    BY <1>7, CloseKept DEF Timeout, KeyInv, NetCarried, Close, Shut
  <1>8. ASSUME NEW e \in Endpoint,
               \/ Take(e) \/ LateAccept(e) \/ LateRefuse(e) \/ Expire(e)
               \/ Lose(e) \/ Duplicate(e)
        PROVE  KeyInv'
    BY <1>8, QuietKeys
  <1> QED  BY <1>1, <1>2, <1>3, <1>4, <1>5, <1>6, <1>7, <1>8 DEF Next

\* Where the keys come from: what every context, queue and message carries is
\* a key that its owner has had.
THEOREM KeyInvariant == Spec => []KeyInv
  BY InitKeys, NextKeys, TypeInvariant, PTL DEF Spec

\* A session is never open on the strength of a key that the other contact
\* does not have, whatever was lost, repeated, refused, timed out or crossed
\* on the way (rsa_recv, cases 0x50 and 0x60).
THEOREM Authentication == Spec => []PeerAuthenticated
  <1>1. KeyInv => PeerAuthenticated
    BY DEF KeyInv, TestedShared, Marked, PeerAuthenticated
  <1> QED  BY <1>1, KeyInvariant, PTL

-----------------------------------------------------------------------------
(* Timers.  With the types, TimerArmed is inductive.                       *)

Armed(d) == d.time <=> InExchange(d)

\* Enough to look at the contact that takes the step.
LEMMA ArmedStep ==
    ASSUME TypeInv, TimerArmed, NEW e \in Endpoint,
           \A x \in Endpoint \ {e} : pdata'[x] = pdata[x] /\ main'[x] = main[x],
           main'[e] = "idle" => Armed(pdata'[e])
    PROVE  TimerArmed'
  BY DEF TimerArmed, Armed, InExchange

LEMMA ShutArmed ==
    ASSUME TypeInv, TimerArmed, NEW e \in Endpoint, Shut(e)
    PROVE  TimerArmed'
  <1>1. /\ pdata'[e] = FreshData
        /\ \A x \in Endpoint \ {e} : pdata'[x] = pdata[x] /\ main'[x] = main[x]
    BY DEF Shut, TypeInv, TypeOK
  <1>2. Armed(FreshData)
    BY DEF Armed, FreshData, InExchange
  <1> QED  BY <1>1, <1>2, ArmedStep

LEMMA CloseArmed ==
    ASSUME TypeInv, TimerArmed, NEW e \in Endpoint, Close(e)
    PROVE  TimerArmed'
  BY ShutArmed DEF Close

LEMMA OpenedArmed ==
    ASSUME TypeInv, TimerArmed, NEW e \in Endpoint, main' = main,
           pdata' = [pdata EXCEPT ![e] = OpenData(e)]
    PROVE  TimerArmed'
  <1>1. pdata'[e].time = pdata[e].time /\ pdata'[e].state = pdata[e].state
    BY OpenKeepsWorker DEF TypeInv, TypeOK
  <1>2. \A x \in Endpoint \ {e} : pdata'[x] = pdata[x]
    BY DEF TypeInv, TypeOK
  <1> QED  BY <1>1, <1>2, ArmedStep DEF Armed, TimerArmed, InExchange

LEMMA UserArmed ==
    ASSUME TypeInv, TimerArmed, NEW e \in Endpoint, User(e)
    PROVE  TimerArmed'
  <1>1. CASE Connect(e)
    <2>1. OpenData(e) \in RSADATA
      BY OpenKeepsWorker
    <2>2. pdata'[e] = [OpenData(e) EXCEPT !.state = 2, !.time = TRUE]
      BY <1>1 DEF Connect, TypeInv, TypeOK
    <2>3. Armed(pdata'[e])
      BY <2>1, <2>2 DEF Armed, InExchange, RSADATA
    <2> QED  BY <1>1, <2>3, ArmedStep DEF Connect, TypeInv, TypeOK
  <1>2. CASE Disconnect(e) \/ GoesOffline(e) \/ CommandWhileDisabled(e)
    BY <1>2, CloseArmed DEF Disconnect, GoesOffline, CommandWhileDisabled
  <1>3. CASE SendData(e) \/ SetStatus(e)
    BY <1>3 DEF SendData, SetStatus, TimerArmed
  <1>4. CASE SendOffline(e)
    <2>1. CASE uin[e].cntx /\ pdata[e].state # 0
      <3>1. /\ pdata'[e] = [FreshData EXCEPT !.pub_k = uin[e].rsa_pub]
            /\ \A x \in Endpoint \ {e} : pdata'[x] = pdata[x]
            /\ main' = main
        BY <1>4, <2>1 DEF SendOffline, TypeInv, TypeOK
      <3>2. Armed([FreshData EXCEPT !.pub_k = uin[e].rsa_pub])
        BY DEF Armed, FreshData, InExchange
      <3> QED  BY <3>1, <3>2, ArmedStep
    <2>2. CASE ~(uin[e].cntx /\ pdata[e].state # 0)
      BY <1>4, <2>2, OpenedArmed DEF SendOffline
    <2> QED  BY <2>1, <2>2
  <1> QED  BY <1>1, <1>2, <1>3, <1>4 DEF User

LEMMA RecvArmed ==
    ASSUME TypeInv, TimerArmed, NEW e \in Endpoint, Recv(e)
    PROVE  TimerArmed'
  <1> DEFINE m == Head(net[e])
  <1>1. net[e] # <<>> /\ m \in Message
    BY HeadTail DEF Recv, TypeInv, TypeOK
  <1>2. \/ RecvUnreadable(e, m) \/ RecvWrongStep(e, m) \/ RecvForWorker(e, m)
        \/ RecvTest(e, m) \/ RecvData(e, m) \/ RecvOffline(e, m)
        \/ RecvDisconnect(e, m)
    BY DEF Recv
  <1> HIDE DEF m
  <1>3. CASE RecvForWorker(e, m)
    <2> DEFINE q == Append(OpenData(e).queue, m)
               o == [OpenData(e) EXCEPT !.event = TRUE, !.queue = Append(@, m)]
    <2>1. OpenData(e) \in RSADATA
      BY OpenKeepsWorker
    <2>2. q \in Seq(Message)
      BY <1>1, <2>1, AppendType DEF RSADATA
    <2>3. o \in RSADATA /\ o.time = pdata[e].time /\ o.state = pdata[e].state
      <3>1. \A s \in Seq(Message) :
              LET x == [OpenData(e) EXCEPT !.event = TRUE, !.queue = s]
              IN  x \in RSADATA /\ x.time = OpenData(e).time /\ x.state = OpenData(e).state
        BY <2>1 DEF RSADATA
      <3> QED  BY <2>2, <3>1, OpenKeepsWorker
    <2>4. pdata' = [pdata EXCEPT ![e] = Rearm(o)] /\ main' = main /\ main[e] = "idle"
      BY <1>3 DEF RecvForWorker, Arrives
    <2>5. o.time <=> InExchange(o)
      BY <2>3, <2>4 DEF TimerArmed, InExchange
    <2> HIDE DEF o
    <2>6. Armed(Rearm(o))
      <3>1. CASE InExchange(o)
        BY <2>3, <3>1, RearmType DEF Armed, InExchange
      <3>2. CASE ~InExchange(o)
        BY <2>3, <2>5, <3>2, RearmType DEF Armed
      <3> QED  BY <3>1, <3>2
    <2> QED  BY <2>4, <2>6, ArmedStep DEF TypeInv, TypeOK
  <1>4. CASE RecvTest(e, m)
    <2>1. CASE Decodes(pdata[e], m)
      BY <1>4, <2>1, ArmedStep DEF RecvTest, TypeInv, TypeOK
    <2>2. CASE ~Decodes(pdata[e], m)
      BY <1>4, <2>2, CloseArmed DEF RecvTest
    <2> QED  BY <2>1, <2>2
  <1>5. CASE \/ RecvUnreadable(e, m) \/ RecvWrongStep(e, m) \/ RecvData(e, m)
             \/ RecvOffline(e, m) \/ RecvDisconnect(e, m)
    BY <1>5, CloseArmed, OpenedArmed
       DEF RecvUnreadable, RecvWrongStep, RecvData, RecvOffline, RecvDisconnect, Ignore
  <1> QED  BY <1>2, <1>3, <1>4, <1>5

\* The worker's handlers leave a state of the exchange.
LEMMA DoneArmed ==
    ASSUME TypeInv, TimerArmed, NEW e \in Endpoint, NEW d \in RSADATA,
           d.queue # <<>>, d.state \in {3, 4, 5, 6}, Done(e, d)
    PROVE  TimerArmed'
  <1> DEFINE r == Rearm(d)
             n == [r EXCEPT !.busy = FALSE, !.queue = Tail(@)]
  <1>1. r \in RSADATA /\ r.state = d.state /\ r.time /\ r.queue = d.queue
    BY RearmType DEF InExchange
  <1>2. Tail(r.queue) \in Seq(Message)
    BY <1>1, HeadTail DEF RSADATA
  <1>3. pdata' = [pdata EXCEPT ![e] = n] /\ main' = main
    BY DEF Done
  <1> HIDE DEF r
  <1>4. Armed(n)
    <2>1. n.state = d.state /\ n.time
      BY <1>1 DEF RSADATA
    <2> QED  BY <2>1 DEF Armed, InExchange
  <1> HIDE DEF n
  <1> QED  BY <1>3, <1>4, ArmedStep DEF TypeInv, TypeOK

LEMMA SendFreshKeyArmed ==
    ASSUME TypeInv, TimerArmed, NEW e \in Endpoint, NEW t, NEW d \in RSADATA,
           d.queue # <<>>, SendFreshKey(e, t, d)
    PROVE  TimerArmed'
  <1> DEFINE k == lastKey + 1
             n == [d EXCEPT !.aes_k = k, !.state = 5]
  <1>1. k \in Nat
    BY DEF TypeInv, TypeOK
  <1>2. Done(e, n)
    BY DEF SendFreshKey
  <1> HIDE DEF k
  <1>3. n \in RSADATA /\ n.queue # <<>> /\ n.state = 5
    BY <1>1, KeyStoreType
  <1> HIDE DEF n
  <1> QED  BY <1>2, <1>3, DoneArmed

LEMMA WorkArmed ==
    ASSUME TypeInv, TimerArmed, NEW e \in Endpoint, Work(e)
    PROVE  TimerArmed'
  <1> DEFINE m == Head(pdata[e].queue)
             a == [pdata[e] EXCEPT !.pub_k = m.own]
  <1>1. /\ pdata[e].busy
        /\ \/ HandleConnect(e, m) \/ HandleKeyWanted(e, m) \/ AcceptKey(e, m)
           \/ RefuseKey(e, m) \/ HandleAesKey(e, m)
    BY DEF Work
  <1>2. m \in Message /\ pdata[e] \in RSADATA /\ pdata[e].queue # <<>>
    BY <1>1, WorkerMessage
  <1> HIDE DEF m
  <1>3. a \in RSADATA /\ a.queue # <<>>
    BY <1>2 DEF RSADATA, Message
  <1>4. \A d \in RSADATA, s \in {3, 4} : /\ [d EXCEPT !.state = s] \in RSADATA
                                         /\ [d EXCEPT !.state = s].queue = d.queue
                                         /\ [d EXCEPT !.state = s].state = s
    BY DEF RSADATA
  <1>5. CASE HandleConnect(e, m)
    <2>1. \/ SendFreshKey(e, "21", pdata[e])
          \/ Done(e, [pdata[e] EXCEPT !.state = 3])
      BY <1>5 DEF HandleConnect
    <2> QED  BY <1>2, <1>4, <2>1, SendFreshKeyArmed, DoneArmed
  <1>6. CASE HandleKeyWanted(e, m)
    BY <1>2, <1>4, <1>6, DoneArmed DEF HandleKeyWanted
  <1>7. CASE AcceptKey(e, m)
    <2>1. \/ SendFreshKey(e, "32", a) \/ SendFreshKey(e, "40", a)
          \/ Done(e, [a EXCEPT !.state = 4])
      BY <1>7 DEF AcceptKey
    <2> HIDE DEF a
    <2> QED  BY <1>3, <1>4, <2>1, SendFreshKeyArmed, DoneArmed
  <1>8. CASE RefuseKey(e, m)
    BY <1>8, ShutArmed DEF RefuseKey
  <1>9. CASE HandleAesKey(e, m)
    <2>1. \/ Close(e)
          \/ Done(e, [pdata[e] EXCEPT !.aes_k = m.aes, !.state = 6])
      BY <1>9 DEF HandleAesKey
    <2>2. LET d == [pdata[e] EXCEPT !.aes_k = m.aes, !.state = 6]
          IN  d \in RSADATA /\ d.queue # <<>> /\ d.state = 6
      <3>1. m.aes \in Nat
        BY <1>2 DEF Message
      <3> QED  BY <1>2, <3>1, KeyStoreType
    <2> QED  BY <2>1, <2>2, CloseArmed, DoneArmed
  <1> QED  BY <1>1, <1>5, <1>6, <1>7, <1>8, <1>9

LEMMA RestArmed ==
    ASSUME TypeInv, TimerArmed, NEW e \in Endpoint,
           \/ Establish(e) \/ Join(e) \/ Take(e) \/ LateAccept(e) \/ LateRefuse(e)
           \/ Expire(e) \/ Lose(e) \/ Duplicate(e)
    PROVE  TimerArmed'
  <1>1. pdata[e] \in RSADATA
    BY DEF TypeInv, TypeOK
  <1>2. CASE Establish(e)
    BY <1>2, ArmedStep DEF Establish, TypeInv, TypeOK
  <1>3. CASE Join(e)
    <2> DEFINE o == [pdata[e] EXCEPT !.event = FALSE, !.time = FALSE, !.queue = <<>>]
    <2>1. o \in RSADATA /\ o.time = FALSE
      <3>1. <<>> \in Seq(Message)
        OBVIOUS
      <3> QED  BY <1>1, <3>1 DEF RSADATA
    <2>2. pdata' = [pdata EXCEPT ![e] = Rearm(o)] /\ \A x \in Endpoint \ {e} : main'[x] = main[x]
      BY <1>3 DEF Join, TypeInv, TypeOK
    <2> HIDE DEF o
    <2>3. Armed(Rearm(o))
      <3>1. CASE InExchange(o)
        BY <2>1, <3>1, RearmType DEF Armed, InExchange
      <3>2. CASE ~InExchange(o)
        BY <2>1, <3>2, RearmType DEF Armed
      <3> QED  BY <3>1, <3>2
    <2> QED  BY <2>2, <2>3, ArmedStep DEF TypeInv, TypeOK
  <1>4. CASE Take(e) \/ Expire(e)
    <2>1. \/ pdata'[e] = [pdata[e] EXCEPT !.busy = TRUE]
          \/ pdata'[e] = [pdata[e] EXCEPT !.expired = TRUE]
      BY <1>4 DEF Take, Expire, TypeInv, TypeOK
    <2>2. pdata'[e].time = pdata[e].time /\ pdata'[e].state = pdata[e].state
      BY <1>1, <2>1 DEF RSADATA
    <2>3. main' = main /\ \A x \in Endpoint \ {e} : pdata'[x] = pdata[x]
      BY <1>4 DEF Take, Expire, TypeInv, TypeOK
    <2> QED  BY <2>2, <2>3, ArmedStep DEF Armed, TimerArmed, InExchange
  <1>5. CASE LateAccept(e) \/ LateRefuse(e) \/ Lose(e) \/ Duplicate(e)
    BY <1>5 DEF LateAccept, LateRefuse, Lose, Duplicate, TimerArmed
  <1> QED  BY <1>2, <1>3, <1>4, <1>5

\* No exchange is left without a timer and no open session or idle context with
\* one, whichever of the window thread, the worker and the timeout thread
\* wrote p->time last.
THEOREM Timers == Spec => []TimerArmed
  <1>1. Init => TimerArmed
    BY DEF Init, TimerArmed, FreshData, InExchange
  <1>2. ASSUME TypeInv, TimerArmed, [Next]_vars  PROVE TimerArmed'
    <2>1. CASE UNCHANGED vars
      BY <1>2, <2>1 DEF vars, TimerArmed
    <2>2. ASSUME NEW e \in Endpoint, User(e)  PROVE TimerArmed'
      BY <1>2, <2>2, UserArmed
    <2>3. ASSUME NEW e \in Endpoint, RecvWhileDisabled(e) \/ Timeout(e)  PROVE TimerArmed'
      BY <1>2, <2>3, CloseArmed DEF RecvWhileDisabled, Timeout
    <2>4. ASSUME NEW e \in Endpoint, Recv(e)  PROVE TimerArmed'
      BY <1>2, <2>4, RecvArmed
    <2>5. ASSUME NEW e \in Endpoint, Work(e)  PROVE TimerArmed'
      BY <1>2, <2>5, WorkArmed
    <2>6. ASSUME NEW e \in Endpoint,
                 \/ Establish(e) \/ Join(e) \/ Take(e) \/ LateAccept(e) \/ LateRefuse(e)
                 \/ Expire(e) \/ Lose(e) \/ Duplicate(e)
          PROVE  TimerArmed'
      BY <1>2, <2>6, RestArmed
    <2> QED  BY <1>2, <2>1, <2>2, <2>3, <2>4, <2>5, <2>6 DEF Next
  <1> QED  BY <1>1, <1>2, TypeInvariant, PTL DEF Spec

=============================================================================
