------------------------- MODULE RsaSession_refinement -------------------------
(***************************************************************************)
(* RsaSession implements SecureSession, for every value of its constants.  *)
(* The proof goes through what a step does to the states of the contexts,  *)
(* the tests and the keys: one of seven effects, each of which is a step   *)
(* of SecureSession or leaves its variables alone.                         *)
(***************************************************************************)
EXTENDS RsaSession_proofs

-----------------------------------------------------------------------------
(* The effects of a step.                                                  *)

\* e's window thread is between a test that decoded and state 7
Testing(e) == main[e] \in {"reply", "accept"}
TestInExchange == \A e \in Endpoint : Testing(e) => InExchange(pdata[e])

StateTo(e, s) == \A x \in Endpoint :
    pdata'[x].state = IF x = e THEN s ELSE pdata[x].state
StatesKept == \A x \in Endpoint : pdata'[x].state = pdata[x].state
NoNewTest == \A x \in Endpoint : Testing(x)' => Testing(x)
Obtains(e, k) == held' = [held EXCEPT ![e] = @ \cup {k}] /\ tested' = tested
KeysKept == held' = held /\ tested' = tested

Quiet == StatesKept /\ KeysKept /\ NoNewTest

Negotiated(e) == /\ \E s \in 2 .. 6 : StateTo(e, s)
                 /\ KeysKept /\ NoNewTest

Drawn(e) == /\ StateTo(e, 5) /\ NoNewTest
            /\ \E k \in 1 .. MaxKey :
                  Obtains(e, k) /\ \A x \in Endpoint : k \notin held[x]

Obtained(e) == /\ StateTo(e, 6) /\ NoNewTest
               /\ \E k \in held[Peer(e)] : Obtains(e, k)

PassedTest(e) == /\ StatesKept /\ InExchange(pdata[e]) /\ held' = held
                 /\ \E k \in (held[e] \cap held[Peer(e)]) \ {NoKey} :
                       tested' = [tested EXCEPT ![e] = k]
                 /\ \A x \in Endpoint \ {e} : Testing(x)' => Testing(x)

Opened(e) == /\ StateTo(e, 7) /\ KeysKept /\ Testing(e)
             /\ NoNewTest /\ ~Testing(e)'

Ended(e) == /\ StateTo(e, 0) /\ KeysKept
            /\ NoNewTest /\ ~Testing(e)'

Effect(e) == \/ Quiet \/ Negotiated(e) \/ Drawn(e) \/ Obtained(e)
             \/ PassedTest(e) \/ Opened(e) \/ Ended(e)

-----------------------------------------------------------------------------
(* Every effect is a step of SecureSession.                                *)

LEMMA EffectTesting ==
    ASSUME TestInExchange, NEW e \in Endpoint, Effect(e)
    PROVE  TestInExchange'
  BY DEF TestInExchange, Effect, Quiet, Negotiated, Drawn, Obtained, PassedTest,
         Opened, Ended, StateTo, StatesKept, NoNewTest, InExchange

LEMMA PeerIsOther ==
    ASSUME NEW e \in Endpoint
    PROVE  /\ Session!Other(e) = Peer(e) /\ Session!Contact = Endpoint
           /\ Session!Shared(e) = held[e] \cap held[Peer(e)]
  BY DEF Session!Other, Session!Contact, Session!Shared, Peer, Endpoint

Phases == [x \in Endpoint |-> Phase(pdata[x])]
Evidence == [x \in Endpoint |-> {tested[x]} \ {NoKey}]

\* A step that moves e's context to state s moves its phase accordingly.
LEMMA PhaseMoves ==
    ASSUME NEW e \in Endpoint, NEW s, StateTo(e, s)
    PROVE  Phases' = [Phases EXCEPT ![e] = Phase([state |-> s])]
  <1>1. \A x \in Endpoint :
          Phase(pdata'[x]) = IF x = e THEN Phase([state |-> s]) ELSE Phase(pdata[x])
    BY DEF StateTo, Phase, InExchange
  <1> QED  BY <1>1 DEF Phases

LEMMA PhaseNames ==
    /\ \A s \in 2 .. 6 : Phase([state |-> s]) = "exchange"
    /\ Phase([state |-> 7]) = "open" /\ Phase([state |-> 0]) = "none"
    /\ \A e \in Endpoint : InExchange(pdata[e]) => Phases[e] = "exchange"
  BY DEF Phase, Phases, InExchange

LEMMA PhaseKept ==
    ASSUME StatesKept
    PROVE  Phases' = Phases
  BY DEF StatesKept, Phase, Phases, InExchange

LEMMA EvidenceKept ==
    ASSUME tested' = tested
    PROVE  Evidence' = Evidence
  BY DEF Evidence

LEMMA EffectStep ==
    ASSUME TypeInv, KeyInv, TestInExchange, NEW e \in Endpoint, Effect(e)
    PROVE  [Session!SNext]_(Session!svars)
  <1>1. CASE Quiet
    <2>1. Phases' = Phases /\ Evidence' = Evidence /\ held' = held
      BY <1>1, PhaseKept, EvidenceKept DEF Quiet, KeysKept
    <2> QED  BY <2>1 DEF Session!svars, Phases, Evidence
  <1>2. CASE Negotiated(e)
    <2>1. /\ Phases' = [Phases EXCEPT ![e] = "exchange"]
          /\ Evidence' = Evidence /\ held' = held
      BY <1>2, PhaseMoves, PhaseNames, EvidenceKept DEF Negotiated, KeysKept
    <2>2. Session!Negotiate(e)
      BY <2>1 DEF Session!Negotiate, Phases, Evidence
    <2> QED  BY <2>2, PeerIsOther DEF Session!SNext
  <1>3. CASE Drawn(e)
    <2>1. /\ Phases' = [Phases EXCEPT ![e] = "exchange"]
          /\ Evidence' = Evidence
      BY <1>3, PhaseMoves, PhaseNames, EvidenceKept DEF Drawn, Obtains
    <2>2. \E k \in (1 .. MaxKey) \ (held[Alice] \cup held[Bob]) :
            held' = [held EXCEPT ![e] = @ \cup {k}]
      BY <1>3 DEF Drawn, Obtains, Endpoint
    <2>3. Session!Draw(e)
      BY <2>1, <2>2 DEF Session!Draw, Phases, Evidence
    <2> QED  BY <2>3, PeerIsOther DEF Session!SNext
  <1>4. CASE Obtained(e)
    <2>1. /\ Phases' = [Phases EXCEPT ![e] = "exchange"]
          /\ Evidence' = Evidence
      BY <1>4, PhaseMoves, PhaseNames, EvidenceKept DEF Obtained, Obtains
    <2>2. \E k \in held[Session!Other(e)] : held' = [held EXCEPT ![e] = @ \cup {k}]
      BY <1>4, PeerIsOther DEF Obtained, Obtains
    <2>3. Session!Obtain(e)
      BY <2>1, <2>2 DEF Session!Obtain, Phases, Evidence
    <2> QED  BY <2>3, PeerIsOther DEF Session!SNext
  <1>5. CASE PassedTest(e)
    <2>1. Phases[e] = "exchange" /\ Phases' = Phases /\ held' = held
      BY <1>5, PhaseKept, PhaseNames DEF PassedTest
    <2>2. PICK k \in (held[e] \cap held[Peer(e)]) \ {NoKey} :
                  tested' = [tested EXCEPT ![e] = k]
      BY <1>5 DEF PassedTest
    <2>3. Evidence' = [Evidence EXCEPT ![e] = {k}]
      <3>1. \A x \in Endpoint : {tested'[x]} \ {NoKey} =
              IF x = e THEN {k} ELSE {tested[x]} \ {NoKey}
        BY <2>2 DEF TypeInv, TypeOK
      <3> QED  BY <3>1 DEF Evidence
    <2>4. k \in Session!Shared(e)
      BY <2>2, PeerIsOther
    <2>5. Session!PassTest(e)
      BY <2>1, <2>3, <2>4 DEF Session!PassTest, Phases, Evidence
    <2> QED  BY <2>5, PeerIsOther DEF Session!SNext
  <1>6. CASE Opened(e)
    <2>1. tested[e] \in held[e] \cap held[Peer(e)] /\ tested[e] # NoKey
      BY <1>6 DEF Opened, Testing, KeyInv, TestedShared, Marked, KeysDrawn, NoKey,
                  TypeInv, TypeOK
    <2>2. Phases[e] = "exchange"
      BY <1>6, PhaseNames DEF Opened, TestInExchange
    <2>3. /\ Phases' = [Phases EXCEPT ![e] = "open"]
          /\ Evidence' = Evidence /\ held' = held
      BY <1>6, PhaseMoves, PhaseNames, EvidenceKept DEF Opened, KeysKept
    <2>4. Evidence[e] # {} /\ Evidence[e] \subseteq Session!Shared(e)
      BY <2>1, PeerIsOther DEF Evidence
    <2>5. Session!Open(e)
      BY <2>2, <2>3, <2>4 DEF Session!Open, Phases, Evidence
    <2> QED  BY <2>5, PeerIsOther DEF Session!SNext
  <1>7. CASE Ended(e)
    <2>1. /\ Phases' = [Phases EXCEPT ![e] = "none"]
          /\ Evidence' = Evidence /\ held' = held
      BY <1>7, PhaseMoves, PhaseNames, EvidenceKept DEF Ended, KeysKept
    <2>2. Session!End(e)
      BY <2>1 DEF Session!End, Phases, Evidence
    <2> QED  BY <2>2, PeerIsOther DEF Session!SNext
  <1> QED  BY <1>1, <1>2, <1>3, <1>4, <1>5, <1>6, <1>7 DEF Effect

-----------------------------------------------------------------------------
(* Every step of RsaSession has an effect.                                 *)

\* The state of e's context after it is replaced by d.
LEMMA StoreEffect ==
    ASSUME TypeInv, NEW e \in Endpoint, NEW d, pdata' = [pdata EXCEPT ![e] = d]
    PROVE  StateTo(e, d.state) /\ (d.state = pdata[e].state => StatesKept)
  BY DEF StateTo, StatesKept, TypeInv, TypeOK

LEMMA ShutEffect ==
    ASSUME TypeInv, NEW e \in Endpoint, Shut(e)
    PROVE  Ended(e)
  <1>1. FreshData.state = 0 /\ pdata' = [pdata EXCEPT ![e] = FreshData]
    BY DEF FreshData, Shut
  <1>2. StateTo(e, 0)
    BY <1>1, StoreEffect
  <1>3. NoNewTest /\ ~Testing(e)'
    BY DEF Shut, NoNewTest, Testing, TypeInv, TypeOK
  <1> QED  BY <1>2, <1>3 DEF Ended, KeysKept, Shut

LEMMA CloseEffect ==
    ASSUME TypeInv, NEW e \in Endpoint, Close(e)
    PROVE  Ended(e)
  BY ShutEffect DEF Close

LEMMA OpenedEffect ==
    ASSUME TypeInv, NEW e \in Endpoint, pdata' = [pdata EXCEPT ![e] = OpenData(e)]
    PROVE  StatesKept
  BY StoreEffect, OpenKeepsWorker

LEMMA UserEffect ==
    ASSUME TypeInv, NEW e \in Endpoint, User(e)
    PROVE  Effect(e)
  <1>1. CASE Connect(e)
    <2>1. [OpenData(e) EXCEPT !.state = 2, !.time = TRUE].state = 2
      BY OpenKeepsWorker DEF RSADATA
    <2>2. StateTo(e, 2)
      BY <1>1, <2>1, StoreEffect DEF Connect
    <2> QED  BY <1>1, <2>2 DEF Connect, Effect, Negotiated, KeysKept, NoNewTest, Testing
  <1>2. CASE Disconnect(e) \/ GoesOffline(e) \/ CommandWhileDisabled(e)
    BY <1>2, CloseEffect DEF Disconnect, GoesOffline, CommandWhileDisabled, Effect
  <1>3. CASE SendData(e) \/ SetStatus(e)
    BY <1>3 DEF SendData, SetStatus, Effect, Quiet, StatesKept, KeysKept, NoNewTest, Testing
  <1>4. CASE SendOffline(e)
    <2>1. KeysKept /\ NoNewTest /\ ~Testing(e)'
      BY <1>4 DEF SendOffline, KeysKept, NoNewTest, Testing
    <2>2. CASE uin[e].cntx /\ pdata[e].state # 0
      <3>1. /\ pdata' = [pdata EXCEPT ![e] = [FreshData EXCEPT !.pub_k = uin[e].rsa_pub]]
            /\ [FreshData EXCEPT !.pub_k = uin[e].rsa_pub].state = 0
        BY <1>4, <2>2 DEF SendOffline, FreshData
      <3>2. StateTo(e, 0)
        BY <3>1, StoreEffect
      <3> QED  BY <2>1, <3>2 DEF Effect, Ended
    <2>3. CASE ~(uin[e].cntx /\ pdata[e].state # 0)
      <3>1. pdata' = [pdata EXCEPT ![e] = OpenData(e)]
        BY <1>4, <2>3 DEF SendOffline
      <3> QED  BY <2>1, <3>1, OpenedEffect DEF Effect, Quiet
    <2> QED  BY <2>2, <2>3
  <1> QED  BY <1>1, <1>2, <1>3, <1>4 DEF User

LEMMA RecvEffect ==
    ASSUME TypeInv, KeyInv, NEW e \in Endpoint, Recv(e)
    PROVE  Effect(e)
  <1> DEFINE m == Head(net[e])
  <1>1. m \in Message /\ Carried(m, held[Peer(e)])
    BY HeadTail DEF Recv, TypeInv, TypeOK, KeyInv, NetCarried
  <1>2. \/ RecvUnreadable(e, m) \/ RecvWrongStep(e, m) \/ RecvForWorker(e, m)
        \/ RecvTest(e, m) \/ RecvData(e, m) \/ RecvOffline(e, m)
        \/ RecvDisconnect(e, m)
    BY DEF Recv
  <1> HIDE DEF m
  <1>3. CASE RecvForWorker(e, m)
    <2> DEFINE o == [OpenData(e) EXCEPT !.event = TRUE, !.queue = Append(@, m)]
    <2>1. OpenData(e) \in RSADATA
      BY OpenKeepsWorker
    <2>2. o \in RSADATA /\ o.state = pdata[e].state
      <3>1. Append(OpenData(e).queue, m) \in Seq(Message)
        BY <1>1, <2>1, AppendType DEF RSADATA
      <3>2. \A s \in Seq(Message) :
              LET x == [OpenData(e) EXCEPT !.event = TRUE, !.queue = s]
              IN  x \in RSADATA /\ x.state = OpenData(e).state
        BY <2>1 DEF RSADATA
      <3> QED  BY <3>1, <3>2, OpenKeepsWorker
    <2>3. pdata' = [pdata EXCEPT ![e] = Rearm(o)]
      BY <1>3 DEF RecvForWorker
    <2> HIDE DEF o
    <2>4. StatesKept
      <3>1. Rearm(o).state = pdata[e].state
        BY <2>2, RearmType
      <3> QED  BY <2>3, <3>1, StoreEffect
    <2> QED  BY <1>3, <2>4 DEF RecvForWorker, Effect, Quiet, KeysKept, NoNewTest, Testing
  <1>4. CASE RecvTest(e, m) /\ Decodes(pdata[e], m)
    <2>1. StatesKept
      BY <1>4, OpenedEffect DEF RecvTest
    <2>2. InExchange(pdata[e])
      <3>1. m.type \in {"50", "60"} /\ ~WrongStep(e, m)
        BY <1>4 DEF RecvTest
      <3>2. m.type \in DOMAIN StepOf /\ StepOf[m.type] \in {5, 6}
        BY <3>1 DEF StepOf
      <3> QED  BY <3>1, <3>2 DEF WrongStep, InExchange
    <2>3. pdata[e].aes_k \in (held[e] \cap held[Peer(e)]) \ {NoKey}
      BY <1>1, <1>4 DEF Decodes, KeyInv, OwnKeyHeld, Carried
    <2>4. \A x \in Endpoint \ {e} : Testing(x)' => Testing(x)
      BY <1>4 DEF RecvTest, Testing, TypeInv, TypeOK
    <2> QED  BY <1>4, <2>1, <2>2, <2>3, <2>4 DEF RecvTest, Effect, PassedTest
  <1>5. CASE RecvTest(e, m) /\ ~Decodes(pdata[e], m)
    BY <1>5, CloseEffect DEF RecvTest, Effect
  <1>6. CASE \/ RecvUnreadable(e, m) \/ RecvWrongStep(e, m) \/ RecvData(e, m)
             \/ RecvOffline(e, m) \/ RecvDisconnect(e, m)
    <2>1. CASE Close(e)
      BY <2>1, CloseEffect DEF Effect
    <2>2. CASE Ignore(e)
      BY <2>2, OpenedEffect DEF Ignore, Effect, Quiet, KeysKept, NoNewTest, Testing
    <2> QED
      BY <1>6, <2>1, <2>2
         DEF RecvUnreadable, RecvWrongStep, RecvData, RecvOffline, RecvDisconnect
  <1> QED  BY <1>2, <1>3, <1>4, <1>5, <1>6

LEMMA EstablishJoinEffect ==
    ASSUME TypeInv, NEW e \in Endpoint, Establish(e) \/ Join(e)
    PROVE  Effect(e)
  <1>1. pdata[e] \in RSADATA /\ KeysKept
    BY DEF Establish, Join, TypeInv, TypeOK, KeysKept
  <1>2. NoNewTest /\ ~Testing(e)'
    BY DEF Establish, Join, NoNewTest, Testing, TypeInv, TypeOK
  <1>3. CASE Establish(e)
    <2>1. [pdata[e] EXCEPT !.state = 7, !.time = FALSE].state = 7
      BY <1>1 DEF RSADATA
    <2>2. StateTo(e, 7)
      BY <1>3, <2>1, StoreEffect DEF Establish
    <2> QED  BY <1>1, <1>2, <1>3, <2>2 DEF Establish, Effect, Opened, Testing
  <1>4. CASE Join(e)
    <2> DEFINE o == [pdata[e] EXCEPT !.event = FALSE, !.time = FALSE, !.queue = <<>>]
    <2>1. o \in RSADATA /\ o.state = pdata[e].state
      <3>1. <<>> \in Seq(Message)
        OBVIOUS
      <3> QED  BY <1>1, <3>1 DEF RSADATA
    <2>2. pdata' = [pdata EXCEPT ![e] = Rearm(o)]
      BY <1>4 DEF Join
    <2> HIDE DEF o
    <2>3. StatesKept
      <3>1. Rearm(o).state = pdata[e].state
        BY <2>1, RearmType
      <3> QED  BY <2>2, <3>1, StoreEffect
    <2> QED  BY <1>1, <1>2, <2>3 DEF Effect, Quiet
  <1> QED  BY <1>3, <1>4

LEMMA DoneEffect ==
    ASSUME TypeInv, NEW e \in Endpoint, NEW d \in RSADATA, d.queue # <<>>, Done(e, d)
    PROVE  StateTo(e, d.state) /\ NoNewTest /\ tested' = tested
  BY DoneType DEF StateTo, NoNewTest, Testing

LEMMA SendFreshKeyEffect ==
    ASSUME TypeInv, KeyInv, NEW e \in Endpoint, NEW t \in Types, NEW d \in RSADATA,
           d.queue # <<>>, SendFreshKey(e, t, d)
    PROVE  Effect(e)
  <1>1. StateTo(e, 5) /\ NoNewTest /\ tested' = tested
    BY SendFreshKeyType DEF StateTo, NoNewTest, Testing
  <1>2. lastKey + 1 \in 1 .. MaxKey
    BY ConstantsOK DEF SendFreshKey, TypeInv, TypeOK
  <1>3. \A x \in Endpoint : lastKey + 1 \notin held[x]
    <2>1. lastKey \in Nat
      BY DEF TypeInv, TypeOK
    <2> QED  BY <2>1 DEF KeyInv, KeysDrawn
  <1>4. Obtains(e, lastKey + 1)
    BY <1>1 DEF SendFreshKey, Obtains
  <1> QED  BY <1>1, <1>2, <1>3, <1>4 DEF Effect, Drawn

LEMMA WorkEffect ==
    ASSUME TypeInv, KeyInv, NEW e \in Endpoint, Work(e)
    PROVE  Effect(e)
  <1> DEFINE m == Head(pdata[e].queue)
             a == [pdata[e] EXCEPT !.pub_k = m.own]
  <1>1. /\ pdata[e].busy
        /\ \/ HandleConnect(e, m) \/ HandleKeyWanted(e, m) \/ AcceptKey(e, m)
           \/ RefuseKey(e, m) \/ HandleAesKey(e, m)
    BY DEF Work
  <1>2. m \in Message /\ pdata[e] \in RSADATA /\ pdata[e].queue # <<>>
    BY <1>1, WorkerMessage
  <1>3. Carried(m, held[Peer(e)])
    <2>1. pdata[e].queue \in Seq(Message)
      BY <1>2 DEF RSADATA
    <2> QED  BY <1>2, <2>1, HeadTail DEF KeyInv, QueueCarried
  <1> HIDE DEF m
  <1>4. a \in RSADATA /\ a.queue # <<>>
    BY <1>2 DEF RSADATA, Message
  <1>5. {"21", "32", "40"} \subseteq Types
    BY DEF Types, WorkerTypes, Exchange
  <1>6. ASSUME NEW d \in RSADATA, d.queue # <<>>, NEW s \in {3, 4},
               Done(e, [d EXCEPT !.state = s]), held' = held
        PROVE  Effect(e)
    <2> DEFINE n == [d EXCEPT !.state = s]
    <2>1. n \in RSADATA /\ n.queue # <<>> /\ n.state = s
      BY <1>6 DEF RSADATA
    <2>2. Done(e, n)
      BY <1>6
    <2> HIDE DEF n
    <2>3. StateTo(e, s) /\ NoNewTest /\ KeysKept
      BY <1>6, <2>1, <2>2, DoneEffect DEF KeysKept
    <2> QED  BY <2>3 DEF Effect, Negotiated
  <1>7. CASE HandleConnect(e, m)
    <2>1. \/ SendFreshKey(e, "21", pdata[e])
          \/ Done(e, [pdata[e] EXCEPT !.state = 3]) /\ held' = held
      BY <1>7 DEF HandleConnect
    <2> QED  BY <1>2, <1>5, <1>6, <2>1, SendFreshKeyEffect
  <1>8. CASE HandleKeyWanted(e, m)
    BY <1>2, <1>6, <1>8 DEF HandleKeyWanted
  <1>9. CASE AcceptKey(e, m)
    <2>1. \/ SendFreshKey(e, "32", a) \/ SendFreshKey(e, "40", a)
          \/ Done(e, [a EXCEPT !.state = 4]) /\ held' = held
      BY <1>9 DEF AcceptKey
    <2> HIDE DEF a
    <2> QED  BY <1>4, <1>5, <1>6, <2>1, SendFreshKeyEffect
  <1>10. CASE RefuseKey(e, m) \/ (HandleAesKey(e, m) /\ ~Opens(e, pdata[e], m))
    BY <1>10, ShutEffect DEF RefuseKey, HandleAesKey, Close, Effect
  <1>11. CASE HandleAesKey(e, m) /\ Opens(e, pdata[e], m)
    <2> DEFINE d == [pdata[e] EXCEPT !.aes_k = m.aes, !.state = 6]
    <2>1. /\ Done(e, d) /\ m.type \in {"21", "32", "40"}
          /\ held' = [held EXCEPT ![e] = @ \cup {m.aes}]
      BY <1>11 DEF HandleAesKey
    <2>2. m.aes \in held[Peer(e)] /\ m.aes \in Nat
      BY <1>2, <1>3, <2>1 DEF Carried, Message
    <2>3. d \in RSADATA /\ d.queue # <<>> /\ d.state = 6
      BY <1>2, <2>2, KeyStoreType
    <2> HIDE DEF d
    <2>4. StateTo(e, 6) /\ NoNewTest /\ tested' = tested
      BY <2>1, <2>3, DoneEffect
    <2> QED  BY <2>1, <2>2, <2>4 DEF Effect, Obtained, Obtains
  <1> QED  BY <1>1, <1>7, <1>8, <1>9, <1>10, <1>11

\* Steps that change no state of a context.
LEMMA QuietEffect ==
    ASSUME TypeInv, NEW e \in Endpoint,
           \/ Take(e) \/ LateAccept(e) \/ LateRefuse(e) \/ Expire(e)
           \/ Lose(e) \/ Duplicate(e)
    PROVE  Effect(e)
  <1>1. KeysKept /\ NoNewTest
    BY DEF Take, LateAccept, LateRefuse, Expire, Lose, Duplicate, KeysKept, NoNewTest,
           Testing
  <1>2. StatesKept
    <2>1. CASE pdata' = pdata
      BY <2>1 DEF StatesKept
    <2>2. CASE Take(e) \/ Expire(e)
      <3>1. pdata[e] \in RSADATA
        BY DEF TypeInv, TypeOK
      <3>2. PICK d \in {[pdata[e] EXCEPT !.busy = TRUE], [pdata[e] EXCEPT !.expired = TRUE]} :
               pdata' = [pdata EXCEPT ![e] = d]
        BY <2>2 DEF Take, Expire
      <3>3. d.state = pdata[e].state
        BY <3>1, <3>2 DEF RSADATA
      <3> QED  BY <3>2, <3>3, StoreEffect
    <2> QED  BY <2>1, <2>2 DEF LateAccept, LateRefuse, Lose, Duplicate
  <1> QED  BY <1>1, <1>2 DEF Effect, Quiet

LEMMA NextEffect ==
    ASSUME TypeInv, KeyInv, Next
    PROVE  \E e \in Endpoint : Effect(e)
  <1>1. ASSUME NEW e \in Endpoint, RecvWhileDisabled(e) \/ Timeout(e)  PROVE Effect(e)
    BY <1>1, CloseEffect DEF RecvWhileDisabled, Timeout, Effect
  <1> QED
    BY <1>1, UserEffect, RecvEffect, EstablishJoinEffect, WorkEffect, QuietEffect DEF Next

-----------------------------------------------------------------------------
\* The protocol, with its threads, timers, dialogs and faulty network, does
\* nothing that SecureSession does not allow: a contact reports a session open
\* only out of an exchange and on the evidence of a key that both contacts
\* know, and no AES key is known to anyone but by drawing it or from the
\* contact who drew it (rsa_recv, rsa_recv_thread).
THEOREM Refinement == Spec => ImplementsSecureSession
  <1>1. Init => Session!SInit
    BY DEF Init, Session!SInit, Session!Contact, Endpoint, Phase, InExchange, FreshData
  <1>2. Init => TestInExchange
    BY DEF Init, TestInExchange, Testing
  <1>3. ASSUME TypeInv, KeyInv, TestInExchange, [Next]_vars
        PROVE  TestInExchange' /\ [Session!SNext]_(Session!svars)
    <2>1. CASE Next
      BY <1>3, <2>1, NextEffect, EffectTesting, EffectStep
    <2>2. CASE UNCHANGED vars
      BY <1>3, <2>2 DEF vars, TestInExchange, Testing, Session!svars
    <2> QED  BY <1>3, <2>1, <2>2
  <1> QED
    BY <1>1, <1>2, <1>3, TypeInvariant, KeyInvariant, PTL
       DEF Spec, ImplementsSecureSession, Session!SSpec

=============================================================================
