------------------------ MODULE ExchangeQueue_proofs ------------------------
(***************************************************************************)
(* For any number of messages: one waiter at a time, a list nobody else    *)
(* touches while it is sent, and the refinement of Outbox.                 *)
(***************************************************************************)
EXTENDS ExchangeQueue, SequenceTheorems, TLAPS

Distinct(q) == \A i, j \in DOMAIN q : i # j => q[i] # q[j]

-----------------------------------------------------------------------------
(* Lists of messages.                                                      *)

LEMMA TailElements ==
    ASSUME NEW S, NEW q \in Seq(S), q # <<>>, Distinct(q)
    PROVE  /\ Tail(q) \in Seq(S) /\ Head(q) \in S
           /\ ToSet(q) = ToSet(Tail(q)) \cup {Head(q)}
           /\ Head(q) \notin ToSet(Tail(q))
           /\ Distinct(Tail(q))
  <1>1. /\ Head(q) \in S /\ Tail(q) \in Seq(S)
        /\ Len(Tail(q)) = Len(q) - 1
        /\ \A i \in 1 .. Len(Tail(q)) : Tail(q)[i] = q[i + 1]
    BY HeadTailProperties
  <1>2. /\ DOMAIN q = 1 .. Len(q) /\ Len(q) \in Nat /\ Len(q) # 0
        /\ DOMAIN Tail(q) = 1 .. Len(Tail(q)) /\ Head(q) = q[1]
    BY <1>1, LenProperties, EmptySeq
  <1>3. ToSet(q) = ToSet(Tail(q)) \cup {Head(q)}
    <2>1. ASSUME NEW i \in 1 .. Len(q)
          PROVE  q[i] \in ToSet(Tail(q)) \cup {Head(q)}
      <3>1. CASE i = 1
        BY <1>2, <3>1
      <3>2. CASE i # 1
        <4>1. i - 1 \in 1 .. Len(Tail(q)) /\ Tail(q)[i - 1] = q[i]
          BY <1>1, <1>2, <3>2
        <4>. QED  BY <1>2, <4>1 DEF ToSet
      <3>. QED  BY <3>1, <3>2
    <2>2. ASSUME NEW i \in 1 .. Len(Tail(q))
          PROVE  Tail(q)[i] \in ToSet(q)
      <3>1. i + 1 \in 1 .. Len(q)
        BY <1>1, <1>2
      <3>. QED  BY <1>1, <1>2, <3>1 DEF ToSet
    <2>3. Head(q) \in ToSet(q)
      BY <1>2 DEF ToSet
    <2>. QED  BY <1>2, <2>1, <2>2, <2>3 DEF ToSet
  <1>4. Head(q) \notin ToSet(Tail(q))
    <2>1. ASSUME NEW i \in 1 .. Len(Tail(q)) PROVE Tail(q)[i] # q[1]
      <3>1. i + 1 \in 1 .. Len(q) /\ 1 \in 1 .. Len(q) /\ i + 1 # 1
        BY <1>1, <1>2
      <3>. QED  BY <1>1, <1>2, <3>1 DEF Distinct
    <2>. QED  BY <1>2, <2>1 DEF ToSet
  <1>5. Distinct(Tail(q))
    <2> SUFFICES ASSUME NEW i \in 1 .. Len(Tail(q)), NEW j \in 1 .. Len(Tail(q)), i # j
                 PROVE  Tail(q)[i] # Tail(q)[j]
      BY <1>2 DEF Distinct
    <2>1. i + 1 \in 1 .. Len(q) /\ j + 1 \in 1 .. Len(q) /\ i + 1 # j + 1
      BY <1>1, <1>2
    <2>. QED  BY <1>1, <1>2, <2>1 DEF Distinct
  <1>. QED  BY <1>1, <1>3, <1>4, <1>5

LEMMA AppendElements ==
    ASSUME NEW S, NEW q \in Seq(S), NEW m \in S, m \notin ToSet(q), Distinct(q)
    PROVE  /\ Append(q, m) \in Seq(S)
           /\ ToSet(Append(q, m)) = ToSet(q) \cup {m}
           /\ Distinct(Append(q, m))
  <1> DEFINE r == Append(q, m)
  <1>1. /\ r \in Seq(S) /\ Len(r) = Len(q) + 1 /\ r[Len(q) + 1] = m
        /\ \A i \in 1 .. Len(q) : r[i] = q[i]
    BY AppendProperties
  <1>2. DOMAIN q = 1 .. Len(q) /\ Len(q) \in Nat /\ DOMAIN r = 1 .. Len(r)
    BY <1>1, LenProperties
  <1> HIDE DEF r
  <1>3. \A i \in 1 .. Len(r) : i \in 1 .. Len(q) \/ i = Len(q) + 1
    BY <1>1, <1>2
  <1>4. 1 .. Len(q) \subseteq 1 .. Len(r) /\ Len(q) + 1 \in 1 .. Len(r)
    BY <1>1, <1>2
  <1>5. ToSet(r) = ToSet(q) \cup {m}
    BY <1>1, <1>2, <1>3, <1>4 DEF ToSet
  <1>6. \A i \in 1 .. Len(q) : q[i] # m
    BY <1>2 DEF ToSet
  <1>7. Distinct(r)
    BY <1>1, <1>2, <1>3, <1>6 DEF Distinct
  <1>. QED  BY <1>1, <1>5, <1>7 DEF r

\* Re-queueing the message at hand keeps the messages.
LEMMA RotateElements ==
    ASSUME NEW S, NEW q \in Seq(S), q # <<>>, Distinct(q)
    PROVE  /\ Tail(Append(q, Head(q))) \in Seq(S)
           /\ ToSet(Tail(Append(q, Head(q)))) = ToSet(q)
           /\ Distinct(Tail(Append(q, Head(q))))
  <1>1. Tail(Append(q, Head(q))) = Append(Tail(q), Head(q))
    BY HeadTailAppend
  <1>2. /\ Tail(q) \in Seq(S) /\ Head(q) \in S /\ Head(q) \notin ToSet(Tail(q))
        /\ Distinct(Tail(q)) /\ ToSet(q) = ToSet(Tail(q)) \cup {Head(q)}
    BY TailElements
  <1>3. /\ Append(Tail(q), Head(q)) \in Seq(S)
        /\ ToSet(Append(Tail(q), Head(q))) = ToSet(Tail(q)) \cup {Head(q)}
        /\ Distinct(Append(Tail(q), Head(q)))
    BY <1>2, AppendElements
  <1>. QED  BY <1>1, <1>2, <1>3

-----------------------------------------------------------------------------
Outs == {r.msg : r \in sent}
Pending == ToSet(queue) \cup InHand

\* Of the messages up to n, those in the queue q, in the two hands w and v, out
\* and lost are others.
Apart(q, w, v, o, l, n) ==
    /\ w # 0 => w \notin q \cup o \cup l /\ w # v
    /\ v # 0 => v \notin q \cup o \cup l
    /\ q \cap (o \cup l) = {}
    /\ o \cap l = {}
    /\ q \cup {w, v} \cup o \cup l \subseteq 0 .. n

\* Every message is in one place.
OnePlace ==
    /\ Distinct(queue)
    /\ Apart(ToSet(queue), win.msg, waiter.msg, Outs, lost, typed)

\* Who has a message in hand.
Hands ==
    /\ win.pc \in {"send", "queue"} <=> win.msg # 0
    /\ waiter.pc = "send" <=> waiter.msg # 0
    /\ lock = "waiter" <=> waiter.pc \in {"clear", "resend", "send"}

\* A session that cannot close is open while somebody sends into it.
SendsInSession ==
    ~Closable => (win.pc = "send" \/ waiter.pc = "send" => session = "open")

Inv == TypeOK /\ OneWaiter /\ WalkIsAlone /\ OnePlace /\ Hands /\ SendsInSession

LEMMA InvInit == Init => Inv
  <1> SUFFICES ASSUME Init PROVE Inv
    OBVIOUS
  <1>1. queue = <<>> /\ queue \in Seq(Msg) /\ DOMAIN queue = {} /\ ToSet(queue) = {}
    BY EmptySeq, LenProperties DEF Init, ToSet
  <1>2. Distinct(queue)
    BY <1>1 DEF Distinct
  <1>3. TypeOK
    <2>1. typed \in 0 .. MaxMsg
      BY ConstantsOK DEF Init
    <2>2. stale \in BOOLEAN /\ sendQueue \in BOOLEAN /\ bad \in BOOLEAN /\ dead \in BOOLEAN
      BY DEF Init
    <2>3. /\ session \in {"closed", "exchange", "open"} /\ flag \in 0 .. 3
          /\ lock \in {"free", "waiter"} /\ note \in {"none", "see", "set"}
      BY DEF Init
    <2>4. /\ sent \subseteq [msg : Msg, clear : BOOLEAN, open : BOOLEAN, asked : BOOLEAN]
          /\ asked \subseteq Msg /\ lost \subseteq Msg
      BY DEF Init
    <2>5. win \in [pc : {"idle", "send", "queue", "wait", "connect", "see2", "see3",
                         "set2", "set3"}, msg : Msg \cup {0}]
      BY DEF Init
    <2>6. waiter \in [pc : {"none", "poll", "first", "ask", "clear", "reset", "second",
                            "resend", "send"}, msg : Msg \cup {0}]
      BY DEF Init
    <2>. QED  BY <1>1, <2>1, <2>2, <2>3, <2>4, <2>5, <2>6 DEF TypeOK
  <1>4. Outs = {} /\ lost = {} /\ typed = 0 /\ win.msg = 0 /\ waiter.msg = 0
    BY DEF Init, Outs
  <1>5. OnePlace
    BY <1>1, <1>2, <1>4 DEF OnePlace, Apart
  <1>6. Hands
    BY DEF Init, Hands
  <1>7. OneWaiter /\ WalkIsAlone /\ SendsInSession
    BY DEF Init, OneWaiter, WalkIsAlone, SendsInSession
  <1>. QED  BY <1>3, <1>5, <1>6, <1>7 DEF Inv

-----------------------------------------------------------------------------
(* Types.                                                                  *)

LEMMA TypeStep == TypeOK /\ Hands /\ OnePlace /\ Next => TypeOK'
  <1> SUFFICES ASSUME TypeOK, Hands, OnePlace, Next PROVE TypeOK'
    OBVIOUS
  <1> USE DEF WinAt, At, WinGoto, WinDone, Goto, list, gone
  <1>q. queue # <<>> => /\ Tail(queue) \in Seq(Msg) /\ Head(queue) \in Msg
                        /\ Tail(Append(queue, Head(queue))) \in Seq(Msg)
    BY TailElements, RotateElements DEF TypeOK, OnePlace
  <1>t. typed < MaxMsg => typed + 1 \in Msg /\ typed + 1 \in 0 .. MaxMsg
    BY ConstantsOK DEF TypeOK, Msg
  <1>1. CASE Type
    <2>1. typed + 1 \in Msg /\ typed + 1 \in 0 .. MaxMsg
      BY <1>1, <1>t DEF Type
    <2>2. CASE sendQueue
      <3>1. Clear(typed + 1) \in [msg : Msg, clear : BOOLEAN, open : BOOLEAN, asked : BOOLEAN]
        BY <2>1 DEF Clear
      <3>2. sent' \subseteq [msg : Msg, clear : BOOLEAN, open : BOOLEAN, asked : BOOLEAN]
        BY <1>1, <2>2, <3>1 DEF Type, TypeOK
      <3>. QED  BY <1>1, <2>1, <2>2, <3>2 DEF Type, TypeOK
    <2>3. CASE ~sendQueue
      BY <1>1, <2>1, <2>3 DEF Type, TypeOK
    <2>. QED  BY <2>2, <2>3
  <1>2. CASE WinDisconnect
    BY <1>2 DEF WinDisconnect, TypeOK
  <1>3. CASE Opens
    BY <1>3 DEF Opens, TypeOK
  <1>4. CASE WinSend
    <2>1. win.msg \in Msg
      BY <1>4 DEF WinSend, Hands, TypeOK
    <2>2. Encrypted(win.msg) \in [msg : Msg, clear : BOOLEAN, open : BOOLEAN, asked : BOOLEAN]
      BY <2>1 DEF Encrypted
    <2>3. sent' \subseteq [msg : Msg, clear : BOOLEAN, open : BOOLEAN, asked : BOOLEAN]
          /\ lost' \subseteq Msg
      BY <1>4, <2>1, <2>2 DEF WinSend, RsaSend, TypeOK
    <2>. QED  BY <1>4, <2>3 DEF WinSend, TypeOK
  <1>5. CASE WinQueue
    <2>1. win.msg \in Msg
      BY <1>5 DEF WinQueue, Hands, TypeOK
    <2>2. queue' \in Seq(Msg)
      BY <1>5, <2>1, AppendProperties DEF WinQueue, AddMsg2Queue, TypeOK
    <2>. QED  BY <1>5, <2>2 DEF WinQueue, Walk, TypeOK
  <1>6. CASE WinWait
    BY <1>6 DEF WinWait, TypeOK
  <1>7. CASE WinConnect
    BY <1>7 DEF WinConnect, RsaConnect, TypeOK
  <1>8. CASE WinSee
    BY <1>8 DEF WinSee, TypeOK
  <1>9. CASE WinSet
    BY <1>9 DEF WinSet, TypeOK
  <1>10. CASE Ends
    BY <1>10 DEF Ends, TypeOK
  <1>11. CASE Renegotiates
    BY <1>11 DEF Renegotiates, TypeOK
  <1>12. CASE NoteSee
    BY <1>12 DEF NoteSee, TypeOK
  <1>13. CASE NoteSet
    BY <1>13 DEF NoteSet, TypeOK
  <1>14. CASE Poll
    BY <1>14 DEF Poll, TypeOK
  <1>15. CASE First
    BY <1>15 DEF First, TypeOK
  <1>16. CASE SendClear
    <2>1. Clear(Head(queue)) \in [msg : Msg, clear : BOOLEAN, open : BOOLEAN, asked : BOOLEAN]
      BY <1>16, <1>q DEF SendClear, Clear
    <2>2. sent' \subseteq [msg : Msg, clear : BOOLEAN, open : BOOLEAN, asked : BOOLEAN]
      BY <1>16, <2>1 DEF SendClear, TypeOK
    <2>. QED  BY <1>16, <1>q, <2>2 DEF SendClear, TypeOK
  <1>17. CASE ClearDone
    BY <1>17 DEF ClearDone, TypeOK
  <1>18. CASE Reset
    BY <1>18 DEF Reset, TypeOK
  <1>19. CASE Second
    BY <1>19 DEF Second, TypeOK
  <1>20. CASE ResendOpen
    BY <1>20, <1>q DEF ResendOpen, TypeOK
  <1>21. CASE WaiterSend
    <2>1. waiter.msg \in Msg
      BY <1>21 DEF WaiterSend, Hands, TypeOK
    <2>2. Encrypted(waiter.msg) \in [msg : Msg, clear : BOOLEAN, open : BOOLEAN, asked : BOOLEAN]
      BY <2>1 DEF Encrypted
    <2>3. sent' \subseteq [msg : Msg, clear : BOOLEAN, open : BOOLEAN, asked : BOOLEAN]
          /\ lost' \subseteq Msg
      BY <1>21, <2>1, <2>2 DEF WaiterSend, RsaSend, TypeOK
    <2>. QED  BY <1>21, <2>3 DEF WaiterSend, TypeOK
  <1>22. CASE ResendClosed
    <2>1. queue' \in Seq(Msg)
      BY <1>22, <1>q DEF ResendClosed, AddMsg2Queue
    <2>. QED  BY <1>22, <2>1 DEF ResendClosed, Walk, RsaConnect, TypeOK
  <1>23. CASE ResendDone
    <2>1. stale' \in BOOLEAN
      BY <1>23 DEF ResendDone
    <2>2. flag' \in 0 .. 3
      BY <1>23 DEF ResendDone
    <2>3. lock' \in {"free", "waiter"}
      BY <1>23 DEF ResendDone
    <2>. QED  BY <1>23, <2>1, <2>2, <2>3 DEF ResendDone, TypeOK
  <1>24. CASE AnswerYes
    <2>0. queue \in Seq(Msg)
      BY DEF TypeOK
    <2>1. \A i \in DOMAIN queue : queue[i] \in Msg
      BY <2>0, LenProperties, ElementOfSeq
    <2>2. ToSet(queue) \subseteq Msg
      BY <2>1 DEF ToSet
    <2>. QED  BY <1>24, <2>2 DEF AnswerYes, TypeOK
  <1>25. CASE AnswerNo
    BY <1>25 DEF AnswerNo, TypeOK
  <1>. QED  BY <1>1, <1>2, <1>3, <1>4, <1>5, <1>6, <1>7, <1>8, <1>9, <1>10, <1>11,
               <1>12, <1>13, <1>14, <1>15, <1>16, <1>17, <1>18, <1>19, <1>20, <1>21,
               <1>22, <1>23, <1>24, <1>25
            DEF Next, Window, Waiter, Answer

-----------------------------------------------------------------------------
(* The flag, the lock and the hands.                                       *)

LEMMA ControlStep ==
    TypeOK /\ OneWaiter /\ WalkIsAlone /\ Hands /\ SendsInSession /\ OnePlace /\ Next
        => OneWaiter' /\ WalkIsAlone' /\ Hands' /\ SendsInSession'
  <1> SUFFICES ASSUME TypeOK, OneWaiter, WalkIsAlone, Hands, SendsInSession, OnePlace, Next
               PROVE  OneWaiter' /\ WalkIsAlone' /\ Hands' /\ SendsInSession'
    OBVIOUS
  <1> USE DEF WinAt, At, WinGoto, WinDone, Goto, list, gone, OneWaiter, WalkIsAlone
  <1>q. queue # <<>> => Head(queue) \in Msg /\ Head(queue) # 0
    <2>1. queue \in Seq(Msg) /\ Distinct(queue)
      BY DEF TypeOK, OnePlace
    <2>2. queue # <<>> => Head(queue) \in Msg
      BY <2>1, TailElements
    <2>. QED  BY <2>2 DEF Msg
  <1>t. typed + 1 # 0
    BY DEF TypeOK
  <1>1. CASE Type
    <2>1. OneWaiter' /\ WalkIsAlone'
      BY <1>1 DEF Type, Hands, TypeOK
    <2>2. Hands'
      BY <1>1, <1>t DEF Type, Hands, TypeOK
    <2>3. SendsInSession'
      BY <1>1 DEF Type, SendsInSession, TypeOK
    <2>. QED  BY <2>1, <2>2, <2>3
  <1>2. CASE WinDisconnect
    <2>1. OneWaiter' /\ WalkIsAlone'
      BY <1>2 DEF WinDisconnect, Hands, TypeOK
    <2>2. Hands'
      BY <1>2 DEF WinDisconnect, Hands, TypeOK
    <2>3. SendsInSession'
      BY <1>2 DEF WinDisconnect, SendsInSession, TypeOK
    <2>. QED  BY <2>1, <2>2, <2>3
  <1>3. CASE Opens
    <2>1. OneWaiter' /\ WalkIsAlone'
      BY <1>3 DEF Opens, Hands, TypeOK
    <2>2. Hands'
      BY <1>3 DEF Opens, Hands, TypeOK
    <2>3. SendsInSession'
      BY <1>3 DEF Opens, SendsInSession, TypeOK
    <2>. QED  BY <2>1, <2>2, <2>3
  <1>4. CASE WinSend
    <2>1. OneWaiter' /\ WalkIsAlone'
      BY <1>4 DEF WinSend, RsaSend, Hands, TypeOK
    <2>2. Hands'
      BY <1>4 DEF WinSend, Hands, TypeOK
    <2>3. SendsInSession'
      BY <1>4 DEF WinSend, SendsInSession, TypeOK
    <2>. QED  BY <2>1, <2>2, <2>3
  <1>5. CASE WinQueue
    <2>1. OneWaiter' /\ WalkIsAlone'
      BY <1>5 DEF WinQueue, Walk, Hands, TypeOK
    <2>2. Hands'
      BY <1>5 DEF WinQueue, Hands, TypeOK
    <2>3. SendsInSession'
      BY <1>5 DEF WinQueue, SendsInSession, TypeOK
    <2>. QED  BY <2>1, <2>2, <2>3
  <1>6. CASE WinWait
    <2>1. OneWaiter' /\ WalkIsAlone'
      BY <1>6 DEF WinWait, Hands, TypeOK
    <2>2. Hands'
      BY <1>6 DEF WinWait, Hands, TypeOK
    <2>3. SendsInSession'
      BY <1>6 DEF WinWait, SendsInSession, TypeOK
    <2>. QED  BY <2>1, <2>2, <2>3
  <1>7. CASE WinConnect
    <2>1. OneWaiter' /\ WalkIsAlone'
      BY <1>7 DEF WinConnect, RsaConnect, Hands, TypeOK
    <2>2. Hands'
      BY <1>7 DEF WinConnect, Hands, TypeOK
    <2>3. SendsInSession'
      BY <1>7 DEF WinConnect, RsaConnect, SendsInSession, TypeOK
    <2>. QED  BY <2>1, <2>2, <2>3
  <1>8. CASE WinSee
    <2>1. OneWaiter' /\ WalkIsAlone'
      BY <1>8 DEF WinSee, Hands, TypeOK
    <2>2. Hands'
      BY <1>8 DEF WinSee, Hands, TypeOK
    <2>3. SendsInSession'
      BY <1>8 DEF WinSee, SendsInSession, TypeOK
    <2>. QED  BY <2>1, <2>2, <2>3
  <1>9. CASE WinSet
    <2>1. OneWaiter' /\ WalkIsAlone'
      BY <1>9 DEF WinSet, Hands, TypeOK
    <2>2. Hands'
      BY <1>9 DEF WinSet, Hands, TypeOK
    <2>3. SendsInSession'
      BY <1>9 DEF WinSet, SendsInSession, TypeOK
    <2>. QED  BY <2>1, <2>2, <2>3
  <1>10. CASE Ends
    <2>1. OneWaiter' /\ WalkIsAlone'
      BY <1>10 DEF Ends, Hands, TypeOK
    <2>2. Hands'
      BY <1>10 DEF Ends, Hands, TypeOK
    <2>3. SendsInSession'
      BY <1>10 DEF Ends, SendsInSession, TypeOK
    <2>. QED  BY <2>1, <2>2, <2>3
  <1>11. CASE Renegotiates
    <2>1. OneWaiter' /\ WalkIsAlone'
      BY <1>11 DEF Renegotiates, Hands, TypeOK
    <2>2. Hands'
      BY <1>11 DEF Renegotiates, Hands, TypeOK
    <2>3. SendsInSession'
      BY <1>11 DEF Renegotiates, SendsInSession, TypeOK
    <2>. QED  BY <2>1, <2>2, <2>3
  <1>12. CASE NoteSee
    <2>1. OneWaiter' /\ WalkIsAlone'
      BY <1>12 DEF NoteSee, Hands, TypeOK
    <2>2. Hands'
      BY <1>12 DEF NoteSee, Hands, TypeOK
    <2>3. SendsInSession'
      BY <1>12 DEF NoteSee, SendsInSession, TypeOK
    <2>. QED  BY <2>1, <2>2, <2>3
  <1>13. CASE NoteSet
    <2>1. OneWaiter' /\ WalkIsAlone'
      BY <1>13 DEF NoteSet, Hands, TypeOK
    <2>2. Hands'
      BY <1>13 DEF NoteSet, Hands, TypeOK
    <2>3. SendsInSession'
      BY <1>13 DEF NoteSet, SendsInSession, TypeOK
    <2>. QED  BY <2>1, <2>2, <2>3
  <1>14. CASE Poll
    <2>1. OneWaiter' /\ WalkIsAlone'
      BY <1>14 DEF Poll, Hands, TypeOK
    <2>2. Hands'
      BY <1>14 DEF Poll, Hands, TypeOK
    <2>3. SendsInSession'
      BY <1>14 DEF Poll, SendsInSession, TypeOK
    <2>. QED  BY <2>1, <2>2, <2>3
  <1>15. CASE First
    <2>1. OneWaiter' /\ WalkIsAlone'
      BY <1>15 DEF First, Hands, TypeOK
    <2>2. Hands'
      BY <1>15 DEF First, Hands, TypeOK
    <2>3. SendsInSession'
      BY <1>15 DEF First, SendsInSession, TypeOK
    <2>. QED  BY <2>1, <2>2, <2>3
  <1>16. CASE SendClear
    <2>1. OneWaiter' /\ WalkIsAlone'
      BY <1>16 DEF SendClear, Hands, TypeOK
    <2>2. Hands'
      BY <1>16 DEF SendClear, Hands, TypeOK
    <2>3. SendsInSession'
      BY <1>16 DEF SendClear, SendsInSession, TypeOK
    <2>. QED  BY <2>1, <2>2, <2>3
  <1>17. CASE ClearDone
    <2>1. OneWaiter' /\ WalkIsAlone'
      BY <1>17 DEF ClearDone, Hands, TypeOK
    <2>2. Hands'
      BY <1>17 DEF ClearDone, Hands, TypeOK
    <2>3. SendsInSession'
      BY <1>17 DEF ClearDone, SendsInSession, TypeOK
    <2>. QED  BY <2>1, <2>2, <2>3
  <1>18. CASE Reset
    <2>1. OneWaiter' /\ WalkIsAlone'
      BY <1>18 DEF Reset, Hands, TypeOK
    <2>2. Hands'
      BY <1>18 DEF Reset, Hands, TypeOK
    <2>3. SendsInSession'
      BY <1>18 DEF Reset, SendsInSession, TypeOK
    <2>. QED  BY <2>1, <2>2, <2>3
  <1>19. CASE Second
    <2>1. OneWaiter' /\ WalkIsAlone'
      BY <1>19 DEF Second, Hands, TypeOK
    <2>2. Hands'
      BY <1>19 DEF Second, Hands, TypeOK
    <2>3. SendsInSession'
      BY <1>19 DEF Second, SendsInSession, TypeOK
    <2>. QED  BY <2>1, <2>2, <2>3
  <1>20. CASE ResendOpen
    <2>1. OneWaiter' /\ WalkIsAlone'
      BY <1>20 DEF ResendOpen, Hands, TypeOK
    <2>2. Hands'
      BY <1>20, <1>q DEF ResendOpen, Hands, TypeOK
    <2>3. SendsInSession'
      BY <1>20 DEF ResendOpen, SendsInSession, TypeOK
    <2>. QED  BY <2>1, <2>2, <2>3
  <1>21. CASE WaiterSend
    <2>1. OneWaiter' /\ WalkIsAlone'
      BY <1>21 DEF WaiterSend, RsaSend, Hands, TypeOK
    <2>2. Hands'
      BY <1>21 DEF WaiterSend, Hands, TypeOK
    <2>3. SendsInSession'
      BY <1>21 DEF WaiterSend, SendsInSession, TypeOK
    <2>. QED  BY <2>1, <2>2, <2>3
  <1>22. CASE ResendClosed
    <2>1. OneWaiter' /\ WalkIsAlone'
      BY <1>22 DEF ResendClosed, RsaConnect, Walk, Hands, TypeOK
    <2>2. Hands'
      BY <1>22 DEF ResendClosed, Hands, TypeOK
    <2>3. SendsInSession'
      BY <1>22 DEF ResendClosed, RsaConnect, SendsInSession, TypeOK
    <2>. QED  BY <2>1, <2>2, <2>3
  <1>23. CASE ResendDone
    <2>1. OneWaiter' /\ WalkIsAlone'
      BY <1>23 DEF ResendDone, Hands, TypeOK
    <2>2. Hands'
      BY <1>23 DEF ResendDone, Hands, TypeOK
    <2>3. SendsInSession'
      BY <1>23 DEF ResendDone, SendsInSession, TypeOK
    <2>. QED  BY <2>1, <2>2, <2>3
  <1>24. CASE AnswerYes
    <2>1. OneWaiter' /\ WalkIsAlone'
      BY <1>24 DEF AnswerYes, Hands, TypeOK
    <2>2. Hands'
      BY <1>24 DEF AnswerYes, Hands, TypeOK
    <2>3. SendsInSession'
      BY <1>24 DEF AnswerYes, SendsInSession, TypeOK
    <2>. QED  BY <2>1, <2>2, <2>3
  <1>25. CASE AnswerNo
    <2>1. OneWaiter' /\ WalkIsAlone'
      BY <1>25 DEF AnswerNo, Hands, TypeOK
    <2>2. Hands'
      BY <1>25 DEF AnswerNo, Hands, TypeOK
    <2>3. SendsInSession'
      BY <1>25 DEF AnswerNo, SendsInSession, TypeOK
    <2>. QED  BY <2>1, <2>2, <2>3
  <1>. QED  BY <1>1, <1>2, <1>3, <1>4, <1>5, <1>6, <1>7, <1>8, <1>9, <1>10, <1>11,
               <1>12, <1>13, <1>14, <1>15, <1>16, <1>17, <1>18, <1>19, <1>20, <1>21,
               <1>22, <1>23, <1>24, <1>25
            DEF Next, Window, Waiter, Answer

-----------------------------------------------------------------------------
(* Where the messages are, and the refinement.                             *)

LEMMA Abstraction ==
    ASSUME NEW m \in Msg
    PROVE  /\ UNCHANGED <<Pending, Outs, lost>> => UNCHANGED Outbox!bvars
           /\ /\ m \notin Pending \cup Outs \cup lost
              /\ \/ Pending' = Pending \cup {m} /\ Outs' = Outs
                 \/ Pending' = Pending /\ Outs' = Outs \cup {m}
              /\ lost' = lost
              => Outbox!ONext
           /\ /\ m \in Pending
              /\ Pending' = Pending \ {m}
              /\ \/ Outs' = Outs \cup {m} /\ lost' = lost
                 \/ Closable /\ Outs' = Outs /\ lost' = lost \cup {m}
              => Outbox!ONext
  BY DEF Outbox!bvars, Outbox!ONext, Outbox!Submit, Outbox!Deliver, Outbox!Lose, Pending, Outs

LEMMA SamePlaces ==
    ASSUME OnePlace, UNCHANGED <<queue, sent, lost, typed>>,
           win'.msg = win.msg, waiter'.msg = waiter.msg
    PROVE  OnePlace' /\ UNCHANGED Outbox!bvars
  <1>1. Pending' = Pending /\ Outs' = Outs /\ lost' = lost
    BY DEF Pending, Outs, InHand
  <1>2. OnePlace'
    BY <1>1 DEF OnePlace, Apart, Distinct
  <1>3. UNCHANGED Outbox!bvars
    BY DEF Outbox!bvars, InHand
  <1>. QED  BY <1>2, <1>3

\* The next state, in terms of the next values.
LEMMA NextPlaces ==
    /\ OnePlace' <=> /\ Distinct(queue')
                     /\ Apart(ToSet(queue'), win'.msg, waiter'.msg, Outs', lost', typed')
    /\ Pending' = ToSet(queue') \cup ({win'.msg, waiter'.msg} \ {0})
    /\ Outs' = {r.msg : r \in sent'}
  BY DEF OnePlace, Pending, InHand, Outs

\* One more message is out.
LEMMA OneMoreOut ==
    ASSUME NEW x, sent' = sent \cup {x}
    PROVE  Outs' = Outs \cup {x.msg}
  BY DEF Outs

\* The message m leaves for the other side, or is lost.
LEMMA Leaves ==
    ASSUME NEW m \in Msg, RsaSend(m), session = "open" \/ Closable
    PROVE  /\ \/ Outs' = Outs \cup {m} /\ lost' = lost
              \/ Closable /\ Outs' = Outs /\ lost' = lost \cup {m}
  <1>1. CASE sent' = sent \cup {Encrypted(m)} /\ lost' = lost
    <2>1. Encrypted(m).msg = m
      BY DEF Encrypted
    <2>. QED  BY <1>1, <2>1, OneMoreOut
  <1>2. CASE session # "open" /\ sent' = sent /\ lost' = lost \cup {m}
    BY <1>2 DEF Outs
  <1>. QED  BY <1>1, <1>2 DEF RsaSend

LEMMA PlaceStep ==
    ASSUME TypeOK, OneWaiter, OnePlace, Hands, SendsInSession, Next
    PROVE  OnePlace' /\ [Outbox!ONext]_(Outbox!bvars)
  <1> USE DEF WinAt, At, WinGoto, WinDone, Goto, list, gone
  <1>q. queue \in Seq(Msg) /\ Distinct(queue)
    BY DEF TypeOK, OnePlace
  <1>h. queue # <<>> => /\ Head(queue) \in Msg /\ Head(queue) # 0
                        /\ ToSet(queue) = ToSet(Tail(queue)) \cup {Head(queue)}
                        /\ Head(queue) \notin ToSet(Tail(queue))
                        /\ Distinct(Tail(queue))
    <2>1. 0 \notin Msg
      BY DEF Msg
    <2>. QED  BY <1>q, <2>1, TailElements
  <1>a. Apart(ToSet(queue), win.msg, waiter.msg, Outs, lost, typed)
    BY DEF OnePlace
  <1>p. Pending = ToSet(queue) \cup ({win.msg, waiter.msg} \ {0})
    BY DEF Pending, InHand
  <1>z. 0 \in 0 .. typed
    BY ConstantsOK DEF TypeOK
  <1>1. CASE Type
    <2> DEFINE m == typed + 1
    <2>1. m \in Msg /\ m \notin 0 .. typed /\ m # 0 /\ 0 .. typed \subseteq 0 .. typed'
          /\ m \in 0 .. typed' /\ win.msg = 0 /\ UNCHANGED <<queue, lost, waiter>>
      BY <1>1, ConstantsOK DEF Type, TypeOK, Hands, Msg
    <2>s. /\ sendQueue => sent' = sent \cup {Clear(m)} /\ Clear(m).msg = m /\ win' = win
          /\ ~sendQueue => sent' = sent /\ win'.msg = m
      BY <1>1 DEF Type, Clear
    <2> HIDE DEF m
    <2>2. m \notin Pending \cup Outs \cup lost /\ m # waiter.msg
      BY <2>1, <1>a, <1>p DEF Apart
    <2>3. CASE sendQueue
      <3>1. Outs' = Outs \cup {m} /\ win' = win
        BY <2>s, <2>3, OneMoreOut
      <3>2. Pending' = Pending
        BY <1>p, <2>1, <3>1, NextPlaces
      <3>3. Outbox!ONext
        BY <2>1, <2>2, <3>1, <3>2, Abstraction
      <3>4. Apart(ToSet(queue'), win'.msg, waiter'.msg, Outs', lost', typed')
        BY <1>a, <1>p, <2>1, <2>2, <3>1 DEF Apart
      <3>. QED  BY <1>q, <2>1, <3>3, <3>4, NextPlaces
    <2>4. CASE ~sendQueue
      <3>1. win'.msg = m /\ sent' = sent
        BY <2>s, <2>4
      <3>2. Outs' = Outs
        BY <3>1 DEF Outs
      <3>3. Pending' = Pending \cup {m}
        BY <1>p, <2>1, <3>1, NextPlaces
      <3>4. Outbox!ONext
        BY <2>1, <2>2, <3>2, <3>3, Abstraction
      <3>5. Apart(ToSet(queue'), win'.msg, waiter'.msg, Outs', lost', typed')
        BY <1>a, <1>p, <2>1, <2>2, <3>1, <3>2 DEF Apart
      <3>. QED  BY <1>q, <2>1, <3>4, <3>5, NextPlaces
    <2>. QED  BY <2>3, <2>4
  <1>2. CASE WinSend
    <2>1. /\ win.msg \in Msg /\ win.msg # 0 /\ win'.msg = 0 /\ RsaSend(win.msg)
          /\ UNCHANGED <<queue, typed, waiter>> /\ win.pc = "send"
      BY <1>2 DEF WinSend, Hands, TypeOK
    <2>2. /\ win.msg \in Pending /\ win.msg \notin Outs \cup lost /\ win.msg \in 0 .. typed
          /\ Pending' = Pending \ {win.msg}
      BY <1>a, <1>p, <2>1, NextPlaces DEF Apart
    <2>3. session = "open" \/ Closable
      BY <2>1 DEF SendsInSession
    <2>4. \/ Outs' = Outs \cup {win.msg} /\ lost' = lost
          \/ Closable /\ Outs' = Outs /\ lost' = lost \cup {win.msg}
      BY <2>1, <2>3, Leaves
    <2>5. Apart(ToSet(queue'), win'.msg, waiter'.msg, Outs', lost', typed')
      BY <1>a, <1>z, <2>1, <2>2, <2>4 DEF Apart
    <2>6. Outbox!ONext
      BY <2>1, <2>2, <2>4, Abstraction
    <2>. QED  BY <1>q, <2>1, <2>5, <2>6, NextPlaces
  <1>3. CASE WinQueue
    <2>1. /\ win.msg \in Msg /\ win.msg # 0 /\ win'.msg = 0
          /\ queue' = Append(queue, win.msg)
          /\ UNCHANGED <<typed, waiter, sent, lost>>
      BY <1>3 DEF WinQueue, AddMsg2Queue, Hands, TypeOK
    <2>2. win.msg \notin ToSet(queue) \cup Outs \cup lost /\ win.msg # waiter.msg
      BY <1>a, <2>1 DEF Apart
    <2>3. ToSet(queue') = ToSet(queue) \cup {win.msg} /\ Distinct(queue')
      BY <1>q, <2>1, <2>2, AppendElements
    <2>4. Outs' = Outs
      BY <2>1 DEF Outs
    <2>5. Pending' = Pending
      BY <1>p, <2>1, <2>3, NextPlaces
    <2>6. Apart(ToSet(queue'), win'.msg, waiter'.msg, Outs', lost', typed')
      BY <1>a, <1>z, <2>1, <2>2, <2>3, <2>4 DEF Apart
    <2>7. UNCHANGED Outbox!bvars
      BY <2>1, <2>4, <2>5, Abstraction
    <2>. QED  BY <2>3, <2>6, <2>7, NextPlaces
  <1>4. CASE SendClear
    <2> DEFINE m == Head(queue)
    <2>1. /\ m \in Msg /\ m # 0 /\ queue' = Tail(queue) /\ m \in ToSet(queue)
          /\ ToSet(queue') = ToSet(queue) \ {m} /\ Distinct(queue')
          /\ UNCHANGED <<typed, waiter, win, lost>>
      BY <1>4, <1>h DEF SendClear
    <2>s. sent' = sent \cup {Clear(m)} /\ Clear(m).msg = m
      BY <1>4 DEF SendClear, Clear
    <2> HIDE DEF m
    <2>2. Outs' = Outs \cup {m}
      BY <2>s, OneMoreOut
    <2>3. /\ m \in Pending /\ m \notin Outs \cup lost /\ m # win.msg /\ m # waiter.msg
          /\ m \in 0 .. typed
      BY <1>a, <1>p, <2>1 DEF Apart
    <2>4. Pending' = Pending \ {m}
      BY <1>p, <2>1, <2>3, NextPlaces
    <2>5. Outbox!ONext
      BY <2>1, <2>2, <2>3, <2>4, Abstraction
    <2>6. Apart(ToSet(queue'), win'.msg, waiter'.msg, Outs', lost', typed')
      BY <1>a, <2>1, <2>2, <2>3 DEF Apart
    <2>. QED  BY <2>1, <2>5, <2>6, NextPlaces
  <1>5. CASE ResendOpen
    <2> DEFINE m == Head(queue)
    <2>1. /\ m \in Msg /\ m # 0 /\ queue' = Tail(queue) /\ m \in ToSet(queue)
          /\ ToSet(queue') = ToSet(queue) \ {m} /\ Distinct(queue')
          /\ waiter.msg = 0 /\ waiter'.msg = m
          /\ UNCHANGED <<typed, win, lost, sent>>
      BY <1>5, <1>h DEF ResendOpen, Hands
    <2> HIDE DEF m
    <2>2. Outs' = Outs
      BY <2>1 DEF Outs
    <2>3. m \notin Outs \cup lost /\ m # win.msg
      BY <1>a, <2>1 DEF Apart
    <2>4. Pending' = Pending
      BY <1>p, <2>1, <2>3, NextPlaces
    <2>5. Apart(ToSet(queue'), win'.msg, waiter'.msg, Outs', lost', typed')
      BY <1>a, <2>1, <2>2, <2>3 DEF Apart
    <2>6. UNCHANGED Outbox!bvars
      BY <2>1, <2>2, <2>4, Abstraction
    <2>. QED  BY <2>1, <2>5, <2>6, NextPlaces
  <1>6. CASE WaiterSend
    <2>1. /\ waiter.msg \in Msg /\ waiter.msg # 0 /\ waiter'.msg = 0 /\ RsaSend(waiter.msg)
          /\ UNCHANGED <<queue, typed, win>> /\ waiter.pc = "send"
      BY <1>6 DEF WaiterSend, Hands, TypeOK
    <2>2. /\ waiter.msg \in Pending /\ waiter.msg \notin Outs \cup lost
          /\ win.msg # waiter.msg /\ waiter.msg \in 0 .. typed
          /\ Pending' = Pending \ {waiter.msg}
      BY <1>a, <1>p, <2>1, NextPlaces DEF Apart
    <2>3. session = "open" \/ Closable
      BY <2>1 DEF SendsInSession
    <2>4. \/ Outs' = Outs \cup {waiter.msg} /\ lost' = lost
          \/ Closable /\ Outs' = Outs /\ lost' = lost \cup {waiter.msg}
      BY <2>1, <2>3, Leaves
    <2>5. Apart(ToSet(queue'), win'.msg, waiter'.msg, Outs', lost', typed')
      BY <1>a, <1>z, <2>1, <2>2, <2>4 DEF Apart
    <2>6. Outbox!ONext
      BY <2>1, <2>2, <2>4, Abstraction
    <2>. QED  BY <1>q, <2>1, <2>5, <2>6, NextPlaces
  <1>7. CASE ResendClosed
    <2>1. /\ ToSet(queue') = ToSet(queue) /\ Distinct(queue')
          /\ UNCHANGED <<typed, win, waiter, sent, lost>>
      BY <1>7, <1>q, RotateElements DEF ResendClosed, AddMsg2Queue
    <2>2. Outs' = Outs /\ Pending' = Pending
      BY <1>p, <2>1, NextPlaces DEF Outs
    <2>3. Apart(ToSet(queue'), win'.msg, waiter'.msg, Outs', lost', typed')
      BY <1>a, <2>1, <2>2
    <2>4. ASSUME NEW m \in Msg PROVE UNCHANGED Outbox!bvars
      BY <2>1, <2>2, Abstraction
    <2>5. UNCHANGED Outbox!bvars
      <3>1. Head(queue) \in Msg
        BY <1>7, <1>h DEF ResendClosed
      <3>. QED  BY <2>4, <3>1
    <2>. QED  BY <2>1, <2>3, <2>5, NextPlaces
  <1>8. CASE WinDisconnect
    <2>1. UNCHANGED <<queue, sent, lost, typed>> /\ win'.msg = win.msg /\ waiter'.msg = waiter.msg
      BY <1>8 DEF WinDisconnect, Hands, TypeOK
    <2>. QED  BY <2>1, SamePlaces
  <1>9. CASE Opens
    <2>1. UNCHANGED <<queue, sent, lost, typed>> /\ win'.msg = win.msg /\ waiter'.msg = waiter.msg
      BY <1>9 DEF Opens, Hands, TypeOK
    <2>. QED  BY <2>1, SamePlaces
  <1>10. CASE WinWait
    <2>1. UNCHANGED <<queue, sent, lost, typed>> /\ win'.msg = win.msg /\ waiter'.msg = waiter.msg
      BY <1>10 DEF WinWait, OneWaiter, Hands, TypeOK
    <2>. QED  BY <2>1, SamePlaces
  <1>11. CASE WinConnect
    <2>1. UNCHANGED <<queue, sent, lost, typed>> /\ win'.msg = win.msg /\ waiter'.msg = waiter.msg
      BY <1>11 DEF WinConnect, Hands, TypeOK
    <2>. QED  BY <2>1, SamePlaces
  <1>12. CASE WinSee
    <2>1. UNCHANGED <<queue, sent, lost, typed>> /\ win'.msg = win.msg /\ waiter'.msg = waiter.msg
      BY <1>12 DEF WinSee, Hands, TypeOK
    <2>. QED  BY <2>1, SamePlaces
  <1>13. CASE WinSet
    <2>1. UNCHANGED <<queue, sent, lost, typed>> /\ win'.msg = win.msg /\ waiter'.msg = waiter.msg
      BY <1>13 DEF WinSet, Hands, TypeOK
    <2>. QED  BY <2>1, SamePlaces
  <1>14. CASE Ends
    <2>1. UNCHANGED <<queue, sent, lost, typed>> /\ win'.msg = win.msg /\ waiter'.msg = waiter.msg
      BY <1>14 DEF Ends, Hands, TypeOK
    <2>. QED  BY <2>1, SamePlaces
  <1>15. CASE Renegotiates
    <2>1. UNCHANGED <<queue, sent, lost, typed>> /\ win'.msg = win.msg /\ waiter'.msg = waiter.msg
      BY <1>15 DEF Renegotiates, Hands, TypeOK
    <2>. QED  BY <2>1, SamePlaces
  <1>16. CASE NoteSee
    <2>1. UNCHANGED <<queue, sent, lost, typed>> /\ win'.msg = win.msg /\ waiter'.msg = waiter.msg
      BY <1>16 DEF NoteSee, Hands, TypeOK
    <2>. QED  BY <2>1, SamePlaces
  <1>17. CASE NoteSet
    <2>1. UNCHANGED <<queue, sent, lost, typed>> /\ win'.msg = win.msg /\ waiter'.msg = waiter.msg
      BY <1>17 DEF NoteSet, Hands, TypeOK
    <2>. QED  BY <2>1, SamePlaces
  <1>18. CASE Poll
    <2>1. UNCHANGED <<queue, sent, lost, typed>> /\ win'.msg = win.msg /\ waiter'.msg = waiter.msg
      BY <1>18 DEF Poll, Hands, TypeOK
    <2>. QED  BY <2>1, SamePlaces
  <1>19. CASE First
    <2>1. UNCHANGED <<queue, sent, lost, typed>> /\ win'.msg = win.msg /\ waiter'.msg = waiter.msg
      BY <1>19 DEF First, Hands, TypeOK
    <2>. QED  BY <2>1, SamePlaces
  <1>20. CASE ClearDone
    <2>1. UNCHANGED <<queue, sent, lost, typed>> /\ win'.msg = win.msg /\ waiter'.msg = waiter.msg
      BY <1>20 DEF ClearDone, Hands, TypeOK
    <2>. QED  BY <2>1, SamePlaces
  <1>21. CASE Reset
    <2>1. UNCHANGED <<queue, sent, lost, typed>> /\ win'.msg = win.msg /\ waiter'.msg = waiter.msg
      BY <1>21 DEF Reset, Hands, TypeOK
    <2>. QED  BY <2>1, SamePlaces
  <1>22. CASE Second
    <2>1. UNCHANGED <<queue, sent, lost, typed>> /\ win'.msg = win.msg /\ waiter'.msg = waiter.msg
      BY <1>22 DEF Second, Hands, TypeOK
    <2>. QED  BY <2>1, SamePlaces
  <1>23. CASE ResendDone
    <2>1. UNCHANGED <<queue, sent, lost, typed>> /\ win'.msg = win.msg /\ waiter'.msg = waiter.msg
      BY <1>23 DEF ResendDone, Hands, TypeOK
    <2>. QED  BY <2>1, SamePlaces
  <1>24. CASE AnswerYes
    <2>1. UNCHANGED <<queue, sent, lost, typed>> /\ win'.msg = win.msg /\ waiter'.msg = waiter.msg
      BY <1>24 DEF AnswerYes, Hands, TypeOK
    <2>. QED  BY <2>1, SamePlaces
  <1>25. CASE AnswerNo
    <2>1. UNCHANGED <<queue, sent, lost, typed>> /\ win'.msg = win.msg /\ waiter'.msg = waiter.msg
      BY <1>25 DEF AnswerNo, Hands, TypeOK
    <2>. QED  BY <2>1, SamePlaces
  <1>. QED  BY <1>1, <1>2, <1>3, <1>4, <1>5, <1>6, <1>7, <1>8, <1>9, <1>10, <1>11, <1>12, <1>13,
               <1>14, <1>15, <1>16, <1>17, <1>18, <1>19, <1>20, <1>21, <1>22, <1>23, <1>24, <1>25
            DEF Next, Window, Waiter, Answer

-----------------------------------------------------------------------------
LEMMA InvNext == Inv /\ [Next]_vars => Inv'
  <1> SUFFICES ASSUME Inv, [Next]_vars PROVE Inv'
    OBVIOUS
  <1>1. CASE Next
    <2>1. TypeOK'
      BY <1>1, TypeStep DEF Inv
    <2>2. OneWaiter' /\ WalkIsAlone' /\ Hands' /\ SendsInSession'
      BY <1>1, ControlStep DEF Inv
    <2>3. OnePlace'
      BY <1>1, PlaceStep DEF Inv
    <2>. QED  BY <2>1, <2>2, <2>3 DEF Inv
  <1>2. CASE UNCHANGED vars
    BY <1>2 DEF vars, Inv, TypeOK, OneWaiter, WalkIsAlone, OnePlace, Hands, SendsInSession,
                Outs, Distinct, Apart
  <1>. QED  BY <1>1, <1>2

LEMMA Invariance == Spec => []Inv
  <1>. QED  BY InvInit, InvNext, PTL DEF Spec

\* Every variable keeps its type.
THEOREM TypeCorrect == Spec => []TypeOK
  <1>1. Inv => TypeOK
    BY DEF Inv
  <1>. QED  BY <1>1, Invariance, PTL

\* Two waiters never work on one queue (waitForExchange, sttWaitForExchange).
THEOREM OneWaiterAtATime == Spec => []OneWaiter
  <1>1. Inv => OneWaiter
    BY DEF Inv
  <1>. QED  BY <1>1, Invariance, PTL

\* Nobody else touches the list while the waiter sends it (localQueueMutex).
THEOREM ListIsLocked == Spec => []WalkIsAlone
  <1>1. Inv => WalkIsAlone
    BY DEF Inv
  <1>. QED  BY <1>1, Invariance, PTL

\* Every message typed is in one place, goes out once, and is lost only when a
\* session ends: the queue, the waiter and the window thread implement Outbox.
THEOREM QueueImplementsOutbox == Spec => ImplementsOutbox
  <1>1. Init => Outbox!OInit
    <2> SUFFICES ASSUME Init PROVE Outbox!OInit
      OBVIOUS
    <2>1. ToSet(queue) = {} /\ InHand = {} /\ {r.msg : r \in sent} = {} /\ lost = {}
      BY EmptySeq, LenProperties DEF Init, ToSet, InHand
    <2>. QED  BY <2>1 DEF Outbox!OInit
  <1>2. Inv /\ [Next]_vars => [Outbox!ONext]_(Outbox!bvars)
    <2> SUFFICES ASSUME Inv, [Next]_vars PROVE [Outbox!ONext]_(Outbox!bvars)
      OBVIOUS
    <2>1. CASE Next
      BY <2>1, PlaceStep DEF Inv
    <2>2. CASE UNCHANGED vars
      BY <2>2, SamePlaces DEF vars, Inv
    <2>. QED  BY <2>1, <2>2
  <1>. QED  BY <1>1, <1>2, Invariance, PTL DEF Spec, ImplementsOutbox, Outbox!OSpec

=============================================================================
