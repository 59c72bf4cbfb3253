------------------------- MODULE SplitMessage_proofs -------------------------
(***************************************************************************)
(* For any lengths, parts and numbers of messages: the types, the buffer   *)
(* of splitMsg, and that only messages of one id are mixed up, in what is  *)
(* put together and in the arrays.  For one thread whose ids do not wrap,  *)
(* what arrives is what was sent, and once.                                *)
(***************************************************************************)
EXTENDS SplitMessage, SequenceTheorems, FiniteSetTheorems, TLAPS

-----------------------------------------------------------------------------
(* What the runs with a counterexample break, one after another.           *)

PartsLongEnough == \A par \in Pars : par = 0 \/ par >= 34
SendsAlone == \A t, u \in Thread : t = u
IdsLast == MaxMsg < IdSpace
PartsNumbered ==
    \A len \in Lengths, par \in Pars : par # 0 /\ len > par => Count(len, par) < Base * Base

-----------------------------------------------------------------------------
(* A thread within splitMsg has a message longer than its parts.           *)

Splits(s) == s.par \in Pars /\ s.par # 0 /\ s.len \in Lengths /\ s.len > s.par

ThreadOK ==
    \A t \in Thread : thread[t].pc # "idle" =>
        /\ Splits(thread[t])
        /\ thread[t].msg \in DOMAIN sent
        /\ sent[thread[t].msg] = Count(thread[t].len, thread[t].par)
        /\ thread[t].num < sent[thread[t].msg]

\* A part of message m carries its number and how many there are.
PartOK(p) ==
    /\ p.text[1] \in DOMAIN sent
    /\ p.split => /\ p.num = p.text[2]
                  /\ p.all = sent[p.text[1]]
                  /\ p.num < p.all
                  /\ p.id <= msgid
    /\ ~p.split => p.text[2] = 0 /\ sent[p.text[1]] = 1
NetOK == \A p \in net : PartOK(p)

\* An id stands for one message.
Agree(id, m) == \A p \in net : p.split /\ p.id = id => p.text[1] = m
SameMessage == \A p \in net : p.split => Agree(p.id, p.text[1])

\* The ids not yet used are above the counter.
CounterOK ==
    /\ msgid <= Len(sent)
    /\ \A t \in Thread :
        /\ thread[t].pc = "id" => thread[t].id = msgid + 1 /\ msgid < Len(sent)
        /\ thread[t].pc = "parts" => /\ thread[t].id <= msgid
                                     /\ Agree(thread[t].id, thread[t].msg)

\* The array of an id is that of its message, and holds parts of it only.
Holds(i, r, m) ==
    /\ DOMAIN r = 0 .. sent[m] - 1
    /\ \A k \in DOMAIN r : r[k] \in {Nil, <<m, k>>}
    /\ Agree(i, m)
    /\ \A t \in Thread : thread[t].pc = "parts" /\ thread[t].id = i => thread[t].msg = m
RecordsIn(parts) ==
    \A i \in DOMAIN parts : i <= msgid /\ \E m \in DOMAIN sent : Holds(i, parts[i], m)
RecordsOK == RecordsIn(msgPart)

Delivery ==
    /\ NetOK /\ SameMessage /\ CounterOK /\ RecordsOK
    /\ DeliversSent /\ NeverOutside

-----------------------------------------------------------------------------
(* Numbers.                                                                *)

LEMMA DivType ==
    ASSUME NEW n \in Nat, NEW b \in Nat, b > 0
    PROVE  /\ n \div b \in Nat /\ n % b \in Nat
           /\ b * (n \div b) + (n % b) = n
           /\ n % b < b
  OBVIOUS

LEMMA DivTimes ==
    ASSUME NEW n \in Nat, NEW b \in Nat, b > 0
    PROVE  (n \div b) * b + (n % b) = n
  <1>1. (n \div b) * b = b * (n \div b)
    BY DivType
  <1>. QED  BY <1>1, DivType

\* There are as few parts as hold the message.
LEMMA CountType ==
    ASSUME NEW len \in Nat, NEW par \in Nat, par # 0, len > par
    PROVE  /\ Count(len, par) \in Nat
           /\ Count(len, par) >= 1
           /\ par * Count(len, par) <= len + par - 1
  <1>1. len + par - 1 \in Nat /\ par > 0
    OBVIOUS
  <1>2. /\ Count(len, par) \in Nat
        /\ par * Count(len, par) + ((len + par - 1) % par) = len + par - 1
        /\ (len + par - 1) % par \in Nat /\ (len + par - 1) % par < par
    BY <1>1, DivType DEF Count
  <1>3. Count(len, par) # 0
    <2>1. SUFFICES ASSUME Count(len, par) = 0 PROVE FALSE
      OBVIOUS
    <2>2. par * Count(len, par) = 0
      BY <2>1
    <2>. QED  BY <1>2, <2>2
  <1>. QED  BY <1>2, <1>3

LEMMA HeaderType ==
    ASSUME NEW num \in Nat, NEW all \in Nat
    PROVE  Header(num, all).num \in Nat /\ Header(num, all).all \in Nat
  <1>. USE SplitOK
  <1>1. Base \in Nat /\ Base > 0 /\ Base * Base \in Nat /\ Base * Base > 0
    OBVIOUS
  <1>2. ASSUME NEW n \in Nat
        PROVE  Digits(n) \in Seq(Nat) /\ Len(Digits(n)) >= 2
    <2>1. n \div Base \in Nat /\ n % Base \in Nat /\ n \div (Base * Base) \in Nat
          /\ (n \div Base) % Base \in Nat
      BY <1>1, DivType
    <2>2. CASE n < Base * Base
      BY <2>1, <2>2 DEF Digits
    <2>3. CASE ~(n < Base * Base)
      BY <2>1, <2>3 DEF Digits
    <2>. QED  BY <2>2, <2>3
  <1>. DEFINE d == Digits(num) \o Digits(all)
  <1>3. d \in Seq(Nat) /\ Len(d) >= 4
    <2>1. Digits(num) \in Seq(Nat) /\ Len(Digits(num)) >= 2
          /\ Digits(all) \in Seq(Nat) /\ Len(Digits(all)) >= 2
      BY <1>2
    <2>. HIDE DEF d
    <2>2. d \in Seq(Nat) /\ Len(d) = Len(Digits(num)) + Len(Digits(all))
      BY <2>1, ConcatProperties DEF d
    <2>3. Len(Digits(num)) \in Nat /\ Len(Digits(all)) \in Nat
      BY <2>1, LenProperties
    <2>. QED  BY <2>1, <2>2, <2>3
  <1>4. Header(num, all) = [num |-> d[1] * Base + d[2], all |-> d[3] * Base + d[4]]
    BY DEF Header
  <1>. HIDE DEF d
  <1>5. d[1] \in Nat /\ d[2] \in Nat /\ d[3] \in Nat /\ d[4] \in Nat
    <2>1. 1 \in 1 .. Len(d) /\ 2 \in 1 .. Len(d) /\ 3 \in 1 .. Len(d) /\ 4 \in 1 .. Len(d)
      BY <1>3, LenProperties
    <2>. QED  BY <1>3, <2>1, ElementOfSeq
  <1>. QED  BY <1>1, <1>4, <1>5

\* Below the square of the base a number is its two digits.
LEMMA HeaderExact ==
    ASSUME NEW num \in Nat, NEW all \in Nat, num < Base * Base, all < Base * Base
    PROVE  Header(num, all).num = num /\ Header(num, all).all = all
  <1>1. Base \in Nat /\ Base > 0
    BY SplitOK
  <1>2. Digits(num) = <<num \div Base, num % Base>> /\ Digits(all) = <<all \div Base, all % Base>>
    BY DEF Digits
  <1>3. Header(num, all) = [num |-> (num \div Base) * Base + (num % Base),
                            all |-> (all \div Base) * Base + (all % Base)]
    BY <1>2 DEF Header
  <1>. QED  BY <1>1, <1>3, DivTimes

-----------------------------------------------------------------------------
(* Types.                                                                  *)

\* The arrays of parts start at 0.
Arrays == \A i \in DOMAIN msgPart : \E n \in Nat : DOMAIN msgPart[i] = 0 .. n - 1
Typed == TypeOK /\ ThreadOK /\ Arrays

LEMMA InitTyped == Init => Typed
  <1>1. /\ <<>> \in Seq(Nat) /\ <<>> \in Seq(0 .. IdSpace) /\ Len(<<>>) = 0
        /\ DOMAIN <<>> = {}
    OBVIOUS
  <1>2. Idle \in Place /\ 0 \in Ids /\ Idle.pc = "idle"
    BY SplitOK DEF Ids, Idle, Place
  <1>3. [lost |-> 0, twice |-> 0] \in [lost : 0 .. MaxLost, twice : 0 .. MaxTwice]
    BY SplitOK
  <1>4. MaxMsg >= 0 /\ <<>> \in Seq(Seq(Text))
    BY SplitOK
  <1> SUFFICES ASSUME Init PROVE Typed
    OBVIOUS
  <1>5. TypeOK
    BY <1>1, <1>2, <1>3, <1>4 DEF Init, TypeOK
  <1>. QED  BY <1>1, <1>2, <1>5 DEF Init, Typed, ThreadOK, Arrays

\* Where the thread has begun a message, the next one has a number.
LEMMA AppendCount ==
    ASSUME TypeOK, Len(sent) < MaxMsg, NEW n \in Nat, sent' = Append(sent, n)
    PROVE  /\ sent' \in Seq(Nat) /\ Len(sent') <= MaxMsg
           /\ Len(sent') = Len(sent) + 1
           /\ DOMAIN sent' = DOMAIN sent \cup {Len(sent) + 1}
           /\ Len(sent) + 1 \in 1 .. MaxMsg
           /\ \A m \in DOMAIN sent : sent'[m] = sent[m]
           /\ sent'[Len(sent) + 1] = n
  <1>1. sent \in Seq(Nat) /\ Len(sent) \in Nat /\ MaxMsg \in Nat
        /\ DOMAIN sent = 1 .. Len(sent)
    BY SplitOK, LenProperties DEF TypeOK
  <1>2. /\ sent' \in Seq(Nat)
        /\ Len(sent') = Len(sent) + 1
        /\ \A m \in 1 .. Len(sent) : sent'[m] = sent[m]
        /\ sent'[Len(sent) + 1] = n
    BY <1>1, AppendProperties
  <1>3. DOMAIN sent' = 1 .. Len(sent')
    BY <1>2, LenProperties
  <1>. QED  BY <1>1, <1>2, <1>3

\* And an id of its own, or that of another message.
LEMMA AppendId ==
    ASSUME TypeOK, NEW i \in 0 .. IdSpace, ids' = Append(ids, i)
    PROVE  /\ ids' \in Seq(0 .. IdSpace) /\ Len(ids') = Len(sent) + 1
           /\ DOMAIN ids = DOMAIN sent /\ DOMAIN ids' = DOMAIN sent \cup {Len(sent) + 1}
           /\ \A m \in DOMAIN sent : ids'[m] = ids[m]
           /\ ids'[Len(sent) + 1] = i
  <1>1. /\ ids \in Seq(0 .. IdSpace) /\ Len(ids) = Len(sent) /\ Len(sent) \in Nat
        /\ DOMAIN sent = 1 .. Len(sent) /\ DOMAIN ids = 1 .. Len(sent)
    BY LenProperties DEF TypeOK
  <1>2. /\ ids' \in Seq(0 .. IdSpace)
        /\ Len(ids') = Len(ids) + 1
        /\ \A m \in 1 .. Len(ids) : ids'[m] = ids[m]
        /\ ids'[Len(ids) + 1] = i
    BY <1>1, AppendProperties
  <1>3. DOMAIN ids' = 1 .. Len(ids')
    BY <1>2, LenProperties
  <1>. QED  BY <1>1, <1>2, <1>3

LEMMA NextIdType ==
    ASSUME TypeOK
    PROVE  NextId \in Ids /\ NextId \in 0 .. IdSpace
  <1>1. msgid + 1 \in Nat /\ IdSpace \in Nat /\ IdSpace > 0
    BY SplitOK DEF TypeOK, Ids
  <1>2. NextId \in Nat /\ NextId < IdSpace
    BY <1>1, DivType DEF NextId
  <1>. QED  BY <1>1, <1>2 DEF Ids

LEMMA SendWholeTyped ==
    ASSUME Typed, NEW t \in Thread, SendWhole(t)
    PROVE  Typed'
  <1>. USE DEF Typed
  <1>1. sent' = Append(sent, 1) /\ Len(sent) < MaxMsg /\ ids' = Append(ids, IdSpace)
        /\ net' = net \cup {[split |-> FALSE, text |-> <<Len(sent) + 1, 0>>]}
        /\ UNCHANGED <<msgid, thread, msgPart, got, bad, spent>>
    BY DEF SendWhole
  <1>2. /\ sent' \in Seq(Nat) /\ Len(sent') <= MaxMsg
        /\ \A m \in DOMAIN sent : m \in DOMAIN sent' /\ sent'[m] = sent[m]
        /\ Len(sent) + 1 \in 1 .. MaxMsg
        /\ ids' \in Seq(0 .. IdSpace) /\ Len(ids') = Len(sent')
    <2>1. IdSpace \in 0 .. IdSpace
      BY SplitOK
    <2>. QED  BY <1>1, <2>1, AppendCount, AppendId
  <1>3. net' \subseteq Part
    <2>1. <<Len(sent) + 1, 0>> \in Text
      BY <1>2 DEF Text
    <2>2. [split |-> FALSE, text |-> <<Len(sent) + 1, 0>>] \in Part
      BY <2>1 DEF Part
    <2>. QED  BY <1>1, <2>2 DEF TypeOK
  <1>4. TypeOK'
    BY <1>1, <1>2, <1>3 DEF TypeOK
  <1>5. ThreadOK' /\ Arrays'
    BY <1>1, <1>2 DEF ThreadOK, Arrays, Splits
  <1>. QED  BY <1>4, <1>5

LEMMA ReadIdTyped ==
    ASSUME Typed, NEW t \in Thread, ReadId(t)
    PROVE  Typed'
  <1>. USE DEF Typed
  <1>1. PICK len \in Lengths, par \in Pars :
        /\ par # 0 /\ len > par
        /\ sent' = Append(sent, Count(len, par))
        /\ ids' = Append(ids, NextId)
        /\ thread' = [thread EXCEPT ![t] =
                        [pc |-> "id", msg |-> Len(sent) + 1, len |-> len, par |-> par,
                         id |-> NextId, num |-> 0]]
    BY DEF ReadId
  <1>2. Len(sent) < MaxMsg /\ UNCHANGED <<msgid, net, msgPart, got, bad, spent>>
    BY DEF ReadId
  <1>3. len \in Nat /\ par \in Nat /\ Count(len, par) \in Nat /\ Count(len, par) >= 1
    BY <1>1, CountType, SplitOK
  <1>4. /\ sent' \in Seq(Nat) /\ Len(sent') <= MaxMsg
        /\ \A m \in DOMAIN sent : m \in DOMAIN sent' /\ sent'[m] = sent[m]
        /\ Len(sent) + 1 \in 1 .. MaxMsg /\ Len(sent) + 1 \in DOMAIN sent'
        /\ sent'[Len(sent) + 1] = Count(len, par)
    BY <1>1, <1>2, <1>3, AppendCount
  <1>5. NextId \in Ids
    BY NextIdType
  <1>5i. ids' \in Seq(0 .. IdSpace) /\ Len(ids') = Len(sent')
    <2>1. NextId \in 0 .. IdSpace
      BY NextIdType
    <2>. QED  BY <1>1, <1>2, <1>3, <2>1, AppendCount, AppendId
  <1>6. thread' \in [Thread -> Place]
    BY <1>1, <1>4, <1>5 DEF TypeOK, Place
  <1>7. TypeOK'
    BY <1>2, <1>4, <1>5i, <1>6 DEF TypeOK
  <1>8. ThreadOK'
    <2> SUFFICES ASSUME NEW u \in Thread, thread'[u].pc # "idle"
                 PROVE  /\ Splits(thread'[u])
                        /\ thread'[u].msg \in DOMAIN sent'
                        /\ sent'[thread'[u].msg] = Count(thread'[u].len, thread'[u].par)
                        /\ thread'[u].num < sent'[thread'[u].msg]
      BY DEF ThreadOK, Splits
    <2>1. CASE u = t
      BY <1>1, <1>3, <1>4, <2>1 DEF TypeOK, Splits
    <2>2. CASE u # t
      <3>1. thread'[u] = thread[u]
        BY <1>1, <2>2 DEF TypeOK
      <3>. QED  BY <1>4, <3>1 DEF ThreadOK
    <2>. QED  BY <2>1, <2>2
  <1>. QED  BY <1>2, <1>7, <1>8 DEF Arrays

LEMMA WriteIdTyped ==
    ASSUME Typed, NEW t \in Thread, WriteId(t)
    PROVE  Typed'
  <1>. USE DEF Typed
  <1>1. /\ thread[t].pc = "id" /\ msgid' = thread[t].id
        /\ thread' = [thread EXCEPT ![t].pc = "parts"]
        /\ UNCHANGED <<sent, ids, net, msgPart, got, bad, spent>>
    BY DEF WriteId
  <1>2. TypeOK'
    <2>1. thread[t] \in Place /\ thread[t].id \in Ids
      BY DEF TypeOK, Place
    <2>2. [thread[t] EXCEPT !.pc = "parts"] \in Place
      BY <2>1 DEF Place
    <2>3. thread' \in [Thread -> Place]
      BY <1>1, <2>2 DEF TypeOK
    <2>. QED  BY <1>1, <2>1, <2>3 DEF TypeOK
  <1>3. \A u \in Thread : /\ thread'[u].pc # "idle" => thread[u].pc # "idle"
                          /\ thread'[u].par = thread[u].par /\ thread'[u].len = thread[u].len
                          /\ thread'[u].msg = thread[u].msg /\ thread'[u].num = thread[u].num
    BY <1>1 DEF TypeOK, Place
  <1>. QED  BY <1>1, <1>2, <1>3 DEF ThreadOK, Arrays, Splits

LEMMA SendPartTyped ==
    ASSUME Typed, NEW t \in Thread, SendPart(t)
    PROVE  Typed'
  <1>. USE DEF Typed
  <1>. DEFINE s == thread[t]
              h == Header(s.num, Count(s.len, s.par))
              q == [split |-> TRUE, id |-> s.id, num |-> h.num, all |-> h.all,
                    text |-> <<s.msg, s.num>>]
  <1>1. /\ s.pc = "parts"
        /\ net' = net \cup {q}
        /\ thread' = [thread EXCEPT ![t] =
                            IF HasMore(s) THEN [s EXCEPT !.num = s.num + 1] ELSE Idle]
        /\ UNCHANGED <<sent, ids, msgid, msgPart, got, bad, spent>>
    BY DEF SendPart
  <1>2. /\ s \in Place
        /\ Splits(s) /\ s.msg \in DOMAIN sent /\ sent[s.msg] = Count(s.len, s.par)
    BY <1>1 DEF TypeOK, ThreadOK
  <1>3. Count(s.len, s.par) \in Nat /\ s.msg \in 1 .. MaxMsg
    <2>1. Count(s.len, s.par) \in Nat
      BY <1>2, CountType, SplitOK DEF Splits
    <2>2. DOMAIN sent = 1 .. Len(sent) /\ Len(sent) \in Nat /\ Len(sent) <= MaxMsg
      BY LenProperties DEF TypeOK
    <2>. QED  BY <1>2, <2>1, <2>2, SplitOK
  <1>4. h.num \in Nat /\ h.all \in Nat
    BY <1>2, <1>3, HeaderType DEF Place
  <1>5. q \in Part
    <2>. HIDE DEF h
    <2>. QED  BY <1>2, <1>3, <1>4 DEF Part, Text, Place
  <1>6. Idle \in Place /\ [s EXCEPT !.num = s.num + 1] \in Place
    <2>1. 0 \in Ids /\ 0 \in 0 .. MaxMsg
      BY SplitOK DEF Ids
    <2>. HIDE DEF s
    <2>. QED  BY <1>2, <2>1 DEF Idle, Place
  <1>7. thread' \in [Thread -> Place]
    <2>. HIDE DEF s
    <2>. QED  BY <1>1, <1>6 DEF TypeOK
  <1>8. TypeOK'
    <2>. HIDE DEF q, s
    <2>. QED  BY <1>1, <1>5, <1>7 DEF TypeOK
  <1>9. ThreadOK'
    <2> SUFFICES ASSUME NEW u \in Thread, thread'[u].pc # "idle"
                 PROVE  /\ Splits(thread'[u])
                        /\ thread'[u].msg \in DOMAIN sent
                        /\ sent[thread'[u].msg] = Count(thread'[u].len, thread'[u].par)
                        /\ thread'[u].num < sent[thread'[u].msg]
      BY <1>1 DEF ThreadOK, Splits
    <2>1. CASE u = t
      <3>1. thread'[t] = [s EXCEPT !.num = s.num + 1] /\ HasMore(s)
        BY <1>1, <2>1 DEF TypeOK, Idle
      <3>. QED  BY <1>2, <1>3, <2>1, <3>1 DEF HasMore, Splits, Place
    <2>2. CASE u # t
      <3>1. thread'[u] = thread[u]
        BY <1>1, <2>2 DEF TypeOK
      <3>. QED  BY <3>1 DEF ThreadOK
    <2>. QED  BY <2>1, <2>2
  <1>. QED  BY <1>1, <1>8, <1>9 DEF Arrays

LEMMA AppendRange ==
    ASSUME NEW S, NEW q \in Seq(S), NEW e \in S
    PROVE  Append(q, e) \in Seq(S) /\ Range(Append(q, e)) = Range(q) \cup {e}
  <1>1. /\ Append(q, e) \in Seq(S)
        /\ Len(Append(q, e)) = Len(q) + 1
        /\ \A i \in 1 .. Len(q) : Append(q, e)[i] = q[i]
        /\ Append(q, e)[Len(q) + 1] = e
    BY AppendProperties
  <1>2. /\ DOMAIN q = 1 .. Len(q) /\ Len(q) \in Nat
        /\ DOMAIN Append(q, e) = 1 .. Len(q) + 1
    BY <1>1, LenProperties
  <1>3. DOMAIN Append(q, e) = DOMAIN q \cup {Len(q) + 1}
    BY <1>2
  <1>. QED  BY <1>1, <1>2, <1>3 DEF Range

\* What combineMessage leaves: an array more, or a message put together.
LEMMA CombineCases ==
    ASSUME NEW p, Combine(p)
    PROVE  LET old == Record(p.id, p.all)
               r == [old EXCEPT ![p.num] = p.text]
           IN  \/ Outside(old, p) /\ bad' = TRUE /\ UNCHANGED <<msgPart, got>>
               \/ /\ ~Outside(old, p) /\ Complete(r, p) /\ bad' = bad
                  /\ got' = Append(got, [k \in 1 .. p.all |-> r[k - 1]])
                  /\ msgPart' = Without(p.id)
               \/ /\ ~Outside(old, p) /\ ~Complete(r, p) /\ bad' = bad
                  /\ got' = got /\ msgPart' = With(p.id, r)
  BY Zenon DEF Combine

LEMMA WithRecord ==
    ASSUME NEW id, NEW r
    PROVE  /\ DOMAIN With(id, r) = DOMAIN msgPart \cup {id}
           /\ With(id, r)[id] = r
           /\ \A i \in DOMAIN msgPart : i # id => With(id, r)[i] = msgPart[i]
  BY DEF With

LEMMA WithoutRecord ==
    ASSUME NEW id
    PROVE  /\ DOMAIN Without(id) = DOMAIN msgPart \ {id}
           /\ \A i \in DOMAIN msgPart \ {id} : Without(id)[i] = msgPart[i]
  BY DEF Without, Restrict

RecordTyped(r) ==
    /\ \E n \in Nat : DOMAIN r = 0 .. n - 1
    /\ \A k \in DOMAIN r : r[k] \in Text \cup {Nil}

LEMMA RecvTyped ==
    ASSUME Typed, NEW p \in net, Recv(p)
    PROVE  /\ DOMAIN msgPart' \subseteq Ids
           /\ \A i \in DOMAIN msgPart' : RecordTyped(msgPart'[i])
           /\ got' \in Seq(Seq(Text))
           /\ bad' \in BOOLEAN
  <1>1. /\ DOMAIN msgPart \subseteq Ids /\ bad \in BOOLEAN /\ p \in Part
        /\ got \in Seq(Seq(Text))
        /\ \A i \in DOMAIN msgPart : RecordTyped(msgPart[i])
    BY DEF Typed, TypeOK, Arrays, RecordTyped
  <1>2. p.text \in Text
    BY <1>1 DEF Part
  <1>3. CASE ~p.split
    <2>1. got' = Append(got, <<p.text>>) /\ UNCHANGED <<msgPart, bad>>
      BY <1>3 DEF Recv
    <2>2. <<p.text>> \in Seq(Text)
      BY <1>2
    <2>. QED  BY <1>1, <2>1, <2>2, AppendProperties
  <1>4. CASE p.split
    <2>. DEFINE old == Record(p.id, p.all)
                r == [old EXCEPT ![p.num] = p.text]
                whole == [k \in 1 .. p.all |-> r[k - 1]]
    <2>1. p.id \in Ids /\ p.num \in Nat /\ p.all \in Nat
      BY <1>1, <1>4 DEF Part
    <2>2. Combine(p)
      BY <1>4 DEF Recv
    <2>3. RecordTyped(old)
      <3>1. CASE p.id \in DOMAIN msgPart
        BY <1>1, <3>1 DEF Record
      <3>2. CASE p.id \notin DOMAIN msgPart
        BY <2>1, <3>2 DEF Record, RecordTyped
      <3>. QED  BY <3>1, <3>2
    <2>4. RecordTyped(r) /\ DOMAIN r = DOMAIN old
      <3>. HIDE DEF old
      <3>. QED  BY <1>2, <2>3 DEF RecordTyped
    <2>5. CASE Outside(old, p) /\ bad' = TRUE /\ UNCHANGED <<msgPart, got>>
      BY <1>1, <2>5
    <2>6. CASE /\ ~Outside(old, p) /\ Complete(r, p) /\ bad' = bad
               /\ got' = Append(got, whole)
               /\ msgPart' = Without(p.id)
      <3>1. \A i \in 0 .. p.all - 1 : i \in DOMAIN r /\ r[i] \in Text
        <4>1. PICK n \in Nat : DOMAIN old = 0 .. n - 1
          BY <2>3 DEF RecordTyped
        <4>2. p.num \in DOMAIN old
          BY <2>6 DEF Outside
        <4>3. CASE 0 .. p.all - 1 \subseteq DOMAIN old
          <5>. HIDE DEF r, old
          <5>. QED  BY <2>4, <2>6, <4>3 DEF RecordTyped, Complete
        <4>4. CASE \E i \in DOMAIN old : i # p.num /\ old[i] = Nil
          <5>1. PICK i \in DOMAIN old : i # p.num /\ old[i] = Nil
            BY <4>4
          <5>2. r[i] = Nil
            <6>. HIDE DEF old
            <6>. QED  BY <5>1
          <5>3. i \notin 0 .. p.all - 1
            BY <2>6, <5>2 DEF Complete
          <5>4. 0 .. p.all - 1 \subseteq DOMAIN old
            <6>. HIDE DEF old
            <6>. QED  BY <2>1, <4>1, <5>1, <5>3
          <5>. QED  BY <4>3, <5>4
        <4>. QED  BY <2>6, <4>3, <4>4 DEF Outside
      <3>2. whole \in Seq(Text)
        <4>. HIDE DEF r
        <4>1. \A k \in 1 .. p.all : r[k - 1] \in Text
          BY <2>1, <3>1
        <4>. QED  BY <2>1, <4>1, SeqDef
      <3>3. got' \in Seq(Seq(Text))
        <4>. HIDE DEF whole
        <4>. QED  BY <1>1, <2>6, <3>2, AppendProperties
      <3>. QED  BY <1>1, <2>6, <3>3, WithoutRecord
    <2>7. CASE /\ ~Outside(old, p) /\ ~Complete(r, p) /\ bad' = bad
               /\ got' = got /\ msgPart' = With(p.id, r)
      <3>. HIDE DEF r
      <3>1. /\ DOMAIN msgPart' = DOMAIN msgPart \cup {p.id} /\ msgPart'[p.id] = r
            /\ \A i \in DOMAIN msgPart : i # p.id => msgPart'[i] = msgPart[i]
        <4>1. msgPart' = With(p.id, r)
          BY <2>7
        <4>2. /\ DOMAIN With(p.id, r) = DOMAIN msgPart \cup {p.id} /\ With(p.id, r)[p.id] = r
              /\ \A i \in DOMAIN msgPart : i # p.id => With(p.id, r)[i] = msgPart[i]
          BY DEF With
        <4>. QED  BY <4>1, <4>2
      <3>. QED  BY <1>1, <2>1, <2>4, <2>7, <3>1
    <2>. QED
      <3>. HIDE DEF old, r
      <3>. QED  BY <2>2, <2>5, <2>6, <2>7, CombineCases DEF old, r
  <1>5. p.split \in BOOLEAN
    BY <1>1 DEF Part
  <1>. QED  BY <1>3, <1>4, <1>5

LEMMA ReceiveTyped ==
    ASSUME Typed, Receive \/ Twice
    PROVE  Typed'
  <1>1. PICK p \in net : Recv(p)
    BY DEF Receive, Twice
  <1>2. /\ DOMAIN msgPart' \subseteq Ids
        /\ \A i \in DOMAIN msgPart' : RecordTyped(msgPart'[i])
        /\ got' \in Seq(Seq(Text))
        /\ bad' \in BOOLEAN
    BY <1>1, RecvTyped
  <1>3. /\ UNCHANGED <<sent, ids, msgid, thread>> /\ net' \subseteq net
        /\ spent' \in [lost : 0 .. MaxLost, twice : 0 .. MaxTwice]
    <2>1. CASE Receive
      BY <2>1 DEF Receive, Typed, TypeOK
    <2>2. CASE Twice
      <3>1. spent' = [spent EXCEPT !.twice = spent.twice + 1] /\ spent.twice < MaxTwice
        BY <2>2 DEF Twice
      <3>2. spent \in [lost : 0 .. MaxLost, twice : 0 .. MaxTwice]
        BY DEF Typed, TypeOK
      <3>3. spent.twice + 1 \in 0 .. MaxTwice
        BY <3>1, <3>2, SplitOK
      <3>. QED  BY <2>2, <3>1, <3>2, <3>3 DEF Twice
    <2>. QED  BY <2>1, <2>2
  <1>4. TypeOK'
    BY <1>2, <1>3 DEF Typed, TypeOK, RecordTyped
  <1>5. Arrays'
    BY <1>2 DEF Arrays, RecordTyped
  <1>6. ThreadOK'
    BY <1>3 DEF Typed, ThreadOK, Splits
  <1>. QED  BY <1>4, <1>5, <1>6 DEF Typed

LEMMA LoseTyped ==
    ASSUME Typed, Lose
    PROVE  Typed'
  <1>1. /\ UNCHANGED <<sent, ids, msgid, thread, msgPart, got, bad>> /\ net' \subseteq net
        /\ spent' = [spent EXCEPT !.lost = spent.lost + 1] /\ spent.lost < MaxLost
    BY DEF Lose
  <1>2. spent' \in [lost : 0 .. MaxLost, twice : 0 .. MaxTwice]
    <2>1. spent \in [lost : 0 .. MaxLost, twice : 0 .. MaxTwice]
      BY DEF Typed, TypeOK
    <2>2. spent.lost + 1 \in 0 .. MaxLost
      BY <1>1, <2>1, SplitOK
    <2>. QED  BY <1>1, <2>1, <2>2
  <1>. QED  BY <1>1, <1>2 DEF Typed, TypeOK, ThreadOK, Arrays, Splits

LEMMA StepTyped == Typed /\ [Next]_vars => Typed'
  <1> SUFFICES ASSUME Typed, [Next]_vars PROVE Typed'
    OBVIOUS
  <1>1. CASE \E t \in Thread : Send(t) \/ Proceed(t)
    BY <1>1, SendWholeTyped, ReadIdTyped, WriteIdTyped, SendPartTyped DEF Send, Proceed
  <1>2. CASE Receive \/ Twice
    BY <1>2, ReceiveTyped
  <1>3. CASE Lose
    BY <1>3, LoseTyped
  <1>4. CASE UNCHANGED vars
    BY <1>4 DEF vars, Typed, TypeOK, ThreadOK, Arrays, Splits
  <1>. QED  BY <1>1, <1>2, <1>3, <1>4 DEF Next

THEOREM AlwaysTyped == Spec => []Typed
  BY InitTyped, StepTyped, PTL DEF Spec

\* The sender, the parts under way, the arrays and the messages put together
\* have the types splitmsg.cpp gives them.
THEOREM TypeCorrect == Spec => []TypeOK
  <1>1. Typed => TypeOK
    BY DEF Typed
  <1>. QED  BY AlwaysTyped, <1>1, PTL

-----------------------------------------------------------------------------
(* The buffer.                                                             *)

\* Headers and zeros of parts of 34 characters at least fit in the second
\* half of a buffer of twice the length.
LEMMA WrittenFits ==
    ASSUME NEW len \in Nat, NEW par \in Nat, len > par, par >= 34
    PROVE  Written(len, par) <= 2 * len
  <1>. DEFINE c == Count(len, par)
  <1>1. c \in Nat /\ c >= 1 /\ par * c <= len + par - 1
    BY CountType
  <1>. HIDE DEF c
  <1>2. PICK k \in Nat : c = k + 1
    <2>1. c - 1 \in Nat /\ c = (c - 1) + 1
      BY <1>1
    <2>. QED  BY <2>1
  <1>3. par * c = par * k + par
    BY <1>2
  <1>4. 34 * k <= par * k
    <2>1. PICK d \in Nat : par = 34 + d
      <3>1. par - 34 \in Nat /\ par = 34 + (par - 34)
        OBVIOUS
      <3>. QED  BY <3>1
    <2>2. par * k = 34 * k + d * k /\ d * k \in Nat
      BY <2>1
    <2>. QED  BY <2>2
  <1>5. par * k \in Nat /\ 34 * k <= len - 1
    BY <1>1, <1>3, <1>4
  <1>6. Written(len, par) = len + c * 17 + 1
    BY <1>1 DEF Written, LEN_SECP, c
  <1>. QED  BY <1>2, <1>5, <1>6

\* splitMsg stays within the buffer it made of twice the message's length, for
\* every message, if no part is shorter than 34 characters (the size of the
\* parts comes from the database without a lower bound).
THEOREM BufferIsEnough ==
    ASSUME PartsLongEnough
    PROVE  Spec => []BufferHolds
  <1>1. Typed => BufferHolds
    <2> SUFFICES ASSUME Typed, NEW t \in Thread, thread[t].pc # "idle"
                 PROVE  Written(thread[t].len, thread[t].par) <= 2 * thread[t].len
      BY DEF BufferHolds
    <2>1. Splits(thread[t])
      BY DEF Typed, ThreadOK
    <2>. QED  BY <2>1, WrittenFits, SplitOK DEF Splits, PartsLongEnough
  <1>. QED  BY AlwaysTyped, <1>1, PTL

-----------------------------------------------------------------------------
(* What arrives is what was sent.                                          *)

\* The array of id i holds part k of message m.
Has(i, k, m) == i \in DOMAIN msgPart /\ k \in DOMAIN msgPart[i] /\ msgPart[i][k] = <<m, k>>

\* What the arrival of a numbered part does: the array of its id gets that part
\* and no other, or, when the array has all the others, it goes and the whole
\* message is delivered.
LEMMA PartArrives ==
    ASSUME Typed, Delivery, NEW p \in net, p.split, Recv(p), NEW m, m = p.text[1]
    PROVE  /\ bad' = FALSE
           /\ m \in DOMAIN sent /\ sent[m] \in Nat /\ p.num \in 0 .. sent[m] - 1
           /\ p.id <= msgid
           /\ \A i \in DOMAIN msgPart' : i # p.id => /\ i \in DOMAIN msgPart
                                                    /\ msgPart'[i] = msgPart[i]
           /\ \/ /\ got' = got
                 /\ p.id \in DOMAIN msgPart' /\ Holds(p.id, msgPart'[p.id], m)
                 /\ \A k : Has(p.id, k, m)' => k = p.num \/ Has(p.id, k, m)
              \/ /\ got' = Append(got, Whole(m)) /\ Whole(m) \in Seq(Text)
                 /\ p.id \notin DOMAIN msgPart'
                 /\ \A k \in 0 .. sent[m] - 1 : k = p.num \/ Has(p.id, k, m)
  <1>1. /\ p \in Part /\ sent \in Seq(Nat) /\ bad = FALSE
        /\ p.text \in Text /\ p.text = <<m, p.text[2]>> /\ m \in 1 .. MaxMsg
    <2>1. p \in Part
      BY DEF Typed, TypeOK
    <2>2. p.text \in Text
      BY <2>1 DEF Part
    <2>. QED  BY SMTT(30), <2>1, <2>2 DEF Typed, TypeOK, Delivery, NeverOutside, Text
  <1>2. PartOK(p) /\ m \in DOMAIN sent /\ sent[m] \in Nat
    BY <1>1 DEF Delivery, NetOK, PartOK
  <1>. DEFINE old == Record(p.id, p.all)
              r == [old EXCEPT ![p.num] = p.text]
              whole == [k \in 1 .. p.all |-> r[k - 1]]
  <1>3. /\ p.num = p.text[2] /\ p.all = sent[m] /\ p.num < p.all /\ p.id <= msgid
        /\ p.num \in Nat /\ p.all \in Nat
    BY <1>1, <1>2 DEF PartOK, Part
  <1>4. Combine(p)
    BY DEF Recv
  <1>5. Holds(p.id, old, m)
    <2>1. CASE p.id \in DOMAIN msgPart
      <3>1. PICK n \in DOMAIN sent : Holds(p.id, msgPart[p.id], n)
        BY <2>1 DEF Delivery, RecordsOK, RecordsIn
      <3>2. n = m
        BY <3>1 DEF Holds, Agree
      <3>. QED  BY <2>1, <3>1, <3>2 DEF Record
    <2>2. CASE p.id \notin DOMAIN msgPart
      <3>1. old = [i \in 0 .. sent[m] - 1 |-> Nil]
        BY <1>3, <2>2 DEF Record
      <3>2. Agree(p.id, m)
        BY DEF Delivery, SameMessage
      <3>3. ASSUME NEW t \in Thread, thread[t].pc = "parts", thread[t].id = p.id
            PROVE  thread[t].msg = m
        BY <3>3 DEF Delivery, CounterOK, Agree
      <3>. QED  BY <3>1, <3>2, <3>3 DEF Holds
    <2>. QED  BY <2>1, <2>2
  <1>6. ASSUME NEW k \in 0 .. p.all - 1, old[k] # Nil
        PROVE  Has(p.id, k, m)
    <2>1. p.id \in DOMAIN msgPart
      BY <1>6 DEF Record
    <2>. QED  BY <1>3, <1>5, <1>6, <2>1 DEF Has, Holds, Record
  <1>. HIDE DEF old
  <1>7. /\ DOMAIN r = 0 .. p.all - 1 /\ DOMAIN old = 0 .. p.all - 1
        /\ \A k \in DOMAIN r : r[k] \in {Nil, <<m, k>>}
        /\ \A k \in DOMAIN r : k # p.num => r[k] = old[k]
    BY <1>1, <1>3, <1>5 DEF Holds
  <1>8. ~Outside(old, p)
    BY <1>3, <1>7 DEF Outside
  <1>9. Holds(p.id, r, m)
    <2>. HIDE DEF r
    <2>. QED  BY <1>3, <1>5, <1>7 DEF Holds
  <1>n. \A k : <<m, k>> # Nil \/ k \notin 0 .. p.all - 1
    BY <1>1, <1>3, SplitOK
  <1>10. CASE /\ Complete(r, p) /\ bad' = bad
              /\ got' = Append(got, whole)
              /\ msgPart' = Without(p.id)
    <2>. HIDE DEF r
    <2>1. \A k \in 0 .. p.all - 1 : r[k] # Nil
      BY <1>10 DEF Complete
    <2>2. \A k \in 1 .. p.all : r[k - 1] = <<m, k - 1>> /\ r[k - 1] \in Text
      <3> SUFFICES ASSUME NEW k \in 1 .. p.all
                   PROVE  r[k - 1] = <<m, k - 1>> /\ r[k - 1] \in Text
        OBVIOUS
      <3>1. k - 1 \in 0 .. p.all - 1 /\ k - 1 \in Nat
        BY <1>3
      <3>. QED  BY <1>1, <1>7, <2>1, <3>1 DEF Text
    <2>3. whole = Whole(m)
      BY <1>3, <2>2 DEF Whole
    <2>4. whole \in Seq(Text)
      BY <1>3, <2>2, SeqDef
    <2>5. \A k \in 0 .. p.all - 1 : k = p.num \/ Has(p.id, k, m)
      BY <1>6, <1>7, <2>1
    <2>6. DOMAIN msgPart' = DOMAIN msgPart \ {p.id}
          /\ \A i \in DOMAIN msgPart' : msgPart'[i] = msgPart[i]
      <3>. HIDE DEF whole
      <3>. QED  BY <1>10, WithoutRecord
    <2>. QED
      <3>. HIDE DEF whole
      <3>. QED  BY <1>1, <1>2, <1>3, <1>10, <2>3, <2>4, <2>5, <2>6
  <1>11. CASE /\ ~Complete(r, p) /\ bad' = bad
              /\ got' = got /\ msgPart' = With(p.id, r)
    <2>. HIDE DEF r, whole
    <2>1. /\ DOMAIN msgPart' = DOMAIN msgPart \cup {p.id} /\ msgPart'[p.id] = r
          /\ \A i \in DOMAIN msgPart : i # p.id => msgPart'[i] = msgPart[i]
      <3>1. /\ DOMAIN With(p.id, r) = DOMAIN msgPart \cup {p.id} /\ With(p.id, r)[p.id] = r
            /\ \A i \in DOMAIN msgPart : i # p.id => With(p.id, r)[i] = msgPart[i]
        BY DEF With
      <3>. QED  BY <1>11, <3>1
    <2>2. ASSUME NEW k, Has(p.id, k, m)', k # p.num
          PROVE  Has(p.id, k, m)
      <3>1. k \in DOMAIN r /\ r[k] = <<m, k>>
        BY <2>1, <2>2 DEF Has
      <3>. QED  BY <1>6, <1>7, <1>n, <2>2, <3>1
    <2>. QED  BY <1>1, <1>2, <1>3, <1>9, <1>11, <2>1, <2>2
  <1>. QED
    <2>. HIDE DEF r
    <2>. QED  BY <1>4, <1>8, <1>10, <1>11, CombineCases DEF old, r

\* A message that fits in one part is delivered as it comes.
LEMMA MessageArrives ==
    ASSUME Typed, Delivery, NEW p \in net, ~p.split, Recv(p), NEW m, m = p.text[1]
    PROVE  /\ UNCHANGED <<msgPart, bad>>
           /\ m \in DOMAIN sent /\ sent[m] = 1
           /\ got' = Append(got, Whole(m)) /\ Whole(m) \in Seq(Text)
  <1>1. p \in Part /\ p.text \in Text
    <2>1. p \in Part
      BY DEF Typed, TypeOK
    <2>. QED  BY <2>1 DEF Part
  <1>2. got' = Append(got, <<p.text>>) /\ UNCHANGED <<msgPart, bad>>
    BY DEF Recv
  <1>3. p.text = <<m, 0>> /\ m \in DOMAIN sent /\ sent[m] = 1
    BY <1>1 DEF Delivery, NetOK, PartOK, Text
  <1>4. Whole(m) = [k \in 1 .. 1 |-> <<m, k - 1>>]
    BY <1>3 DEF Whole
  <1>5. <<p.text>> = [k \in 1 .. 1 |-> <<m, k - 1>>]
    BY <1>3
  <1>6. <<p.text>> \in Seq(Text) /\ <<p.text>> = Whole(m)
    BY <1>1, <1>4, <1>5
  <1>. QED  BY <1>2, <1>3, <1>6

\* No part leaves its array, and what is put together is a whole message.
LEMMA RecvDelivers ==
    ASSUME Typed, Delivery, NEW p \in net, Recv(p)
    PROVE  /\ bad' = FALSE
           /\ RecordsIn(msgPart')
           /\ \A g \in Range(got') : \E m \in DOMAIN sent : g = Whole(m)
  <1>. DEFINE m == p.text[1]
  <1>1. p \in Part /\ got \in Seq(Seq(Text)) /\ bad = FALSE
    BY DEF Typed, TypeOK, Delivery, NeverOutside
  <1>2. ASSUME m \in DOMAIN sent, Whole(m) \in Seq(Text), got' = Append(got, Whole(m))
        PROVE  \A h \in Range(got') : \E n \in DOMAIN sent : h = Whole(n)
    <2>1. Range(got') = Range(got) \cup {Whole(m)}
      BY <1>1, <1>2, AppendRange
    <2>. QED  BY <1>2, <2>1 DEF Delivery, DeliversSent
  <1>3. CASE ~p.split
    BY <1>1, <1>2, <1>3, MessageArrives DEF Delivery, RecordsOK
  <1>4. CASE p.split
    <2>1. /\ bad' = FALSE /\ m \in DOMAIN sent /\ p.id <= msgid
          /\ \A i \in DOMAIN msgPart' : i # p.id => /\ i \in DOMAIN msgPart
                                                   /\ msgPart'[i] = msgPart[i]
          /\ p.id \in DOMAIN msgPart' => Holds(p.id, msgPart'[p.id], m)
          /\ got' = got \/ (got' = Append(got, Whole(m)) /\ Whole(m) \in Seq(Text))
      BY <1>4, PartArrives
    <2>2. RecordsIn(msgPart')
      BY <2>1 DEF Delivery, RecordsOK, RecordsIn
    <2>. QED  BY <1>2, <2>1, <2>2 DEF Delivery, DeliversSent
  <1>5. p.split \in BOOLEAN
    BY <1>1 DEF Part
  <1>. QED  BY <1>3, <1>4, <1>5

LEMMA ReceiveDelivers ==
    ASSUME Typed, Delivery, Receive \/ Twice
    PROVE  Delivery'
  <1>1. PICK p \in net : Recv(p)
    BY DEF Receive, Twice
  <1>2. /\ bad' = FALSE
        /\ RecordsIn(msgPart')
        /\ \A g \in Range(got') : \E m \in DOMAIN sent : g = Whole(m)
    BY <1>1, RecvDelivers
  <1>3. /\ UNCHANGED <<sent, ids, msgid, thread>> /\ net' \subseteq net
    BY DEF Receive, Twice
  <1>4. NetOK' /\ SameMessage' /\ CounterOK'
    BY <1>3 DEF Delivery, NetOK, PartOK, SameMessage, CounterOK, Agree
  <1>5. RecordsOK'
    BY <1>2, <1>3 DEF RecordsOK, RecordsIn, Holds, Agree
  <1>6. DeliversSent' /\ NeverOutside'
    BY <1>2, <1>3 DEF DeliversSent, NeverOutside, Whole
  <1>. QED  BY <1>4, <1>5, <1>6 DEF Delivery

LEMMA LoseDelivers ==
    ASSUME Delivery, Lose
    PROVE  Delivery'
  <1>1. /\ UNCHANGED <<sent, ids, msgid, thread, msgPart, got, bad>> /\ net' \subseteq net
    BY DEF Lose
  <1>. QED
    BY <1>1 DEF Delivery, NetOK, PartOK, SameMessage, CounterOK, Agree, RecordsOK, RecordsIn,
                Holds, DeliversSent, NeverOutside, Whole

\* A new message changes nothing for the ones before it.
LEMMA AppendDelivers ==
    ASSUME Typed, Delivery, Len(sent) < MaxMsg, NEW n \in Nat, sent' = Append(sent, n),
           UNCHANGED <<msgid, msgPart, got, bad>>,
           \A p \in net' : p \in net \/ (~p.split /\ PartOK(p)'),
           \A t \in Thread : thread'[t].pc = "parts" => thread'[t] = thread[t]
    PROVE  /\ NetOK' /\ SameMessage' /\ RecordsOK' /\ DeliversSent' /\ NeverOutside'
           /\ msgid <= Len(sent) /\ Len(sent) \in Nat /\ Len(sent') = Len(sent) + 1
           /\ \A i, m : Agree(i, m) => Agree(i, m)'
  <1>1. /\ \A m \in DOMAIN sent : m \in DOMAIN sent' /\ sent'[m] = sent[m]
        /\ Len(sent') = Len(sent) + 1 /\ Len(sent) \in Nat
    BY AppendCount, LenProperties DEF Typed, TypeOK
  <1>2. ASSUME NEW i, NEW m, Agree(i, m) PROVE Agree(i, m)'
    BY <1>2 DEF Agree
  <1>3. NetOK'
    BY <1>1 DEF Delivery, NetOK, PartOK
  <1>4. SameMessage'
    BY DEF Delivery, SameMessage, Agree
  <1>5. RecordsOK'
    <2> SUFFICES ASSUME NEW i \in DOMAIN msgPart
                 PROVE  i <= msgid /\ \E m \in DOMAIN sent' : Holds(i, msgPart[i], m)'
      BY DEF RecordsOK, RecordsIn, Holds
    <2>1. i <= msgid
      BY DEF Delivery, RecordsOK, RecordsIn
    <2>2. PICK m \in DOMAIN sent : Holds(i, msgPart[i], m)
      BY DEF Delivery, RecordsOK, RecordsIn
    <2>3. Holds(i, msgPart[i], m)'
      <3>1. Agree(i, m)'
        BY <1>2, <2>2 DEF Holds
      <3>. QED  BY <1>1, <2>2, <3>1 DEF Holds
    <2>. QED  BY <1>1, <2>1, <2>3
  <1>6. DeliversSent' /\ NeverOutside'
    <2>1. \A m \in DOMAIN sent : Whole(m)' = Whole(m)
      BY <1>1 DEF Whole
    <2>. QED  BY <1>1, <2>1 DEF Delivery, DeliversSent, NeverOutside
  <1>. QED  BY <1>1, <1>2, <1>3, <1>4, <1>5, <1>6 DEF Delivery, CounterOK

LEMMA SendWholeDelivers ==
    ASSUME Typed, Delivery, NEW t \in Thread, SendWhole(t)
    PROVE  Delivery'
  <1>0. PICK q : q = [split |-> FALSE, text |-> <<Len(sent) + 1, 0>>]
    OBVIOUS
  <1>1. /\ sent' = Append(sent, 1) /\ Len(sent) < MaxMsg /\ net' = net \cup {q}
        /\ UNCHANGED <<msgid, thread, msgPart, got, bad, spent>>
    BY <1>0 DEF SendWhole
  <1>2. Len(sent) + 1 \in DOMAIN sent' /\ sent'[Len(sent) + 1] = 1
    BY <1>1, AppendCount DEF Typed
  <1>3. ~q.split /\ PartOK(q)'
    <2>1. q.split = FALSE /\ q.text[1] = Len(sent) + 1 /\ q.text[2] = 0
      BY <1>0
    <2>. QED  BY <1>2, <2>1 DEF PartOK
  <1>4. \A p \in net' : p \in net \/ (~p.split /\ PartOK(p)')
    BY <1>1, <1>3
  <1>5. /\ NetOK' /\ SameMessage' /\ RecordsOK' /\ DeliversSent' /\ NeverOutside'
        /\ msgid <= Len(sent) /\ Len(sent) \in Nat /\ Len(sent') = Len(sent) + 1
        /\ \A i, m : Agree(i, m) => Agree(i, m)'
    BY <1>1, <1>4, AppendDelivers
  <1>6. CounterOK'
    <2>1. msgid \in Nat
      BY SplitOK DEF Typed, TypeOK, Ids
    <2>2. msgid' <= Len(sent')
      BY <1>1, <1>5, <2>1
    <2>3. CounterOK /\ thread' = thread /\ msgid' = msgid
      BY <1>1 DEF Delivery
    <2>4. ASSUME NEW u \in Thread, thread[u].pc = "id"
          PROVE  thread[u].id = msgid + 1 /\ msgid < Len(sent')
      BY <1>5, <2>1, <2>3, <2>4 DEF CounterOK
    <2>5. ASSUME NEW u \in Thread, thread[u].pc = "parts"
          PROVE  thread[u].id <= msgid /\ Agree(thread[u].id, thread[u].msg)
      BY <2>3, <2>5 DEF CounterOK
    <2>6. \A p \in net' : p.split => p \in net
      BY <1>1, <1>3
    <2>. QED  BY <2>2, <2>3, <2>4, <2>5, <2>6 DEF CounterOK, Agree
  <1>. QED  BY <1>5, <1>6 DEF Delivery

\* The id of a new message is above all the others.
LEMMA ReadIdDelivers ==
    ASSUME SendsAlone, IdsLast, Typed, Delivery, NEW t \in Thread, ReadId(t)
    PROVE  Delivery'
  <1>1. PICK len \in Lengths, par \in Pars :
        /\ par # 0 /\ len > par
        /\ sent' = Append(sent, Count(len, par))
        /\ ids' = Append(ids, NextId)
        /\ thread' = [thread EXCEPT ![t] =
                        [pc |-> "id", msg |-> Len(sent) + 1, len |-> len, par |-> par,
                         id |-> NextId, num |-> 0]]
    BY DEF ReadId
  <1>2. /\ Len(sent) < MaxMsg /\ thread[t].pc = "idle"
        /\ UNCHANGED <<msgid, net, msgPart, got, bad, spent>>
    BY DEF ReadId
  <1>3. Count(len, par) \in Nat
    BY <1>1, CountType, SplitOK
  <1>4. thread'[t].pc = "id" /\ thread'[t].id = NextId /\ \A u \in Thread : u = t
    BY <1>1 DEF Typed, TypeOK, SendsAlone
  <1>5. /\ NetOK' /\ SameMessage' /\ RecordsOK' /\ DeliversSent' /\ NeverOutside'
        /\ msgid <= Len(sent) /\ Len(sent) \in Nat /\ Len(sent') = Len(sent) + 1
    <2>1. \A u \in Thread : thread'[u].pc # "parts"
      BY <1>4
    <2>. QED  BY <1>1, <1>2, <1>3, <2>1, AppendDelivers
  <1>6. NextId = msgid + 1
    <2>1. msgid \in Nat /\ msgid + 1 < IdSpace /\ IdSpace \in Nat
      BY <1>2, <1>5, SplitOK DEF Typed, TypeOK, Ids, IdsLast
    <2>. QED  BY <2>1 DEF NextId
  <1>7. CounterOK'
    <2>1. msgid \in Nat
      BY SplitOK DEF Typed, TypeOK, Ids
    <2>. QED  BY <1>2, <1>4, <1>5, <1>6, <2>1 DEF CounterOK
  <1>. QED  BY <1>5, <1>7 DEF Delivery

LEMMA WriteIdDelivers ==
    ASSUME SendsAlone, Typed, Delivery, NEW t \in Thread, WriteId(t)
    PROVE  Delivery'
  <1>1. /\ thread[t].pc = "id" /\ msgid' = thread[t].id
        /\ thread' = [thread EXCEPT ![t].pc = "parts"]
        /\ UNCHANGED <<sent, ids, net, msgPart, got, bad, spent>>
    BY DEF WriteId
  <1>2. msgid' = msgid + 1 /\ msgid < Len(sent) /\ msgid \in Nat /\ Len(sent) \in Nat
    <2>1. msgid \in Nat /\ Len(sent) \in Nat
      BY SplitOK, LenProperties DEF Typed, TypeOK, Ids
    <2>. QED  BY <1>1, <2>1 DEF Delivery, CounterOK
  <1>3. /\ thread'[t].pc = "parts" /\ thread'[t].id = msgid + 1
        /\ \A u \in Thread : u = t
    BY <1>1, <1>2 DEF Typed, TypeOK, SendsAlone, Place
  <1>4. \A p \in net : p.split => p.id \in Nat /\ p.id <= msgid
    <2> SUFFICES ASSUME NEW p \in net, p.split PROVE p.id \in Nat /\ p.id <= msgid
      OBVIOUS
    <2>1. p \in Part
      BY DEF Typed, TypeOK
    <2>2. p.id \in Ids
      BY <2>1 DEF Part
    <2>. QED  BY <2>2, SplitOK DEF Ids, Delivery, NetOK, PartOK
  <1>5. NetOK' /\ SameMessage'
    BY <1>1, <1>2, <1>4 DEF Delivery, NetOK, PartOK, SameMessage, Agree
  <1>6. CounterOK'
    BY <1>1, <1>2, <1>3, <1>4 DEF CounterOK, Agree
  <1>7. RecordsOK'
    <2> SUFFICES ASSUME NEW i \in DOMAIN msgPart
                 PROVE  i <= msgid' /\ \E m \in DOMAIN sent : Holds(i, msgPart[i], m)'
      BY <1>1 DEF RecordsOK, RecordsIn, Holds
    <2>1. PICK m \in DOMAIN sent : Holds(i, msgPart[i], m)
      BY DEF Delivery, RecordsOK, RecordsIn
    <2>2. i <= msgid /\ i \in Nat
      BY SplitOK DEF Delivery, RecordsOK, RecordsIn, Typed, TypeOK, Ids
    <2>3. Holds(i, msgPart[i], m)'
      <3>1. Agree(i, m)'
        BY <1>1, <2>1 DEF Holds, Agree
      <3>2. \A u \in Thread : thread'[u].id # i
        BY <1>2, <1>3, <2>2
      <3>. QED  BY <1>1, <2>1, <3>1, <3>2 DEF Holds
    <2>. QED  BY <1>2, <2>2, <2>3
  <1>8. DeliversSent' /\ NeverOutside'
    BY <1>1 DEF Delivery, DeliversSent, NeverOutside, Whole
  <1>. QED  BY <1>5, <1>6, <1>7, <1>8 DEF Delivery

LEMMA SendPartDelivers ==
    ASSUME SendsAlone, PartsNumbered, Typed, Delivery, NEW t \in Thread, SendPart(t)
    PROVE  Delivery'
  <1>0. PICK s : s = thread[t]
    OBVIOUS
  <1>1. PICK q : q = [split |-> TRUE, id |-> s.id,
                      num |-> Header(s.num, Count(s.len, s.par)).num,
                      all |-> Header(s.num, Count(s.len, s.par)).all,
                      text |-> <<s.msg, s.num>>]
    OBVIOUS
  <1>2. /\ s.pc = "parts"
        /\ net' = net \cup {q}
        /\ thread' = [thread EXCEPT ![t] =
                            IF HasMore(s) THEN [s EXCEPT !.num = s.num + 1] ELSE Idle]
        /\ UNCHANGED <<sent, ids, msgid, msgPart, got, bad, spent>>
    BY <1>0, <1>1 DEF SendPart
  <1>3. /\ s \in Place /\ Splits(s) /\ s.msg \in DOMAIN sent
        /\ sent[s.msg] = Count(s.len, s.par) /\ s.num < sent[s.msg]
    BY <1>0, <1>2 DEF Typed, TypeOK, ThreadOK
  <1>4. /\ s.num \in Nat /\ Count(s.len, s.par) \in Nat
        /\ Count(s.len, s.par) < Base * Base
    BY <1>3, CountType, SplitOK DEF Place, Splits, PartsNumbered
  <1>5. /\ q.split /\ q.id = s.id /\ q.num = s.num /\ q.all = sent[s.msg]
        /\ q.text = <<s.msg, s.num>> /\ q.text[1] = s.msg /\ q.text[2] = s.num
    <2>1. s.num < Base * Base
      BY <1>3, <1>4, SplitOK
    <2>2. /\ Header(s.num, Count(s.len, s.par)).num = s.num
          /\ Header(s.num, Count(s.len, s.par)).all = sent[s.msg]
      BY <1>3, <1>4, <2>1, HeaderExact
    <2>. QED  BY <1>1, <2>2
  <1>6. s.id <= msgid /\ Agree(s.id, s.msg)
    BY <1>0, <1>2 DEF Delivery, CounterOK
  <1>7. /\ \A u \in Thread : u = t
        /\ thread'[t].pc # "id"
        /\ thread'[t].pc = "parts" => thread'[t].id = s.id /\ thread'[t].msg = s.msg
    <2>1. thread'[t] = IF HasMore(s) THEN [s EXCEPT !.num = s.num + 1] ELSE Idle
      BY <1>2 DEF Typed, TypeOK
    <2>2. SendsAlone
      OBVIOUS
    <2>. QED  BY <1>2, <1>3, <2>1, <2>2 DEF SendsAlone, Idle, Place
  <1>8. \A i, m : Agree(i, m) /\ (i = s.id => m = s.msg) => Agree(i, m)'
    BY <1>2, <1>5 DEF Agree
  <1>9. NetOK'
    BY <1>2, <1>3, <1>5, <1>6 DEF Delivery, NetOK, PartOK
  <1>10. SameMessage'
    <2> SUFFICES ASSUME NEW p \in net', p.split
                 PROVE  Agree(p.id, p.text[1])'
      BY DEF SameMessage
    <2>1. CASE p \in net
      <3>1. Agree(p.id, p.text[1])
        BY <2>1 DEF Delivery, SameMessage
      <3>2. p.id = s.id => p.text[1] = s.msg
        BY <1>6, <2>1 DEF Agree
      <3>. QED  BY <1>8, <3>1, <3>2
    <2>2. CASE p = q
      BY <1>5, <1>6, <1>8, <2>2
    <2>. QED  BY <1>2, <2>1, <2>2
  <1>11. CounterOK'
    <2>1. Agree(s.id, s.msg)'
      BY <1>6, <1>8
    <2>. QED  BY <1>2, <1>6, <1>7, <2>1 DEF Delivery, CounterOK
  <1>12. RecordsOK'
    <2> SUFFICES ASSUME NEW i \in DOMAIN msgPart
                 PROVE  i <= msgid /\ \E m \in DOMAIN sent : Holds(i, msgPart[i], m)'
      BY <1>2 DEF RecordsOK, RecordsIn, Holds
    <2>1. PICK m \in DOMAIN sent : Holds(i, msgPart[i], m)
      BY DEF Delivery, RecordsOK, RecordsIn
    <2>2. i = s.id => m = s.msg
      BY <1>0, <1>2, <2>1 DEF Holds
    <2>3. Agree(i, m)'
      BY <1>8, <2>1, <2>2 DEF Holds
    <2>4. Holds(i, msgPart[i], m)'
      BY <1>2, <1>7, <2>1, <2>2, <2>3 DEF Holds
    <2>. QED  BY <2>4 DEF Delivery, RecordsOK, RecordsIn
  <1>13. DeliversSent' /\ NeverOutside'
    BY <1>2 DEF Delivery, DeliversSent, NeverOutside, Whole
  <1>. QED  BY <1>9, <1>10, <1>11, <1>12, <1>13 DEF Delivery

LEMMA InitDelivers == Init => Delivery
  <1> SUFFICES ASSUME Init PROVE Delivery
    OBVIOUS
  <1>1. Range(got) = {} /\ DOMAIN msgPart = {} /\ net = {} /\ Len(sent) = 0 /\ msgid = 0
    BY DEF Init, Range
  <1>2. \A t \in Thread : thread[t].pc = "idle"
    BY DEF Init, Idle
  <1>. QED
    BY <1>1, <1>2 DEF Init, Delivery, NetOK, SameMessage, CounterOK, RecordsOK, RecordsIn,
                      DeliversSent, NeverOutside

LEMMA StepDelivers ==
    ASSUME SendsAlone, IdsLast, PartsNumbered
    PROVE  Typed /\ Delivery /\ [Next]_vars => Delivery'
  <1> SUFFICES ASSUME Typed, Delivery, [Next]_vars PROVE Delivery'
    OBVIOUS
  <1>1. CASE \E t \in Thread : Send(t) \/ Proceed(t)
    BY <1>1, SendWholeDelivers, ReadIdDelivers, WriteIdDelivers, SendPartDelivers
       DEF Send, Proceed
  <1>2. CASE Receive \/ Twice
    BY <1>2, ReceiveDelivers
  <1>3. CASE Lose
    BY <1>3, LoseDelivers
  <1>4. CASE UNCHANGED vars
    BY <1>4 DEF vars, Delivery, NetOK, PartOK, SameMessage, CounterOK, Agree, RecordsOK,
                RecordsIn, Holds, DeliversSent, NeverOutside, Whole
  <1>. QED  BY <1>1, <1>2, <1>3, <1>4 DEF Next

LEMMA AlwaysDelivers ==
    ASSUME SendsAlone, IdsLast, PartsNumbered
    PROVE  Spec => []Delivery
  <1>1. Typed /\ Delivery /\ [Next]_vars => Delivery'
    BY StepDelivers
  <1>. QED  BY AlwaysTyped, InitDelivers, <1>1, PTL DEF Spec

\* If one thread sends to the contact, the message ids do not wrap, and two
\* digits can number the parts, then whatever combineMessage puts together is
\* a message that was sent, whole and in order, however the parts are lost,
\* repeated and delayed.
THEOREM WholeMessagesArrive ==
    ASSUME SendsAlone, IdsLast, PartsNumbered
    PROVE  Spec => []DeliversSent
  <1>1. Delivery => DeliversSent
    BY DEF Delivery
  <1>. QED  BY AlwaysDelivers, <1>1, PTL

-----------------------------------------------------------------------------
(* Any number of threads, and ids that come round.                         *)

Numbered == \A m \in DOMAIN sent : sent[m] < Base * Base

\* A part carries the id of its message, its number and how many there are.
From(p) ==
    /\ p.text[1] \in DOMAIN sent
    /\ p.split => /\ p.num = p.text[2]
                  /\ p.all = sent[p.text[1]]
                  /\ p.num < p.all
                  /\ p.id = ids[p.text[1]]
    /\ ~p.split => p.text[2] = 0 /\ sent[p.text[1]] = 1
NetFrom == \A p \in net : From(p)
ThreadFrom == \A t \in Thread : thread[t].pc # "idle" => thread[t].id = ids[thread[t].msg]

\* The array of an id is as long as one message of that id, and holds parts of
\* messages of that id, each in its place.
OfId(i, r) ==
    /\ \E m \in DOMAIN sent : ids[m] = i /\ DOMAIN r = 0 .. sent[m] - 1
    /\ \A k \in DOMAIN r : r[k] = Nil \/ \E n \in DOMAIN sent : ids[n] = i /\ r[k] = <<n, k>>
RecordsFrom == \A i \in DOMAIN msgPart : OfId(i, msgPart[i])

SizesDiffer == \E m, n \in DOMAIN sent : SharedId(m, n) /\ sent[m] # sent[n]

Mixing == NetFrom /\ ThreadFrom /\ RecordsFrom /\ DeliversWhole /\ (bad => SizesDiffer)

\* What was sent stays as it is.
Grown ==
    /\ DOMAIN ids = DOMAIN sent /\ DOMAIN ids' = DOMAIN sent'
    /\ \A m \in DOMAIN sent : m \in DOMAIN sent' /\ sent'[m] = sent[m] /\ ids'[m] = ids[m]

LEMMA IdsOfSent ==
    ASSUME Typed
    PROVE  DOMAIN ids = DOMAIN sent /\ DOMAIN sent \subseteq 1 .. MaxMsg
           /\ \A m \in DOMAIN sent : sent[m] \in Nat
  <1>1. /\ ids \in Seq(0 .. IdSpace) /\ sent \in Seq(Nat) /\ Len(ids) = Len(sent)
        /\ Len(sent) <= MaxMsg /\ MaxMsg \in Nat
    BY SplitOK DEF Typed, TypeOK
  <1>2. DOMAIN sent = 1 .. Len(sent) /\ DOMAIN ids = 1 .. Len(sent) /\ Len(sent) \in Nat
    BY <1>1, LenProperties
  <1>. QED  BY <1>1, <1>2

LEMMA SameGrown ==
    ASSUME Typed, UNCHANGED <<sent, ids>>
    PROVE  Grown
  BY IdsOfSent DEF Grown

LEMMA AppendGrown ==
    ASSUME Typed, Len(sent) < MaxMsg, NEW n \in Nat, sent' = Append(sent, n),
           NEW i \in 0 .. IdSpace, ids' = Append(ids, i)
    PROVE  /\ Grown
           /\ Len(sent) + 1 \in DOMAIN sent' /\ sent'[Len(sent) + 1] = n
           /\ ids'[Len(sent) + 1] = i
  BY AppendCount, AppendId DEF Typed, Grown

\* A step of the senders or of the network.
LEMMA MixingKept ==
    ASSUME Mixing, Grown, UNCHANGED <<msgPart, got, bad>>,
           \A p \in net' : p \in net \/ From(p)',
           \A t \in Thread : thread'[t].pc # "idle" => thread'[t].id = ids'[thread'[t].msg]
    PROVE  Mixing'
  <1>1. NetFrom'
    <2> SUFFICES ASSUME NEW p \in net PROVE From(p)'
      BY DEF NetFrom
    <2>1. From(p)
      BY DEF Mixing, NetFrom
    <2>. QED  BY <2>1 DEF From, Grown
  <1>2. ThreadFrom'
    BY DEF ThreadFrom
  <1>3. RecordsFrom'
    <2> SUFFICES ASSUME NEW i \in DOMAIN msgPart PROVE OfId(i, msgPart[i])'
      BY DEF RecordsFrom, OfId
    <2>1. OfId(i, msgPart[i])
      BY DEF Mixing, RecordsFrom
    <2>2. PICK m \in DOMAIN sent : ids[m] = i /\ DOMAIN msgPart[i] = 0 .. sent[m] - 1
      BY <2>1 DEF OfId
    <2>3. m \in DOMAIN sent' /\ ids'[m] = i /\ DOMAIN msgPart[i] = 0 .. sent'[m] - 1
      BY <2>2 DEF Grown
    <2>4. ASSUME NEW k \in DOMAIN msgPart[i], msgPart[i][k] # Nil
          PROVE  \E n \in DOMAIN sent' : ids'[n] = i /\ msgPart[i][k] = <<n, k>>
      BY <2>1, <2>4 DEF OfId, Grown
    <2>. QED  BY <2>3, <2>4 DEF OfId
  <1>4. \A m, n \in DOMAIN sent : SharedId(m, n) => SharedId(m, n)'
    BY DEF SharedId, Grown
  <1>5. DeliversWhole'
    <2> SUFFICES ASSUME NEW g \in Range(got)
                 PROVE  \E m \in DOMAIN sent' :
                            /\ Len(g) = sent'[m]
                            /\ \A k \in DOMAIN g : \E n \in DOMAIN sent' :
                                (n = m \/ SharedId(m, n)') /\ g[k] = <<n, k - 1>>
      BY DEF DeliversWhole
    <2>1. PICK m \in DOMAIN sent :
            /\ Len(g) = sent[m]
            /\ \A k \in DOMAIN g : \E n \in DOMAIN sent :
                (n = m \/ SharedId(m, n)) /\ g[k] = <<n, k - 1>>
      BY DEF Mixing, DeliversWhole
    <2>2. m \in DOMAIN sent' /\ Len(g) = sent'[m]
      BY <2>1 DEF Grown
    <2>3. ASSUME NEW k \in DOMAIN g
          PROVE  \E n \in DOMAIN sent' : (n = m \/ SharedId(m, n)') /\ g[k] = <<n, k - 1>>
      <3>1. PICK n \in DOMAIN sent : (n = m \/ SharedId(m, n)) /\ g[k] = <<n, k - 1>>
        BY <2>1
      <3>. QED  BY <1>4, <3>1 DEF Grown
    <2>. QED  BY <2>2, <2>3
  <1>6. SizesDiffer => SizesDiffer'
    <2> SUFFICES ASSUME SizesDiffer PROVE SizesDiffer'
      OBVIOUS
    <2>1. PICK m \in DOMAIN sent, n \in DOMAIN sent : SharedId(m, n) /\ sent[m] # sent[n]
      BY DEF SizesDiffer
    <2>2. /\ m \in DOMAIN sent' /\ n \in DOMAIN sent' /\ sent'[m] # sent'[n]
          /\ SharedId(m, n)'
      BY <1>4, <2>1 DEF Grown
    <2>. QED  BY <2>2 DEF SizesDiffer
  <1>. QED  BY <1>1, <1>2, <1>3, <1>5, <1>6 DEF Mixing

\* A part goes to its place in the array of its id.  It can lie outside only if
\* that array was made for a message of another number of parts.
LEMMA PartMixes ==
    ASSUME Typed, Mixing, NEW p \in net, p.split, Recv(p), UNCHANGED <<sent, ids>>
    PROVE  RecordsFrom' /\ DeliversWhole' /\ (bad' => SizesDiffer')
  <1>. DEFINE old == Record(p.id, p.all)
              r == [old EXCEPT ![p.num] = p.text]
              whole == [k \in 1 .. p.all |-> r[k - 1]]
  <1>1. PICK m : m = p.text[1]
    OBVIOUS
  <1>2. /\ p.text = <<m, p.num>> /\ p.num \in Nat /\ p.all \in Nat /\ p.id \in Ids
        /\ m \in DOMAIN sent /\ p.all = sent[m] /\ p.num < p.all /\ p.id = ids[m]
    <2>1. p \in Part
      BY DEF Typed, TypeOK
    <2>2. p.text \in Text /\ p.num \in Nat /\ p.all \in Nat /\ p.id \in Ids
      BY <2>1 DEF Part
    <2>3. p.text = <<m, p.text[2]>>
      BY <1>1, <2>2 DEF Text
    <2>4. /\ m \in DOMAIN sent /\ p.all = sent[m] /\ p.num < p.all /\ p.id = ids[m]
          /\ p.num = p.text[2]
      BY <1>1 DEF Mixing, NetFrom, From
    <2>. QED  BY <2>2, <2>3, <2>4
  <1>3. Combine(p)
    BY DEF Recv
  <1>n. DOMAIN ids = DOMAIN sent /\ DOMAIN sent \subseteq 1 .. MaxMsg
        /\ \A n \in DOMAIN sent : sent[n] \in Nat
    BY IdsOfSent
  <1>s. \A n \in DOMAIN sent : ids[n] = p.id => n = m \/ SharedId(m, n)
    <2>1. p.id # IdSpace
      BY <1>2, SplitOK DEF Ids
    <2>. QED  BY <1>2, <1>n, <2>1 DEF SharedId
  <1>4. OfId(p.id, old)
    <2>1. CASE p.id \in DOMAIN msgPart
      BY <2>1 DEF Mixing, RecordsFrom, Record
    <2>2. CASE p.id \notin DOMAIN msgPart
      <3>1. old = [i \in 0 .. sent[m] - 1 |-> Nil]
        BY <1>2, <2>2 DEF Record
      <3>2. DOMAIN old = 0 .. sent[m] - 1 /\ \A k \in DOMAIN old : old[k] = Nil
        BY <3>1
      <3>. HIDE DEF old
      <3>. QED  BY <1>2, <3>2 DEF OfId
    <2>. QED  BY <2>1, <2>2
  <1>. HIDE DEF old
  <1>5. PICK n \in DOMAIN sent : ids[n] = p.id /\ DOMAIN old = 0 .. sent[n] - 1
    BY <1>4 DEF OfId
  <1>6. /\ DOMAIN r = DOMAIN old
        /\ p.num \in DOMAIN old => r[p.num] = <<m, p.num>>
        /\ \A k \in DOMAIN old : k # p.num => r[k] = old[k]
    BY <1>2
  <1>. HIDE DEF r
  <1>7. OfId(p.id, r)
    <2>1. ASSUME NEW k \in DOMAIN r, r[k] # Nil
          PROVE  \E l \in DOMAIN sent : ids[l] = p.id /\ r[k] = <<l, k>>
      <3>1. CASE k = p.num
        BY <1>2, <1>6, <3>1
      <3>2. CASE k # p.num
        BY <1>4, <1>6, <2>1, <3>2 DEF OfId
      <3>. QED  BY <3>1, <3>2
    <2>. QED  BY <1>5, <1>6, <2>1 DEF OfId
  <1>8. CASE Outside(old, p) /\ bad' = TRUE /\ UNCHANGED <<msgPart, got>>
    <2>1. sent[n] # sent[m]
      <3> SUFFICES ASSUME sent[n] = sent[m] PROVE FALSE
        OBVIOUS
      <3>. QED  BY <1>2, <1>5, <1>8 DEF Outside
    <2>2. SharedId(m, n)
      BY <1>5, <1>s, <2>1
    <2>3. SizesDiffer
      BY <1>2, <1>5, <2>1, <2>2 DEF SizesDiffer
    <2>. QED  BY <1>8, <2>3 DEF Mixing, RecordsFrom, OfId, DeliversWhole, SizesDiffer, SharedId
  <1>9. CASE /\ ~Outside(old, p) /\ Complete(r, p) /\ bad' = bad
             /\ got' = Append(got, whole)
             /\ msgPart' = Without(p.id)
    <2>1. RecordsFrom'
      <3>1. DOMAIN msgPart' \subseteq DOMAIN msgPart
            /\ \A i \in DOMAIN msgPart' : msgPart'[i] = msgPart[i]
        <4>. HIDE DEF whole
        <4>. QED  BY <1>9, WithoutRecord
      <3>. QED  BY <3>1 DEF Mixing, RecordsFrom, OfId
    <2>2. \A k \in 0 .. p.all - 1 : k \in DOMAIN r /\ r[k] # Nil
      <3>1. CASE 0 .. p.all - 1 \subseteq DOMAIN old
        BY <1>6, <1>9, <3>1 DEF Complete
      <3>2. CASE \E i \in DOMAIN old : i # p.num /\ old[i] = Nil
        <4>1. PICK i \in DOMAIN old : i # p.num /\ old[i] = Nil
          BY <3>2
        <4>2. i \notin 0 .. p.all - 1
          BY <1>6, <1>9, <4>1 DEF Complete
        <4>3. 0 .. p.all - 1 \subseteq DOMAIN old
          BY <1>2, <1>5, <1>n, <4>1, <4>2
        <4>. QED  BY <3>1, <4>3
      <3>. QED  BY <1>9, <3>1, <3>2 DEF Outside
    <2>3. ASSUME NEW k \in 1 .. p.all
          PROVE  \E l \in DOMAIN sent : /\ l = m \/ SharedId(m, l)
                                        /\ r[k - 1] = <<l, k - 1>> /\ r[k - 1] \in Text
      <3>1. k - 1 \in 0 .. p.all - 1 /\ k - 1 \in Nat
        BY <1>2
      <3>2. PICK l \in DOMAIN sent : ids[l] = p.id /\ r[k - 1] = <<l, k - 1>>
        BY <1>7, <2>2, <3>1 DEF OfId
      <3>3. r[k - 1] \in Text
        BY <1>n, <3>1, <3>2 DEF Text
      <3>. QED  BY <1>s, <3>2, <3>3
    <2>4. whole \in Seq(Text) /\ Len(whole) = sent[m] /\ DOMAIN whole = 1 .. p.all
      <3>1. whole \in Seq(Text)
        BY <1>2, <2>3, SeqDef
      <3>2. DOMAIN whole = 1 .. p.all
        OBVIOUS
      <3>. HIDE DEF whole
      <3>. QED  BY <1>2, <3>1, <3>2, LenProperties
    <2>5. \A k \in DOMAIN whole : \E l \in DOMAIN sent :
            (l = m \/ SharedId(m, l)) /\ whole[k] = <<l, k - 1>>
      BY <2>3, <2>4
    <2>. HIDE DEF whole
    <2>6. Range(got') = Range(got) \cup {whole}
      BY <1>9, <2>4, AppendRange DEF Typed, TypeOK
    <2>7. \A g \in Range(got') : \E l \in DOMAIN sent :
            /\ Len(g) = sent[l]
            /\ \A k \in DOMAIN g : \E j \in DOMAIN sent :
                (j = l \/ SharedId(l, j)) /\ g[k] = <<j, k - 1>>
      BY <1>2, <2>4, <2>5, <2>6 DEF Mixing, DeliversWhole
    <2>. QED  BY <1>9, <2>1, <2>7 DEF Mixing, DeliversWhole, SizesDiffer, SharedId
  <1>10. CASE /\ ~Outside(old, p) /\ ~Complete(r, p) /\ bad' = bad
              /\ got' = got /\ msgPart' = With(p.id, r)
    <2>1. RecordsFrom'
      <3>1. /\ DOMAIN msgPart' = DOMAIN msgPart \cup {p.id} /\ msgPart'[p.id] = r
            /\ \A i \in DOMAIN msgPart : i # p.id => msgPart'[i] = msgPart[i]
        <4>1. /\ DOMAIN With(p.id, r) = DOMAIN msgPart \cup {p.id} /\ With(p.id, r)[p.id] = r
              /\ \A i \in DOMAIN msgPart : i # p.id => With(p.id, r)[i] = msgPart[i]
          BY DEF With
        <4>. QED  BY <1>10, <4>1
      <3>2. ASSUME NEW i \in DOMAIN msgPart' PROVE OfId(i, msgPart'[i])
        BY <1>7, <3>1 DEF Mixing, RecordsFrom
      <3>. QED  BY <3>2 DEF RecordsFrom, OfId
    <2>. QED  BY <1>10, <2>1 DEF Mixing, DeliversWhole, SizesDiffer, SharedId
  <1>. QED  BY <1>3, <1>8, <1>9, <1>10, CombineCases DEF old, r

LEMMA MessageMixes ==
    ASSUME Typed, Mixing, NEW p \in net, ~p.split, Recv(p), UNCHANGED <<sent, ids>>
    PROVE  RecordsFrom' /\ DeliversWhole' /\ (bad' => SizesDiffer')
  <1>1. PICK m : m = p.text[1]
    OBVIOUS
  <1>2. p.text = <<m, 0>> /\ p.text \in Text /\ m \in DOMAIN sent /\ sent[m] = 1
    <2>1. p \in Part
      BY DEF Typed, TypeOK
    <2>2. p.text \in Text
      BY <2>1 DEF Part
    <2>. QED  BY <1>1, <2>2 DEF Text, Mixing, NetFrom, From
  <1>3. got' = Append(got, <<p.text>>) /\ UNCHANGED <<msgPart, bad>>
    BY DEF Recv
  <1>4. PICK g : g = <<p.text>>
    OBVIOUS
  <1>5. g \in Seq(Text) /\ Len(g) = sent[m] /\ DOMAIN g = 1 .. 1 /\ g[1] = <<m, 0>>
    BY <1>2, <1>4
  <1>6. \A k \in DOMAIN g : g[k] = <<m, k - 1>>
    <2>1. ASSUME NEW k \in DOMAIN g PROVE k = 1
      BY <1>5
    <2>. QED  BY <1>5, <2>1
  <1>7. Range(got') = Range(got) \cup {g}
    <2>1. got' = Append(got, g) /\ got \in Seq(Seq(Text)) /\ g \in Seq(Text)
      BY <1>3, <1>4, <1>5 DEF Typed, TypeOK
    <2>. QED  BY <2>1, AppendRange
  <1>8. \A h \in Range(got') : \E l \in DOMAIN sent :
            /\ Len(h) = sent[l]
            /\ \A k \in DOMAIN h : \E j \in DOMAIN sent :
                (j = l \/ SharedId(l, j)) /\ h[k] = <<j, k - 1>>
    BY <1>2, <1>5, <1>6, <1>7 DEF Mixing, DeliversWhole
  <1>. QED
    BY <1>3, <1>8 DEF Mixing, RecordsFrom, OfId, DeliversWhole, SizesDiffer, SharedId

LEMMA ReceiveMixes ==
    ASSUME Typed, Mixing, Receive \/ Twice
    PROVE  Mixing'
  <1>1. PICK p \in net : Recv(p)
    BY DEF Receive, Twice
  <1>2. UNCHANGED <<sent, ids, thread>> /\ net' \subseteq net
    BY DEF Receive, Twice
  <1>3. p.split \in BOOLEAN
    <2>1. p \in Part
      BY DEF Typed, TypeOK
    <2>. QED  BY <2>1 DEF Part
  <1>4. RecordsFrom' /\ DeliversWhole' /\ (bad' => SizesDiffer')
    BY <1>1, <1>2, <1>3, PartMixes, MessageMixes
  <1>5. NetFrom' /\ ThreadFrom'
    BY <1>2 DEF Mixing, NetFrom, From, ThreadFrom
  <1>. QED  BY <1>4, <1>5 DEF Mixing

LEMMA SendMixes ==
    ASSUME Typed, Mixing, NEW t \in Thread, SendWhole(t) \/ ReadId(t) \/ WriteId(t)
    PROVE  Mixing'
  <1>1. CASE SendWhole(t)
    <2>1. PICK q : q = [split |-> FALSE, text |-> <<Len(sent) + 1, 0>>]
      OBVIOUS
    <2>2. /\ sent' = Append(sent, 1) /\ Len(sent) < MaxMsg /\ net' = net \cup {q}
          /\ ids' = Append(ids, IdSpace)
          /\ UNCHANGED <<msgid, thread, msgPart, got, bad, spent>>
      BY <1>1, <2>1 DEF SendWhole
    <2>3. Grown /\ Len(sent) + 1 \in DOMAIN sent' /\ sent'[Len(sent) + 1] = 1
      <3>1. IdSpace \in 0 .. IdSpace
        BY SplitOK
      <3>. QED  BY <2>2, <3>1, AppendGrown
    <2>4. From(q)'
      <3>1. q.split = FALSE /\ q.text[1] = Len(sent) + 1 /\ q.text[2] = 0
        BY <2>1
      <3>. QED  BY <2>3, <3>1 DEF From
    <2>5. \A u \in Thread : thread[u].pc # "idle" => thread[u].id = ids'[thread[u].msg]
      BY <2>3 DEF Mixing, ThreadFrom, Typed, ThreadOK, Grown
    <2>. QED  BY <2>2, <2>3, <2>4, <2>5, MixingKept
  <1>2. CASE ReadId(t)
    <2>1. PICK len \in Lengths, par \in Pars :
          /\ par # 0 /\ len > par
          /\ sent' = Append(sent, Count(len, par))
          /\ ids' = Append(ids, NextId)
          /\ thread' = [thread EXCEPT ![t] =
                          [pc |-> "id", msg |-> Len(sent) + 1, len |-> len, par |-> par,
                           id |-> NextId, num |-> 0]]
      BY <1>2 DEF ReadId
    <2>2. Len(sent) < MaxMsg /\ UNCHANGED <<msgid, net, msgPart, got, bad, spent>>
      BY <1>2 DEF ReadId
    <2>3. Count(len, par) \in Nat
      BY <2>1, CountType, SplitOK
    <2>4. NextId \in 0 .. IdSpace
      BY NextIdType DEF Typed
    <2>5. Grown /\ ids'[Len(sent) + 1] = NextId
      BY <2>1, <2>2, <2>3, <2>4, AppendGrown
    <2>6. /\ thread'[t].id = NextId /\ thread'[t].msg = Len(sent) + 1
          /\ \A u \in Thread : u # t => thread'[u] = thread[u]
      BY <2>1 DEF Typed, TypeOK
    <2>7. \A u \in Thread : thread'[u].pc # "idle" => thread'[u].id = ids'[thread'[u].msg]
      BY <2>5, <2>6 DEF Mixing, ThreadFrom, Typed, ThreadOK, Grown
    <2>. QED  BY <2>2, <2>5, <2>7, MixingKept
  <1>3. CASE WriteId(t)
    <2>1. /\ thread[t].pc = "id" /\ thread' = [thread EXCEPT ![t].pc = "parts"]
          /\ UNCHANGED <<sent, ids, net, msgPart, got, bad, spent>>
      BY <1>3 DEF WriteId
    <2>2. \A u \in Thread : /\ thread'[u].pc # "idle" => thread[u].pc # "idle"
                            /\ thread'[u].id = thread[u].id /\ thread'[u].msg = thread[u].msg
      BY <2>1 DEF Typed, TypeOK, Place
    <2>3. \A u \in Thread : thread'[u].pc # "idle" => thread'[u].id = ids'[thread'[u].msg]
      BY <2>1, <2>2 DEF Mixing, ThreadFrom
    <2>. QED  BY <2>1, <2>3, SameGrown, MixingKept
  <1>. QED  BY <1>1, <1>2, <1>3

LEMMA SendPartMixes ==
    ASSUME Typed, Numbered, Mixing, NEW t \in Thread, SendPart(t)
    PROVE  Mixing'
  <1>0. PICK s : s = thread[t]
    OBVIOUS
  <1>1. PICK q : q = [split |-> TRUE, id |-> s.id,
                      num |-> Header(s.num, Count(s.len, s.par)).num,
                      all |-> Header(s.num, Count(s.len, s.par)).all,
                      text |-> <<s.msg, s.num>>]
    OBVIOUS
  <1>2. /\ s.pc = "parts"
        /\ net' = net \cup {q}
        /\ thread' = [thread EXCEPT ![t] =
                            IF HasMore(s) THEN [s EXCEPT !.num = s.num + 1] ELSE Idle]
        /\ UNCHANGED <<sent, ids, msgid, msgPart, got, bad, spent>>
    BY <1>0, <1>1 DEF SendPart
  <1>3. /\ s \in Place /\ Splits(s) /\ s.msg \in DOMAIN sent
        /\ sent[s.msg] = Count(s.len, s.par) /\ s.num < sent[s.msg]
    BY <1>0, <1>2 DEF Typed, TypeOK, ThreadOK
  <1>4. /\ s.num \in Nat /\ Count(s.len, s.par) \in Nat
        /\ Count(s.len, s.par) < Base * Base /\ s.num < Base * Base
    <2>1. s.num \in Nat /\ Count(s.len, s.par) \in Nat
      BY <1>3, CountType, SplitOK DEF Place, Splits
    <2>2. Count(s.len, s.par) < Base * Base /\ Base * Base \in Nat
      BY <1>3, SplitOK DEF Numbered
    <2>. QED  BY <1>3, <2>1, <2>2
  <1>5. From(q)
    <2>1. /\ q.split /\ q.id = s.id /\ q.num = s.num /\ q.all = sent[s.msg]
          /\ q.text[1] = s.msg /\ q.text[2] = s.num
      BY <1>1, <1>3, <1>4, HeaderExact
    <2>2. s.id = ids[s.msg]
      BY <1>0, <1>2 DEF Mixing, ThreadFrom
    <2>. QED  BY <1>3, <2>1, <2>2 DEF From
  <1>6. From(q)'
    BY <1>2, <1>5 DEF From
  <1>7. ASSUME NEW u \in Thread, thread'[u].pc # "idle"
        PROVE  thread'[u].id = ids'[thread'[u].msg]
    <2>1. CASE u = t
      <3>1. thread'[t] = [s EXCEPT !.num = s.num + 1]
        BY <1>2, <1>7, <2>1 DEF Typed, TypeOK, Idle
      <3>2. thread'[t].id = s.id /\ thread'[t].msg = s.msg
        BY <1>3, <3>1 DEF Place
      <3>. QED  BY <1>0, <1>2, <2>1, <3>2 DEF Mixing, ThreadFrom
    <2>2. CASE u # t
      <3>1. thread'[u] = thread[u]
        BY <1>2, <2>2 DEF Typed, TypeOK
      <3>. QED  BY <1>2, <1>7, <3>1 DEF Mixing, ThreadFrom
    <2>. QED  BY <2>1, <2>2
  <1>. QED  BY <1>2, <1>6, <1>7, SameGrown, MixingKept

LEMMA InitMixes == Init => Mixing
  <1> SUFFICES ASSUME Init PROVE Mixing
    OBVIOUS
  <1>1. Range(got) = {} /\ DOMAIN msgPart = {} /\ net = {} /\ bad = FALSE
    BY DEF Init, Range
  <1>2. \A t \in Thread : thread[t].pc = "idle"
    BY DEF Init, Idle
  <1>. QED
    BY <1>1, <1>2 DEF Mixing, NetFrom, ThreadFrom, RecordsFrom, DeliversWhole

\* Messages are not taken back.
LEMMA StepGrown ==
    ASSUME Typed, [Next]_vars
    PROVE  Grown
  <1>1. ASSUME NEW t \in Thread, SendWhole(t) PROVE Grown
    <2>1. /\ sent' = Append(sent, 1) /\ Len(sent) < MaxMsg /\ ids' = Append(ids, IdSpace)
          /\ IdSpace \in 0 .. IdSpace
      BY <1>1, SplitOK DEF SendWhole
    <2>. QED  BY <2>1, AppendGrown
  <1>2. ASSUME NEW t \in Thread, ReadId(t) PROVE Grown
    <2>1. PICK len \in Lengths, par \in Pars :
          /\ par # 0 /\ len > par /\ Len(sent) < MaxMsg
          /\ sent' = Append(sent, Count(len, par)) /\ ids' = Append(ids, NextId)
      BY <1>2 DEF ReadId
    <2>2. Count(len, par) \in Nat
      BY <2>1, CountType, SplitOK
    <2>3. NextId \in 0 .. IdSpace
      BY NextIdType DEF Typed
    <2>. QED  BY <2>1, <2>2, <2>3, AppendGrown
  <1>3. CASE UNCHANGED <<sent, ids>>
    BY <1>3, SameGrown
  <1>. QED
    BY <1>1, <1>2, <1>3 DEF Next, Send, Proceed, WriteId, SendPart, Receive, Lose, Twice, vars

LEMMA StepMixes ==
    ASSUME Typed, Numbered => Mixing, [Next]_vars
    PROVE  (Numbered => Mixing)'
  <1> SUFFICES ASSUME Numbered' PROVE Mixing'
    OBVIOUS
  <1>1. Numbered
    BY StepGrown DEF Numbered, Grown
  <1>2. Mixing
    BY <1>1
  <1>3. CASE \E t \in Thread : Send(t) \/ Proceed(t)
    BY <1>1, <1>2, <1>3, SendMixes, SendPartMixes DEF Send, Proceed
  <1>4. CASE Receive \/ Twice
    BY <1>2, <1>4, ReceiveMixes
  <1>5. CASE Lose \/ UNCHANGED vars
    <2>1. UNCHANGED <<sent, ids, thread, msgPart, got, bad>> /\ net' \subseteq net
      BY <1>5 DEF Lose, vars
    <2>2. Grown
      BY <2>1, SameGrown
    <2>3. \A u \in Thread : thread'[u].pc # "idle" => thread'[u].id = ids'[thread'[u].msg]
      BY <1>2, <2>1 DEF Mixing, ThreadFrom
    <2>. QED  BY <1>2, <2>1, <2>2, <2>3, MixingKept
  <1>. QED  BY <1>3, <1>4, <1>5 DEF Next

LEMMA AlwaysMixing == Spec => [](Numbered => Mixing)
  <1>1. Typed /\ (Numbered => Mixing) /\ [Next]_vars => (Numbered => Mixing)'
    BY StepMixes
  <1>2. Init => (Numbered => Mixing)
    BY InitMixes
  <1>. QED  BY AlwaysTyped, <1>1, <1>2, PTL DEF Spec

\* However many threads send, whatever ids they draw and whatever is lost,
\* repeated and late, combineMessage leaves an array only where two messages of
\* different numbers of parts have one id, or a message has more parts than two
\* digits can number: there is no third way.
THEOREM ArrayIsEnough == Spec => []StaysInside
  <1>1. Typed /\ (Numbered => Mixing) => StaysInside
    <2> SUFFICES ASSUME Typed, Numbered => Mixing, bad PROVE
            \/ \E m, n \in DOMAIN sent : SharedId(m, n) /\ sent[m] # sent[n]
            \/ \E m \in DOMAIN sent : sent[m] >= Base * Base
      BY DEF StaysInside
    <2>1. CASE Numbered
      BY <2>1 DEF Mixing, SizesDiffer
    <2>2. CASE ~Numbered
      <3>1. PICK m \in DOMAIN sent : ~(sent[m] < Base * Base)
        BY <2>2 DEF Numbered
      <3>2. sent[m] \in Nat /\ Base * Base \in Nat
        BY IdsOfSent, SplitOK
      <3>. QED  BY <3>1, <3>2
    <2>. QED  BY <2>1, <2>2
  <1>. QED  BY AlwaysTyped, AlwaysMixing, <1>1, PTL

LEMMA AlwaysNumbered ==
    ASSUME PartsNumbered
    PROVE  Spec => []Numbered
  <1>1. Init => Numbered
    BY DEF Init, Numbered
  <1>2. ASSUME Typed, Numbered, [Next]_vars PROVE Numbered'
    <2>1. ASSUME Len(sent) < MaxMsg, NEW n \in Nat, n < Base * Base, sent' = Append(sent, n)
          PROVE  Numbered'
      <3>1. /\ DOMAIN sent' = DOMAIN sent \cup {Len(sent) + 1}
            /\ \A m \in DOMAIN sent : sent'[m] = sent[m]
            /\ sent'[Len(sent) + 1] = n
        BY <1>2, <2>1, AppendCount DEF Typed
      <3>. QED  BY <1>2, <2>1, <3>1 DEF Numbered
    <2>2. ASSUME NEW t \in Thread, SendWhole(t) PROVE Numbered'
      <3>1. 1 < Base * Base
        <4>1. PICK b \in Nat : Base = b + 2
          <5>1. Base - 2 \in Nat /\ Base = (Base - 2) + 2
            BY SplitOK
          <5>. QED  BY <5>1
        <4>2. Base * Base = b * b + 4 * b + 4 /\ b * b \in Nat
          BY <4>1
        <4>. QED  BY <4>2
      <3>. QED  BY <2>1, <2>2, <3>1 DEF SendWhole
    <2>3. ASSUME NEW t \in Thread, ReadId(t) PROVE Numbered'
      <3>1. PICK len \in Lengths, par \in Pars :
            par # 0 /\ len > par /\ Len(sent) < MaxMsg /\ sent' = Append(sent, Count(len, par))
        BY <2>3 DEF ReadId
      <3>2. Count(len, par) \in Nat /\ Count(len, par) < Base * Base
        BY <3>1, CountType, SplitOK DEF PartsNumbered
      <3>. QED  BY <2>1, <3>1, <3>2
    <2>4. CASE UNCHANGED sent
      BY <1>2, <2>4 DEF Numbered
    <2>. QED
      BY <1>2, <2>2, <2>3, <2>4
         DEF Next, Send, Proceed, WriteId, SendPart, Receive, Lose, Twice, vars
  <1>3. Typed /\ Numbered /\ [Next]_vars => Numbered'
    BY <1>2
  <1>. QED  BY AlwaysTyped, <1>1, <1>3, PTL DEF Spec

\* If two digits can number the parts, then whatever the threads that send and
\* the ids they draw, the receiver puts together all the parts of a message, in
\* order, and takes none from a message of another id.
THEOREM OnlyOneIdMixes ==
    ASSUME PartsNumbered
    PROVE  Spec => []DeliversWhole
  <1>1. Numbered /\ (Numbered => Mixing) => DeliversWhole
    BY DEF Mixing
  <1>. QED  BY AlwaysNumbered, AlwaysMixing, <1>1, PTL

-----------------------------------------------------------------------------
(* A message is delivered once.                                            *)

\* What may still become a delivery of message m: its parts under way, those in
\* the arrays, and those not yet sent.
NetOf(m) == {p \in net : p.text[1] = m}
HeldOf(m) == {h \in Ids \X (0 .. sent[m] - 1) : Has(h[1], h[2], m)}
UnsentOf(m) == {k \in 0 .. sent[m] - 1 : \E t \in Thread :
    thread[t].pc # "idle" /\ thread[t].msg = m /\ k >= thread[t].num}
Pending(m) == ({"net"} \X NetOf(m)) \cup ({"held"} \X HeldOf(m)) \cup ({"unsent"} \X UnsentOf(m))

Delivered(m) == {i \in DOMAIN got : got[i] = Whole(m)}

\* Each part goes out once and every delivery uses up one copy of each.
Paid(m) ==
    Cardinality(Delivered(m)) * sent[m] + Cardinality(Pending(m)) <= sent[m] + spent.twice

Once ==
    /\ IsFiniteSet(net)
    /\ \A m \in DOMAIN sent : sent[m] >= 1 /\ Paid(m)

\* Counting.
LEMMA CountGrow ==
    ASSUME NEW S, IsFiniteSet(S), NEW y, NEW T, T \subseteq S \cup {y}
    PROVE  Cardinality(T) \in Nat /\ Cardinality(T) <= Cardinality(S) + 1
  <1>1. /\ IsFiniteSet(S \cup {y}) /\ Cardinality(S \cup {y}) <= Cardinality(S) + 1
        /\ Cardinality(S \cup {y}) \in Nat /\ Cardinality(S) \in Nat
    <2>1. /\ IsFiniteSet(S \cup {y})
          /\ Cardinality(S \cup {y}) = IF y \in S THEN Cardinality(S) ELSE Cardinality(S) + 1
      BY FS_AddElement
    <2>2. Cardinality(S) \in Nat /\ Cardinality(S \cup {y}) \in Nat
      BY <2>1, FS_CardinalityType
    <2>. QED  BY <2>1, <2>2
  <1>2. IsFiniteSet(T) /\ Cardinality(T) <= Cardinality(S \cup {y})
    BY <1>1, FS_Subset
  <1>3. Cardinality(T) \in Nat
    BY <1>2, FS_CardinalityType
  <1>. QED  BY <1>1, <1>2, <1>3

LEMMA CountSwap ==
    ASSUME NEW S, IsFiniteSet(S), NEW x \in S, NEW y, NEW T, T \subseteq (S \ {x}) \cup {y}
    PROVE  Cardinality(T) \in Nat /\ Cardinality(T) <= Cardinality(S)
  <1>1. IsFiniteSet(S \ {x}) /\ Cardinality(S \ {x}) = Cardinality(S) - 1
        /\ Cardinality(S) \in Nat
    BY FS_RemoveElement, FS_CardinalityType
  <1>2. Cardinality(T) \in Nat /\ Cardinality(T) <= Cardinality(S \ {x}) + 1
    BY <1>1, CountGrow
  <1>. QED  BY <1>1, <1>2

LEMMA CountSubset ==
    ASSUME NEW S, IsFiniteSet(S), NEW T, T \subseteq S
    PROVE  Cardinality(T) \in Nat /\ Cardinality(S) \in Nat /\ Cardinality(T) <= Cardinality(S)
  <1>1. IsFiniteSet(T) /\ Cardinality(T) <= Cardinality(S)
    BY FS_Subset
  <1>. QED  BY <1>1, FS_CardinalityType

LEMMA CountShrink ==
    ASSUME NEW S, IsFiniteSet(S), NEW R, R \subseteq S, NEW T, T \subseteq S \ R
    PROVE  /\ Cardinality(T) \in Nat /\ Cardinality(R) \in Nat
           /\ Cardinality(T) + Cardinality(R) <= Cardinality(S)
  <1>1. S \cap R = R
    OBVIOUS
  <1>2. IsFiniteSet(S \ R) /\ Cardinality(S \ R) = Cardinality(S) - Cardinality(R)
    BY <1>1, FS_Difference
  <1>3. IsFiniteSet(R) /\ Cardinality(R) \in Nat /\ Cardinality(S) \in Nat
    BY FS_Subset, FS_CardinalityType
  <1>4. Cardinality(T) \in Nat /\ Cardinality(T) <= Cardinality(S \ R)
    BY <1>2, CountSubset
  <1>. QED  BY <1>2, <1>3, <1>4

LEMMA Distribute ==
    ASSUME NEW d \in Nat, NEW n \in Nat
    PROVE  (d + 1) * n = d * n + n /\ d * n \in Nat
  OBVIOUS

\* What is pending is finite, and so are the deliveries.
LEMMA Finite ==
    ASSUME Typed, Once, NEW m \in DOMAIN sent
    PROVE  /\ IsFiniteSet(Pending(m)) /\ Cardinality(Pending(m)) \in Nat
           /\ IsFiniteSet(Delivered(m)) /\ Cardinality(Delivered(m)) \in Nat
           /\ sent[m] \in Nat /\ spent.twice \in Nat
  <1>1. sent[m] \in Nat /\ spent.twice \in Nat /\ got \in Seq(Seq(Text))
    BY SMTT(30), SplitOK DEF Typed, TypeOK
  <1>2. IsFiniteSet(0 .. sent[m] - 1) /\ IsFiniteSet(Ids)
    <2>1. 0 \in Int /\ sent[m] - 1 \in Int /\ IdSpace - 1 \in Int
      BY <1>1, SplitOK
    <2>2. IsFiniteSet(0 .. sent[m] - 1)
      BY <2>1, FS_Interval
    <2>3. IsFiniteSet(0 .. IdSpace - 1)
      BY <2>1, FS_Interval
    <2>. QED  BY <2>2, <2>3 DEF Ids
  <1>3. IsFiniteSet(NetOf(m))
    BY FS_Subset DEF Once, NetOf
  <1>4. IsFiniteSet(HeldOf(m))
    <2>1. IsFiniteSet(Ids \X (0 .. sent[m] - 1))
      BY <1>2, FS_Product
    <2>. QED  BY <2>1, FS_Subset DEF HeldOf
  <1>5. IsFiniteSet(UnsentOf(m))
    BY <1>2, FS_Subset DEF UnsentOf
  <1>6. /\ IsFiniteSet({"net"} \X NetOf(m))
        /\ IsFiniteSet({"held"} \X HeldOf(m))
        /\ IsFiniteSet({"unsent"} \X UnsentOf(m))
    BY <1>3, <1>4, <1>5, FS_Singleton, FS_Product
  <1>7. IsFiniteSet(Pending(m))
    <2>1. IsFiniteSet(({"net"} \X NetOf(m)) \cup ({"held"} \X HeldOf(m)))
      BY <1>6, FS_Union
    <2>. QED  BY <1>6, <2>1, FS_Union DEF Pending
  <1>8. IsFiniteSet(Delivered(m))
    <2>1. DOMAIN got = 1 .. Len(got) /\ Len(got) \in Nat
      BY <1>1, LenProperties
    <2>2. IsFiniteSet(DOMAIN got)
      BY <2>1, FS_Interval
    <2>. QED  BY <2>2, FS_Subset DEF Delivered
  <1>. QED  BY <1>1, <1>7, <1>8, FS_CardinalityType

\* The elements of Pending.
LEMMA PendingParts ==
    ASSUME NEW m
    PROVE  /\ \A x : <<"net", x>> \in Pending(m) <=> x \in NetOf(m)
           /\ \A x : <<"held", x>> \in Pending(m) <=> x \in HeldOf(m)
           /\ \A x : <<"unsent", x>> \in Pending(m) <=> x \in UnsentOf(m)
           /\ \A e \in Pending(m) : \/ \E x \in NetOf(m) : e = <<"net", x>>
                                    \/ \E x \in HeldOf(m) : e = <<"held", x>>
                                    \/ \E x \in UnsentOf(m) : e = <<"unsent", x>>
  BY DEF Pending

\* A step that delivers no copy of a message, and adds nothing to what is
\* pending of it.
LEMMA PaidKeeps ==
    ASSUME Typed, Once, NEW m \in DOMAIN sent, sent'[m] = sent[m],
           Delivered(m)' = Delivered(m), Pending(m)' \subseteq Pending(m),
           spent'.twice \in Nat, spent'.twice >= spent.twice
    PROVE  sent'[m] >= 1 /\ Paid(m)'
  <1>3. Cardinality(Pending(m)') <= Cardinality(Pending(m)) /\ Cardinality(Pending(m)') \in Nat
    BY Finite, CountSubset
  <1>4. Cardinality(Delivered(m)) * sent[m] + Cardinality(Pending(m)) <= sent[m] + spent.twice
        /\ sent[m] >= 1
    BY DEF Once, Paid
  <1>5. /\ Cardinality(Delivered(m)) * sent[m] \in Nat /\ Cardinality(Pending(m)) \in Nat
        /\ sent[m] \in Nat /\ spent.twice \in Nat
    BY Finite, Distribute
  <1>. QED  BY <1>3, <1>4, <1>5 DEF Paid

\* The same for a step that puts one copy in the place of another, or makes one
\* and is counted as a duplicate.
LEMMA PaidMoves ==
    ASSUME Typed, Once, NEW m \in DOMAIN sent, sent'[m] = sent[m],
           Delivered(m)' = Delivered(m), NEW x \in Pending(m), NEW y,
           \/ Pending(m)' \subseteq (Pending(m) \ {x}) \cup {y} /\ spent'.twice = spent.twice
           \/ Pending(m)' \subseteq Pending(m) \cup {y} /\ spent'.twice = spent.twice + 1
    PROVE  sent'[m] >= 1 /\ Paid(m)'
  <1>1. Cardinality(Delivered(m)) * sent[m] + Cardinality(Pending(m)) <= sent[m] + spent.twice
        /\ sent[m] >= 1
    BY DEF Once, Paid
  <1>2. /\ Cardinality(Delivered(m)) * sent[m] \in Nat /\ Cardinality(Pending(m)) \in Nat
        /\ sent[m] \in Nat /\ spent.twice \in Nat /\ IsFiniteSet(Pending(m))
    BY Finite, Distribute
  <1>3. CASE Pending(m)' \subseteq (Pending(m) \ {x}) \cup {y} /\ spent'.twice = spent.twice
    <2>1. Cardinality(Pending(m)') <= Cardinality(Pending(m)) /\ Cardinality(Pending(m)') \in Nat
      BY <1>2, <1>3, CountSwap
    <2>. QED  BY <1>1, <1>2, <1>3, <2>1 DEF Paid
  <1>4. CASE Pending(m)' \subseteq Pending(m) \cup {y} /\ spent'.twice = spent.twice + 1
    <2>1. Cardinality(Pending(m)') <= Cardinality(Pending(m)) + 1
          /\ Cardinality(Pending(m)') \in Nat
      BY <1>2, <1>4, CountGrow
    <2>. QED  BY <1>1, <1>2, <1>4, <2>1 DEF Paid
  <1>. QED  BY <1>3, <1>4

\* A delivery adds one to those of its message.
LEMMA DeliveryCounts ==
    ASSUME Typed, Once, NEW m \in DOMAIN sent, UNCHANGED sent, got' = Append(got, Whole(m))
    PROVE  /\ Cardinality(Delivered(m)') * sent[m] = Cardinality(Delivered(m)) * sent[m] + sent[m]
           /\ \A n \in DOMAIN sent : n # m => Delivered(n)' = Delivered(n)
  <1>1. \A n \in DOMAIN sent : Whole(n)' = Whole(n)
    BY DEF Whole
  <1>2. \A n \in DOMAIN sent : n # m => Whole(n) # Whole(m)
    <2> SUFFICES ASSUME NEW n \in DOMAIN sent, n # m, Whole(n) = Whole(m) PROVE FALSE
      OBVIOUS
    <2>1. 1 \in 1 .. sent[m] /\ 1 \in 1 .. sent[n]
      BY DEF Once, Typed, TypeOK
    <2>2. Whole(m)[1] = <<m, 0>> /\ Whole(n)[1] = <<n, 0>>
      BY <2>1 DEF Whole
    <2>. QED  BY <2>2
  <1>3. /\ got \in Seq(Seq(Text)) /\ Len(got) \in Nat /\ DOMAIN got = 1 .. Len(got)
    BY LenProperties DEF Typed, TypeOK
  <1>4. /\ DOMAIN got' = DOMAIN got \cup {Len(got) + 1}
        /\ \A i \in DOMAIN got : got'[i] = got[i]
        /\ got'[Len(got) + 1] = Whole(m)
    BY <1>3
  <1>5. Len(got) + 1 \notin DOMAIN got
    BY <1>3
  <1>6. Delivered(m)' = Delivered(m) \cup {Len(got) + 1} /\ Len(got) + 1 \notin Delivered(m)
    BY <1>1, <1>4, <1>5 DEF Delivered
  <1>7. Cardinality(Delivered(m)') = Cardinality(Delivered(m)) + 1
    BY <1>6, Finite, FS_AddElement
  <1>8. \A n \in DOMAIN sent : n # m => Delivered(n)' = Delivered(n)
    BY <1>1, <1>2, <1>4, <1>5 DEF Delivered
  <1>. QED  BY <1>7, <1>8, Finite, Distribute

\* A delivery uses up what is pending: as many elements as the message has
\* parts, or one less if the last is a duplicate.
LEMMA PaidDelivers ==
    ASSUME Typed, Once, NEW m \in DOMAIN sent, UNCHANGED sent, got' = Append(got, Whole(m)),
           NEW E, E \subseteq Pending(m), Cardinality(E) = sent[m] - 1,
           NEW x \in Pending(m) \ E,
           \/ Pending(m)' \subseteq Pending(m) \ (E \cup {x}) /\ spent'.twice = spent.twice
           \/ Pending(m)' \subseteq Pending(m) \ E /\ spent'.twice = spent.twice + 1
    PROVE  sent'[m] >= 1 /\ Paid(m)'
  <1>1. Cardinality(Delivered(m)) * sent[m] + Cardinality(Pending(m)) <= sent[m] + spent.twice
        /\ sent[m] >= 1
    BY DEF Once, Paid
  <1>2. /\ Cardinality(Delivered(m)) * sent[m] \in Nat /\ Cardinality(Pending(m)) \in Nat
        /\ sent[m] \in Nat /\ spent.twice \in Nat /\ IsFiniteSet(Pending(m))
    BY Finite, Distribute
  <1>3. Cardinality(Delivered(m)') * sent[m] = Cardinality(Delivered(m)) * sent[m] + sent[m]
    BY DeliveryCounts
  <1>4. CASE Pending(m)' \subseteq Pending(m) \ (E \cup {x}) /\ spent'.twice = spent.twice
    <2>1. E \cup {x} \subseteq Pending(m) /\ IsFiniteSet(E)
      BY <1>2, FS_Subset
    <2>2. Cardinality(E \cup {x}) = sent[m]
      <3>1. Cardinality(E \cup {x}) = Cardinality(E) + 1
        BY <2>1, FS_AddElement
      <3>. QED  BY <1>2, <3>1
    <2>3. /\ Cardinality(Pending(m)') \in Nat
          /\ Cardinality(Pending(m)') + Cardinality(E \cup {x}) <= Cardinality(Pending(m))
      BY <1>2, <1>4, <2>1, CountShrink
    <2>. QED  BY <1>1, <1>2, <1>3, <1>4, <2>2, <2>3 DEF Paid
  <1>5. CASE Pending(m)' \subseteq Pending(m) \ E /\ spent'.twice = spent.twice + 1
    <2>1. /\ Cardinality(Pending(m)') \in Nat
          /\ Cardinality(Pending(m)') + Cardinality(E) <= Cardinality(Pending(m))
      BY <1>2, <1>5, CountShrink
    <2>. QED  BY SMTT(30), <1>1, <1>2, <1>3, <1>5, <2>1 DEF Paid
  <1>. QED  BY <1>4, <1>5

LEMMA RecvPays ==
    ASSUME Typed, Delivery, Once, NEW p \in net, Recv(p), UNCHANGED <<sent, thread>>,
           \/ net' = net \ {p} /\ spent'.twice = spent.twice
           \/ net' = net /\ spent'.twice = spent.twice + 1
    PROVE  Once'
  <1>. DEFINE m == p.text[1]
              x == <<"net", p>>
  <1>1. /\ p \in Part /\ p.split \in BOOLEAN /\ m \in DOMAIN sent /\ sent[m] \in Nat
        /\ DOMAIN msgPart \subseteq Ids /\ DOMAIN sent \subseteq Nat
        /\ sent \in Seq(Nat) /\ spent.twice \in Nat
    <2>1. p \in Part /\ sent \in Seq(Nat) /\ DOMAIN msgPart \subseteq Ids /\ spent.twice \in Nat
      BY SplitOK DEF Typed, TypeOK
    <2>2. DOMAIN sent = 1 .. Len(sent) /\ Len(sent) \in Nat
      BY <2>1, LenProperties
    <2>3. p.split \in BOOLEAN
      BY <2>1 DEF Part
    <2>4. m \in DOMAIN sent
      BY DEF Delivery, NetOK, PartOK
    <2>. QED  BY <2>1, <2>2, <2>3, <2>4, SMTT(30)
  <1>2. IsFiniteSet(net')
    BY FS_Subset DEF Once
  <1>3. /\ x \in Pending(m)
        /\ \A n \in DOMAIN sent : NetOf(n)' \subseteq NetOf(n) /\ UnsentOf(n)' = UnsentOf(n)
        /\ net' = net \ {p} => NetOf(m)' = NetOf(m) \ {p}
        /\ \A n \in DOMAIN sent : Whole(n)' = Whole(n)
    BY <1>1 DEF Pending, NetOf, UnsentOf, Whole
  <1>4. CASE ~p.split
    <2>1. /\ msgPart' = msgPart /\ sent[m] = 1 /\ got' = Append(got, Whole(m))
      BY <1>4, MessageArrives
    <2>2. \A n \in DOMAIN sent : HeldOf(n)' = HeldOf(n)
      BY <2>1 DEF HeldOf, Has
    <2>3. \A n \in DOMAIN sent : Pending(n)' \subseteq Pending(n)
      BY <1>3, <2>2 DEF Pending
    <2>4. net' = net \ {p} => Pending(m)' \subseteq Pending(m) \ {x}
      BY <1>3, <1>1, <2>2 DEF Pending
    <2>5. sent'[m] >= 1 /\ Paid(m)'
      <3>1. {} \subseteq Pending(m) /\ Cardinality({}) = sent[m] - 1 /\ x \in Pending(m) \ {}
        BY <1>3, <2>1, FS_EmptySet
      <3>2. \/ Pending(m)' \subseteq Pending(m) \ ({} \cup {x}) /\ spent'.twice = spent.twice
            \/ Pending(m)' \subseteq Pending(m) \ {} /\ spent'.twice = spent.twice + 1
        BY <1>1, <2>3, <2>4
      <3>. HIDE DEF x, m
      <3>. QED  BY <1>1, <2>1, <3>1, <3>2, PaidDelivers
    <2>6. ASSUME NEW n \in DOMAIN sent, n # m PROVE sent'[n] >= 1 /\ Paid(n)'
      <3>1. Delivered(n)' = Delivered(n)
        BY <1>1, <2>1, <2>6, DeliveryCounts
      <3>. QED  BY <1>1, <2>3, <3>1, PaidKeeps
    <2>. QED  BY <1>2, <2>5, <2>6 DEF Once
  <1>5. CASE p.split
    <2>. DEFINE y == <<"held", <<p.id, p.num>>>>
    <2>1. /\ p.num \in 0 .. sent[m] - 1
          /\ \A i \in DOMAIN msgPart' : i # p.id => /\ i \in DOMAIN msgPart
                                                   /\ msgPart'[i] = msgPart[i]
          /\ \/ /\ got' = got
                /\ p.id \in DOMAIN msgPart' /\ Holds(p.id, msgPart'[p.id], m)
                /\ \A k : Has(p.id, k, m)' => k = p.num \/ Has(p.id, k, m)
             \/ /\ got' = Append(got, Whole(m))
                /\ p.id \notin DOMAIN msgPart'
                /\ \A k \in 0 .. sent[m] - 1 : k = p.num \/ Has(p.id, k, m)
      BY <1>5, PartArrives
    <2>2. ASSUME NEW n \in DOMAIN sent, NEW i, NEW k \in Nat, i # p.id, Has(i, k, n)'
          PROVE  Has(i, k, n)
      BY <2>1, <2>2 DEF Has
    <2>3. ASSUME NEW n \in DOMAIN sent, n # m, NEW k \in Nat, Has(p.id, k, n)' PROVE FALSE
      <3>1. p.id \in DOMAIN msgPart' /\ msgPart'[p.id][k] \in {Nil, <<m, k>>}
        BY <2>1, <2>3 DEF Has, Holds
      <3>2. msgPart'[p.id][k] = <<n, k>> /\ <<n, k>> # Nil
        BY <1>1, <2>3, SplitOK DEF Has
      <3>. QED  BY <2>3, <3>1, <3>2
    <2>4. ASSUME NEW n \in DOMAIN sent, n # m PROVE HeldOf(n)' \subseteq HeldOf(n)
      <3> SUFFICES ASSUME NEW h \in HeldOf(n)' PROVE h \in HeldOf(n)
        OBVIOUS
      <3>1. h \in Ids \X (0 .. sent[n] - 1) /\ Has(h[1], h[2], n)' /\ h[2] \in Nat
        BY <1>1 DEF HeldOf
      <3>. QED  BY <2>2, <2>3, <2>4, <3>1 DEF HeldOf
    <2>5. ASSUME NEW n \in DOMAIN sent, n # m PROVE sent'[n] >= 1 /\ Paid(n)'
      <3>1. Delivered(n)' = Delivered(n)
        <4>1. CASE got' = got
          BY <1>3, <4>1 DEF Delivered
        <4>2. CASE got' = Append(got, Whole(m))
          BY <1>1, <2>5, <4>2, DeliveryCounts
        <4>. QED  BY <2>1, <4>1, <4>2
      <3>2. Pending(n)' \subseteq Pending(n)
        BY <1>3, <2>4, <2>5 DEF Pending
      <3>. QED  BY SMTT(30), <1>1, <3>1, <3>2, PaidKeeps
    <2>6. CASE /\ got' = got
               /\ \A k : Has(p.id, k, m)' => k = p.num \/ Has(p.id, k, m)
      <3>1. HeldOf(m)' \subseteq HeldOf(m) \cup {<<p.id, p.num>>}
        <4> SUFFICES ASSUME NEW h \in HeldOf(m)', h # <<p.id, p.num>> PROVE h \in HeldOf(m)
          OBVIOUS
        <4>1. h \in Ids \X (0 .. sent[m] - 1) /\ Has(h[1], h[2], m)' /\ h[2] \in Nat
              /\ h = <<h[1], h[2]>>
          BY <1>1 DEF HeldOf
        <4>. QED  BY <1>1, <2>2, <2>6, <4>1 DEF HeldOf
      <3>2. \/ Pending(m)' \subseteq (Pending(m) \ {x}) \cup {y} /\ spent'.twice = spent.twice
            \/ Pending(m)' \subseteq Pending(m) \cup {y} /\ spent'.twice = spent.twice + 1
        <4>1. Pending(m)' \subseteq Pending(m) \cup {y}
          BY <1>1, <1>3, <3>1 DEF Pending
        <4>2. net' = net \ {p} => x \notin Pending(m)'
          BY <1>3 DEF Pending
        <4>. QED  BY <4>1, <4>2
      <3>3. Delivered(m)' = Delivered(m)
        BY <1>1, <1>3, <2>6 DEF Delivered
      <3>4. sent'[m] >= 1 /\ Paid(m)'
        <4>. HIDE DEF x, y, m
        <4>. QED  BY <1>1, <1>3, <3>2, <3>3, PaidMoves
      <3>. QED  BY <1>2, <2>5, <3>4 DEF Once
    <2>7. CASE /\ got' = Append(got, Whole(m))
               /\ p.id \notin DOMAIN msgPart'
               /\ \A k \in 0 .. sent[m] - 1 : k = p.num \/ Has(p.id, k, m)
      <3>. DEFINE others == (0 .. sent[m] - 1) \ {p.num}
                  E == {"held"} \X ({p.id} \X others)
      <3>1. E \subseteq Pending(m)
        <4> SUFFICES ASSUME NEW k \in others PROVE <<p.id, k>> \in HeldOf(m)
          BY DEF Pending
        <4>1. Has(p.id, k, m) /\ p.id \in Ids
          BY <1>1, <2>7 DEF Has
        <4>. QED  BY <4>1 DEF HeldOf
      <3>2. Cardinality(E) = sent[m] - 1
        <4>1. 0 \in Int /\ sent[m] - 1 \in Int /\ sent[m] >= 1
          BY <1>1 DEF Once
        <4>2. IsFiniteSet(0 .. sent[m] - 1) /\ Cardinality(0 .. sent[m] - 1) = sent[m]
          <5>1. /\ IsFiniteSet(0 .. sent[m] - 1)
                /\ Cardinality(0 .. sent[m] - 1) =
                      IF 0 > sent[m] - 1 THEN 0 ELSE (sent[m] - 1) - 0 + 1
            BY <4>1, FS_Interval
          <5>. QED  BY <1>1, <4>1, <5>1
        <4>3. IsFiniteSet(others) /\ Cardinality(others) = sent[m] - 1
          BY ZenonT(60), <2>1, <4>2, FS_RemoveElement
        <4>. HIDE DEF others
        <4>4. IsFiniteSet({p.id}) /\ Cardinality({p.id}) = 1
              /\ IsFiniteSet({"held"}) /\ Cardinality({"held"}) = 1
          BY FS_Singleton
        <4>5. IsFiniteSet({p.id} \X others) /\ Cardinality({p.id} \X others) = sent[m] - 1
          <5>1. /\ IsFiniteSet({p.id} \X others)
                /\ Cardinality({p.id} \X others) = Cardinality({p.id}) * Cardinality(others)
            BY <4>3, <4>4, FS_Product
          <5>. QED  BY <4>1, <4>3, <4>4, <5>1
        <4>6. Cardinality(E) = Cardinality({"held"}) * Cardinality({p.id} \X others)
          BY <4>4, <4>5, FS_Product
        <4>. QED  BY <4>1, <4>4, <4>5, <4>6
      <3>3. HeldOf(m)' \subseteq HeldOf(m) \ {h \in HeldOf(m) : h[1] = p.id}
        <4> SUFFICES ASSUME NEW h \in HeldOf(m)' PROVE h \in HeldOf(m) /\ h[1] # p.id
          OBVIOUS
        <4>1. h \in Ids \X (0 .. sent[m] - 1) /\ Has(h[1], h[2], m)' /\ h[2] \in Nat
          BY <1>1 DEF HeldOf
        <4>2. h[1] # p.id
          BY <2>7, <4>1 DEF Has
        <4>. QED  BY <1>1, <2>2, <4>1, <4>2 DEF HeldOf
      <3>4. Pending(m)' \subseteq Pending(m) \ E
        BY <1>1, <1>3, <3>3 DEF Pending
      <3>5. net' = net \ {p} => x \notin Pending(m)'
        BY <1>3 DEF Pending
      <3>6. x \in Pending(m) \ E
        BY <1>3
      <3>7. sent'[m] >= 1 /\ Paid(m)'
        <4>. HIDE DEF x, m, E
        <4>. QED  BY <1>1, <2>7, <3>1, <3>2, <3>4, <3>5, <3>6, PaidDelivers
      <3>. QED  BY <1>2, <2>5, <3>7 DEF Once
    <2>. QED  BY <2>1, <2>6, <2>7
  <1>. QED  BY <1>1, <1>4, <1>5

LEMMA ReceivePays ==
    ASSUME Typed, Delivery, Once, Receive \/ Twice
    PROVE  Once'
  <1>1. CASE Receive
    BY <1>1, RecvPays DEF Receive
  <1>2. CASE Twice
    <2>1. PICK p \in net : Recv(p)
      BY <1>2 DEF Twice
    <2>2. spent'.twice = spent.twice + 1
      BY <1>2 DEF Twice, Typed, TypeOK
    <2>. QED  BY <1>2, <2>1, <2>2, RecvPays DEF Twice
  <1>. QED  BY <1>1, <1>2

LEMMA LosePays ==
    ASSUME Typed, Once, Lose
    PROVE  Once'
  <1>1. /\ UNCHANGED <<sent, thread, msgPart, got>> /\ net' \subseteq net
        /\ spent'.twice = spent.twice /\ spent.twice \in Nat
    BY SplitOK DEF Lose, Typed, TypeOK
  <1>2. ASSUME NEW m \in DOMAIN sent PROVE sent'[m] >= 1 /\ Paid(m)'
    <2>1. Delivered(m)' = Delivered(m) /\ Pending(m)' \subseteq Pending(m)
      BY <1>1 DEF Delivered, Whole, Pending, NetOf, HeldOf, Has, UnsentOf
    <2>. QED  BY <1>1, <2>1, PaidKeeps
  <1>. QED  BY <1>1, <1>2, FS_Subset DEF Once

\* What a new message m0 finds: nothing of it is anywhere, and the messages
\* before it are as they were.
LEMMA FreshMessage ==
    ASSUME Typed, Delivery, Once, Len(sent) < MaxMsg, NEW n \in Nat, n >= 1,
           sent' = Append(sent, n), UNCHANGED <<got, msgPart>>,
           NEW m0, m0 = Len(sent) + 1
    PROVE  /\ DOMAIN sent' = DOMAIN sent \cup {m0} /\ m0 \notin DOMAIN sent /\ m0 \in Nat
           /\ sent'[m0] = n
           /\ \A m \in DOMAIN sent : /\ sent'[m] = sent[m]
                                     /\ Delivered(m)' = Delivered(m)
                                     /\ HeldOf(m)' = HeldOf(m)
           /\ Delivered(m0)' = {} /\ HeldOf(m0)' = {} /\ NetOf(m0) = {}
           /\ \A t \in Thread : thread[t].pc # "idle" => thread[t].msg # m0
  <1>1. /\ DOMAIN sent' = DOMAIN sent \cup {m0} /\ sent'[m0] = n /\ m0 \in Nat
        /\ \A m \in DOMAIN sent : sent'[m] = sent[m]
    BY AppendCount DEF Typed
  <1>2. m0 \notin DOMAIN sent /\ DOMAIN sent \subseteq Nat
    <2>1. sent \in Seq(Nat)
      BY DEF Typed, TypeOK
    <2>2. DOMAIN sent = 1 .. Len(sent) /\ Len(sent) \in Nat
      BY <2>1, LenProperties
    <2>. QED  BY <2>2
  <1>3. \A m \in DOMAIN sent : Whole(m)' = Whole(m)
    BY <1>1 DEF Whole
  <1>4. \A m \in DOMAIN sent : Delivered(m)' = Delivered(m) /\ HeldOf(m)' = HeldOf(m)
    BY <1>1, <1>3 DEF Delivered, HeldOf, Has
  <1>5. Delivered(m0)' = {}
    <2> SUFFICES ASSUME NEW i \in DOMAIN got, got[i] = Whole(m0)' PROVE FALSE
      BY DEF Delivered
    <2>1. PICK m \in DOMAIN sent : got[i] = Whole(m)
      BY DEF Delivery, DeliversSent, Range
    <2>2. 1 \in 1 .. sent'[m0] /\ 1 \in 1 .. sent[m]
      BY <1>1 DEF Once, Typed, TypeOK
    <2>3. Whole(m)[1] = <<m, 0>> /\ Whole(m0)'[1] = <<m0, 0>>
      BY <2>2 DEF Whole
    <2>. QED  BY <1>2, <2>1, <2>3
  <1>6. HeldOf(m0)' = {}
    <2> SUFFICES ASSUME NEW i, NEW k \in Nat, Has(i, k, m0) PROVE FALSE
      BY <1>1 DEF HeldOf, Has
    <2>1. i \in DOMAIN msgPart /\ k \in DOMAIN msgPart[i] /\ msgPart[i][k] = <<m0, k>>
      BY DEF Has
    <2>2. PICK m \in DOMAIN sent : Holds(i, msgPart[i], m)
      BY <2>1 DEF Delivery, RecordsOK, RecordsIn
    <2>3. msgPart[i][k] \in {Nil, <<m, k>>}
      BY <2>1, <2>2 DEF Holds
    <2>4. <<m0, k>> # Nil
      BY <1>1, SplitOK
    <2>. QED  BY <1>2, <2>1, <2>3, <2>4
  <1>7. NetOf(m0) = {}
    BY <1>2 DEF NetOf, Delivery, NetOK, PartOK
  <1>8. \A t \in Thread : thread[t].pc # "idle" => thread[t].msg # m0
    BY <1>2 DEF Typed, ThreadOK
  <1>. QED  BY <1>1, <1>2, <1>4, <1>5, <1>6, <1>7, <1>8

\* A new message pays for itself: as many elements are pending as it has parts.
LEMMA FreshPays ==
    ASSUME NEW m0, sent'[m0] \in Nat, sent'[m0] >= 1, spent.twice \in Nat,
           spent'.twice = spent.twice,
           Delivered(m0)' = {}, Cardinality(Pending(m0)') \in Nat,
           Cardinality(Pending(m0)') <= sent'[m0]
    PROVE  sent'[m0] >= 1 /\ Paid(m0)'
  <1>1. Cardinality(Delivered(m0)') * sent'[m0] = 0
    BY FS_EmptySet
  <1>. QED  BY <1>1 DEF Paid

LEMMA SendWholePays ==
    ASSUME Typed, Delivery, Once, NEW t \in Thread, SendWhole(t)
    PROVE  Once'
  <1>m. PICK m0 : m0 = Len(sent) + 1
    OBVIOUS
  <1>0. PICK q : q = [split |-> FALSE, text |-> <<m0, 0>>]
    OBVIOUS
  <1>1. /\ sent' = Append(sent, 1) /\ Len(sent) < MaxMsg /\ net' = net \cup {q}
        /\ UNCHANGED <<msgid, thread, msgPart, got, bad, spent>>
    BY <1>0, <1>m DEF SendWhole
  <1>2. /\ DOMAIN sent' = DOMAIN sent \cup {m0} /\ m0 \notin DOMAIN sent /\ m0 \in Nat
        /\ sent'[m0] = 1
        /\ \A m \in DOMAIN sent : /\ sent'[m] = sent[m]
                                  /\ Delivered(m)' = Delivered(m)
                                  /\ HeldOf(m)' = HeldOf(m)
        /\ Delivered(m0)' = {} /\ HeldOf(m0)' = {} /\ NetOf(m0) = {}
        /\ \A u \in Thread : thread[u].pc # "idle" => thread[u].msg # m0
    BY <1>1, <1>m, FreshMessage
  <1>3. q.text[1] = m0
    BY <1>0
  <1>t. spent.twice \in Nat
    BY SplitOK DEF Typed, TypeOK
  <1>4. ASSUME NEW m \in DOMAIN sent PROVE sent'[m] >= 1 /\ Paid(m)'
    <2>1. NetOf(m)' = NetOf(m) /\ UnsentOf(m)' = UnsentOf(m)
      BY <1>1, <1>2, <1>3 DEF NetOf, UnsentOf
    <2>2. Pending(m)' \subseteq Pending(m)
      BY <1>2, <2>1 DEF Pending
    <2>. QED  BY <1>1, <1>2, <1>t, <2>2, PaidKeeps
  <1>5. sent'[m0] >= 1 /\ Paid(m0)'
    <2>1. NetOf(m0)' \subseteq {q} /\ UnsentOf(m0)' = {}
      BY <1>1, <1>2 DEF NetOf, UnsentOf
    <2>2. Pending(m0)' \subseteq {<<"net", q>>}
      BY <1>2, <2>1 DEF Pending
    <2>3. Cardinality(Pending(m0)') \in Nat /\ Cardinality(Pending(m0)') <= 1
      <3>1. IsFiniteSet({<<"net", q>>}) /\ Cardinality({<<"net", q>>}) = 1
        BY FS_Singleton
      <3>. QED  BY <2>2, <3>1, CountSubset
    <2>. QED  BY <1>1, <1>2, <1>t, <2>3, FreshPays
  <1>6. IsFiniteSet(net')
    BY <1>1, FS_AddElement DEF Once
  <1>. QED  BY <1>2, <1>4, <1>5, <1>6 DEF Once

LEMMA ReadIdPays ==
    ASSUME Typed, Delivery, Once, NEW t \in Thread, ReadId(t)
    PROVE  Once'
  <1>m. PICK m0 : m0 = Len(sent) + 1
    OBVIOUS
  <1>1. PICK len \in Lengths, par \in Pars :
        /\ par # 0 /\ len > par
        /\ sent' = Append(sent, Count(len, par))
        /\ ids' = Append(ids, NextId)
        /\ thread' = [thread EXCEPT ![t] =
                        [pc |-> "id", msg |-> Len(sent) + 1, len |-> len, par |-> par,
                         id |-> NextId, num |-> 0]]
    BY DEF ReadId
  <1>2. /\ Len(sent) < MaxMsg /\ thread[t].pc = "idle"
        /\ UNCHANGED <<msgid, net, msgPart, got, bad, spent>>
    BY DEF ReadId
  <1>3. Count(len, par) \in Nat /\ Count(len, par) >= 1
    BY <1>1, CountType, SplitOK
  <1>4. /\ DOMAIN sent' = DOMAIN sent \cup {m0} /\ m0 \notin DOMAIN sent /\ m0 \in Nat
        /\ sent'[m0] = Count(len, par)
        /\ \A m \in DOMAIN sent : /\ sent'[m] = sent[m]
                                  /\ Delivered(m)' = Delivered(m)
                                  /\ HeldOf(m)' = HeldOf(m)
        /\ Delivered(m0)' = {} /\ HeldOf(m0)' = {} /\ NetOf(m0) = {}
        /\ \A u \in Thread : thread[u].pc # "idle" => thread[u].msg # m0
    BY <1>1, <1>2, <1>3, <1>m, FreshMessage
  <1>5. /\ thread'[t].msg = m0
        /\ \A u \in Thread \ {t} : thread'[u] = thread[u]
    BY <1>1, <1>m DEF Typed, TypeOK
  <1>t. spent.twice \in Nat
    BY SplitOK DEF Typed, TypeOK
  <1>6. ASSUME NEW m \in DOMAIN sent PROVE sent'[m] >= 1 /\ Paid(m)'
    <2>1. NetOf(m)' = NetOf(m) /\ UnsentOf(m)' \subseteq UnsentOf(m)
      BY <1>2, <1>4, <1>5 DEF NetOf, UnsentOf
    <2>2. Pending(m)' \subseteq Pending(m)
      BY <1>4, <2>1 DEF Pending
    <2>. QED  BY <1>2, <1>4, <1>t, <2>2, PaidKeeps
  <1>7. sent'[m0] >= 1 /\ Paid(m0)'
    <2>. DEFINE all == 0 .. sent'[m0] - 1
    <2>1. NetOf(m0)' = {} /\ UnsentOf(m0)' \subseteq all
      BY <1>2, <1>4 DEF NetOf, UnsentOf
    <2>2. Pending(m0)' \subseteq {"unsent"} \X all
      BY <1>4, <2>1 DEF Pending
    <2>3. IsFiniteSet(all) /\ Cardinality(all) = sent'[m0]
      <3>1. 0 \in Int /\ sent'[m0] - 1 \in Int
        BY <1>3, <1>4
      <3>2. /\ IsFiniteSet(all)
            /\ Cardinality(all) = IF 0 > sent'[m0] - 1 THEN 0 ELSE (sent'[m0] - 1) - 0 + 1
        BY <3>1, FS_Interval
      <3>. QED  BY <1>3, <1>4, <3>2
    <2>. HIDE DEF all
    <2>4. IsFiniteSet({"unsent"} \X all) /\ Cardinality({"unsent"} \X all) = sent'[m0]
      <3>1. IsFiniteSet({"unsent"}) /\ Cardinality({"unsent"}) = 1
        BY FS_Singleton
      <3>2. /\ IsFiniteSet({"unsent"} \X all)
            /\ Cardinality({"unsent"} \X all) = Cardinality({"unsent"}) * Cardinality(all)
        BY <2>3, <3>1, FS_Product
      <3>. QED  BY <1>3, <1>4, <2>3, <3>1, <3>2
    <2>5. Cardinality(Pending(m0)') \in Nat /\ Cardinality(Pending(m0)') <= sent'[m0]
      BY <2>2, <2>4, CountSubset
    <2>. QED  BY <1>2, <1>3, <1>4, <1>t, <2>5, FreshPays
  <1>. QED  BY <1>2, <1>4, <1>6, <1>7 DEF Once

LEMMA WriteIdPays ==
    ASSUME Typed, Once, NEW t \in Thread, WriteId(t)
    PROVE  Once'
  <1>1. /\ thread[t].pc = "id" /\ thread' = [thread EXCEPT ![t].pc = "parts"]
        /\ UNCHANGED <<sent, ids, net, msgPart, got, bad, spent>>
    BY DEF WriteId
  <1>2. \A u \in Thread : /\ thread'[u].msg = thread[u].msg /\ thread'[u].num = thread[u].num
                          /\ thread'[u].pc # "idle" => thread[u].pc # "idle"
    BY <1>1 DEF Typed, TypeOK, Place
  <1>t. spent.twice \in Nat
    BY SplitOK DEF Typed, TypeOK
  <1>3. ASSUME NEW m \in DOMAIN sent PROVE sent'[m] >= 1 /\ Paid(m)'
    <2>1. UnsentOf(m)' \subseteq UnsentOf(m)
      BY <1>1, <1>2 DEF UnsentOf
    <2>2. Delivered(m)' = Delivered(m) /\ NetOf(m)' = NetOf(m) /\ HeldOf(m)' = HeldOf(m)
      BY <1>1 DEF Delivered, Whole, NetOf, HeldOf, Has
    <2>3. Pending(m)' \subseteq Pending(m)
      BY <2>1, <2>2 DEF Pending
    <2>. QED  BY <1>1, <1>t, <2>2, <2>3, PaidKeeps
  <1>. QED  BY <1>1, <1>3 DEF Once

\* A part goes from those not yet sent to those under way.
LEMMA SendPartPays ==
    ASSUME SendsAlone, Typed, Once, NEW t \in Thread, SendPart(t)
    PROVE  Once'
  <1>0. PICK s : s = thread[t]
    OBVIOUS
  <1>1. PICK q : q = [split |-> TRUE, id |-> s.id,
                      num |-> Header(s.num, Count(s.len, s.par)).num,
                      all |-> Header(s.num, Count(s.len, s.par)).all,
                      text |-> <<s.msg, s.num>>]
    OBVIOUS
  <1>2. /\ s.pc = "parts"
        /\ net' = net \cup {q}
        /\ thread' = [thread EXCEPT ![t] =
                            IF HasMore(s) THEN [s EXCEPT !.num = s.num + 1] ELSE Idle]
        /\ UNCHANGED <<sent, ids, msgid, msgPart, got, bad, spent>>
    BY <1>0, <1>1 DEF SendPart
  <1>3. /\ s \in Place /\ s.msg \in DOMAIN sent /\ s.num \in Nat
        /\ s.num < sent[s.msg] /\ sent[s.msg] \in Nat
    BY <1>0, <1>2 DEF Typed, TypeOK, ThreadOK, Place
  <1>4. q.text[1] = s.msg
    BY <1>1
  <1>5. /\ \A u \in Thread : u = t
        /\ thread'[t].pc # "idle" => thread'[t].msg = s.msg /\ thread'[t].num = s.num + 1
    <2>1. thread'[t] = IF HasMore(s) THEN [s EXCEPT !.num = s.num + 1] ELSE Idle
      BY <1>2 DEF Typed, TypeOK
    <2>2. SendsAlone
      OBVIOUS
    <2>. QED  BY <1>3, <2>1, <2>2 DEF SendsAlone, Idle, Place
  <1>t. spent.twice \in Nat
    BY SplitOK DEF Typed, TypeOK
  <1>6. \A m \in DOMAIN sent : Delivered(m)' = Delivered(m) /\ HeldOf(m)' = HeldOf(m)
    BY <1>2 DEF Delivered, Whole, HeldOf, Has
  <1>7. ASSUME NEW m \in DOMAIN sent, m # s.msg PROVE sent'[m] >= 1 /\ Paid(m)'
    <2>1. NetOf(m)' = NetOf(m) /\ UnsentOf(m)' \subseteq UnsentOf(m)
      BY <1>2, <1>4, <1>5, <1>7 DEF NetOf, UnsentOf
    <2>2. Pending(m)' \subseteq Pending(m)
      BY <1>6, <2>1 DEF Pending
    <2>. QED  BY <1>2, <1>6, <1>t, <2>2, PaidKeeps
  <1>8. sent'[s.msg] >= 1 /\ Paid(s.msg)'
    <2>1. s.num \in UnsentOf(s.msg) /\ s.num \notin UnsentOf(s.msg)'
      BY <1>0, <1>2, <1>3, <1>5 DEF UnsentOf
    <2>2. UnsentOf(s.msg)' \subseteq UnsentOf(s.msg)
      BY <1>0, <1>2, <1>3, <1>5 DEF UnsentOf
    <2>3. NetOf(s.msg)' \subseteq NetOf(s.msg) \cup {q}
      BY <1>2 DEF NetOf
    <2>4. <<"unsent", s.num>> \in Pending(s.msg)
      BY <2>1 DEF Pending
    <2>5. Pending(s.msg)' \subseteq (Pending(s.msg) \ {<<"unsent", s.num>>}) \cup {<<"net", q>>}
      BY <1>3, <1>6, <2>1, <2>2, <2>3 DEF Pending
    <2>6. spent' = spent /\ sent' = sent
      BY <1>2
    <2>. QED  BY <1>3, <1>6, <2>4, <2>5, <2>6, PaidMoves
  <1>9. IsFiniteSet(net')
    BY <1>2, FS_AddElement DEF Once
  <1>. QED  BY <1>2, <1>7, <1>8, <1>9 DEF Once

LEMMA InitPays == Init => Once
  <1> SUFFICES ASSUME Init PROVE Once
    OBVIOUS
  <1>1. DOMAIN sent = {} /\ net = {}
    BY DEF Init
  <1>. QED  BY <1>1, FS_EmptySet DEF Once

LEMMA StepPays ==
    ASSUME SendsAlone
    PROVE  Typed /\ Delivery /\ Once /\ [Next]_vars => Once'
  <1> SUFFICES ASSUME Typed, Delivery, Once, [Next]_vars PROVE Once'
    OBVIOUS
  <1>1. CASE \E t \in Thread : Send(t) \/ Proceed(t)
    BY <1>1, SendWholePays, ReadIdPays, WriteIdPays, SendPartPays DEF Send, Proceed
  <1>2. CASE Receive \/ Twice
    BY <1>2, ReceivePays
  <1>3. CASE Lose
    BY <1>3, LosePays
  <1>4. CASE UNCHANGED vars
    BY ZenonT(60), <1>4 DEF vars, Once, Paid, Delivered, Whole, Pending, NetOf, HeldOf, Has, UnsentOf
  <1>. QED  BY <1>1, <1>2, <1>3, <1>4 DEF Next

\* Under the same conditions a message is delivered once, but for the copies
\* the network makes of all its parts: for a second delivery of a message of n
\* parts it has to make n (combineMessage forgets what it has put together).
THEOREM NoMessageTwice ==
    ASSUME SendsAlone, IdsLast, PartsNumbered
    PROVE  Spec => []DeliversOnce
  <1>1. Typed /\ Delivery /\ Once /\ [Next]_vars => Once'
    BY StepPays
  <1>2. Typed /\ Once => DeliversOnce
    <2> SUFFICES ASSUME Typed, Once, NEW m \in DOMAIN sent
                 PROVE  Cardinality({i \in DOMAIN got : got[i] = Whole(m)}) * sent[m]
                            <= sent[m] + spent.twice
      BY DEF DeliversOnce
    <2>1. Cardinality(Delivered(m)) * sent[m] + Cardinality(Pending(m)) <= sent[m] + spent.twice
      BY DEF Once, Paid
    <2>2. /\ Cardinality(Delivered(m)) * sent[m] \in Nat /\ Cardinality(Pending(m)) \in Nat
          /\ sent[m] \in Nat /\ spent.twice \in Nat
      BY Finite, Distribute
    <2>3. Cardinality(Delivered(m)) * sent[m] <= sent[m] + spent.twice
      BY <2>1, <2>2
    <2>. QED  BY <2>3 DEF Delivered
  <1>. QED  BY AlwaysTyped, AlwaysDelivers, InitPays, <1>1, <1>2, PTL DEF Spec

=============================================================================
