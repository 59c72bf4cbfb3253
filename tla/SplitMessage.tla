---------------------------- MODULE SplitMessage ----------------------------
(***************************************************************************)
(* Messages longer than the protocol takes, cut into numbered parts        *)
(* (splitMessageSend, splitMsg) and put together by the receiver           *)
(* (combineMessage).  The threads that write to one contact share the      *)
(* counter of message ids in the database.                                 *)
(*                                                                         *)
(* Abstracted: part k of message m is the pair <<m, k>>.  The network      *)
(* delivers in any order (offline messages come by another way).           *)
(***************************************************************************)
EXTENDS Naturals, Sequences, FiniteSets, Functions

CONSTANTS
    Thread,     \* threads that send to this contact: window thread, worker
    Lengths,    \* lengths of the messages
    Pars,       \* values of split_on and split_off; 0 is "do not split"
    IdSpace,    \* message ids are counted modulo this (2^16)
    Base,       \* part numbers have two digits in this base (16)
    Nil,        \* NULL
    MaxMsg,     \* bound: messages sent
    MaxLost,    \* bound: parts lost
    MaxTwice    \* bound: parts delivered twice

ASSUME SplitOK ==
    /\ Lengths \subseteq Nat /\ Pars \subseteq Nat
    /\ IdSpace \in Nat \ {0} /\ Base \in Nat \ {0, 1}
    /\ MaxMsg \in Nat /\ MaxLost \in Nat /\ MaxTwice \in Nat
    /\ Nil \notin Nat \X Nat

VARIABLES
    sent,       \* the number of parts of each message sent so far
    ids,        \* the id it was given; IdSpace if it was sent whole
    msgid,      \* the setting "msgid"
    thread,     \* where each thread is in splitMessageSend
    net,        \* parts under way
    msgPart,    \* UinKey.msgPart: incomplete messages by id
    got,        \* messages as the receiver put them together
    bad,        \* combineMessage has left the array of parts
    spent       \* losses and duplicates so far

vars == <<sent, ids, msgid, thread, net, msgPart, got, bad, spent>>

Ids == 0 .. IdSpace - 1
Idle == [pc |-> "idle", msg |-> 0, len |-> 0, par |-> 0, id |-> 0, num |-> 0]

Init ==
    /\ sent = <<>>
    /\ ids = <<>>
    /\ msgid = 0
    /\ thread = [t \in Thread |-> Idle]
    /\ net = {}
    /\ msgPart = <<>>
    /\ got = <<>>
    /\ bad = FALSE
    /\ spent = [lost |-> 0, twice |-> 0]

Count(len, par) == (len + par - 1) \div par
Whole(m) == [k \in 1 .. sent[m] |-> <<m, k - 1>>]

\* %02X%02X, of which the text leaves the first four digits
Digits(n) ==
    IF n < Base * Base THEN <<n \div Base, n % Base>>
    ELSE <<n \div (Base * Base), (n \div Base) % Base, n % Base>>
Header(num, all) ==
    LET d == Digits(num) \o Digits(all)
    IN  [num |-> d[1] * Base + d[2], all |-> d[3] * Base + d[4]]

\* the bytes splitMsg writes: a header and a final zero for each part, one
\* zero more at the end
\* (fault: the parts have the signature of the native ones)
LEN_PART == 17

LEN_SECP == 8
Written(len, par) == len + Count(len, par) * (LEN_SECP + 8 + 1) + 1

-----------------------------------------------------------------------------
(* splitMessageSend.                                                       *)

SendWhole(t) ==
    /\ thread[t].pc = "idle" /\ Len(sent) < MaxMsg
    /\ \E len \in Lengths, par \in Pars :
        /\ par = 0 \/ len <= par
        /\ sent' = Append(sent, 1)
        /\ ids' = Append(ids, IdSpace)
        /\ net' = net \cup {[split |-> FALSE, text |-> <<Len(sent) + 1, 0>>]}
    /\ UNCHANGED <<msgid, thread, msgPart, got, bad, spent>>

\* (fault: the counter is not a WORD)
NextIdWide == msgid + 1

NextId == (msgid + 1) % IdSpace

\* splitMsg reads the counter
ReadId(t) ==
    /\ thread[t].pc = "idle" /\ Len(sent) < MaxMsg
    /\ \E len \in Lengths, par \in Pars :
        /\ par # 0 /\ len > par
        /\ sent' = Append(sent, Count(len, par))
        /\ ids' = Append(ids, NextId)
        /\ thread' = [thread EXCEPT ![t] =
                        [pc |-> "id", msg |-> Len(sent) + 1, len |-> len, par |-> par,
                         id |-> NextId, num |-> 0]]
    /\ UNCHANGED <<msgid, net, msgPart, got, bad, spent>>

\* and writes it
WriteId(t) ==
    /\ thread[t].pc = "id"
    /\ msgid' = thread[t].id
    /\ thread' = [thread EXCEPT ![t].pc = "parts"]
    /\ UNCHANGED <<sent, ids, net, msgPart, got, bad, spent>>

\* (fault: the last part is not sent)
HasMoreShort(s) == s.num + 2 < Count(s.len, s.par)

HasMore(s) == s.num + 1 < Count(s.len, s.par)

\* one part goes out
SendPart(t) ==
    /\ thread[t].pc = "parts"
    /\ LET s == thread[t]
           h == Header(s.num, Count(s.len, s.par))
       IN  /\ net' = net \cup {[split |-> TRUE, id |-> s.id, num |-> h.num, all |-> h.all,
                                text |-> <<s.msg, s.num>>]}
           /\ thread' = [thread EXCEPT ![t] =
                            IF HasMore(s) THEN [s EXCEPT !.num = s.num + 1] ELSE Idle]
    /\ UNCHANGED <<sent, ids, msgid, msgPart, got, bad, spent>>

-----------------------------------------------------------------------------
(* combineMessage.                                                         *)

\* (fault: the record is the one last looked at, whatever its id)
RecordLast(id, all) ==
    IF msgPart # <<>> THEN msgPart[CHOOSE i \in DOMAIN msgPart : TRUE]
    ELSE [i \in 0 .. all - 1 |-> Nil]

\* the record of the message id, or a new one, sized by the part at hand
Record(id, all) ==
    IF id \in DOMAIN msgPart THEN msgPart[id] ELSE [i \in 0 .. all - 1 |-> Nil]

\* (fault: the parts before the one that came are not looked at)
CompleteFrom(r, p) == \A i \in p.num .. p.all - 1 : r[i] # Nil

Complete(r, p) == \A i \in 0 .. p.all - 1 : r[i] # Nil

\* the write, or the search for a missing part, leaves the array
Outside(r, p) ==
    \/ p.num \notin DOMAIN r
    \/ /\ \A i \in DOMAIN r : i # p.num => r[i] # Nil
       /\ ~(0 .. p.all - 1 \subseteq DOMAIN r)

\* (fault: a complete message is kept)
WithoutKept(id) == msgPart

Without(id) == Restrict(msgPart, DOMAIN msgPart \ {id})
With(id, r) == [i \in DOMAIN msgPart \cup {id} |-> IF i = id THEN r ELSE msgPart[i]]

Combine(p) ==
    LET old == Record(p.id, p.all)
        r == [old EXCEPT ![p.num] = p.text]
    IN  IF Outside(old, p)
        THEN bad' = TRUE /\ UNCHANGED <<msgPart, got>>
        ELSE /\ bad' = bad
             /\ IF Complete(r, p)
                THEN /\ got' = Append(got, [k \in 1 .. p.all |-> r[k - 1]])
                     /\ msgPart' = Without(p.id)
                ELSE got' = got /\ msgPart' = With(p.id, r)

Recv(p) ==
    IF p.split THEN Combine(p)
    ELSE got' = Append(got, <<p.text>>) /\ UNCHANGED <<msgPart, bad>>

Receive ==
    /\ ~bad
    /\ \E p \in net : net' = net \ {p} /\ Recv(p)
    /\ UNCHANGED <<sent, ids, msgid, thread, spent>>

-----------------------------------------------------------------------------
(* The network.                                                            *)

Lose ==
    /\ spent.lost < MaxLost
    /\ \E p \in net : net' = net \ {p}
    /\ spent' = [spent EXCEPT !.lost = @ + 1]
    /\ UNCHANGED <<sent, ids, msgid, thread, msgPart, got, bad>>

Twice ==
    /\ spent.twice < MaxTwice
    /\ ~bad
    /\ \E p \in net : Recv(p)
    /\ spent' = [spent EXCEPT !.twice = @ + 1]
    /\ UNCHANGED <<sent, ids, msgid, thread, net>>

-----------------------------------------------------------------------------
Send(t) == SendWhole(t) \/ ReadId(t)
Proceed(t) == WriteId(t) \/ SendPart(t)

Next ==
    \/ \E t \in Thread : Send(t) \/ Proceed(t)
    \/ Receive \/ Lose \/ Twice

Spec == Init /\ [][Next]_vars

\* A thread that has begun to send goes on, and what is under way arrives.
LiveSpec ==
    /\ Spec
    /\ \A t \in Thread : WF_vars(Proceed(t))
    /\ WF_vars(Receive)

-----------------------------------------------------------------------------
Text == (1 .. MaxMsg) \X Nat
Part == [split : {FALSE}, text : Text]
        \cup [split : {TRUE}, id : Ids, num : Nat, all : Nat, text : Text]
Place == [pc : {"idle", "id", "parts"}, msg : 0 .. MaxMsg, len : Lengths \cup {0},
          par : Pars \cup {0}, id : Ids, num : Nat]

TypeOK ==
    /\ sent \in Seq(Nat) /\ Len(sent) <= MaxMsg
    /\ ids \in Seq(0 .. IdSpace) /\ Len(ids) = Len(sent)
    /\ msgid \in Ids
    /\ thread \in [Thread -> Place]
    /\ net \subseteq Part
    /\ DOMAIN msgPart \subseteq Ids
    /\ \A i \in DOMAIN msgPart : \A k \in DOMAIN msgPart[i] : msgPart[i][k] \in Text \cup {Nil}
    /\ got \in Seq(Seq(Text))
    /\ bad \in BOOLEAN
    /\ spent \in [lost : 0 .. MaxLost, twice : 0 .. MaxTwice]

\* Two messages are sent in parts under one id: the id is taken by two threads
\* at once, or comes round.
SharedId(m, n) ==
    {m, n} \subseteq DOMAIN ids /\ m # n /\ ids[m] = ids[n] /\ ids[m] # IdSpace
IdsShared == \E m, n \in DOMAIN ids : SharedId(m, n)

\* What the receiver puts together has the parts of a message that was sent, all
\* and in order, whatever is lost, doubled or late and whatever other message
\* parts are kept for; a part is another message's only if the two were given
\* one id (combineMessage).
DeliversWhole == \A g \in Range(got) : \E m \in DOMAIN sent :
    /\ Len(g) = sent[m]
    /\ \A k \in DOMAIN g : \E n \in DOMAIN sent :
        (n = m \/ SharedId(m, n)) /\ g[k] = <<n, k - 1>>

\* It is never made of parts of two messages.
DeliversSent == \A g \in Range(got) : \E m \in DOMAIN sent : g = Whole(m)

\* A message is delivered once, but for the copies the network makes of all
\* its parts (combineMessage forgets a message it has put together).
DeliversOnce ==
    \A m \in DOMAIN sent :
        Cardinality({i \in DOMAIN got : got[i] = Whole(m)}) * sent[m]
            <= sent[m] + spent.twice

\* combineMessage leaves the array it made for the parts only where two messages
\* of different numbers of parts have one id, or two digits cannot number them.
StaysInside ==
    bad => \/ \E m, n \in DOMAIN sent : SharedId(m, n) /\ sent[m] # sent[n]
           \/ \E m \in DOMAIN sent : sent[m] >= Base * Base

\* It never does.
NeverOutside == ~bad

\* splitMsg stays within the buffer it made, of twice the message's length.
BufferHolds ==
    \A t \in Thread :
        thread[t].pc # "idle" => Written(thread[t].len, thread[t].par) <= 2 * thread[t].len

\* Every message arrives, if nothing is lost and no id shared (splitMessageSend,
\* combineMessage).
EveryMessageArrives == [](spent.lost = 0 /\ ~IdsShared) =>
    \A m \in 1 .. MaxMsg : m \in DOMAIN sent ~> (m \in DOMAIN sent /\ Whole(m) \in Range(got))

=============================================================================
