------------------------- MODULE ContextPool_proofs -------------------------
(***************************************************************************)
(* For any number of contacts, contexts, threads and operations, and until *)
(* a record is used after the array has moved: a context has one holder,   *)
(* what an exchange sends goes to its contact unless a question outlived   *)
(* its context, and keys are filed under their contact.                    *)
(***************************************************************************)
EXTENDS ContextPool, SequenceTheorems, WellFoundedInduction, TLAPS

-----------------------------------------------------------------------------
(* The invariant.                                                          *)

\* A thread's pointer is into the first n records, its exchange with a contact.
PlaceOK(x, n) ==
    /\ x.pc \in {"ask", "mark", "clear"} => x.at \in 1 .. n
    /\ x.pc # "idle" => x.owner \in Contact /\ x.handle # 0
Typed ==
    /\ TypeOK
    /\ \A j \in Entry : clist[j].hContact = NoOne => clist[j].cntx = 0
    /\ \A w \in Worker : PlaceOK(worker[w], Len(clist))

\* A contact has one record.
RecordsKept ==
    \A i, j \in Entry :
        clist[i].hContact # NoOne /\ clist[i].hContact = clist[j].hContact => i = j

\* A context marked as deleted is still a contact's only while the thread that
\* marked it is about to take it from the contact.
HeldByOne ==
    \A i, j \in Entry :
        clist[i].cntx # 0 =>
            /\ clist[j].cntx = clist[i].cntx => i = j
            /\ Live(slot, clist[i].cntx)
            /\ slot[clist[i].cntx].owner = clist[i].hContact
HeldOrTaken ==
    /\ HeldByOne
    /\ \A j \in Entry : clist[j].cntx # 0 /\ slot[clist[j].cntx].deleted # 0 =>
        \E w \in Worker : /\ worker[w].pc = "clear" /\ worker[w].at = j
                          /\ worker[w].task < slot[clist[j].cntx].deleted
    /\ \A w \in Worker : worker[w].task <= spent.tasks

\* A thread's context is the one its exchange began with, until it is late.
SameExchange ==
    \A w \in Worker :
        /\ worker[w].pc # "idle" /\ ~worker[w].late =>
            Live(slot, worker[w].handle) /\ slot[worker[w].handle].owner = worker[w].owner
        /\ worker[w].pc = "look" => ~worker[w].late
SentRight == \A m \in sent : m.late \/ m.to = m.owner

\* A question is about the contact the record is of.
FiledWhileKept == ~spent.deleted => KeyFiledUnderOwner
KeysKept ==
    /\ \A w \in Worker : worker[w].pc = "ask" /\ ~spent.deleted =>
        clist[worker[w].at].hContact = worker[w].owner /\ worker[w].owner \in Contact
    /\ FiledWhileKept

Kept == RecordsKept /\ HeldOrTaken /\ SameExchange /\ KeysKept /\ SentRight

-----------------------------------------------------------------------------
LEMMA LeastIn ==
    ASSUME NEW S \in SUBSET Nat, S # {}
    PROVE  Least(S) \in S
  <1>. DEFINE Less == {ss \in Nat \X Nat : ss[1] < ss[2]}
  <1>1. IsWellFoundedOn(Less, Nat)
    BY NatLessThanWellFounded DEF OpToRel
  <1>2. \A i, j \in Nat : j < i => <<j, i>> \in Less
    OBVIOUS
  <1>. HIDE DEF Less
  <1>3. \E i \in S : \A j \in S : ~(<<j, i>> \in Less)
    BY <1>1, WFMin
  <1>4. \E i \in S : \A j \in S : i <= j
    <2>1. PICK i \in S : \A j \in S : ~(<<j, i>> \in Less)
      BY <1>3
    <2>2. ASSUME NEW j \in S PROVE i <= j
      <3>1. ~(j < i)
        BY <1>2, <2>1
      <3>. QED  BY <3>1
    <2>. QED  BY <2>2
  <1>. QED  BY <1>4 DEF Least

-----------------------------------------------------------------------------
(* The pool.                                                               *)

CounterType == [ops : 0 .. MaxOps, tasks : 0 .. MaxTasks, deleted : BOOLEAN]

LEMMA OpCounted ==
    ASSUME TypeOK, Op
    PROVE  /\ spent' \in CounterType
           /\ spent'.tasks = spent.tasks /\ spent'.deleted = spent.deleted
  <1>1. spent \in CounterType
    BY DEF TypeOK, CounterType
  <1>2. spent.ops + 1 \in 0 .. MaxOps
    BY <1>1, PoolOK DEF Op, CounterType
  <1>. QED  BY <1>1, <1>2 DEF Op, CounterType

LEMMA TaskCounted ==
    ASSUME TypeOK, Task
    PROVE  /\ spent' \in CounterType
           /\ spent'.tasks = spent.tasks + 1 /\ spent'.deleted = spent.deleted
           /\ spent.tasks + 1 \in 0 .. MaxTasks
  <1>1. spent \in CounterType
    BY DEF TypeOK, CounterType
  <1>2. spent.tasks + 1 \in 0 .. MaxTasks
    BY <1>1, PoolOK DEF Task, CounterType
  <1>. QED  BY <1>1, <1>2 DEF Task, CounterType

\* Marking a context changes its time of deletion and nothing else.
LEMMA MarkedContext ==
    ASSUME TypeOK, NEW s \in Seq(Context), NEW h
    PROVE  /\ Marked(s, h) \in Seq(Context) /\ Len(Marked(s, h)) = Len(s)
           /\ \A k \in 1 .. Len(s) :
                /\ Marked(s, h)[k].used = s[k].used
                /\ Marked(s, h)[k].owner = s[k].owner
                /\ k = h /\ s[k].used => Marked(s, h)[k].deleted = spent.tasks + 1
                /\ k # h => Marked(s, h)[k] = s[k]
  <1>1. DOMAIN s = 1 .. Len(s)
    BY LenProperties
  <1>2. CASE Live(s, h)
    <2>1. h \in 1 .. Len(s) /\ s[h] \in Context
      BY <1>1, <1>2, ElementOfSeq DEF Live
    <2>. DEFINE e == [s[h] EXCEPT !.deleted = spent.tasks + 1]
    <2>2. spent.tasks + 1 \in 0 .. MaxTasks + 1
      BY PoolOK DEF TypeOK
    <2>3. e \in Context /\ e.used = s[h].used /\ e.owner = s[h].owner
          /\ e.deleted = spent.tasks + 1
      BY <2>1, <2>2 DEF Context
    <2>4. Marked(s, h) = [s EXCEPT ![h] = e]
      BY <1>2 DEF Marked
    <2>. HIDE DEF e
    <2>5. /\ [s EXCEPT ![h] = e] \in Seq(Context)
          /\ Len([s EXCEPT ![h] = e]) = Len(s)
          /\ \A k \in 1 .. Len(s) : [s EXCEPT ![h] = e][k] = IF k = h THEN e ELSE s[k]
      BY <2>1, <2>3, ExceptSeq
    <2>. QED  BY <2>3, <2>4, <2>5
  <1>3. CASE ~Live(s, h)
    BY <1>1, <1>3 DEF Marked, Live
  <1>. QED  BY <1>2, <1>3

\* A new context takes a place that is not in use.
LEMMA CreatedContext ==
    ASSUME NEW s \in Seq(Context), Len(s) <= MaxSlot, NEW c \in Contact,
           Empty(s) # {} \/ Len(s) < MaxSlot
    PROVE  /\ Created(s, c) \in Seq(Context)
           /\ Len(Created(s, c)) <= MaxSlot
           /\ NewHandle(s) \in 1 .. MaxSlot
           /\ DOMAIN Created(s, c) = DOMAIN s \cup {NewHandle(s)}
           /\ Created(s, c)[NewHandle(s)] = [used |-> TRUE, deleted |-> 0, owner |-> c]
           /\ \A k \in DOMAIN s : k # NewHandle(s) => Created(s, c)[k] = s[k]
           /\ NewHandle(s) \in DOMAIN s => ~s[NewHandle(s)].used
  <1>1. DOMAIN s = 1 .. Len(s) /\ Len(s) \in Nat /\ MaxSlot \in Nat
    BY LenProperties, PoolOK
  <1>2. PICK new : new = [used |-> TRUE, deleted |-> 0, owner |-> c]
    OBVIOUS
  <1>3. new \in Context
    BY <1>2, PoolOK DEF Context
  <1>4. CASE Empty(s) # {}
    <2>1. PICK n : n = Least(Empty(s))
      OBVIOUS
    <2>2. n \in Empty(s)
      BY SMTT(30), <1>1, <1>4, <2>1, LeastIn DEF Empty
    <2>3. n \in 1 .. Len(s) /\ ~s[n].used
      BY <1>1, <2>2 DEF Empty
    <2>4. NewHandle(s) = n /\ Created(s, c) = [s EXCEPT ![n] = new]
      BY <1>2, <1>4, <2>1 DEF NewHandle, Created
    <2>5. /\ [s EXCEPT ![n] = new] \in Seq(Context)
          /\ Len([s EXCEPT ![n] = new]) = Len(s)
          /\ \A k \in 1 .. Len(s) : [s EXCEPT ![n] = new][k] = IF k = n THEN new ELSE s[k]
      BY <1>3, <2>3, ExceptSeq
    <2>. QED  BY <1>1, <1>2, <2>3, <2>4, <2>5
  <1>5. CASE Empty(s) = {}
    <2>1. NewHandle(s) = Len(s) + 1 /\ Created(s, c) = Append(s, new)
      BY <1>2, <1>5 DEF NewHandle, Created
    <2>2. /\ Append(s, new) \in Seq(Context)
          /\ Len(Append(s, new)) = Len(s) + 1
          /\ \A k \in 1 .. Len(s) : Append(s, new)[k] = s[k]
          /\ Append(s, new)[Len(s) + 1] = new
      BY <1>3, AppendProperties
    <2>3. DOMAIN Append(s, new) = 1 .. Len(s) + 1
      BY <2>2, LenProperties
    <2>. QED  BY <1>1, <1>2, <1>5, <2>1, <2>2, <2>3
  <1>. QED  BY <1>4, <1>5

-----------------------------------------------------------------------------
(* The records.                                                            *)

\* addContact gives the contact an unused record or one in the part that is
\* new, and leaves the others.
LEMMA AddedRecord ==
    ASSUME TypeOK, NEW c \in Contact, AddContact(c)
    PROVE  /\ clist' \in Seq(Record)
           /\ Len(clist') = Len(clist) + (IF FreeEntries # {} THEN 0 ELSE Inc)
           /\ \E n \in 1 .. Len(clist') :
                /\ clist'[n] = NewRecord(c)
                /\ n \in Entry => n \in FreeEntries
                /\ \A k \in 1 .. Len(clist') : k # n =>
                    IF k \in Entry THEN clist'[k] = clist[k] ELSE clist'[k] = EmptyRecord
  <1>1. /\ clist \in Seq(Record) /\ Len(clist) \in Nat /\ Inc \in Nat /\ Inc >= 1
        /\ DOMAIN clist = 1 .. Len(clist)
    BY LenProperties, PoolOK DEF TypeOK
  <1>2. EmptyRecord \in Record /\ NewRecord(c) \in Record
    <2>1. 0 \in 0 .. MaxSlot
      BY PoolOK
    <2>2. EmptyRecord \in Record
      BY <2>1 DEF EmptyRecord, Record
    <2>3. NewRecord(c) \in Record
      BY <2>2 DEF NewRecord, Record
    <2>. QED  BY <2>2, <2>3
  <1>3. CASE FreeEntries # {}
    <2>1. PICK n : n = Least(FreeEntries)
      OBVIOUS
    <2>2. n \in FreeEntries /\ n \in 1 .. Len(clist)
      BY <1>3, <2>1, LeastIn DEF FreeEntries, Entry
    <2>3. clist' = [clist EXCEPT ![n] = NewRecord(c)]
      BY <1>3, <2>1 DEF AddContact
    <2>4. /\ clist' \in Seq(Record) /\ Len(clist') = Len(clist)
          /\ \A k \in 1 .. Len(clist) : clist'[k] = IF k = n THEN NewRecord(c) ELSE clist[k]
      BY <1>1, <1>2, <2>2, <2>3, ExceptSeq
    <2>. QED  BY <1>1, <1>3, <2>2, <2>4 DEF Entry
  <1>4. CASE FreeEntries = {}
    <2>1. PICK more : more = [i \in 1 .. Inc |-> IF i = 1 THEN NewRecord(c) ELSE EmptyRecord]
      OBVIOUS
    <2>2. more \in Seq(Record) /\ Len(more) = Inc
          /\ \A i \in 1 .. Inc : more[i] = IF i = 1 THEN NewRecord(c) ELSE EmptyRecord
      BY <1>1, <1>2, <2>1, SeqDef
    <2>3. clist' = clist \o more
      BY <1>4, <2>1 DEF AddContact
    <2>4. /\ clist' \in Seq(Record) /\ Len(clist') = Len(clist) + Inc
          /\ \A i \in 1 .. Len(clist) + Inc :
                clist'[i] = IF i <= Len(clist) THEN clist[i] ELSE more[i - Len(clist)]
      BY <1>1, <2>2, <2>3, ConcatProperties
    <2>5. Len(clist) + 1 \in 1 .. Len(clist') /\ clist'[Len(clist) + 1] = NewRecord(c)
      BY <1>1, <2>2, <2>4
    <2>6. ASSUME NEW k \in 1 .. Len(clist'), k # Len(clist) + 1
          PROVE  IF k \in Entry THEN clist'[k] = clist[k] ELSE clist'[k] = EmptyRecord
      <3>1. CASE k \in Entry
        BY <1>1, <2>4, <3>1 DEF Entry
      <3>2. CASE k \notin Entry
        <4>1. k - Len(clist) \in 1 .. Inc /\ k - Len(clist) # 1 /\ ~(k <= Len(clist))
          BY <1>1, <2>4, <2>6, <3>2 DEF Entry
        <4>. QED  BY <1>1, <2>2, <2>4, <3>2, <4>1
      <3>. QED  BY <3>1, <3>2
    <2>. QED  BY <1>1, <1>4, <2>4, <2>5, <2>6 DEF Entry
  <1>. QED  BY <1>3, <1>4

\* A new value of one record.
LEMMA SetRecord ==
    ASSUME TypeOK, NEW j \in Entry, NEW e \in Record, clist' = [clist EXCEPT ![j] = e]
    PROVE  /\ clist' \in Seq(Record) /\ Len(clist') = Len(clist)
           /\ clist'[j] = e
           /\ \A k \in Entry : k # j => clist'[k] = clist[k]
  <1>1. clist \in Seq(Record) /\ j \in 1 .. Len(clist)
    BY DEF TypeOK, Entry
  <1>. QED  BY <1>1, ExceptSeq DEF Entry

-----------------------------------------------------------------------------
(* Types.                                                                  *)

LEMMA InitTyped == Init => Typed
  <1> SUFFICES ASSUME Init PROVE Typed
    OBVIOUS
  <1>1. /\ <<>> \in Seq(Context) /\ <<>> \in Seq(Record) /\ Len(<<>>) = 0
        /\ 0 \in 0 .. MaxSlot /\ 0 \in 0 .. MaxTasks /\ 0 \in 0 .. MaxOps /\ 0 <= MaxSlot
    BY PoolOK
  <1>2. Idle \in Place /\ Idle.pc = "idle"
    BY <1>1 DEF Idle, Place
  <1>3. rsa_pub \in [Contact \cup {NoOne} -> Contact \cup {NoOne, Nil}]
    BY DEF Init
  <1>4. spent \in [ops : 0 .. MaxOps, tasks : 0 .. MaxTasks, deleted : BOOLEAN]
    BY <1>1 DEF Init
  <1>5. TypeOK
    BY <1>1, <1>2, <1>3, <1>4 DEF Init, TypeOK
  <1>6. \A w \in Worker : worker[w] = Idle
    BY DEF Init
  <1>7. \A w \in Worker : PlaceOK(worker[w], Len(clist))
    BY <1>2, <1>6 DEF PlaceOK
  <1>8. Entry = {}
    BY <1>1 DEF Init, Entry
  <1>. QED  BY <1>5, <1>7, <1>8 DEF Typed

\* What the window thread does leaves the threads where they are.
LEMMA WindowKeepsPlaces ==
    ASSUME Typed, UNCHANGED worker, Len(clist') \in Nat, Len(clist) <= Len(clist')
    PROVE  /\ worker' \in [Worker -> Place]
           /\ \A w \in Worker : PlaceOK(worker'[w], Len(clist'))
  <1>1. Len(clist) \in Nat
    BY LenProperties DEF Typed, TypeOK
  <1>. QED  BY <1>1 DEF Typed, TypeOK, PlaceOK

LEMMA AddContactTyped ==
    ASSUME Typed, NEW c \in Contact, AddContact(c)
    PROVE  Typed'
  <1>1. TypeOK /\ Op /\ UNCHANGED <<slot, rsa_pub, worker, sent, bad>>
    BY DEF Typed, AddContact
  <1>2. Len(clist) \in Nat /\ Inc \in Nat
    BY <1>1, LenProperties, PoolOK DEF TypeOK
  <1>3. clist' \in Seq(Record) /\ Len(clist') \in Nat /\ Len(clist) <= Len(clist')
    BY <1>1, <1>2, AddedRecord
  <1>4. \A k \in 1 .. Len(clist') : clist'[k].hContact = NoOne => clist'[k].cntx = 0
    <2>1. PICK n \in 1 .. Len(clist') :
                /\ clist'[n] = NewRecord(c)
                /\ \A k \in 1 .. Len(clist') : k # n =>
                    IF k \in Entry THEN clist'[k] = clist[k] ELSE clist'[k] = EmptyRecord
      BY <1>1, AddedRecord
    <2>2. NewRecord(c).cntx = 0 /\ EmptyRecord.cntx = 0
      BY DEF NewRecord, EmptyRecord
    <2>. QED  BY <2>1, <2>2 DEF Typed
  <1>5. spent' \in CounterType
    BY <1>1, OpCounted
  <1>6. TypeOK'
    BY <1>1, <1>3, <1>5 DEF TypeOK, CounterType
  <1>. QED  BY <1>1, <1>3, <1>4, <1>6, WindowKeepsPlaces DEF Typed, Entry

\* One record and the pool change.
LEMMA RecordStepTyped ==
    ASSUME Typed, NEW j \in Entry, NEW e \in Record, e.hContact = NoOne => e.cntx = 0,
           clist' = [clist EXCEPT ![j] = e],
           slot' \in Seq(Context), Len(slot') <= MaxSlot,
           rsa_pub' \in [Contact \cup {NoOne} -> Contact \cup {NoOne, Nil}],
           spent' \in CounterType,
           UNCHANGED <<worker, sent, bad>>
    PROVE  Typed'
  <1>1. /\ clist' \in Seq(Record) /\ Len(clist') = Len(clist)
        /\ clist'[j] = e
        /\ \A k \in Entry : k # j => clist'[k] = clist[k]
    BY SetRecord DEF Typed
  <1>2. Len(clist) \in Nat
    BY LenProperties DEF Typed, TypeOK
  <1>3. TypeOK'
    BY <1>1 DEF Typed, TypeOK, CounterType
  <1>4. \A k \in Entry : clist'[k].hContact = NoOne => clist'[k].cntx = 0
    BY <1>1 DEF Typed
  <1>. QED  BY <1>1, <1>2, <1>3, <1>4, WindowKeepsPlaces DEF Typed, Entry

LEMMA DelContactTyped ==
    ASSUME Typed, NEW j \in Entry, DelContact(j)
    PROVE  Typed'
  <1>1. clist[j] \in Record /\ slot \in Seq(Context) /\ Len(slot) <= MaxSlot
    BY ElementOfSeq DEF Typed, TypeOK, Entry
  <1>2. PICK e : e = [clist[j] EXCEPT !.cntx = 0, !.hContact = NoOne]
    OBVIOUS
  <1>3. e \in Record /\ e.cntx = 0
    <2>1. 0 \in 0 .. MaxSlot
      BY PoolOK
    <2>2. [clist[j] EXCEPT !.cntx = 0] \in Record
      BY <1>1, <2>1 DEF Record
    <2>. QED  BY <1>2, <2>2 DEF Record
  <1>4. /\ clist' = [clist EXCEPT ![j] = e]
        /\ slot' = Marked(slot, clist[j].cntx)
        /\ rsa_pub' = [rsa_pub EXCEPT ![clist[j].hContact] = Nil]
        /\ UNCHANGED <<worker, sent, bad>>
    BY <1>2 DEF DelContact
  <1>5. slot' \in Seq(Context) /\ Len(slot') <= MaxSlot
    BY <1>1, <1>4, MarkedContext DEF Typed
  <1>6. rsa_pub' \in [Contact \cup {NoOne} -> Contact \cup {NoOne, Nil}]
    BY <1>4 DEF Typed, TypeOK
  <1>7. spent' \in CounterType
    <2>1. spent \in CounterType
      BY DEF Typed, TypeOK, CounterType
    <2>2. spent.ops + 1 \in 0 .. MaxOps
      BY <2>1, PoolOK DEF DelContact, CounterType
    <2>. QED  BY <2>1, <2>2 DEF DelContact, CounterType
  <1>. QED  BY <1>3, <1>4, <1>5, <1>6, <1>7, RecordStepTyped

\* createRSAcntx and resetRSAcntx: the record gets the handle of a context that
\* is new in the pool.
LEMMA NewContextTyped ==
    ASSUME Typed, NEW j \in Entry, Op, clist[j].hContact # NoOne,
           NEW s \in Seq(Context), Len(s) <= MaxSlot, Empty(s) # {} \/ Len(s) < MaxSlot,
           clist' = [clist EXCEPT ![j] = [clist[j] EXCEPT !.cntx = NewHandle(s),
                                                          !.keyLoaded = FALSE]],
           slot' = Created(s, clist[j].hContact),
           UNCHANGED <<rsa_pub, worker, sent, bad>>
    PROVE  Typed'
  <1>1. clist[j] \in Record /\ clist[j].hContact \in Contact
    <2>1. clist[j] \in Record
      BY ElementOfSeq DEF Typed, TypeOK, Entry
    <2>. QED  BY <2>1 DEF Record
  <1>2. /\ slot' \in Seq(Context) /\ Len(slot') <= MaxSlot /\ NewHandle(s) \in 0 .. MaxSlot
    <2>1. PICK c \in Contact : c = clist[j].hContact
      BY <1>1
    <2>2. /\ Created(s, c) \in Seq(Context) /\ Len(Created(s, c)) <= MaxSlot
          /\ NewHandle(s) \in 1 .. MaxSlot
      BY CreatedContext
    <2>. QED  BY <2>1, <2>2, PoolOK
  <1>3. PICK e : e = [clist[j] EXCEPT !.cntx = NewHandle(s), !.keyLoaded = FALSE]
    OBVIOUS
  <1>4. e \in Record /\ e.hContact # NoOne
    <2>1. [clist[j] EXCEPT !.cntx = NewHandle(s)] \in Record
      BY <1>1, <1>2 DEF Record
    <2>. QED  BY <1>3, <2>1 DEF Record
  <1>5. spent' \in CounterType
    BY OpCounted DEF Typed
  <1>6. rsa_pub' \in [Contact \cup {NoOne} -> Contact \cup {NoOne, Nil}]
    BY DEF Typed, TypeOK
  <1>. QED  BY <1>2, <1>3, <1>4, <1>5, <1>6, RecordStepTyped

LEMMA HasContact ==
    ASSUME Typed, NEW j \in Entry, clist[j].cntx # 0
    PROVE  clist[j].hContact \in Contact /\ clist[j].hContact # NoOne
  <1>1. clist[j] \in Record
    BY ElementOfSeq DEF Typed, TypeOK, Entry
  <1>2. clist[j].hContact # NoOne
    BY DEF Typed
  <1>. QED  BY <1>1, <1>2 DEF Record

LEMMA CreateContextTyped ==
    ASSUME Typed, NEW j \in Entry, CreateContext(j)
    PROVE  Typed'
  <1>1. slot \in Seq(Context) /\ Len(slot) <= MaxSlot
    BY DEF Typed, TypeOK
  <1>. QED  BY <1>1, NewContextTyped DEF CreateContext, HasRoom

LEMMA ResetContextTyped ==
    ASSUME Typed, NEW j \in Entry, ResetContext(j)
    PROVE  Typed'
  <1>1. PICK s : s = Marked(slot, clist[j].cntx)
    OBVIOUS
  <1>2. s \in Seq(Context) /\ Len(s) <= MaxSlot
    BY <1>1, MarkedContext DEF Typed, TypeOK
  <1>3. clist[j].hContact # NoOne
    BY HasContact DEF ResetContext
  <1>. QED  BY <1>1, <1>2, <1>3, NewContextTyped DEF ResetContext

LEMMA DeleteContextTyped ==
    ASSUME Typed, NEW j \in Entry, DeleteContext(j)
    PROVE  Typed'
  <1>1. clist[j] \in Record /\ slot \in Seq(Context) /\ Len(slot) <= MaxSlot
    BY ElementOfSeq DEF Typed, TypeOK, Entry
  <1>2. PICK e : e = [clist[j] EXCEPT !.cntx = 0, !.keyLoaded = FALSE]
    OBVIOUS
  <1>3. e \in Record /\ e.cntx = 0
    <2>1. 0 \in 0 .. MaxSlot
      BY PoolOK
    <2>2. [clist[j] EXCEPT !.cntx = 0] \in Record
      BY <1>1, <2>1 DEF Record
    <2>. QED  BY <1>2, <2>2 DEF Record
  <1>4. /\ clist' = [clist EXCEPT ![j] = e]
        /\ slot' = Marked(slot, clist[j].cntx) /\ Op
        /\ UNCHANGED <<rsa_pub, worker, sent, bad>>
    BY <1>2 DEF DeleteContext
  <1>5. slot' \in Seq(Context) /\ Len(slot') <= MaxSlot
    BY <1>1, <1>4, MarkedContext DEF Typed
  <1>6. rsa_pub' \in [Contact \cup {NoOne} -> Contact \cup {NoOne, Nil}]
    BY <1>4 DEF Typed, TypeOK
  <1>7. spent' \in CounterType
    BY <1>4, OpCounted DEF Typed
  <1>. QED  BY <1>3, <1>4, <1>5, <1>6, <1>7, RecordStepTyped

\* Freeing a context leaves the threads where they are.
LEMMA FreedPlaces ==
    ASSUME Typed, NEW h, worker' = Outlived(h)
    PROVE  /\ worker' \in [Worker -> Place]
           /\ \A w \in Worker :
                /\ PlaceOK(worker'[w], Len(clist))
                /\ worker'[w].pc = worker[w].pc /\ worker'[w].handle = worker[w].handle
                /\ worker'[w].owner = worker[w].owner /\ worker'[w].at = worker[w].at
                /\ worker'[w].task = worker[w].task
                /\ worker[w].handle = h => worker'[w].late
                /\ worker[w].handle # h => worker'[w] = worker[w]
  <1>1. ASSUME NEW w \in Worker
        PROVE  /\ worker'[w] \in Place /\ PlaceOK(worker'[w], Len(clist))
               /\ worker'[w].pc = worker[w].pc /\ worker'[w].handle = worker[w].handle
               /\ worker'[w].owner = worker[w].owner /\ worker'[w].at = worker[w].at
               /\ worker'[w].task = worker[w].task
               /\ worker[w].handle = h => worker'[w].late
               /\ worker[w].handle # h => worker'[w] = worker[w]
    <2>1. worker[w] \in Place /\ PlaceOK(worker[w], Len(clist))
      BY DEF Typed, TypeOK
    <2>2. PICK x : x = [worker[w] EXCEPT !.late = TRUE]
      OBVIOUS
    <2>3. /\ x \in Place /\ x.late /\ x.pc = worker[w].pc /\ x.handle = worker[w].handle
          /\ x.owner = worker[w].owner /\ x.at = worker[w].at /\ x.task = worker[w].task
      BY <2>1, <2>2 DEF Place
    <2>4. PlaceOK(x, Len(clist))
      BY <2>1, <2>3 DEF PlaceOK
    <2>5. worker'[w] = IF worker[w].handle = h THEN x ELSE worker[w]
      BY <2>2 DEF Outlived
    <2>. QED  BY <2>1, <2>3, <2>4, <2>5
  <1>2. worker' \in [Worker -> Place]
    <2>1. worker' = [w \in Worker |-> worker'[w]]
      BY DEF Outlived
    <2>. QED  BY <1>1, <2>1
  <1>. QED  BY <1>1, <1>2

LEMMA FreeTyped ==
    ASSUME Typed, Free
    PROVE  Typed'
  <1>1. PICK h \in Slot : slot' = [slot EXCEPT ![h] = [slot[h] EXCEPT !.used = FALSE, !.deleted = 0]]
    BY DEF Free
  <1>2. slot \in Seq(Context) /\ h \in 1 .. Len(slot) /\ slot[h] \in Context
    BY ElementOfSeq DEF Typed, TypeOK, Slot
  <1>3. [slot[h] EXCEPT !.used = FALSE, !.deleted = 0] \in Context
    <2>1. 0 \in 0 .. MaxTasks + 1
      BY PoolOK
    <2>2. [slot[h] EXCEPT !.used = FALSE] \in Context
      BY <1>2 DEF Context
    <2>. QED  BY <2>1, <2>2 DEF Context
  <1>4. slot' \in Seq(Context) /\ Len(slot') = Len(slot)
    BY <1>1, <1>2, <1>3, ExceptSeq
  <1>5. /\ worker' \in [Worker -> Place]
        /\ \A w \in Worker : PlaceOK(worker'[w], Len(clist))
    BY FreedPlaces DEF Free, Typed
  <1>. QED  BY <1>4, <1>5 DEF Free, Typed, TypeOK, Entry

-----------------------------------------------------------------------------
(* The threads.                                                            *)

\* One thread goes on.
LEMMA PlaceStep ==
    ASSUME Typed, NEW w \in Worker, NEW x \in Place, worker' = [worker EXCEPT ![w] = x],
           PlaceOK(x, Len(clist))
    PROVE  /\ worker' \in [Worker -> Place]
           /\ worker'[w] = x
           /\ \A v \in Worker : v # w => worker'[v] = worker[v]
           /\ \A v \in Worker : PlaceOK(worker'[v], Len(clist))
  BY DEF Typed, TypeOK

\* And is done.
LEMMA DoneStep ==
    ASSUME Typed, NEW w \in Worker, Done(w)
    PROVE  /\ worker' \in [Worker -> Place]
           /\ worker'[w] = Idle /\ Idle.pc = "idle" /\ Idle.task = 0
           /\ \A v \in Worker : v # w => worker'[v] = worker[v]
           /\ \A v \in Worker : PlaceOK(worker'[v], Len(clist))
  <1>1. Idle \in Place /\ Idle.pc = "idle" /\ Idle.task = 0
    <2>1. 0 \in 0 .. MaxSlot /\ 0 \in 0 .. MaxTasks
      BY PoolOK
    <2>. QED  BY <2>1 DEF Idle, Place
  <1>2. PlaceOK(Idle, Len(clist))
    BY <1>1 DEF PlaceOK
  <1>. QED  BY <1>1, <1>2, PlaceStep DEF Done

\* Or goes to another place in its callback.
LEMMA GotoStep ==
    ASSUME Typed, NEW w \in Worker,
           NEW pc \in {"inject", "refuse", "notify", "clear"},
           pc = "clear" => worker[w].pc = "mark", worker[w].pc # "idle", Goto(w, pc)
    PROVE  /\ worker' \in [Worker -> Place]
           /\ worker'[w].pc = pc
           /\ worker'[w].handle = worker[w].handle /\ worker'[w].owner = worker[w].owner
           /\ worker'[w].at = worker[w].at /\ worker'[w].size = worker[w].size
           /\ worker'[w].task = worker[w].task /\ worker'[w].late = worker[w].late
           /\ \A v \in Worker : v # w => worker'[v] = worker[v]
           /\ \A v \in Worker : PlaceOK(worker'[v], Len(clist))
  <1>1. PICK x : x = [worker[w] EXCEPT !.pc = pc]
    OBVIOUS
  <1>2. worker[w] \in Place /\ PlaceOK(worker[w], Len(clist))
    BY DEF Typed, TypeOK
  <1>3. /\ x \in Place /\ x.pc = pc
        /\ x.handle = worker[w].handle /\ x.owner = worker[w].owner
        /\ x.at = worker[w].at /\ x.size = worker[w].size /\ x.task = worker[w].task
        /\ x.late = worker[w].late
    BY <1>1, <1>2 DEF Place
  <1>4. PlaceOK(x, Len(clist))
    BY <1>2, <1>3 DEF PlaceOK
  <1>5. worker' = [worker EXCEPT ![w] = x]
    BY <1>1 DEF Goto
  <1>. QED  BY <1>3, <1>4, <1>5, PlaceStep

\* Or looks its contact up.
LEMMA FoundStep ==
    ASSUME Typed, NEW w \in Worker, NEW pc \in {"ask", "mark"}, worker[w].pc # "idle",
           WithContext(worker[w].handle) # {}, Found(w, pc)
    PROVE  /\ worker' \in [Worker -> Place]
           /\ worker'[w].pc = pc
           /\ worker'[w].handle = worker[w].handle /\ worker'[w].owner = worker[w].owner
           /\ worker'[w].at \in Entry /\ clist[worker'[w].at].cntx = worker[w].handle
           /\ worker'[w].size = Len(clist)
           /\ worker'[w].task = worker[w].task /\ worker'[w].late = worker[w].late
           /\ \A v \in Worker : v # w => worker'[v] = worker[v]
           /\ \A v \in Worker : PlaceOK(worker'[v], Len(clist))
  <1>1. PICK n : n = Least(WithContext(worker[w].handle))
    OBVIOUS
  <1>2. n \in WithContext(worker[w].handle)
    BY SMTT(30), <1>1, LeastIn DEF WithContext, Entry
  <1>3. n \in Entry /\ n \in Nat /\ Len(clist) \in Nat /\ clist[n].cntx = worker[w].handle
    BY <1>2, LenProperties DEF WithContext, Entry, Typed, TypeOK
  <1>4. PICK x : x = [worker[w] EXCEPT !.pc = pc, !.at = n, !.size = Len(clist)]
    OBVIOUS
  <1>5. worker[w] \in Place /\ PlaceOK(worker[w], Len(clist))
    BY DEF Typed, TypeOK
  <1>6. /\ x \in Place /\ x.pc = pc
        /\ x.handle = worker[w].handle /\ x.owner = worker[w].owner
        /\ x.at = n /\ x.size = Len(clist) /\ x.task = worker[w].task
        /\ x.late = worker[w].late
    BY <1>3, <1>4, <1>5 DEF Place
  <1>7. PlaceOK(x, Len(clist))
    BY <1>3, <1>5, <1>6 DEF PlaceOK, Entry
  <1>8. worker' = [worker EXCEPT ![w] = x]
    BY <1>1, <1>4 DEF Found
  <1>. QED  BY <1>3, <1>6, <1>7, <1>8, PlaceStep

LEMMA BeginTyped ==
    ASSUME Typed, NEW w \in Worker, NEW j \in Entry, Begin(w, j)
    PROVE  Typed'
  <1>1. Task /\ clist[j].cntx # 0 /\ UNCHANGED <<slot, clist, rsa_pub, sent, bad>>
    BY DEF Begin
  <1>2. PICK x : x = [Idle EXCEPT !.pc = "look", !.handle = clist[j].cntx,
                                  !.owner = clist[j].hContact, !.task = spent.tasks + 1]
    OBVIOUS
  <1>3. worker' = [worker EXCEPT ![w] = x]
    BY <1>2 DEF Begin
  <1>4. clist[j] \in Record /\ clist[j].hContact \in Contact /\ clist[j].cntx \in 0 .. MaxSlot
    <2>1. clist[j] \in Record
      BY ElementOfSeq DEF Typed, TypeOK, Entry
    <2>. QED  BY <1>1, <2>1, HasContact DEF Record
  <1>5. spent' \in CounterType /\ spent.tasks + 1 \in 0 .. MaxTasks
    BY <1>1, TaskCounted DEF Typed
  <1>6. /\ x.pc = "look" /\ x.handle = clist[j].cntx /\ x.owner = clist[j].hContact
        /\ x.at = 0 /\ x.size = 0 /\ x.task = spent.tasks + 1 /\ x \in Place
    BY <1>2, <1>4, <1>5 DEF Idle, Place
  <1>7. PlaceOK(x, Len(clist))
    BY <1>1, <1>4, <1>6 DEF PlaceOK
  <1>8. worker' \in [Worker -> Place] /\ \A v \in Worker : PlaceOK(worker'[v], Len(clist))
    BY <1>3, <1>6, <1>7, PlaceStep
  <1>. QED  BY <1>1, <1>5, <1>8 DEF Typed, TypeOK, CounterType, Entry

LEMMA FailTyped ==
    ASSUME Typed, NEW w \in Worker, NEW h \in Slot, Fail(w, h)
    PROVE  Typed'
  <1>1. Task /\ UNCHANGED <<slot, clist, rsa_pub, sent, bad>>
    BY DEF Fail
  <1>2. PICK x : x = [Idle EXCEPT !.pc = "notify", !.handle = h,
                                  !.owner = slot[h].owner, !.task = spent.tasks + 1]
    OBVIOUS
  <1>3. worker' = [worker EXCEPT ![w] = x]
    BY <1>2 DEF Fail
  <1>4. slot[h].owner \in Contact /\ h \in 0 .. MaxSlot /\ h # 0
    <2>1. slot[h] \in Context /\ Len(slot) \in Nat /\ Len(slot) <= MaxSlot
      BY ElementOfSeq, LenProperties DEF Typed, TypeOK, Slot
    <2>. QED  BY <2>1, PoolOK DEF Context, Slot
  <1>5. spent' \in CounterType /\ spent.tasks + 1 \in 0 .. MaxTasks
    BY <1>1, TaskCounted DEF Typed
  <1>6. /\ x.pc = "notify" /\ x.handle = h /\ x.owner = slot[h].owner
        /\ x.at = 0 /\ x.size = 0 /\ x.task = spent.tasks + 1 /\ x \in Place
    BY <1>2, <1>4, <1>5 DEF Idle, Place
  <1>7. PlaceOK(x, Len(clist))
    BY <1>4, <1>6 DEF PlaceOK
  <1>8. worker' \in [Worker -> Place] /\ \A v \in Worker : PlaceOK(worker'[v], Len(clist))
    BY <1>3, <1>6, <1>7, PlaceStep
  <1>. QED  BY <1>1, <1>5, <1>8 DEF Typed, TypeOK, CounterType, Entry

LEMMA LookTyped ==
    ASSUME Typed, NEW w \in Worker, Look(w)
    PROVE  Typed'
  <1>1. worker' \in [Worker -> Place] /\ \A v \in Worker : PlaceOK(worker'[v], Len(clist))
    <2>1. CASE Done(w)
      BY <2>1, DoneStep
    <2>2. CASE Goto(w, "refuse")
      BY <2>2, GotoStep DEF Look, At
    <2>3. CASE WithContext(worker[w].handle) # {} /\ Found(w, "ask")
      BY <2>3, FoundStep DEF Look, At
    <2>. QED  BY <2>1, <2>2, <2>3 DEF Look
  <1>. QED  BY <1>1 DEF Look, Typed, TypeOK, Entry

\* What a callback does to its record.
LEMMA AcceptTyped ==
    ASSUME Typed, NEW w \in Worker, Accept(w)
    PROVE  Typed'
  <1>1. worker[w].pc = "ask" /\ worker[w].at \in Entry /\ worker[w].owner \in Contact
        /\ UNCHANGED <<slot, sent, spent>>
    BY DEF Accept, At, Typed, PlaceOK, Entry
  <1>2. worker' \in [Worker -> Place] /\ \A v \in Worker : PlaceOK(worker'[v], Len(clist))
    <2>1. CASE Done(w)
      BY <2>1, DoneStep
    <2>2. CASE Goto(w, "inject")
      BY <1>1, <2>2, GotoStep
    <2>. QED  BY <2>1, <2>2 DEF Accept
  <1>3. CASE Dangling(w)
    <2>1. bad' = TRUE /\ UNCHANGED <<rsa_pub, clist>>
      BY <1>3 DEF Accept
    <2>. QED  BY <1>1, <1>2, <2>1 DEF Typed, TypeOK, Entry
  <1>4. CASE ~Dangling(w)
    <2>1. PICK j \in Entry : j = worker[w].at
      BY <1>1
    <2>2. PICK e : e = [clist[j] EXCEPT !.keyLoaded = TRUE]
      OBVIOUS
    <2>3. clist[j] \in Record
      BY ElementOfSeq DEF Typed, TypeOK, Entry
    <2>4. e \in Record /\ e.hContact = clist[j].hContact /\ e.cntx = clist[j].cntx
      BY <2>2, <2>3 DEF Record
    <2>5. /\ clist' = [clist EXCEPT ![j] = e] /\ bad' = bad
          /\ rsa_pub' = [rsa_pub EXCEPT ![clist[j].hContact] = worker[w].owner]
      BY <1>4, <2>1, <2>2 DEF Accept
    <2>6. rsa_pub' \in [Contact \cup {NoOne} -> Contact \cup {NoOne, Nil}]
      BY <1>1, <2>5 DEF Typed, TypeOK
    <2>7. /\ clist' \in Seq(Record) /\ Len(clist') = Len(clist)
          /\ clist'[j] = e
          /\ \A k \in Entry : k # j => clist'[k] = clist[k]
      BY <2>4, <2>5, SetRecord DEF Typed
    <2>8. \A k \in Entry : clist'[k].hContact = NoOne => clist'[k].cntx = 0
      BY <2>4, <2>7 DEF Typed
    <2>. QED  BY <1>1, <1>2, <2>5, <2>6, <2>7, <2>8 DEF Typed, TypeOK, Entry
  <1>. QED  BY <1>3, <1>4

LEMMA RefuseTyped ==
    ASSUME Typed, NEW w \in Worker, Refuse(w)
    PROVE  Typed'
  <1>1. worker' \in [Worker -> Place] /\ \A v \in Worker : PlaceOK(worker'[v], Len(clist))
    BY GotoStep DEF Refuse, At
  <1>. QED  BY <1>1 DEF Refuse, Typed, TypeOK, Entry

\* A message goes to the holder of the thread's context.
LEMMA Injected ==
    ASSUME Typed, NEW w \in Worker, Inject(w), NEW m \in sent', m \notin sent
    PROVE  /\ m.owner = worker[w].owner /\ m.owner \in Contact /\ m.late = worker[w].late
           /\ \E j \in Entry : clist[j].cntx = worker[w].handle /\ m.to = clist[j].hContact
           /\ m \in [owner : Contact, to : Contact, late : BOOLEAN]
  <1>1. PICK j \in {Least(s) : s \in {WithContext(worker[w].handle)} \ {{}}} :
            m = [owner |-> worker[w].owner, to |-> clist[j].hContact, late |-> worker[w].late]
    BY DEF Inject
  <1>2. j = Least(WithContext(worker[w].handle)) /\ WithContext(worker[w].handle) # {}
    BY <1>1
  <1>3. j \in WithContext(worker[w].handle)
    BY <1>2, LeastIn DEF WithContext, Entry
  <1>4. j \in Entry /\ clist[j].cntx = worker[w].handle
    BY <1>3 DEF WithContext
  <1>5. worker[w].owner \in Contact /\ worker[w].handle # 0
    BY DEF Inject, At, Typed, PlaceOK
  <1>6. clist[j].hContact \in Contact
    BY <1>4, <1>5, HasContact
  <1>7. worker[w].late \in BOOLEAN
    BY DEF Typed, TypeOK, Place
  <1>. QED  BY <1>1, <1>4, <1>5, <1>6, <1>7

LEMMA InjectTyped ==
    ASSUME Typed, NEW w \in Worker, Inject(w)
    PROVE  Typed'
  <1>1. worker' \in [Worker -> Place] /\ \A v \in Worker : PlaceOK(worker'[v], Len(clist))
    <2>1. CASE Done(w)
      BY <2>1, DoneStep
    <2>2. CASE Goto(w, "notify")
      BY <2>2, GotoStep DEF Inject, At
    <2>. QED  BY <2>1, <2>2 DEF Inject
  <1>2. sent' \subseteq [owner : Contact, to : Contact, late : BOOLEAN]
    BY Injected DEF Typed, TypeOK
  <1>. QED  BY <1>1, <1>2 DEF Inject, Typed, TypeOK, Entry

LEMMA NotifyTyped ==
    ASSUME Typed, NEW w \in Worker, Notify(w)
    PROVE  Typed'
  <1>1. worker' \in [Worker -> Place] /\ \A v \in Worker : PlaceOK(worker'[v], Len(clist))
    <2>1. CASE Done(w)
      BY <2>1, DoneStep
    <2>2. CASE WithContext(worker[w].handle) # {} /\ Found(w, "mark")
      BY <2>2, FoundStep DEF Notify, At
    <2>. QED  BY <2>1, <2>2 DEF Notify
  <1>. QED  BY <1>1 DEF Notify, Typed, TypeOK, Entry

LEMMA MarkTyped ==
    ASSUME Typed, NEW w \in Worker, Mark(w)
    PROVE  Typed'
  <1>1. worker' \in [Worker -> Place] /\ \A v \in Worker : PlaceOK(worker'[v], Len(clist))
    <2>1. CASE Done(w)
      BY <2>1, DoneStep
    <2>2. CASE Goto(w, "clear")
      BY <2>2, GotoStep DEF Mark, At
    <2>. QED  BY <2>1, <2>2 DEF Mark
  <1>2. slot' \in Seq(Context) /\ Len(slot') <= MaxSlot /\ bad' \in BOOLEAN
    <2>1. slot \in Seq(Context) /\ Len(slot) <= MaxSlot /\ bad \in BOOLEAN
      BY DEF Typed, TypeOK
    <2>2. CASE Dangling(w)
      BY <2>1, <2>2 DEF Mark
    <2>3. CASE ~Dangling(w)
      <3>1. slot' = Marked(slot, clist[worker[w].at].cntx) /\ bad' = bad
        BY <2>3 DEF Mark
      <3>. QED  BY <2>1, <3>1, MarkedContext DEF Typed
    <2>. QED  BY <2>2, <2>3
  <1>. QED  BY <1>1, <1>2 DEF Mark, Typed, TypeOK, Entry

LEMMA ClearTyped ==
    ASSUME Typed, NEW w \in Worker, Clear(w)
    PROVE  Typed'
  <1>1. /\ worker' \in [Worker -> Place] /\ \A v \in Worker : PlaceOK(worker'[v], Len(clist))
        /\ UNCHANGED <<slot, rsa_pub, sent, spent>>
    BY DoneStep DEF Clear
  <1>2. CASE Dangling(w)
    <2>1. bad' = TRUE /\ clist' = clist
      BY <1>2 DEF Clear
    <2>. QED  BY <1>1, <2>1 DEF Typed, TypeOK, Entry
  <1>3. CASE ~Dangling(w)
    <2>1. PICK j \in Entry : j = worker[w].at
      BY DEF Clear, At, Typed, PlaceOK, Entry
    <2>2. PICK e : e = [clist[j] EXCEPT !.cntx = 0, !.keyLoaded = FALSE]
      OBVIOUS
    <2>3. clist[j] \in Record /\ 0 \in 0 .. MaxSlot
      BY ElementOfSeq, PoolOK DEF Typed, TypeOK, Entry
    <2>4. e \in Record /\ e.cntx = 0
      <3>1. [clist[j] EXCEPT !.cntx = 0] \in Record
        BY <2>3 DEF Record
      <3>. QED  BY <2>2, <3>1 DEF Record
    <2>5. clist' = [clist EXCEPT ![j] = e] /\ bad' = bad
      BY <1>3, <2>1, <2>2 DEF Clear
    <2>6. /\ clist' \in Seq(Record) /\ Len(clist') = Len(clist)
          /\ clist'[j] = e
          /\ \A k \in Entry : k # j => clist'[k] = clist[k]
      BY <2>4, <2>5, SetRecord DEF Typed
    <2>7. \A k \in Entry : clist'[k].hContact = NoOne => clist'[k].cntx = 0
      BY <2>4, <2>6 DEF Typed
    <2>. QED  BY <1>1, <2>5, <2>6, <2>7 DEF Typed, TypeOK, Entry
  <1>. QED  BY <1>2, <1>3

LEMMA StepTyped == Typed /\ [Next]_vars => Typed'
  <1> SUFFICES ASSUME Typed, [Next]_vars PROVE Typed'
    OBVIOUS
  <1>1. CASE Window
    BY <1>1, AddContactTyped, DelContactTyped, CreateContextTyped, ResetContextTyped,
       DeleteContextTyped, BeginTyped DEF Window
  <1>2. CASE Free
    BY <1>2, FreeTyped
  <1>3. ASSUME NEW w \in Worker, CallBack(w) PROVE Typed'
    BY <1>3, LookTyped, AcceptTyped, RefuseTyped, InjectTyped, NotifyTyped, MarkTyped,
       ClearTyped DEF CallBack
  <1>4. ASSUME NEW w \in Worker, NEW h \in Slot, Fail(w, h) PROVE Typed'
    BY <1>4, FailTyped
  <1>5. CASE UNCHANGED vars
    BY <1>5 DEF vars, Typed, TypeOK, Entry
  <1>. QED  BY <1>1, <1>2, <1>3, <1>4, <1>5 DEF Next

LEMMA AlwaysTyped == Spec => []Typed
  BY InitTyped, StepTyped, PTL DEF Spec

\* Contexts, records, settings and threads have the types cpp_cntx.cpp and
\* crypt_lists.cpp give them, and the bounds are kept.
THEOREM TypeCorrect == Spec => []TypeOK
  <1>1. Typed => TypeOK
    BY DEF Typed
  <1>. QED  BY AlwaysTyped, <1>1, PTL

-----------------------------------------------------------------------------
(* What keeps the invariant.                                               *)

\* As long as no record gets a contact.
LEMMA SameRecords ==
    ASSUME RecordsKept, Len(clist') = Len(clist),
           \A k \in Entry : clist'[k].hContact \in {clist[k].hContact, NoOne}
    PROVE  RecordsKept'
  BY DEF RecordsKept, Entry

\* As long as no record gets a context, and the contexts of records stay.
LEMMA SameHolders ==
    ASSUME HeldOrTaken,
           \A j \in 1 .. Len(clist') : clist'[j].cntx # 0 =>
                /\ j \in Entry
                /\ clist'[j].cntx = clist[j].cntx /\ clist'[j].hContact = clist[j].hContact
                /\ clist[j].cntx \in DOMAIN slot'
                /\ slot'[clist[j].cntx] = slot[clist[j].cntx]
                /\ \A w \in Worker : worker[w].pc = "clear" /\ worker[w].at = j =>
                        worker'[w] = worker[w],
           \A w \in Worker : worker'[w].task <= spent'.tasks
    PROVE  HeldOrTaken'
  <1>1. HeldByOne'
    BY DEF HeldOrTaken, HeldByOne, Live, Entry
  <1>2. ASSUME NEW j \in 1 .. Len(clist'), clist'[j].cntx # 0,
               slot'[clist'[j].cntx].deleted # 0
        PROVE  \E w \in Worker : /\ worker'[w].pc = "clear" /\ worker'[w].at = j
                                 /\ worker'[w].task < slot'[clist'[j].cntx].deleted
    <2>1. PICK w \in Worker : /\ worker[w].pc = "clear" /\ worker[w].at = j
                              /\ worker[w].task < slot[clist[j].cntx].deleted
      BY <1>2 DEF HeldOrTaken
    <2>2. worker'[w] = worker[w] /\ slot'[clist'[j].cntx] = slot[clist[j].cntx]
      BY <1>2, <2>1
    <2>. QED  BY <2>1, <2>2
  <1>. QED  BY <1>1, <1>2 DEF HeldOrTaken, Entry

\* As long as contexts in use stay and threads keep theirs.
LEMMA SameExchanges ==
    ASSUME SameExchange,
           \A h \in DOMAIN slot : slot[h].used =>
                h \in DOMAIN slot' /\ slot'[h].used /\ slot'[h].owner = slot[h].owner,
           \A w \in Worker : worker'[w].pc # "idle" =>
                /\ worker[w].pc # "idle"
                /\ worker'[w].handle = worker[w].handle /\ worker'[w].owner = worker[w].owner
                /\ worker'[w].late = worker[w].late
                /\ worker'[w].pc = "look" => worker[w].pc = "look"
    PROVE  SameExchange'
  <1> SUFFICES ASSUME NEW w \in Worker, worker'[w].pc # "idle"
               PROVE  /\ ~worker'[w].late =>
                            /\ Live(slot', worker'[w].handle)
                            /\ slot'[worker'[w].handle].owner = worker'[w].owner
                      /\ worker'[w].pc = "look" => ~worker'[w].late
    BY DEF SameExchange
  <1>1. ~worker[w].late =>
            Live(slot, worker[w].handle) /\ slot[worker[w].handle].owner = worker[w].owner
    BY DEF SameExchange
  <1>2. worker'[w].pc = "look" => ~worker'[w].late
    BY DEF SameExchange
  <1>. QED  BY <1>1, <1>2 DEF Live

\* As long as no key is stored and nobody begins to ask.
LEMMA SameKeys ==
    ASSUME KeysKept, rsa_pub' = rsa_pub, spent.deleted \in BOOLEAN,
           spent.deleted => spent'.deleted,
           \A w \in Worker : worker'[w].pc = "ask" /\ ~spent'.deleted =>
                /\ worker'[w] = worker[w]
                /\ clist'[worker[w].at].hContact = clist[worker[w].at].hContact
    PROVE  KeysKept'
  BY DEF KeysKept, FiledWhileKept, KeyFiledUnderOwner

LEMMA CounterFacts ==
    ASSUME TypeOK
    PROVE  /\ spent.deleted \in BOOLEAN /\ spent.tasks \in Nat
           /\ \A w \in Worker : worker[w].task \in Nat
           /\ DOMAIN slot = 1 .. Len(slot) /\ Len(slot) \in Nat /\ Len(clist) \in Nat
           /\ \A h \in DOMAIN slot : slot[h] \in Context
           /\ \A j \in Entry : clist[j] \in Record
  <1>1. spent \in [ops : 0 .. MaxOps, tasks : 0 .. MaxTasks, deleted : BOOLEAN]
        /\ slot \in Seq(Context) /\ clist \in Seq(Record)
    BY DEF TypeOK
  <1>2. \A w \in Worker : worker[w] \in Place
    BY DEF TypeOK
  <1>3. \A w \in Worker : worker[w].task \in Nat
    BY <1>2, PoolOK DEF Place
  <1>. QED  BY <1>1, <1>3, LenProperties, ElementOfSeq, PoolOK DEF Entry

\* What marks a context of a record leaves those of others.
LEMMA OthersUnmarked ==
    ASSUME Typed, HeldOrTaken, NEW j \in Entry, NEW s, s = Marked(slot, clist[j].cntx)
    PROVE  /\ s \in Seq(Context) /\ Len(s) = Len(slot) /\ DOMAIN s = DOMAIN slot
           /\ \A h \in DOMAIN slot : s[h].used = slot[h].used /\ s[h].owner = slot[h].owner
           /\ \A k \in Entry : k # j /\ clist[k].cntx # 0 =>
                clist[k].cntx \in DOMAIN slot /\ s[clist[k].cntx] = slot[clist[k].cntx]
  <1>1. slot \in Seq(Context) /\ DOMAIN slot = 1 .. Len(slot)
    BY LenProperties DEF Typed, TypeOK
  <1>2. /\ s \in Seq(Context) /\ Len(s) = Len(slot)
        /\ \A k \in 1 .. Len(slot) :
                /\ s[k].used = slot[k].used /\ s[k].owner = slot[k].owner
                /\ k # clist[j].cntx => s[k] = slot[k]
    BY <1>1, MarkedContext DEF Typed
  <1>3. DOMAIN s = 1 .. Len(s)
    BY <1>2, LenProperties
  <1>4. \A k \in Entry : k # j /\ clist[k].cntx # 0 =>
            clist[k].cntx \in DOMAIN slot /\ clist[k].cntx # clist[j].cntx
    BY DEF HeldOrTaken, HeldByOne, Live
  <1>. QED  BY <1>1, <1>2, <1>3, <1>4

-----------------------------------------------------------------------------
(* The window thread.                                                      *)

LEMMA AddContactKeeps ==
    ASSUME Typed, Kept, NEW c \in Contact, AddContact(c)
    PROVE  Kept'
  <1>1. /\ Op /\ \A j \in Entry : clist[j].hContact # c
        /\ UNCHANGED <<slot, rsa_pub, worker, sent, bad>>
    BY DEF AddContact
  <1>2. /\ Len(clist) \in Nat /\ spent.tasks \in Nat /\ spent.deleted \in BOOLEAN
        /\ spent'.tasks = spent.tasks /\ spent'.deleted = spent.deleted
        /\ Inc \in Nat /\ Inc # 0 /\ c # NoOne
    BY <1>1, CounterFacts, OpCounted, PoolOK DEF Typed
  <1>3. Len(clist') = Len(clist) + (IF FreeEntries # {} THEN 0 ELSE Inc)
    BY AddedRecord DEF Typed
  <1>4. PICK n \in 1 .. Len(clist') :
            /\ clist'[n] = NewRecord(c)
            /\ n \in Entry => n \in FreeEntries
            /\ \A k \in 1 .. Len(clist') : k # n =>
                IF k \in Entry THEN clist'[k] = clist[k] ELSE clist'[k] = EmptyRecord
    BY AddedRecord DEF Typed
  <1>5. /\ NewRecord(c).hContact = c /\ NewRecord(c).cntx = 0
        /\ EmptyRecord.hContact = NoOne /\ EmptyRecord.cntx = 0
    BY DEF NewRecord, EmptyRecord
  <1>7. RecordsKept'
    <2>1. \A k \in 1 .. Len(clist') : k # n /\ clist'[k].hContact # NoOne =>
            k \in Entry /\ clist'[k] = clist[k] /\ clist'[k].hContact # c
      BY <1>1, <1>4, <1>5
    <2>2. \A i, j \in 1 .. Len(clist') :
            clist'[i].hContact # NoOne /\ clist'[i].hContact = clist'[j].hContact => i = j
      BY <1>2, <1>4, <1>5, <2>1 DEF Kept, RecordsKept
    <2>. QED  BY <2>2 DEF RecordsKept, Entry
  <1>8. HeldOrTaken'
    <2>1. \A j \in 1 .. Len(clist') : clist'[j].cntx # 0 => j \in Entry /\ clist'[j] = clist[j]
      BY <1>4, <1>5
    <2>2. \A j \in Entry : clist[j].cntx # 0 => clist[j].cntx \in DOMAIN slot
      BY DEF Kept, HeldOrTaken, HeldByOne, Live
    <2>3. \A w \in Worker : worker'[w].task <= spent'.tasks
      BY <1>1, <1>2 DEF Kept, HeldOrTaken
    <2>. QED  BY <1>1, <2>1, <2>2, <2>3, SameHolders DEF Kept
  <1>9. SameExchange'
    BY <1>1 DEF Kept, SameExchange, Live
  <1>10. KeysKept'
    <2>1. ASSUME NEW w \in Worker, worker'[w].pc = "ask", ~spent'.deleted
          PROVE  clist'[worker[w].at].hContact = clist[worker[w].at].hContact
      <3>1. /\ worker[w].at \in Entry /\ clist[worker[w].at].hContact \in Contact
        BY <1>1, <1>2, <2>1 DEF Typed, PlaceOK, Entry, Kept, KeysKept
      <3>2. worker[w].at # n /\ worker[w].at \in 1 .. Len(clist')
        BY <1>2, <1>3, <1>4, <3>1, PoolOK DEF FreeEntries, Entry
      <3>. QED  BY <1>4, <3>1, <3>2
    <2>. QED  BY <1>1, <1>2, <2>1, SameKeys DEF Kept
  <1>. QED  BY <1>1, <1>7, <1>8, <1>9, <1>10 DEF Kept, SentRight

\* A record loses its context, which is marked (delContact, deleteRSAcntx).
LEMMA DropKeeps ==
    ASSUME Typed, Kept, NEW j \in Entry, NEW e \in Record, e.cntx = 0,
           e.hContact \in {clist[j].hContact, NoOne},
           e.hContact = NoOne => spent'.deleted,
           spent'.tasks = spent.tasks, spent.deleted => spent'.deleted,
           clist' = [clist EXCEPT ![j] = e], slot' = Marked(slot, clist[j].cntx),
           UNCHANGED <<worker, sent, bad>>,
           rsa_pub' = rsa_pub \/ spent'.deleted
    PROVE  Kept'
  <1>1. /\ Len(clist') = Len(clist) /\ clist'[j] = e
        /\ \A k \in Entry : k # j => clist'[k] = clist[k]
    BY SetRecord DEF Typed
  <1>2. spent.tasks \in Nat /\ spent.deleted \in BOOLEAN
    BY CounterFacts DEF Typed
  <1>3. RecordsKept'
    BY <1>1, SameRecords DEF Kept, RecordsKept
  <1>4. HeldOrTaken'
    <2>1. HeldOrTaken /\ \A w \in Worker : worker'[w].task <= spent'.tasks
      BY DEF Kept, HeldOrTaken
    <2>2. ASSUME NEW k \in 1 .. Len(clist'), clist'[k].cntx # 0
          PROVE  /\ k \in Entry /\ clist'[k] = clist[k]
                 /\ clist[k].cntx \in DOMAIN slot'
                 /\ slot'[clist[k].cntx] = slot[clist[k].cntx]
      <3>1. k \in Entry /\ k # j
        BY <1>1, <2>2 DEF Entry
      <3>2. clist'[k] = clist[k]
        BY <1>1, <3>1
      <3>. QED  BY <2>1, <2>2, <3>1, <3>2, OthersUnmarked
    <2>. QED  BY <2>1, <2>2, SameHolders
  <1>5. SameExchange'
    <2>1. DOMAIN slot' = DOMAIN slot
          /\ \A h \in DOMAIN slot : slot'[h].used = slot[h].used /\ slot'[h].owner = slot[h].owner
      BY OthersUnmarked DEF Kept
    <2>. QED  BY <2>1, SameExchanges DEF Kept
  <1>6. KeysKept'
    <2>1. CASE spent'.deleted
      BY <2>1 DEF KeysKept, FiledWhileKept
    <2>2. CASE ~spent'.deleted
      <3>1. \A k \in Entry : clist'[k].hContact = clist[k].hContact
        BY <1>1, <2>2
      <3>2. \A w \in Worker : worker'[w].pc = "ask" => worker[w].at \in Entry
        BY DEF Typed, PlaceOK, Entry
      <3>. QED  BY <1>2, <2>2, <3>1, <3>2, SameKeys DEF Kept
    <2>. QED  BY <2>1, <2>2
  <1>. QED  BY <1>3, <1>4, <1>5, <1>6 DEF Kept, SentRight

LEMMA DelContactKeeps ==
    ASSUME Typed, Kept, NEW j \in Entry, DelContact(j)
    PROVE  Kept'
  <1>1. PICK e : e = [clist[j] EXCEPT !.cntx = 0, !.hContact = NoOne]
    OBVIOUS
  <1>2. clist[j] \in Record /\ 0 \in 0 .. MaxSlot
    BY CounterFacts, PoolOK DEF Typed
  <1>3. e \in Record /\ e.cntx = 0 /\ e.hContact = NoOne
    <2>1. [clist[j] EXCEPT !.cntx = 0] \in Record
      BY <1>2 DEF Record
    <2>. QED  BY <1>1, <2>1 DEF Record
  <1>4. spent'.deleted /\ spent'.tasks = spent.tasks
    BY DEF DelContact, Typed, TypeOK
  <1>. QED  BY <1>1, <1>3, <1>4, DropKeeps DEF DelContact

LEMMA DeleteContextKeeps ==
    ASSUME Typed, Kept, NEW j \in Entry, DeleteContext(j)
    PROVE  Kept'
  <1>1. PICK e : e = [clist[j] EXCEPT !.cntx = 0, !.keyLoaded = FALSE]
    OBVIOUS
  <1>2. clist[j] \in Record /\ 0 \in 0 .. MaxSlot
    BY CounterFacts, PoolOK DEF Typed
  <1>3. e \in Record /\ e.cntx = 0 /\ e.hContact = clist[j].hContact
    <2>1. [clist[j] EXCEPT !.cntx = 0] \in Record
      BY <1>2 DEF Record
    <2>. QED  BY <1>1, <1>2, <2>1 DEF Record
  <1>4. spent'.deleted = spent.deleted /\ spent'.tasks = spent.tasks
    BY OpCounted DEF DeleteContext, Typed
  <1>5. clist[j].hContact # NoOne
    BY HasContact DEF DeleteContext
  <1>. QED  BY <1>1, <1>3, <1>4, <1>5, DropKeeps DEF DeleteContext

\* createRSAcntx and resetRSAcntx: a new context is nobody else's.
LEMMA NewContextKeeps ==
    ASSUME Typed, Kept, NEW j \in Entry, Op, clist[j].hContact # NoOne,
           NEW s \in Seq(Context), Len(s) = Len(slot), Empty(s) # {} \/ Len(s) < MaxSlot,
           \A h \in DOMAIN slot : s[h].used = slot[h].used /\ s[h].owner = slot[h].owner,
           \A k \in Entry : k # j /\ clist[k].cntx # 0 =>
                clist[k].cntx \in DOMAIN slot /\ s[clist[k].cntx] = slot[clist[k].cntx],
           clist' = [clist EXCEPT ![j] = [clist[j] EXCEPT !.cntx = NewHandle(s),
                                                          !.keyLoaded = FALSE]],
           slot' = Created(s, clist[j].hContact),
           UNCHANGED <<rsa_pub, worker, sent, bad>>
    PROVE  Kept'
  <1>1. PICK c \in Contact : c = clist[j].hContact
    BY CounterFacts DEF Typed, Record
  <1>2. PICK n : n = NewHandle(s)
    OBVIOUS
  <1>3. Len(s) <= MaxSlot /\ DOMAIN s = DOMAIN slot
    BY CounterFacts, LenProperties DEF Typed, TypeOK
  <1>4. /\ n \in 1 .. MaxSlot /\ n # 0 /\ DOMAIN slot' = DOMAIN slot \cup {n}
        /\ slot'[n] = [used |-> TRUE, deleted |-> 0, owner |-> c]
        /\ \A k \in DOMAIN slot : k # n => slot'[k] = s[k]
        /\ n \in DOMAIN slot => ~s[n].used
        /\ slot'[n].used /\ slot'[n].deleted = 0 /\ slot'[n].owner = c
    <2>1. /\ NewHandle(s) \in 1 .. MaxSlot
          /\ DOMAIN Created(s, c) = DOMAIN s \cup {NewHandle(s)}
          /\ Created(s, c)[NewHandle(s)] = [used |-> TRUE, deleted |-> 0, owner |-> c]
          /\ \A k \in DOMAIN s : k # NewHandle(s) => Created(s, c)[k] = s[k]
          /\ NewHandle(s) \in DOMAIN s => ~s[NewHandle(s)].used
      BY <1>3, CreatedContext
    <2>2. slot' = Created(s, c)
      BY <1>1
    <2>3. slot'[n] = [used |-> TRUE, deleted |-> 0, owner |-> c]
      BY <1>2, <2>1, <2>2
    <2>. QED  BY <1>2, <1>3, <2>1, <2>2, <2>3
  <1>5. PICK e : e = [clist[j] EXCEPT !.cntx = n, !.keyLoaded = FALSE]
    OBVIOUS
  <1>6. e \in Record /\ e.cntx = n /\ e.hContact = c
    <2>1. clist[j] \in Record /\ n \in 0 .. MaxSlot
      BY <1>4, CounterFacts, PoolOK DEF Typed
    <2>2. [clist[j] EXCEPT !.cntx = n] \in Record
      BY <2>1 DEF Record
    <2>. QED  BY <1>1, <1>5, <2>1, <2>2 DEF Record
  <1>7. /\ Len(clist') = Len(clist) /\ clist'[j] = e
        /\ \A k \in Entry : k # j => clist'[k] = clist[k]
    <2>1. clist' = [clist EXCEPT ![j] = e]
      BY <1>2, <1>5
    <2>. QED  BY ZenonT(60), <1>6, <2>1, SetRecord DEF Typed
  <1>8. /\ spent'.tasks = spent.tasks /\ spent'.deleted = spent.deleted
        /\ spent.tasks \in Nat /\ spent.deleted \in BOOLEAN
    BY OpCounted, CounterFacts DEF Typed
  <1>9. \A k \in Entry : clist'[k].hContact = clist[k].hContact
    BY <1>1, <1>6, <1>7
  <1>10. RecordsKept'
    BY <1>7, <1>9, SameRecords DEF Kept, RecordsKept
  <1>11. \A k \in Entry : k # j /\ clist[k].cntx # 0 =>
            /\ clist[k].cntx # n /\ clist[k].cntx \in DOMAIN slot'
            /\ slot'[clist[k].cntx] = slot[clist[k].cntx]
    <2>1. \A k \in Entry : clist[k].cntx # 0 => slot[clist[k].cntx].used
      BY DEF Kept, HeldOrTaken, HeldByOne, Live
    <2>. QED  BY <1>4, <2>1
  <1>12. HeldOrTaken'
    <2>1. HeldOrTaken
      BY DEF Kept
    <2>2. ASSUME NEW k \in Entry, k # j, clist[k].cntx # 0
          PROVE  /\ slot[clist[k].cntx].used
                 /\ slot[clist[k].cntx].owner = clist[k].hContact
                 /\ \A m \in Entry : clist[m].cntx = clist[k].cntx => k = m
      BY <2>1, <2>2 DEF HeldOrTaken, HeldByOne, Live
    <2>3. HeldByOne'
      <3> SUFFICES ASSUME NEW k \in Entry, NEW m \in Entry, clist'[k].cntx # 0
                   PROVE  /\ clist'[m].cntx = clist'[k].cntx => k = m
                          /\ Live(slot', clist'[k].cntx)
                          /\ slot'[clist'[k].cntx].owner = clist'[k].hContact
        BY <1>7 DEF HeldByOne, Entry
      <3>1. CASE k = j
        <4>0. clist'[k].cntx = n /\ clist'[k].hContact = c
          BY <1>6, <1>7, <3>1
        <4>1. Live(slot', n) /\ slot'[n].owner = c
          BY <1>4 DEF Live
        <4>2. m # k => clist'[m].cntx # n
          <5>1. m # k => clist'[m] = clist[m]
            BY <1>7, <3>1
          <5>. QED  BY <1>4, <1>11, <3>1, <5>1
        <4>. QED  BY <4>0, <4>1, <4>2
      <3>2. CASE k # j
        <4>1. clist'[k] = clist[k] /\ clist[k].cntx # 0
          BY <1>7, <3>2
        <4>2. clist'[m].cntx = clist'[k].cntx => k = m
          <5>1. CASE m = j
            BY <1>6, <1>7, <1>11, <3>2, <4>1, <5>1
          <5>2. CASE m # j
            BY <1>7, <2>2, <3>2, <4>1, <5>2
          <5>. QED  BY <5>1, <5>2
        <4>. QED  BY <1>11, <2>2, <3>2, <4>1, <4>2 DEF Live
      <3>. QED  BY <3>1, <3>2
    <2>4. ASSUME NEW k \in Entry, clist'[k].cntx # 0, slot'[clist'[k].cntx].deleted # 0
          PROVE  \E w \in Worker : /\ worker'[w].pc = "clear" /\ worker'[w].at = k
                                   /\ worker'[w].task < slot'[clist'[k].cntx].deleted
      <3>1. k # j
        BY <1>4, <1>6, <1>7, <2>4
      <3>2. clist'[k] = clist[k] /\ slot'[clist[k].cntx] = slot[clist[k].cntx]
        BY <1>7, <1>11, <2>4, <3>1
      <3>3. worker' = worker /\ clist[k].cntx # 0 /\ slot[clist[k].cntx].deleted # 0
        BY <2>4, <3>2
      <3>4. PICK w \in Worker : /\ worker[w].pc = "clear" /\ worker[w].at = k
                                /\ worker[w].task < slot[clist[k].cntx].deleted
        BY <2>1, <3>3 DEF HeldOrTaken
      <3>. QED  BY <3>2, <3>3, <3>4
    <2>. QED  BY <1>7, <1>8, <2>1, <2>3, <2>4 DEF HeldOrTaken, Entry
  <1>13. SameExchange'
    <2>1. \A h \in DOMAIN slot : slot[h].used =>
                h \in DOMAIN slot' /\ slot'[h].used /\ slot'[h].owner = slot[h].owner
      BY <1>4
    <2>. QED  BY <2>1, SameExchanges DEF Kept
  <1>14. KeysKept'
    <2>1. \A w \in Worker : worker'[w].pc = "ask" => worker[w].at \in Entry
      BY DEF Typed, PlaceOK, Entry
    <2>. QED  BY <1>8, <1>9, <2>1, SameKeys DEF Kept
  <1>. QED  BY <1>10, <1>12, <1>13, <1>14 DEF Kept, SentRight

LEMMA CreateContextKeeps ==
    ASSUME Typed, Kept, NEW j \in Entry, CreateContext(j)
    PROVE  Kept'
  <1>1. slot \in Seq(Context)
    BY DEF Typed, TypeOK
  <1>2. \A k \in Entry : k # j /\ clist[k].cntx # 0 => clist[k].cntx \in DOMAIN slot
    BY DEF Kept, HeldOrTaken, HeldByOne, Live
  <1>. QED  BY <1>1, <1>2, NewContextKeeps DEF CreateContext, HasRoom

LEMMA ResetContextKeeps ==
    ASSUME Typed, Kept, NEW j \in Entry, ResetContext(j)
    PROVE  Kept'
  <1>1. PICK s : s = Marked(slot, clist[j].cntx)
    OBVIOUS
  <1>2. /\ s \in Seq(Context) /\ Len(s) = Len(slot)
        /\ \A h \in DOMAIN slot : s[h].used = slot[h].used /\ s[h].owner = slot[h].owner
        /\ \A k \in Entry : k # j /\ clist[k].cntx # 0 =>
             clist[k].cntx \in DOMAIN slot /\ s[clist[k].cntx] = slot[clist[k].cntx]
    BY <1>1, OthersUnmarked DEF Kept
  <1>3. clist[j].hContact # NoOne
    BY HasContact DEF ResetContext
  <1>. QED  BY <1>1, <1>2, <1>3, NewContextKeeps DEF ResetContext

\* sttTimeoutThread frees a context that no contact and no thread has.
LEMMA FreeKeeps ==
    ASSUME Typed, Kept, Free
    PROVE  Kept'
  <1>1. PICK h \in Slot :
            /\ slot[h].used /\ slot[h].deleted # 0 /\ Elapsed(h)
            /\ slot' = [slot EXCEPT ![h] = [slot[h] EXCEPT !.used = FALSE, !.deleted = 0]]
            /\ worker' = Outlived(h)
    BY DEF Free
  <1>2. UNCHANGED <<clist, rsa_pub, sent, bad, spent>>
    BY DEF Free
  <1>3. DOMAIN slot' = DOMAIN slot /\ \A k \in DOMAIN slot : k # h => slot'[k] = slot[k]
    BY <1>1
  <1>4. /\ spent.deleted \in BOOLEAN /\ slot[h].deleted \in Nat
        /\ \A w \in Worker : worker[w].task \in Nat
    BY CounterFacts, PoolOK DEF Typed, Slot, Context
  <1>5. \A w \in Worker :
            /\ worker'[w].pc = worker[w].pc /\ worker'[w].handle = worker[w].handle
            /\ worker'[w].owner = worker[w].owner /\ worker'[w].at = worker[w].at
            /\ worker'[w].task = worker[w].task
            /\ worker[w].handle = h => worker'[w].late
            /\ worker[w].handle # h => worker'[w] = worker[w]
    BY <1>1, FreedPlaces
  <1>6. \A j \in Entry : clist[j].cntx # h
    <2> SUFFICES ASSUME NEW j \in Entry, clist[j].cntx = h PROVE FALSE
      OBVIOUS
    <2>1. clist[j].cntx # 0
      BY CounterFacts DEF Typed, Slot
    <2>2. PICK w \in Worker : worker[w].pc = "clear" /\ worker[w].task < slot[h].deleted
      BY <1>1, <2>1 DEF Kept, HeldOrTaken
    <2>3. worker[w].task >= slot[h].deleted
      BY <1>1, <2>2 DEF Elapsed
    <2>. QED  BY <1>4, <2>2, <2>3
  <1>7. RecordsKept'
    BY <1>2 DEF Kept, RecordsKept, Entry
  <1>8. KeysKept'
    BY <1>2, <1>5 DEF Kept, KeysKept, FiledWhileKept, KeyFiledUnderOwner
  <1>9. HeldOrTaken'
    <2>1. \A j \in Entry : clist[j].cntx # 0 =>
            clist[j].cntx \in DOMAIN slot' /\ slot'[clist[j].cntx] = slot[clist[j].cntx]
      BY <1>3, <1>6 DEF Kept, HeldOrTaken, HeldByOne, Live
    <2>2. \A w \in Worker : worker'[w].task <= spent'.tasks
      BY <1>2, <1>5 DEF Kept, HeldOrTaken
    <2>3. \A w \in Worker : worker[w].pc = "clear" => worker'[w] = worker[w]
      BY <1>1, <1>5 DEF Elapsed
    <2>. QED  BY <1>2, <2>1, <2>2, <2>3, SameHolders DEF Kept, Entry
  <1>10. SameExchange'
    <2> SUFFICES ASSUME NEW w \in Worker
                 PROVE  /\ worker'[w].pc # "idle" /\ ~worker'[w].late =>
                            /\ Live(slot', worker'[w].handle)
                            /\ slot'[worker'[w].handle].owner = worker'[w].owner
                        /\ worker'[w].pc = "look" => ~worker'[w].late
      BY DEF SameExchange
    <2>1. CASE worker[w].handle # h
      <3>1. /\ worker[w].pc # "idle" /\ ~worker[w].late =>
                Live(slot, worker[w].handle) /\ slot[worker[w].handle].owner = worker[w].owner
            /\ worker[w].pc = "look" => ~worker[w].late
        BY DEF Kept, SameExchange
      <3>2. worker'[w] = worker[w]
        BY <1>5, <2>1
      <3>. QED  BY <1>3, <2>1, <3>1, <3>2 DEF Live
    <2>2. CASE worker[w].handle = h
      <3>1. worker[w].pc # "look"
        BY <1>1, <2>2 DEF Elapsed
      <3>. QED  BY <1>5, <2>2, <3>1
    <2>. QED  BY <2>1, <2>2
  <1>. QED  BY <1>2, <1>7, <1>8, <1>9, <1>10 DEF Kept, SentRight

-----------------------------------------------------------------------------
(* The callbacks.                                                          *)

\* Contexts of records are in the pool.
LEMMA HeldIsThere ==
    ASSUME Kept
    PROVE  \A j \in Entry : clist[j].cntx # 0 =>
                /\ clist[j].cntx \in DOMAIN slot /\ Live(slot, clist[j].cntx)
                /\ slot[clist[j].cntx].owner = clist[j].hContact
  BY DEF Kept, HeldOrTaken, HeldByOne, Live

\* A thread goes on with its exchange, and neither asks nor marks.
LEMMA ThreadKeeps ==
    ASSUME Typed, Kept, NEW w \in Worker,
           UNCHANGED <<slot, clist, rsa_pub, spent>>,
           \A m \in sent' : m \in sent \/ m.late \/ m.to = m.owner,
           \A v \in Worker : v # w => worker'[v] = worker[v],
           worker[w].pc \notin {"idle", "clear"},
           worker'[w].pc = "ask" /\ ~spent.deleted =>
                clist[worker'[w].at].hContact = worker'[w].owner /\ worker'[w].owner \in Contact,
           worker'[w].pc \notin {"look", "clear"},
           worker'[w].task \in {0, worker[w].task},
           worker'[w].pc = "idle" \/
                (worker'[w].handle = worker[w].handle /\ worker'[w].owner = worker[w].owner
                    /\ worker'[w].late = worker[w].late)
    PROVE  Kept'
  <1>1. /\ Len(clist) \in Nat /\ spent.tasks \in Nat /\ spent.deleted \in BOOLEAN
        /\ DOMAIN clist = Entry
    BY CounterFacts, LenProperties DEF Typed, TypeOK, Entry
  <1>2. RecordsKept'
    BY SameRecords DEF Kept
  <1>3. HeldOrTaken'
    <2>1. \A v \in Worker : worker'[v].task <= spent'.tasks
      BY <1>1 DEF Kept, HeldOrTaken
    <2>2. \A v \in Worker : worker[v].pc = "clear" => worker'[v] = worker[v]
      OBVIOUS
    <2>. QED  BY <2>1, <2>2, HeldIsThere, SameHolders DEF Kept, Entry
  <1>4. SameExchange'
    BY SameExchanges DEF Kept
  <1>5. KeysKept'
    BY DEF Kept, KeysKept, FiledWhileKept, KeyFiledUnderOwner
  <1>. QED  BY <1>2, <1>3, <1>4, <1>5 DEF Kept, SentRight

\* A callback begins, with the context of its exchange.
LEMMA BegunKeeps ==
    ASSUME Typed, Kept, NEW w \in Worker, Task, worker[w].pc = "idle",
           NEW x \in Place, worker' = [worker EXCEPT ![w] = x],
           x.pc \in {"look", "notify"}, x.task = spent.tasks + 1, ~x.late,
           Live(slot, x.handle), slot[x.handle].owner = x.owner,
           UNCHANGED <<slot, clist, rsa_pub, sent, bad>>
    PROVE  Kept'
  <1>1. /\ spent'.tasks = spent.tasks + 1 /\ spent'.deleted = spent.deleted
        /\ spent.tasks \in Nat /\ spent.deleted \in BOOLEAN
        /\ \A v \in Worker : worker[v].task \in Nat
    BY TaskCounted, CounterFacts DEF Typed
  <1>2. worker'[w] = x /\ \A v \in Worker : v # w => worker'[v] = worker[v]
    BY DEF Typed, TypeOK
  <1>3. RecordsKept'
    BY SameRecords DEF Kept
  <1>4. HeldOrTaken'
    <2>1. \A v \in Worker : worker'[v].task <= spent'.tasks
      BY <1>1, <1>2 DEF Kept, HeldOrTaken
    <2>2. \A v \in Worker : worker[v].pc = "clear" => worker'[v] = worker[v]
      BY <1>2
    <2>. QED  BY <2>1, <2>2, HeldIsThere, SameHolders DEF Kept, Entry
  <1>5. SameExchange'
    BY <1>2 DEF Kept, SameExchange, Live
  <1>6. KeysKept'
    BY <1>1, <1>2, SameKeys DEF Kept
  <1>. QED  BY <1>3, <1>4, <1>5, <1>6 DEF Kept, SentRight

LEMMA BeginKeeps ==
    ASSUME Typed, Kept, NEW w \in Worker, NEW j \in Entry, Begin(w, j)
    PROVE  Kept'
  <1>1. PICK x : x = [Idle EXCEPT !.pc = "look", !.handle = clist[j].cntx,
                                  !.owner = clist[j].hContact, !.task = spent.tasks + 1]
    OBVIOUS
  <1>2. Task /\ worker[w].pc = "idle" /\ clist[j].cntx # 0 /\ worker' = [worker EXCEPT ![w] = x]
        /\ UNCHANGED <<slot, clist, rsa_pub, sent, bad>>
    BY <1>1 DEF Begin, At
  <1>3. clist[j].hContact \in Contact /\ clist[j].cntx \in 0 .. MaxSlot
        /\ spent.tasks + 1 \in 0 .. MaxTasks
    BY <1>2, HasContact, CounterFacts, TaskCounted DEF Record, Typed
  <1>4. /\ x.pc = "look" /\ x.handle = clist[j].cntx /\ x.owner = clist[j].hContact
        /\ x.task = spent.tasks + 1 /\ ~x.late /\ x \in Place
    BY <1>1, <1>3 DEF Idle, Place
  <1>5. Live(slot, x.handle) /\ slot[x.handle].owner = x.owner
    BY <1>2, <1>4, HeldIsThere
  <1>. QED  BY <1>2, <1>4, <1>5, BegunKeeps

LEMMA FailKeeps ==
    ASSUME Typed, Kept, NEW w \in Worker, NEW h \in Slot, Fail(w, h)
    PROVE  Kept'
  <1>1. PICK x : x = [Idle EXCEPT !.pc = "notify", !.handle = h,
                                  !.owner = slot[h].owner, !.task = spent.tasks + 1]
    OBVIOUS
  <1>2. Task /\ worker[w].pc = "idle" /\ slot[h].used /\ worker' = [worker EXCEPT ![w] = x]
        /\ UNCHANGED <<slot, clist, rsa_pub, sent, bad>>
    BY <1>1 DEF Fail, At
  <1>3. /\ slot[h].owner \in Contact /\ h \in 0 .. MaxSlot /\ h \in DOMAIN slot
        /\ spent.tasks + 1 \in 0 .. MaxTasks
    <2>1. Len(slot) <= MaxSlot
      BY DEF Typed, TypeOK
    <2>. QED  BY <1>2, <2>1, CounterFacts, TaskCounted, PoolOK DEF Context, Typed, Slot
  <1>4. /\ x.pc = "notify" /\ x.handle = h /\ x.owner = slot[h].owner
        /\ x.task = spent.tasks + 1 /\ ~x.late /\ x \in Place
    BY <1>1, <1>3 DEF Idle, Place
  <1>5. Live(slot, x.handle) /\ slot[x.handle].owner = x.owner
    BY <1>2, <1>3, <1>4 DEF Live
  <1>. QED  BY <1>2, <1>4, <1>5, BegunKeeps

LEMMA LookKeeps ==
    ASSUME Typed, Kept, NEW w \in Worker, Look(w)
    PROVE  Kept'
  <1>1. worker[w].pc = "look" /\ UNCHANGED <<slot, clist, rsa_pub, sent, bad, spent>>
    BY DEF Look, At
  <1>2. CASE Done(w)
    BY <1>1, <1>2, DoneStep, ThreadKeeps
  <1>3. CASE Goto(w, "refuse")
    BY <1>1, <1>3, GotoStep, ThreadKeeps
  <1>4. CASE WithContext(worker[w].handle) # {} /\ Found(w, "ask")
    <2>1. /\ worker'[w].pc = "ask"
          /\ worker'[w].handle = worker[w].handle /\ worker'[w].owner = worker[w].owner
          /\ worker'[w].at \in Entry /\ clist[worker'[w].at].cntx = worker[w].handle
          /\ worker'[w].task = worker[w].task /\ worker'[w].late = worker[w].late
          /\ \A v \in Worker : v # w => worker'[v] = worker[v]
      BY <1>1, <1>4, FoundStep
    <2>2. worker[w].owner \in Contact /\ worker[w].handle # 0
      BY <1>1 DEF Typed, PlaceOK
    <2>3. slot[worker[w].handle].owner = worker[w].owner
      BY <1>1 DEF Kept, SameExchange
    <2>4. clist[worker'[w].at].hContact = worker'[w].owner
      BY <2>1, <2>2, <2>3, HeldIsThere
    <2>. QED  BY <1>1, <2>1, <2>2, <2>4, ThreadKeeps
  <1>. QED  BY <1>2, <1>3, <1>4 DEF Look

LEMMA RefuseKeeps ==
    ASSUME Typed, Kept, NEW w \in Worker, Refuse(w)
    PROVE  Kept'
  <1>1. worker[w].pc = "ask" /\ Goto(w, "refuse")
        /\ UNCHANGED <<slot, clist, rsa_pub, sent, bad, spent>>
    BY DEF Refuse, At
  <1>. QED  BY <1>1, GotoStep, ThreadKeeps

LEMMA NotifyKeeps ==
    ASSUME Typed, Kept, NEW w \in Worker, Notify(w)
    PROVE  Kept'
  <1>1. worker[w].pc = "notify" /\ UNCHANGED <<slot, clist, rsa_pub, sent, bad, spent>>
    BY DEF Notify, At
  <1>2. CASE Done(w)
    BY <1>1, <1>2, DoneStep, ThreadKeeps
  <1>3. CASE WithContext(worker[w].handle) # {} /\ Found(w, "mark")
    BY <1>1, <1>3, FoundStep, ThreadKeeps
  <1>. QED  BY <1>2, <1>3 DEF Notify

LEMMA InjectKeeps ==
    ASSUME Typed, Kept, NEW w \in Worker, Inject(w)
    PROVE  Kept'
  <1>1. worker[w].pc \in {"inject", "refuse"} /\ UNCHANGED <<slot, clist, rsa_pub, bad, spent>>
    BY DEF Inject, At
  <1>2. ASSUME NEW m \in sent', m \notin sent, ~m.late
        PROVE  m.to = m.owner
    <2>1. /\ m.owner = worker[w].owner /\ ~worker[w].late
          /\ \E j \in Entry : clist[j].cntx = worker[w].handle /\ m.to = clist[j].hContact
      BY <1>2, Injected
    <2>2. slot[worker[w].handle].owner = worker[w].owner /\ worker[w].handle # 0
      BY <1>1, <2>1 DEF Kept, SameExchange, Typed, PlaceOK
    <2>. QED  BY <2>1, <2>2, HeldIsThere
  <1>3. \A m \in sent' : m \in sent \/ m.late \/ m.to = m.owner
    BY <1>2
  <1>4. CASE Done(w)
    BY <1>1, <1>3, <1>4, DoneStep, ThreadKeeps
  <1>5. CASE Goto(w, "notify")
    BY <1>1, <1>3, <1>5, GotoStep, ThreadKeeps
  <1>. QED  BY <1>4, <1>5 DEF Inject

\* A record that is used without fault has not moved.
LEMMA FoundStays ==
    ASSUME Typed, NEW w \in Worker, Accept(w) \/ Mark(w) \/ Clear(w), ~bad'
    PROVE  ~Dangling(w) /\ worker[w].at \in Entry
  <1>1. worker[w].pc \in {"ask", "mark", "clear"}
    BY DEF Accept, Mark, Clear, At
  <1>2. worker[w].at \in Entry
    BY <1>1 DEF Typed, PlaceOK, Entry
  <1>3. ~Dangling(w)
    BY DEF Accept, Mark, Clear
  <1>. QED  BY <1>2, <1>3

LEMMA AcceptKeeps ==
    ASSUME Typed, Kept, NEW w \in Worker, Accept(w), ~bad'
    PROVE  Kept'
  <1>1. worker[w].pc = "ask" /\ UNCHANGED <<slot, sent, spent>>
    BY DEF Accept, At
  <1>2. PICK j \in Entry : j = worker[w].at
    BY <1>1, FoundStays
  <1>3. PICK e : e = [clist[j] EXCEPT !.keyLoaded = TRUE]
    OBVIOUS
  <1>4. /\ rsa_pub' = [rsa_pub EXCEPT ![clist[j].hContact] = worker[w].owner]
        /\ clist' = [clist EXCEPT ![j] = e] /\ bad' = bad
        /\ Goto(w, "inject") \/ Done(w)
    BY <1>1, <1>2, <1>3, FoundStays DEF Accept
  <1>5. e \in Record /\ e.hContact = clist[j].hContact /\ e.cntx = clist[j].cntx
    BY <1>3, CounterFacts DEF Typed, Record
  <1>6. /\ Len(clist') = Len(clist)
        /\ \A k \in Entry : clist'[k].hContact = clist[k].hContact /\ clist'[k].cntx = clist[k].cntx
    BY <1>4, <1>5, SetRecord DEF Typed
  <1>7. /\ \A v \in Worker : v # w => worker'[v] = worker[v]
        /\ worker'[w].pc \in {"inject", "idle"} /\ worker'[w].task \in {0, worker[w].task}
        /\ worker'[w].pc = "idle" \/
            (worker'[w].handle = worker[w].handle /\ worker'[w].owner = worker[w].owner
                /\ worker'[w].late = worker[w].late)
    <2>1. CASE Goto(w, "inject")
      BY <1>1, <2>1, GotoStep
    <2>2. CASE Done(w)
      BY <2>2, DoneStep
    <2>. QED  BY <1>4, <2>1, <2>2
  <1>8. RecordsKept'
    BY <1>4, <1>6, SameRecords DEF Kept
  <1>9. HeldOrTaken'
    <2>1. \A v \in Worker : worker'[v].task <= spent'.tasks
      BY <1>1, <1>7, CounterFacts DEF Kept, HeldOrTaken, Typed
    <2>2. \A v \in Worker : worker[v].pc = "clear" => worker'[v] = worker[v]
      BY <1>1, <1>7
    <2>. QED  BY <1>1, <1>6, <2>1, <2>2, HeldIsThere, SameHolders DEF Kept, Entry
  <1>10. SameExchange'
    BY <1>1, <1>7, SameExchanges DEF Kept
  <1>11. KeysKept'
    <2>1. CASE spent.deleted
      BY <1>1, <2>1 DEF KeysKept, FiledWhileKept
    <2>2. CASE ~spent.deleted
      <3>1. clist[j].hContact = worker[w].owner /\ worker[w].owner \in Contact
        BY <1>1, <1>2, <2>2 DEF Kept, KeysKept
      <3>2. KeyFiledUnderOwner'
        <4>1. KeyFiledUnderOwner
          BY <2>2 DEF Kept, KeysKept, FiledWhileKept
        <4>2. \A c \in Contact \cup {NoOne} :
                rsa_pub'[c] = IF c = worker[w].owner THEN c ELSE rsa_pub[c]
          BY <1>4, <3>1 DEF Typed, TypeOK
        <4>. QED  BY <4>1, <4>2 DEF KeyFiledUnderOwner
      <3>3. \A v \in Worker : worker'[v].pc = "ask" =>
                /\ worker[v].at \in Entry /\ worker'[v] = worker[v]
                /\ clist'[worker[v].at].hContact = clist[worker[v].at].hContact
        BY <1>6, <1>7 DEF Typed, PlaceOK, Entry
      <3>. QED  BY <1>1, <3>2, <3>3 DEF Kept, KeysKept, FiledWhileKept
    <2>. QED  BY <2>1, <2>2, CounterFacts DEF Typed
  <1>. QED  BY <1>1, <1>8, <1>9, <1>10, <1>11 DEF Kept, SentRight

LEMMA MarkKeeps ==
    ASSUME Typed, Kept, NEW w \in Worker, Mark(w), ~bad'
    PROVE  Kept'
  <1>1. worker[w].pc = "mark" /\ UNCHANGED <<clist, rsa_pub, sent, spent>>
    BY DEF Mark, At
  <1>2. PICK j \in Entry : j = worker[w].at
    BY <1>1, FoundStays
  <1>3. /\ slot' = Marked(slot, clist[j].cntx) /\ bad' = bad
        /\ IF clist[j].cntx = 0 THEN Done(w) ELSE Goto(w, "clear")
    BY <1>1, <1>2, FoundStays DEF Mark
  <1>4. /\ DOMAIN slot' = DOMAIN slot
        /\ \A h \in DOMAIN slot : slot'[h].used = slot[h].used /\ slot'[h].owner = slot[h].owner
        /\ \A k \in Entry : k # j /\ clist[k].cntx # 0 =>
             clist[k].cntx \in DOMAIN slot /\ slot'[clist[k].cntx] = slot[clist[k].cntx]
    BY <1>3, OthersUnmarked DEF Kept
  <1>5. spent.tasks \in Nat /\ spent.deleted \in BOOLEAN /\ worker[w].task \in Nat
    BY CounterFacts DEF Typed
  <1>6. /\ \A v \in Worker : v # w => worker'[v] = worker[v]
        /\ worker'[w].pc = (IF clist[j].cntx = 0 THEN "idle" ELSE "clear")
        /\ worker'[w].task \in {0, worker[w].task}
        /\ worker'[w].pc = "clear" => /\ worker'[w].at = j /\ worker'[w].size = worker[w].size
                                      /\ worker'[w].task = worker[w].task
                                      /\ worker'[w].handle = worker[w].handle
                                      /\ worker'[w].owner = worker[w].owner
                                      /\ worker'[w].late = worker[w].late
    <2>1. CASE clist[j].cntx = 0
      BY <1>3, <2>1, DoneStep
    <2>2. CASE clist[j].cntx # 0
      BY <1>1, <1>2, <1>3, <2>2, GotoStep
    <2>. QED  BY <2>1, <2>2
  <1>7. RecordsKept'
    BY <1>1, <1>3, SameRecords DEF Kept
  <1>8. HeldOrTaken'
    <2>1. HeldOrTaken /\ HeldByOne
      BY DEF Kept, HeldOrTaken
    <2>2. HeldByOne'
      BY <1>1, <1>4, <2>1 DEF HeldByOne, Live, Entry
    <2>3. ASSUME NEW k \in Entry, clist[k].cntx # 0, slot'[clist[k].cntx].deleted # 0
          PROVE  \E v \in Worker : /\ worker'[v].pc = "clear" /\ worker'[v].at = k
                                   /\ worker'[v].task < slot'[clist[k].cntx].deleted
      <3>1. CASE k = j
        <4>1. clist[j].cntx \in 1 .. Len(slot) /\ slot[clist[j].cntx].used /\ slot \in Seq(Context)
          BY <2>3, <3>1, HeldIsThere, CounterFacts DEF Live, Typed, TypeOK
        <4>2. slot'[clist[j].cntx].deleted = spent.tasks + 1
          BY <1>3, <4>1, MarkedContext DEF Typed
        <4>3. worker[w].task <= spent.tasks
          BY <2>1 DEF HeldOrTaken
        <4>4. worker[w].task < spent.tasks + 1
          BY <1>5, <4>3
        <4>. QED  BY <1>6, <2>3, <3>1, <4>2, <4>4
      <3>2. CASE k # j
        <4>1. slot'[clist[k].cntx] = slot[clist[k].cntx]
          BY <1>4, <2>3, <3>2
        <4>2. PICK v \in Worker : /\ worker[v].pc = "clear" /\ worker[v].at = k
                                  /\ worker[v].task < slot[clist[k].cntx].deleted
          BY <2>1, <2>3, <4>1 DEF HeldOrTaken
        <4>3. worker'[v] = worker[v]
          BY <1>1, <1>6, <4>2
        <4>. QED  BY <4>1, <4>2, <4>3
      <3>. QED  BY <3>1, <3>2
    <2>4. \A v \in Worker : worker'[v].task <= spent'.tasks
      BY <1>1, <1>5, <1>6, <2>1 DEF HeldOrTaken
    <2>. QED  BY <1>1, <2>2, <2>3, <2>4 DEF HeldOrTaken, Entry
  <1>9. SameExchange'
    BY <1>1, <1>4, <1>6, SameExchanges DEF Kept
  <1>10. KeysKept'
    BY <1>1, <1>5, <1>6, SameKeys DEF Kept
  <1>. QED  BY <1>1, <1>7, <1>8, <1>9, <1>10 DEF Kept, SentRight

LEMMA ClearKeeps ==
    ASSUME Typed, Kept, NEW w \in Worker, Clear(w), ~bad'
    PROVE  Kept'
  <1>1. worker[w].pc = "clear" /\ Done(w) /\ UNCHANGED <<slot, rsa_pub, sent, spent>>
    BY DEF Clear, At
  <1>2. PICK j \in Entry : j = worker[w].at
    BY <1>1, FoundStays
  <1>3. PICK e : e = [clist[j] EXCEPT !.cntx = 0, !.keyLoaded = FALSE]
    OBVIOUS
  <1>4. clist' = [clist EXCEPT ![j] = e] /\ bad' = bad
    BY <1>1, <1>2, <1>3, FoundStays DEF Clear
  <1>5. e \in Record /\ e.hContact = clist[j].hContact /\ e.cntx = 0
    <2>1. clist[j] \in Record /\ 0 \in 0 .. MaxSlot
      BY CounterFacts, PoolOK DEF Typed
    <2>2. [clist[j] EXCEPT !.cntx = 0] \in Record
      BY <2>1 DEF Record
    <2>. QED  BY <1>3, <2>1, <2>2 DEF Record
  <1>6. /\ Len(clist') = Len(clist) /\ clist'[j] = e
        /\ \A k \in Entry : k # j => clist'[k] = clist[k]
        /\ \A k \in Entry : clist'[k].hContact = clist[k].hContact
    <2>1. /\ Len(clist') = Len(clist) /\ clist'[j] = e
          /\ \A k \in Entry : k # j => clist'[k] = clist[k]
      BY <1>4, <1>5, SetRecord DEF Typed
    <2>. QED  BY <1>5, <2>1
  <1>7. /\ \A v \in Worker : v # w => worker'[v] = worker[v]
        /\ worker'[w].pc = "idle" /\ worker'[w].task = 0
    BY <1>1, DoneStep
  <1>8. spent.tasks \in Nat /\ spent.deleted \in BOOLEAN
    BY CounterFacts DEF Typed
  <1>9. RecordsKept'
    BY <1>4, <1>6, SameRecords DEF Kept
  <1>10. HeldOrTaken'
    <2>1. \A v \in Worker : worker'[v].task <= spent'.tasks
      BY <1>1, <1>7, <1>8 DEF Kept, HeldOrTaken
    <2>2. ASSUME NEW k \in 1 .. Len(clist'), clist'[k].cntx # 0
          PROVE  k \in Entry /\ k # j /\ clist'[k] = clist[k]
      BY <1>5, <1>6, <2>2 DEF Entry
    <2>3. \A v \in Worker, k \in Entry : worker[v].pc = "clear" /\ worker[v].at = k /\ k # j =>
            worker'[v] = worker[v]
      BY <1>2, <1>7
    <2>. QED  BY <1>1, <2>1, <2>2, <2>3, HeldIsThere, SameHolders DEF Kept
  <1>11. SameExchange'
    BY <1>1, <1>7, SameExchanges DEF Kept
  <1>12. KeysKept'
    <2>1. \A v \in Worker : worker'[v].pc = "ask" =>
            worker[v].at \in Entry /\ worker'[v] = worker[v]
      BY <1>7 DEF Typed, PlaceOK, Entry
    <2>. QED  BY <1>1, <1>6, <1>8, <2>1, SameKeys DEF Kept
  <1>. QED  BY <1>1, <1>9, <1>10, <1>11, <1>12 DEF Kept, SentRight

-----------------------------------------------------------------------------
(* The theorems.                                                           *)

LEMMA InitKept == Init => Kept
  <1> SUFFICES ASSUME Init PROVE Kept
    OBVIOUS
  <1>1. Entry = {} /\ sent = {} /\ spent.tasks = 0
    BY DEF Init, Entry
  <1>2. \A w \in Worker : worker[w].pc = "idle" /\ worker[w].task = 0
    BY DEF Init, Idle
  <1>3. KeyFiledUnderOwner
    BY DEF Init, KeyFiledUnderOwner
  <1>. QED
    BY <1>1, <1>2, <1>3 DEF Kept, RecordsKept, HeldOrTaken, HeldByOne, SameExchange, KeysKept,
                            FiledWhileKept, SentRight

\* What is done to a record that has moved stays done.
LEMMA BadStays == [Next]_vars /\ bad => bad'
  BY DEF Next, Window, CallBack, AddContact, DelContact, CreateContext, ResetContext,
         DeleteContext, Begin, Free, Fail, Look, Accept, Refuse, Inject, Notify, Mark, Clear, vars

LEMMA StepKeeps == Typed /\ (~bad => Kept) /\ [Next]_vars => (~bad' => Kept')
  <1> SUFFICES ASSUME Typed, Kept, [Next]_vars, ~bad' PROVE Kept'
    BY BadStays
  <1>1. CASE Window
    BY <1>1, AddContactKeeps, DelContactKeeps, CreateContextKeeps, ResetContextKeeps,
       DeleteContextKeeps, BeginKeeps DEF Window
  <1>2. CASE Free
    BY <1>2, FreeKeeps
  <1>3. ASSUME NEW w \in Worker, CallBack(w) PROVE Kept'
    BY <1>3, LookKeeps, AcceptKeeps, RefuseKeeps, InjectKeeps, NotifyKeeps, MarkKeeps,
       ClearKeeps DEF CallBack
  <1>4. ASSUME NEW w \in Worker, NEW h \in Slot, Fail(w, h) PROVE Kept'
    BY <1>4, FailKeeps
  <1>5. CASE UNCHANGED vars
    BY <1>5 DEF vars, Kept, RecordsKept, HeldOrTaken, HeldByOne, Live, SameExchange, KeysKept,
                FiledWhileKept, KeyFiledUnderOwner, SentRight, Entry
  <1>. QED  BY <1>1, <1>2, <1>3, <1>4, <1>5 DEF Next

LEMMA AlwaysKept == Spec => [](~bad => Kept)
  BY AlwaysTyped, InitKept, StepKeeps, PTL DEF Spec

\* As long as no record is used after the array has moved, a context is in use
\* and held by the one contact it was made for, however contexts are marked,
\* freed, used again and taken away late, and however long questions are open
\* (cpp_create_context, cpp_delete_context, deleteRSAcntx).
THEOREM ContextsHaveOneHolder == Spec => []OneHolder
  <1>1. (~bad => Kept) => OneHolder
    BY DEF Kept, HeldOrTaken, HeldByOne, OneHolder
  <1>. QED  BY AlwaysKept, <1>1, PTL

\* And a public key is stored for the contact it came from, however late the
\* user answers, as long as no contact is deleted (rsa_check_pub).
THEOREM KeysAreFiled == Spec => []KeyFiledWhileKept
  <1>1. (~bad => Kept) => KeyFiledWhileKept
    BY DEF Kept, KeysKept, FiledWhileKept, KeyFiledWhileKept
  <1>. QED  BY AlwaysKept, <1>1, PTL

\* And what an exchange sends goes to its contact, but for the answer to a
\* question during which its context was freed (rsa_inject): contexts may be
\* reset, deleted and used again while it is open.
THEOREM MessagesForOwners == Spec => []MessageForOwner
  <1>1. (~bad => Kept) => MessageForOwner
    BY DEF Kept, SentRight, MessageForOwner
  <1>. QED  BY AlwaysKept, <1>1, PTL

=============================================================================
