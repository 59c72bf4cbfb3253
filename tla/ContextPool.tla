----------------------------- MODULE ContextPool -----------------------------
(***************************************************************************)
(* The pool of contexts in CryptoPP (cpp_cntx.cpp) and the array of        *)
(* contact records in SecureIM (crypt_lists.cpp).  A context is known to   *)
(* the plugin, and to the threads that work on it, by its address; a       *)
(* record by a pointer into an array that grows.  A deleted context is     *)
(* kept for ten seconds, its memory is then used for the next one, and a   *)
(* record is used again at once.                                           *)
(*                                                                         *)
(* The window thread's handlers are one step each.  The threads that call  *)
(* back (rsa_check_pub, rsa_inject, rsa_notify) are cut where another can  *)
(* come between.  Abstracted: what the exchange does (RsaSession) and the  *)
(* RSADATA of a context (RsaThreads).                                      *)
(***************************************************************************)
EXTENDS Naturals, Sequences, FiniteSets

CONSTANTS
    Contact,        \* contacts
    NoOne,          \* hContact 0: no contact, and the user's own settings
    Nil,            \* no key
    Worker,         \* threads that call back
    Inc,            \* clist_inc: the array grows by this many records
    MaxSlot,        \* bound: contexts the pool allocates
    MaxOps,         \* bound: what the window thread does to contexts and contacts
    MaxTasks,       \* bound: callbacks
    Deletes         \* may contacts be deleted?

ASSUME PoolOK ==
    /\ NoOne \notin Contact /\ Nil \notin Contact \cup {NoOne}
    /\ Inc \in Nat \ {0} /\ MaxSlot \in Nat /\ MaxOps \in Nat /\ MaxTasks \in Nat
    /\ Deletes \in BOOLEAN

VARIABLES
    slot,       \* CL: the contexts ever allocated
    clist,      \* the contact records
    rsa_pub,    \* the setting "rsa_pub" of every contact, and the user's own
    worker,     \* the threads that call back
    sent,       \* messages injected: for whose exchange, to whom, how late
    bad,        \* a pointer into an array that is gone was used
    spent       \* operations and callbacks so far; has a contact been deleted?

vars == <<slot, clist, rsa_pub, worker, sent, bad, spent>>

Entry == 1 .. Len(clist)
Slot == 1 .. Len(slot)
EmptyRecord == [hContact |-> NoOne, cntx |-> 0, keyLoaded |-> FALSE]
Idle == [pc |-> "idle", handle |-> 0, owner |-> NoOne, at |-> 0, size |-> 0, task |-> 0,
         late |-> FALSE]

Init ==
    /\ slot = <<>>
    /\ clist = <<>>
    /\ rsa_pub = [c \in Contact \cup {NoOne} |-> IF c = NoOne THEN NoOne ELSE Nil]
    /\ worker = [w \in Worker |-> Idle]
    /\ sent = {}
    /\ bad = FALSE
    /\ spent = [ops |-> 0, tasks |-> 0, deleted |-> FALSE]

Op == spent.ops < MaxOps /\ spent' = [spent EXCEPT !.ops = @ + 1]
Task == spent.tasks < MaxTasks /\ spent' = [spent EXCEPT !.tasks = @ + 1]

Least(S) == CHOOSE i \in S : \A j \in S : i <= j

-----------------------------------------------------------------------------
(* The pool.                                                               *)

\* get_context_on_id: a context marked as deleted is still one
Live(s, h) == h \in DOMAIN s /\ s[h].used

\* (fault: a context that is to be deleted counts as empty)
EmptyOrDeleted(s) == {h \in DOMAIN s : ~s[h].used \/ s[h].deleted # 0}

\* cpp_create_context: the first empty context, or a new one
Empty(s) == {h \in DOMAIN s : ~s[h].used}

\* (fault: the address is always that of a new one)
NewHandleLast(s) == Len(s) + 1

NewHandle(s) == IF Empty(s) # {} THEN Least(Empty(s)) ELSE Len(s) + 1
Created(s, c) ==
    LET new == [used |-> TRUE, deleted |-> 0, owner |-> c]
    IN  IF Empty(s) # {} THEN [s EXCEPT ![Least(Empty(s))] = new] ELSE Append(s, new)

\* (fault: the context is free at once)
MarkedFree(s, h) == IF Live(s, h) THEN [s EXCEPT ![h].used = FALSE] ELSE s

\* cpp_delete_context: the time is counted in callbacks
Marked(s, h) == IF Live(s, h) THEN [s EXCEPT ![h].deleted = spent.tasks + 1] ELSE s

\* the callbacks that were running when the context was deleted are over, and
\* none has begun with it since; but a question may be open for any time
Elapsed(h) ==
    \A w \in Worker : worker[w].pc \notin {"idle", "ask"} =>
        worker[w].task >= slot[h].deleted /\ worker[w].handle # h

\* the questions about a context that is freed come too late
Outlived(h) ==
    [w \in Worker |-> IF worker[w].handle = h THEN [worker[w] EXCEPT !.late = TRUE]
                      ELSE worker[w]]

\* sttTimeoutThread: ten seconds later
Free ==
    /\ \E h \in Slot :
        /\ slot[h].used /\ slot[h].deleted # 0
        /\ Elapsed(h)
        /\ slot' = [slot EXCEPT ![h] = [@ EXCEPT !.used = FALSE, !.deleted = 0]]
        /\ worker' = Outlived(h)
    /\ UNCHANGED <<clist, rsa_pub, sent, bad, spent>>

-----------------------------------------------------------------------------
(* The contact records, on the window thread.                              *)

FreeEntries == {j \in Entry : clist[j].hContact = NoOne}
NewRecord(c) == [EmptyRecord EXCEPT !.hContact = c]

\* addContact: the first record that is not in use, or a larger array
AddContact(c) ==
    /\ Op
    /\ \A j \in Entry : clist[j].hContact # c
    /\ clist' = IF FreeEntries # {}
                THEN [clist EXCEPT ![Least(FreeEntries)] = NewRecord(c)]
                ELSE clist \o [i \in 1 .. Inc |-> IF i = 1 THEN NewRecord(c) ELSE EmptyRecord]
    /\ UNCHANGED <<slot, rsa_pub, worker, sent, bad>>

\* delContact, and with the contact go its settings
DelContact(j) ==
    /\ Deletes /\ spent.ops < MaxOps
    /\ spent' = [spent EXCEPT !.ops = @ + 1, !.deleted = TRUE]
    /\ clist[j].hContact # NoOne
    /\ slot' = Marked(slot, clist[j].cntx)
    /\ clist' = [clist EXCEPT ![j] = [@ EXCEPT !.cntx = 0, !.hContact = NoOne]]
    /\ rsa_pub' = [rsa_pub EXCEPT ![clist[j].hContact] = Nil]
    /\ UNCHANGED <<worker, sent, bad>>

HasRoom == Empty(slot) # {} \/ Len(slot) < MaxSlot

\* createRSAcntx
CreateContext(j) ==
    /\ Op /\ HasRoom
    /\ clist[j].hContact # NoOne /\ clist[j].cntx = 0
    /\ clist' = [clist EXCEPT ![j] = [@ EXCEPT !.cntx = NewHandle(slot), !.keyLoaded = FALSE]]
    /\ slot' = Created(slot, clist[j].hContact)
    /\ UNCHANGED <<rsa_pub, worker, sent, bad>>

\* resetRSAcntx
ResetContext(j) ==
    /\ Op
    /\ clist[j].cntx # 0
    /\ LET s == Marked(slot, clist[j].cntx)
       IN  /\ Empty(s) # {} \/ Len(s) < MaxSlot
           /\ clist' = [clist EXCEPT ![j] = [@ EXCEPT !.cntx = NewHandle(s), !.keyLoaded = FALSE]]
           /\ slot' = Created(s, clist[j].hContact)
    /\ UNCHANGED <<rsa_pub, worker, sent, bad>>

\* deleteRSAcntx
DeleteContext(j) ==
    /\ Op
    /\ clist[j].cntx # 0
    /\ slot' = Marked(slot, clist[j].cntx)
    /\ clist' = [clist EXCEPT ![j] = [@ EXCEPT !.cntx = 0, !.keyLoaded = FALSE]]
    /\ UNCHANGED <<rsa_pub, worker, sent, bad>>

-----------------------------------------------------------------------------
(* The threads that call back: rsa_recv_thread and the timeout thread.     *)

At(w, pc) == worker[w].pc = pc
Goto(w, pc) == worker' = [worker EXCEPT ![w].pc = pc]
Done(w) == worker' = [worker EXCEPT ![w] = Idle]

\* (fault: the first contact with a context is taken)
WithAnyContext(h) == {j \in Entry : clist[j].cntx # 0}

\* getUinCtx
WithContext(h) == {j \in Entry : clist[j].cntx = h}
Found(w, pc) ==
    worker' = [worker EXCEPT ![w] = [@ EXCEPT !.pc = pc, !.at = Least(WithContext(worker[w].handle)),
                                              !.size = Len(clist)]]

\* realloc has moved the array since the record was looked up
Dangling(w) == worker[w].size # Len(clist)

\* a message with a public key has come: rsa_recv hands it to a thread
Begin(w, j) ==
    /\ Task /\ At(w, "idle")
    /\ clist[j].cntx # 0
    /\ \A v \in Worker : worker[v].handle # clist[j].cntx
    /\ worker' = [worker EXCEPT ![w] = [Idle EXCEPT !.pc = "look", !.handle = clist[j].cntx,
                                                    !.owner = clist[j].hContact,
                                                    !.task = spent.tasks + 1]]
    /\ UNCHANGED <<slot, clist, rsa_pub, sent, bad>>

\* an exchange is over its time, or has failed
Fail(w, h) ==
    /\ Task /\ At(w, "idle")
    /\ slot[h].used
    /\ worker' = [worker EXCEPT ![w] = [Idle EXCEPT !.pc = "notify", !.handle = h,
                                                    !.owner = slot[h].owner,
                                                    !.task = spent.tasks + 1]]
    /\ UNCHANGED <<slot, clist, rsa_pub, sent, bad>>

\* rsa_check_pub: which contact is this?  If none, the key is refused.
Look(w) ==
    /\ At(w, "look")
    /\ IF ~Live(slot, worker[w].handle) THEN Done(w)
       ELSE IF WithContext(worker[w].handle) = {} THEN Goto(w, "refuse")
       ELSE Found(w, "ask")
    /\ UNCHANGED <<slot, clist, rsa_pub, sent, bad, spent>>

\* the key is accepted, by the user or by the setting; no answer if the
\* exchange has timed out
Accept(w) ==
    /\ At(w, "ask")
    /\ IF Dangling(w)
       THEN bad' = TRUE /\ Done(w) /\ UNCHANGED <<rsa_pub, clist>>
       ELSE /\ rsa_pub' = [rsa_pub EXCEPT ![clist[worker[w].at].hContact] = worker[w].owner]
            /\ clist' = [clist EXCEPT ![worker[w].at].keyLoaded = TRUE]
            /\ bad' = bad
            /\ Goto(w, "inject") \/ Done(w)
    /\ UNCHANGED <<slot, sent, spent>>

Refuse(w) ==
    /\ At(w, "ask")
    /\ Goto(w, "refuse")
    /\ UNCHANGED <<slot, clist, rsa_pub, sent, bad, spent>>

\* rsa_inject: the answer, or null_msg, goes to the contact with this context
Inject(w) ==
    /\ At(w, "inject") \/ At(w, "refuse")
    /\ sent' = sent \cup {[owner |-> worker[w].owner, to |-> clist[j].hContact,
                             late |-> worker[w].late] :
                            j \in {Least(s) : s \in {WithContext(worker[w].handle)} \ {{}}}}
    /\ IF At(w, "inject") THEN Done(w) ELSE Goto(w, "notify")
    /\ UNCHANGED <<slot, clist, rsa_pub, bad, spent>>

\* rsa_notify
Notify(w) ==
    /\ At(w, "notify")
    /\ IF WithContext(worker[w].handle) = {} THEN Done(w) ELSE Found(w, "mark")
    /\ UNCHANGED <<slot, clist, rsa_pub, sent, bad, spent>>

\* deleteRSAcntx of whatever context the contact has by now
Mark(w) ==
    /\ At(w, "mark")
    /\ IF Dangling(w) THEN bad' = TRUE /\ Done(w) /\ slot' = slot
       ELSE /\ bad' = bad
            /\ slot' = Marked(slot, clist[worker[w].at].cntx)
            /\ IF clist[worker[w].at].cntx = 0 THEN Done(w) ELSE Goto(w, "clear")
    /\ UNCHANGED <<clist, rsa_pub, sent, spent>>

Clear(w) ==
    /\ At(w, "clear")
    /\ IF Dangling(w) THEN bad' = TRUE /\ clist' = clist
       ELSE /\ bad' = bad
            /\ clist' = [clist EXCEPT ![worker[w].at] = [@ EXCEPT !.cntx = 0, !.keyLoaded = FALSE]]
    /\ Done(w)
    /\ UNCHANGED <<slot, rsa_pub, sent, spent>>

-----------------------------------------------------------------------------
Window ==
    \/ \E c \in Contact : AddContact(c)
    \/ \E j \in Entry : DelContact(j) \/ CreateContext(j) \/ ResetContext(j) \/ DeleteContext(j)
    \/ \E w \in Worker, j \in Entry : Begin(w, j)

CallBack(w) ==
    Look(w) \/ Accept(w) \/ Refuse(w) \/ Inject(w) \/ Notify(w) \/ Mark(w) \/ Clear(w)

Next ==
    \/ Window \/ Free
    \/ \E w \in Worker : CallBack(w) \/ \E h \in Slot : Fail(w, h)

Spec == Init /\ [][Next]_vars

-----------------------------------------------------------------------------
Context == [used : BOOLEAN, deleted : 0 .. MaxTasks + 1, owner : Contact]
Record == [hContact : Contact \cup {NoOne}, cntx : 0 .. MaxSlot, keyLoaded : BOOLEAN]
Place == [pc : {"idle", "look", "ask", "inject", "refuse", "notify", "mark", "clear"},
          handle : 0 .. MaxSlot, owner : Contact \cup {NoOne},
          at : Nat, size : Nat, task : 0 .. MaxTasks, late : BOOLEAN]

TypeOK ==
    /\ slot \in Seq(Context) /\ Len(slot) <= MaxSlot
    /\ clist \in Seq(Record)
    /\ rsa_pub \in [Contact \cup {NoOne} -> Contact \cup {NoOne, Nil}]
    /\ worker \in [Worker -> Place]
    /\ sent \subseteq [owner : Contact, to : Contact, late : BOOLEAN]
    /\ bad \in BOOLEAN
    /\ spent \in [ops : 0 .. MaxOps, tasks : 0 .. MaxTasks, deleted : BOOLEAN]

\* A public key is stored for the contact it came from, and the user's own key
\* stays what it is (rsa_check_pub).
KeyFiledUnderOwner ==
    \A c \in Contact \cup {NoOne} : rsa_pub[c] \in {c} \cup (IF c = NoOne THEN {} ELSE {Nil})

\* So it is as long as no contact is deleted, however late the user answers
\* and whatever exchanges are begun, reset and ended meanwhile, until a record
\* that has moved is used (rsa_check_pub).
KeyFiledWhileKept == ~bad /\ ~spent.deleted => KeyFiledUnderOwner

\* What an exchange sends goes to the contact it is held with, unless the user
\* has been asked and the context was freed before the answer (rsa_inject,
\* whose handle may by then be another contact's).
MessageForOwner == ~bad => \A m \in sent : m.late \/ m.to = m.owner

\* Late answers too (rsa_check_pub, cpp_create_context).
LateMessageForOwner == ~bad => \A m \in sent : m.to = m.owner

\* A context is the context of one contact, and not one that is free, also when
\* a late refusal has ended an exchange that is not its own
\* (cpp_create_context, cpp_delete_context).
OneHolder ==
    ~bad => \A i, j \in Entry :
        clist[i].cntx # 0 =>
            /\ clist[j].cntx = clist[i].cntx => i = j
            /\ Live(slot, clist[i].cntx)
            /\ slot[clist[i].cntx].owner = clist[i].hContact

\* Callbacks use records that are there (addContact).
NoDanglingRecord == ~bad

\* A failed exchange takes its own context from its contact, no other
\* (rsa_notify, deleteRSAcntx).
ClosesOwnContext ==
    [][\A w \in Worker : worker[w].pc = "mark" /\ worker'[w].pc = "clear" =>
            clist[worker[w].at].cntx = worker[w].handle]_vars

\* A context that no contact has is on its way to be freed (deleteRSAcntx).
NothingLeaked ==
    \A h \in Slot : slot[h].used /\ slot[h].deleted = 0 => \E j \in Entry : clist[j].cntx = h

=============================================================================
