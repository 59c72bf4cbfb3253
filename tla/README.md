# SecureIM: TLA+ models, checks and proofs

SecureIM is a plugin for the Miranda messenger that encrypts conversations. It
comes in two parts: the plugin (`src/SecureIM`) that hooks the messenger's
message, file and status services, and the library `cryptopp.dll`
(`src/CryptoPP`) that keeps a *context* per conversation and runs the key
exchanges. Two protocols are in use. RSA/AES: the contacts compare hashes of
their RSA public keys, exchange the keys that are missing or stale, one of them
draws an AES key, and each passes a crypto test before the session is open. And
the older native one: two Diffie-Hellman keys and what is computed from them.

This directory holds TLA+ models of that system, their TLC configurations, and
proofs checked by TLAPS.

## Inventory

| Part | Code | State | Correct when | Module |
|---|---|---|---|---|
| RSA/AES session | `cpp_rsam.cpp`, `svcs_rsa.cpp` | `RSADATA`: state 0, 2-7, timer, peer's public key, AES key, worker and its queue | a session opens only on a tested, shared key; both sides agree; an exchange ends | `RsaSession` |
| Threads and memory of RSA/AES | `cpp_rsam.cpp` 845-926, `cpp_cntx.cpp` | `thread`, `event`, `thread_exit`, who owns `RSADATA` | nothing freed is used, no thread waits for ever, nothing queued is forgotten | `RsaThreads` |
| Queue of unsent messages | `crypt_misc.cpp`, `crypt_lists.cpp`, `svcs_proto.cpp` 582-751 | `msgQueue`, `waitForExchange`, `sendQueue`, `localQueueMutex` | a message goes out once, encrypted unless the user said otherwise | `ExchangeQueue` |
| Native exchange, mode switch | `svcs_proto.cpp`, `crypt_dll.cpp`, `cpp_keys.cpp` | keys A, B, X; `offlineKey`, `features`, `mode` | both sides compute the same key and end in the same mode; what cannot be read comes back | `NativeKex` |
| Message splitting | `splitmsg.cpp` | `msgPart` lists, `msgid` | the parts of a message, in any order, are put together to it | `SplitMessage` |
| Contexts and contact records | `cpp_cntx.cpp`, `crypt_lists.cpp`, `svcs_rsa.cpp` | slots, `deleted`, the array `clist`, the stored keys | no handle, pointer or answer reaches another contact | `ContextPool` |
| File transfer | `svcs_proto.cpp` 963-1127 | `fileSend`, temporary files | no plain file leaves in a session | - |
| PGP, GPG, encodings, options, icons, metacontacts, start-up | the other files | - | - | - |

Interactions. The messenger's window thread calls `onRecvMsg` and `onSendMsg`.
`rsa_recv` answers short messages itself and leaves the exchange messages
(0x10-0x40) to a worker thread per context, because they may ask the user a
question. A timeout thread looks at every context once a second, ends exchanges
that took too long and frees contexts deleted ten seconds ago. A waiter thread
per contact polls the flag `waitForExchange` and sends what was typed before the
session was open. `RSADATA`, the contact records and the flags of `UinKey` are
shared without a lock; the library calls back into the plugin
(`rsa_inject`, `rsa_check_pub`, `rsa_notify`), which finds the contact by its
context handle (`getUinCtx`) and may delete the context.

What is hard: the threads interleave; state is checked when a message arrives and
used when the worker gets to it; both contacts may start at once; messages may be
lost or repeated; a user may answer a question when the exchange, the context or
the contact is long gone; memory is handed from thread to thread; the two
protocols replace each other's context. `PROJECT.json` lists the hazards at
their lines with the properties that cover them.

The modules are joined by abstraction, not by one product: what `RsaSession`
calls a session is *closed*, *exchange* or *open* in `ExchangeQueue` and a
request with its answer in `NativeKex`; the `RSADATA` whose life `RsaThreads`
follows is `pdata` in `RsaSession`, and the slot that holds it is a slot of
`ContextPool`. Each module allows the others more than they do: any message at
any time (`RsaThreads`), a session that opens, closes and renegotiates at will
(`ExchangeQueue`), any callback (`ContextPool`).

## Modules

| Module | What it is |
|---|---|
| `SecureSession` | what RSA/AES promises, without messages, threads and timers |
| `RsaSession`, `MCRsaSession` | the RSA/AES protocol of two contacts, with its threads, dialogs, timers and network; the symmetry of the two contacts |
| `RsaSession_proofs`, `RsaSession_refinement` | type correctness, authentication, timers; `RsaSession` implements `SecureSession` |
| `RsaSession_agreement` | two open sessions use one key |
| `RsaThreads`, `MCRsaThreads` | every access of window thread, workers and timeout thread to the `RSADATA` of one context; which messages arrive |
| `RsaThreads_proofs` | who owns an `RSADATA`, that owners use live memory, and whose queue it is |
| `Outbox` | what the queue of unsent messages promises |
| `ExchangeQueue`, `ExchangeQueue_proofs` | the queue with its waiter thread; it implements `Outbox` |
| `SplitMessage`, `SplitMessage_proofs` | `splitMsg` and `combineMessage`, threads that share the message id, parts in any order |
| `ContextPool`, `MCContextPool` | slots, records, handles and callbacks of several contacts; their symmetry |
| `ContextPool_proofs` | contexts have one holder, messages and keys go to their contact |
| `NativeKex`, `MCNativeKex` | the native exchange of two contacts and the switch of modes; which versions meet |
| `NativeKex_proofs` | both sides have one key, a context of the mode of its contact, and end in one mode |

### RsaSession and the code

One contact (`e`) has a record `uin[e]` (`UinKey`), an `RSADATA` `pdata[e]`, a
window thread whose place in `rsa_recv` is `main[e]`, a worker (alive when
`pdata[e].event`, inside `rsa_recv_thread` when `busy`), and questions left on
the screen for contexts that are gone (`dialog[e]`). `net[e]` are the messages
on their way to it.

| Code | Action |
|---|---|
| `rsa_connect` from `onSendMsg` | `Connect` |
| SIG_DEIN: `rsa_disconnect`, `deleteRSAcntx` | `Disconnect` |
| contact goes offline | `GoesOffline` |
| `rsa_send` in an open session, to an offline contact | `SendData`, `SendOffline` |
| `Service_Status`; commands and messages while disabled | `SetStatus`, `CommandWhileDisabled`, `RecvWhileDisabled` |
| `rsa_recv`: type -1, wrong step, queued for the worker, 0x70, 0xE0, 0xF0 | `RecvUnreadable`, `RecvWrongStep`, `RecvForWorker`, `RecvData`, `RecvOffline`, `RecvDisconnect` |
| `rsa_recv`, 0x50 and 0x60: test the key; set state 7; wait for the worker | `RecvTest`, `Establish`, `Join` |
| `sttConnectThread`: next message from the queue | `Take` |
| `rsa_recv_thread`: 0x10; 0x23; 0x22, 0x24, 0x33, 0x34 accepted or refused; 0x21, 0x32, 0x40 | `HandleConnect`, `HandleKeyWanted`, `AcceptKey`, `RefuseKey`, `HandleAesKey` |
| `rsa_check_pub` answered after its context is gone | `LateAccept`, `LateRefuse` |
| `sttTimeoutThread`: the check, then `rsa_timeout` | `Expire`, `Timeout` |
| the network (not in this repository) | `Lose`, `Duplicate` |

The 0x50 and 0x60 handlers and the timeout are cut in two where another thread
can do something that the second half does not look at. Every other handler is
one step; the second half of those two reads what it uses from `pdata` again.

`un_tlv` takes a record with an empty value for no record (type -1), and
`null_msg` and `rsa_disabled` send such records. The model keeps this: the
messages "00" and "FF" are not readable, and the code behind their cases is
never reached.

Abstractions. An AES key is a number, drawn in order; a public key is the name
of its owner; encryption, signature and hash are what they let the receiver tell
apart (`Decodes`, `Opens`). A timer that is running may be over at any moment.
Deleting a context takes effect at once: what its worker and the timeout thread
still do for it is invisible to the contact, since `getUinCtx` finds none,
except for a question already on the screen. Both contacts have a key pair and
use RSA/AES mode; MODE_RSA_ONLY (0x0D, 0xD0) is never created by the plugin.
A handler sends and sets the state in one step.

### RsaThreads and the code

`heap[o]` is the o-th `RSADATA` ever allocated: not there, live or freed, with
its state, timer, event (and whether it is signalled), `thread_exit` and queue.
`ctx.pdata` is the context's, `win.p`, `timer.p` and `worker[o].p` are the copies
that threads hold. `worker[o]` is the thread made for block `o`; it fetches its
block from the context when it starts, which need not be `o`. The window thread's
`rsa_recv` stops where it signals, waits or calls `rsa_free` (`RecvForWorker`,
`RecvTest`, `RecvDisconnect`, then `Free...`, `Stop...`, `Joined`, `FreeThread`);
the worker's steps are those of `sttConnectThread` between two accesses to
`thread_exit`, event and queue (`WorkerStart`, `Wake`, `Check`, `Loop`, `Fetch`,
`Handle`, `Pop`), with a question in between (`AnswerYes`, `AnswerNo`); the
timeout thread has the check and `rsa_timeout` of a context that is live or not
yet cleared, and `cpp_free_keys` of a deleted one (`Timer...`). The other contact may send
anything at any time. Use of freed memory is not given an effect: the states in
which it would happen are what the invariants speak of.

### ExchangeQueue and the code

`flag` is `waitForExchange`, `queue` the list, `stale` whether `msgQueue` points
at a node that is freed while the waiter walks the list. The window thread is in
`onSendMsg` or `rsa_notify`, another thread may be in `rsa_notify` too (`note`);
`waitForExchange` is cut between its look at the flag and its assignment. The
waiter's actions are the stages of `sttWaitForExchange`. What `rsa_send` gets with
no session it sends under the contact's public key in state 0, if it has the
key, and drops otherwise (`RsaSend`). Adding to a list whose
head is freed is undefined: the model has the two outcomes, lost memory that
reads as before, and a process that dies (`bad`, `dead`).

### SplitMessage and the code

A message is its number of parts; part k of message m is `<<m, k>>`. The header
length, the number of digits of part numbers and the wrap of ids are as in the
code (`LEN_SECP`, `Base`, `IdSpace`). `ReadId` and `WriteId` are the two database
calls around the id; `ids` remembers which id each message was given, for the
properties to tell whether two share one (`SharedId`). `Recv` is `combineMessage`: look for the id, make the array,
store the part, and put the message together when all are there.

### ContextPool and the code

`slot[h]` is a context that was ever allocated, by its address; `clist` the array
of records. The window thread's operations are one step each; a callback is cut
between finding its record (`Look`, `Notify`) and using it (`Accept`, `Refuse`,
`Inject`, `Mark`, `Clear`), and keeps what it found: a position and the size the
array had, so that a use after the array has moved is seen (`Dangling`). `Free`
is the timeout thread ten seconds after a deletion: callbacks that were under way
at the deletion are over by then, except those with a question on the screen,
which may stay for any time and are marked `late` when their context is freed
(`Outlived`). The properties are stated until a record is used that has moved
(`bad`), since anything may follow.

### NativeKex and the code

`uin[e]` is the contact record with the fields of its context: `cntx` tells
which of the two kinds it is, `keyA`, `keyB`, `keyX` are SIMDATA's, `rsa` the
state of RSADATA, `stored` the setting "offlineKey". A key pair is a number and
the parameters it was drawn with; a secret is the set of the two numbers.

| Code | Action |
|---|---|
| `onSendMsg`: offline with the stored key, online with the key, first key message, queue; RSA/AES mode | `Type` (`SendOffline`, `SendOnline`, `SendRSA`) |
| `Service_CreateIM`, `Service_DisableIM`, `Service_Mode` | `Begin`, `End`, `Mode` |
| `onContactSettingChanged` | `Status` |
| `onRecvMsg`: each type of message | `RecvSECU`, `RecvENON`, `RecvENOF`, `RecvRSND`, `RecvDEIN`, `RecvKEYR`, `RecvKEYA`, `RecvKEYB` |
| `sttWaitForExchange` | `GiveUp`, `Resend` |
| `rsa_timeout`, `rsa_notify` -7 | `RsaTimeout` |
| the messenger is closed and started again | `Restart` |

`CalculateKeyX` follows Crypto++'s `Agree` with validation: keys drawn with the
same parameters agree, one drawn with the new parameters passes for one of the
old ones or not, the reverse fails. `cpp_init_keya` on a context of RSA/AES
writes one structure over the other (`Spoils`): the program crashes, or goes on
with an address for its state. Not in it: the pre-shared key, key messages that
cannot be read, disabled contacts, and the branches for contacts not known to
have the plugin.

## Runs

`CHECK_DEADLOCK FALSE` everywhere: contacts with nothing to say may stop.

Runs that pass:

| Run | Bounds | What it shows |
|---|---|---|
| `RsaSession_safety` | two exchanges, two commands, one loss; users may refuse keys; timers | `TypeOK`; `TimerArmed`: with no handler running, the timer runs exactly in an exchange; `PeerAuthenticated`: an open session was tested with a key the other has; `SessionKeyAgreement`: two open sessions use one key; `ImplementsSecureSession` |
| `RsaSession_duplicates` | two exchanges, one loss, one repetition; only the timeout threads are fair | `ImplementsSecureSession`, also with a repeated message; `ExchangeEnds`: every exchange ends, whoever falls silent |
| `RsaSession_established` | one exchange, no timers, keys accepted | `SessionEstablished`: an undisturbed exchange opens both sides, from each of the nine combinations of stored keys |
| `RsaThreads_safety` | four blocks, four messages of seven kinds; workers may start late | `WorkerUsesLiveData`, `PopsWhatItHandled`, `DeletesUnusedData`, `ContextHasLiveData`; `JoinEnds`: the wait for a worker ends; `MessagesServed`, `OrphanCollected`: nothing queued and no block is forgotten |
| `ExchangeQueue_safety` | three messages; sessions open, close and renegotiate; both answers | `OneWaiter`, `WalkIsAlone`, `ImplementsOutbox`; `WaiterEnds`, `WindowReturns` unless the waiter resends for ever |
| `SplitMessage_safety` | two threads that may take one id, two messages of one to three parts, one loss, two repetitions, two ids | `DeliversWhole`: what is put together has all parts of one message, and a part of another only if the two have one id; `DeliversOnce`; `StaysInside`: no other cause leads out of the array; `BufferHolds`; `EveryMessageArrives`, if no id is shared |
| `ContextPool_safety` | two contacts, two callbacks at once, three slots, five operations, three callbacks; questions open for any time; the second contact moves the array | `MessageForOwner`, but for answers that outlive their context; `OneHolder`; `KeyFiledWhileKept` |
| `NativeKex_safety` | two messages, one reset, end, change of mode or status, or restart; both builds, and an older version | `KeysAgree`, `ModesAgree`, `ContextFitsMode`; `MessagesReturn`; `ExchangeSucceeds` |

Why the bounds are enough. `RsaSession`: two exchanges are what crossing requests
and a renegotiation need; one loss or repetition at each place is explored; two
commands allow a disconnect or a change of status followed by another.
`SessionKeyAgreement` is checked without repetitions: together with a loss, a
repeated 0x10 overtakes the exchange that replaced it, which is the race
`RsaSession_keyrace` shows without any fault of the network (`RsaSession_repeated`).
`RsaThreads`: the
fourth block is reached by two calls of `rsa_free` and the deletion; four messages
start a worker, occupy it, queue one behind and end the exchange.
`ExchangeQueue`: one message in the waiter's hand, one in the list, one typed
meanwhile. `SplitMessage`: part lengths at the limits 34 and 40, message lengths
below, at and above them; two messages in parts are what two threads with one id
and parts kept of an earlier message need, and with two ids the counter wraps.
`ContextPool`: a slot freed and used again while a question of the first owner is
open takes two contacts, five operations (the contacts, a context for each, the
deletion of the first) and one callback; the run reaches it, and there an answer
may go to the other contact (`ContextPool_slowanswer`), but no context gets a
second holder. `NativeKex`: two messages begin two
exchanges that may cross in every way, of six key pairs at most when nothing
disturbs them; a session before, after or in the middle of which one thing
happens. Its invariants also hold with two disturbances (2.8 million states). With
contacts that start in either mode `KeysAgree` holds too; the modes agree with
two messages, and no longer with three and a restart (`NativeKex_startmodes`).

Runs that find a violation. Each checks one statement the repository makes of the
program, quoted in `PROJECT.json`, that the code does not keep:

| Run | Statement | What happens |
|---|---|---|
| `RsaSession_keyrace` | `SessionKeyShared` | the worker draws a new key for a crossing 0x10 between the test of 0x50 and state 7: the session opens with a key the other side lacks |
| `RsaThreads_windowuse` | `WindowUsesLiveData` | `rsa_free` tells the worker to end and then uses the block the worker frees |
| `ExchangeQueue_lateyes` | `ClearOnlyUnestablished` | the user's yes to "send unencrypted" is carried out although the session opened during the question |
| `ContextPool_deletedcontact` | `KeyFiledUnderOwner` | the contact is deleted during the question: its key is stored over the user's own, or for the next contact in that record |

Further disagreements. The configurations below are kept beside the runs; each
can be given to TLC and ends in a counterexample of the property named.

| Configuration | Property | What happens |
|---|---|---|
| `RsaSession_lateanswer` | `KeyLoadedMeansKey` | a question answered after its context is gone marks a key as loaded that is not |
| `RsaSession_abort` | `AbortEndsExchange` | preamble 0 is not readable and ends nothing |
| `RsaSession_disconnect` | `DisconnectHeeded` | 0xF0 is ignored while the exchange is under way |
| `RsaSession_expiryrace` | `TimeoutSparesOpenSession` | the timeout thread ends a session that opened between its check and `rsa_timeout` |
| `RsaSession_halfopen` | `HalfOpenEnds` | after the loss of 0x60 one side keeps the session, and nothing ever tells it |
| `RsaSession_repeated` | `SessionKeyAgreement` | one message is lost and a 0x10 arrives twice: both sessions open, with different keys |
| `RsaThreads_timeoutuse` | `TimeoutUsesLiveData` | the block is handed to the worker, and freed, between the check and `rsa_timeout` |
| `RsaThreads_question` | `WindowNotHeldByQuestion` | the window thread waits for a worker that waits for the user |
| `RsaThreads_slowstart` | `EveryOrphanCollected` | a worker that starts after `rsa_free` fetches the new block: the old one stays |
| `ExchangeQueue_nowaiter` | `QueueHasWaiter` | a message is added as the waiter ends, or after the answer no: nothing resends it until the next exchange |
| `ExchangeQueue_resend` | `ResentInSession` | the session ends while the queue is resent: the message is appended to the list being walked, through a freed node |
| `ExchangeQueue_frozen` | `WindowNeverHeld` | the same with the lock held: the waiter goes round the list and the window thread waits |
| `ExchangeQueue_dropped` | `NothingDropped` | the session ends between `onSendMsg`'s look and `rsa_send`'s |
| `ExchangeQueue_unasked` | `ClearWasAsked` | what is typed while the waiter sends unencrypted goes out unencrypted too |
| `SplitMessage_shortparts` | `BufferHolds` | parts of less than 34 characters overrun the buffer |
| `SplitMessage_manyparts` | `NeverOutside` | more parts than two digits can number: the array is left |
| `SplitMessage_twothreads` | `DeliversSent` | two threads read the same message id, their parts are mixed |
| `SplitMessage_oldparts` | `DeliversSent` | parts of a message that lost one are combined with a later one of the same id |
| `ContextPool_slowanswer` | `LateMessageForOwner` | a question open for more than ten seconds: the answer goes to the contact that has the slot by then |
| `ContextPool_growth` | `NoDanglingRecord` | a contact is added during a callback, the array moves |
| `ContextPool_closesother` | `ClosesOwnContext` | a failed exchange deletes the context of the next one |
| `ContextPool_leak` | `NothingLeaked` | two threads give a contact a context at once |
| `NativeKex_oldpeer` | `KeysAgreeOld` | an older version begins anew: the side in a session keeps its old key, since the KeyB it looks at was freed when the key was calculated |
| `NativeKex_chosenmode` | `ContextFitsChosenMode` | after the user has changed the mode, a message of the old session makes a native key pair in RSA/AES mode, over the data of its context |
| `NativeKex_mixed` | `ContextFitsMode` | the same without the user when exchanges of a debug and a release build cross |
| `NativeKex_startmodes` | `ModesAgree` | contacts that start in different modes exchange keys of both kinds at once, one restarts: each ends in the other's mode |

Also seen in `NativeKex` and excluded by the conditions of its properties:
crossing exchanges of two debug builds fail on both sides (`~Crossing` in
`ExchangeSucceeds`), and a returned message that meets a context ended by DEIN is
dropped (`MessagesReturn`).

Fairness. `RsaSession`: `FairSpec` assumes only that the timeout thread runs: it
is an endless loop with a sleep of one second that takes part in nothing else.
`LiveSpec` adds that the messenger delivers what the network does not lose, and
that window thread and worker go on; the worker may wait for a user, so its run
has `AutoAccept` (the option "auto accept keys"). `RsaThreads`, `ExchangeQueue`:
every thread that can go on does, and a question is answered some day, without
which `msgbox` waits for ever by design; each thread's steps are one weakly fair
action. `SplitMessage`: a thread inside `splitMessageSend` goes on, and what is
under way and not lost arrives. `NativeKex`: messages are delivered and the
waiter's loop, which is timed, ends. No fairness is assumed of what users type,
of losses or repetitions, and of the peer's answers.

Each property of a passing run has a mutant in `PROJECT.json`: a plausible
mistake in one definition (a timer not rearmed, a block kept that is given away,
a lock not given back, a reset forgotten, two messages in the wrong order) under
which TLC finds that property violated. Definitions marked *fault* are these.

## Proofs

The proofs are for every value of the constants that satisfies the module's named
assumption (and, for some of `SplitMessage` and `NativeKex`, those they name; for
`SessionKeysAgree`, `MaxDup = 0`).

`RsaSession`: any number of exchanges, commands, losses, duplicates and keys.

- `TypeInvariant`, `TypeCorrect`: `TypeOK`. Its inductive form adds that a worker
  handling a message has one at the head of its queue.
- `KeyInvariant`: an AES key in a sealed message or in a test is held by the
  sender (`NetCarried`, and `QueueCarried` for messages that wait for the
  worker); a contact's current key is one it holds (`OwnKeyHeld`); keys held were
  drawn (`KeysDrawn`); a key that passed a test is held by both
  (`TestedShared`). The last needs the first ones: a test decodes only with the
  key it was made with, which its sender holds, and holdings only grow.
- `Authentication`: `PeerAuthenticated`, from `TestedShared` and the fact that
  state 7 is set only after a test.
- `Timers`: `TimerArmed` is inductive, given the types.
- `Refinement`: every step of `RsaSession` is a step of `SecureSession` or leaves
  it unchanged. It needs `KeyInvariant` and that the window thread is between
  test and state 7 only while an exchange is under way (`TestInExchange`).
- `SessionKeysAgree`: `SessionKeyAgreement`, if `MaxDup = 0`: the messenger delivers
  no message twice. The condition is needed (`RsaSession_repeated`), and the only
  one. A contact is reduced to a view of it: the place of its window thread,
  the state and AES key of its context, the messages its worker (`queue`) and its
  window thread (`net`) still have to handle, which together are its pipe, and
  the public key it would use. Each action is one of eight moves of a view
  (`NextMoves`), and each move keeps the invariant `Agreed`. An AES key is drawn
  by one contact and cannot come from the other (`Numbered`). Whoever draws one
  sends it last, so that nothing follows it on its way as long as the drawer
  waits for its test (`Waiting`). When the test 0x50 arrives, its sender has
  nothing left to handle (`Tested`). Between that and state 7 the worker may
  still handle a crossing 0x10, which changes the key (`RsaSession_keyrace`); but
  then the other contact's worker has only 0x21 and 0x22 before it (`Replying`),
  keys in 0x21 messages increase (`Ordered`), and so it is while 0x60 is on its
  way (`Closed`) and until the state is set (`Accepting`). Which messages can be
  there at all depends on the public keys: a contact that has the other's key
  says so in every later 0x10 (`Aware`), and no 0x22 follows a 0x21 (`Ordered`).
  `MaxDup = 0` excludes the one action that is not a move: a repeated message
  comes back at the end of the pipe, behind what overtook it.

`RsaThreads`: any number of blocks and messages.

- `TypeCorrect`.
- `OneOwner`: `Ownership` is inductive, however late a worker starts
  (`PromptStart`, which the runs give values, is not assumed). It rests on one
  fact: `rsa_free`, which puts a new `RSADATA` into a context, is always followed
  by the context's deletion, and a deleted context receives nothing. So only the
  first block of a context ever has an event, a queue or a worker (`Alone`), the
  window thread works on no other (`Targets`), and a context that has another is
  on its way out (`PdataOne`). The first block stays as long as its worker does
  (`Owns`), because it is told to free itself only while it is taken from its
  context (`ToldWhileFreeing`) and nobody else deletes a block with an event
  (`DeletesIdle`). Neither half is inductive alone: that the worker's block is
  live rests on nobody else freeing it, and that on it being the worker's.
- `WorkersAreSafe`, `DeletionIsSafe`, `ContextIsWhole`: from it,
  `WorkerUsesLiveData`, `DeletesUnusedData` and `ContextHasLiveData`. The first
  two speak, as in the run, of workers that were given the block made for them.
- `PopsAreSafe`: `PopsWhatItHandled`. The message a worker serves stays at the head
  of the first block's queue (`Serves`): the window thread appends to it, and
  clears it only where the thread has ended (`JoinedIsDone`).

`ExchangeQueue`: any number of messages, both answers, sessions that close or not.

- `TypeCorrect`, `OneWaiterAtATime`, `ListIsLocked`: the invariant `Inv` says
  which value of flag, lock and list belongs to each stage of waiter and window
  thread.
- `QueueImplementsOutbox`: every step is one of `Outbox` or leaves it unchanged.
  It rests on `OnePlace`: a message is in the list once, in one thread's hand,
  out or lost, and only one of these; the lemmas on sequences say what taking
  the head, appending and rotating do to the elements of a list without
  repetition.

`SplitMessage`: any number of threads, any lengths of messages and parts, any losses
and repetitions. What a theorem assumes that the code does not see to, it assumes
by name, and the configuration that breaks the property without it is in the list
above.

- `TypeCorrect`: `Typed` adds that a thread inside `splitMsg` has a message longer
  than its parts and a part number below their count (`ThreadOK`), and that
  arrays of parts start at 0.
- `BufferIsEnough`: `BufferHolds` if parts have 34 characters at least
  (`PartsLongEnough`; see `SplitMessage_shortparts`). A part adds 17 bytes, so
  the buffer of twice the length is enough from there on, and 33 is too few.
- `ArrayIsEnough`: `StaysInside`, without a condition: that two messages of different
  numbers of parts have one id, or that two digits cannot number the parts, are
  the only causes for which the array is left. `OnlyOneIdMixes`: `DeliversWhole` if
  two digits number the parts (`PartsNumbered`). The invariant `Mixing` holds as
  long as the messages sent can be numbered (`Numbered`): a part under way carries
  the id of its message, its number and their count (`NetFrom`), and the array
  kept for an id is as long as one message of that id and holds parts of such
  messages only, each in its place (`RecordsFrom`).
- `WholeMessagesArrive`: more than `DeliversWhole`, no parts are ever mixed
  (`DeliversSent`), if one
  thread sends (`SendsAlone`; `SplitMessage_twothreads`), ids do not come round
  (`IdsLast`; `SplitMessage_oldparts`) and two digits number the parts
  (`PartsNumbered`; `SplitMessage_manyparts`). The invariant `Delivery` says that
  an id stands for one message: all parts under way with it, the array kept for
  it and the thread that writes it agree (`SameMessage`, `CounterOK`,
  `RecordsOK`), because ids not yet used are above the counter.
- `NoMessageTwice`: `DeliversOnce` under the same three conditions. The invariant
  `Once` keeps an account per message: a delivery is worth as many parts as the
  message has, and deliveries, parts under way, parts in the array and parts not
  yet sent are together worth no more than the message and the repetitions paid
  for (`Paid`). A repetition adds one part and one to the account, a loss and a
  part that is stored twice take one away, and a delivery uses up one of each
  part, which is where `Delivery` is needed: the array it comes from holds parts
  of no other message.

`ContextPool`: any number of contexts, threads and operations.

- `TypeCorrect`: `Typed` adds that a thread past its lookup has a position within
  the array, and that a record without contact has no context.
- `ContextsHaveOneHolder`, `KeysAreFiled`, `MessagesForOwners`: `OneHolder`,
  `KeyFiledWhileKept` and `MessageForOwner`, without a condition on the constants.
  They are stated until a record is used that has moved, which the code does not
  prevent (`ContextPool_growth`), and the last one but for answers that come after
  their context was freed, which the code does not see (`ContextPool_slowanswer`);
  contexts may be used again meanwhile. The three are proved together as `Kept`,
  since each step uses several: a context marked as deleted stays with its contact
  until the marking thread clears the record, and that thread began before the
  marking, so the timeout thread cannot free the context in between
  (`HeldOrTaken`); a thread's context is the one its exchange began with, and not
  free, until the thread is late (`SameExchange`); a question is about the contact
  its record is of until a contact is deleted (`KeysKept`;
  `ContextPool_deletedcontact` for after that). `LeastIn` is about the code's
  searches: the first entry of a kind exists when any does.

`NativeKex`: any number of messages, key pairs and disturbances of every kind. What
a handler does is stated once (`Handled`: a contact reads a message or none,
leaves a record behind, sends), there is a lemma per action that it is of this
form, and the invariants are shown for the form.

- `TypeCorrect`: `TypeOK`, which says too that only a first key message has the old
  parameters and only ciphers carry a text.
- `KeysAlwaysAgree`: `KeysAgree`, without a condition. The key two contacts have is
  not to be seen in the keys they hold: one of them has thrown its own away. The
  invariant `KeyInv` follows instead the last message on its way to a contact
  that ends its session (`Pending`). A contact with a key pair of its own has
  sent it last (`SentLast`); the third message of an exchange, as long as its
  sender keeps the session, completes the very key pair it meets (`Completes`);
  and two sessions with nothing of this kind on its way have one key (`Agree`).
  A first key message may be overtaken by what its receiver did meanwhile, of
  which there is then a sign on the way back (`OldStirs`).
- `ContextAlwaysFitsMode`, `ModesAlwaysAgree`: `ContextFitsMode` and `ModesAgree`, if
  both are release builds, or start in one mode and are of one version or with
  an older one (`Settled`). Without it they do not hold: `NativeKex_mixed` is a
  debug and a release build, `NativeKex_startmodes` two contacts that start in
  different modes. Under it there are three kinds of pairs (`ModeInv`): those
  that never leave the native mode, those that never leave RSA/AES, and those
  of which each contact changes once, where what will change the other is on its
  way as long as the two differ.

Only model-checked: all liveness properties (under fairness, out of reach of
these proofs). `SessionKeyAgreement` is neither checked nor proved for a messenger
that repeats messages, where it fails.

## Not modelled

File transfer: `onSendFile` and `onProtoAck` encrypt files before and decrypt them
after a transfer that the messenger carries out; nothing but the file names is
kept between the two. PGP and GPG modes wrap external libraries and keep no
protocol state. Encodings, compression and the Crypto++ sources, which are most
of this repository's lines, are taken as what they promise. Options, icons,
popups and menus show state or issue the commands modelled above; the option
page, which changes a contact's mode without deleting its context, is not among
them. Start-up registers services once. Metacontact code is nearly all commented
out. Key generation at first start and exchanges before it ends are outside
`RsaSession`, which assumes both key pairs. `NativeKex` loses no messages, which
`RsaSession` does.

Left to do: `FileTransfer`; the native branches for disabled contacts and
unreadable key messages.
