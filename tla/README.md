# A formal model of the MDU

The MDU (Media Distribution Unit) relays video and sound from the gateways of
cameras (CSG) to the client units (CU) that watch them, under the orders of a
central management unit (CMU) and in cascade with other MDUs. It is a C program
of two application threads and one I/O thread; everything it knows about who
watches what is in two arrays and two linked lists. This project models that
knowledge, checks it with TLC and proves its safety with TLAPS.

## 1. Inventory

Peers talk to the MDU over UDP: CMU (commands, login, keep-alive), CSG
(confirmations, answers, media), CU (keep-alive, talkback sound), neighbour MDU
(relayed commands on port 6004). Three threads act on the state: the I/O thread
(`DePoll`, mdusock.c:2062, runs every receive callback), `KeepAliveToCmu`
(1599) and `puExistTime` (1505). Two locks protect the tables:
`m_transferListMutex`, then `m_subscribeListMutex`.

| Component | State | Operations | What makes it correct |
|---|---|---|---|
| Stream tables (mdulist.c, mdulist.h) | `m_TransferTable`, `m_cuLinkArray`, `m_pTransferList`, `m_pCUList` | `avInsertList`, `removeTransfer` | a slot in use is never recycled, counts agree with lists, one entry per stream and one CULINK per CU |
| Stream commands (mduav.c) | - | `odDataOpen`, `odDataClose`, `nodeTo*`, `avFBMsg`, `nextSendcsg`, `nextOpenTomdu` | a stream is asked for when needed and released when its last viewer leaves, what the CMU is told is true |
| CSG answers and media (mdusock.c) | - | `mdu_msgfrom_csg`, `sendodFBToCmu`, `destoryPUList`, `mdu_datafrom_csg` | media reaches the viewers and nobody else; a failure removes its own stream |
| Stream watchdog (mdusock.c) | `puLastTime` | `puExistTime`, `streamStopToCmu` | a silent stream is removed and reported, a live one is not |
| Cascade (mdusock.c, mduav.c) | `nextAddr`, `mduNode` | `mdu_msgfrom_cas`, `judgeOrderMsgTpye` | commands mean the same from a neighbour as from the CMU |
| CU announcements (mdusock.c) | `transAddr` | `mdu_msgfrom_cu` | media follows the CU's address |
| CMU session (mdusock.c) | `m_stGlobe` | `SendReg`, `SendKeepAlive`, `updateLoginInfo`, `KeepAliveToCmu` | the MDU is registered as long as the CMU lives, and starts anew otherwise |
| Supervision (runmonitor.sh) | - | restart | there is a process |
| Talkback (mdutalkback.c, mdulist.c) | `m_TalkBackTable`, `m_CSGLink`, two lists | `talkBackOpen/Close`, `dataSendtoCsg`, `talkBackAddList/Remove` | sound goes to the CSGs its CU opened and to no other |
| I/O queue (ioque_base.c) | per key: read and write lists, reference count | `top_ioqueue_recvfrom/sendto`, dispatch, unregister | every operation completes once, in order |
| Configuration and sockets (mdusock.c, mdumain.c, MDU.conf) | MDU.conf | `mduConfAnal`, the five `*SrvCreate`, `mdusockfunc` | everything a thread uses exists before it runs; the process can start again |
| Wire formats, portability headers | - | in a binary library, or wrappers | not modelled |

The components meet at four places. Handlers run in the I/O thread and send
through `IoQueueKey`'s operations; `CmuSession` decides whether the process and its
identity exist, and its exit is `Restart` of `MduStreams` and `TalkBack`; the
watchdog (`PuWatch`) shares `m_pTransferList` with the handlers; `TalkBack` uses the
stream tables for the direction from the device to the CU.

The CU watchdog (`KeepAliveFromCu`, mdusock.c:1661) is commented out at
line 1806; with it `removeCUInfo`, `sendCUWarning` and `stopMsgToCSG` are dead
code. Broadcast commands are confirmed and ignored.

Hard behaviour, in short (PROJECT.json lists each hazard with its line):
slots are recycled by criteria that differ from list membership; loops step
through list nodes they have just freed; counters of two kinds decide what is
released; answers arrive late and are matched by a key that is not the command's;
fields are used uninitialised; both tables can be full; the process restarts
under its peers; the watchdog thread works on lists it does not properly lock;
threads share operation keys of the I/O queue; clocks of different threads are
subtracted without a sign; the configuration file is rewritten in place.

## 2. Modules

In the order in which they build on each other:

1. `Subscriptions` - what the tables promise, without tables.
2. `MduStreams` - tables, commands, answers, media, watchdog, restart; `MCMduStreams`
   gives it instances; it implements `Subscriptions` (checked and proved).
3. `MduStreamsProofs` - an inductive invariant and the safety theorems; `Subscriptions`
   is implemented for all constants; how far counts can leak.
4. `IoQueueKey` - one key of the I/O queue with its lists, the submitting threads,
   the pollers and an application that cancels, locks and unregisters; it
   implements `AsyncOps`, what a proactor promises (checked, with liveness).
5. `PuWatch` - `puExistTime` against the I/O thread, step by step, with its clock.
6. `CmuSession` - start, login, keep-alive, exit and restart.
7. `TalkBack` - tables, open, close and the forwarding of sound.

8. Proofs for the other components: `CmuSessionProofs`, `TalkBackProofs`,
   `PuWatchProofs`, `IoQueueKeyProofs`, `IoQueueKeyDelivery` and `IoQueueKeySends`, over
   the facts of `ListLemmas`.

Each module `M` has a module `MCM` with the sets and functions that its
configurations `M_<run>.cfg` use (`MduStreams` has the prefix in its files only).

## 3. The model of the stream tables

### State

| Model | Code |
|---|---|
| `key, first, node` | `mStreamKey`, `firstcuid`, `mduNode` of an entry of `m_TransferTable` |
| `cus[t]` | the CULINKs in `mCUList` |
| `nodes[t]` | how often entry t is in `m_pTransferList` (the code can list it twice) |
| `id, addr, refs` | `mCUId`, `transAddr`, `CURefCnt` of a CULINK of `m_cuLinkArray` |
| `cuList` | the CULINKs in `m_pCUList` |
| `cmd[k]` | history: the last command sent to the source of k, and to which hop |
| `asked` | every command ever sent to the CSG, that is, the network |
| `said[u]` | history: the port CU u named last, in a keep-alive or in an OPEN that found it unrecorded |
| `out` | the messages the last handler sent |

`NoStream` and `NoCU` are the zero key and identifier memset leaves.

### Actions

| Action | Code |
|---|---|
| `Open` = `OpenListed` or `OpenNew` | `odDataOpen` with `nodeToCSGInsert` or `nodeToMDUInsert`, `avInsertList`, then `avFBMsg`, `nextSendcsg` or `nextOpenTomdu` |
| `Close` = `LeaveLast`, `LeaveOthers`, `LeaveNothing` | `odDataClose`, `nodeToCSGRemove`, `removeTransfer`, then `nextSendcsg` or `avFBMsg` |
| `CsgAnswer` | `mdu_msgfrom_csg`, `sendodFBToCmu`, on failure `destoryPUList` |
| `Forward` | `mdu_datafrom_csg` |
| `CuKeepAlive` | `mdu_msgfrom_cu` |
| `PuTimeout` | one timed-out entry in `puExistTime`, `streamStopToCmu` |
| `Restart` | exit of `KeepAliveToCmu` (or a crash) and runmonitor.sh |

An action is a whole callback with all it calls. A callback runs on the single
I/O thread; the watchdog is another thread, and its reads outside the lock are
abstracted here and the subject of `PuWatch`. Other abstractions:

- A device and channel are one value of `PU`; messages are records of what their
  receiver can tell apart. The confirmation sent for every CMU command is left out.
- There is no clock: the watchdog may find any watched stream silent.
- The lists are sets. Which CU the loop of `destoryPUList` meets first is open.
- `Walk` gives both outcomes of reading a freed list node: a cleared pointer
  (`"null"`, the slice allocator of glib) and a surviving one (`"stale"`).
- An audio CLOSE searches with an uninitialised stream id (`CloseKey`): every value.
- The CSG may answer any command it was ever sent, at any time, any number of
  times, with either result, or never. Media comes only for streams that were
  asked for. A message of the MDU may be lost: nothing depends on its arrival.
- A send that the socket layer refuses is a lost message.
- A command a neighbour relays names any CU, as the receiving handler allows; the
  sender of this code (`nextOpenTomdu`, mduav.c:237) writes identifier 0, copies the
  message head over the first fields and passes the address of its own parameter as
  the destination, see "Not modelled".

### Properties

- `TypeOK`; `RefsCover`: a CULINK is counted at least as often as it is listed;
  `LeaksOnlyAtLoss`: a step raises the surplus only by destroying a stream of several CUs,
  by one, and never for all of them. That counts do leak is the code's behaviour with
  an allocator that clears freed nodes (section 10).
- `NoDangling`: listed CULINKs are live and carry their own CU's address.
- `Unique`: searches have one answer. `FreeUnlisted`: a slot free for reuse is not
  listed. `Sourced`: watched streams are listed, and were asked for and not released.
- `OwnAnswersTrue`: what the MDU answers on its own is true when it is sent.
- `EveryViewer`: the packets of a media datagram go to every viewer, one each, at the
  address it named last, and to nobody else. A packet carries the entry and the CULINK
  it was sent for, so two packets to one CU are two members of `out`. An OPEN of a
  CU that is recorded already does not name an address: `avInsertList` drops it
  (mdulist.c:129-145), and the CU is reached there again with its next keep-alive.
- `FailedOpenRemoved`: when the failure of a video OPEN has been passed on, the stream
  is forgotten; that of an audio OPEN leaves it (mdusock.c:786, section 10).
- `AnswerIsLocal`: an answer takes viewers from the stream it names only or, as the
  code looks an audio answer up as video, from the main video stream of its device.
- `AnswerRelayed`: every answer is passed on (refuted by the run `close_unanswered`).
- `Subscribed`: every step is a subscription, a refusal, an unsubscription, the
  loss of one stream by all its viewers, a restart, or changes nothing
  (refinement of `Subscriptions`).

## 4. The model of the I/O queue

`IoQueueKey` is one key (one socket) of the proactor queue of `ioque_base.c`.
Threads that send and receive submit operations, most of them without the key's
mutex; threads inside `top_ioqueue_poll` complete them; an application thread
connects, locks, cancels, initialises operation keys and unregisters.

| Model | Code |
|---|---|
| `mutex`, `evs`, `connecting`, `closing` | `key->mutex`, membership in the poll set, `key->connecting`, `key->closing` |
| `next`, `prev` | the links of the list heads and of the `top_ioqueue_op_key_t`, nodes in the caller's memory |
| `opkey`, `buffer` | `op`, `buf`, `written` of an operation key; the memory it points to |
| `pc`, `retry`, `sending`, `job` | where a thread is, and its local variables |
| `link`, `inbox`, `wire` | the kernel's side of the socket |
| `answer`, `reports`, `received`, `dropped` | history: results returned and reported, connections that `top_ioqueue_accept` closed because it could not read their address (`DropAccepted`, lines 1036-1041) |

| Action | Code |
|---|---|
| `SendCheck` ... `SendQueue` | `top_ioqueue_send`, `top_ioqueue_sendto`, cut at each unlocked read |
| `ReadCheck` ... `ReadQueue` | `top_ioqueue_recv`, `top_ioqueue_recvfrom`, `top_ioqueue_accept` |
| `WriteBegin`, `WriteSend`, `WriteFinish`, `WriteCallback` | `topque_dispatch_write_event` |
| `ConnectDone`, `ConnectCallback` | its part for connects, `topque_dispatch_exception_event` |
| `ReadBegin`, `ReadCallback` | `topque_dispatch_read_event` |
| `top_ioqueue_connect`, `top_ioqueue_post_completion`, `PostCallback`, `top_ioqueue_op_key_init`, `top_ioqueue_lock_key`, `top_ioqueue_unlock_key` | the functions of these names |
| `Poll`, `Unregister`, `Arrive`, `Established` | the library libtoplib.a, the kernel and the network (external) |

How a program uses the key is data, a record of `Use`: who sends what from which
operation key and memory, datagrams or a stream, concurrency, whether a sender
waits for its completions or for its connect (`eager` does not), whether it initialises
operation keys again, and then only idle ones (`careful`: `Care` is the application's guard,
`top_ioqueue_op_key_init` has none). One run checks eight uses at once. Some guarantees hold
only for uses that do what `io_queue.h` asks: `ReportedTrue` for senders that wait
for completions, because the byte count is read from the operation key after it was
released (ioque_base.c:352); `InOrder` on a datagram socket likewise, because a
datagram is taken off the list before it is sent (line 273) and a later call then finds
nothing pending; `PendingWatched` of the sends of an application that waits for its connect,
because the end of a connect clears the event of both (line 186). The MDU itself shares one operation key among all threads
(`MduUse`), which is the run `IoQueueKey_shared_key`.

Properties: `PendingWatched` (no pending operation without its bit in the poll set),
`ListsLinked` (the in-place lists are rings), `CompletedOnce`, `ReportedTrue`, `SentOnce`,
`InOrder`, `ReadsInOrder`, `NothingLost` (what arrived is in one place; only accept may
close a connection, the one whose address it cannot read), `LockExcludes` (the key's lock keeps callbacks out
when concurrency is disabled), `NoWatchAfterClose`; and with fairness `Proactor` (the
key implements `AsyncOps`: what is pending is reported, once) and `ReaderTold`. The
invariants and the safety part of `Proactor` are also proved, see section 9.

## 5. The model of the stream watchdog

`PuWatch` has the two threads that use `m_pTransferList`: the I/O thread, whose
handlers are `Call` (two of them read the head at once), `Lock` and `Handle`; and
`puExistTime` in the steps `WatchHead` (head read without the mutex), `WatchLock`,
`WatchLook` (the clock arithmetic), `WatchClear`, `WatchRemove`, `WatchWipe` and `WatchNext`,
which unlocks in every iteration. `list`, `key`, `node`, `viewed` are the list and the
entries, `age[e]` and `lag` the differences of `puLastTime` and `tlast` to now (their own difference is
unsigned where the `glong` of `tv_sec` has 32 bits, which the model and the run `PuWatch_clock`
assume; with 64 bits it is signed and does not wrap), `pos` and
`current` the watchdog's pointers, `io` the handler's. A freed node's `next` is NULL, as
the slice allocator of glib leaves it, so that `pos` is 0; using its data crashes the
process (`Crash`) or finds nothing. Removals renumber `pos`.

The model leaves the removal of CULINKs to `MduStreams`, which in turn takes the
removal of a silent stream as one step (`PuTimeout`). The unlocked steps do harm
that the model contains and that no property denies: the unlock releases a handler's
mutex; the memset may clear an entry that was just taken for another stream; media
may be credited to nobody. `SilentRemoved` and `LockReleased` say what survives.

## 6. The model of the CMU session

`CmuSession` has three threads of one process, MDU.conf, the network and the CMU.

| Model | Code |
|---|---|
| `conf` | localid in MDU.conf, `Lost` when the file is empty |
| `proc`, `created` | the process and how far `mdusockfunc` got |
| `ka`, `naps`, `lag` | the thread `KeepAliveToCmu`, what is left of its sleep, the age of its clock reading |
| `heard`, `silent` | `LastActiveTime`: 0 or not, and its age |
| `bRegister`, `kept` | `m_stGlobe` |
| `mduId`, `tagId`, `csgId` | the three copies of the identity |
| `io`, `answer` | the handler of a login answer |
| `net`; `known`, `online`, `refused` | datagrams; what the CMU knows (external) |

| Action | Code |
|---|---|
| `runmonitor`, `mdusockfunc` (`mduConfAnal`, `cmuSrvCreate`, `SrvCreate`) | runmonitor.sh, the functions of these names |
| `KeepAliveBegin`, `KeepAliveClock`, `KeepAliveToCmu` with `SendReg`, `SendKeepAlive`, `emputyList` | `KeepAliveToCmu` and its callees |
| `RecvAck`, `updateLoginInfo`, `ConfOpen`, `ConfWrite`, `LoginUpdate`, `RecvCommand` | `mdu_datafrom_cmu`, `updateLoginInfo` |
| `Crash` | a signal, `g_error` |
| `CmuLogin`, `CmuRefuse`, `CmuAlive`, `CmuCommand`, `CmuRestart`, `Lose`, `Tick` | CMU, network, clock (external) |

The sleep of ten seconds and the limit of sixty become `Sleep` and `Limit`; only their
order and the boundary matter. `Silence` is the unsigned difference of the code:
with `LastActiveTime` still 0 it is huge, and after an answer that is newer than the
clock reading it wraps around.

Properties: `SocketsReady`; `IdentityAgrees` (the copies of the identity between two login
answers); `AliveIdentity` (what keep-alives name, although `mduId` is read without
a lock); and with fairness `Registered` and `SilenceNoticed`, for behaviours in which the
process neither hangs in `emputyList` nor has lost its configuration (`Stuck`).

## 7. The model of talkback

`TalkBack` has `m_pTalkBackList` as the sequence `list` of entries, `cu[e]` and `csgs[e]` (`mCSGList`,
a sequence of links, repetitions included), `uid[l]` and `refCnt[l]` (modulo `RefRange`) of the
links of `m_CSGLink`, `hears` for the direction that is in the stream tables, and
`sent`, the messages of the last handler. `opened`, `closed` and `closes` are history.

| Action | Code |
|---|---|
| `talkBackOpen` with `talkBackAddList` | functions of these names, one callback of the I/O thread |
| `talkBackClose` with `talkBackRemove` | the same |
| `dataSendtoCsg` | sound of a CU to the CSGs |
| `mdu_datafrom_csg`, `sendFBToCmu` | sound and answers of a CSG |
| `Restart` | exit and restart |

`talkBackRemove` takes nothing off the lists, as the code removes `m_pCSGList`, which is
NULL (mdulist.c:477). Properties: `OneEntry`, `OpenHeard`, `FirstCloseHarmless`, `CloseSent`.

## 8. Runs

Deadlock is checked except in the runs of `IoQueueKey` (all messages sent, all
threads done: a system that really stops).

| Run | Instance | Shows |
|---|---|---|
| `video` | 2 CUs with 2 ports, video and sound of one device, 2 entries, 2 CULINKs, commands of the CMU, freed pointers survive or not | where counts leak, answers true and as local as the code makes them, media to every viewer at its last address, refinement of `Subscriptions` |
| `tight` | 3 CUs, video and sound of one device, 2 entries, 2 CULINKs, commands of a neighbour, with a route or not, freed pointers survive or not | full tables, leaking counts and uninitialised fields: no slot in use is recycled, tables consistent, refinement |
| `IoQueueKey_key` | 8 uses, 2 senders with 2 messages of 2 bytes or 2 receivers with 3 arrivals, 2 pollers | the safety invariants and `NoWatchAfterClose` |
| `IoQueueKey_live` | a sender and a receiver, and a stream being connected; 1 poller; fairness | `Proactor`, `ReaderTold` |
| `PuWatch_live` | 2 streams, one source dead, 2 entries; fairness | `SilentRemoved`, `LockReleased` |
| `CmuSession_session` | 1 identity, 2 faults, 2 datagrams on the way, refusals and commands; fairness | the three safety properties, `Registered`, `SilenceNoticed` |
| `TalkBack_talk` | 3 CUs, 2 CSGs, 2 entries, 3 links, 2 CLOSEs in a process | the four properties |

Five runs find the code in disagreement with its comments:

| Run | Disagreement |
|---|---|
| `close_unanswered` | the answer to the CLOSE of the last viewer is dropped (mdusock.c:797, 1231) |
| `IoQueueKey_shared_key` | threads that share an operation key insert it twice (mdusock.c:1643, ioque_base.c:973) |
| `PuWatch_clock` | media that arrives after the clock was read ends a live stream (mdusock.c:1544) |
| `CmuSession_spin` | with a CU in the first stream the process that gives up the CMU need not end (mdusock.c:262) |
| `TalkBack_diverted` | the second CLOSE of one CU releases another CU's link, and sound goes to the wrong CSG (mdulist.c:477) |

### Bounds

- Tables: the code's 1024 slots become 1 to 3. What matters is whether slots run out
  and are recycled; `video` has room for everything, in `tight` a CU may find no CULINK
  and two entries may be taken one after the other, and `TalkBack_talk` runs out of
  each kind. `MaxRefs` and `MaxNodes` bound counts that a leak or a double listing would
  raise for ever: two streams give a CU two references, so 3 (`video`) lets a leak show
  beside both, and 2 (`tight`) lets it come with one.
- `tight` identifies states that differ only in `said` and `out` (VIEW `TablesOnly`): no
  handler reads them, and no property of the run speaks of them. The properties of
  messages are those of `video`, which has no view.
- `IoQueueKey`: two messages are needed for order and reuse of a key, two bytes for
  a partial write, two pollers for a race of two completions, three arrivals for a
  reader that is overtaken. The fairness run has one poller, which is what the MDU has.
- `PuWatch`: `Limit` 2 periods (15 s of 5 s periods, the boundary included), a walk of at
  most one period. One dead and one live stream are the two cases, and a second node is
  what a walk can lose; with three nodes the properties hold too (558 000 states),
  but the run takes too long to be repeated often.
- `CmuSession`: two faults combine any two of crash, failed send, repeated
  datagram, refusal and restart of the CMU. `Limit` is 3 and `Sleep` 1, so that
  several keep-alives fit into the limit. One identity: with two, a CMU that gives a new
  identity to each login it does not know and the late answers to earlier logins
  can keep the two apart for ever, see section 10.
- `TalkBack`: `RefRange` 4 lets a count wrap around after two OPENs and two CLOSEs.

Runs with CUs, CSGs or pollers that the specification does not tell apart use
symmetry (`video` and `tight` in CUs and ports); no run with a liveness property does.

### Fairness

- `IoQueueKey`: a thread in the poll loop gets an event again while the socket is
  ready, because epoll is level triggered (strong fairness of `Poll`), gets the mutex in
  the end (strong fairness of a dispatch step), the holder of the mutex goes on, and the
  kernel ends every connect. Nothing is assumed of senders, receivers and peers.
- `PuWatch`: both threads are scheduled and time passes (weak), who waits for the mutex
  gets it in the end (strong). Nobody has to call. `SilentRemoved` excepts a walk that
  never ends because handlers keep appending nodes while no time passes.
- `CmuSession`: the monitor, the threads and the clock go on (weak). A login that is sent
  again and again arrives while its process runs, and so does its answer (strong);
  nothing stays on the way for ever; an exit does not hit the handler of
  a login answer at the same place in every life of the process. Keep-alives
  and their answers may all be lost. The start of the process takes less than
  a second, so `Tick` waits for it.

### Mutants

Every property of a passing run has a mutant: an operator placed before the
definition it replaces (`FirstFreeLinkOffByOne` for `FirstFreeLink`, for example) that
changes the code as a slip would, and that the property detects.

## 9. Proofs

A theorem holds for every value of the constants its module's assumption allows: any
numbers of CUs, streams, slots, threads, operation keys, messages and arrivals.
Assumptions beyond those of the model are written with the theorem, and each of
them is one that the code does not enforce.

### Stream tables

`MduStreamsProofs`, from `StreamsAssumption` alone (any front, routes, allocator and
full tables):

- `TypeCorrect`: `TypeOK`; `RefsNeverShort`: `RefsCover`; `NeverDangling`: `NoDangling`;
  `AlwaysUnique`: `Unique`; `AlwaysSourced`: `Sourced`; `MediaToViewers`: `EveryViewer`.

The argument is one inductive invariant, `IInv`. `NoDangling` is not inductive:
that a listed CULINK is live rests on its count being at least the number of
lists that hold it (`RefsCover`), on `m_pCUList` being exactly the counted CULINKs
(`ListIsRefs`) and on each of them carrying its CU's data (`LinksOwned`); that a new
CULINK is in no list follows from `RefsCover` when its count is zero. This half is
`LinkInv`. The other, `EntryInv`, needs types, `OneEntry` and `Sourced` together: an
entry cleared for one stream must not be the entry of another, and the command
history changes for the key of the cleared entry only. `HoldersStep` computes how
a change of one CU list changes the number of holders; `RecordLinks` and
`UnrefLinks` lift it to `Record` and `Unref`, through which every handler acts; then
there is one lemma per handler. For `EveryViewer` the CULINKs of one entry are mapped one
to one to the packets and to the viewers, which `OneLink` and `LinksOwned` allow; that the
address is the last one is `SaidInv`, an invariant of its own: a CULINK in use has the
address in `said`, because a keep-alive writes both and an OPEN writes both or neither.

`Refinement` is `Spec => Subscribed`, for the same constants. `Held(v, j)` says that CU v is
in the CU list of an entry of stream j; with `Sourced` it describes `Subs`
(`SubsHeld`). A list a handler does not touch stays the same for `Held` if its
CULINKs keep their CU (`SameList`): for `Record` because a new CULINK was free
(`RecordSame`), for `Unref` because a CULINK in two lists is counted twice
(`HeldTwice`, `UnrefSame`) and so is not cleared. Then one lemma per handler names
the step of `Subscriptions` it takes, or shows that `Subs` stays. The same facts give
`FailedOpenForgotten` (`FailedOpenRemoved`) and `AnswersStayLocal` (`AnswerIsLocal`), with sound
streams or without: what the audio lookup does is part of the second.

`LeaksBounded` is `LeaksOnlyAtLoss`, for either allocator: every handler but `DestroyEntry` and
`Restart` changes the count and the lists of a CULINK together (`HoldersStep` again), and
`Walk` gives back at least one reference of a list that is not empty.

The last part has what needs an assumption on the tables:

- `FreeNeverListed` (`FreeUnlisted`) and `AnswersAreTrue` (`OwnAnswersTrue`) when there is a CULINK for
  every CU. The counted CULINKs belong to different CUs, leaked ones included, so a CU
  that is not recorded yet finds a free one (`RoomForAll`, by the pigeonhole principle),
  and every OPEN that is answered here records its CU. Entries may still run out.

### CMU session

`CmuSessionProofs`, from `SessionAssumption` alone:

- `SessionTypes`: `TypeOK`; `HandlersHaveSockets`: `SocketsReady`;
- `OneIdentity`: `IdentityAgrees`; `AliveNamed`: `AliveIdentity`.

`IInv` joins six parts. `Life` ties the threads and the sockets to the stage of the
process; `Identity` says which of the three copies and of MDU.conf agree at each
line of `updateLoginInfo`; `Answers` says which identities the datagrams on their way carry;
`Conversation` says that there are keep-alives, or answers to them, only when MDU.conf
holds an identity the CMU has named, or is being written; and `AliveIdentity` itself
is a part, because a keep-alive stays on the way while the identity changes.

### Talkback

`TalkBackProofs`:

- `TalkTypes`: `TypeOK`; `AlwaysOneEntry`: `OneEntry`; `OpenAlwaysHeard`: `OpenHeard`;
  `CloseAlwaysSent`: `CloseSent`;
- `FirstCloseIsHarmless`: `FirstCloseHarmless`, when `MaxListed <= RefRange`: a list no longer
  than the range of the counter cannot wrap it around by OPENs. Both are 4 in the
  run; in the code the counter has 32 bits and each node takes memory.

`SearchInv` (types, one entry per CU, links in lists name a CSG, and a CU that was given a
conversation has a listed entry with links) is enough for the first four. The last one
needs `CountInv`: up to the second CLOSE, the count of a link is the number of its list
nodes, less the first k nodes of the one entry that the CLOSE released (`Counts`), so that no
link in a list of another CU is reused; and the nodes of all lists are at most as many
as those of `m_pTalkBackList` (`HeldListed`), so that no count wraps around.
`ListLemmas` has the facts on sequences that this proof and the next ones use: least
numbers, first positions, appended elements, heads and tails, and remainders.

### Stream watchdog

`PuWatchProofs`, from `WatchAssumption` alone:

- `AlwaysTyped`: `TypeOK`. The invariant `WatchInv` adds the type of the call in progress,
  that `pos` is a node of the list or 0, and that `pTransfer` was read before the entry
  is cleared, unlisted and wiped. `RemovalInList` is the step that matters: whoever
  removes a node, the watchdog's one moves with the list or is freed.
- `EndsSilentOrAhead`: `SilentOrAhead`, which says how far `SilentOnly` fails. The run
  `PuWatch_clock` shows a live stream that is ended; the theorem shows that the stream is
  listed, was opened by the CMU, and was either silent for too long or heard of after
  the watchdog read its clock (`SilenceIsAge`: without that the unsigned difference is no
  more than the silence). It is about the decision: the steps that follow may clear
  an entry that was taken for another stream in between, see section 5.

### I/O queue

`IoQueueKeyProofs`, for every use of the key:

- `LockAlwaysExcludes`: `LockExcludes`; `NeverWatchedAfterClose`: `NoWatchAfterClose`,

and, if no two operations share an operation key (`ExclusiveUses`):

- `KeyTypes`: `TypeOK`; `AlwaysLinked`: `ListsLinked`; `AlwaysCompletedOnce`: `CompletedOnce`;
  `AlwaysWatched`: `PendingWatched`.

`Exclusive(u)` asks that every operation key belongs to one sender or to one receiver. This
is what io_queue.h:735 takes for granted ("An operation specific key to be associated with
the pending operation"), and that the application is `careful`. A sender may use his key
again before the operation is complete. The eight uses of the run `IoQueueKey_key` satisfy it; the MDU's own use (`MduUse`) does not,
and the run `IoQueueKey_shared_key` shows what happens then, so the assumption cannot
be dropped.

The pending lists are nodes in the caller's memory, linked in place, and the code
decides from `op` alone whether an operation key is free. `Links` therefore speaks of the
whole memory: on the nodes in use (`ring`), `next` and `prev` are inverse to each other and
stay among the nodes of one head (`home`), and a node outside is not pointed at. `QueueLinks`, `EraseLinks` and `ClearLinks` say what an insert, a removal and a
`bzero` do to it. `KeyInv` adds who has an operation: `Filed` (what is on the ring is
filled and awaited), `Queueing` (what a submitting thread has filled is not yet on the ring and
nobody else's), `SendJobs` and `ReadJobs` (what a worker has taken off), `Hands` (no two of them
hold the same) and `Fresh` (messages to come have no results). `Memory` says that what
a send points to is not empty, `Reading` what receivers fill in. None is inductive without the
others: that a node is inserted once rests on `op`, which the dispatch functions clear after
they took the node off the ring, which they do under the mutex (`Locks`).
`PendingWatched` adds `Quiet` and `Unmixed`: an application that is not `eager` sends nothing
before the outcome of its connect is known, and no message is written while a connect is
going on, so neither of the two clears an event the other needs.

`IoQueueKeyDelivery`, under `ExclusiveUses`:

- `SendsImplement`: `Spec => Async!Spec`, the safety part of `Proactor`: each step is one step
  of `AsyncOps` for one message, or a stutter (`StepCases`, `SenderSubmits`, `WorkerCompletes`);
- `AlwaysInOrder`: `ReadsInOrder`; `NothingEverLost`: `NothingLost`. The invariant `Delivery` says
  that what waits in the socket is in the order of arrival and newer than all that was
  taken (`InLine`), that what a worker carries is newer than all its receiver has (`InTurn`),
  and that everything is in one place (`OnceEach`): the socket, a worker, a receiver or, as one
more place, what accept closed (`Holders`, `Refused`).

`IoQueueKeySends`, under `ExclusiveUses` and `OwnMemoryUses`:

- `AlwaysSentOnce`: `SentOnce`; `AlwaysReportedTrue`: `ReportedTrue`;
- `AlwaysSentInOrder`: `InOrder`.

`OwnMemory(u)` asks that two messages share their memory only if their sender waits for the
completion of the first, which is what io_queue.h:740 demands of the caller ("Caller MUST
make sure that this buffer remains valid until the write operation completes"). Without it
the poller sends what the next call wrote. The eight uses of the run satisfy it too.

What left the socket is counted by `Bytes(m)`; the code counts it in `written` of an operation
key, which is cleared and filled again. `ByteInv` ties the two: `Unsent` (of a message to
come, or not yet sent by the call in progress, nothing has left), `Filled` (the memory of a
call holds its message), `Stored` (an operation that is listed, about to be, or in the hands
of a poller has its own message in memory, and `written` says how much of it has left, or -1
when the socket failed), `PatientLast` (the operation of a sender who waits is his last message) and
`Reporting` (a callback on its way carries the right count; for a sender who waits, the
operation key it is read from has not been filled again).
`EmitBytes` says what a send does to `Bytes`; there is one lemma per conjunct for
the senders (`SenderBytes` to `SenderStored`) and one per step of the write dispatch, whose
effects are first put together in `SenderEffects`, `WriteEffects` and `WorkLinks`; the other
steps change none of this (`Calm`).

`OrderInv` is the invariant of the order. The pending list is linked memory and has no
positions, so `Ranked` says that there is a number for each node that grows along `next`,
and with the message numbers of each sender: a list with a cycle or with two swapped
messages has none. `LowestRank` then makes the first node of the list the oldest message
of its sender. `HoldsFirst` says that a poller that sends a part of a stream leaves its operation
at the front; `DirectAlone` that a sender on the fast track has nothing pending, although he
looked at the list without the mutex: only he could have put it there; `LaterUnsent` that
nothing of a later message left while an earlier one is pending.
`ShrinksOrder` and `QueueRanks` carry the ranking through removals and inserts.

### Model-checked only

- All liveness properties (`Proactor` beyond its safety part, `ReaderTold`, `SilentRemoved`,
  `LockReleased`, `Registered`, `SilenceNoticed`): the prover has no support for fairness or
  ENABLED. Every safety property of a passing run is also a theorem.

## 10. Disagreements without a run

Seen while the modules were written, and contained in them, but stated by no
property of a run:

| Source | What the code does |
|---|---|
| mdusock.c:680, 700 | not all CUs of a destroyed stream are removed when a freed node's next pointer is cleared: their CULINKs are never free again |
| mdulist.c:72, 100 | an entry whose only CU found no CULINK is listed and free at once |
| mdulist.c:170 | an OPEN is confirmed to a CU that was not recorded |
| mdusock.c:786, 804 | a failed audio OPEN leaves the audio stream recorded |
| mduav.c:813 | a stream opened along a route is closed at the CSG |
| ioque_base.c:805, 273, 352 | the list is read without the mutex, so the bytes of one sender may go into the middle of another's message; a datagram may overtake a pending one; a reused operation key reports a wrong byte count |
| ioque_base.c:1187, 186 | a cancel calls back although concurrency is disabled and the key locked; the end of a connect clears the event of a send that did not wait for it (the use `EagerUse` contains it) |
| ioque_base.c:1036 | a connection whose address cannot be read is accepted and closed: nobody is told of it but the caller, by an error (`dropped`) |
| mdutalkback.c:142, 266 | the operation key that all threads share is initialised, pending or not; the mutant `NoCare` of `IoQueueKey` shows how this breaks the lists, no run has it as its behaviour |
| mduav.c:190 | a message on the stack may be sent after its function returned |
| mdusock.c:1517, 1170, 773, 644 | list heads are read before the lock |
| mdusock.c:1583, 1586 | an entry is cleared without the lock, and a lock released that the thread does not hold |
| mdusock.c:1542 | a stream first opened for a neighbour is never watched |
| mdusock.c:65 | localid = 0, the documented default (mdusock.h:129), ends the process at its start |
| mdusock.c:1626 | a CMU that does not answer the first login within its ten seconds is given up; an answer that is newer than the clock reading counts as a silence of 2^32 - 1 seconds where the difference has 32 bits |
| mdusock.c:154 | a refused login registers the MDU |
| mdusock.c:143, 200 | the late answer to an earlier login replaces a newer identity |
| mdusock.c:189 | an exit between fopen and fwrite loses MDU.conf |
| mdusock.c:202 | a restarted MDU that gets a command before its login answer sends identity 0 to the CSG |
| mdulist.c:410, 477, 484 | a repeated talkback OPEN doubles the sound; a CLOSE leaves it; a repeated CLOSE wraps the count around |
| mdulist.c:364 | an entry for which there was no link is listed and free |
| mdutalkback.c:235, 236, 256 | a CLOSE releases the links of all conversations of the CU; that of an unrecorded CU is not sent on; it carries a cleared MDUINFO |

## 11. Not modelled

- Two MDUs in cascade: the relayed OPEN goes to `&nextsock`, the address of
  a parameter (mduav.c:266), with the message head copied over its first fields
  (line 261), so no OPEN reaches the neighbour. `MduStreams` has both ends, the commands
  a neighbour relays and those sent to the next MDU, but not their composition.
- Building and parsing of messages: in the binary library behind `top_tlv.h`.
- `top_ioqueue_poll`, register and unregister: in the binary library libtoplib.a,
  modelled from their use, as is what `activesock.h` declares: a receive is started
  again after each callback (the receivers of `IoQueueKey`).
- Locks, lists, sockets and logging of the supporting headers: wrappers.
- Dead code: the CU watchdog and its helpers, `nextCloseTomdu`, `nodeToMDURemove`,
  `stopMsgToCSG`; broadcast commands, which do nothing.
- The talk stream of a device is recorded with OTHER_MDU_NODE (mdutalkback.c:113),
  so it is not watched; `TalkBack` keeps of it only who hears whom. Its CLOSE clears
  14 bytes of a data key of 7, which no model of this level sees.
