# Elephants: a TLA+ verification project

This directory holds TLA+ models of the `elephants` repository, the TLC
configurations that check them and TLAPS proofs of the properties that matter
most. `PROJECT.json` lists the components, the runs, the hazards each property is
about, and, for every definition that models code, the lines it models.

## 1. The system

The repository collects libraries for a server: a ZooKeeper client with a test
program, an asio/signal/log/uuid toolbox, search trees, and an allocator with
serialization buffers. The ZooKeeper client is by far the largest part with
logic of its own and the only one in which several threads share state that a
network changes; it has eight of the modules and most of the proofs.

| Component | State | Operations | Interacts with | What is hard | What makes it correct |
|---|---|---|---|---|---|
| Client sessions and request pipeline (`zookeeper.c`, `mt_adaptor.c`) | `zhandle_t`: `state`, `fd`, `connect_index`, `client_id`, lists `to_send`, `sent_requests`, `completions_to_process`, wakeup pipe | every `zoo_a*` and synchronous call, `zookeeper_interest`, `zookeeper_process`, `handle_error`, `process_completions` | application threads, IO thread, completion thread, TCP, the ensemble | three threads and a lock that covers only some of the steps; connection loss at any moment; replies matched by position | a call is answered once, in order; replies meet their requests; events tell the session's state; the client comes back after failures |
| Closing (`zookeeper_close`, `adaptor_finish`, `api_epilog`) | `close_requested`, `ref_counter`, the life of both threads | close by the application or in a callback, thread ends, `destroy` | all of the above | who frees the handle, and when; joins against blocked threads | freed once, unused, and after every close; nobody waits for ever |
| Node watches (`zk_hashtable.c`, `send_set_watches`) | three tables, `last_zxid` | `activateWatcher`, `collectWatchers`, `deliverWatchers`, SetWatches | replies, events and reconnects | events and replies lost with a connection | no change missed, none reported twice, event before data |
| Authentication | `auth_h`, its completions | `zoo_add_auth`, `send_auth_info`, `auth_completion_func` | every new connection | packets pushed in front of the queue; callbacks under a lock | each completion called once; credentials reach the server before requests |
| Multi operations | list of sub-completions | `zoo_amulti`, `deserialize_multi` | replies | failure in the middle | each operation has its own result, and the code of the multi is the one of the operation that failed |
| Paths and chroot, hash tables, marshalling | none / buckets / bytes | `isValidPath`, `prepend_string`, `sub_string`; `hashtable_*`; `recordio` | calls | boundaries, growth while iterating | equal to a reference definition |
| asio pool, timers, signals (`service_module/asio`, `signal`) | `is_runing`, round robin index, deadlines, registered callbacks | `run`, `stop`, `get_io_service`; timer start/cancel; `registerEvent`, `handler` | boost.asio threads | stop racing run; a signal handler that is not armed again | stop stops; a signal is heard unless another used up the waits |
| log, uuid | open file and its date; counter | `log`, rotation; `generator` | any thread | midnight; wrap of the counter | a line goes to its day's file; keys differ |
| trees, allocator | tree; free list and blocks | insert/erase/search; malloc/free/ordered free/release | sequential | rebalancing, merging, failed growth | equal to a set / a partition of the blocks |
| digests (`HashManager`) | a context per algorithm, reused for every file | begin, update, final | `HashFile` | end of the file at a block's boundary, carries, what the last file left | the padded message, and nothing else, is compressed |
| strings, config, utilities, gzip, serialization buffers, OTP sample | – | parsing, formatting | sequential | – | not modelled: see section 8 |

## 2. Modules

| Module | Models |
|---|---|
| `ZkCalls` | abstract: what the library promises its callers (a call is refused, or accepted and answered at most once; an asynchronous one not before those accepted earlier) |
| `ZkSession` | the request pipeline and the session state machine with its three kinds of threads |
| `ZkClose` | closing a handle: reference counter, thread ends, outstanding requests |
| `ZkWatches` | the watch tables, events and SetWatches |
| `ZkAuth` | credentials: their packets, replies and completions, with packets sent in pieces |
| `ZkMulti` | a multi operation and the paths of its operations under a chroot |
| `IoServices` | the io_service pool and manager with the signal system that stops it |
| `Timers`, `Logging`, `Uuid` | periodic and daily timers; the log that rotates daily; keys |
| `Pool` | the pool allocator: storage, pool, object pool, singleton and allocators |
| `HashTable`, `Records` | the client's hash table with its iterator; its archive |
| `RbTree`, `Intervals` | the two search trees |
| `Digests` | file digests: buffering, counting and padding |
| `ZkSession_proof` | theorems about `ZkSession`: types and places; wakeups and session events; order and the refinement of `ZkCalls` |
| `ZkClose_proof`, `ZkWatches_proof`, `ZkAuth_proof` | theorems about closing, watches and credentials |
| `Services_proof` | theorems about `IoServices`, `Timers`, `Logging` and `Uuid` |
| `Libraries_proof` | theorems about `ZkMulti` and `Pool` |
| `Structures_proof` | theorems about `HashTable`, `Records` and `Intervals` |
| `NatLemmas` | lemmas about numbers, sequences and folds that the two modules above need |
| `MCZkSession`, `MCZkClose`, `MCZkWatches`, `MCZkMulti` | model values for TLC |
| `MCServices`, `MCLibraries` | modules that share no state, in one run each: a behaviour takes one of them and leaves the others where they start |

The first three specifications look at the same handle from three sides. `ZkSession`
keeps it open, and cuts the IO thread into the steps that other threads can see:
one action is a stretch of code between two points at which a lock is taken or
released or shared state is read. `ZkClose` keeps the order of those
steps and reduces the network to a number of replies still to come. `ZkWatches`
uses whole handlers as steps, which is sound for it because only the IO thread
touches the tables (`activateWatcher` and `collectWatchers` run in
`zookeeper_process` and `queue_session_event`).

### ZkSession

Variables are fields of `zhandle_t` with the same names; `fd` is `zh->fd != -1`, a
queue holds xids, and an xid is the call that made it. `io` is where `do_io` is:
`interest` → (`ping`) → `poll` → `process`, `error` between the session event of `handle_error`
and `cleanup_bufs`, and `cleanup` inside it.

| Action | Code |
|---|---|
| `CheckState`, `QueueRequest`, `WakeupIoThread`, `SyncReturn` | a `zoo_a*` call: the test of `is_unrecoverable` (no lock held), `enter_critical … leave_critical`, `adaptor_send_queue`, `wait_sync_completion` |
| `InterestWrap` … `InterestSelect`, `SendPing` | `zookeeper_interest` |
| `Poll` | `poll` and the flush of the pipe in `do_io`; a broken connection may raise `POLLHUP`, which counts as writable |
| `ProcessConnected`, `FlushSendQueue`, `SessionEstablished`, `ReceiveReply`, `ReceiveOutOfOrder`, … | `check_events` and `zookeeper_process` |
| `BeginError`, `BeginCleanup`, `FreeCompletion`, `EndError` | `handle_error` up to the session event; `enter_critical` and the lists taken away in `cleanup_bufs`; `free_completions`, one entry at a time; the rest |
| `DeliverEvent`, `DeliverReply`, `WatcherReturn` | `do_completion`, `process_completions`; the watcher may make a synchronous call, as the one of `main.cpp` does |
| `ServerHandshake`, `ServerReply` | the ensemble (external) |
| `ServerExecutesLate` | a server executes what a connection that is gone left it (external) |
| `ServerSkips`, `ConnectionBreaks`, `EnsembleExpires` | failures (external), at most `MaxFaults` |

A connection that ends leaves its server the first *k* of the requests on their way, for any *k*
(`leftovers`). They may be executed at any later time, in their order, long after their callers were told
`ZCONNECTIONLOSS` or `ZOPERATIONTIMEOUT`; nobody gets the replies. When a server takes the session over
on a new connection, what is still left is ignored: that is the ensemble's `ZSESSIONMOVED`
(`zookeeper.h:116`: "session moved to another server, so operation is ignored"; `zookeeper.c:3361`). `ExecutedInOrder`
relies on it across connections; `NotSentAgain` does not.

Abstractions: packets are sent whole; time is a choice (a timeout may fire
whenever the code would test for it); a server's answer is `ZOK`, since the client
treats all codes of a server alike. Out-of-memory returns are left out.

### ZkClose

`pc` is where each thread is, `cl` how far a thread has come inside
`zookeeper_close`: the application's thread, the completion thread inside a
callback, or whichever thread's `api_epilog` brings the counter to zero. Steps that
use a freed handle are undefined, so a behaviour ends when the handle is freed, and
`NoUseAfterFree` says that nobody was going to use it. The `api_prolog`/`api_epilog`
pairs inside the loop of `do_io` are left out because they come on top of the
reference that loop holds, except for the prolog that has no epilog
(`zookeeper.c:2241`), which is `leaked`. All three users of `free_completions` work alike: the error path of the IO thread,
`zookeeper_close` and `destroy` take the list under `zh_lock` (`IoEnterCritical`,
`CloseEnterCritical`, `DestroyEnterCritical`), answer it entry by entry (`FreeCompletion`) and give
the lock back (`IoLeaveCritical`, `CloseLeaveCritical`, `DestroyHandle`, which also frees the handle). `overtaken` is history: the counter reached
zero while a closer stood between setting the flag and counting itself.

### ZkWatches

A watch carries, as history, the zxid and the value its read returned, so that the
properties can say what it was left on. Reads are asynchronous. The server is
external: watches belong to the connection, an event precedes every reply that
shows the change, SetWatches is answered with the events missed since
`relativeZxid` (`MissedPaths` says which, `MissedEvents` what is sent). It
watches two aspects of a node, its data and its children; the client has three
tables, as a watch on a node that is not there waits in a table of its own.

### ZkAuth

`auth_h` is the list of credentials, `pending` those whose completion is still to be
called. A packet goes to the socket in `Parts` pieces, and `queue_front_buffer` may put a
packet of `send_info_packet` in front of one that was sent in part: `overtaken`. Each
`zoo_add_auth` is three steps (the test of the state, the list under its lock, the
test for a connected handle and the send), as other threads can come in between.
`auth_completion_func` completes all pending calls with the one reply it has. Refused credentials and an expired
session (`SessionExpired`) end the IO thread; a call that tested the state before and joins the list
after is completed by nobody, and `AuthCompleted` exempts it: the window of `session_late` in section 4.

### ZkMulti

`AddOp` is one turn of the loop of `zoo_amulti`, because the session may be lost between two
turns. `ReqPath` says what `req.path` holds when `free_duplicate_path` gets it: the prepended
string, one that `Request_path_init` has freed, or, once `rc < 0`, nothing that was ever set.
The faked reply of `free_completions` is `HeaderOnly`. That a failed read of a `MultiHeader` leaves
it unchanged is how `ia_deserialize_int` behaves (`recordio.c:192`); the generated function
around it is external.

### IoServices, Timers, Logging, Uuid

`run` and `stop` of the pool are cut where `is_runing` is read or written, for the main thread,
for the handler of a signal and for any other caller. Each registered signal number arms one
`async_wait`, and a handler arms none; `boost::asio` is external: one signal completes all outstanding waits of the
set (`Raise`), and one that finds no wait is kept for the next. So the first signal may use up the waits of
the others, which is what `EarlySignalsHeard` leaves room for; a signal that is the only one registered is heard. `Timers` has a clock in ticks that the
code reads in whole seconds, three times in one constructor. `Logging` separates the three reads of the date
(`log_module.cpp:186, 196, 198`), with a midnight at any point. `Uuid` has threads that read the clock and
take the counter apart, and a clock that may be set back; the counter has `Width` values.

### The libraries

`Pool` runs over an arena of addresses, so that the order of blocks, and headers between chunks, are those of
the code; its user keeps the rules of the interface it was given (ordered or not). `HashTable`
expands by malloc, by realloc, or not at all. `RbTree` keeps nodes with parents and takes one pass of a fix-up
as a step. `Digests` follows bytes by identity: byte *i* of file *f*, padding, a count word, or garbage, so
that a stale or misplaced byte is seen; compression functions append the block they get, and those that
scramble their input buffer do so. `Records` writes the bytes of two's-complement numbers, buffers and strings, doubles
its buffer pass by pass as the loop of `resize_buffer` does, and reads from a message that may be cut. Its lengths are
unbounded: an archive of a gigabyte, where the `int32_t` of the code would overflow, is not modelled. `Intervals` builds the tree
as the constructor does, level by level, and searches it; `std::sort` is any order of the starts, as it may swap intervals that
start together. The children get the default `maxbucket`, which the constructor does not hand on.

## 3. Runs

| Run | Instance | Shows |
|---|---|---|
| `session` | 2 asynchronous calls, 1 synchronous, 1 server, 1 failure; asynchronous calls symmetric; 2.3 million states | `EachCallHasOnePlace`, `RepliesMatchRequests`, `ExecutedInOrder`, and `ImplementsCalls`: `ZkSession` implements `ZkCalls` |
| `session_faults` | 1 asynchronous, 1 synchronous call, 2 servers, 2 failures; 1.9 million states | `TypeOK` (`connect_index` stays an index), `SessionEventsTellState`, `NotSentAgain`: what was answered is not sent again |
| `session_live` | 1 asynchronous call and 1 made inside the watcher, 1 failure, 1 ping; 0.8 million states | `NoLostWakeup`, `RequestsAnswered`, `SessionSettles` |
| `session_late` | 1 call inside the watcher | violation of `EveryRequestAnswered` |
| `close` | 3 calls (asynchronous, synchronous, in a callback), both closers, 1 failure, 1 out-of-order reply; 0.26 million states | the seven invariants of closing and `CloseReturns` |
| `close_race`, `close_leak`, `close_lost` | 1 call | violations of `NoUseAfterFree`, `FreedWhenClosed`, `CompletionsCalledAtClose` |
| `watches` | 1 node, 2 watchers (symmetric), 2 reads, 2 changes, 2 lost connections; 3.8 million states | `NoMissedChange`, `EventBeforeNewData`, `NoStaleEvent` |
| `services` | pool of 2 services, 2 signals, 3 raised, 2 callbacks each; 2 credentials, 1 request, packets of 2 pieces, 1 lost connection, an expired session; 0.6 million states | `StopHeardOnceJoining`, `RunReturns`, `EarlySignalsHeard`; `AuthResultsTrue`, `AuthBeforeRequests`, `WholeUnlessOvertaken`, `AuthCompleted` |
| `libraries` | see below; 0.7 million states | `ChunksAccountedFor`, `LeftoversDestroyedOnce`, `ReleaseIsExact`; `DigestOfTheFile`; `TableIsMap`; `TreeKeepsKeys`; `SearchesMissNothing`; `RecordsRoundTrip`; `NoDaySkipped`; `LinesNearTheirFile`; `KeysDistinct`; `AcceptedMultiWhole` |
| `multi_lost` | multis of 2 operations | violation of `EntryForEachResult` |

Why the bounds are enough to be interesting. Two asynchronous calls and one
synchronous are the least for which order between them, and a partly sent queue,
matter; one failure already meets them in every place. Two servers and two failures
take `connect_index` round the array and reach expiry after a reconnect. In
`watches` two lost connections let a SetWatches packet be lost itself, and two
changes let a node vanish and come back. In `services` two threads with a credential each
meet between any two steps, and two pieces are the least that can be overtaken. In
`libraries` the arena of 8 units holds several blocks of several sizes, and fails; the
digests are tried at every length around the boundaries of blocks of 16 to 128 bytes, with
reads that split blocks and with count words of 10 and 8 bits, so that they carry, for
two files in a row; the table of 4 colliding keys expands twice; the red-black tree has
up to 5 keys, enough for every case of both fix-ups; the interval tree up to 4 intervals
over 4 points and three levels; the archive three fields in a buffer of 4 bytes, which grows
several times, with numbers of more than two bytes; the clock passes four days of three seconds; the counter of the keys
wraps at 3; a multi has two operations over eleven paths, which have every way of being refused.
`CHECK_DEADLOCK FALSE` is set everywhere:
calls, failures and changes are bounded, and after the last of them an
idle client (or a freed handle) really has nothing to do.

Fairness. `FairSpec` of `ZkSession` and `ZkClose` has weak fairness of the IO thread,
of the completion thread, of a thread that is inside a call, and of the server's
answers (not of what they execute late): the operating system schedules threads, the loops of `do_io` and
`do_completion` do not block except in `poll` (with a timeout) and on a condition
that is broadcast, and a callback of the application returns. Nothing obliges the application to call, or to
close, and no failure is ever obliged to happen or not to happen. In `services` the threads of the
pool, a handler that was started, a caller inside `stop`, the IO thread, a caller inside `zoo_add_auth`
and the server's reading are weakly fair, for the same reasons; nobody is obliged to raise a
signal, to stop, to add a credential or to accept one.

## 4. Where the code and its documentation disagree

1. `session_late`. `is_unrecoverable` is tested before `zh_lock` is taken. A call that
   passed the test can be queued after the session expired, the lists were emptied and
   `do_io` ended; nobody answers it until the handle is closed. If the call was made
   inside a callback the completion thread is stuck with it, so the application is
   not told of the expiry either. `RequestsAnswered` shows that this is the only way
   for a request to stay unanswered. `zoo_add_auth` has the same window: it tests the state
   (`zookeeper.c:3377`) before it locks the list of credentials.
2. `close_race`. `zookeeper_close` sets `close_requested` and then adds its reference. If both
   threads end in between, the second of them frees the handle under the closer.
   `FreedUnusedUnlessOvertaken` shows, and the theorem `NoUseUnlessOvertaken` proves,
   that this window is the only way.
3. `close_leak`. After an out-of-order reply `zookeeper_process` returns without `api_epilog`,
   and the handle is never freed. `FreedOrLeaked` proves that this is the only leak.
4. `close_lost`. The completion function of an accepted asynchronous request is not
   called if its entry reaches `completions_to_process` after the completion thread
   has left its loop. Synchronous callers are always released (`SyncCallersReleased`).
5. `multi_lost`. The faked reply that a lost connection gives to a waiting `zoo_amulti` has no
   results, but `deserialize_multi` is called on it: the operations are told `ZOK`, with data that was never
   read, and `assert(entry)` ends the process. A synchronous `zoo_multi` is not affected.

Met while modelling, and part of the models, with a property that says what remains true:

* `zookeeper.c:3111`. When an operation of a multi cannot be initialised under a chroot, its
  path is freed twice, and the paths of the operations after it are freed without ever being set. The error is
  returned as `ZMARSHALLINGERROR`. Only multis that fail are affected, and no property speaks of them.
* `zookeeper.c:2587`. Paths are validated after the chroot was put in front: `""` and `"a"` are
  accepted then, and the second names a node outside the chroot. The path a multi
  returns for a created node is not stripped of the chroot, the one of `zoo_create` is.
* `zookeeper.c:1275`. A `zoo_add_auth` may be completed with `ZOK` by the reply to another credential. `AuthResultsTrue`
  says what such a result does mean, `AuthCompleted` that each call gets one unless it joins the list after the session was given up.
* `timer.cpp:102`. When its function returns within the second of the deadline, a `PointerTimer` waits for the same
  deadline again and calls it once more, though `timer.h:42` says "call function at time point everyday";
  `NoDaySkipped` shows that no day is left out.
* `io_service_pool.cpp:57`. A stop before `is_runing` is set does nothing, and `run` joins for ever.
* `rbtree.cpp:134`. `treeSuccessor` descends from the node instead of its right child, so `erase`
  may put a smaller key in its place: keys are kept but some are no longer found. In other trees the
  fix-up uses the sentinel as a sibling and crashes. `TreeKeepsKeys` shows what holds otherwise.
* `hashtable.c:106`. The second plan of an expansion clears memory at a pointer it reads from memory that was never set.
* `recordio.c:164`. A NULL string is written as length -1, which `ia_deserialize_string` refuses.

## 5. Proofs

All theorems hold for every set of calls, nodes, watchers, credentials, signals, threads, keys, fields and paths
and every value of the bounds; the assumptions are the named `ASSUME`s of the modules: how the
sets of calls are nested, special xids are not calls, at least one server, one piece per
packet and one value of the counter, finitely many nodes, bounds are naturals; a chroot longer than `/`; sizes
and alignments of the pool, and sizes of tables, are not zero; fields have the values of their types
(`IsField`: 32 and 64 bits, bytes, no NUL inside a string). All are
safety: invariants `Spec => []Inv`, one action property and one refinement. The
proofs are laid out alike: an inductive invariant, made of named parts; a lemma
for every action (or for every kind of step, where several actions do the same thing to what the
invariant speaks of); a lemma that combines them over `Next`; the theorems.

### The session

* `TypeCorrect` (`TypeOK`). The index `connect_index < AddrsCount` is used when a socket is
  opened, so `TypeOK` says it of states with a socket and inside `cleanup`. It is not
  inductive as it stands: an event of `poll` could outlive the socket. `TypeInv` adds
  `IoThreadInv`: there are events only with a socket, none in `cleanup`, and a ping is
  sent only below its bound.
* `OnePlace` (`EachCallHasOnePlace`). `PlaceInv` adds that `tmp_list` is empty outside
  `cleanup`. Without it a second error could overwrite a list that is being freed. The
  proof goes action by action through lemmas on what taking the head of a list, appending to
  one and concatenating do to "is in" and "at most once".
* `RepliesMatch` (`RepliesMatchRequests`). `LinkInv` adds that without a socket there is no server end and nothing on its way, and
  that no more is on its way than `sent_requests` lists. The second is what keeps `assert(cptr)` from
  failing after a server passed over a request, where positions no longer agree.
* `ExecutionOrder` (`ExecutedInOrder`), `RequestsSentOnce` (`NotSentAgain`) and `SessionImplementsCalls`
  (`ImplementsCalls`) share `OrderInv`. "`s`, `t`, `u` are a chain" says that the three lists one after
  the other are in the order of `accepted`. `PipelineInv` has the chain `executed`, `leftovers`, `to_server`, `to_send`, with the
  fact that what is on its way is still in `sent_requests`, so that a request that was answered is not. What servers
  execute late stays in order because of `LateInv`: a connection carries requests only when its session is
  established, and from then on nothing is left of the older ones;
  `WaitingInv` has the chain of queued completions, `tmp_list` and `sent_requests`, so that the head of
  the queue is the oldest call without an answer. `HistoryInv` ties `accepted` to the calls, `ResultInv` a `ZOK` to
  `executed`. For the refinement, each step is shown to be `Refuse`, `Accept`, `AnswerAsync`, `AnswerSync`
  or a stutter under the mapping of `AbstractStatus`.
* `WakeupNotLost` (`NoLostWakeup`) and `EventsTellState` (`SessionEventsTellState`) need `HandleInv`: an established session has
  a socket until `handle_error` is done with it, a handshake belongs to a handle that is `ASSOCIATING`,
  and an expired session's IO thread does not go on. Without it an expiry could follow an expiry, or a
  `CONNECTED` a `CONNECTED`.

### Closing

* `RefCounter`, `NoUseUnlessOvertaken`, `Destroyer`, `FreedOrLeaked`. Every step of `ZkClose` is
  shown to be one of three kinds: a `LoopStep` that moves a thread between places
  where it holds its reference, a release, or a step of `zookeeper_close`. `RefInv` (types
  of the control state, who may be inside `zookeeper_close`, and the exact counter) is
  inductive; `FreeInv` adds that a handle with no reference left is being
  destroyed or is gone, and that a destroyer is alone unless a closer was overtaken.
* `AnsweredOnce` (`AnsweredAtMostOnce`), `AssertionHolds` (`NoAssertionFailure`), `SyncReleased` (`SyncCallersReleased`).
  `RequestInv` says who holds which list: only the owner of `zh_lock` has a `tmp_list`, the IO thread has a
  request in its hands exactly while it looks at a reply, and until the handle is closed there are
  no more replies to come than requests listed. `OnePlaceInv` counts nothing: it says that two places of a
  call are the same and that the call is there once, and the sum in `AnsweredAtMostOnce` follows by
  the cardinality of singletons. `ReleaseInv` adds that nothing is in `sent_requests` while `destroy` empties
  its list, which needs that no call is accepted any more.

### Watches

`ChangeNotMissed` (`NoMissedChange`), `EventComesFirst` (`EventBeforeNewData`), `EventsNotStale` (`NoStaleEvent`), all from
`WatchInv`. The argument follows a watch from the reply that brings it, at position `i` of
`to_client`, into the table, position 0 (`Held(t, p, i)`), and looks at what comes behind it
(`Taken(t, p, i, j)`: an event between the messages `i` and `j` takes it out).

| Part | Says | Needed because |
|---|---|---|
| `PhaseInv` | offline, or SetWatches is the first packet of the connection, or the server was told | until the server is told nothing arrives, so that the packet still says what the handle holds and knows |
| `XidInv` | an xid names one request on its way there and back | a reply brings the watch of its own request |
| `MessageInv`, `NodeInv` | messages come in the order of their zxid; what a transaction writes into a node | `last_zxid` never runs ahead of an event |
| `ActiveInv`, `ExistInv` | a table holds watches of its kind; a node is not awaited and watched at once | SetWatches names a path per table, and the server decides by the table |
| `KnownInv` | at every zxid the client has or will reach before the event, the node is as read or changed later | `relativeZxid` after a lost connection |
| `ToldInv` | once told, the server watches what has not changed, and an event is under way for the rest | `NoMissedChange` |
| `StaleInv` | an event is of a later transaction than the reads of the watches it takes | `NoStaleEvent` |
| `ReadInv`, `OrderInv` | reads show what was true at their zxid; one not older than the watch, in front of the event, showed the same | `EventBeforeNewData` |

### Credentials

`AuthToldTruly` (`AuthResultsTrue`), `AuthFirst` (`AuthBeforeRequests`), `OnlyOvertakingGarbles` (`WholeUnlessOvertaken`), from `AuthInv`.
`CompletionInv` says that a completion waits only between the call that leaves it and its only
result; `FirstInv` follows a required credential from `to_send` over the wire to the server, with
nothing but credentials in front of it; `StreamInv` ties the last piece on the wire to the offset of the packet
at the head of `to_send`; `Unconnected` makes both start afresh on a new connection.

### Services

* `StopHeard` (`StopHeardOnceJoining`) needs that `is_runing` is set only by `run`, before it joins.
* `LinesNear` (`LinesNearTheirFile`): `LogInv` bounds, for every place in the code, how many midnights apart the file's name, its
  timestamp and today are; the bound 2 is the sum of one between name and stamp and one
  between the test and the write.
* `NoDayLeftOut` (`NoDaySkipped`): `TimerInv` says, for any number of days, that the function was called for the deadline
  that many days ago.
* `KeysAreDistinct` (`KeysDistinct`): `UuidInv` says that an increment is taken by one thread and ends up in
  one key, and ties the counter to the number of increments modulo `Width`.

### Multi operations

`MultiWhole` (`AcceptedMultiWhole`), from `MultiInv`: `Prepared` says, while the loop of `zoo_amulti` runs, that the operations so far
have the paths they should and that none was freed; `SentWhole` carries this over to the packet, `ServerAnswered` says that what the server executed is the
packet, `ToldAsAnswered` that the client tells it operation by operation. The session may be lost, or the handle closed, between
any two turns of the loop. The chroot and the paths are any, so that the proof rests on what
`isValidPath` refuses.

### The pool

`PoolAccounts` (`ChunksAccountedFor`), `ReleaseExact` (`ReleaseIsExact`) and `LeftoversDestroyed` (`LeftoversDestroyedOnce`), from `PoolInv`.
Its core is `Consistent(first, held, list, Ordered)`: every chunk of every block is on the free list once, or in one allocation of
the client (`Accounted`); and, for the ordered interface, free list and list of blocks ascend.

* Two blocks never touch, because a block ends with its header: the footprint is longer than the chunks, which is why a run of free
  chunks that `malloc_n` takes lies in one block.
* What sorting, taking a run, and inserting into an ascending list do is said of sets, order and absence of repetitions, and proved once.
* The loops of `release_memory` and `~object_pool` are folds over the list of blocks. Their states are unfolded into a walk, and an
  induction over its steps says that what was passed is done and that the rest is untouched; the order of both lists is what makes one
  pass over them enough.

### The hash table

`TableKeepsMap` (`TableIsMap`), from `TableInv == StorageInv /\ IteratorInv`. `StorageInv` says that bucket *i* holds exactly the entries whose hash
belongs there, each key once (`HoldsMap`), and that the count is that of the client's map. An expansion is a fold over the lists and, inside, over the entries of a
list; the new table holds the pairs that were moved so far, and no key twice. After the second plan of an expansion (`wild`) the table is
undefined, and so the invariant says nothing of it.
`IteratorInv` says that the keys met and those ahead of the iterator (`Ahead`: behind its entry in its bucket, or in a later one) are, each once,
those that were there when the iteration began (`Met`), also after a removal at the iterator.

### The archive

`ArchiveRoundTrip` (`RecordsRoundTrip`), from `ArchiveInv`. Numbers come back from their bytes by four divisions by 256 and the sign of the first byte
(`IntRoundTrip`, `LongRoundTrip`). `ResizeFacts` unfolds the loop of `resize_buffer`: each pass that does not reach the length
adds at least one byte. `Laid` says that the buffer is the encodings of the fields one after the other,
with their ends as witnesses; it grows by one field (`LaidGrows`). While the reader has failed nowhere, it stands where a field ends, and
`DeserializeFacts` says that the next one is read as it was written if it is there, and refused with `-E2BIG` if it is cut off.
A failure that was not reported (`ignored`, a NULL string) is where the invariant gives up, as the code does.

### The interval tree

`NothingMissed` (`SearchesMissNothing`), for any intervals, depth and bucket sizes. `TreeAnswers` says of every call of the constructor that
hands on intervals in order (`Proper`), by induction over the levels, that the tree answers every query about its intervals. A node needs
`DealtOut`: every interval is in the node or in one child, as often as it was given, the left child's end before the center and the
right child's start after it; so a child that is left out holds nothing wanted (`ChildAnswers`). That a node is left out when the query
ends before its first interval needs the order of the starts (`InNodeFacts`), which the constructor establishes once, at the root, and dealing out
keeps (`ThoseFacts`). Of the sort only its result is used: some rearrangement in order exists (`RearrangedExists`). An interval does not end before it
starts; for one that did, `findContained` could miss it.

### Induction

Loops are folds of the community modules over intervals. `FoldExists` of `NatLemmas` proves, by
induction over the sets `1..n`, that such a recursion defines a function; a fold is then a sequence of steps, and an invariant of its steps is
proved by induction over a set of numbers (`InductionInSets`). The interval tree is a recursive function of the number of levels, and the same
induction shows that it is defined (`TreesRecursion`, `ConstructorRecursion`, `SearchRecursion`). No step takes an operator as a parameter.

### Only model-checked

Liveness (`RequestsAnswered`, `SessionSettles`, `CloseReturns`, `RunReturns`, `EarlySignalsHeard`, `AuthCompleted`), which
needs fairness and `ENABLED`. `DigestOfTheFile` compares the blocks that were compressed with those of a padded message, over recursions of several
algorithms, and `TreeKeepsKeys` needs the colours and heights between the steps of both fix-ups: the invariant
of each loop carries, for every subtree, its keys and its black height, and its proof is not complete. That of
`DigestOfTheFile` was not attempted.

## 6. Plan

Done: all modules and runs above, and the proofs of section 5. Next:

1. Proofs: `TreeKeepsKeys` of `RbTree`, then `DigestOfTheFile` of `Digests`.
2. Abstract specifications worth stating: a pool that is running or stopped; a map for the hash
   table; a partition of the blocks for the allocator.

## 7. Hazards

`PROJECT.json` lists them at their lines, with the properties that would catch each. Two have no
property: completions of authentication are called with `zh_lock` held (`zookeeper.c:1196`), and a callback
that makes a call then waits for a lock its own thread holds, while `ZkAuth` has no lock of this kind; and the
paths that a refused multi frees without having set them (`zookeeper.c:3111`), which `ZkMulti` follows but
`AcceptedMultiWhole`, a property of accepted ones, does not forbid. The notes of some others say which part of the hazard a
property exempts.
Below them in weight, and not modelled: the length of an archive is an `int32_t` that doubles (`recordio.c:52`), and
overflows above a gigabyte.

## 8. Not modelled

The single-threaded adaptor is not built. The functions generated from `zookeeper.jute` are not in
the repository. Address resolution is I/O, and the command line tools, the load generator, the Windows
port and the driver's own log have no state worth a model. `Log.cpp` formats and appends. The
compression functions of the digests are bit-level arithmetic, abstracted to the blocks they are
given; `HashPath` and the gzip example are I/O. `pool_construct.ipp` and `rbtree.hpp` are not
compiled, `zbuffer.hpp` does not compile, and the base of `sbuffer` frees a pointer it has not set. Strings,
configuration and utilities parse and format. The OTP sample under `backup/` is unrelated to the rest.
