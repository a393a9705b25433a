# Verification of Dashing Platforms

TLA+ modules, model-checking configurations and proofs for the C++ platform
services under `src/src/platform`: object pools, mailboxes and their registry,
transport of messages between processes, message buffers, connections to the
database, the log, restart of threads and of processes, and fault management.
A file named below without a directory of `src/` is in `src/src/platform`.

    tlc -workers 2 -config MCObjectPool.cfg MCObjectPool.tla     # one run
    tlapm ObjectPoolProofs.tla                                   # one proof module

`PROJECT.json` lists the runs, a mutated definition that breaks each property,
the source lines behind each definition, the hazards and the theorems.


## 1. Inventory

The platform is a set of processes on each card (node) and an element
management system (EMS).  Processes use ACE for threads, sockets, reactors and
shared memory.

| part | state it keeps | operations | used by / uses | hard behaviour | what makes it correct | module |
|---|---|---|---|---|---|---|
| **ObjectPool** `opm/ObjectPool.cpp`, `OPMLinkedList.cpp` | free and used list, counters, history of capacities | reserve, release, setCapacityIncrement, growth, shrinking | every reserve in msgmgr and datamgr | long sequences of growth and shrinking; pointers shared by two lists | counts match lists; shrinks undo growths; a pool that may grow never runs dry | ObjectPool, OPMLinkedList, LinkedPool |
| **SyncObjectPool** `opm/SyncObjectPool.cpp` | the same and a mutex | the same | connection sets | release does not take the mutex | an object has one holder | the pools of DataManager |
| **OPM** `opm/OPM.cpp` | vector of pools, one mutex | createPool, getObjectPoolID, operations by pool id | everybody | two critical sections for search and insertion; returns that keep the mutex | an id names what it was created for; every call returns | OPM |
| **LocalMailbox** and handles `msgmgr/LocalMailbox.cpp`, `MailboxBase`, `MailboxOwnerHandle`, `MailboxProcessor` | ACE queue, manual event, active flag, handle mutex | post, getMessage (blocking and not), activate, deactivate | base of all mailboxes; message block pool | producers, readers and owner interleave | no lost wakeup; order; nothing accepted is lost | LocalMailbox |
| **MailboxLookupService** with the life of mailboxes | registries of mailboxes and proxies, two mutexes, reference counts | register, deregister, find, create, release | all mailboxes, discovery | proxies made outside the lock; counts read after they changed | one mailbox per address; handles keep mailboxes alive | MailboxRegistry |
| **Distributed mailboxes** `DistributedMailbox*.cpp` | the stream of a proxy, acceptor and connections of a mailbox | post, handle_input, activate, deactivate | reactor, TCP | byte stream, broken connections, threads that share a stream | what is posted OK arrives, once, in order | DistributedTransport |
| **MessageBuffer, MessageFactory** `msgmgr/MessageBuffer.cpp` | bytes and two positions | add and extract of each type, byte order, reset | proxies and mailboxes that serialize | room tests, length bytes, reuse of pooled buffers | fields that were accepted arrive | MessageBuffer |
| **DataManager / ConnectionSet** `datamgr/` | map of sets, pools of connections and handles, sessions | reserve, release with repair, commands, transactions, deactivate | OPM, PostgreSQL | exhaustion, broken connections, stale handles | a connection has one holder, is never lost, and sessions are separate | DataManager |
| **Logger / LogProcessor** `logger/` | SM queue, semaphore, files | trace, process, rollover, shutdown, restart | everybody | two consumers at shutdown, failed renames, crashes | each log is written once; the newest are kept | LogProcessor |
| **ThreadManager** `threadmgr/` | restart map and mutex, monitor thread | createThread, createThreadPool, exit hook, monitor | every component | lock order, id reuse, failed spawns | every dead restartable thread is started again, once | ThreadManager |
| **ProcessManager** `processmgr/` | child pids, death counters, handlers | init, fini, death, restart, shutdown | signals, ACE process manager | death before registration, shutdown during a restart | dead children restart, no child is left | ProcessManager |
| **FaultManager** `faultmgr/` | SM queue and semaphore, table of outstanding alarms, clear cache | raiseAlarm, clearAlarm, reportEvent; alarm thread; cache thread | all processes report; EMS client agent; DataManager | two threads on table and cache, time, undefined behaviour in the sweep | table and EMS end at what was reported last | FaultManager |
| **ClientAgent** `src/src/ems/clientagent` | EMS table of alarms, event file | process alarm, clear, event | FaultManager, CORBA clients | relies on filtering by the nodes | no second uncleared alarm | its table in FaultManager |
| **Shared memory mailboxes** `LocalSMMailbox*.cpp` | SM queue and semaphore | post, reading thread | lookup service | set-up by two processes; the thread is never woken to stop | as for distributed mailboxes | the path of a message, in MessageBuffer |
| **DiscoveryManager** | remote registry, notification lists | (de)register, update, notify | lookup service, group mailbox | lost, repeated, reordered multicast | remote views converge | - (section 7) |
| **Group mailboxes** | multicast or broadcast socket | post, handle_input | discovery | datagrams | - | - (section 7) |
| **Messages, timers** | ownership, count of timers | schedule, cancel, deleteMessage | mailboxes, reactor | expiry against cancellation | freed once | - (section 7) |
| **ResourceMonitor** `resourcemon/` | alarm level of each resource | timer driven checks | Faults | hysteresis over thresholds | raises and clears alternate | - (section 7) |
| clients, IDL, SQL, unit tests | - | input, output, generated | - | - | - | - |

The parts meet in a few places.  Mailboxes take message blocks and buffers from
pools of OPM; find of the lookup service makes proxies, which send to the
mailbox of another process; the fault manager and the resource monitor keep
rows through the data manager; every alarm thread, log processor and mailbox
processor is a thread of ThreadManager in a child of ProcessManager.  What one
module takes for granted of another is what that one promises: `LinkedPool`
implements `ObjectPool`; `DataManager` needs only that a pool gives out what is
free; `LocalMailbox` is used by `MailboxRegistry` through activation and the
reference count, and by `DistributedTransport` through its queue.

`PROJECT.json` lists the hazards with their lines.  Smaller ones, that the same
properties cover or that belong to code outside the models:

- `opm/ObjectPool.cpp:185`: A threshold of 1.0 passes the constructor and
  truncates to a headroom of no object: reserve() meets the empty free list
  before it would grow, so a resizable pool answers NULL for ever.
- `opm/ObjectPool.cpp:288`: remove() does not look for the object in the list,
  so a second release of an object is accepted while any object is in use and
  links it twice into the free list.
- `opm/OPMLinkedList.cpp:271`: deleteListContents tests head_->isNextNull()
  without testing head_: deleting a pool one of whose lists is empty faults
  half-way through a shutdown.
- `opm/OPM.cpp:276`: Pool ids are checked against the upper bound only; the id
  ERROR (-1) of a failed createPool indexes the vector before its start.
- `msgmgr/MailboxOwnerHandle.cpp:243`: The threads of a MailboxProcessor share
  one event that each of them resets; only the handle's mutex keeps two of them
  from resetting it for each other.
- `msgmgr/LocalMailbox.cpp:325`: getMessage decides to dequeue from an
  is_empty() and an isActive() that may both be out of date by then.
- `msgmgr/LocalMailbox.cpp:208`: deactivate wakes nobody: a blocked reader
  holds the handle's mutex until somebody activates the mailbox again and
  posts.
- `msgmgr/LocalMailbox.cpp:269`: The queue's high water mark (16 KB, 8 bytes a
  block) refuses a post at once under the default timeout.
- `msgmgr/MailboxOwnerHandle.cpp:260`: getMessageNonBlocking waits for the
  mutex a blocked getMessage holds.
- `msgmgr/MailboxLookupService.cpp:709`: find creates the proxy outside the
  lock it searched under: two finds of one address build two proxies, and only
  one of them can be registered.
- `msgmgr/MailboxLookupService.cpp:233`: An address that was registered in the
  meantime, or whose map key another address holds, is not inserted, and the
  activation goes on as if it were.
- `msgmgr/DistributedMailbox.cpp:257`: An accept that fails returns ERROR, on
  which the reactor removes the acceptor; a second activation does not register
  it again, and an acceptor that could not be registered stays open and lets
  proxies connect.
- `datamgr/DataManager.cpp:442`: A release resets a bad connection with the
  mutex of the map held: all users of all sets wait for the network, and must
  go on afterwards.
- `datamgr/DbConnectionHandle.cpp:180`: A handle used after its release is only
  warned about: once its object is reserved again the old holder runs commands
  on the connection of the new one.
- `datamgr/ConnectionSet.cpp:56`: Before its activation a set has the pool id
  0, which is the first pool of the process: a reservation casts one of its
  objects to a connection.
- `logger/LogProcessor.cpp:165`: At shutdown two threads test, dequeue and
  write without a lock; a thread that finds the queue empty writes its previous
  log again.
- `logger/Logger.cpp:177`: The sequence id of logs is incremented without a
  lock by every thread and wraps at 16 bits.
- `threadmgr/ThreadManager.cpp:215`: The monitor erases the entry whether or
  not the spawn succeeded: a failed spawn ends the thread for good, and must
  end no other.
- `threadmgr/ThreadManager.cpp:83`: isInitialized_ is tested and set without a
  lock: two first callers start two monitors that share the map.
- `threadmgr/ThreadManager.cpp:190`: A dead thread must be started again
  although the monitor wakes only periodically and shares its lock with the
  threads that die.
- `threadmgr/ThreadManager.cpp:237`: All threads of a pool share one
  ThreadParameters; without restart each of them deletes it when it ends.
- `processmgr/ProcessController.cpp:205`: fini gives up waiting after 15
  seconds; the handler is deleted with the controller while it is still
  registered for the child.
- `faultmgr/FaultManager.cpp:734`: The row of the alarm is read, and the cache
  is locked later: in between the clear may be sent and the row deleted, and
  the raise is discarded for an alarm that is no longer outstanding.
- `faultmgr/FaultManager.cpp:604`: A delete that fails is tried again at once,
  with the mutex of the cache held, for as long as the database is down.
- `faultmgr/FaultManager.cpp:655`: The row is written, but the EMS is not told
  when its mailbox cannot be found or the post fails twice: later raises are
  discarded as duplicates, until a clear goes through.
- `faultmgr/Faults.cpp:113`: A report that the shared memory has no room for is
  dropped, and the semaphore is released for it all the same.
- `src/src/ems/clientagent/ClientAgent.cpp:836`: The EMS inserts each alarm
  without a look at its table, because the nodes are to have filtered
  duplicates.
- `faultmgr/FaultManager.cpp:636`: Both threads test, use and delete the handle
  to the EMS mailbox without a lock.
- `msgmgr/DistributedMailboxProxy.cpp:230`: A proxy is registered, and can be
  found, before it is active.
- `msgmgr/DiscoveryManager.cpp:204`: The search for a duplicate registration
  does not advance its iterator: it never ends once there is a registration.
- `msgmgr/DiscoveryManager.cpp:388`: Discovery messages are sent over multicast
  three times because they may be lost; a receiver sees them zero to three
  times, in any order with the deregistration.
- `msgmgr/GroupMailboxProxy.cpp:159`: A failed post deletes the message and
  answers ERROR, on which the caller deletes or posts it again.
- `msgmgr/LocalSMMailbox.cpp:159`: A second shared memory mailbox of a process
  replaces the instance that the thread of the first one uses.
- `msgmgr/MailboxOwnerHandle.cpp:156`: A timer that is cancelled may have
  expired and its message be in the mailbox already; it is deleted or released
  to its pool all the same.
- `resourcemon/OSResource.cpp:236`: The level of each disk is remembered
  between checks: each crossing of a threshold must raise or clear exactly one
  alarm, also across several thresholds.
- `msgmgr/LocalSMMailboxQueue.cpp:95`: The same set-up race for a shared memory
  mailbox: a producer may feed a queue nobody reads.
- `datamgr/ConnectionSet.cpp:214`: A failed creation leaves ERROR in the pool
  id that is compared with 0 on the next call, and the next call takes the pool
  for created.
- `datamgr/DataManager.cpp:362`: A reservation holds the mutex of the map of
  sets: whatever it waits for stops every other user of the data manager.

## 2. Plan

Done, in this order: object pools and their manager; the local mailbox; threads;
faults; the registry of mailboxes; the data manager; the log with the set-up of
a queue in shared memory; the transport; the process manager; message buffers;
proofs of every invariant and action property that the runs check, and of the
refinements of the pool and of the mailbox.

Left, in order of what it would add:

1. `DistributedTransport` as an implementation of the abstract mailbox of module
   `Mailbox`, weakened by the losses `OKIsAccounted` names.
2. Timers, when the order in which the reactor expires and cancels them can be
   taken from a source.


## 3. Modules and how they correspond to the code

### ObjectPool
The pool of one caller at a time.  `freeList_` and `usedList_` are the sets of
their elements; every counter keeps its name.  Actions are `Reserve` and
`ReserveAndGrow` (reserve with and without growth; a pool with nothing free
answers NULL), `Release` and `ReleaseAndShrink`, and the change of the capacity
increment.  `creationCount_` and `totalUsedObjects_` are only printed, and left
out.  Clients release only what they hold, as the code's clients do.

### OPMLinkedList, LinkedPool
`OPMLinkedList` is `opm/OPMLinkedList.cpp` as operators on a memory of `next_`
and `prev_` pointers and list heads; walks along the pointers, and the loops of
growth and shrinking, are recursive functions.  `LinkedPool` is `ObjectPool.cpp` over it,
with `Promise == INSTANCE ObjectPool WITH` the elements of the lists as the
refinement mapping.

### OPM
Threads call createPool, getObjectPoolID and operations on ids; each critical
section on `poolVectorMutex_` is a step, and the six early returns that keep the
mutex locked (`RejectId`) are modelled as they are.  Callers pass any id, ERROR
too, which createPool answers and the code turns away only if it is too large
(`AcceptId`): what lies before the vector is NULL, and ERROR is answered
(`PoolIsNull`), or no pool, and the process ends (`PoolIsNone`).  `rivals` is
history: how many calls of createPool for a type were at once between their
search and their insertion.  A call without a bootstrap method is
`CreateRejected`; OPM is initialized before the threads of a program start.

### Mailbox, LocalMailbox
`Mailbox` is what posters and readers are promised: `Put`, `Accept`, `Refuse` and
`Take` of the next message.  `LocalMailbox` is the code, with `Promise == INSTANCE
Mailbox WITH` the messages of the ACE queue as those that wait: a post that meets
an inactive mailbox or a full queue refuses, `PostEnqueue` puts, `PostSignal`
accepts, `GetDequeue` takes, and every other step is none of the promised mailbox.

Each access to the ACE queue, the manual event, `active_` and the handle's mutex
is a step.  `post` is `PostReserve`, `PostEnqueue`/`PostFails`, `PostSignal`;
`getMessage` takes the handle's mutex (`Begin`), tests `active_`, and is then the
loop of test, wait, reset, and the dequeue after it;
`deactivate` and `activate` are two steps each.  Variables below "the history" in
the module record what properties speak of and influence nothing.

The wrappers of messages come from one pool of the process, which is reserved
from with a mutex and released into without it (section 6, 1).  What a post or a
read finds there when it meets a release half done is undefined: the pool is
then `raced`, and the model stops (`PoolIsIntact`).  Nothing is stated of the
number of wrappers, and every property is of the runs in which no such race
has happened.

### MailboxRegistry
Threads create, activate, find, deactivate and release mailboxes and proxies.
`registry` is the two maps; each critical section on one of their mutexes is a
step, and so is each access to `referenceCount_` and `active_`: `release` is the
decrement, the test of the count (`TestCount`) and the destruction with its
deregistration.  The order of the maps compares an internet address with itself,
so addresses of one name and type are one `Key` whatever their host: an insertion
that the map refuses for another address leaves the mailbox active without an
entry, and the address in `shadowed`.  `find` of a remote address looks, makes a proxy, and registers
it, each by itself.  Registering at an occupied address deactivates the mailbox
there with the mutex given up.  `accidents` names the three sequences under which
the code goes wrong: overlapping changes of one address, overlapping releases,
and a mailbox released for the last time while registered.

### DistributedTransport
The sending half is a proxy whose threads send a message in two or three parts
(header, contents, priority) over the one `clientStream`; a failed send closes it,
connects again and sends once more.  The receiving half is the reactor thread:
accept, one read that returns any number of the parts that are there, and a
message put in the inbox or refused by the full local queue (`PostRefused`).
Connections break, sends time out, activations, accepts and local posts fail, the
mailbox is deactivated and activated, each within `MaxFaults`.  As in the code:
an activation may fail to open or to register its acceptor (`ActivateFails`), which
leaves the mailbox inactive, with an acceptor that is open and lets proxies
connect, and whose descriptor the next activation loses (`acceptor` is `"lost"`);
after a failed accept the acceptor is never registered again, nor by
reactivation, or the connection it made is not read; a read that returns parts
of several messages delivers one; a message whose local post fails is lost; deleting a stream of a connector does
not close its descriptor.  A thread whose handle another thread has closed and
opened again writes into the connection of the other ("handle reused"), and
one that goes on writing to the older of two open connections may be
overtaken ("overtaken").  TCP and the reactor are external.

### MessageBuffer
The buffer as bytes with an insert and a deserialize position, `Byte` values to a
byte.  Operators are the add and extract functions of each type with the
room tests of the code (`Insert`, `Extract`); actions are one message: reservation
of a pooled buffer (of any of `Sizes`, with the conversion of either kind of proxy;
`PostMessage`), insertion of its fields (`Serialize`, `SerializePriority`), transfer
over a connection or through shared memory, reading of the id (`RecreateMessage`),
extraction and reset.  A mailbox reads `MaxLength` bytes at most: what is left in
the `stream` is read as another message (`ReadRest`).  An address is its location type and the fields that are
written for that type.  What insertion writes beyond the buffer and what
extraction reads there is the value `beyond`; `Arena` bounds the memory around a
buffer, far enough for whatever one message can reach.  `OfType` and `IsAddress` say
what a variable of a type can hold; the assumption on `Values` is that fields do.

### DataManager
`mutex` is `connectionSetMapMutex_`.  A call is two or more steps inside it: what
a pool operation reads, and what it writes, since the pools themselves are not
safe.  `ReserveReads`/`ReserveTakes`, `ReleaseDissociates`, `Clean`,
`ResetConnection`/`ResetFails`, `Return` are reserve and release; `Execute` and
its variants the answers of libpq; `Deactivate`/`ShutDownNext` the deactivation,
which never ends.  Threads also use a handle they have released (`stale`), which
the code only warns about.

### LogProcessor
`FindQueue`/`BindQueue` are the set-up of the queue in shared memory by processes
that start together; `TraceLog`, `ReleaseSemaphore` a log; the worker's test, wait,
dequeue, write and check of the size; rollover file by file; the closer's drain
and close; crash and restart between any two steps.  The stream is open, closed,
or failed when a file could not be opened; while it has failed the active file may
be absent, and the size compared in the check is then undefined (`TooLong`).
A log is its place in the order of the queue.  When a second reader finds the
queue empty, both threads are in code that reads a stale message, and the model
stops at that accident ("two readers").  When the bind fails the code removes the whole shared memory
segment.  Log levels, sequence ids and syslog are left out.

### ThreadManager
`creation` is the creating call, `thread` the thread under each id, `aceLock` the lock
of ACE's thread manager while exit hooks run (a spawn needs it free), `mapMutex`
and `restartMap` the members.  `ApplyInserts`, `ApplyInsertFails`,
`ApplyWithoutRestart` are `apply`; `MonitorWakes`, `MonitorRespawns`,
`MonitorErases` one pass of the monitor.  The iterator that is advanced after
`erase` may name any entry or the end next.  A spawn fails when ids run out, or
otherwise up to `MaxSpawnFailures` times; one of a pool leaves the threads that
were spawned before it (`spawned`), which run and are restarted though the
caller was told that there is no pool.

### ProcessManager
Main loads one service after the other (`Load` with its spawn), then starts the
reactor thread.  The reactor reaps a child and runs `handle_exit` (`HandleExit`,
`RestartProcess`, `StorePid`, `RegisterHandler`, `Return`) with the lock of ACE's
process manager held.  The shutdown runs on the reactor thread or beside it, one
fini at a time (`Fini`, `ReadPid`, `Terminate`, `WaitForChild`, `Reaped`,
`Delete`), then waits for all.  The process manager and the service configurator
of ACE are external, and children are numbered in the order of their spawns.  The
registration of a handler may fail, which is only logged (`Register`): the child is
then not restarted.

### FaultManager
`Report` and `Release` are the two halves of raiseAlarm, clearAlarm and
reportEvent; `FindEmpty`, `Wake`, `Take` are getNextAlarm; the actions of
`ProcessAlarmContents` its three cases, split where the database, the cache
mutex or the EMS are used; those of `ProcessClearAlarmCache` the sweep.  The
vector is its slots and its size: the sweep goes on to the old end after it
has erased elements.  That is undefined behaviour, and what libstdc++ builds do
is modelled: the contents of slots behind the last element stay readable, and an
erase there destroys another element.  The EMS is the number of uncleared rows
per alarm: an alarm adds one, a clear marks all.

A statement of the database may work; answer ERROR, before or after the server
has executed it (`QueryFails`, `InsertFails`, `DeleteFails`); or, on a connection that
is known to be bad, answer OK with no row and no effect (`QueryNothing`,
`InsertNothing`, `DeleteNothing`): an outstanding alarm is then posted again and its
clear discarded, an alarm is posted without a row, a clear with the row left.  A
post that fails twice, finds no mailbox or is lost behind it drops the report
(`PostFails`, `PostClearFails`); a failed delete is tried again with the mutex
held.  `Restart` may come at any point: the queue, its semaphore (which
the reporting processes keep open) and the database are as they were, the report
at hand and the clears held back are gone; nothing reads the table to find them
again.  A restart counts as a failure.  `latest` and `accidents` are history: an
accident makes an alarm exempt until a clear of it goes through (`Mended`), after
which the row is gone and the EMS has been told.


## 4. Runs and what they show

Each run checks one invariant with the type invariant and what is proved with it
(section 5): `IInv`, `BufferInv`, `LogInv` and `ThreadInv` are inductive;
`IdsNameTheirPools`, `Bookkeeping`, `TransportInv` and `Lending` are parts of
inductive invariants, the other parts of which are properties of their own.

| run | bounds | shows |
|---|---|---|
| `pool` | 7 objects, capacity 2, threshold 60 %, increments 1 and 2 | `IInv`: counts match lists, history matches capacity through up to five growths, a growing pool keeps headroom.  `IdlePoolIsInitialSize`, `ShrinkExactlyAtThreshold` |
| `linked_pool` | 5 objects | `ImplementsObjectPool`: whatever the order of calls, the pointers of the two lists make a pool |
| `opm` | 2 threads, 2 types, 2 calls each, ids 0, 1 and ERROR | `IdsNameTheirPools`: an id names what it was created for.  `NoMorePoolsThanRivals`: a type gets no more pools than there were calls at once between search and insertion.  `SearchesAgree`: all who look a type up are told of one pool.  `OnlyAbandonedMutexBlocks`: a call hangs only behind a mutex some rejected call has kept |
| `mailbox` | 2 producers, 2 readers, 3 messages of 2 priorities, queue of 2, 1 deactivation | `IInv`: no lost wakeup, NULL only if deactivated, delivery in order.  `ImplementsMailbox`: the ACE queue, `active_` and the answers of `post` make the promised mailbox.  `QueuedIsDelivered` |
| `registry` | 3 threads, 4 mailboxes, 1 local address, 2 remote ones of one key | `Bookkeeping`: counts are exact and freed memory is not used.  `ReferencesAreAlive`, `RegistryAgrees`; each except named accidents, and the last one for the addresses the map did not shadow |
| `transport` | 2 threads, 2 messages, 1 urgent, 2 connections, 1 fault | `TransportInv`: nothing is delivered twice unless a send failed in between.  `OKIsAccounted`: what was answered OK is under way, delivered, or lost in a named way.  `OrderOfOneThread`, `OKIsDelivered` |
| `buffer` | bytes of 8 values, buffers of 7 sizes, 3 message classes, one of them unknown to the receiver | `BufferInv`: no byte of an earlier message is read.  `OverrunIsSmall`: at most one byte by a string, 5 by an address.  `AcceptedArrive`: the fields and the priority that were accepted and came with the first read arrive, except behind a wrapped length or a refused field |
| `connections` | 2 threads, 1 connection, 3 handles, 1 failure | `Lending`: one holder at a time, no connection is lost, a NULL is never pooled.  `SessionsAreSeparate`: a thread meets neither a result nor a transaction of another.  `CallsReturn` |
| `logger` | 1 process, 6 logs, 3 files of 2 logs, 1 end, 1 failed call, semaphore up to 2 | `LogInv`: one queue, no lost wakeup, files in order.  `NewestAreKept`: what a rollover gives up is the oldest, and what stays is at least `Keep - 1` full files less one for each end and each failed call.  `LossesAreBounded`: no more logs are lost than processes ended.  `LogsAreTaken` |
| `thread` | 3 functions, one a pool of 2, 3 ids, 1 retry, 4 returns, 1 failed spawn | `ThreadInv`: locks pair up, and the threads of a pool that is there in part are counted.  `NoThreadForgotten`; `DeadThreadsRestart` and `ExitsComplete` unless the locks are inverted |
| `process` | 2 services, all deaths, failures and signals | `IInv`: no child is left, restarts end.  `DeletedHandlerIsNotUsed`, `DeadAreRestarted`, `ShutdownEnds` |
| `fault` | 2 processes, 2 alarms, 4 reports, clock 0 to 1, 1 failure, statement without effect or restart | `IInv`: no alarm is sent twice.  `NoLostWakeup`; `LastReportStands`: at rest the table and the EMS say what was reported last, again after the next clear when an accident has parted them; `ExpiredClearsLeave` |

### Why the bounds are enough
- *Pools*: with a threshold of one object and two increments, seven addresses
  allow histories with equal and different increments and stale entries above
  the current one; each growth and shrink depends on at most two entries.
- *OPM*: a race needs two threads; two calls each let one abandon the mutex and
  the other wait, or both create and then use or search; one of them may have
  ERROR to pass on.
- *Mailbox*: `QueueLimit` stands for the high water mark (16 KB at 8 bytes a
  block): a post is refused with a full queue as with a closed one.  Each message
  is posted once.  Two readers are needed for a reset that takes another
  reader's signal; three messages of two priorities for order within and
  between priorities.
- *Registry*: three threads let one find while two others change or release; four
  mailboxes let each be replaced once; two remote addresses of one key let one
  shadow the other.
- *Transport*: two threads on one stream, and a second connection with parts left
  on the first, are what every loss in the code needs; an urgent message has the
  third part.  With two connections, two threads that reconnect at once reach the
  bound: the stray connection that leaves is not followed.  The theorems hold for
  any number of connections.  Three are needed to see that messages of one thread
  are overtaken when a connection is opened while the last one can still be
  written (two threads reconnect at once, one keeps a handle of the connection
  that was replaced): the proof met it, and the exception of `OrderOfOneThread`
  names it.
- *Buffer*: a byte of 8 values makes a string of 7 characters the one whose length
  wraps to 0 (255 in the code) and one of 8 that which wraps to 1.  The sizes are
  those at which one of the fields just fits, fits but for the bytes the room
  test forgets, or does not fit.
- *Connections*: one connection makes the other thread meet the exhausted set; a
  third handle stands for the growth of that pool.
- *Log*: six logs fill three files of two, so that a rollover drops the oldest; a
  check after each log stands for the check after ten.  A limit of two logs
  tells a full file from one that an interrupted rollover has left short.  Such a
  place moves up the chain with later rollovers, over as many ends as there are,
  and at last costs one kept file: that is what `ends` and `failures` stand for in
  `NewestAreKept`, which the theorem states for any number of files and of logs in
  a file.
- *Threads*: a pool of two is there in part with one thread; four returns let two restartable threads die under one id.  Five
  retries (`THREAD_FUNC_RETRY`) become one: the loop only counts.
- *Processes*: no bound but the two services; three deaths end a service in the
  code.
- *Faults*: four reports are needed for duplicate clears (raise, clear, clear,
  raise) and for three clears in one sweep.  One tick is
  `CLEAR_ALARM_CACHE_TIME`: a clear expires at it, and those cached later do
  not.  A sweep needs no more alarms than two to confuse one with another.

Deadlock is not checked where calls, messages, reports or returns are bounded
and the system may stop after the last.

### Accidents
Several properties except states that follow an event recorded in `accidents`
(or named in the property).  Each is a place where the code loses, reorders or
forgets something, and the run shows that nothing else does:
- `OnlyAbandonedMutexBlocks`: a rejected call has kept `poolVectorMutex_`, or the
  process has ended on the id ERROR.
- `mailbox`: a race in the pool of the wrappers, at which the model stops.
- `registry`: overlapping changes of one address, overlapping last releases,
  release of a mailbox that is still registered, an address that was refused for
  another one of its key.
- `transport`: a connection broke or was closed with parts under way, the mailbox
  was inactive, its queue refused the message, a handle was reused by another
  thread's connection, a read did not hold exactly one message, an acceptor or a
  connection was not registered and so not read; for the order, a
  connection was opened while another held parts or could be written.
- `SessionsAreSeparate`: a stale handle was used, or a transaction left open.
- `logger`: two processes set the queue up together, one was killed between the
  queue and the semaphore, both threads read, a log was written to a stream that
  was not open, the rename of a kept file failed.
- `DeadThreadsRestart`, `ExitsComplete`: the two locks are held in opposite order.
- `process`: a restart is under way when fini reads the pid, or the child
  outlived the wait of fini.
- `LastReportStands`, `NoSecondAlarm`: for the alarm in question, and until its
  next clear that goes through, a statement that failed or had no effect; a failed
  post; a raise whose row disappears between the query and the lock
  of the cache; a raise inserted while a clear of it is cached or being sent; a
  raise that finds several clears; an element destroyed unsent by the sweep.

### Fairness
Threads that are inside a call keep running (weak fairness).  Locks are granted
so that a thread does not wait for ever for one that is free again and again
(strong fairness of `ThreadManager` and `DataManager`); the code justifies it with
the sleep of the monitor (2 s) and with the work between two calls to the data
manager.  Of the fault manager only the sweep is assumed to go on, for what it
has to do depends on nobody else.  Readers call getMessage again
after each message, as `MailboxProcessor` does.  A child that is told to stop
does.  Nobody is assumed to post, report, deactivate, activate again, log, die or
return.


## 5. Theorems

Checked by TLAPS for all values of the constants, from the named assumptions in
the modules only.

`ObjectPoolProofs`: `Invariance` shows `IInv`, which strengthens what is promised
by three facts: entries of the history lie at or above the initial capacity, only
a resizable pool is ever enlarged, and an enlarged pool has more objects in use
than the threshold of the capacity before.  The last one makes shrinking
inductive: without it a pool could be shrunk below what is in use.
`TypeCorrect`, `CountsAreRight`, `HistoryIsRight`, `HeadroomIsKept`,
`IdleMeansInitialSize` and `ShrinkAtThreshold` follow.  The proof has a lemma per
action on lemmas about moving an element between finite sets and about the
history array.

The same module holds the proof of OPM, whose state is its own.
`ManagerInvariance` shows `OPMInv`, for any ids that callers pass, the code's ERROR
among them.  `IdsAreRight`: every id answered names a pool of the type asked for.
`PoolsAreFew`: a type has no more pools than there were creations of it at once,
for each that goes on past its search is counted while it does
(`RivalsCounted`).  `SearchesAlwaysAgree`: a search answers the first pool of the
type (`FoundIsFirst`), and later ones are appended behind it.
`LookupsAreValid` has to be part of it (the thread in a critical section is the
owner of the mutex), and so has `OnlyCreateInserts`.  Every operation a thread can
start is one lemma (`CallStartKeeps`), every one that returns another
(`CallReturnKeeps`); only `CreateInserts` changes the vector, and appending keeps
what the earlier indexes name.

`LinkedPoolProofs`: the pool over linked lists implements the pool over sets
(`LinkedPoolImplementsObjectPool`), and its lists stay well linked
(`ListsStayLinked`).  A list is a `Chain`: an injection from `1..n` to the objects
that head, tail, size and both pointers agree with.  `NodesOfChain` and
`ElementsOfChain` say what a walk along the pointers meets;
`InsertFirstChain`, `RemoveChain` and `OtherChain` what an operation of
`OPMLinkedList.cpp` does to the chain it is about and to the one that shares the
pointers.  From them on only sets of elements are seen (`Joins`, `Leaves`).  The
loops that add and delete objects are recursive functions, and what they do is
shown for every number of rounds: a set of numbers that holds 0 and every
successor holds all of them (`SetInduction`, from the well-foundedness of finite
sets, for the induction theorems with an operator as a parameter cannot be used).
The invariant adds that the counters have their types (`CountersOK`) and that the
history is an ascending stack as deep as the enlargements (`Stack`), so that
shrinking deletes a number of objects, and the one that growth added.

`LocalMailboxProofs`: `Invariance` shows `IInv`: types, `OneReaderAtATime` (the
handle's mutex really serialises readers, which is why one reader's reset
cannot swallow a signal meant for another), `PostingHasMessage`, and
`InactivityIsSeen` (a reader that saw the mailbox inactive did overlap an
inactive time); `TypeCorrect`, `WakeupsAreKept` and `NullMeansDeactivated` follow.
Its last part is `Delivering`: the queue is in `DeliveryOrder`, so that
`enqueue_prio` finds a place behind all that is as urgent (`EnqueuePrioPlace`,
`InsertedAt`); `EntriesAreTrue` and `PostsAreSeparate` say that a message has one
post and what is known of it before the post has answered.  With it every step is
one of the promised mailbox or none (`DeliveringKept`), which gives
`AnswersAreKept` and the refinement `MailboxPromiseKept`.  Nothing is
stated of the wrappers: releases race in their pool (section 6.1), which may have
none left at any step.

`MailboxRegistryProofs`: `Invariance` shows `IInv`, and `BookkeepingIsRight` what it
says of the counts.  A lemma per action says what it
does to the thread and the mailbox it is about (`StepDoes`), so that each part of
the invariant is one proof over few kinds of steps.  `CountsAreExact` compares a
count with the cardinality of the handles to the mailbox and of what was leaked.
`CoveredAreAlive` is the reason nothing is used after it was freed: an owner, and
whoever activates a mailbox, is counted, so nobody who releases it may find
zero.  `ChangesAreAlone` and `ChangesAreOrderly` say what the three steps of a change
leave of the agreement between the registry and the active flags; they hold as long as
changes of one address do not overlap, and give `RegistryAgreesAlways`, which is of
addresses that are not `shadowed`: one whose insertion failed because another
of its name and type has the key stays active and unregistered.
`DestroyedAreUnused` and `OneReleases` complete `HandlesKeepAlive`.

`TransportProofs`: `Invariance` shows `IInv`, and `TransportIsRight` its part about
the parts on the way, `TransportInv`.  Its steps are reduced to a few kinds
(`StepDoes`): nothing that is on the way changes, a message begins, a part is
written, a connection is cleared, the reactor takes the parts of a read.
`FirstPartsAreSingle` gives `AtMostOnce`: unless a send failed in between, the first
part of a message is written once, and a delivery takes it.  `OnlyNewest` and
`OrderIsKept` give `ThreadsKeepTheirOrder`; `PartsAreKept` and `StreamIsOpen` give
`OKMeansAccounted`, for OK is answered when the last part is written to a
connection that holds the others.

The same module has, as its second half, the proofs of `MessageBuffer`, the bytes
of what the transport carries.  `NoByteIsStale` shows `BufferInv`, in which
`NoStaleByte` (zeros behind what was inserted) is inductive together with `Steady`,
what each phase leaves of the two buffers.  `InsertIs` and `ExtractEnds` bound what
an insertion writes and where an extraction stops: inside the memory, even if the
bytes it reads are not what was inserted.  `OverrunStaysSmall` needs `LastFits`: a
buffer that was written behind its end takes nothing more, so that the excess is
that of one field.
`WhatIsAcceptedArrives` is the round trip.  Integer division and multiplication
undo one another (`NumberBack`), a string ends at its 0 (`StringBack`), and so each
simple type is read back from the bytes it was written as, in either byte order
(`BytesBack`); `AddressIsStored` puts the parts of an address together, and
`InsertStores` says of every type that an accepted value is `Stored`: whatever comes
behind it, the extraction at its place gives the value and stops where the value
ends.  Stored values survive later insertions and the transfer of the bytes
(`StoredIsKept`, `Carried`).  The inductive invariant `ArrivalInv` says of each phase
which of the id, the fields and the priority are stored in which buffer, and
that the extraction stands where the next of them begins (`FieldIsNext`).

`DataManagerProofs`: `Invariance` shows `IInv`.  Its first half, `Lending`, is how
connections are lent: one thread inside a call and the mutex its own
(`OneCallAtATime`), a handle with one owner, and what a call has at hand in no
pool and behind no handle (`AtHand`); `ConnectionsAreLent` states it.  From it follows that no connection has two
holders and none is lost, although the pools take no mutex on release.  The
second half is what is open on a connection: `FreeAreClean` carries
`SessionsAreSeparate` from one holder to the next.  Steps that only close, give
nobody a connection and free what is closed are one lemma
(`ClosingKeepsSessions`).

`ProcessManagerProofs`: `Invariance`, `ChildrenEndFirst` (the process manager ends
after all its children) and `RestartsEnd` (a service is started at most once
more than its children have died, and given up at the third death).
`DeathsAreCounted` is the strengthening: a service with a child has
died less than three times, and the spawns do not outnumber the deaths by more
than one.  `HandlersOutliveTheirCalls`: as long as no restart is under way when
fini reads the pid, and no child outlives its wait, the table of ACE holds every
child under the pid its controller knows (`ChildrenAreKnown`), and so a controller
that is deleted has no child and is in no call (`DeletedAreGone`).

The same module holds the proofs of `LogProcessor`, one of the processes that are
started; the two components share no state, only the module.  `LogIsOrderly`
shows `LogInv`: who owns which queue (`QueuesAreOwned`), that a log processor that
is not up has done nothing (`StartsAnew`), that one thread at a time has a log or
moves files (`OneReader`), and that the logs in queues, hands and files are newer
than those before them (`QueuesInOrder`, `HandsAreNew`, `OldestGoFirst`, with
`RoomIsMade`: the place a file is moved to is empty).  `RolloversKeepTheNewest`
needs a count.  `HolesAreExplained` bounds the places of the chain without a full
file by the ends and failures so far, one ahead of an active file that could not
be opened; an injection from the full places times `1..SizeLimit` into
the logs that are written (`FullFilesHold`) gives the number of logs.
`LossesGoBackToEnds`: at an end at most one log is in hands, and only there a
log is neither queued nor written.

So does that of `ThreadManager`, of the threads inside each process.
`ThreadsAreCounted` shows `ThreadInv`, with `LocksBelong`: ACE's lock is that of a
thread in its exit hooks, `restartMapMutex_` that of a monitor whose entry is
still in the map; the thread it starts is never itself.  `NoneForgotten` is
`NoThreadForgotten`, from `ThreadsCounted`, which states the count of the functions
that were not started as well, and of pools that are there in part: a thread moves between the live ones, those to be
restarted and those given up, one at a time (`OneMore`, `OneLess`).  The
assumptions it adds are that thread ids are finitely many and that no function is
called "Monitor", the name of the monitor's own.

`FaultManagerProofs`: `ReportsWakeTheAlarmThread`, from `WakeupInv`: while the
alarm thread waits on a queue that is not empty, the semaphore has a count or a
process has yet to release it.  `Invariance` shows `IInv`.  Two of its parts are
about each alarm with no accident that a clear has not mended since: `EmsMatches`
(the table and the EMS agree but between the two steps of a raise, and while a
clear is sent) and `LatestMatches` (the last report is what the table says, or its
clear is held back).  They hold of an alarm again after its next clear that works,
whatever a bad connection did to it before.  `AtHandIsLatest`, that the report at
hand is the last one of its alarm, needs no such condition, and is what the mending
rests on.  `SweepMatches` bounds the slots the sweep
reads behind the end of the vector.  `LastReportsStand` and `OneAlarmAtMost` follow,
the second also in the middle of what is done about a report.

A proof module that holds two components does so because their names and states
are disjoint, and each theorem is of the specification of one of them.

Only model-checked: liveness (`QueuedIsDelivered`, `OKIsDelivered`, `CallsReturn`,
`LogsAreTaken`, `DeadThreadsRestart`, `ExitsComplete`, `DeadAreRestarted`,
`ShutdownEnds`, `ExpiredClearsLeave`) and `OnlyAbandonedMutexBlocks`, since
fairness and ENABLED are out of the prover's reach.


## 6. Where the code and its texts disagree

1. `SyncObjectPool.h:45-46` promises a thread-safe pool.  `release` does not
   override the method OPM calls (`char*` against `const char*`): releases run
   without the mutex.  `DataManager` models it so, and shows that the mutex of the
   map of sets is what protects its two users.
2. OPM returns with `poolVectorMutex_` locked for ids and increments it rejects
   (`OPM.cpp:279` and five more; `OPM.h:180-182` promises ERROR).
3. `LocalMailbox::deactivate` (`LocalMailbox.h:109`) does not signal the event a
   reader waits for: a reader blocked in getMessage stays there.
4. The thread monitor spawns with `restartMapMutex_` held while exit hooks take
   it inside ACE's lock; the comment at `ThreadManager.cpp:257-263` takes the
   hook for safe.
5. Several clears of one alarm are cached and a raise removes one of them
   (`FaultManager.cpp:753`).
6. The last release of a registered mailbox does not deregister it
   (`MailboxBase.cpp:215`): the handle it would use is stored by no activation.
7. A command on a connection known to be bad is answered OK
   (`PgConnection.cpp:336` against `DbConnection.h:97`), and a query then finds no
   rows.  `FaultManager` models what follows: alarms posted without a row, clears
   discarded, rows that outlive their clear.
8. `ConnectionSet.h:120` says that a reservation blocks, and
   `DataManager.cpp:394,418` that it may answer NULL; it does neither.
9. The pool of buffers is found by, and grows from, the address of an initializer
   on the stack of a constructor that has returned
   (`DistributedMailboxProxy.cpp:56-60`, `LocalSMMailboxProxy.cpp:65-69`,
   `OPM.cpp:153`).
10. "Cannot exceed size of buffer": the room tests of `MessageBuffer` omit the
    length byte of a string and the total size; a refused insertion is silent.
    A string of 255 characters travels as an empty one.
11. A message that travels through shared memory arrives without its priority.
12. `MailboxAddress.cpp:171-181`: the order by which the map of mailboxes finds its
    keys compares an address's internet address with itself, while `==` (of
    `MailboxLookupService.cpp`'s searches) compares both.  Of two remote mailboxes
    with one name and type the second is not inserted
    (`MailboxLookupService.cpp:414-419`).
13. The checks of ids in OPM are of the upper bound only (`OPM.cpp:276`), so ERROR,
    which failed calls answer, passes them and indexes the vector before its start.
14. `LogProcessor.cpp:383-384` says that a default is used; `main` passes a size
    of 0 when `-z` is absent, and every check rolls the files over.


## 7. Not modelled, and why

Components:
- *Discovery*: started by a test program only (`initializeDiscoveryManager`).
  Its loops do not advance their iterators (`DiscoveryManager.cpp:204, 233, 263,
  346, 464, 510`): a model would stop at the second registration.  It also posts
  to and deletes a proxy it has deleted (572-575), and the order of
  `MailboxAddress` compares one internet address with itself.
- *Group mailboxes*: with multicast the first reception dereferences a NULL
  `broadcastSocket_` (`GroupMailbox.cpp:363`).
- *Timers*: kept and fired by the reactor of ACE, whose order of expiry and
  cancellation `src/` does not show.  A timer that recurs is uncounted at every
  expiry (`MailboxBase.cpp:253`) and counted after it is scheduled
  (`MailboxOwnerHandle.cpp:123`).
- *Shared memory mailboxes* but for the path of a message: the queue works as
  those of the log and of the faults.  Deactivation does not wake the thread
  (`LocalSMMailbox.cpp:256`), another activation starts a second one, and the
  static instance is replaced (158).
- *Resource monitor*: one thread, and each check is arithmetic on what the
  operating system answers.  By reading: test code raises and clears ten alarms
  (`OSResource.cpp:303-312`), all mount points share one alarm, the memory ratio is an
  integer division (502), and no swap space divides by zero (512).
- *Clients, IDL, SQL*: user interfaces and generated code.

Left out of modelled parts: log texts, debug levels, formats and SQL, which decide
nothing the properties depend on; destruction of pools; posts with a timeout;
`ThreadParameters` on the heap; the orderly shutdown of the fault manager, its end
with a process mutex held, and its unguarded `emsMailboxHandle_`; an
insert whose answer is lost; the event file of ClientAgent; renaming of mailboxes; reconfiguration of the process
manager by SIGHUP, and the fini of a service whose spawn failed, which uses a NULL
handler; the destructors of mailboxes, which set a static flag for the whole
process; the map of the message factory, which is read without its mutex.
