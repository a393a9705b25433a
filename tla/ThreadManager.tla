--------------------------- MODULE ThreadManager ---------------------------
(* ThreadManager (src/platform/threadmgr/ThreadManager.cpp): threads that  *)
(* are started again when they end.  A thread that is to be restarted is   *)
(* left by its exit hook in restartMap_, under its thread id, and a monitor*)
(* thread starts it again.  Two locks are involved: restartMapMutex_, and  *)
(* the lock of ACE's thread manager, which ACE holds while it spawns a     *)
(* thread and while it runs the exit hooks of one.                         *)
EXTENDS Integers, FiniteSets

CONSTANTS
    Functions,        \* what applications start threads for: one call each
    Restartable,      \* those started with shouldRestart
    Pools,            \* those started by createThreadPool
    PoolSize,         \* the threads of a pool
    Ids,              \* thread ids: the system reuses the id of an ended one
    Retries,          \* THREAD_FUNC_RETRY
    MaxReturns,       \* bound: returns of thread functions
    MaxSpawnFailures  \* bound: spawns that fail

ASSUME FunctionsAssumption ==
    /\ Restartable \subseteq Functions /\ Pools \subseteq Functions
    /\ Functions \cap {"Monitor", "none"} = {}
ASSUME BoundsAssumption == MaxReturns \in Nat /\ MaxSpawnFailures \in Nat
ASSUME IdsAssumption ==
    /\ Ids \subseteq Nat /\ IsFiniteSet(Ids)
    /\ PoolSize \in Nat \ {0} /\ Retries \in Nat

Free == -1     \* a lock nobody holds
Absent == -2   \* no thread, no map entry
Monitor == "Monitor"

VARIABLES
    isInitialized,  \* isInitialized_
    creation,       \* where the creating call for each function is
    thread,         \* the thread of each id: its function and where it is
    aceLock,        \* the thread in its exit hooks, or Free
    mapMutex,       \* the holder of restartMapMutex_, or Free
    restartMap,     \* restartMap_: the function to restart under each id
    spawned,        \* the threads that were created for each function
    lost,           \* restarts of each function that were given up
    returns,        \* returns of thread functions so far
    spawnFailures   \* failed spawns so far

threadVars == <<isInitialized, creation, thread, aceLock, mapMutex, restartMap,
                spawned, lost, returns, spawnFailures>>

NoThread == [fn |-> "none", at |-> "none", calls |-> 0, entry |-> Absent]
Started(f) == [fn |-> f, calls |-> 0, entry |-> Absent,
               at |-> IF f = Monitor THEN "asleep" ELSE "running"]

ThreadInit ==
    /\ isInitialized = FALSE
    /\ creation = [f \in Functions |-> "start"]
    /\ thread = [id \in Ids |-> NoThread]
    /\ aceLock = Free
    /\ mapMutex = Free
    /\ restartMap = [id \in Ids |-> "none"]
    /\ spawned = [f \in Functions |-> 0]
    /\ lost = [f \in Functions |-> 0]
    /\ returns = 0
    /\ spawnFailures = 0

Width(f) == IF f \in Pools THEN PoolSize ELSE 1
FreeIds == {id \in Ids : thread[id] = NoThread}
Waiting == {id \in Ids : restartMap[id] # "none"}
At(id, label) == thread[id].at = label
Move(id, label) == thread' = [thread EXCEPT ![id].at = label]

-----------------------------------------------------------------------------
(* k new threads for f.                                                    *)
Begin(f, k) ==
    \E ids \in SUBSET FreeIds :
       /\ Cardinality(ids) = k
       /\ thread' = [id \in Ids |-> IF id \in ids THEN Started(f) ELSE thread[id]]

(* ACE_Thread_Manager::spawn and spawn_n: n threads for f, or an error, as *)
(* always when there are not n ids left.  The threads that were spawned    *)
(* before the one that failed go on running.                               *)
SpawnSucceeds(f, n) == aceLock = Free /\ Begin(f, n) /\ UNCHANGED spawnFailures

SpawnError(n) ==
    /\ aceLock = Free
    /\ \/ Cardinality(FreeIds) < n /\ UNCHANGED spawnFailures
       \/ spawnFailures < MaxSpawnFailures /\ spawnFailures' = spawnFailures + 1

SpawnFails(f, n, k) == SpawnError(n) /\ k < n /\ Begin(f, k)

(* createThread and createThreadPool: the first call starts the monitor.   *)
(* The flag is read and set without a lock.                                *)
CheckInitialized(f) ==
    /\ creation[f] = "start"
    /\ creation' = [creation EXCEPT ![f] = IF isInitialized THEN "spawn" ELSE "setFlag"]
    /\ UNCHANGED <<isInitialized, thread, aceLock, mapMutex, restartMap, spawned,
                   lost, returns, spawnFailures>>

SetInitialized(f) ==
    /\ creation[f] = "setFlag"
    /\ isInitialized' = TRUE
    /\ creation' = [creation EXCEPT ![f] = "spawnMonitor"]
    /\ UNCHANGED <<thread, aceLock, mapMutex, restartMap, spawned, lost,
                   returns, spawnFailures>>

(* createThread ignores what the call that creates the monitor returned.   *)
SpawnMonitor(f) ==
    /\ creation[f] = "spawnMonitor"
    /\ SpawnSucceeds(Monitor, 1) \/ SpawnFails(Monitor, 1, 0)
    /\ creation' = [creation EXCEPT ![f] = "spawn"]
    /\ UNCHANGED <<isInitialized, aceLock, mapMutex, restartMap, spawned, lost,
                   returns>>

(* The caller of createThreadPool gets no ids of the threads of a pool that*)
(* is there in part only.                                                  *)
SpawnFunction(f) ==
    /\ creation[f] = "spawn"
    /\ \E k \in 0..Width(f) :
          /\ \/ /\ k = Width(f) /\ SpawnSucceeds(f, k)
                /\ creation' = [creation EXCEPT ![f] = "created"]
             \/ /\ SpawnFails(f, Width(f), k)
                /\ creation' = [creation EXCEPT ![f] = "refused"]
          /\ spawned' = [spawned EXCEPT ![f] = k]
    /\ UNCHANGED <<isInitialized, aceLock, mapMutex, restartMap, lost, returns>>

-----------------------------------------------------------------------------
(* runThread: a restartable function that returns, or throws, is called    *)
(* again Retries times before the thread ends.                             *)
FunctionReturns(id) ==
    /\ At(id, "running")
    /\ returns < MaxReturns
    /\ returns' = returns + 1
    /\ LET t == thread[id]
       IN  thread' = [thread EXCEPT ![id] =
              IF t.fn \in Restartable /\ t.calls < Retries
              THEN [t EXCEPT !.calls = @ + 1]
              ELSE [t EXCEPT !.at = "exiting"]]
    /\ UNCHANGED <<isInitialized, creation, aceLock, mapMutex, restartMap,
                   spawned, lost, spawnFailures>>

(* The thread ends: ACE takes its lock and runs the exit hooks inside it.  *)
EnterExitHooks(id) ==
    /\ At(id, "exiting")
    /\ aceLock = Free
    /\ aceLock' = id
    /\ Move(id, "hooks")
    /\ UNCHANGED <<isInitialized, creation, mapMutex, restartMap, spawned, lost,
                   returns, spawnFailures>>

Leave(id) ==
    /\ aceLock' = Free
    /\ thread' = [thread EXCEPT ![id] = NoThread]
    /\ UNCHANGED <<isInitialized, creation, mapMutex, spawned, returns,
                   spawnFailures>>

(* apply: an id that is in the map already is not inserted again, and its  *)
(* thread is given up.                                                     *)
ApplyInserts(id) ==
    /\ At(id, "hooks")
    /\ thread[id].fn \in Restartable
    /\ mapMutex = Free
    /\ restartMap[id] = "none"
    /\ restartMap' = [restartMap EXCEPT ![id] = thread[id].fn]
    /\ Leave(id)
    /\ UNCHANGED lost

\* mutated: the entry of the thread that died earlier is overwritten
ApplyOverwrites(id) ==
    /\ At(id, "hooks")
    /\ thread[id].fn \in Restartable
    /\ mapMutex = Free
    /\ restartMap[id] # "none"
    /\ restartMap' = [restartMap EXCEPT ![id] = thread[id].fn]
    /\ Leave(id)
    /\ UNCHANGED lost

ApplyInsertFails(id) ==
    /\ At(id, "hooks")
    /\ thread[id].fn \in Restartable
    /\ mapMutex = Free
    /\ restartMap[id] # "none"
    /\ lost' = [lost EXCEPT ![thread[id].fn] = @ + 1]
    /\ Leave(id)
    /\ UNCHANGED restartMap

ApplyWithoutRestart(id) ==
    /\ At(id, "hooks")
    /\ thread[id].fn \notin Restartable
    /\ Leave(id)
    /\ UNCHANGED <<restartMap, lost>>

-----------------------------------------------------------------------------
(* startThreadMonitor, every THREAD_MONITOR_PERIOD: with the mutex held to *)
(* the end, it starts the thread of each entry and then erases the entry.  *)
IsFirst(id, S) == id \in S /\ \A other \in S : id <= other

MonitorWakes(id) ==
    /\ At(id, "asleep")
    /\ mapMutex = Free
    /\ mapMutex' = id
    /\ \E first \in Waiting :
          /\ IsFirst(first, Waiting)
          /\ thread' = [thread EXCEPT ![id].at = "respawn", ![id].entry = first]
    /\ UNCHANGED <<isInitialized, creation, aceLock, restartMap, spawned, lost,
                   returns, spawnFailures>>

(* The thread is started as createThread would; a failure is not noticed.  *)
MonitorRespawns(id) ==
    /\ At(id, "respawn")
    /\ LET f == restartMap[thread[id].entry]
           moved == [thread EXCEPT ![id].at = "erase"]
       IN  \/ /\ aceLock = Free
              /\ \E new \in FreeIds : thread' = [moved EXCEPT ![new] = Started(f)]
              /\ UNCHANGED <<lost, spawnFailures>>
           \/ /\ SpawnError(1)
              /\ thread' = moved
              /\ lost' = [lost EXCEPT ![f] = @ + 1]
    /\ UNCHANGED <<isInitialized, creation, aceLock, mapMutex, restartMap,
                   spawned, returns>>

\* mutated: the mutex is released after the first entry
MonitorErasesUnlocked(id) ==
    /\ At(id, "erase")
    /\ restartMap' = [restartMap EXCEPT ![thread[id].entry] = "none"]
    /\ \/ \E next \in Waiting \ {thread[id].entry} :
             thread' = [thread EXCEPT ![id].at = "respawn", ![id].entry = next]
       \/ thread' = [thread EXCEPT ![id].at = "asleep", ![id].entry = Absent]
    /\ mapMutex' = Free
    /\ UNCHANGED <<isInitialized, creation, aceLock, spawned, lost, returns,
                   spawnFailures>>

\* mutated: the mutex is not released before the sleep
MonitorErasesLocked(id) ==
    /\ At(id, "erase")
    /\ restartMap' = [restartMap EXCEPT ![thread[id].entry] = "none"]
    /\ \/ \E next \in Waiting \ {thread[id].entry} :
             thread' = [thread EXCEPT ![id].at = "respawn", ![id].entry = next]
       \/ thread' = [thread EXCEPT ![id].at = "asleep", ![id].entry = Absent]
    /\ UNCHANGED <<isInitialized, creation, aceLock, mapMutex, spawned, lost,
                   returns, spawnFailures>>

(* The iterator is advanced after its entry is erased: what it then names  *)
(* is undefined, and here any other entry or the end of the map.           *)
MonitorErases(id) ==
    /\ At(id, "erase")
    /\ restartMap' = [restartMap EXCEPT ![thread[id].entry] = "none"]
    /\ \/ \E next \in Waiting \ {thread[id].entry} :
             /\ thread' = [thread EXCEPT ![id].at = "respawn", ![id].entry = next]
             /\ UNCHANGED mapMutex
       \/ /\ thread' = [thread EXCEPT ![id].at = "asleep", ![id].entry = Absent]
          /\ mapMutex' = Free
    /\ UNCHANGED <<isInitialized, creation, aceLock, spawned, lost, returns,
                   spawnFailures>>

-----------------------------------------------------------------------------
Create(f) ==
    \/ CheckInitialized(f)
    \/ SetInitialized(f)
    \/ SpawnMonitor(f)
    \/ SpawnFunction(f)

Exit(id) ==
    \/ EnterExitHooks(id)
    \/ ApplyInserts(id)
    \/ ApplyInsertFails(id)
    \/ ApplyWithoutRestart(id)

MonitorStep(id) ==
    \/ MonitorWakes(id)
    \/ MonitorRespawns(id)
    \/ MonitorErases(id)

ThreadNext ==
    \/ \E f \in Functions : Create(f)
    \/ \E id \in Ids : FunctionReturns(id) \/ Exit(id) \/ MonitorStep(id)

(* Threads keep running; locks are handed out so that no thread waits for  *)
(* ever for a lock that is free again and again (the monitor sleeps        *)
(* THREAD_MONITOR_PERIOD between its passes).  A function need not return. *)
Fairness == \A id \in Ids : SF_threadVars(Exit(id) \/ MonitorStep(id))

ThreadSpec == ThreadInit /\ [][ThreadNext]_threadVars /\ Fairness

-----------------------------------------------------------------------------
Live(f) == {id \in Ids : thread[id].fn = f}

(* The entry of an id whose thread the monitor has started again and not   *)
(* yet erased is not waiting any more.                                     *)
Handled == {thread[id].entry : id \in {m \in Ids : At(m, "erase")}}
ToRestart(f) == {id \in Waiting \ Handled : restartMap[id] = f}

(* A thread inside its exit hooks waits for the map while the monitor that *)
(* holds the map waits for ACE's lock to start a thread.                   *)
LockInversion ==
    /\ aceLock # Free
    /\ mapMutex # Free
    /\ thread[aceLock].fn \in Restartable
    /\ At(mapMutex, "respawn")

ThreadTypeOK ==
    /\ isInitialized \in BOOLEAN
    /\ creation \in [Functions -> {"start", "setFlag", "spawnMonitor", "spawn",
                             "created", "refused"}]
    /\ thread \in [Ids -> [fn : Functions \cup {Monitor, "none"}, calls : 0..Retries,
                           entry : Ids \cup {Absent},
                           at : {"none", "running", "exiting", "hooks", "asleep",
                                 "respawn", "erase"}]]
    /\ aceLock \in Ids \cup {Free}
    /\ mapMutex \in Ids \cup {Free}
    /\ restartMap \in [Ids -> Restartable \cup {"none"}]
    /\ spawned \in [Functions -> Nat]
    /\ lost \in [Functions -> Nat]
    /\ returns \in 0..MaxReturns
    /\ spawnFailures \in 0..MaxSpawnFailures

(* No thread is forgotten and none is started twice: of the threads that   *)
(* were created for a restartable function, each one is running, ending,   *)
(* waiting in the map, or counted as given up.                             *)
NoThreadForgotten ==
    \A f \in Restartable : creation[f] = "created" =>
        Cardinality(Live(f)) + Cardinality(ToRestart(f)) + lost[f] = Width(f)

(* The locks pair up: ACE's lock belongs to a thread in its exit hooks, the*)
(* map's mutex to a monitor at work on an entry that is still in the map.  *)
LocksAreOwned ==
    /\ \A id \in Ids : aceLock = id <=> At(id, "hooks")
    /\ \A id \in Ids : mapMutex = id <=> thread[id].at \in {"respawn", "erase"}
    /\ \A id \in Ids : mapMutex = id => thread[id].entry \in Waiting

(* A thread that waits to be restarted is restarted, unless the monitor    *)
(* was never started or the two locks are held the wrong way round.        *)
DeadThreadsRestart ==
    \A id \in Ids : (restartMap[id] # "none") ~>
        (restartMap[id] = "none" \/ Live(Monitor) = {} \/ LockInversion)

(* A thread that has begun to end does end, unless the two locks are held  *)
(* the wrong way round.                                                    *)
ExitsComplete ==
    \A id \in Ids : thread[id].at \in {"exiting", "hooks"} ~>
        (thread[id].at \notin {"exiting", "hooks"} \/ LockInversion)

(* The inductive invariant of the proofs: NoThreadForgotten is known of    *)
(* every function, of the threads that a failed spawn_n left as well.      *)
LocksInv == ThreadTypeOK /\ LocksAreOwned

ThreadsCounted ==
    \A f \in Restartable :
        /\ Cardinality(Live(f)) + Cardinality(ToRestart(f)) + lost[f] = spawned[f]
        /\ creation[f] = "created" => spawned[f] = Width(f)
        /\ creation[f] \notin {"created", "refused"} => spawned[f] = 0

ThreadInv == LocksInv /\ ThreadsCounted
=============================================================================
