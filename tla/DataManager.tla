---------------------------- MODULE DataManager ----------------------------
(* The connection sets of a process (src/platform/datamgr): threads        *)
(* reserve a connection through a handle, run commands and transactions on *)
(* it and release it.  A set is an object pool of connections; the handles *)
(* of all sets are one more pool, which grows.  SyncObjectPool::release    *)
(* does not override the release that OPM calls (it takes a plain char     *)
(* pointer), so a release takes no mutex of the pool, and what an          *)
(* operation reads of a pool and what it writes are two steps; the mutex   *)
(* of the map of sets is what keeps operations apart.                      *)
EXTENDS Integers, FiniteSets

CONSTANTS
    Threads, Sets, Connections, Handles,
    SetOf,              \* the set each connection belongs to
    MaxFailures,        \* bound: commands and resets that fail
    None

ASSUME SetOfAssumption == SetOf \in [Connections -> Sets]
ASSUME MaxFailuresAssumption == MaxFailures \in Nat
ASSUME IdentityAssumption == None \notin Threads \cup Sets \cup Connections \cup Handles
(* The pool of handles grows, so it never runs dry.                        *)
ASSUME HandlesAssumption == Cardinality(Handles) >= Cardinality(Threads)

VARIABLES
    mutex,              \* the thread that holds connectionSetMapMutex_
    freeConnections,    \* the free lists of the pools of all sets
    freeHandles,        \* the free list of the pool of handles
    associatedConnection, \* of each handle
    status,             \* what libpq knows of each connection
    pgResult,           \* the thread whose result is open on it, or None
    transaction,        \* the thread that began a transaction on it, or None
    pc,
    wanted,             \* the set a thread reserves from or deactivates
    chosen,             \* the connection at hand inside a call
    held,               \* the handle a thread has reserved
    stale,              \* a handle it has released and still points to
    \* history:
    deactivated,        \* sets whose deactivation has begun
    failures,
    accidents

pools == <<freeConnections, freeHandles, associatedConnection>>
server == <<status, pgResult, transaction>>
history == <<deactivated, failures, accidents>>
vars == <<mutex, pools, server, pc, wanted, chosen, held, stale, history>>

Goto(t, label) == pc' = [pc EXCEPT ![t] = label]
Idle(t) == pc[t] = "idle"
Available(s) == {c \in freeConnections : SetOf[c] = s}

(* performActivation() of every set, by initialization.  A connection that *)
(* cannot be established goes into the pool all the same.                  *)
Init ==
    /\ mutex = None
    /\ freeConnections = Connections
    /\ freeHandles = Handles
    /\ associatedConnection = [h \in Handles |-> None]
    /\ \E broken \in SUBSET Connections :
          status = [c \in Connections |-> IF c \in broken THEN "bad" ELSE "ok"]
    /\ failures = 0
    /\ pgResult = [c \in Connections |-> None]
    /\ transaction = [c \in Connections |-> None]
    /\ pc = [t \in Threads |-> "idle"]
    /\ wanted = [t \in Threads |-> None]
    /\ chosen = [t \in Threads |-> None]
    /\ held = [t \in Threads |-> None]
    /\ stale = [t \in Threads |-> None]
    /\ deactivated = {}
    /\ accidents = {}

-----------------------------------------------------------------------------
(* reserveConnection() and reserveConnectionNonBlocking() do the same: no  *)
(* pool ever blocks.                                                       *)
Reserve(t, s) ==
    /\ Idle(t) /\ held[t] = None
    /\ wanted' = [wanted EXCEPT ![t] = s]
    /\ Goto(t, "reserve")
    /\ UNCHANGED <<mutex, pools, server, chosen, held, stale, history>>

ReserveUnguardedRead(t) ==  \* mutated: the mutex is not taken
    /\ pc[t] = "reserve"
    /\ \E c \in Available(wanted[t]) \cup {None} :
          /\ c = None <=> Available(wanted[t]) = {}
          /\ chosen' = [chosen EXCEPT ![t] = c]
    /\ Goto(t, "take")
    /\ UNCHANGED <<mutex, pools, server, wanted, held, stale, history>>

ReserveReads(t) ==
    /\ pc[t] = "reserve" /\ mutex = None
    /\ mutex' = t
    /\ \E c \in Available(wanted[t]) \cup {None} :
          /\ c = None <=> Available(wanted[t]) = {}
          /\ chosen' = [chosen EXCEPT ![t] = c]
    /\ Goto(t, "take")
    /\ UNCHANGED <<pools, server, wanted, held, stale, history>>

(* The caller gets a handle even when there was no connection for it.      *)
ReserveTakes(t) ==
    /\ pc[t] = "take"
    /\ freeConnections' = freeConnections \ {chosen[t]}
    /\ \E h \in freeHandles :
          /\ freeHandles' = freeHandles \ {h}
          /\ associatedConnection' = [associatedConnection EXCEPT ![h] = chosen[t]]
          /\ held' = [held EXCEPT ![t] = h]
    /\ chosen' = [chosen EXCEPT ![t] = None]
    /\ wanted' = [wanted EXCEPT ![t] = None]
    /\ mutex' = IF mutex = t THEN None ELSE mutex
    /\ Goto(t, "idle")
    /\ UNCHANGED <<server, stale, history>>

(* releaseConnection().  The thread may keep its pointer to the handle.    *)
Release(t) ==
    /\ Idle(t) /\ held[t] # None
    /\ Goto(t, "release")
    /\ UNCHANGED <<mutex, pools, server, wanted, chosen, held, stale, history>>

ReleaseDissociates(t) ==
    LET c == associatedConnection[held[t]]
    IN  /\ pc[t] = "release" /\ mutex = None
        /\ mutex' = t
        /\ chosen' = [chosen EXCEPT ![t] = c]
        /\ associatedConnection' = [associatedConnection EXCEPT ![held[t]] = None]
        /\ Goto(t, IF c = None THEN "return" ELSE "clean")
        /\ accidents' = accidents \cup
               IF c # None /\ transaction[c] # None THEN {"open_transaction"} ELSE {}
        /\ UNCHANGED <<freeConnections, freeHandles, server, wanted, held, stale,
                       deactivated, failures>>

(* clean(): the result is closed, and a bad connection is reset, while the *)
(* mutex is held.  A transaction ends with its connection only.            *)
CleanKeepsResult(t) ==  \* mutated: the result stays open
    /\ pc[t] = "clean"
    /\ Goto(t, IF status[chosen[t]] = "ok" THEN "return" ELSE "reset")
    /\ UNCHANGED <<mutex, pools, server, wanted, chosen, held, stale, history>>

Clean(t) ==
    /\ pc[t] = "clean"
    /\ pgResult' = [pgResult EXCEPT ![chosen[t]] = None]
    /\ Goto(t, IF status[chosen[t]] = "ok" THEN "return" ELSE "reset")
    /\ UNCHANGED <<mutex, pools, status, transaction, wanted, chosen, held, stale, history>>

ResetConnection(t) ==
    /\ pc[t] = "reset"
    /\ status' = [status EXCEPT ![chosen[t]] = "ok"]
    /\ transaction' = [transaction EXCEPT ![chosen[t]] = None]
    /\ Goto(t, "return")
    /\ UNCHANGED <<mutex, pools, pgResult, wanted, chosen, held, stale, history>>

ResetFails(t) ==
    /\ pc[t] = "reset" /\ failures < MaxFailures
    /\ failures' = failures + 1
    /\ transaction' = [transaction EXCEPT ![chosen[t]] = None]
    /\ Goto(t, "return")
    /\ UNCHANGED <<mutex, pools, status, pgResult, wanted, chosen, held, stale,
                   deactivated, accidents>>

(* Both objects go back to their pools.                                    *)
ReturnKeepsMutex(t) ==  \* mutated: an early return keeps the mutex
    /\ pc[t] = "return"
    /\ freeConnections' = freeConnections \cup ({chosen[t]} \ {None})
    /\ freeHandles' = freeHandles \cup {held[t]}
    /\ stale' = [stale EXCEPT ![t] = held[t]]
    /\ held' = [held EXCEPT ![t] = None]
    /\ chosen' = [chosen EXCEPT ![t] = None]
    /\ mutex' = IF chosen[t] = None THEN mutex ELSE None
    /\ Goto(t, "idle")
    /\ UNCHANGED <<associatedConnection, server, wanted, history>>

Return(t) ==
    /\ pc[t] = "return"
    /\ freeConnections' = freeConnections \cup ({chosen[t]} \ {None})
    /\ freeHandles' = freeHandles \cup {held[t]}
    /\ stale' = [stale EXCEPT ![t] = held[t]]
    /\ held' = [held EXCEPT ![t] = None]
    /\ chosen' = [chosen EXCEPT ![t] = None]
    /\ mutex' = None
    /\ Goto(t, "idle")
    /\ UNCHANGED <<associatedConnection, server, wanted, history>>

-----------------------------------------------------------------------------
(* Commands through a handle: the one held, or one released before, on     *)
(* which the code only warns.  A handle without a connection answers ERROR.*)
Use(t, h) ==
    /\ Idle(t) /\ h \in {held[t], stale[t]} \ {None}
    /\ associatedConnection[h] # None
    /\ accidents' = accidents \cup IF h # held[t] THEN {"stale_handle"} ELSE {}

(* executeCommand(): it succeeds and leaves its result open.               *)
Execute(t, h) ==
    LET c == associatedConnection[h]
    IN  /\ Use(t, h) /\ status[c] = "ok"
        /\ pgResult' = [pgResult EXCEPT ![c] = t]
        /\ UNCHANGED <<mutex, pools, status, transaction, pc, wanted, chosen, held,
                       stale, deactivated, failures>>

(* The server refuses the command, or the connection breaks: ERROR.        *)
ExecuteFails(t, h) ==
    LET c == associatedConnection[h]
    IN  /\ Use(t, h) /\ status[c] = "ok" /\ failures < MaxFailures
        /\ failures' = failures + 1
        /\ \E result \in {"ok", "bad"} : status' = [status EXCEPT ![c] = result]
        /\ pgResult' = [pgResult EXCEPT ![c] = None]
        /\ UNCHANGED <<mutex, pools, transaction, pc, wanted, chosen, held, stale,
                       deactivated>>

(* On a connection known to be bad libpq answers no result at all, which   *)
(* the code takes for success.                                             *)
ExecuteNothing(t, h) ==
    LET c == associatedConnection[h]
    IN  /\ Use(t, h) /\ status[c] = "bad"
        /\ pgResult' = [pgResult EXCEPT ![c] = None]
        /\ UNCHANGED <<mutex, pools, status, transaction, pc, wanted, chosen, held,
                       stale, deactivated, failures>>

(* closeCommandResult() by the thread that has read its result.            *)
CloseCommandResult(t, h) ==
    /\ Use(t, h) /\ pgResult[associatedConnection[h]] # None
    /\ pgResult' = [pgResult EXCEPT ![associatedConnection[h]] = None]
    /\ UNCHANGED <<mutex, pools, status, transaction, pc, wanted, chosen, held, stale,
                   deactivated, failures>>

BeginTransaction(t, h) ==
    LET c == associatedConnection[h]
    IN  /\ Use(t, h) /\ status[c] = "ok" /\ transaction[c] = None
        /\ transaction' = [transaction EXCEPT ![c] = t]
        /\ pgResult' = [pgResult EXCEPT ![c] = t]
        /\ UNCHANGED <<mutex, pools, status, pc, wanted, chosen, held, stale,
                       deactivated, failures>>

(* commitTransaction() and rollbackTransaction().                          *)
EndTransaction(t, h) ==
    LET c == associatedConnection[h]
    IN  /\ Use(t, h) /\ status[c] = "ok" /\ transaction[c] # None
        /\ transaction' = [transaction EXCEPT ![c] = None]
        /\ pgResult' = [pgResult EXCEPT ![c] = t]
        /\ UNCHANGED <<mutex, pools, status, pc, wanted, chosen, held, stale,
                       deactivated, failures>>

-----------------------------------------------------------------------------
(* deActivateConnectionSet() shuts down the connections it can reserve,    *)
(* and goes on reserving: it gets a handle for ever, at last without a     *)
(* connection, and keeps the mutex.  Its handles come from growth.         *)
Deactivate(t, s) ==
    /\ Idle(t) /\ held[t] = None /\ mutex = None
    /\ mutex' = t
    /\ wanted' = [wanted EXCEPT ![t] = s]
    /\ deactivated' = deactivated \cup {s}
    /\ Goto(t, "deactivate")
    /\ UNCHANGED <<pools, server, chosen, held, stale, failures, accidents>>

ShutDownNext(t) ==
    /\ pc[t] = "deactivate"
    /\ \E c \in Available(wanted[t]) :
          /\ freeConnections' = freeConnections \ {c}
          /\ status' = [status EXCEPT ![c] = "finished"]
          /\ pgResult' = [pgResult EXCEPT ![c] = None]
          /\ transaction' = [transaction EXCEPT ![c] = None]
    /\ UNCHANGED <<mutex, freeHandles, associatedConnection, pc, wanted, chosen, held,
                   stale, history>>

Inside(t) ==
    \/ ReserveReads(t) \/ ReserveTakes(t)
    \/ ReleaseDissociates(t) \/ Clean(t) \/ ResetConnection(t) \/ ResetFails(t) \/ Return(t)
    \/ ShutDownNext(t)

Next ==
    \E t \in Threads :
        \/ Inside(t)
        \/ \E s \in Sets : Reserve(t, s) \/ Deactivate(t, s)
        \/ Release(t)
        \/ \E h \in Handles :
              \/ Execute(t, h) \/ ExecuteFails(t, h) \/ ExecuteNothing(t, h)
              \/ CloseCommandResult(t, h)
              \/ BeginTransaction(t, h) \/ EndTransaction(t, h)

Spec == Init /\ [][Next]_vars

(* A thread inside a call goes on, and gets the mutex at last: whoever     *)
(* holds it leaves it between two calls.                                   *)
FairSpec == Spec /\ \A t \in Threads : SF_vars(Inside(t))

-----------------------------------------------------------------------------
InUse == {held[t] : t \in Threads} \ {None}

(* Every variable has its type; in particular no pool holds a NULL.        *)
TypeOK ==
    /\ mutex \in Threads \cup {None}
    /\ freeConnections \subseteq Connections
    /\ freeHandles \subseteq Handles
    /\ associatedConnection \in [Handles -> Connections \cup {None}]
    /\ status \in [Connections -> {"ok", "bad", "finished"}]
    /\ pgResult \in [Connections -> Threads \cup {None}]
    /\ transaction \in [Connections -> Threads \cup {None}]
    /\ pc \in [Threads -> {"idle", "reserve", "take", "release", "clean", "reset",
                           "return", "deactivate"}]
    /\ wanted \in [Threads -> Sets \cup {None}]
    /\ chosen \in [Threads -> Connections \cup {None}]
    /\ held \in [Threads -> Handles \cup {None}]
    /\ stale \in [Threads -> Handles \cup {None}]
    /\ deactivated \subseteq Sets
    /\ failures \in 0..MaxFailures
    /\ accidents \subseteq {"open_transaction", "stale_handle"}

(* No two threads hold one handle, and no two handles lead to one          *)
(* connection, although the pools themselves are not safe.                 *)
ConnectionsAreExclusive ==
    /\ \A t, u \in Threads : t # u /\ held[t] # None => held[t] # held[u]
    /\ \A g, h \in Handles :
          g # h /\ associatedConnection[g] # None
              => associatedConnection[g] # associatedConnection[h]

(* Every connection is free, behind a handle in use, being released, or    *)
(* shut down: no sequence of calls loses one.                              *)
ConnectionsAccounted ==
    \A c \in Connections :
        \/ c \in freeConnections
        \/ \E h \in InUse : associatedConnection[h] = c
        \/ \E t \in Threads : chosen[t] = c /\ pc[t] \in {"clean", "reset", "return"}
        \/ status[c] = "finished" /\ SetOf[c] \in deactivated

(* What is open on a connection is its holder's: a result, unless a        *)
(* released handle was used, and a transaction, unless it was left open.   *)
SessionsAreSeparate ==
    \A t \in Threads :
        LET c == IF held[t] = None THEN None ELSE associatedConnection[held[t]]
        IN  c # None =>
              /\ pgResult[c] \in {t, None} \/ "stale_handle" \in accidents
              /\ transaction[c] \in {t, None} \/ accidents # {}

(* A call returns, unless a set is being deactivated.                      *)
CallsReturn ==
    \A t \in Threads :
        pc[t] \in {"reserve", "release"} ~> (pc[t] = "idle" \/ deactivated # {})

(* Why those hold: one thread at a time is inside a call, the mutex is its *)
(* own, and what it has at hand is nobody else's.                          *)
OneCallAtATime ==
    \A t \in Threads :
        pc[t] \in {"take", "clean", "reset", "return", "deactivate"} <=> mutex = t

HandlesHaveOneOwner ==
    /\ \A t \in Threads : held[t] \notin freeHandles
    /\ \A t \in Threads :
          /\ pc[t] \in {"reserve", "take", "deactivate"} => held[t] = None
          /\ pc[t] \in {"release", "clean", "reset", "return"} => held[t] # None
    /\ \A h \in Handles : associatedConnection[h] # None =>
          /\ h \in InUse
          /\ associatedConnection[h] \notin freeConnections

AtHand ==
    \A t \in Threads :
        /\ pc[t] \in {"idle", "reserve", "release", "deactivate"} => chosen[t] = None
        /\ pc[t] \in {"clean", "reset"} => chosen[t] # None
        /\ pc[t] = "take" /\ chosen[t] # None => chosen[t] \in freeConnections
        /\ pc[t] \in {"clean", "reset", "return"} =>
              /\ chosen[t] \notin freeConnections
              /\ associatedConnection[held[t]] = None
              /\ \A h \in Handles : chosen[t] # None => associatedConnection[h] # chosen[t]
        /\ pc[t] \in {"reserve", "take"} => wanted[t] \in Sets
        /\ pc[t] = "deactivate" => wanted[t] \in deactivated

(* No session outlives its release: with the two exceptions above, what is *)
(* back in its pool, or about to be, has no result and no transaction open.*)
BeingReleased(c, labels) == \E t \in Threads : chosen[t] = c /\ pc[t] \in labels

FreeAreClean ==
    \A c \in Connections :
        /\ c \in freeConnections \/ BeingReleased(c, {"reset", "return"})
              => pgResult[c] = None \/ "stale_handle" \in accidents
        /\ c \in freeConnections \/ BeingReleased(c, {"clean", "reset", "return"})
              => transaction[c] = None \/ accidents # {}

(* How connections are lent: to one holder at a time, through every step of*)
(* every call, and none of them is lost.                                   *)
Lending ==
    /\ TypeOK
    /\ ConnectionsAreExclusive
    /\ ConnectionsAccounted
    /\ OneCallAtATime
    /\ HandlesHaveOneOwner
    /\ AtHand

(* The inductive invariant of DataManagerProofs: how connections are lent, *)
(* and what is open on them.                                               *)
IInv == Lending /\ SessionsAreSeparate /\ FreeAreClean
=============================================================================
