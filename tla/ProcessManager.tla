---------------------------- MODULE ProcessManager ----------------------------
(***************************************************************************)
(* Start, supervision, restart and shutdown of the child processes         *)
(* (processmgr/ProcessManager.cpp, ProcessController.cpp and               *)
(* ProcessDeathHandler.cpp).  The main thread starts one child for each    *)
(* service of the configuration, the reactor thread is told of their       *)
(* deaths, and a signal runs the shutdown, on the reactor thread or on     *)
(* another one.                                                            *)
(*                                                                         *)
(* External: the process manager of ACE, which keeps a table of the        *)
(* children and the handler of each, and holds its recursive lock while it *)
(* calls a handler; the service configurator of ACE, which calls init and  *)
(* fini of the controllers and deletes them; and the operating system.  The*)
(* children of a controller are numbered in the order of their spawns.     *)
(***************************************************************************)
EXTENDS Integers, FiniteSets

CONSTANTS Proc     \* the services of the configuration, one child each

MaxDeaths == 3     \* the death at which a process is given up

VARIABLES
    loaded,        \* the services whose init was called
    started,       \* the reactor thread runs
    \* of each service: its child
    child,         \* the newest child: none, running, or dead and not reaped
    spawns,        \* the number of the newest child, 0 before the first
    managed,       \* it is in the table of the process manager
    registered,    \* the table has a handler for it
    told,          \* it was sent SIGINT
    \* of each service: ProcessController and ProcessDeathHandler
    childProcessPID,
    counter,
    hasBeenTerminated,
    handler,       \* processDeathHandler_: none, made or deleted
    \* the reactor thread
    reactor,       \* idle, or where it is in handle_exit
    dead,          \* the service whose handler it calls
    interrupted,   \* the signal handler runs on it
    \* the shutdown
    stop,          \* where it is
    ending,        \* the service whose fini it calls
    stopPid,       \* the argument of terminate and of wait
    \* bookkeeping
    failed,        \* the services whose spawn, or its handler's registration, failed
    calledDeleted, \* a handler was called after it was deleted
    accidents

childVars == <<child, spawns, managed, registered, told>>
controllerVars == <<childProcessPID, counter, hasBeenTerminated, handler>>
reactorVars == <<reactor, dead, interrupted>>
stopVars == <<stop, ending, stopPid>>
vars == <<loaded, started, childVars, controllerVars, reactorVars, stopVars,
          failed, calledDeleted, accidents>>

NoProc == "none"
Pid == 0 .. MaxDeaths
Invalid == 0

TypeOK ==
    /\ loaded \subseteq Proc
    /\ started \in BOOLEAN
    /\ child \in [Proc -> {"none", "running", "zombie"}]
    /\ spawns \in [Proc -> Pid]
    /\ managed \in [Proc -> BOOLEAN]
    /\ registered \in [Proc -> BOOLEAN]
    /\ told \in [Proc -> BOOLEAN]
    /\ childProcessPID \in [Proc -> Pid]
    /\ counter \in [Proc -> 0 .. MaxDeaths]
    /\ hasBeenTerminated \in [Proc -> BOOLEAN]
    /\ handler \in [Proc -> {"none", "made", "deleted"}]
    /\ reactor \in {"idle", "exit", "spawn", "store", "register", "return"}
    /\ dead \in Proc \cup {NoProc}
    /\ interrupted \in BOOLEAN
    /\ stop \in {"no", "next", "read", "terminate", "wait", "reaped", "delete",
                 "wait_all", "ended"}
    /\ ending \in Proc \cup {NoProc}
    /\ stopPid \in Pid
    /\ failed \subseteq Proc
    /\ calledDeleted \in BOOLEAN
    /\ accidents \subseteq {"restart_under_way", "outlived_fini"}

Init ==
    /\ loaded = {} /\ started = FALSE
    /\ child = [p \in Proc |-> "none"]
    /\ spawns = [p \in Proc |-> 0]
    /\ managed = [p \in Proc |-> FALSE]
    /\ registered = [p \in Proc |-> FALSE]
    /\ told = [p \in Proc |-> FALSE]
    /\ childProcessPID = [p \in Proc |-> Invalid]
    /\ counter = [p \in Proc |-> 0]
    /\ hasBeenTerminated = [p \in Proc |-> FALSE]
    /\ handler = [p \in Proc |-> "none"]
    /\ reactor = "idle" /\ dead = NoProc /\ interrupted = FALSE
    /\ stop = "no" /\ ending = NoProc /\ stopPid = Invalid
    /\ failed = {} /\ calledDeleted = FALSE /\ accidents = {}

\* What follows a call of a deleted handler is undefined, and the process
\* manager that has ended takes no steps.
Running == ~calledDeleted /\ stop # "ended"

-----------------------------------------------------------------------------
(* The children.                                                           *)

\* spawn, with a new entry of the table that has no handler yet.
Spawn(p) ==
    /\ child' = [child EXCEPT ![p] = "running"]
    /\ spawns' = [spawns EXCEPT ![p] = @ + 1]
    /\ managed' = [managed EXCEPT ![p] = TRUE]
    /\ told' = [told EXCEPT ![p] = FALSE]

\* A child dies, of itself or because it was told to.
Die(p) ==
    /\ child[p] = "running"
    /\ child' = [child EXCEPT ![p] = "zombie"]
    /\ UNCHANGED <<loaded, started, spawns, managed, registered, told, controllerVars,
                   reactorVars, stopVars, failed, calledDeleted, accidents>>

\* register_handler, which may fail: the child is then without a handler.
Register(p) ==
    \/ registered' = [registered EXCEPT ![p] = TRUE] /\ UNCHANGED failed
    \/ failed' = failed \cup {p} /\ UNCHANGED registered

-----------------------------------------------------------------------------
(* The main thread.                                                        *)

\* init of a service.  The reactor does not run yet, so that a child that dies
\* before its handler is registered is not reaped before.  That the handler could
\* not be registered is only logged.
Load(p) ==
    /\ p \notin loaded
    /\ loaded' = loaded \cup {p}
    /\ \/ /\ Spawn(p)
          /\ childProcessPID' = [childProcessPID EXCEPT ![p] = spawns'[p]]
          /\ handler' = [handler EXCEPT ![p] = "made"]
          /\ Register(p)
       \/ /\ failed' = failed \cup {p}
          /\ UNCHANGED <<childVars, childProcessPID, handler>>
    /\ UNCHANGED <<started, counter, hasBeenTerminated, reactorVars, stopVars,
                   calledDeleted, accidents>>

\* initialize creates the reactor thread when all services are loaded.
StartReactor ==
    /\ loaded = Proc /\ ~started
    /\ started' = TRUE
    /\ UNCHANGED <<loaded, childVars, controllerVars, reactorVars, stopVars, failed,
                   calledDeleted, accidents>>

-----------------------------------------------------------------------------
(* The reactor thread.                                                     *)

ReactorHoldsLock == reactor # "idle" /\ ~interrupted
ReactorRuns == Running /\ started /\ ~interrupted

\* The dead child is removed from the table.
Remove(p) ==
    /\ managed' = [managed EXCEPT ![p] = FALSE]
    /\ registered' = [registered EXCEPT ![p] = FALSE]

\* The reactor reaps a dead child and calls its handler, if it has one.  The
\* shutdown that waits for all children holds the lock.
Reap(p) ==
    /\ ReactorRuns /\ reactor = "idle" /\ stop # "wait_all"
    /\ child[p] = "zombie"
    /\ child' = [child EXCEPT ![p] = "none"]
    /\ IF registered[p]
       THEN /\ calledDeleted' = (handler[p] = "deleted")
            /\ reactor' = "exit" /\ dead' = p
            /\ UNCHANGED <<managed, registered>>
       ELSE /\ Remove(p)
            /\ UNCHANGED <<calledDeleted, reactor, dead>>
    /\ UNCHANGED <<loaded, started, spawns, told, controllerVars, interrupted, stopVars,
                   failed, accidents>>

\* mutated: a process is started again however often it has died
HandleExitAlways ==
    /\ ReactorRuns /\ reactor = "exit"
    /\ reactor' = IF hasBeenTerminated[dead] THEN "return" ELSE "spawn"
    /\ counter' = [counter EXCEPT ![dead] = IF @ < MaxDeaths THEN @ + 1 ELSE @]
    /\ UNCHANGED <<loaded, started, childVars, childProcessPID, hasBeenTerminated, handler,
                   dead, interrupted, stopVars, failed, calledDeleted, accidents>>

\* handle_exit tests the flag, then counts the death.  The count is never reset.
HandleExit ==
    /\ ReactorRuns /\ reactor = "exit"
    /\ IF hasBeenTerminated[dead]
       THEN reactor' = "return" /\ UNCHANGED counter
       ELSE /\ counter' = [counter EXCEPT ![dead] = @ + 1]
            /\ reactor' = IF counter'[dead] >= MaxDeaths THEN "return" ELSE "spawn"
    /\ UNCHANGED <<loaded, started, childVars, childProcessPID, hasBeenTerminated, handler,
                   dead, interrupted, stopVars, failed, calledDeleted, accidents>>

\* restartProcess.  If spawn fails nobody tries again.  The entry of the dead
\* child is still in the table beside the new one, and removed on return.
RestartProcess ==
    /\ ReactorRuns /\ reactor = "spawn"
    /\ \/ /\ Spawn(dead)
          /\ registered' = [registered EXCEPT ![dead] = FALSE]
          /\ reactor' = "store"
          /\ UNCHANGED <<childProcessPID, failed>>
       \/ /\ failed' = failed \cup {dead}
          /\ childProcessPID' = [childProcessPID EXCEPT ![dead] = Invalid]
          /\ reactor' = "return"
          /\ UNCHANGED childVars
    /\ UNCHANGED <<loaded, started, counter, hasBeenTerminated, handler, dead, interrupted,
                   stopVars, calledDeleted, accidents>>

StorePid ==
    /\ ReactorRuns /\ reactor = "store"
    /\ childProcessPID' = [childProcessPID EXCEPT ![dead] = spawns[dead]]
    /\ reactor' = "register"
    /\ UNCHANGED <<loaded, started, childVars, counter, hasBeenTerminated, handler, dead,
                   interrupted, stopVars, failed, calledDeleted, accidents>>

\* mutated: the handler is registered when the first child starts only
RegisterNoHandler ==
    /\ ReactorRuns /\ reactor = "register"
    /\ reactor' = "idle" /\ dead' = NoProc
    /\ UNCHANGED <<loaded, started, childVars, controllerVars, interrupted, stopVars,
                   failed, calledDeleted, accidents>>

RegisterHandler ==
    /\ ReactorRuns /\ reactor = "register"
    /\ Register(dead)
    /\ reactor' = "idle" /\ dead' = NoProc
    /\ UNCHANGED <<loaded, started, child, spawns, managed, told, controllerVars, interrupted,
                   stopVars, calledDeleted, accidents>>

\* The handler returns and there is no new child.
Return ==
    /\ ReactorRuns /\ reactor = "return"
    /\ Remove(dead)
    /\ reactor' = "idle" /\ dead' = NoProc
    /\ UNCHANGED <<loaded, started, child, spawns, told, controllerVars, interrupted,
                   stopVars, failed, calledDeleted, accidents>>

-----------------------------------------------------------------------------
(* The shutdown.                                                           *)

ToEnd == {p \in Proc : handler[p] = "made"}

\* The signal handler, on the reactor thread or on another one, closes the
\* service configurator.
CatchShutdownSignal ==
    /\ Running /\ started /\ stop = "no"
    /\ interrupted' \in BOOLEAN
    /\ stop' = "next"
    /\ UNCHANGED <<loaded, started, childVars, controllerVars, reactor, dead, ending, stopPid,
                   failed, calledDeleted, accidents>>

\* fini of one service: it is not to be restarted any more.
Fini(p) ==
    /\ Running /\ stop = "next" /\ p \in ToEnd
    /\ hasBeenTerminated' = [hasBeenTerminated EXCEPT ![p] = TRUE]
    /\ accidents' = IF dead = p /\ reactor \in {"spawn", "store", "register"}
                    THEN accidents \cup {"restart_under_way"} ELSE accidents
    /\ ending' = p /\ stop' = "read"
    /\ UNCHANGED <<loaded, started, childVars, childProcessPID, counter, handler, reactorVars,
                   stopPid, failed, calledDeleted>>

ReadPid ==
    /\ Running /\ stop = "read"
    /\ stopPid' = childProcessPID[ending]
    /\ stop' = "terminate"
    /\ UNCHANGED <<loaded, started, childVars, controllerVars, reactorVars, ending, failed,
                   calledDeleted, accidents>>

IsNewest == stopPid # Invalid /\ stopPid = spawns[ending] /\ managed[ending]

\* mutated: nobody is told
TerminateNobody ==
    /\ Running /\ stop = "terminate" /\ ~ReactorHoldsLock
    /\ stop' = "wait"
    /\ UNCHANGED <<loaded, started, childVars, controllerVars, reactorVars, ending, stopPid,
                   failed, calledDeleted, accidents>>

\* terminate sends SIGINT to the child with this number, if it is in the table.
Terminate ==
    /\ Running /\ stop = "terminate" /\ ~ReactorHoldsLock
    /\ told' = IF IsNewest /\ child[ending] # "none" THEN [told EXCEPT ![ending] = TRUE]
               ELSE told
    /\ stop' = "wait"
    /\ UNCHANGED <<loaded, started, child, spawns, managed, registered, controllerVars,
                   reactorVars, ending, stopPid, failed, calledDeleted, accidents>>

\* mutated: fini does not wait for the exit
WaitForNothing ==
    /\ Running /\ stop = "wait"
    /\ stop' = "delete"
    /\ UNCHANGED <<loaded, started, childVars, controllerVars, reactorVars, ending, stopPid,
                   failed, calledDeleted, accidents>>

\* wait for the child: it is dead, or there is no such child any more, or the
\* time passes.
WaitForChild ==
    /\ Running /\ stop = "wait"
    /\ \/ /\ IsNewest /\ child[ending] = "zombie"
          /\ child' = [child EXCEPT ![ending] = "none"]
          /\ stop' = "reaped"
          /\ UNCHANGED accidents
       \/ /\ ~IsNewest \/ child[ending] = "none"
          /\ ~ReactorHoldsLock
          /\ stop' = "delete"
          /\ UNCHANGED <<child, accidents>>
       \/ /\ IsNewest /\ child[ending] = "running" /\ ~ReactorHoldsLock
          /\ accidents' = accidents \cup {"outlived_fini"}
          /\ stop' = "delete"
          /\ UNCHANGED child
    /\ UNCHANGED <<loaded, started, spawns, managed, registered, told, controllerVars,
                   reactorVars, ending, stopPid, failed, calledDeleted>>

\* The handler of the child is called, and does nothing as it was terminated.
Reaped ==
    /\ Running /\ stop = "reaped" /\ ~ReactorHoldsLock
    /\ Remove(ending)
    /\ stop' = "delete"
    /\ UNCHANGED <<loaded, started, child, spawns, told, controllerVars, reactorVars, ending,
                   stopPid, failed, calledDeleted, accidents>>

\* The service configurator deletes the controller, and with it the handler.
Delete ==
    /\ Running /\ stop = "delete"
    /\ handler' = [handler EXCEPT ![ending] = "deleted"]
    /\ stop' = "next" /\ ending' = NoProc /\ stopPid' = Invalid
    /\ UNCHANGED <<loaded, started, childVars, childProcessPID, counter, hasBeenTerminated,
                   reactorVars, failed, calledDeleted, accidents>>

\* wait of the process manager, for as long as there are children in the table.
CloseDone ==
    /\ Running /\ stop = "next" /\ ToEnd = {} /\ ~ReactorHoldsLock
    /\ stop' = "wait_all"
    /\ UNCHANGED <<loaded, started, childVars, controllerVars, reactorVars, ending, stopPid,
                   failed, calledDeleted, accidents>>

WaitForAny(p) ==
    /\ Running /\ stop = "wait_all"
    /\ child[p] = "zombie"
    /\ child' = [child EXCEPT ![p] = "none"]
    /\ calledDeleted' = registered[p]
    /\ Remove(p)
    /\ UNCHANGED <<loaded, started, spawns, told, controllerVars, reactorVars, stopVars,
                   failed, accidents>>

\* There is no child to wait for, and the process ends.
TerminateProcess ==
    /\ Running /\ stop = "wait_all"
    /\ \A p \in Proc : child[p] = "none"
    /\ stop' = "ended"
    /\ UNCHANGED <<loaded, started, childVars, controllerVars, reactorVars, ending, stopPid,
                   failed, calledDeleted, accidents>>

MainStep == StartReactor \/ \E p \in Proc : Load(p)
ReactorStep == HandleExit \/ RestartProcess \/ StorePid \/ RegisterHandler \/ Return
                 \/ \E p \in Proc : Reap(p)
StopStep == ReadPid \/ Terminate \/ WaitForChild \/ Reaped \/ Delete \/ CloseDone
              \/ TerminateProcess \/ \E p \in Proc : Fini(p) \/ WaitForAny(p)

Next == MainStep \/ ReactorStep \/ CatchShutdownSignal \/ StopStep \/ \E p \in Proc : Die(p)

Spec == Init /\ [][Next]_vars

\* The threads run, and a child that is told to stop does.
FairSpec == /\ Spec
            /\ WF_vars(MainStep) /\ WF_vars(ReactorStep) /\ WF_vars(StopStep)
            /\ \A p \in Proc : WF_vars(told[p] /\ Die(p))

-----------------------------------------------------------------------------
(* Properties.                                                             *)

\* The controller of a service, and with it its handler, is deleted after fini.
\* The handler is not called after that, nor is the reactor thread in it, unless
\* the child outlived the wait of fini or a restart was under way
\* (ProcessController.cpp:186-221, ProcessDeathHandler.cpp:79-122).
DeletedHandlerIsNotUsed ==
    calledDeleted \/ (ReactorHoldsLock /\ handler[dead] = "deleted") => accidents # {}

\* The process manager does not end before all children have
\* (ProcessManager.cpp:137-167).
NoChildLeft == stop = "ended" => \A p \in Proc : child[p] = "none"

\* A process that dies is started again, unless it died for the third time, its
\* spawn or the registration of its handler failed, or the shutdown began
\* (ProcessDeathHandler.cpp:97-120).
DeadAreRestarted ==
    \A p \in Proc : []<>(\/ child[p] = "running"
                         \/ counter[p] = MaxDeaths
                         \/ p \in failed
                         \/ stop # "no")

\* A process that died often is not started again: it has at most MaxDeaths
\* children, one of which at most was not counted when it died.
RestartsAreBounded ==
    \A p \in Proc : spawns[p] <= counter[p] + 1 /\ counter[p] <= MaxDeaths

\* The shutdown comes to an end, unless a restart was under way: the new child
\* is not told to stop, and the process manager waits for it for ever.
ShutdownEnds ==
    []<>(stop # "no" => stop = "ended" \/ calledDeleted \/ "restart_under_way" \in accidents)

\* Why the last two hold: the handler of a process is called when its child is
\* dead, and only then, and a process with a child has been started less than
\* MaxDeaths times since its first start.
DeathsAreCounted ==
    /\ \A p \in Proc : child[p] # "none" => counter[p] < MaxDeaths
    /\ \A p \in Proc : p \notin loaded => child[p] = "none" /\ spawns[p] = 0 /\ counter[p] = 0
    /\ reactor # "idle" => dead \in Proc
    /\ reactor \in {"exit", "spawn"} => counter[dead] < MaxDeaths
    /\ reactor \in {"exit", "spawn", "return"} => child[dead] = "none"
    /\ reactor = "spawn" => spawns[dead] <= counter[dead]

\* Nothing is reaped, and no signal is caught, before all services are loaded.
LoadedFirst ==
    /\ reactor # "idle" \/ stop # "no" => started
    /\ started => loaded = Proc
    /\ stop \in {"read", "terminate", "wait", "reaped", "delete"} => ending \in Proc

\* The handler of a process is there from its first start on, and fini marks
\* the process before anything else.
HandlersAreMade ==
    /\ \A p \in Proc : registered[p] => handler[p] # "none"
    /\ reactor # "idle" => handler[dead] # "none"
    /\ stop \in {"read", "terminate", "wait", "reaped", "delete"} => hasBeenTerminated[ending]
    /\ stop \in {"wait_all", "ended"} => \A p \in Proc : handler[p] # "made"

\* There is no child whose death could lead to the handler, and the reactor is
\* not in it.
Gone(p) == child[p] = "none" /\ ~(ReactorHoldsLock /\ dead = p)

\* Why no deleted handler is used: without an accident fini knows the number of
\* the child, and no restart of a process is under way after its fini began.
ChildrenAreKnown ==
    /\ \A p \in Proc : child[p] # "none" =>
          /\ managed[p] /\ spawns[p] > 0
          /\ (reactor = "store" /\ dead = p) \/ childProcessPID[p] = spawns[p]
    /\ stop \in {"terminate", "wait"} => stopPid = childProcessPID[ending]
    /\ reactor \in {"spawn", "store", "register"} => ~hasBeenTerminated[dead]

DeletedAreGone ==
    /\ ~calledDeleted
    /\ interrupted => stop # "no"
    /\ stop = "reaped" => child[ending] = "none"
    /\ stop = "delete" => Gone(ending)
    /\ \A p \in Proc : handler[p] = "deleted" => Gone(p)

\* The inductive invariant of ProcessManagerProofs.
DeathsInv ==
    /\ TypeOK
    /\ NoChildLeft
    /\ RestartsAreBounded
    /\ DeathsAreCounted
    /\ LoadedFirst

IInv ==
    /\ DeathsInv
    /\ HandlersAreMade
    /\ accidents = {} => ChildrenAreKnown /\ DeletedAreGone
===============================================================================
