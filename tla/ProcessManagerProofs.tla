------------------------ MODULE ProcessManagerProofs ------------------------
(* What holds of ProcessManager for any number of services, wherever a     *)
(* child dies, a spawn fails or the signal to shut down comes; of one of   *)
(* the processes it starts, LogProcessor, for any number of processes that *)
(* log, of files that are kept and of logs in a file, wherever it ends and *)
(* whatever fails; and of the threads of a process, ThreadManager, for any *)
(* functions, pools and thread ids, whatever dies or fails to start.  They *)
(* have nothing in common but this module.                                 *)
EXTENDS ProcessManager, LogProcessor, ThreadManager, FiniteSetTheorems,
        SequenceTheorems, TLAPS

(* The types of three kinds of variables, for which the provers need       *)
(* different means.                                                        *)
Names ==
    /\ loaded \subseteq Proc
    /\ child \in [Proc -> {"none", "running", "zombie"}]
    /\ handler \in [Proc -> {"none", "made", "deleted"}]
    /\ reactor \in {"idle", "exit", "spawn", "store", "register", "return"}
    /\ dead \in Proc \cup {NoProc}
    /\ stop \in {"no", "next", "read", "terminate", "wait", "reaped", "delete",
                 "wait_all", "ended"}
    /\ ending \in Proc \cup {NoProc}
    /\ failed \subseteq Proc
    /\ accidents \subseteq {"restart_under_way", "outlived_fini"}
Flags ==
    /\ started \in BOOLEAN /\ interrupted \in BOOLEAN /\ calledDeleted \in BOOLEAN
    /\ managed \in [Proc -> BOOLEAN]
    /\ registered \in [Proc -> BOOLEAN]
    /\ told \in [Proc -> BOOLEAN]
    /\ hasBeenTerminated \in [Proc -> BOOLEAN]
Numbers ==
    /\ spawns \in [Proc -> Pid]
    /\ childProcessPID \in [Proc -> Pid]
    /\ counter \in [Proc -> 0 .. MaxDeaths]
    /\ stopPid \in Pid

LEMMA TypeSplits ==
    /\ TypeOK <=> Names /\ Flags /\ Numbers
    /\ TypeOK' <=> Names' /\ Flags' /\ Numbers'
  BY DEF TypeOK, Names, Flags, Numbers

(* What the steps that count, spawn and reap rest on.                      *)
LEMMA NumbersAre ==
    ASSUME Numbers, NEW p \in Proc
    PROVE  /\ counter[p] \in Nat /\ counter[p] <= MaxDeaths
           /\ spawns[p] \in Nat /\ spawns[p] <= MaxDeaths
  BY DEF Numbers, Pid

(* A step that counts nothing, spawns nothing and calls no handler.        *)
LEMMA ChildrenOnlyEnd ==
    ASSUME DeathsAreCounted, UNCHANGED <<loaded, spawns, counter, reactor, dead>>,
           \A p \in Proc : child[p] = "none" => child'[p] = "none"
    PROVE  DeathsAreCounted'
  BY DEF DeathsAreCounted

(* The steps of main: a service that is loaded had no child before.        *)
LEMMA MainKeeps == ASSUME DeathsInv, MainStep PROVE DeathsInv'
<1> USE TypeSplits
    DEF DeathsInv, MaxDeaths, childVars, controllerVars, reactorVars, stopVars
<1>1. CASE StartReactor
  <2>1. Names'
    BY <1>1 DEF StartReactor, Names
  <2>2. Flags'
    BY <1>1 DEF StartReactor, Flags
  <2>3. Numbers'
    BY <1>1 DEF StartReactor, Numbers
  <2>4. NoChildLeft' /\ RestartsAreBounded'
    BY <1>1 DEF StartReactor, NoChildLeft, RestartsAreBounded
  <2>5. DeathsAreCounted'
    BY <1>1 DEF StartReactor, DeathsAreCounted
  <2>6. LoadedFirst'
    BY <1>1 DEF StartReactor, LoadedFirst
  <2> QED BY <2>1, <2>2, <2>3, <2>4, <2>5, <2>6
<1>2. ASSUME NEW p \in Proc, Load(p) PROVE DeathsInv'
  <2>b. /\ stop = "no" /\ reactor = "idle" /\ spawns[p] = 0 /\ counter[p] \in Nat
        /\ child[p] = "none" /\ counter[p] < MaxDeaths
    BY <1>2 DEF Load, DeathsAreCounted, LoadedFirst
  <2>a. /\ \A q \in Proc \ {p} : spawns'[q] = spawns[q] /\ child'[q] = child[q]
        /\ spawns'[p] \in {0, 1}
        /\ \A q \in Proc : counter[q] \in Nat /\ spawns[q] \in Nat
    <3>1. \A q \in Proc \ {p} : spawns'[q] = spawns[q] /\ child'[q] = child[q]
      BY <1>2 DEF Load, Spawn, Numbers, Names
    <3>2. spawns'[p] \in {0, 1}
      BY <1>2, <2>b DEF Load, Spawn, Numbers
    <3> QED BY <3>1, <3>2, NumbersAre
  <2>1. Names'
    BY <1>2 DEF Load, Spawn, Register, Names
  <2>2. Flags'
    BY <1>2 DEF Load, Spawn, Register, Flags
  <2>3. Numbers'
    BY <1>2 DEF Load, Spawn, Numbers, Pid, DeathsAreCounted
  <2>4. NoChildLeft' /\ RestartsAreBounded'
    BY <2>b, <2>a, <1>2 DEF Load, NoChildLeft, RestartsAreBounded
  <2>5. DeathsAreCounted'
    BY <2>b, <2>a, <1>2 DEF Load, DeathsAreCounted
  <2>6. LoadedFirst'
    BY <1>2 DEF Load, LoadedFirst
  <2> QED BY <2>1, <2>2, <2>3, <2>4, <2>5, <2>6
<1> QED BY <1>1, <1>2 DEF MainStep

(* The steps of the reactor thread.  The death that is counted is that of a*)
(* process which has no child, so that no child is left of one that is     *)
(* given up, and only a process with less than MaxDeaths is spawned.       *)
LEMMA ReactorKeeps == ASSUME DeathsInv, ReactorStep PROVE DeathsInv'
<1> USE TypeSplits
    DEF DeathsInv, MaxDeaths, Invalid, childVars, controllerVars, stopVars, ReactorRuns, Running
<1>1. CASE HandleExit
  <2>b. /\ dead \in Proc /\ child[dead] = "none" /\ counter[dead] < MaxDeaths
        /\ counter' \in {counter, [counter EXCEPT ![dead] = counter[dead] + 1]}
    BY <1>1 DEF HandleExit, DeathsAreCounted
  <2>a. /\ \A q \in Proc \ {dead} : counter'[q] = counter[q]
        /\ counter'[dead] \in {counter[dead], counter[dead] + 1}
        /\ reactor' = "spawn" =>
              counter'[dead] = counter[dead] + 1 /\ counter'[dead] < MaxDeaths
        /\ reactor' \in {"spawn", "return"}
        /\ \A q \in Proc : counter[q] \in Nat /\ spawns[q] \in Nat
    BY <1>1, <2>b, NumbersAre DEF Numbers, HandleExit
  <2>1. Names'
    BY <1>1 DEF HandleExit, Names
  <2>2. Flags'
    BY <1>1 DEF HandleExit, Flags
  <2>3. Numbers'
    BY <1>1 DEF HandleExit, Numbers, DeathsAreCounted
  <2>4. NoChildLeft' /\ RestartsAreBounded'
    BY <2>b, <2>a, <1>1 DEF HandleExit, NoChildLeft, RestartsAreBounded
  <2>5. DeathsAreCounted'
    <3>1. \A q \in Proc : child'[q] # "none" => counter'[q] < MaxDeaths
      BY <2>a, <1>1 DEF HandleExit, DeathsAreCounted
    <3>2. reactor' = "spawn" => spawns'[dead] <= counter'[dead]
      BY <2>b, <2>a, <1>1 DEF HandleExit, RestartsAreBounded
    <3>3. loaded' = Proc
      BY <1>1 DEF HandleExit, LoadedFirst
    <3> HIDE DEF MaxDeaths
    <3> QED BY <2>a, <3>2, <3>3, <1>1 DEF HandleExit, DeathsAreCounted
  <2>6. LoadedFirst'
    BY <1>1 DEF HandleExit, LoadedFirst
  <2> QED BY <2>1, <2>2, <2>3, <2>4, <2>5, <2>6
<1>2. CASE RestartProcess
  <2>b. /\ dead \in Proc /\ counter[dead] < MaxDeaths /\ spawns[dead] <= counter[dead]
        /\ stop # "ended" /\ loaded = Proc
    BY <1>2 DEF RestartProcess, DeathsAreCounted, LoadedFirst
  <2>a. /\ \A q \in Proc \ {dead} : spawns'[q] = spawns[q] /\ child'[q] = child[q]
        /\ \/ spawns'[dead] = spawns[dead] + 1 /\ reactor' = "store"
           \/ UNCHANGED <<spawns, child>> /\ reactor' = "return"
        /\ \A q \in Proc : counter[q] \in Nat /\ spawns[q] \in Nat
    BY <1>2, <2>b, NumbersAre DEF RestartProcess, Spawn, Numbers, Names
  <2>1. Names'
    BY <1>2 DEF RestartProcess, Spawn, Names, DeathsAreCounted
  <2>2. Flags'
    BY <1>2 DEF RestartProcess, Spawn, Flags
  <2>3. Numbers'
    BY <1>2 DEF RestartProcess, Spawn, Numbers, Pid, DeathsAreCounted
  <2>4. NoChildLeft' /\ RestartsAreBounded'
    BY <2>b, <2>a, <1>2 DEF RestartProcess, NoChildLeft, RestartsAreBounded
  <2>5. DeathsAreCounted'
    BY <2>b, <2>a, <1>2, LoadedFirst DEF RestartProcess, DeathsAreCounted
  <2>6. LoadedFirst'
    BY <1>2 DEF RestartProcess, LoadedFirst
  <2> QED BY <2>1, <2>2, <2>3, <2>4, <2>5, <2>6
<1>3. CASE StorePid
  <2>1. Names'
    BY <1>3 DEF StorePid, Names
  <2>2. Flags'
    BY <1>3 DEF StorePid, Flags
  <2>3. Numbers'
    BY <1>3 DEF StorePid, Numbers
  <2>4. NoChildLeft' /\ RestartsAreBounded'
    BY <1>3 DEF StorePid, NoChildLeft, RestartsAreBounded
  <2>5. DeathsAreCounted'
    BY <1>3 DEF StorePid, DeathsAreCounted
  <2>6. LoadedFirst'
    BY <1>3 DEF StorePid, LoadedFirst
  <2> QED BY <2>1, <2>2, <2>3, <2>4, <2>5, <2>6
<1>4. CASE RegisterHandler
  <2>1. Names'
    BY <1>4 DEF RegisterHandler, Register, Names, DeathsAreCounted
  <2>2. Flags'
    BY <1>4 DEF RegisterHandler, Register, Flags
  <2>3. Numbers'
    BY <1>4 DEF RegisterHandler, Numbers
  <2>4. NoChildLeft' /\ RestartsAreBounded'
    BY <1>4 DEF RegisterHandler, NoChildLeft, RestartsAreBounded
  <2>5. DeathsAreCounted'
    BY <1>4 DEF RegisterHandler, DeathsAreCounted
  <2>6. LoadedFirst'
    BY <1>4 DEF RegisterHandler, LoadedFirst
  <2> QED BY <2>1, <2>2, <2>3, <2>4, <2>5, <2>6
<1>5. CASE Return
  <2>1. Names'
    BY <1>5 DEF Return, Names
  <2>2. Flags'
    BY <1>5 DEF Return, Remove, Flags
  <2>3. Numbers'
    BY <1>5 DEF Return, Numbers
  <2>4. NoChildLeft' /\ RestartsAreBounded'
    BY <1>5 DEF Return, NoChildLeft, RestartsAreBounded
  <2>5. DeathsAreCounted'
    BY <1>5 DEF Return, DeathsAreCounted
  <2>6. LoadedFirst'
    BY <1>5 DEF Return, LoadedFirst
  <2> QED BY <2>1, <2>2, <2>3, <2>4, <2>5, <2>6
<1>6. ASSUME NEW p \in Proc, Reap(p) PROVE DeathsInv'
  <2>1. Names'
    BY <1>6 DEF Reap, Names
  <2>2. Flags'
    BY <1>6 DEF Reap, Remove, Flags
  <2>3. Numbers'
    BY <1>6 DEF Reap, Numbers
  <2>4. NoChildLeft' /\ RestartsAreBounded'
    BY <1>6 DEF Reap, NoChildLeft, RestartsAreBounded
  <2>5. DeathsAreCounted'
    <3>1. \A q \in Proc : child'[q] = IF q = p THEN "none" ELSE child[q]
      BY <1>6 DEF Reap, Names
    <3>2. counter[p] < MaxDeaths /\ reactor = "idle" /\ p \in Proc
      BY <1>6 DEF Reap, DeathsAreCounted
    <3>3. \/ reactor' = "exit" /\ dead' = p
          \/ reactor' = "idle"
      BY <1>6 DEF Reap
    <3> QED BY <1>6, <3>1 DEF Reap, DeathsAreCounted
  <2>6. LoadedFirst'
    BY <1>6 DEF Reap, LoadedFirst
  <2> QED BY <2>1, <2>2, <2>3, <2>4, <2>5, <2>6
<1> QED BY <1>1, <1>2, <1>3, <1>4, <1>5, <1>6 DEF ReactorStep

(* The steps of the shutdown: the last one sees that no child is left.     *)
LEMMA ShutdownKeeps == ASSUME DeathsInv, CatchShutdownSignal \/ StopStep PROVE DeathsInv'
<1> USE TypeSplits
    DEF DeathsInv, MaxDeaths, Invalid, childVars, controllerVars, reactorVars, stopVars, Running
<1>1. CASE CatchShutdownSignal
  <2>1. Names'
    BY <1>1 DEF CatchShutdownSignal, Names
  <2>2. Flags'
    BY <1>1 DEF CatchShutdownSignal, Flags
  <2>3. Numbers'
    BY <1>1 DEF CatchShutdownSignal, Numbers
  <2>4. NoChildLeft' /\ RestartsAreBounded'
    BY <1>1 DEF CatchShutdownSignal, NoChildLeft, RestartsAreBounded
  <2>5. DeathsAreCounted'
    BY <1>1 DEF CatchShutdownSignal, DeathsAreCounted
  <2>6. LoadedFirst'
    BY <1>1 DEF CatchShutdownSignal, LoadedFirst
  <2> QED BY <2>1, <2>2, <2>3, <2>4, <2>5, <2>6
<1>2. ASSUME NEW p \in Proc, Fini(p) PROVE DeathsInv'
  <2>1. Names'
    BY <1>2 DEF Fini, Names
  <2>2. Flags'
    BY <1>2 DEF Fini, Flags
  <2>3. Numbers'
    BY <1>2 DEF Fini, Numbers
  <2>4. NoChildLeft' /\ RestartsAreBounded'
    BY <1>2 DEF Fini, NoChildLeft, RestartsAreBounded
  <2>5. DeathsAreCounted'
    BY <1>2 DEF Fini, DeathsAreCounted
  <2>6. LoadedFirst'
    BY <1>2 DEF Fini, LoadedFirst
  <2> QED BY <2>1, <2>2, <2>3, <2>4, <2>5, <2>6
<1>3. CASE ReadPid
  <2>1. Names'
    BY <1>3 DEF ReadPid, Names
  <2>2. Flags'
    BY <1>3 DEF ReadPid, Flags
  <2>3. Numbers'
    BY <1>3 DEF ReadPid, Numbers, LoadedFirst
  <2>4. NoChildLeft' /\ RestartsAreBounded'
    BY <1>3 DEF ReadPid, NoChildLeft, RestartsAreBounded
  <2>5. DeathsAreCounted'
    BY <1>3 DEF ReadPid, DeathsAreCounted
  <2>6. LoadedFirst'
    BY <1>3 DEF ReadPid, LoadedFirst
  <2> QED BY <2>1, <2>2, <2>3, <2>4, <2>5, <2>6
<1>4. CASE Terminate
  <2>1. Names'
    BY <1>4 DEF Terminate, Names
  <2>2. Flags'
    BY <1>4 DEF Terminate, Flags
  <2>3. Numbers'
    BY <1>4 DEF Terminate, Numbers
  <2>4. NoChildLeft' /\ RestartsAreBounded'
    BY <1>4 DEF Terminate, NoChildLeft, RestartsAreBounded
  <2>5. DeathsAreCounted'
    BY <1>4 DEF Terminate, DeathsAreCounted
  <2>6. LoadedFirst'
    BY <1>4 DEF Terminate, LoadedFirst
  <2> QED BY <2>1, <2>2, <2>3, <2>4, <2>5, <2>6
<1>5. CASE WaitForChild
  <2>1. Names'
    BY <1>5 DEF WaitForChild, Names
  <2>2. Flags'
    BY <1>5 DEF WaitForChild, Flags
  <2>3. Numbers'
    BY <1>5 DEF WaitForChild, Numbers
  <2>4. NoChildLeft' /\ RestartsAreBounded'
    BY <1>5 DEF WaitForChild, NoChildLeft, RestartsAreBounded
  <2>5. DeathsAreCounted'
    <3>1. \A q \in Proc : child[q] = "none" => child'[q] = "none"
      BY <1>5 DEF WaitForChild, Names
    <3> QED BY <1>5, <3>1, ChildrenOnlyEnd DEF WaitForChild
  <2>6. LoadedFirst'
    BY <1>5 DEF WaitForChild, LoadedFirst
  <2> QED BY <2>1, <2>2, <2>3, <2>4, <2>5, <2>6
<1>6. CASE Reaped
  <2>1. Names'
    BY <1>6 DEF Reaped, Names
  <2>2. Flags'
    BY <1>6 DEF Reaped, Remove, Flags
  <2>3. Numbers'
    BY <1>6 DEF Reaped, Numbers
  <2>4. NoChildLeft' /\ RestartsAreBounded'
    BY <1>6 DEF Reaped, NoChildLeft, RestartsAreBounded
  <2>5. DeathsAreCounted'
    BY <1>6 DEF Reaped, DeathsAreCounted
  <2>6. LoadedFirst'
    BY <1>6 DEF Reaped, LoadedFirst
  <2> QED BY <2>1, <2>2, <2>3, <2>4, <2>5, <2>6
<1>7. CASE Delete
  <2>1. Names'
    BY <1>7 DEF Delete, Names
  <2>2. Flags'
    BY <1>7 DEF Delete, Flags
  <2>3. Numbers'
    BY <1>7 DEF Delete, Numbers, Pid
  <2>4. NoChildLeft' /\ RestartsAreBounded'
    BY <1>7 DEF Delete, NoChildLeft, RestartsAreBounded
  <2>5. DeathsAreCounted'
    BY <1>7 DEF Delete, DeathsAreCounted
  <2>6. LoadedFirst'
    BY <1>7 DEF Delete, LoadedFirst
  <2> QED BY <2>1, <2>2, <2>3, <2>4, <2>5, <2>6
<1>8. CASE CloseDone
  <2>1. Names'
    BY <1>8 DEF CloseDone, Names
  <2>2. Flags'
    BY <1>8 DEF CloseDone, Flags
  <2>3. Numbers'
    BY <1>8 DEF CloseDone, Numbers
  <2>4. NoChildLeft' /\ RestartsAreBounded'
    BY <1>8 DEF CloseDone, NoChildLeft, RestartsAreBounded
  <2>5. DeathsAreCounted'
    BY <1>8 DEF CloseDone, DeathsAreCounted
  <2>6. LoadedFirst'
    BY <1>8 DEF CloseDone, LoadedFirst
  <2> QED BY <2>1, <2>2, <2>3, <2>4, <2>5, <2>6
<1>9. ASSUME NEW p \in Proc, WaitForAny(p) PROVE DeathsInv'
  <2>1. Names'
    BY <1>9 DEF WaitForAny, Names
  <2>2. Flags'
    BY <1>9 DEF WaitForAny, Remove, Flags
  <2>3. Numbers'
    BY <1>9 DEF WaitForAny, Numbers
  <2>4. NoChildLeft' /\ RestartsAreBounded'
    BY <1>9 DEF WaitForAny, NoChildLeft, RestartsAreBounded
  <2>5. DeathsAreCounted'
    <3>1. \A q \in Proc : child[q] = "none" => child'[q] = "none"
      BY <1>9 DEF WaitForAny, Names
    <3> QED BY <1>9, <3>1, ChildrenOnlyEnd DEF WaitForAny
  <2>6. LoadedFirst'
    BY <1>9 DEF WaitForAny, LoadedFirst
  <2> QED BY <2>1, <2>2, <2>3, <2>4, <2>5, <2>6
<1>10. CASE TerminateProcess
  <2>1. Names'
    BY <1>10 DEF TerminateProcess, Names
  <2>2. Flags'
    BY <1>10 DEF TerminateProcess, Flags
  <2>3. Numbers'
    BY <1>10 DEF TerminateProcess, Numbers
  <2>4. NoChildLeft' /\ RestartsAreBounded'
    BY <1>10 DEF TerminateProcess, NoChildLeft, RestartsAreBounded
  <2>5. DeathsAreCounted'
    BY <1>10 DEF TerminateProcess, DeathsAreCounted
  <2>6. LoadedFirst'
    BY <1>10 DEF TerminateProcess, LoadedFirst
  <2> QED BY <2>1, <2>2, <2>3, <2>4, <2>5, <2>6
<1> QED
  BY <1>1, <1>2, <1>3, <1>4, <1>5, <1>6, <1>7, <1>8, <1>9, <1>10 DEF StopStep

LEMMA StepKeeps == ASSUME DeathsInv, [Next]_vars PROVE DeathsInv'
<1> USE TypeSplits
    DEF DeathsInv, MaxDeaths, childVars, controllerVars, reactorVars, stopVars
<1>1. CASE UNCHANGED vars
  <2>1. Names'
    BY <1>1 DEF vars, Names
  <2>2. Flags'
    BY <1>1 DEF vars, Flags
  <2>3. Numbers'
    BY <1>1 DEF vars, Numbers
  <2>4. NoChildLeft' /\ RestartsAreBounded'
    BY <1>1 DEF vars, NoChildLeft, RestartsAreBounded
  <2>5. DeathsAreCounted'
    BY <1>1 DEF vars, DeathsAreCounted
  <2>6. LoadedFirst'
    BY <1>1 DEF vars, LoadedFirst
  <2> QED BY <2>1, <2>2, <2>3, <2>4, <2>5, <2>6
<1>2. ASSUME NEW p \in Proc, Die(p) PROVE DeathsInv'
  <2>1. Names'
    BY <1>2 DEF Die, Names
  <2>2. Flags'
    BY <1>2 DEF Die, Flags
  <2>3. Numbers'
    BY <1>2 DEF Die, Numbers
  <2>4. NoChildLeft' /\ RestartsAreBounded'
    BY <1>2 DEF Die, NoChildLeft, RestartsAreBounded
  <2>5. DeathsAreCounted'
    <3>1. \A q \in Proc : child[q] = "none" => child'[q] = "none"
      BY <1>2 DEF Die
    <3> QED BY <1>2, ChildrenOnlyEnd DEF Die
  <2>6. LoadedFirst'
    BY <1>2 DEF Die, LoadedFirst
  <2> QED BY <2>1, <2>2, <2>3, <2>4, <2>5, <2>6
<1> QED BY <1>1, <1>2, MainKeeps, ReactorKeeps, ShutdownKeeps DEF Next

(* The steps, without the threads that take them.                          *)
LEMMA Actions ==
    ASSUME [Next]_vars
    PROVE  \/ UNCHANGED vars
           \/ StartReactor \/ HandleExit \/ RestartProcess \/ StorePid \/ RegisterHandler
           \/ Return \/ CatchShutdownSignal \/ ReadPid \/ Terminate \/ WaitForChild
           \/ Reaped \/ Delete \/ CloseDone \/ TerminateProcess
           \/ \E p \in Proc : Load(p) \/ Reap(p) \/ Fini(p) \/ WaitForAny(p) \/ Die(p)
  BY DEF Next, MainStep, ReactorStep, StopStep

(* An accident is not forgotten.                                           *)
LEMMA AccidentsStay == ASSUME [Next]_vars, accidents' = {} PROVE accidents = {}
<1>1. ASSUME NEW p \in Proc, Load(p) \/ Reap(p) \/ Fini(p) \/ WaitForAny(p) \/ Die(p)
      PROVE  accidents = {}
  BY <1>1 DEF Load, Reap, Fini, WaitForAny, Die
<1> QED
  BY <1>1, Actions
  DEF vars, StartReactor, HandleExit, RestartProcess, StorePid, RegisterHandler, Return,
      CatchShutdownSignal, ReadPid, Terminate, WaitForChild, Reaped, Delete, CloseDone,
      TerminateProcess

(* A handler is made before it is registered, and deleted but not unmade.  *)
LEMMA HandlersStayMade ==
    ASSUME IInv, [Next]_vars
    PROVE  HandlersAreMade'
<1> USE TypeSplits
    DEF IInv, DeathsInv, Running, ReactorRuns, childVars, controllerVars, reactorVars, stopVars
<1>1. CASE UNCHANGED vars
  BY <1>1 DEF vars, HandlersAreMade, DeathsAreCounted, LoadedFirst
<1>2. CASE StartReactor
  BY <1>2 DEF StartReactor, HandlersAreMade, DeathsAreCounted, LoadedFirst
<1>3. CASE HandleExit
  BY <1>3 DEF HandleExit, HandlersAreMade, DeathsAreCounted, LoadedFirst
<1>4. CASE RestartProcess
  <2>1. \A q \in Proc : registered'[q] => registered[q]
    BY <1>4 DEF RestartProcess, Flags, DeathsAreCounted
  <2> QED BY <1>4, <2>1 DEF RestartProcess, HandlersAreMade
<1>5. CASE StorePid
  BY <1>5 DEF StorePid, HandlersAreMade, DeathsAreCounted, LoadedFirst
<1>6. CASE RegisterHandler
  <2>1. \A q \in Proc : registered'[q] => registered[q] \/ q = dead
    BY <1>6 DEF RegisterHandler, Register, Flags
  <2> QED BY <1>6, <2>1 DEF RegisterHandler, HandlersAreMade
<1>7. CASE Return
  <2>1. \A q \in Proc : registered'[q] => registered[q]
    BY <1>7 DEF Return, Remove, Flags
  <2> QED BY <1>7, <2>1 DEF Return, HandlersAreMade
<1>8. CASE CatchShutdownSignal
  BY <1>8 DEF CatchShutdownSignal, HandlersAreMade, DeathsAreCounted, LoadedFirst
<1>9. CASE ReadPid
  BY <1>9 DEF ReadPid, HandlersAreMade, DeathsAreCounted, LoadedFirst
<1>10. CASE Terminate
  BY <1>10 DEF Terminate, HandlersAreMade, DeathsAreCounted, LoadedFirst
<1>11. CASE WaitForChild
  BY <1>11 DEF WaitForChild, HandlersAreMade, DeathsAreCounted, LoadedFirst
<1>12. CASE Reaped
  <2>1. \A q \in Proc : registered'[q] => registered[q]
    BY <1>12 DEF Reaped, Remove, Flags
  <2> QED BY <1>12, <2>1 DEF Reaped, HandlersAreMade
<1>13. CASE Delete
  <2>1. \A q \in Proc : handler'[q] = IF q = ending THEN "deleted" ELSE handler[q]
    BY <1>13 DEF Delete, Names
  <2> QED BY <1>13, <2>1 DEF Delete, HandlersAreMade, DeathsAreCounted
<1>14. CASE CloseDone
  BY <1>14 DEF CloseDone, ToEnd, HandlersAreMade
<1>15. CASE TerminateProcess
  BY <1>15 DEF TerminateProcess, HandlersAreMade, DeathsAreCounted, LoadedFirst
<1>16. ASSUME NEW p \in Proc, Load(p) PROVE HandlersAreMade'
  <2>1. stop = "no" /\ reactor = "idle"
    BY <1>16 DEF Load, LoadedFirst
  <2>2. \A q \in Proc \ {p} : handler'[q] = handler[q] /\ registered'[q] = registered[q]
    <3>1. handler' = [handler EXCEPT ![p] = "made"] \/ handler' = handler
      BY <1>16 DEF Load
    <3>2. registered' = [registered EXCEPT ![p] = TRUE] \/ registered' = registered
      BY <1>16 DEF Load, Register
    <3>3. \A q \in Proc \ {p} : handler'[q] = handler[q]
      BY <3>1 DEF Names
    <3>4. \A q \in Proc \ {p} : registered'[q] = registered[q]
      BY <3>2 DEF Flags
    <3> QED BY <3>3, <3>4
  <2>3. handler'[p] = "made" \/ (handler'[p] = handler[p] /\ registered'[p] = registered[p])
    BY <1>16 DEF Load, Names
  <2>4. \A q \in Proc : registered'[q] => handler'[q] # "none"
    BY <2>2, <2>3 DEF HandlersAreMade
  <2> QED BY <1>16, <2>1, <2>4 DEF Load, HandlersAreMade
<1>17. ASSUME NEW p \in Proc, Reap(p) PROVE HandlersAreMade'
  <2>1. \A q \in Proc : registered'[q] => registered[q]
    BY <1>17 DEF Reap, Remove, Flags
  <2>2. reactor' # "idle" => dead' = p /\ registered[p]
    BY <1>17 DEF Reap
  <2> QED BY <1>17, <2>1, <2>2 DEF Reap, HandlersAreMade
<1>18. ASSUME NEW p \in Proc, Fini(p) PROVE HandlersAreMade'
  <2>1. hasBeenTerminated'[p]
    BY <1>18 DEF Fini, Flags
  <2> QED BY <1>18, <2>1 DEF Fini, HandlersAreMade
<1>19. ASSUME NEW p \in Proc, WaitForAny(p) PROVE HandlersAreMade'
  <2>1. \A q \in Proc : registered'[q] => registered[q]
    BY <1>19 DEF WaitForAny, Remove, Flags
  <2> QED BY <1>19, <2>1 DEF WaitForAny, HandlersAreMade
<1>20. ASSUME NEW p \in Proc, Die(p) PROVE HandlersAreMade'
  BY <1>20 DEF Die, HandlersAreMade, DeathsAreCounted, LoadedFirst
<1> QED
  BY <1>1, <1>2, <1>3, <1>4, <1>5, <1>6, <1>7, <1>8, <1>9, <1>10, <1>11, <1>12, <1>13, <1>14, <1>15, <1>16, <1>17, <1>18, <1>19, <1>20, Actions

(* The number of a new child is stored before the handler of the dead one  *)
(* returns, and no process is restarted that fini has marked.              *)
LEMMA ChildrenStayKnown ==
    ASSUME IInv, ChildrenAreKnown, DeletedAreGone, [Next]_vars, accidents' = {}
    PROVE  ChildrenAreKnown'
<1> USE TypeSplits
    DEF IInv, DeathsInv, Running, ReactorRuns, childVars, controllerVars, reactorVars, stopVars
<1>1. CASE UNCHANGED vars
  BY <1>1 DEF vars, ChildrenAreKnown, HandlersAreMade, DeathsAreCounted, LoadedFirst
<1>2. CASE StartReactor
  BY <1>2 DEF StartReactor, ChildrenAreKnown, HandlersAreMade, DeathsAreCounted, LoadedFirst
<1>3. CASE HandleExit
  BY <1>3 DEF HandleExit, ChildrenAreKnown, HandlersAreMade, DeathsAreCounted, LoadedFirst
<1>4. CASE RestartProcess
  <2>1. /\ dead \in Proc /\ child[dead] = "none" /\ spawns[dead] \in Nat
        /\ ~hasBeenTerminated[dead]
    BY <1>4, NumbersAre DEF RestartProcess, DeathsAreCounted, ChildrenAreKnown
  <2>a. /\ \A q \in Proc \ {dead} : child'[q] = child[q]
        /\ \/ reactor' = "store"
           \/ reactor' = "return" /\ child'[dead] = "none"
    <3>1. \A q \in Proc \ {dead} : child'[q] = child[q]
      BY <1>4 DEF RestartProcess, Spawn, Names
    <3> QED BY <1>4, <2>1, <3>1 DEF RestartProcess
  <2>b. /\ \A q \in Proc \ {dead} : managed'[q] = managed[q]
        /\ reactor' = "store" => managed'[dead]
    BY <1>4, <2>1 DEF RestartProcess, Spawn, Flags
  <2>c. /\ \A q \in Proc \ {dead} : /\ spawns'[q] = spawns[q]
                                   /\ childProcessPID'[q] = childProcessPID[q]
        /\ reactor' = "store" => spawns'[dead] = spawns[dead] + 1
    BY <1>4, <2>1 DEF RestartProcess, Spawn, Numbers
  <2>2. \A q \in Proc \ {dead} : /\ child'[q] = child[q] /\ managed'[q] = managed[q]
                                /\ spawns'[q] = spawns[q]
                                /\ childProcessPID'[q] = childProcessPID[q]
    BY <2>a, <2>b, <2>c
  <2>3. \/ reactor' = "store" /\ managed'[dead] /\ spawns'[dead] = spawns[dead] + 1
        \/ reactor' = "return" /\ child'[dead] = "none"
    BY <2>a, <2>b, <2>c
  <2>4. \A q \in Proc : child'[q] # "none" =>
           /\ managed'[q] /\ spawns'[q] > 0
           /\ (reactor' = "store" /\ dead' = q) \/ childProcessPID'[q] = spawns'[q]
    BY <1>4, <2>1, <2>2, <2>3 DEF RestartProcess, ChildrenAreKnown
  <2>5. stop' \in {"terminate", "wait"} => stopPid' = childProcessPID'[ending']
    <3>1. stop \in {"terminate", "wait"} => ending \in Proc /\ hasBeenTerminated[ending]
      BY DEF LoadedFirst, HandlersAreMade
    <3> QED BY <1>4, <2>1, <2>2, <3>1 DEF RestartProcess, ChildrenAreKnown
  <2> QED BY <1>4, <2>1, <2>4, <2>5 DEF RestartProcess, ChildrenAreKnown
<1>5. CASE StorePid
  <2>1. dead \in Proc /\ ~hasBeenTerminated[dead]
    BY <1>5 DEF StorePid, DeathsAreCounted, ChildrenAreKnown
  <2>2. \A q \in Proc : childProcessPID'[q] = IF q = dead THEN spawns[q] ELSE childProcessPID[q]
    BY <1>5, <2>1 DEF StorePid, Numbers
  <2>3. stop \in {"terminate", "wait"} => ending \in Proc /\ hasBeenTerminated[ending]
    BY DEF LoadedFirst, HandlersAreMade
  <2> QED BY <1>5, <2>1, <2>2, <2>3 DEF StorePid, ChildrenAreKnown
<1>6. CASE RegisterHandler
  BY <1>6 DEF RegisterHandler, ChildrenAreKnown, HandlersAreMade, DeathsAreCounted, LoadedFirst
<1>7. CASE Return
  <2>1. dead \in Proc /\ child[dead] = "none"
    BY <1>7 DEF Return, DeathsAreCounted
  <2>2. \A q \in Proc \ {dead} : managed'[q] = managed[q]
    BY <1>7 DEF Return, Remove, Flags
  <2> QED BY <1>7, <2>1, <2>2 DEF Return, ChildrenAreKnown
<1>8. CASE CatchShutdownSignal
  BY <1>8 DEF CatchShutdownSignal, ChildrenAreKnown, HandlersAreMade, DeathsAreCounted, LoadedFirst
<1>9. CASE ReadPid
  BY <1>9 DEF ReadPid, ChildrenAreKnown, HandlersAreMade, DeathsAreCounted, LoadedFirst
<1>10. CASE Terminate
  BY <1>10 DEF Terminate, ChildrenAreKnown, HandlersAreMade, DeathsAreCounted, LoadedFirst
<1>11. CASE WaitForChild
  <2>1. \A q \in Proc : child'[q] # "none" => child[q] # "none"
    BY <1>11 DEF WaitForChild, Names
  <2> QED BY <1>11, <2>1 DEF WaitForChild, ChildrenAreKnown
<1>12. CASE Reaped
  <2>1. ending \in Proc /\ child[ending] = "none"
    BY <1>12 DEF Reaped, LoadedFirst, DeletedAreGone
  <2>2. \A q \in Proc \ {ending} : managed'[q] = managed[q]
    BY <1>12 DEF Reaped, Remove, Flags
  <2> QED BY <1>12, <2>1, <2>2 DEF Reaped, ChildrenAreKnown
<1>13. CASE Delete
  BY <1>13 DEF Delete, ChildrenAreKnown, HandlersAreMade, DeathsAreCounted, LoadedFirst
<1>14. CASE CloseDone
  BY <1>14 DEF CloseDone, ChildrenAreKnown, HandlersAreMade, DeathsAreCounted, LoadedFirst
<1>15. CASE TerminateProcess
  BY <1>15 DEF TerminateProcess, ChildrenAreKnown, HandlersAreMade, DeathsAreCounted, LoadedFirst
<1>16. ASSUME NEW p \in Proc, Load(p) PROVE ChildrenAreKnown'
  <2>1. stop = "no" /\ reactor = "idle" /\ child[p] = "none" /\ spawns[p] = 0
    BY <1>16 DEF Load, LoadedFirst, DeathsAreCounted
  <2>a. \A q \in Proc \ {p} : child'[q] = child[q]
    BY <1>16 DEF Load, Spawn, Names
  <2>2. \A q \in Proc \ {p} : /\ child'[q] = child[q] /\ managed'[q] = managed[q]
                             /\ spawns'[q] = spawns[q]
                             /\ childProcessPID'[q] = childProcessPID[q]
    <3>1. \A q \in Proc \ {p} : managed'[q] = managed[q]
      BY <1>16 DEF Load, Spawn, Flags
    <3>2. \A q \in Proc \ {p} : /\ spawns'[q] = spawns[q]
                               /\ childProcessPID'[q] = childProcessPID[q]
      BY <1>16 DEF Load, Spawn, Numbers
    <3> QED BY <2>a, <3>1, <3>2
  <2>3. \/ managed'[p] /\ spawns'[p] = 1 /\ childProcessPID'[p] = spawns'[p]
        \/ child'[p] = "none"
    <3>1. CASE Spawn(p) /\ childProcessPID' = [childProcessPID EXCEPT ![p] = spawns'[p]]
      <4>1. managed'[p]
        BY <3>1 DEF Spawn, Flags
      <4>2. spawns'[p] = 1 /\ childProcessPID'[p] = spawns'[p]
        BY <3>1, <2>1 DEF Spawn, Numbers
      <4> QED BY <4>1, <4>2
    <3>2. CASE UNCHANGED childVars
      BY <3>2, <2>1
    <3> QED BY <1>16, <3>1, <3>2 DEF Load
  <2> QED BY <1>16, <2>1, <2>2, <2>3 DEF Load, ChildrenAreKnown
<1>17. ASSUME NEW p \in Proc, Reap(p) PROVE ChildrenAreKnown'
  <2>a. /\ child' = [child EXCEPT ![p] = "none"]
        /\ \A q \in Proc \ {p} : managed'[q] = managed[q]
    BY <1>17 DEF Reap, Remove, Flags
  <2>1. \A q \in Proc : child'[q] # "none" => child[q] # "none" /\ managed'[q] = managed[q]
    BY <2>a DEF Names
  <2>2. reactor = "idle" /\ reactor' \in {"idle", "exit"}
    BY <1>17 DEF Reap
  <2> QED BY <1>17, <2>1, <2>2 DEF Reap, ChildrenAreKnown
<1>18. ASSUME NEW p \in Proc, Fini(p) PROVE ChildrenAreKnown'
  <2>1. ~(dead = p /\ reactor \in {"spawn", "store", "register"})
    BY <1>18 DEF Fini
  <2>2. reactor # "idle" => dead \in Proc
    BY DEF DeathsAreCounted
  <2>3. \A q \in Proc \ {p} : hasBeenTerminated'[q] = hasBeenTerminated[q]
    BY <1>18 DEF Fini, Flags
  <2> QED BY <1>18, <2>1, <2>2, <2>3 DEF Fini, ChildrenAreKnown
<1>19. ASSUME NEW p \in Proc, WaitForAny(p) PROVE ChildrenAreKnown'
  <2>1. \A q \in Proc : child'[q] # "none" => child[q] # "none" /\ managed'[q] = managed[q]
    BY <1>19 DEF WaitForAny, Remove, Names, Flags
  <2> QED BY <1>19, <2>1 DEF WaitForAny, ChildrenAreKnown
<1>20. ASSUME NEW p \in Proc, Die(p) PROVE ChildrenAreKnown'
  <2>1. \A q \in Proc : child'[q] # "none" => child[q] # "none"
    BY <1>20 DEF Die, Names
  <2> QED BY <1>20, <2>1 DEF Die, ChildrenAreKnown
<1> QED
  BY <1>1, <1>2, <1>3, <1>4, <1>5, <1>6, <1>7, <1>8, <1>9, <1>10, <1>11, <1>12, <1>13, <1>14, <1>15, <1>16, <1>17, <1>18, <1>19, <1>20, Actions

(* fini finds the child under its number and waits until it is reaped; the *)
(* lock keeps it from deleting the handler that is being called.           *)
LEMMA DeletedStayGone ==
    ASSUME IInv, ChildrenAreKnown, DeletedAreGone, [Next]_vars, accidents' = {}
    PROVE  DeletedAreGone'
<1> USE TypeSplits
    DEF IInv, DeathsInv, Running, ReactorRuns, childVars, controllerVars, reactorVars, stopVars
<1>1. CASE UNCHANGED vars
  BY <1>1 DEF vars, DeletedAreGone, Gone, ReactorHoldsLock
<1>2. CASE StartReactor
  BY <1>2 DEF StartReactor, DeletedAreGone, Gone, ReactorHoldsLock
<1>3. CASE HandleExit
  BY <1>3 DEF HandleExit, DeletedAreGone, Gone, ReactorHoldsLock
<1>4. CASE RestartProcess
  <2>0. dead \in Proc /\ ~hasBeenTerminated[dead]
    BY <1>4 DEF RestartProcess, DeathsAreCounted, ChildrenAreKnown
  <2>1. \A q \in Proc \ {dead} : child'[q] = child[q]
    BY <1>4, <2>0 DEF RestartProcess, Spawn, Names
  <2>2. stop \in {"reaped", "delete"} => ending \in Proc /\ hasBeenTerminated[ending]
    BY DEF LoadedFirst, HandlersAreMade
  <2>3. handler[dead] # "deleted"
    BY <1>4, <2>0 DEF RestartProcess, DeletedAreGone, Gone, ReactorHoldsLock
  <2> QED BY <1>4, <2>0, <2>1, <2>2, <2>3 DEF RestartProcess, DeletedAreGone, Gone, ReactorHoldsLock
<1>5. CASE StorePid
  BY <1>5 DEF StorePid, DeletedAreGone, Gone, ReactorHoldsLock
<1>6. CASE RegisterHandler
  BY <1>6 DEF RegisterHandler, DeletedAreGone, Gone, ReactorHoldsLock
<1>7. CASE Return
  BY <1>7 DEF Return, DeletedAreGone, Gone, ReactorHoldsLock
<1>8. CASE CatchShutdownSignal
  BY <1>8 DEF CatchShutdownSignal, DeletedAreGone, Gone, ReactorHoldsLock
<1>9. CASE ReadPid
  BY <1>9 DEF ReadPid, DeletedAreGone, Gone, ReactorHoldsLock
<1>10. CASE Terminate
  BY <1>10 DEF Terminate, DeletedAreGone, Gone, ReactorHoldsLock
<1>11. CASE WaitForChild
  <2>1. /\ ending \in Proc /\ hasBeenTerminated[ending]
        /\ stopPid = childProcessPID[ending]
    BY <1>11 DEF WaitForChild, LoadedFirst, HandlersAreMade, ChildrenAreKnown
  <2>2. child[ending] # "none" => IsNewest
    BY <2>1 DEF IsNewest, Invalid, ChildrenAreKnown
  <2>3. \A q \in Proc : child[q] = "none" => child'[q] = "none"
    BY <1>11 DEF WaitForChild, Names
  <2>4. \/ stop' = "reaped" /\ child'[ending] = "none"
        \/ stop' = "delete" /\ child'[ending] = "none" /\ ~ReactorHoldsLock
    BY <1>11, <2>1, <2>2 DEF WaitForChild, Names
  <2> QED BY <1>11, <2>3, <2>4 DEF WaitForChild, DeletedAreGone, Gone, ReactorHoldsLock
<1>12. CASE Reaped
  BY <1>12 DEF Reaped, DeletedAreGone, Gone, ReactorHoldsLock
<1>13. CASE Delete
  <2>1. \A q \in Proc \ {ending} : handler'[q] = handler[q]
    BY <1>13 DEF Delete, Names
  <2> QED BY <1>13, <2>1 DEF Delete, DeletedAreGone, Gone, ReactorHoldsLock
<1>14. CASE CloseDone
  BY <1>14 DEF CloseDone, DeletedAreGone, Gone, ReactorHoldsLock
<1>15. CASE TerminateProcess
  BY <1>15 DEF TerminateProcess, DeletedAreGone, Gone, ReactorHoldsLock
<1>16. ASSUME NEW p \in Proc, Load(p) PROVE DeletedAreGone'
  <2>1. stop = "no" /\ reactor = "idle"
    BY <1>16 DEF Load, LoadedFirst
  <2>2. /\ \A q \in Proc \ {p} : child'[q] = child[q] /\ handler'[q] = handler[q]
        /\ \/ handler'[p] = "made"
           \/ handler'[p] = handler[p] /\ child'[p] = child[p]
    BY <1>16 DEF Load, Spawn, Names
  <2> QED BY <1>16, <2>1, <2>2 DEF Load, DeletedAreGone, Gone, ReactorHoldsLock
<1>17. ASSUME NEW p \in Proc, Reap(p) PROVE DeletedAreGone'
  <2>1. \A q \in Proc : child[q] = "none" => child'[q] = "none" /\ q # p
    BY <1>17 DEF Reap, Names
  <2>2. /\ handler[p] # "deleted"
        /\ stop = "delete" => ending # p
        /\ reactor' = "idle" \/ dead' = p
    BY <1>17 DEF Reap, DeletedAreGone, Gone
  <2>3. ~calledDeleted'
    BY <1>17, <2>2 DEF Reap, DeletedAreGone
  <2>4. stop = "reaped" => ending \in Proc
    BY DEF LoadedFirst
  <2> QED BY <1>17, <2>1, <2>2, <2>3, <2>4 DEF Reap, DeletedAreGone, Gone, ReactorHoldsLock, LoadedFirst
<1>18. ASSUME NEW p \in Proc, Fini(p) PROVE DeletedAreGone'
  BY <1>18 DEF Fini, DeletedAreGone, Gone, ReactorHoldsLock
<1>19. ASSUME NEW p \in Proc, WaitForAny(p) PROVE DeletedAreGone'
  <2>1. \A q \in Proc : child[q] = "none" => child'[q] = "none"
    BY <1>19 DEF WaitForAny, Names
  <2>2. handler[p] = "none"
    BY <1>19 DEF WaitForAny, DeletedAreGone, Gone, HandlersAreMade, Names
  <2>3. ~calledDeleted'
    BY <1>19, <2>2 DEF WaitForAny, HandlersAreMade, Flags
  <2> QED BY <1>19, <2>1, <2>3 DEF WaitForAny, DeletedAreGone, Gone, ReactorHoldsLock
<1>20. ASSUME NEW p \in Proc, Die(p) PROVE DeletedAreGone'
  <2>1. \A q \in Proc : child[q] = "none" => child'[q] = "none"
    BY <1>20 DEF Die, Names
  <2>2. stop \in {"reaped", "delete"} => ending \in Proc
    BY DEF LoadedFirst
  <2> QED BY <1>20, <2>1, <2>2 DEF Die, DeletedAreGone, Gone, ReactorHoldsLock
<1> QED
  BY <1>1, <1>2, <1>3, <1>4, <1>5, <1>6, <1>7, <1>8, <1>9, <1>10, <1>11, <1>12, <1>13, <1>14, <1>15, <1>16, <1>17, <1>18, <1>19, <1>20, Actions

(* The inductive invariant holds, whatever the number of services.         *)
THEOREM Invariance == Spec => []IInv
<1>1. ASSUME Init PROVE IInv
  <2> USE <1>1 DEF Init, Pid, MaxDeaths, Invalid
  <2>1. Names
    BY DEF Names
  <2>2. Flags
    BY DEF Flags
  <2>3. Numbers
    BY DEF Numbers
  <2>4. NoChildLeft /\ RestartsAreBounded
    BY DEF NoChildLeft, RestartsAreBounded
  <2>5. DeathsAreCounted /\ LoadedFirst
    BY DEF DeathsAreCounted, LoadedFirst
  <2> QED BY <2>1, <2>2, <2>3, <2>4, <2>5, TypeSplits
        DEF IInv, DeathsInv, HandlersAreMade, ChildrenAreKnown, DeletedAreGone, Gone,
            ReactorHoldsLock
<1>2. ASSUME IInv, [Next]_vars PROVE IInv'
  <2>1. DeathsInv' /\ HandlersAreMade'
    BY <1>2, StepKeeps, HandlersStayMade DEF IInv
  <2>2. accidents' = {} => ChildrenAreKnown' /\ DeletedAreGone'
    BY <1>2, AccidentsStay, ChildrenStayKnown, DeletedStayGone DEF IInv
  <2> QED BY <2>1, <2>2 DEF IInv
<1> QED BY <1>1, <1>2, PTL DEF Spec

(* The process manager ends after all its children (ProcessManager.cpp:    *)
(* 145-167), whenever the signal comes and however many services there are.*)
THEOREM ChildrenEndFirst == Spec => []NoChildLeft
<1>1. IInv => NoChildLeft
  BY DEF IInv, DeathsInv
<1> QED BY <1>1, Invariance, PTL

(* A service is started at most once more than its children have died, and *)
(* given up at the third death (ProcessDeathHandler.cpp: 103-120).         *)
THEOREM RestartsEnd == Spec => []RestartsAreBounded
<1>1. IInv => RestartsAreBounded
  BY DEF IInv, DeathsInv
<1> QED BY <1>1, Invariance, PTL

(* A handler that fini has waited for is not called and not in use when the*)
(* controller is deleted with it, wherever the child dies and the signal   *)
(* comes; the two accidents are the exceptions (ProcessController.cpp:     *)
(* 186-221, ProcessDeathHandler.cpp: 79-122).                              *)
THEOREM HandlersOutliveTheirCalls == Spec => []DeletedHandlerIsNotUsed
<1>1. IInv => DeletedHandlerIsNotUsed
  <2> SUFFICES ASSUME IInv, accidents = {} PROVE DeletedHandlerIsNotUsed
    BY DEF DeletedHandlerIsNotUsed
  <2>1. reactor # "idle" => dead \in Proc
    BY DEF IInv, DeathsInv, DeathsAreCounted
  <2> QED
    BY <2>1 DEF IInv, DeletedAreGone, Gone, ReactorHoldsLock, DeletedHandlerIsNotUsed
<1> QED BY <1>1, Invariance, PTL

-----------------------------------------------------------------------------
(* The log processor.  First what its operators do.                         *)

(* The places of files.                                                     *)
LEMMA PlacesOfFiles ==
    /\ Oldest \in Nat \ {0}
    /\ 0 \in FileNo /\ 1 \in FileNo
    /\ \A i \in FileNo : i \in Nat
    /\ Keep > 0 => 0 .. Keep - 1 \subseteq FileNo
    /\ \A i \in FileNo : i < Keep - 1 => i + 1 \in FileNo
BY ConstantsAssumption DEF Oldest, FileNo

(* There are two threads.                                                   *)
LEMMA ThreadsAre ==
    ASSUME NEW t \in Thread
    PROVE  /\ Other(t) \in Thread /\ Other(t) # t
           /\ \A u \in Thread : u = t \/ u = Other(t)
<1>1. \E u \in Thread : u # t
  BY DEF Thread
<1>2. Other(t) \in Thread /\ Other(t) # t
  BY <1>1 DEF Other
<1> QED BY <1>2 DEF Thread

(* A sequence with one more element at its end.                             *)
LEMMA AppendedIs ==
    ASSUME NEW S, NEW s \in Seq(S), NEW e \in S
    PROVE  /\ Append(s, e) \in Seq(S)
           /\ Append(s, e) # <<>>
           /\ Len(Append(s, e)) = Len(s) + 1
           /\ DOMAIN s = 1 .. Len(s)
           /\ DOMAIN Append(s, e) = 1 .. Len(s) + 1
           /\ \A i \in 1 .. Len(s) : Append(s, e)[i] = s[i]
           /\ Append(s, e)[Len(s) + 1] = e
           /\ LogsIn(Append(s, e)) = LogsIn(s) \cup {e}
<1>1. /\ Append(s, e) \in Seq(S)
      /\ Len(Append(s, e)) = Len(s) + 1
      /\ Len(s) \in Nat
      /\ DOMAIN s = 1 .. Len(s)
      /\ DOMAIN Append(s, e) = 1 .. Len(s) + 1
      /\ \A i \in 1 .. Len(s) : Append(s, e)[i] = s[i]
      /\ Append(s, e)[Len(s) + 1] = e
  OBVIOUS
<1>2. Append(s, e) # <<>>
  BY <1>1
<1> HIDE <1>1
<1>3. LogsIn(Append(s, e)) = LogsIn(s) \cup {e}
  <2>1. ASSUME NEW n \in LogsIn(Append(s, e)) PROVE n \in LogsIn(s) \cup {e}
    <3>1. PICK i \in 1 .. Len(s) + 1 : n = Append(s, e)[i]
      BY <2>1, <1>1 DEF LogsIn
    <3> QED BY <3>1, <1>1 DEF LogsIn
  <2>2. ASSUME NEW n \in LogsIn(s) PROVE n \in LogsIn(Append(s, e))
    <3>1. PICK i \in 1 .. Len(s) : n = s[i]
      BY <2>2, <1>1 DEF LogsIn
    <3>2. i \in 1 .. Len(s) + 1 /\ Append(s, e)[i] = n
      BY <3>1, <1>1
    <3> QED BY <3>2, <1>1 DEF LogsIn
  <2>3. e \in LogsIn(Append(s, e))
    <3>1. Len(s) + 1 \in 1 .. Len(s) + 1
      BY <1>1
    <3> QED BY <3>1, <1>1 DEF LogsIn
  <2> QED BY <2>1, <2>2, <2>3
<1> QED BY <1>1, <1>2, <1>3

(* A sequence without its first element.                                    *)
LEMMA TailIs ==
    ASSUME NEW S, NEW s \in Seq(S), s # <<>>
    PROVE  /\ Tail(s) \in Seq(S)
           /\ Head(s) \in S
           /\ Head(s) = s[1]
           /\ DOMAIN s = 1 .. Len(s)
           /\ DOMAIN Tail(s) = 1 .. Len(s) - 1
           /\ Len(s) \in Nat \ {0}
           /\ \A i \in 1 .. Len(s) - 1 : Tail(s)[i] = s[i + 1]
           /\ LogsIn(s) = {Head(s)} \cup LogsIn(Tail(s))
<1>1. /\ Tail(s) \in Seq(S)
      /\ Head(s) \in S
      /\ Head(s) = s[1]
      /\ DOMAIN s = 1 .. Len(s)
      /\ DOMAIN Tail(s) = 1 .. Len(s) - 1
      /\ Len(s) \in Nat \ {0}
      /\ \A i \in 1 .. Len(s) - 1 : Tail(s)[i] = s[i + 1]
  OBVIOUS
<1> HIDE <1>1
<1>3. LogsIn(s) = {Head(s)} \cup LogsIn(Tail(s))
  <2>1. ASSUME NEW n \in LogsIn(s), n # Head(s) PROVE n \in LogsIn(Tail(s))
    <3>1. PICK i \in 1 .. Len(s) : n = s[i]
      BY <2>1, <1>1 DEF LogsIn
    <3>2. i - 1 \in 1 .. Len(s) - 1 /\ Tail(s)[i - 1] = n
      BY <3>1, <2>1, <1>1
    <3> QED BY <3>2, <1>1 DEF LogsIn
  <2>2. ASSUME NEW n \in LogsIn(Tail(s)) PROVE n \in LogsIn(s)
    <3>1. PICK i \in 1 .. Len(s) - 1 : n = Tail(s)[i]
      BY <2>2, <1>1 DEF LogsIn
    <3>2. i + 1 \in 1 .. Len(s) /\ s[i + 1] = n
      BY <3>1, <1>1
    <3> QED BY <3>2, <1>1 DEF LogsIn
  <2>3. Head(s) \in LogsIn(s)
    <3>1. 1 \in 1 .. Len(s)
      BY <1>1
    <3> QED BY <3>1, <1>1 DEF LogsIn
  <2> QED BY <2>1, <2>2, <2>3
<1> QED BY <1>1, <1>3

(* What is in an empty file, and that what is in a file is a log.           *)
LEMMA LogsAre ==
    /\ LogsIn(<<>>) = {}
    /\ \A s \in Seq(Log) : LogsIn(s) \subseteq Log
    /\ \A s \in Seq(Log) : s # <<>> => LogsIn(s) # {}
<1>1. LogsIn(<<>>) = {}
  BY DEF LogsIn
<1>2. ASSUME NEW s \in Seq(Log) PROVE LogsIn(s) \subseteq Log
  BY DEF LogsIn
<1>3. ASSUME NEW s \in Seq(Log), s # <<>> PROVE LogsIn(s) # {}
  <2>1. 1 \in DOMAIN s
    BY <1>3
  <2> QED BY <2>1 DEF LogsIn
<1> QED BY <1>1, <1>2, <1>3

(* A step is one of these.                                                  *)
LEMMA LogStepIs ==
    ASSUME [LogNext]_logVars
    PROVE  \/ UNCHANGED logVars
           \/ \E u \in Users : FindQueue(u) \/ BindQueue(u)
           \/ \E p \in Producer : TraceLog(p) \/ ReleaseSemaphore(p) \/ ProducerDies(p)
           \/ ProcessorRuns /\ EndProcess
           \/ Loop \/ Acquire \/ CatchSignal \/ SetShuttingDown \/ Close
           \/ \E t \in Thread : \/ TestEmpty(t) \/ Dequeue(t) \/ Write(t)
                                \/ ShiftKept(t) \/ ShiftActive(t)
<1>1. "worker" \in Thread /\ "closer" \in Thread
  BY DEF Thread
<1>2. CASE WorkerStep
  BY <1>1, <1>2 DEF WorkerStep, LeaveMain, ReadAndWrite
<1>3. CASE CloserStep
  BY <1>1, <1>3 DEF CloserStep, TerminateOnSignal, ReadAndWrite
<1> QED BY <1>2, <1>3 DEF LogNext, Crash

(* What processes and threads may be asked of.                              *)
LEMMA UsersAre ==
    /\ Processor \in Users /\ NoQueue \notin Users
    /\ \A p \in Producer : p \in Users /\ p # Processor
BY ConstantsAssumption DEF Users

(* The queue of a log processor that is up.                                 *)
LEMMA QueueOfProcessor ==
    ASSUME LogInv, ProcessorRuns
    PROVE  uses[Processor] \in Users /\ Pending \in Seq(Log)
BY UsersAre DEF LogInv, LogTypeOK, ProcessorRuns, Pending

(* Where a thread that moves files is.                                      *)
LEMMA MoverIs ==
    ASSUME LogInv, NEW t \in Thread, step[t] = "rolling"
    PROVE  /\ at[t] \in FileNo /\ at[t] \in Nat /\ at[t] < Keep /\ Keep \in Nat
           /\ at[t] > 0 => at[t] - 1 \in FileNo
           /\ at[t] # Keep - 1 => at[t] + 1 \in FileNo
<1>1. at[t] \in FileNo /\ at[t] < Keep
  BY DEF LogInv, LogTypeOK, RoomIsMade
<1>2. at[t] > 0 => at[t] - 1 \in FileNo
  BY <1>1, PlacesOfFiles DEF FileNo
<1> QED BY <1>1, <1>2, PlacesOfFiles, ConstantsAssumption

(* The types of the state.                                                  *)
LEMMA LogTypeKept ==
    ASSUME LogInv, [LogNext]_logVars
    PROVE  LogTypeOK'
<1>0. LogTypeOK
  BY DEF LogInv
<1>f. /\ at \in [Thread -> FileNo] /\ file \in [FileNo -> Seq(Log)]
      /\ removed \subseteq Log /\ failures \in 0 .. MaxFailures
      /\ fileCheckCounter \in 0 .. CheckEvery /\ CheckEvery \in Nat /\ MaxFailures \in Nat
      /\ <<>> \in Seq(Log) /\ \A i \in FileNo : LogsIn(file[i]) \subseteq Log
  BY <1>0, ConstantsAssumption, LogsAre DEF LogTypeOK, LogTypeOK
<1>1. CASE UNCHANGED logVars
  BY <1>0, <1>1 DEF logVars, LogTypeOK
<1>2. ASSUME NEW u \in Users, FindQueue(u) PROVE LogTypeOK'
  BY <1>0, <1>2 DEF FindQueue, procVars, fileVars, LogTypeOK
<1>3. ASSUME NEW u \in Users, BindQueue(u) PROVE LogTypeOK'
  <2>1. u # NoQueue /\ <<>> \in Seq(Log)
    BY UsersAre
  <2> QED BY <1>0, <1>3, <2>1 DEF BindQueue, procVars, fileVars, Accident, LogTypeOK
<1>4. ASSUME NEW p \in Producer, TraceLog(p) PROVE LogTypeOK'
  <2>1. p \in Users /\ uses[p] \in Users
    BY <1>0, <1>4, UsersAre DEF TraceLog, LogTypeOK
  <2>2. logged' \in 0 .. MaxLogs /\ failures' \in 0 .. MaxFailures
    BY <1>0, <1>4, ConstantsAssumption DEF TraceLog, Fails, Succeeds, LogTypeOK
  <2>3. queue' \in [Users -> Seq(Log)]
    <3>1. CASE logged' = logged + 1 /\ queue' = [queue EXCEPT ![uses[p]] = Append(@, logged + 1)]
      <4>1. logged + 1 \in Log
        BY <1>0, <1>4, ConstantsAssumption DEF TraceLog, Log, LogTypeOK
      <4>2. Append(queue[uses[p]], logged + 1) \in Seq(Log)
        BY <1>0, <2>1, <4>1 DEF LogTypeOK
      <4> QED BY <1>0, <3>1, <4>2 DEF LogTypeOK
    <3> QED BY <1>0, <1>4, <3>1 DEF TraceLog, LogTypeOK
  <2> QED BY <1>0, <1>4, <2>1, <2>2, <2>3 DEF TraceLog, procVars, fileVars, LogTypeOK
<1>5. ASSUME NEW p \in Producer, ReleaseSemaphore(p) PROVE LogTypeOK'
  <2>1. sem' \in 0 .. SemMax
    BY <1>0, <1>5, ConstantsAssumption DEF ReleaseSemaphore, LogTypeOK
  <2> QED BY <1>0, <1>5, <2>1, UsersAre DEF ReleaseSemaphore, procVars, fileVars, LogTypeOK
<1>6. ASSUME NEW p \in Producer, ProducerDies(p) PROVE LogTypeOK'
  <2>1. ends' \in 0 .. MaxEnds
    <3>1. ends \in 0 .. MaxEnds /\ MaxEnds \in Nat
      BY <1>0, ConstantsAssumption DEF LogTypeOK
    <3>2. ends < MaxEnds /\ ends' = ends + 1
      BY <1>6 DEF ProducerDies
    <3> QED BY <3>1, <3>2
  <2> QED BY <1>0, <1>6, <2>1, UsersAre DEF ProducerDies, procVars, fileVars, Accident, LogTypeOK
<1>7. ASSUME ProcessorRuns, EndProcess PROVE LogTypeOK'
  <2>1. ends' \in 0 .. MaxEnds /\ failures' \in 0 .. MaxFailures
    BY <1>0, <1>7, ConstantsAssumption DEF EndProcess, Fails, Succeeds, LogTypeOK
  <2>2. fileCheckCounter' \in 0 .. CheckEvery /\ at' \in [Thread -> FileNo]
    BY <1>7, ConstantsAssumption, PlacesOfFiles DEF EndProcess
  <2> QED BY <1>0, <1>7, <2>1, <2>2 DEF EndProcess, fileVars, LogTypeOK
<1>8. CASE Loop \/ CatchSignal \/ SetShuttingDown \/ Close
  BY <1>0, <1>8 DEF Loop, CatchSignal, SetShuttingDown, Close, Go, setUp, fileVars, LogTypeOK
<1>9. CASE Acquire
  <2>1. sem' \in 0 .. SemMax
    BY <1>0, <1>9, ConstantsAssumption DEF Acquire, LogTypeOK
  <2> QED BY <1>0, <1>9, <2>1 DEF Acquire, Go, setUp, fileVars, LogTypeOK
<1>10. ASSUME NEW t \in Thread, TestEmpty(t) PROVE LogTypeOK'
  BY <1>0, <1>10 DEF TestEmpty, Go, setUp, fileVars, LogTypeOK
<1>11. ASSUME NEW t \in Thread, Dequeue(t) PROVE LogTypeOK'
  <2>1. uses[Processor] \in Users /\ Pending \in Seq(Log)
    BY <1>11, QueueOfProcessor DEF Dequeue
  <2>2. queue' \in [Users -> Seq(Log)] /\ hand' \in [Thread -> Log \cup {0}]
    <3>1. CASE Pending # <<>>
      <4>1. Head(Pending) \in Log /\ Tail(Pending) \in Seq(Log)
        BY <2>1, <3>1, TailIs
      <4> QED BY <1>0, <1>11, <2>1, <3>1, <4>1 DEF Dequeue, Pending, LogTypeOK
    <3> QED BY <1>0, <1>11, <3>1 DEF Dequeue, LogTypeOK
  <2> QED BY <1>0, <1>11, <2>2 DEF Dequeue, Go, setUp, fileVars, Accident, LogTypeOK
<1>12. ASSUME NEW t \in Thread, Write(t) PROVE LogTypeOK'
  <2>1. hand[t] \in Log
    BY <1>0, <1>12 DEF Write, ProcessorRuns, LogInv, HandsAreNew, LogTypeOK
  <2>2. file' \in [FileNo -> Seq(Log)]
    <3>1. Append(file[0], hand[t]) \in Seq(Log)
      BY <1>0, <2>1, PlacesOfFiles DEF LogTypeOK
    <3> QED BY <1>0, <1>12, <3>1, PlacesOfFiles DEF Write, LogTypeOK
  <2>3. fileCheckCounter' \in 0 .. CheckEvery /\ at' \in [Thread -> FileNo]
    <3>1. Keep # 0 => Keep - 1 \in FileNo
      BY PlacesOfFiles, ConstantsAssumption
    <3>2. at' \in [Thread -> FileNo]
      BY <1>f, <1>12, <3>1 DEF Write
    <3>3. fileCheckCounter' \in 0 .. CheckEvery
      <4>1. \/ fileCheckCounter' \in {0, fileCheckCounter}
            \/ fileCheckCounter < CheckEvery /\ fileCheckCounter' = fileCheckCounter + 1
        BY <1>12 DEF Write
      <4> QED BY <1>f, <4>1
    <3> QED BY <3>2, <3>3
  <2>4. step' \in [Thread -> {"idle", "loop", "test", "acquire", "dequeue", "write",
                              "rolling", "signalled", "close", "terminate"}]
    BY <1>0, <1>12 DEF Write, Go, After, LogTypeOK
  <2> QED BY <1>0, <1>12, <2>2, <2>3, <2>4 DEF Write, setUp, Accident, LogTypeOK
<1>13. ASSUME NEW t \in Thread, ShiftKept(t) PROVE LogTypeOK'
  <2>1. /\ at[t] \in FileNo /\ at[t] - 1 \in FileNo
        /\ at[t] # Keep - 1 => at[t] + 1 \in FileNo
    BY <1>13, MoverIs DEF ShiftKept
  <2>2. at' \in [Thread -> FileNo] /\ failures' \in 0 .. MaxFailures
    <3>1. /\ at' = [at EXCEPT ![t] = at[t] - 1]
          /\ \/ failures' = failures
             \/ failures < MaxFailures /\ failures' = failures + 1
      BY <1>13 DEF ShiftKept, Fails, Succeeds
    <3> QED BY <1>f, <2>1, <3>1
  <2>3. file' \in [FileNo -> Seq(Log)] /\ removed' \subseteq Log
    BY <1>f, <1>13, <2>1 DEF ShiftKept, RemoveFile, RenameFile, fileVars
  <2> QED BY <1>0, <1>13, <2>2, <2>3 DEF ShiftKept, setUp, Accident, LogTypeOK
<1>14. ASSUME NEW t \in Thread, ShiftActive(t) PROVE LogTypeOK'
  <2>1. failures' \in 0 .. MaxFailures
    BY <1>0, <1>14, ConstantsAssumption DEF ShiftActive, LogTypeOK
  <2>2. file' \in [FileNo -> Seq(Log)] /\ removed' \subseteq Log
    BY <1>f, <1>14, PlacesOfFiles DEF ShiftActive, RenameFile, fileVars
  <2>3. fileCheckCounter' \in 0 .. CheckEvery
    BY <1>14, ConstantsAssumption DEF ShiftActive
  <2>4. step' \in [Thread -> {"idle", "loop", "test", "acquire", "dequeue", "write",
                              "rolling", "signalled", "close", "terminate"}]
    BY <1>0, <1>14 DEF ShiftActive, Go, After, LogTypeOK
  <2> QED BY <1>0, <1>14, <2>1, <2>2, <2>3, <2>4 DEF ShiftActive, setUp, LogTypeOK
<1> QED
  BY <1>1, <1>2, <1>3, <1>4, <1>5, <1>6, <1>7, <1>8, <1>9, <1>10, <1>11, <1>12, <1>13,
     <1>14, LogStepIs

(* The queues and who uses them.                                            *)
LEMMA QueuesKept ==
    ASSUME LogInv, [LogNext]_logVars
    PROVE  QueuesAreOwned'
<1> USE UsersAre
<1>0. /\ QueuesAreOwned
      /\ uses \in [Users -> Users \cup {NoQueue}] /\ queue \in [Users -> Seq(Log)]
      /\ pc \in [Users -> {"start", "build", "ready", "release"}]
      /\ \A u \in Users : pc[u] \in {"ready", "release"} => uses[u] \in Users
  BY DEF LogInv, LogTypeOK
<1>1. CASE UNCHANGED <<bound, uses, queue, pc, logAccidents>>
  BY <1>0, <1>1 DEF QueuesAreOwned
<1>2. ASSUME NEW u \in Users, FindQueue(u) PROVE QueuesAreOwned'
  <2>1. UNCHANGED <<bound, queue, logAccidents>> /\ pc[u] = "start" /\ uses[u] = NoQueue
    BY <1>0, <1>2 DEF FindQueue, QueuesAreOwned
  <2>2. CASE bound # NoQueue
    <3>1. /\ uses' = [uses EXCEPT ![u] = bound]
          /\ pc' = [pc EXCEPT ![u] = "ready"]
      BY <1>2, <2>2 DEF FindQueue
    <3> QED BY <1>0, <2>1, <2>2, <3>1 DEF QueuesAreOwned
  <2>3. CASE bound = NoQueue
    <3>1. uses' = uses /\ pc' = [pc EXCEPT ![u] = "build"]
      BY <1>2, <2>3 DEF FindQueue
    <3> QED BY <1>0, <2>1, <2>3, <3>1 DEF QueuesAreOwned
  <2> QED BY <2>2, <2>3
<1>3. ASSUME NEW u \in Users, BindQueue(u) PROVE QueuesAreOwned'
  BY <1>0, <1>3 DEF BindQueue, QueuesAreOwned
<1>4. ASSUME NEW p \in Producer, TraceLog(p) PROVE QueuesAreOwned'
  <2>1. /\ pc[p] = "ready" /\ uses[p] \in Users
        /\ \/ queue' = queue
           \/ queue' = [queue EXCEPT ![uses[p]] = Append(@, logged + 1)]
        /\ pc' = [pc EXCEPT ![p] = "release"]
        /\ UNCHANGED <<bound, uses, logAccidents>>
    BY <1>0, <1>4 DEF TraceLog
  <2>2. ASSUME NEW u \in Users, queue[u] = <<>>, u # uses[p] PROVE queue'[u] = <<>>
    BY <1>0, <2>1, <2>2
  <2> QED BY <1>0, <2>1, <2>2 DEF QueuesAreOwned
<1>5. ASSUME NEW p \in Producer, ReleaseSemaphore(p) PROVE QueuesAreOwned'
  BY <1>0, <1>5 DEF ReleaseSemaphore, QueuesAreOwned
<1>6. ASSUME NEW p \in Producer, ProducerDies(p) PROVE QueuesAreOwned'
  <2>1. "set_up_together" \in logAccidents => "set_up_together" \in logAccidents'
    BY <1>6 DEF ProducerDies
  <2> QED BY <1>0, <1>6, <2>1 DEF ProducerDies, QueuesAreOwned
<1>7. ASSUME ProcessorRuns, EndProcess PROVE QueuesAreOwned'
  BY <1>0, <1>7 DEF EndProcess, QueuesAreOwned
<1>8. CASE Loop \/ CatchSignal \/ SetShuttingDown \/ Close \/ Acquire
  BY <1>1, <1>8 DEF Loop, CatchSignal, SetShuttingDown, Close, Acquire, setUp
<1>10. ASSUME NEW t \in Thread, TestEmpty(t) \/ ShiftActive(t) PROVE QueuesAreOwned'
  BY <1>1, <1>10 DEF TestEmpty, ShiftActive, setUp
<1>11. ASSUME NEW t \in Thread, Dequeue(t) PROVE QueuesAreOwned'
  <2>1. \A u \in Users : queue[u] = <<>> => queue'[u] = <<>>
    BY <1>0, <1>11 DEF Dequeue, Pending
  <2>2. "set_up_together" \in logAccidents => "set_up_together" \in logAccidents'
    BY <1>11 DEF Dequeue
  <2> QED BY <1>0, <1>11, <2>1, <2>2 DEF Dequeue, setUp, QueuesAreOwned
<1>12. ASSUME NEW t \in Thread, Write(t) PROVE QueuesAreOwned'
  <2>2. "set_up_together" \in logAccidents => "set_up_together" \in logAccidents'
    BY <1>12 DEF Write
  <2> QED BY <1>0, <1>12, <2>2 DEF Write, setUp, QueuesAreOwned
<1>13. ASSUME NEW t \in Thread, ShiftKept(t) PROVE QueuesAreOwned'
  <2>2. "set_up_together" \in logAccidents => "set_up_together" \in logAccidents'
    BY <1>13 DEF ShiftKept
  <2> QED BY <1>0, <1>13, <2>2 DEF ShiftKept, setUp, QueuesAreOwned
<1>14. UNCHANGED logVars => UNCHANGED <<bound, uses, queue, pc, logAccidents>>
  BY DEF logVars
<1> QED
  BY <1>1, <1>2, <1>3, <1>4, <1>5, <1>6, <1>7, <1>8, <1>10, <1>11, <1>12, <1>13,
     <1>14, LogStepIs

(* All use the queue that is bound.                                         *)
LEMMA QueueIsOne == QueuesAreOwned => OneQueue
BY DEF QueuesAreOwned, OneQueue

(* What the threads of a log processor do when it is not up.                *)
LEMMA StartKept ==
    ASSUME LogInv, [LogNext]_logVars
    PROVE  StartsAnew'
<1>0. StartsAnew /\ pc \in [Users -> {"start", "build", "ready", "release"}] /\ Processor \in Users
  BY UsersAre DEF LogInv, LogTypeOK
<1>1. CASE step' = step /\ (pc[Processor] = "ready" => pc'[Processor] = "ready")
  BY <1>0, <1>1 DEF StartsAnew
<1>2. CASE pc' = pc /\ ProcessorRuns
  BY <1>0, <1>2 DEF StartsAnew, ProcessorRuns
<1>3. ASSUME NEW u \in Users, FindQueue(u) \/ BindQueue(u) PROVE StartsAnew'
  BY <1>0, <1>1, <1>3 DEF FindQueue, BindQueue, procVars
<1>4. ASSUME NEW p \in Producer, TraceLog(p) \/ ReleaseSemaphore(p) \/ ProducerDies(p)
      PROVE  StartsAnew'
  BY <1>0, <1>1, <1>4, UsersAre DEF TraceLog, ReleaseSemaphore, ProducerDies, procVars
<1>5. CASE EndProcess
  BY <1>5 DEF EndProcess, StartsAnew, Thread
<1>6. CASE Loop \/ CatchSignal \/ SetShuttingDown \/ Close \/ Acquire
  BY <1>2, <1>6 DEF Loop, CatchSignal, SetShuttingDown, Close, Acquire, setUp
<1>7. ASSUME NEW t \in Thread, TestEmpty(t) \/ Dequeue(t) PROVE StartsAnew'
  BY <1>2, <1>7 DEF TestEmpty, Dequeue, setUp
<1>8. ASSUME NEW t \in Thread, Write(t) \/ ShiftKept(t) \/ ShiftActive(t) PROVE StartsAnew'
  BY <1>2, <1>8 DEF Write, ShiftKept, ShiftActive, setUp
<1>9. CASE UNCHANGED logVars
  BY <1>1, <1>9 DEF logVars
<1> QED BY <1>3, <1>4, <1>5, <1>6, <1>7, <1>8, <1>9, LogStepIs

(* What a log processor that is up finds in its queue, after a step of the  *)
(* processes: nothing has been taken out, and it has not been given another *)
(* queue.                                                                   *)
LEMMA UpKeepsPending ==
    ASSUME LogInv, LogTypeOK',
           \/ \E u \in Users : FindQueue(u) \/ BindQueue(u)
           \/ \E p \in Producer : TraceLog(p) \/ ReleaseSemaphore(p) \/ ProducerDies(p)
    PROVE  /\ step' = step /\ logAccidents \subseteq logAccidents'
           /\ \/ /\ pc[Processor] # "ready"
                 /\ step["worker"] = "loop" /\ step["closer"] = "idle"
              \/ /\ pc[Processor] = "ready" /\ uses'[Processor] = uses[Processor]
                 /\ uses[Processor] \in Users
                 /\ Pending # <<>> => Pending' # <<>>
                 /\ Pending' = Pending \/ \E p \in Producer : pc'[p] = "release"
<1> USE UsersAre
<1>0. /\ QueuesAreOwned /\ StartsAnew
      /\ uses \in [Users -> Users \cup {NoQueue}] /\ queue \in [Users -> Seq(Log)]
      /\ pc \in [Users -> {"start", "build", "ready", "release"}]
      /\ \A u \in Users : pc[u] \in {"ready", "release"} => uses[u] \in Users
      /\ queue' \in [Users -> Seq(Log)]
  BY DEF LogInv, LogTypeOK
<1>1. CASE pc[Processor] # "ready"
  BY <1>0, <1>1 DEF StartsAnew, FindQueue, BindQueue, TraceLog, ReleaseSemaphore,
                    ProducerDies, procVars
<1>2. CASE pc[Processor] = "ready"
  <2>1. ASSUME NEW u \in Users, FindQueue(u)
        PROVE  /\ uses'[Processor] = uses[Processor] /\ Pending' = Pending
               /\ step' = step /\ logAccidents' = logAccidents
    BY <1>0, <1>2, <2>1 DEF FindQueue, Pending, procVars
  <2>2. ASSUME NEW u \in Users, BindQueue(u)
        PROVE  /\ uses'[Processor] = uses[Processor] /\ Pending' = Pending
               /\ step' = step /\ logAccidents \subseteq logAccidents'
    BY <1>0, <1>2, <2>2 DEF BindQueue, Pending, procVars, QueuesAreOwned
  <2>3. ASSUME NEW p \in Producer, TraceLog(p)
        PROVE  /\ uses'[Processor] = uses[Processor] /\ pc'[p] = "release"
               /\ Pending # <<>> => Pending' # <<>>
               /\ step' = step /\ logAccidents' = logAccidents
    <3>1. /\ uses' = uses /\ step' = step /\ logAccidents' = logAccidents
          /\ uses[p] \in Users /\ pc'[p] = "release"
          /\ \/ queue' = queue
             \/ queue' = [queue EXCEPT ![uses[p]] = Append(@, logged + 1)]
      BY <1>0, <2>3 DEF TraceLog, procVars
    <3>2. uses[Processor] \in Users
      BY <1>0, <1>2
    <3>3. ASSUME queue[uses[Processor]] # <<>>, queue'[uses[Processor]] = <<>> PROVE FALSE
      BY <1>0, <3>1, <3>2, <3>3
    <3> QED BY <3>1, <3>3 DEF Pending
  <2>4. ASSUME NEW p \in Producer, ReleaseSemaphore(p) \/ ProducerDies(p)
        PROVE  /\ uses'[Processor] = uses[Processor] /\ Pending' = Pending
               /\ step' = step /\ logAccidents \subseteq logAccidents'
    BY <1>0, <1>2, <2>4 DEF ReleaseSemaphore, ProducerDies, Pending, procVars
  <2> QED BY <1>0, <1>2, <2>1, <2>2, <2>3, <2>4
<1> QED BY <1>1, <1>2

(* The worker does not wait for a semaphore that nobody will release.       *)
LEMMA WakeupsKept ==
    ASSUME LogInv, [LogNext]_logVars, LogTypeOK'
    PROVE  NoLostWakeup'
<1> USE UsersAre
<1>0. /\ NoLostWakeup
      /\ step \in [Thread -> {"idle", "loop", "test", "acquire", "dequeue", "write",
                              "rolling", "signalled", "close", "terminate"}]
      /\ pc \in [Users -> {"start", "build", "ready", "release"}]
      /\ queue \in [Users -> Seq(Log)]
      /\ sem \in Nat /\ SemMax \in Nat \ {0}
      /\ "worker" \in Thread
      /\ \A t \in Thread : After(t) # "acquire"
  <2>1. /\ NoLostWakeup
        /\ step \in [Thread -> {"idle", "loop", "test", "acquire", "dequeue", "write",
                                "rolling", "signalled", "close", "terminate"}]
        /\ pc \in [Users -> {"start", "build", "ready", "release"}]
        /\ queue \in [Users -> Seq(Log)]
        /\ sem \in 0 .. SemMax
    BY DEF LogInv, LogTypeOK
  <2>2. "worker" \in Thread /\ \A t \in Thread : After(t) # "acquire"
    BY DEF Thread, After
  <2>3. sem \in Nat /\ SemMax \in Nat \ {0}
    BY <2>1, ConstantsAssumption
  <2> QED BY <2>1, <2>2, <2>3
<1>1. CASE /\ step'["worker"] = "acquire" => step["worker"] = "acquire"
           /\ pc' = pc /\ Pending' = Pending /\ sem' = sem /\ logAccidents \subseteq logAccidents'
  BY <1>0, <1>1 DEF NoLostWakeup, ProcessorRuns
<1>2. CASE step'["worker"] # "acquire"
  BY <1>2 DEF NoLostWakeup
<1>3. ASSUME NEW u \in Users, FindQueue(u) \/ BindQueue(u) PROVE NoLostWakeup'
  <2>1. sem' = sem /\ \A p \in Producer : pc[p] = "release" => pc'[p] = "release"
    BY <1>0, <1>3 DEF FindQueue, BindQueue
  <2>2. \/ step'["worker"] # "acquire"
        \/ /\ pc[Processor] = "ready" /\ step' = step /\ logAccidents \subseteq logAccidents'
           /\ Pending' = Pending \/ \E p \in Producer : pc'[p] = "release"
    BY <1>3, UpKeepsPending
  <2> QED BY <1>0, <1>2, <2>1, <2>2 DEF NoLostWakeup, ProcessorRuns
<1>4. ASSUME NEW p \in Producer, TraceLog(p) PROVE NoLostWakeup'
  <2>1. pc'[p] = "release"
    BY <1>0, <1>4 DEF TraceLog
  <2> QED BY <2>1 DEF NoLostWakeup
<1>5. ASSUME NEW p \in Producer, ReleaseSemaphore(p) PROVE NoLostWakeup'
  <2>1. sem' > 0
    BY <1>0, <1>5 DEF ReleaseSemaphore
  <2> QED BY <2>1 DEF NoLostWakeup
<1>6. ASSUME NEW p \in Producer, ProducerDies(p) PROVE NoLostWakeup'
  <2>1. CASE pc[p] = "release"
    BY <1>6, <2>1 DEF ProducerDies, NoLostWakeup
  <2>2. CASE pc[p] # "release"
    <3>1. /\ sem' = sem /\ step' = step /\ logAccidents' = logAccidents /\ queue' = queue
          /\ pc'[Processor] = pc[Processor]
          /\ \A q \in Producer : pc[q] = "release" => pc'[q] = "release"
      BY <1>0, <1>6, <2>2 DEF ProducerDies, procVars
    <3>2. \/ step'["worker"] # "acquire"
          \/ Pending' = Pending \/ \E q \in Producer : pc'[q] = "release"
      BY <1>6, <1>0, <3>1, UpKeepsPending
    <3> QED BY <1>0, <1>2, <3>1, <3>2 DEF NoLostWakeup, ProcessorRuns
  <2> QED BY <2>1, <2>2
<1>7. CASE EndProcess
  BY <1>0, <1>2, <1>7 DEF EndProcess
<1>8. CASE Loop \/ Acquire
  BY <1>0, <1>2, <1>8 DEF Loop, Acquire, Go
<1>9. CASE CatchSignal \/ SetShuttingDown \/ Close
  <2>1. "closer" # "worker" /\ UNCHANGED <<pc, uses, queue, sem, logAccidents>>
    BY <1>9 DEF CatchSignal, SetShuttingDown, Close, setUp
  <2>2. step'["worker"] = step["worker"]
    BY <1>0, <1>9 DEF CatchSignal, SetShuttingDown, Close, Go
  <2>3. Pending' = Pending
    BY <2>1 DEF Pending
  <2> QED BY <1>1, <2>1, <2>2, <2>3
<1>10. ASSUME NEW t \in Thread, TestEmpty(t) PROVE NoLostWakeup'
  <2>1. UNCHANGED <<pc, uses, queue, sem, logAccidents>> /\ Pending' = Pending
    BY <1>10 DEF TestEmpty, setUp, Pending
  <2>2. CASE Pending = <<>>
    BY <2>1, <2>2 DEF NoLostWakeup
  <2>3. CASE Pending # <<>>
    <3>1. step'["worker"] = "acquire" => step["worker"] = "acquire"
      BY <1>0, <1>10, <2>3 DEF TestEmpty, Go
    <3> QED BY <1>1, <2>1, <3>1
  <2> QED BY <2>2, <2>3
<1>11. ASSUME NEW t \in Thread, Dequeue(t) PROVE NoLostWakeup'
  <2>1. UNCHANGED <<pc, uses, sem>> /\ logAccidents \subseteq logAccidents'
    BY <1>11 DEF Dequeue, setUp
  <2>2. step'["worker"] = "acquire" => step["worker"] = "acquire"
    BY <1>0, <1>11 DEF Dequeue, Go
  <2>3. Pending' # <<>> => Pending # <<>>
    BY <1>11, <2>1 DEF Dequeue, Pending
  <2> QED BY <1>0, <2>1, <2>2, <2>3 DEF NoLostWakeup, ProcessorRuns
<1>12. ASSUME NEW t \in Thread, Write(t) \/ ShiftKept(t) \/ ShiftActive(t)
       PROVE  NoLostWakeup'
  <2>1. UNCHANGED <<pc, uses, queue, sem>> /\ logAccidents \subseteq logAccidents'
    BY <1>12 DEF Write, ShiftKept, ShiftActive, setUp
  <2>2. step'["worker"] = "acquire" => step["worker"] = "acquire"
    BY <1>0, <1>12 DEF Write, ShiftKept, ShiftActive, Go
  <2> QED BY <1>1, <2>1, <2>2 DEF Pending
<1>13. CASE UNCHANGED logVars
  BY <1>0, <1>13 DEF logVars, NoLostWakeup, ProcessorRuns, Pending
<1> QED
  BY <1>3, <1>4, <1>5, <1>6, <1>7, <1>8, <1>9, <1>10, <1>11, <1>12, <1>13, LogStepIs

(* One thread at a time writes or moves files.                              *)
LEMMA ReadersKept ==
    ASSUME LogInv, [LogNext]_logVars, LogTypeOK'
    PROVE  OneReader'
<1> USE UsersAre, ThreadsAre
<1>0. /\ OneReader /\ queue \in [Users -> Seq(Log)]
      /\ step \in [Thread -> {"idle", "loop", "test", "acquire", "dequeue", "write",
                              "rolling", "signalled", "close", "terminate"}]
      /\ "worker" \in Thread /\ "closer" \in Thread
      /\ \A t \in Thread : t = "worker" \/ t = "closer"
      /\ \A t \in Thread : After(t) \notin {"dequeue", "write", "rolling"}
  BY DEF LogInv, LogTypeOK, Thread, After
<1>1. CASE /\ logAccidents \subseteq logAccidents'
           /\ \A t \in Thread : step'[t] \in {"dequeue", "write", "rolling"} => step'[t] = step[t]
           /\ (\E t \in Thread : step[t] = "dequeue") /\ Pending # <<>> => Pending' # <<>>
  BY <1>0, <1>1 DEF OneReader
<1>2. CASE \/ \E u \in Users : FindQueue(u) \/ BindQueue(u)
           \/ \E p \in Producer : TraceLog(p) \/ ReleaseSemaphore(p) \/ ProducerDies(p)
  <2>1. /\ step' = step /\ logAccidents \subseteq logAccidents'
        /\ (\E t \in Thread : step[t] = "dequeue") /\ Pending # <<>> => Pending' # <<>>
    BY <1>0, <1>2, UpKeepsPending
  <2> QED BY <1>1, <2>1
<1>3. CASE EndProcess
  <2>1. \A t \in Thread : step'[t] \in {"loop", "idle"}
    BY <1>3 DEF EndProcess
  <2> QED BY <1>0, <2>1 DEF OneReader
<1>4. CASE Loop \/ Acquire
  <2>1. /\ UNCHANGED <<uses, queue, logAccidents>>
        /\ step' = [step EXCEPT !["worker"] = "test"]
    BY <1>4 DEF Loop, Acquire, setUp, Go
  <2> QED BY <1>0, <1>1, <2>1 DEF Pending
<1>5. CASE CatchSignal \/ SetShuttingDown \/ Close
  <2>1. /\ UNCHANGED <<uses, queue, logAccidents>>
        /\ \E s \in {"signalled", "test", "terminate"} : step' = [step EXCEPT !["closer"] = s]
    BY <1>5 DEF CatchSignal, SetShuttingDown, Close, setUp, Go
  <2> QED BY <1>0, <1>1, <2>1 DEF Pending
<1>6. ASSUME NEW t \in Thread, TestEmpty(t) PROVE OneReader'
  <2>1. UNCHANGED <<uses, queue, logAccidents>> /\ Pending' = Pending
    BY <1>6 DEF TestEmpty, setUp, Pending
  <2>2. /\ step[t] = "test"
        /\ \A u \in Thread \ {t} : step'[u] = step[u]
        /\ (step'[t] = "dequeue" /\ Pending # <<>>) \/ step'[t] \in {"acquire", "close"}
    BY <1>0, <1>6 DEF TestEmpty, Go
  <2> QED BY <1>0, <2>1, <2>2 DEF OneReader
<1>7. ASSUME NEW t \in Thread, Dequeue(t) PROVE OneReader'
  <2>1. /\ step[t] = "dequeue" /\ step'[t] = "write"
        /\ step'[Other(t)] = step[Other(t)]
        /\ "two_readers" \in logAccidents'
               \/ step[Other(t)] \notin {"dequeue", "write", "rolling"}
    BY <1>0, <1>7 DEF Dequeue, Go
  <2> QED BY <1>0, <2>1 DEF OneReader
<1>8. ASSUME NEW t \in Thread, Write(t) PROVE OneReader'
  <2>1. /\ step[t] = "write" /\ "two_readers" \notin logAccidents
        /\ step'[t] \in {"rolling", After(t)}
        /\ step'[Other(t)] = step[Other(t)]
        /\ Pending' = Pending
    BY <1>0, <1>8 DEF Write, Go, ProcessorRuns, Pending, setUp
  <2> QED BY <1>0, <2>1 DEF OneReader
<1>9. ASSUME NEW t \in Thread, ShiftKept(t) \/ ShiftActive(t) PROVE OneReader'
  <2>1. /\ logAccidents \subseteq logAccidents' /\ Pending' = Pending
        /\ step' = step \/ step' = [step EXCEPT ![t] = After(t)]
    BY <1>9 DEF ShiftKept, ShiftActive, Go, Pending, setUp
  <2> QED BY <1>0, <1>1, <2>1
<1>10. CASE UNCHANGED logVars
  BY <1>1, <1>10 DEF logVars, Pending
<1> QED BY <1>2, <1>3, <1>4, <1>5, <1>6, <1>7, <1>8, <1>9, <1>10, LogStepIs

(* How the files change in a step: a log is written that is newer than all, *)
(* the oldest file is removed, or one becomes the next, and only the oldest *)
(* is overwritten as long as files can be renamed.                          *)
LEMMA FileStepIs ==
    ASSUME LogInv, [LogNext]_logVars
    PROVE  \/ UNCHANGED fileVars
           \/ \E t \in Thread :
                 /\ Write(t) /\ stream = "open"
                 /\ file' = [file EXCEPT ![0] = Append(@, hand[t])] /\ removed' = removed
                 /\ hand[t] \in Log /\ \A n \in Written \cup removed : n < hand[t]
           \/ RemoveFile(Oldest)
           \/ \E i \in FileNo :
                 /\ i + 1 \in FileNo
                 /\ RenameFile(i, i + 1)
                 /\ "rename_failed" \notin logAccidents => i + 1 = Oldest \/ file[i + 1] = <<>>
<1>0. LogTypeOK /\ RoomIsMade /\ HandsAreNew
  BY DEF LogInv
<1>1. ASSUME NEW u \in Users, FindQueue(u) \/ BindQueue(u) PROVE UNCHANGED fileVars
  BY <1>1 DEF FindQueue, BindQueue
<1>2. ASSUME NEW p \in Producer, TraceLog(p) \/ ReleaseSemaphore(p) \/ ProducerDies(p)
      PROVE  UNCHANGED fileVars
  BY <1>2 DEF TraceLog, ReleaseSemaphore, ProducerDies
<1>3. EndProcess => UNCHANGED fileVars
  BY DEF EndProcess
<1>4. ASSUME Loop \/ Acquire \/ CatchSignal \/ SetShuttingDown \/ Close
      PROVE  UNCHANGED fileVars
  BY <1>4 DEF Loop, Acquire, CatchSignal, SetShuttingDown, Close
<1>5. ASSUME NEW t \in Thread, TestEmpty(t) \/ Dequeue(t) PROVE UNCHANGED fileVars
  BY <1>5 DEF TestEmpty, Dequeue
<1>6. ASSUME NEW t \in Thread, Write(t)
      PROVE  \/ UNCHANGED fileVars
             \/ /\ stream = "open"
                /\ file' = [file EXCEPT ![0] = Append(@, hand[t])] /\ removed' = removed
                /\ hand[t] \in Log /\ \A n \in Written \cup removed : n < hand[t]
  <2>1. hand[t] \in Log /\ \A n \in Written \cup removed : n < hand[t]
    BY <1>0, <1>6 DEF Write, ProcessorRuns, HandsAreNew, LogTypeOK
  <2>2. removed' = removed
    BY <1>6 DEF Write
  <2>3. file' = IF stream = "open" THEN [file EXCEPT ![0] = Append(@, hand[t])] ELSE file
    BY <1>6 DEF Write
  <2> QED BY <2>1, <2>2, <2>3 DEF fileVars
<1>7. ASSUME NEW t \in Thread, ShiftKept(t)
      PROVE  \/ UNCHANGED fileVars
             \/ RemoveFile(Oldest)
             \/ /\ at[t] \in FileNo /\ at[t] + 1 \in FileNo
                /\ RenameFile(at[t], at[t] + 1)
                /\ "rename_failed" \notin logAccidents
                      => at[t] + 1 = Oldest \/ file[at[t] + 1] = <<>>
  <2>1. /\ step[t] = "rolling" /\ at[t] > 0
        /\ \/ UNCHANGED fileVars
           \/ at[t] = Keep - 1 /\ RemoveFile(at[t])
           \/ at[t] # Keep - 1 /\ RenameFile(at[t], at[t] + 1)
    BY <1>7 DEF ShiftKept
  <2>2. at[t] \in FileNo /\ at[t] \in Nat /\ at[t] < Keep /\ Keep \in Nat
    BY <2>1, MoverIs
  <2>3. at[t] = Keep - 1 => at[t] = Oldest
    BY <2>1, <2>2 DEF Oldest
  <2>4. CASE at[t] # Keep - 1
    <3>1. at[t] + 1 \in FileNo
      BY <2>1, <2>4, MoverIs
    <3>2. at[t] + 1 = Oldest \/ at[t] + 1 < Oldest
      BY <3>1, <2>2, PlacesOfFiles DEF FileNo
    <3> QED BY <1>0, <2>1, <2>2, <2>4, <3>1, <3>2 DEF RoomIsMade
  <2> QED BY <2>1, <2>3, <2>4
<1>8. ASSUME NEW t \in Thread, ShiftActive(t)
      PROVE  \/ UNCHANGED fileVars
             \/ /\ 0 \in FileNo /\ 0 + 1 \in FileNo
                /\ RenameFile(0, 0 + 1)
                /\ "rename_failed" \notin logAccidents => 0 + 1 = Oldest \/ file[0 + 1] = <<>>
  <2>1. step[t] = "rolling" /\ at[t] = 0 /\ (UNCHANGED fileVars \/ RenameFile(0, 0 + 1))
    BY <1>8 DEF ShiftActive
  <2>2. "rename_failed" \notin logAccidents => 0 + 1 = Oldest \/ file[0 + 1] = <<>>
    <3>1. Oldest = 0 + 1 \/ at[t] + 1 < Oldest
      BY <2>1, PlacesOfFiles
    <3>2. at[t] + 1 = 0 + 1
      BY <2>1
    <3> QED BY <1>0, <2>1, <3>1, <3>2 DEF RoomIsMade
  <2>3. 0 \in FileNo /\ 0 + 1 \in FileNo
    BY PlacesOfFiles
  <2> QED BY <2>1, <2>2, <2>3
<1>9. UNCHANGED logVars => UNCHANGED fileVars
  BY DEF logVars, fileVars
<1>10. CASE \E t \in Thread : Write(t)
  BY <1>6, <1>10
<1>11. CASE \E t \in Thread : ShiftKept(t)
  BY <1>7, <1>11
<1>12. CASE \E t \in Thread : ShiftActive(t)
  BY <1>8, <1>12
<1> QED BY <1>1, <1>2, <1>3, <1>4, <1>5, <1>9, <1>10, <1>11, <1>12, LogStepIs

(* What is in each file after one of these.                                 *)
LEMMA WrittenTo ==
    ASSUME LogTypeOK, NEW n \in Log,
           file' = [file EXCEPT ![0] = Append(@, n)]
    PROVE  /\ \A i \in FileNo : LogsIn(file'[i]) =
                  IF i = 0 THEN LogsIn(file[0]) \cup {n} ELSE LogsIn(file[i])
           /\ Written' = Written \cup {n}
<1>1. file \in [FileNo -> Seq(Log)] /\ 0 \in FileNo
  BY PlacesOfFiles DEF LogTypeOK
<1>2. LogsIn(Append(file[0], n)) = LogsIn(file[0]) \cup {n}
  BY <1>1, AppendedIs
<1>3. ASSUME NEW i \in FileNo
      PROVE  LogsIn(file'[i]) = IF i = 0 THEN LogsIn(file[0]) \cup {n} ELSE LogsIn(file[i])
  BY <1>1, <1>2
<1> QED BY <1>1, <1>3 DEF Written

LEMMA RemovedIs ==
    ASSUME LogTypeOK, NEW k \in FileNo, RemoveFile(k)
    PROVE  /\ \A i \in FileNo : LogsIn(file'[i]) = IF i = k THEN {} ELSE LogsIn(file[i])
           /\ removed' = removed \cup LogsIn(file[k])
           /\ Written' \subseteq Written
           /\ Written' \cup removed' = Written \cup removed
<1>1. /\ file \in [FileNo -> Seq(Log)] /\ file' = [file EXCEPT ![k] = <<>>]
      /\ removed' = removed \cup LogsIn(file[k])
  BY DEF LogTypeOK, RemoveFile
<1>2. ASSUME NEW i \in FileNo
      PROVE  LogsIn(file'[i]) = IF i = k THEN {} ELSE LogsIn(file[i])
  BY <1>1, LogsAre
<1>3. Written' \subseteq Written
  BY <1>2 DEF Written
<1>4. Written \subseteq Written' \cup LogsIn(file[k])
  BY <1>2 DEF Written
<1>5. LogsIn(file[k]) \subseteq Written
  BY DEF Written
<1> QED BY <1>1, <1>2, <1>3, <1>4, <1>5

LEMMA RenamedIs ==
    ASSUME LogTypeOK, NEW k \in FileNo, k + 1 \in FileNo, RenameFile(k, k + 1)
    PROVE  /\ \A i \in FileNo : LogsIn(file'[i]) =
                  IF i = k THEN {} ELSE IF i = k + 1 THEN LogsIn(file[k])
                                   ELSE LogsIn(file[i])
           /\ removed' = removed \cup LogsIn(file[k + 1])
           /\ Written' \subseteq Written
           /\ Written' \cup removed' = Written \cup removed
<1>1. /\ file \in [FileNo -> Seq(Log)] /\ k \in Nat
      /\ file' = [file EXCEPT ![k + 1] = file[k], ![k] = <<>>]
      /\ removed' = removed \cup LogsIn(file[k + 1])
  BY PlacesOfFiles DEF LogTypeOK, RenameFile
<1>2. k + 1 # k
  BY <1>1
<1>3. file'[k] = <<>> /\ file'[k + 1] = file[k]
         /\ \A i \in FileNo \ {k, k + 1} : file'[i] = file[i]
  BY <1>1, <1>2
<1>4. ASSUME NEW i \in FileNo
      PROVE  LogsIn(file'[i]) =
                  IF i = k THEN {} ELSE IF i = k + 1 THEN LogsIn(file[k])
                                   ELSE LogsIn(file[i])
  BY <1>3, LogsAre
<1>5. Written' \subseteq Written
  <2>1. ASSUME NEW i \in FileNo PROVE LogsIn(file'[i]) \subseteq Written
    BY <1>4 DEF Written
  <2> QED BY <2>1 DEF Written
<1>6. Written \subseteq Written' \cup LogsIn(file[k + 1])
  <2>1. ASSUME NEW i \in FileNo, i # k + 1 PROVE LogsIn(file[i]) \subseteq Written'
    <3>1. CASE i = k
      <4>1. LogsIn(file'[k + 1]) = LogsIn(file[i])
        BY <1>3, <3>1
      <4> QED BY <4>1 DEF Written
    <3>2. CASE i # k
      <4>1. LogsIn(file'[i]) = LogsIn(file[i])
        BY <1>4, <2>1, <3>2
      <4> QED BY <4>1 DEF Written
    <3> QED BY <3>1, <3>2
  <2> QED BY <2>1 DEF Written
<1>7. LogsIn(file[k + 1]) \subseteq Written
  BY DEF Written
<1> QED BY <1>1, <1>4, <1>5, <1>6, <1>7

(* The order of the files.                                                  *)
LEMMA FileOrderKept ==
    ASSUME LogInv, [LogNext]_logVars
    PROVE  FilesInOrder'
<1>0. /\ LogTypeOK /\ FilesInOrder /\ file \in [FileNo -> Seq(Log)] /\ <<>> \in Seq(Log)
      /\ \A i \in FileNo : LogsIn(file[i]) \subseteq Log /\ LogsIn(file[i]) \subseteq Written
  BY LogsAre DEF LogInv, LogTypeOK, Written
<1>1. CASE UNCHANGED fileVars
  BY <1>0, <1>1 DEF fileVars, FilesInOrder
<1>2. ASSUME NEW n \in Log, \A m \in Written : m < n,
             file' = [file EXCEPT ![0] = Append(@, n)]
      PROVE  FilesInOrder'
  <2>1. /\ DOMAIN file'[0] = 1 .. Len(file[0]) + 1 /\ DOMAIN file[0] = 1 .. Len(file[0])
        /\ \A k \in 1 .. Len(file[0]) : file'[0][k] = file[0][k]
        /\ file'[0][Len(file[0]) + 1] = n
        /\ Len(file[0]) \in Nat
        /\ \A i \in FileNo \ {0} : file'[i] = file[i]
    <3>1. file[0] \in Seq(Log) /\ file'[0] = Append(file[0], n)
      BY <1>0, <1>2, PlacesOfFiles
    <3> QED BY <1>0, <1>2, <3>1, AppendedIs
  <2>2. ASSUME NEW i \in FileNo, NEW k \in DOMAIN file'[i], NEW l \in DOMAIN file'[i], k < l
        PROVE  file'[i][k] < file'[i][l]
    <3>1. CASE i # 0
      BY <1>0, <2>1, <2>2, <3>1 DEF FilesInOrder
    <3>2. CASE i = 0 /\ l = Len(file[0]) + 1
      <4>1. k \in 1 .. Len(file[0])
        BY <2>1, <2>2, <3>2
      <4>2. file[0][k] \in Written
        BY <1>0, <2>1, <4>1, PlacesOfFiles DEF LogsIn
      <4> QED BY <1>2, <2>1, <3>2, <4>1, <4>2
    <3>3. CASE i = 0 /\ l # Len(file[0]) + 1
      <4>1. k \in 1 .. Len(file[0]) /\ l \in 1 .. Len(file[0])
        BY <2>1, <2>2, <3>3
      <4> QED BY <1>0, <2>1, <2>2, <3>3, <4>1, PlacesOfFiles DEF FilesInOrder
    <3> QED BY <3>1, <3>2, <3>3
  <2>3. ASSUME NEW i \in FileNo, NEW j \in FileNo, i < j,
               NEW a \in LogsIn(file'[i]), NEW b \in LogsIn(file'[j])
        PROVE  b < a
    <3>1. /\ LogsIn(file'[j]) = LogsIn(file[j])
          /\ a \in LogsIn(file[i]) \/ a = n
      <4>1. i \in Nat /\ j \in Nat /\ j # 0
        BY <2>3, PlacesOfFiles
      <4>2. \A x \in FileNo : LogsIn(file'[x]) =
                  IF x = 0 THEN LogsIn(file[0]) \cup {n} ELSE LogsIn(file[x])
        BY <1>0, <1>2, WrittenTo
      <4> QED BY <2>3, <4>1, <4>2
    <3> QED BY <1>0, <1>2, <2>3, <3>1 DEF FilesInOrder
  <2> QED BY <2>2, <2>3 DEF FilesInOrder
<1>3. CASE RemoveFile(Oldest)
  <2>1. Oldest \in FileNo
    BY PlacesOfFiles DEF FileNo
  <2>2. \A i \in FileNo : file'[i] = file[i] \/ file'[i] = <<>>
    BY <1>0, <1>3, <2>1 DEF RemoveFile
  <2>3. \A i \in FileNo : LogsIn(file'[i]) \subseteq LogsIn(file[i])
    BY <1>0, <1>3, <2>1, RemovedIs
  <2>4. DOMAIN <<>> = {}
    OBVIOUS
  <2> QED BY <1>0, <2>2, <2>3, <2>4 DEF FilesInOrder
<1>4. ASSUME NEW k \in FileNo, k + 1 \in FileNo, RenameFile(k, k + 1) PROVE FilesInOrder'
  <2>1. ASSUME NEW i \in FileNo
        PROVE  file'[i] = <<>> \/ \E j \in FileNo : file'[i] = file[j]
    BY <1>0, <1>4 DEF RenameFile
  <2>2. DOMAIN <<>> = {}
    OBVIOUS
  <2>3. ASSUME NEW i \in FileNo, NEW j \in FileNo, i < j,
               NEW a \in LogsIn(file'[i]), NEW b \in LogsIn(file'[j])
        PROVE  b < a
    <3>1. PICK x \in FileNo : a \in LogsIn(file[x]) /\ (IF i = k + 1 THEN x = k ELSE x = i)
                                /\ i # k
      BY <1>0, <1>4, RenamedIs
    <3>2. PICK y \in FileNo : b \in LogsIn(file[y]) /\ (IF j = k + 1 THEN y = k ELSE y = j)
                                /\ j # k
      BY <1>0, <1>4, RenamedIs
    <3>3. x < y
      BY <2>3, <3>1, <3>2, PlacesOfFiles
    <3> QED BY <1>0, <3>1, <3>2, <3>3 DEF FilesInOrder
  <2> QED BY <1>0, <2>1, <2>2, <2>3 DEF FilesInOrder
<1>5. CASE \E t \in Thread :
                 /\ file' = [file EXCEPT ![0] = Append(@, hand[t])]
                 /\ hand[t] \in Log /\ \A n \in Written \cup removed : n < hand[t]
  BY <1>2, <1>5
<1> QED BY <1>1, <1>3, <1>4, <1>5, FileStepIs

(* What becomes of the logs that are written or given up: they stay so, and *)
(* a thread adds the one it has, which is newer.                            *)
LEMMA WrittenGrows ==
    ASSUME LogInv, [LogNext]_logVars
    PROVE  \/ /\ Written' \cup removed' = Written \cup removed
              /\ Written' \subseteq Written
           \/ \E t \in Thread :
                 /\ Write(t) /\ stream = "open"
                 /\ hand[t] \in Log /\ \A n \in Written \cup removed : n < hand[t]
                 /\ Written' = Written \cup {hand[t]} /\ removed' = removed
<1>0. LogTypeOK /\ Oldest \in FileNo
  BY PlacesOfFiles DEF LogInv, FileNo
<1>1. CASE UNCHANGED fileVars
  BY <1>1 DEF fileVars, Written
<1>2. ASSUME NEW t \in Thread, Write(t), stream = "open",
             file' = [file EXCEPT ![0] = Append(@, hand[t])], removed' = removed,
             hand[t] \in Log, \A n \in Written \cup removed : n < hand[t]
      PROVE  Written' = Written \cup {hand[t]}
  BY <1>0, <1>2, WrittenTo
<1>3. CASE RemoveFile(Oldest)
  BY <1>0, <1>3, RemovedIs
<1>4. ASSUME NEW i \in FileNo, i + 1 \in FileNo, RenameFile(i, i + 1)
      PROVE  /\ Written' \cup removed' = Written \cup removed
             /\ Written' \subseteq Written
  BY <1>0, <1>4, RenamedIs
<1> QED BY <1>1, <1>2, <1>3, <1>4, FileStepIs

(* Accidents are not forgotten.                                             *)
LEMMA LogAccidentsStay ==
    ASSUME [LogNext]_logVars
    PROVE  logAccidents \subseteq logAccidents'
<1>1. ASSUME NEW u \in Users, FindQueue(u) \/ BindQueue(u) PROVE logAccidents \subseteq logAccidents'
  BY <1>1 DEF FindQueue, BindQueue
<1>2. ASSUME NEW p \in Producer, TraceLog(p) \/ ReleaseSemaphore(p) \/ ProducerDies(p)
      PROVE  logAccidents \subseteq logAccidents'
  BY <1>2 DEF TraceLog, ReleaseSemaphore, ProducerDies
<1>3. ASSUME EndProcess \/ Loop \/ Acquire \/ CatchSignal \/ SetShuttingDown \/ Close
      PROVE  logAccidents \subseteq logAccidents'
  BY <1>3 DEF EndProcess, Loop, Acquire, CatchSignal, SetShuttingDown, Close
<1>4. ASSUME NEW t \in Thread, TestEmpty(t) \/ Dequeue(t) PROVE logAccidents \subseteq logAccidents'
  BY <1>4 DEF TestEmpty, Dequeue
<1>5. ASSUME NEW t \in Thread, Write(t) \/ ShiftKept(t) \/ ShiftActive(t)
      PROVE  logAccidents \subseteq logAccidents'
  BY <1>5 DEF Write, ShiftKept, ShiftActive
<1>6. UNCHANGED logVars => logAccidents' = logAccidents
  BY DEF logVars
<1> QED BY <1>1, <1>2, <1>3, <1>4, <1>5, <1>6, LogStepIs

(* The oldest logs are given up first.                                      *)
LEMMA OldestGoKept ==
    ASSUME LogInv, [LogNext]_logVars
    PROVE  OldestGoFirst'
<1>0. /\ LogTypeOK /\ FilesInOrder /\ OldestGoFirst /\ removed \subseteq Log
      /\ file \in [FileNo -> Seq(Log)]
      /\ Oldest \in FileNo
      /\ \A i \in FileNo : i < Oldest \/ i = Oldest
  BY PlacesOfFiles DEF LogInv, FileNo, LogTypeOK
<1>1. SUFFICES ASSUME "rename_failed" \notin logAccidents PROVE OldestGoFirst'
  BY LogAccidentsStay DEF OldestGoFirst
<1>2. CASE UNCHANGED fileVars
  BY <1>0, <1>1, <1>2 DEF OldestGoFirst, fileVars, Written
<1>3. CASE \E t \in Thread :
                 /\ hand[t] \in Log /\ \A n \in Written \cup removed : n < hand[t]
                 /\ file' = [file EXCEPT ![0] = Append(@, hand[t])] /\ removed' = removed
  <2>1. PICK t \in Thread :
                 /\ hand[t] \in Log /\ \A n \in Written \cup removed : n < hand[t]
                 /\ file' = [file EXCEPT ![0] = Append(@, hand[t])] /\ removed' = removed
    BY <1>3
  <2>2. Written' = Written \cup {hand[t]}
    BY <1>0, <2>1, WrittenTo
  <2> QED BY <1>0, <1>1, <2>1, <2>2 DEF OldestGoFirst
<1>4. CASE RemoveFile(Oldest)
  <2>1. \A i \in FileNo : LogsIn(file'[i]) = IF i = Oldest THEN {} ELSE LogsIn(file[i])
    BY <1>0, <1>4, RemovedIs
  <2>2. removed' = removed \cup LogsIn(file[Oldest]) /\ Written' \subseteq Written
    BY <1>0, <1>4, RemovedIs
  <2>3. ASSUME NEW n \in LogsIn(file[Oldest]), NEW m \in Written' PROVE n < m
    <3>1. PICK i \in FileNo : m \in LogsIn(file'[i])
      BY <2>3 DEF Written
    <3>2. i # Oldest /\ m \in LogsIn(file[i])
      BY <2>1, <3>1
    <3>3. i < Oldest
      BY <1>0, <3>2
    <3> QED BY <1>0, <2>3, <3>2, <3>3 DEF FilesInOrder
  <2> QED BY <1>0, <1>1, <2>2, <2>3 DEF OldestGoFirst
<1>5. ASSUME NEW k \in FileNo, k + 1 \in FileNo, RenameFile(k, k + 1),
             k + 1 = Oldest \/ file[k + 1] = <<>>
      PROVE  OldestGoFirst'
  <2>1. \A i \in FileNo : LogsIn(file'[i]) =
                  IF i = k THEN {} ELSE IF i = k + 1 THEN LogsIn(file[k])
                                   ELSE LogsIn(file[i])
    BY <1>0, <1>5, RenamedIs
  <2>2. removed' = removed \cup LogsIn(file[k + 1]) /\ Written' \subseteq Written
    BY <1>0, <1>5, RenamedIs
  <2>3. ASSUME NEW n \in LogsIn(file[k + 1]), NEW m \in Written' PROVE n < m
    <3>1. PICK i \in FileNo : m \in LogsIn(file'[i])
      BY <2>3 DEF Written
    <3>2. \E j \in FileNo : j # k + 1 /\ m \in LogsIn(file[j])
      <4>1. k # k + 1
        BY <1>5, PlacesOfFiles
      <4> QED BY <1>5, <2>1, <3>1, <4>1
    <3>3. k + 1 = Oldest
      BY <1>5, <2>3, LogsAre
    <3>4. PICK j \in FileNo : j < Oldest /\ m \in LogsIn(file[j])
      BY <1>0, <3>2, <3>3
    <3> QED BY <1>0, <2>3, <3>3, <3>4 DEF FilesInOrder
  <2> QED BY <1>0, <1>1, <2>2, <2>3 DEF OldestGoFirst
<1> QED BY <1>1, <1>2, <1>3, <1>4, <1>5, FileStepIs

(* The file behind the one that is moved next.                              *)
LEMMA RoomKept ==
    ASSUME LogInv, [LogNext]_logVars
    PROVE  RoomIsMade'
<1>0. /\ LogTypeOK /\ RoomIsMade
      /\ step \in [Thread -> {"idle", "loop", "test", "acquire", "dequeue", "write",
                              "rolling", "signalled", "close", "terminate"}]
      /\ at \in [Thread -> FileNo] /\ file \in [FileNo -> Seq(Log)]
      /\ \A t \in Thread : After(t) # "rolling"
      /\ "worker" \in Thread /\ "closer" \in Thread
      /\ \A t, u \in Thread : step[t] = "rolling" /\ u # t => step[u] # "rolling"
  <2>1. \A t, u \in Thread : step[t] = "rolling" /\ u # t => step[u] # "rolling"
    BY ThreadsAre DEF LogInv, OneReader
  <2> QED BY <2>1 DEF LogInv, LogTypeOK, After, Thread
<1>1. CASE /\ at' = at /\ file' = file /\ logAccidents \subseteq logAccidents'
           /\ \A t \in Thread : step'[t] = "rolling" => step[t] = "rolling"
  BY <1>1, <1>0 DEF RoomIsMade
<1>2. ASSUME NEW u \in Users, FindQueue(u) \/ BindQueue(u) PROVE RoomIsMade'
  BY <1>1, <1>2, LogAccidentsStay DEF FindQueue, BindQueue, procVars, fileVars
<1>3. ASSUME NEW p \in Producer, TraceLog(p) \/ ReleaseSemaphore(p) \/ ProducerDies(p)
      PROVE  RoomIsMade'
  BY <1>1, <1>3, LogAccidentsStay DEF TraceLog, ReleaseSemaphore, ProducerDies, procVars, fileVars
<1>4. CASE EndProcess
  BY <1>4 DEF EndProcess, RoomIsMade
<1>5. CASE Loop \/ Acquire \/ CatchSignal \/ SetShuttingDown \/ Close
  <2>1. /\ at' = at /\ file' = file
        /\ \E t \in Thread, s \in {"test", "signalled", "terminate"} :
              step' = [step EXCEPT ![t] = s]
    BY <1>0, <1>5 DEF Loop, Acquire, CatchSignal, SetShuttingDown, Close, Go, fileVars
  <2> QED BY <1>0, <1>1, <2>1, LogAccidentsStay
<1>6. ASSUME NEW t \in Thread, TestEmpty(t) \/ Dequeue(t) PROVE RoomIsMade'
  <2>1. /\ at' = at /\ file' = file
        /\ \E s \in {"dequeue", "acquire", "close", "write"} : step' = [step EXCEPT ![t] = s]
    BY <1>6 DEF TestEmpty, Dequeue, Go, fileVars
  <2> QED BY <1>0, <1>1, <2>1, LogAccidentsStay
<1>7. ASSUME NEW t \in Thread, Write(t) PROVE RoomIsMade'
  <2>1. \/ step' = [step EXCEPT ![t] = After(t)] /\ at' = at
        \/ Keep # 0 /\ step' = [step EXCEPT ![t] = "rolling"] /\ at' = [at EXCEPT ![t] = Keep - 1]
    BY <1>7 DEF Write, Go
  <2>2. \A i \in FileNo \ {0} : file'[i] = file[i]
    BY <1>0, <1>7 DEF Write
  <2>3. ASSUME NEW u \in Thread, step'[u] = "rolling", step[u] = "rolling", at'[u] = at[u]
        PROVE  /\ at'[u] < Keep
               /\ "rename_failed" \notin logAccidents' /\ at'[u] + 1 < Oldest
                     => file'[at'[u] + 1] = <<>>
    <3>1. at[u] + 1 < Oldest => at[u] + 1 \in FileNo \ {0}
      BY <1>0, <2>3, MoverIs, PlacesOfFiles DEF FileNo
    <3> QED BY <1>0, <2>2, <2>3, <3>1, LogAccidentsStay DEF RoomIsMade
  <2>4. ASSUME NEW u \in Thread, Keep # 0, at'[u] = Keep - 1
        PROVE  at'[u] < Keep /\ ~(at'[u] + 1 < Oldest)
    BY <2>4, ConstantsAssumption DEF Oldest
  <2>5. ASSUME NEW u \in Thread, step'[u] = "rolling"
        PROVE  \/ step[u] = "rolling" /\ at'[u] = at[u]
               \/ Keep # 0 /\ at'[u] = Keep - 1
    BY <1>0, <2>1, <2>5
  <2> QED BY <2>3, <2>4, <2>5 DEF RoomIsMade
<1>8. ASSUME NEW t \in Thread, ShiftKept(t) PROVE RoomIsMade'
  <2>1. /\ step[t] = "rolling" /\ step' = step /\ at' = [at EXCEPT ![t] = at[t] - 1]
        /\ \/ file[at[t]] = <<>> /\ file' = file
           \/ at[t] = Keep - 1 /\ file' = [file EXCEPT ![at[t]] = <<>>]
           \/ /\ at[t] # Keep - 1
              /\ file' = [file EXCEPT ![at[t] + 1] = file[at[t]], ![at[t]] = <<>>]
           \/ at[t] = Keep - 1
           \/ "rename_failed" \in logAccidents'
    <3>1. at[t] < Keep /\ Keep \in Nat /\ at[t] \in Nat
      BY <1>8, MoverIs DEF ShiftKept
    <3>2. at[t] = Keep - 1 \/ at[t] < Keep - 1
      BY <3>1
    <3>3. CASE at[t] = Keep - 1
      BY <1>8, <3>3 DEF ShiftKept, RemoveFile, fileVars
    <3>4. CASE at[t] # Keep - 1
      BY <1>8, <3>2, <3>4 DEF ShiftKept, RenameFile, fileVars
    <3> QED BY <3>3, <3>4
  <2>2. /\ at[t] \in FileNo /\ at[t] \in Nat /\ at[t] < Keep /\ Keep \in Nat /\ at[t] > 0
        /\ at[t] # Keep - 1 => at[t] + 1 \in FileNo
        /\ at[t] - 1 \in FileNo
    BY <1>8, MoverIs DEF ShiftKept
  <2>3. at'[t] = at[t] - 1 /\ at'[t] < Keep
    <3>1. at'[t] = at[t] - 1
      BY <1>0, <2>1
    <3>2. at[t] - 1 < Keep
      BY <2>2
    <3> QED BY <3>1, <3>2
  <2>4. "rename_failed" \notin logAccidents' /\ at'[t] + 1 < Oldest => file'[at'[t] + 1] = <<>>
    <3>1. at'[t] + 1 = at[t]
      BY <2>2, <2>3
    <3>2. at[t] = Keep - 1 => ~(at[t] < Oldest)
      BY <2>2 DEF Oldest
    <3>3. at[t] # at[t] + 1
      BY <2>2
    <3>4. \/ file'[at[t]] = <<>>
          \/ at[t] = Keep - 1
          \/ "rename_failed" \in logAccidents'
      BY <1>0, <2>1, <2>2, <3>3
    <3> QED BY <3>1, <3>2, <3>4
  <2>5. \A u \in Thread : step'[u] = "rolling" => u = t
    BY <1>0, <2>1
  <2> QED BY <2>3, <2>4, <2>5 DEF RoomIsMade
<1>9. ASSUME NEW t \in Thread, ShiftActive(t) PROVE RoomIsMade'
  <2>1. step[t] = "rolling" /\ step' = [step EXCEPT ![t] = After(t)]
    BY <1>9 DEF ShiftActive, Go
  <2>2. \A u \in Thread : step'[u] # "rolling"
    BY <1>0, <2>1
  <2> QED BY <2>2 DEF RoomIsMade
<1>10. CASE UNCHANGED logVars
  BY <1>1, <1>10 DEF logVars
<1> QED BY <1>2, <1>3, <1>4, <1>5, <1>6, <1>7, <1>8, <1>9, <1>10, LogStepIs

(* What threads hold after a step: the same, nothing once the process ended *)
(* or what was taken from the queue; and a thread writes what it took.      *)
LEMMA HandStepIs ==
    ASSUME LogInv, [LogNext]_logVars
    PROVE  \/ /\ hand' = hand
              /\ \A t \in Thread : step'[t] = "write" <=> step[t] = "write"
           \/ /\ hand' = hand
              /\ \E t \in Thread :
                    /\ Write(t) /\ step[t] = "write" /\ step'[t] # "write"
                    /\ \A u \in Thread \ {t} : step'[u] = step[u]
           \/ ProcessorRuns /\ EndProcess
           \/ \E t \in Thread : Dequeue(t)
<1>0. /\ step \in [Thread -> {"idle", "loop", "test", "acquire", "dequeue", "write",
                              "rolling", "signalled", "close", "terminate"}]
      /\ \A t \in Thread : After(t) \notin {"dequeue", "write", "rolling"}
      /\ "worker" \in Thread /\ "closer" \in Thread
  BY DEF LogInv, LogTypeOK, After, Thread
<1>1. ASSUME NEW u \in Users, FindQueue(u) \/ BindQueue(u)
      PROVE  hand' = hand /\ step' = step
  BY <1>1 DEF FindQueue, BindQueue, procVars
<1>2. ASSUME NEW p \in Producer, TraceLog(p) \/ ReleaseSemaphore(p) \/ ProducerDies(p)
      PROVE  hand' = hand /\ step' = step
  BY <1>2 DEF TraceLog, ReleaseSemaphore, ProducerDies, procVars
<1>3. ASSUME Loop \/ Acquire \/ CatchSignal \/ SetShuttingDown \/ Close
      PROVE  hand' = hand /\ \A t \in Thread : step'[t] = "write" <=> step[t] = "write"
  <2>1. /\ hand' = hand
        /\ \E t \in Thread, s \in {"test", "signalled", "terminate"} :
              step[t] # "write" /\ step' = [step EXCEPT ![t] = s]
    BY <1>0, <1>3 DEF Loop, Acquire, CatchSignal, SetShuttingDown, Close, Go
  <2> QED BY <1>0, <2>1
<1>4. ASSUME NEW t \in Thread, TestEmpty(t)
      PROVE  hand' = hand /\ \A u \in Thread : step'[u] = "write" <=> step[u] = "write"
  <2>1. /\ hand' = hand /\ step[t] # "write"
        /\ \E s \in {"dequeue", "acquire", "close"} : step' = [step EXCEPT ![t] = s]
    BY <1>4 DEF TestEmpty, Go
  <2> QED BY <1>0, <2>1
<1>5. ASSUME NEW t \in Thread, Write(t)
      PROVE  /\ hand' = hand /\ step[t] = "write" /\ step'[t] # "write"
             /\ \A u \in Thread \ {t} : step'[u] = step[u]
  <2>1. /\ hand' = hand /\ step[t] = "write"
        /\ \E s \in {"rolling", After(t)} : step' = [step EXCEPT ![t] = s]
    BY <1>5 DEF Write, Go
  <2> QED BY <1>0, <2>1
<1>6. ASSUME NEW t \in Thread, ShiftKept(t) \/ ShiftActive(t)
      PROVE  hand' = hand /\ \A u \in Thread : step'[u] = "write" <=> step[u] = "write"
  <2>1. /\ hand' = hand /\ step[t] # "write"
        /\ step' = step \/ step' = [step EXCEPT ![t] = After(t)]
    BY <1>6 DEF ShiftKept, ShiftActive, Go
  <2> QED BY <1>0, <2>1
<1>7. UNCHANGED logVars => hand' = hand /\ step' = step
  BY DEF logVars
<1> QED BY <1>1, <1>2, <1>3, <1>4, <1>5, <1>6, <1>7, LogStepIs

(* What a thread takes from the queue.                                      *)
LEMMA TakenIs ==
    ASSUME LogInv, NEW t \in Thread, Dequeue(t)
    PROVE  /\ Written' = Written /\ removed' = removed /\ logged' = logged /\ bound' = bound
           /\ step[t] = "dequeue" /\ step'[t] = "write"
           /\ step'[Other(t)] = step[Other(t)] /\ hand'[Other(t)] = hand[Other(t)]
           /\ \/ /\ Pending = <<>> /\ hand' = hand /\ queue' = queue
                 /\ "two_readers" \in logAccidents
              \/ /\ uses[Processor] = bound /\ bound \in Users
                 /\ queue[bound] \in Seq(Log) /\ queue[bound] # <<>>
                 /\ hand'[t] = Head(queue[bound])
                 /\ queue' = [queue EXCEPT ![bound] = Tail(@)]
<1>0. /\ QueuesAreOwned /\ OneReader
      /\ step \in [Thread -> {"idle", "loop", "test", "acquire", "dequeue", "write",
                              "rolling", "signalled", "close", "terminate"}]
      /\ hand \in [Thread -> Log \cup {0}]
      /\ uses[Processor] \in Users /\ Pending \in Seq(Log)
      /\ Other(t) \in Thread /\ Other(t) # t
  BY QueueOfProcessor, ThreadsAre DEF LogInv, LogTypeOK, Dequeue
<1>1. /\ Written' = Written /\ removed' = removed /\ logged' = logged /\ bound' = bound
      /\ step[t] = "dequeue" /\ step' = [step EXCEPT ![t] = "write"]
  BY DEF Dequeue, Go, fileVars, setUp, Written
<1>2. CASE Pending = <<>>
  <2>1. hand' = hand /\ queue' = queue
    BY <1>2 DEF Dequeue
  <2>2. "two_readers" \in logAccidents
    BY <1>0, <1>1, <1>2 DEF OneReader
  <2> QED BY <1>0, <1>1, <1>2, <2>1, <2>2
<1>3. CASE Pending # <<>>
  <2>1. /\ hand' = [hand EXCEPT ![t] = Head(Pending)]
        /\ queue' = [queue EXCEPT ![uses[Processor]] = Tail(@)]
    BY <1>3 DEF Dequeue
  <2>2. uses[Processor] = bound
    BY <1>0, <1>3, UsersAre DEF QueuesAreOwned, Pending
  <2> QED BY <1>0, <1>1, <1>3, <2>1, <2>2 DEF Pending
<1> QED BY <1>2, <1>3

(* The first of a queue in order is before the others.                      *)
LEMMA HeadIsFirst ==
    ASSUME NEW s \in Seq(Log), s # <<>>,
           \A k, l \in DOMAIN s : k < l => s[k] < s[l]
    PROVE  /\ \A m \in LogsIn(Tail(s)) : Head(s) < m
           /\ \A k, l \in DOMAIN Tail(s) : k < l => Tail(s)[k] < Tail(s)[l]
           /\ Head(s) \in LogsIn(s) /\ LogsIn(Tail(s)) \subseteq LogsIn(s)
<1>1. /\ Head(s) = s[1]
      /\ DOMAIN s = 1 .. Len(s)
      /\ DOMAIN Tail(s) = 1 .. Len(s) - 1
      /\ Len(s) \in Nat \ {0}
      /\ \A i \in 1 .. Len(s) - 1 : Tail(s)[i] = s[i + 1]
      /\ LogsIn(s) = {Head(s)} \cup LogsIn(Tail(s))
  BY TailIs
<1>2. ASSUME NEW m \in LogsIn(Tail(s)) PROVE Head(s) < m
  <2>1. PICK i \in 1 .. Len(s) - 1 : m = Tail(s)[i]
    BY <1>1, <1>2 DEF LogsIn
  <2>2. i + 1 \in DOMAIN s /\ 1 \in DOMAIN s /\ 1 < i + 1
    BY <1>1, <2>1
  <2> QED BY <1>1, <2>1, <2>2
<1>3. ASSUME NEW k \in DOMAIN Tail(s), NEW l \in DOMAIN Tail(s), k < l
      PROVE  Tail(s)[k] < Tail(s)[l]
  <2>1. k + 1 \in DOMAIN s /\ l + 1 \in DOMAIN s /\ k + 1 < l + 1
    BY <1>1, <1>3
  <2> QED BY <1>1, <1>3, <2>1
<1> QED BY <1>1, <1>2, <1>3

(* What threads hold is new to the files until it is written.               *)
LEMMA HandsKept ==
    ASSUME LogInv, [LogNext]_logVars, LogTypeOK', OneReader'
    PROVE  HandsAreNew'
<1>0. /\ HandsAreNew /\ OneReader /\ QueuesInOrder
      /\ hand \in [Thread -> Log \cup {0}] /\ hand' \in [Thread -> Log \cup {0}]
      /\ logged \in Nat /\ removed \subseteq Log /\ logAccidents \subseteq logAccidents'
      /\ step' \in [Thread -> {"idle", "loop", "test", "acquire", "dequeue", "write",
                              "rolling", "signalled", "close", "terminate"}]
      /\ \A t \in Thread : Other(t) \in Thread /\ \A u \in Thread : u = t \/ u = Other(t)
      /\ logged' \in Nat
      /\ \A n \in Log : n \in Nat /\ n # 0
  BY LogAccidentsStay, ThreadsAre, ConstantsAssumption DEF LogInv, LogTypeOK, Log
<1>1. logged' >= logged
  <2>1. ASSUME NEW p \in Producer, TraceLog(p) PROVE logged' >= logged
    BY <1>0, <2>1 DEF TraceLog
  <2>2. \/ logged' = logged
        \/ \E p \in Producer : TraceLog(p)
    BY LogStepIs DEF FindQueue, BindQueue, ReleaseSemaphore, ProducerDies, EndProcess, Loop,
       Acquire, CatchSignal, SetShuttingDown, Close, TestEmpty, Dequeue, Write, ShiftKept,
       ShiftActive, logVars
  <2> QED BY <1>0, <2>1, <2>2
<1>2. ASSUME NEW t \in Thread, Dequeue(t) PROVE HandsAreNew'
  <2>1. /\ Written' = Written /\ removed' = removed /\ logged' = logged
        /\ step[t] = "dequeue" /\ step'[t] = "write"
        /\ step'[Other(t)] = step[Other(t)] /\ hand'[Other(t)] = hand[Other(t)]
    BY <1>2, TakenIs
  <2>2. CASE hand' = hand /\ "two_readers" \in logAccidents
    <3>1. ASSUME NEW u \in Thread, step'[u] # "write" PROVE step[u] # "write"
      BY <1>0, <2>1, <3>1
    <3> QED BY <1>0, <2>1, <2>2, <3>1 DEF HandsAreNew
  <2>3. CASE /\ uses[Processor] = bound /\ bound \in Users
             /\ queue[bound] \in Seq(Log) /\ queue[bound] # <<>>
             /\ hand'[t] = Head(queue[bound])
    <3>1. hand'[t] \in LogsIn(queue[bound])
      BY <1>0, <2>3, HeadIsFirst DEF QueuesInOrder
    <3>2. hand'[t] <= logged /\ \A n \in Written \cup removed : n < hand'[t]
      BY <1>0, <2>3, <3>1 DEF QueuesInOrder
    <3>3. hand'[t] \in Log /\ hand'[t] # 0
      <4>1. hand'[t] \in Log
        BY <2>3, TailIs
      <4> QED BY <1>0, <4>1
    <3>4. ASSUME NEW u \in Thread, step'[u] = "write", "two_readers" \notin logAccidents'
          PROVE  u = t
      <4>1. PICK v \in Thread : step'[v] # "write"
        BY <3>4 DEF OneReader
      <4>2. v = Other(t)
        BY <1>0, <2>1, <4>1
      <4> QED BY <1>0, <3>4, <4>1, <4>2
    <3>5. ASSUME NEW u \in Thread, step'[u] # "write", "written_after_close" \notin logAccidents'
          PROVE  hand'[u] \in Written' \cup removed' \cup {0}
      <4>1. u = Other(t)
        BY <1>0, <2>1, <3>5
      <4> QED BY <1>0, <2>1, <3>5, <4>1 DEF HandsAreNew
    <3>6. ASSUME NEW u \in Thread PROVE hand'[u] <= logged'
      <4>1. u = t \/ u = Other(t)
        BY <1>0
      <4> QED BY <1>0, <2>1, <3>2, <4>1 DEF HandsAreNew
    <3>7. \A n \in Written' \cup removed' : n <= logged'
      BY <1>0, <2>1 DEF HandsAreNew
    <3>8. \A u \in Thread : step'[u] = "write" /\ "two_readers" \notin logAccidents' =>
              hand'[u] # 0 /\ \A n \in Written' \cup removed' : n < hand'[u]
      BY <2>1, <3>2, <3>3, <3>4
    <3> QED BY <3>5, <3>6, <3>7, <3>8 DEF HandsAreNew
  <2> QED BY <1>2, <2>2, <2>3, TakenIs
<1>3. CASE EndProcess
  <2>1. /\ \A t \in Thread : hand'[t] = 0 /\ step'[t] # "write"
        /\ Written' = Written /\ removed' = removed /\ logged' = logged
    BY <1>3 DEF EndProcess, fileVars, Written
  <2>2. \A n \in Written' \cup removed' : n <= logged'
    BY <1>0, <2>1 DEF HandsAreNew
  <2>3. 0 <= logged'
    BY <1>0
  <2> QED BY <2>1, <2>2, <2>3 DEF HandsAreNew
<1>4. ASSUME NEW t \in Thread, Write(t), hand' = hand, step[t] = "write", step'[t] # "write",
             \A u \in Thread \ {t} : step'[u] = step[u]
      PROVE  HandsAreNew'
  <2>1. Other(t) \in Thread /\ step[Other(t)] # "write" /\ logged' = logged
        /\ "two_readers" \notin logAccidents
    BY <1>0, <1>4 DEF OneReader, Write, ProcessorRuns
  <2>2. \A u \in Thread : step'[u] # "write"
    BY <1>0, <1>4, <2>1
  <2>3. hand[t] \in Log
    BY <1>0, <1>4, <2>1 DEF HandsAreNew
  <2>4. /\ Written' \cup removed' \subseteq Written \cup removed \cup {hand[t]}
        /\ Written \cup removed \subseteq Written' \cup removed'
        /\ "written_after_close" \in logAccidents' \/ hand[t] \in Written'
    <3>1. CASE stream = "open"
      <4>1. file' = [file EXCEPT ![0] = Append(@, hand[t])] /\ removed' = removed
        BY <1>4, <3>1 DEF Write
      <4>2. Written' = Written \cup {hand[t]}
        BY <2>3, <4>1, WrittenTo DEF LogInv
      <4> QED BY <4>1, <4>2
    <3>2. CASE stream # "open"
      BY <1>4, <3>2 DEF Write, Written
    <3> QED BY <3>1, <3>2
  <2>5. ASSUME NEW u \in Thread, "written_after_close" \notin logAccidents'
        PROVE  hand'[u] \in Written' \cup removed' \cup {0}
    <3>1. CASE u = t
      BY <1>4, <2>4, <2>5, <3>1
    <3>2. CASE u = Other(t)
      BY <1>0, <1>4, <2>1, <2>4, <2>5, <3>2 DEF HandsAreNew
    <3> QED BY <1>0, <3>1, <3>2
  <2>6. \A n \in Written' \cup removed' : n <= logged'
    <3>1. \A n \in Written \cup removed : n <= logged'
      BY <1>0, <2>1 DEF HandsAreNew
    <3>2. hand[t] <= logged'
      BY <1>0, <2>1 DEF HandsAreNew
    <3> QED BY <2>4, <3>1, <3>2
  <2>7. \A u \in Thread : hand'[u] <= logged'
    BY <1>0, <1>4, <2>1 DEF HandsAreNew
  <2> QED BY <2>2, <2>5, <2>6, <2>7 DEF HandsAreNew
<1>5. CASE /\ hand' = hand
           /\ \A t \in Thread : step'[t] = "write" <=> step[t] = "write"
  <2>1. CASE Written' \cup removed' = Written \cup removed
    <3>1. Written \subseteq Log
      BY LogsAre DEF LogInv, LogTypeOK, Written
    <3>2. ASSUME NEW n \in Nat, n <= logged PROVE n <= logged'
      BY <1>0, <1>1, <3>2
    <3>3. \A n \in Written \cup removed : n \in Nat /\ n <= logged
      BY <1>0, <3>1 DEF HandsAreNew
    <3>4. ASSUME NEW t \in Thread PROVE hand[t] \in Nat /\ hand[t] <= logged
      <4>1. hand[t] \in Log \/ hand[t] = 0
        BY <1>0
      <4>2. hand[t] <= logged
        BY DEF LogInv, HandsAreNew
      <4> QED BY <1>0, <4>1, <4>2
    <3>5. \A n \in Written' \cup removed' : n <= logged'
      BY <2>1, <3>2, <3>3
    <3>6. \A t \in Thread : hand'[t] <= logged'
      BY <1>5, <3>2, <3>4
    <3>7. "written_after_close" \notin logAccidents' =>
             \A t \in Thread : step'[t] # "write" => hand'[t] \in Written' \cup removed' \cup {0}
      BY <1>0, <1>5, <2>1 DEF HandsAreNew
    <3>8. "two_readers" \notin logAccidents' =>
             \A t \in Thread : step'[t] = "write" =>
                 hand'[t] # 0 /\ \A n \in Written' \cup removed' : n < hand'[t]
      BY <1>0, <1>5, <2>1 DEF HandsAreNew
    <3> QED BY <3>5, <3>6, <3>7, <3>8 DEF HandsAreNew
  <2>2. CASE \E t \in Thread : Write(t)
    <3>1. PICK t \in Thread : Write(t)
      BY <2>2
    <3>2. step[t] = "write" /\ \E s \in {"rolling", After(t)} : step' = [step EXCEPT ![t] = s]
      BY <3>1 DEF Write, Go
    <3>3. After(t) # "write" /\ DOMAIN step = Thread
      BY DEF After, LogInv, LogTypeOK
    <3> QED BY <1>5, <3>2, <3>3
  <2> QED BY <2>1, <2>2, WrittenGrows
<1> QED BY <1>2, <1>3, <1>4, <1>5, HandStepIs

(* The order of the queues, and that all in the one that is bound is newer  *)
(* than what was taken.                                                     *)
LEMMA QueueOrderKept ==
    ASSUME LogInv, [LogNext]_logVars, LogTypeOK'
    PROVE  QueuesInOrder'
<1>0. /\ QueuesInOrder /\ QueuesAreOwned /\ HandsAreNew
      /\ queue \in [Users -> Seq(Log)]
      /\ hand \in [Thread -> Log \cup {0}]
      /\ logged \in Nat /\ removed \subseteq Log
      /\ uses \in [Users -> Users \cup {NoQueue}]
      /\ \A n \in Log : n \in Nat /\ n > 0
      /\ DOMAIN <<>> = {} /\ LogsIn(<<>>) = {}
      /\ \A u \in Users : LogsIn(queue[u]) \subseteq Log
      /\ Written \subseteq Log
  <2>1. /\ QueuesInOrder /\ QueuesAreOwned /\ HandsAreNew
        /\ queue \in [Users -> Seq(Log)]
        /\ hand \in [Thread -> Log \cup {0}]
        /\ logged \in Nat /\ removed \subseteq Log
        /\ uses \in [Users -> Users \cup {NoQueue}]
    BY ConstantsAssumption DEF LogInv, LogTypeOK
  <2>2. \A n \in Log : n \in Nat /\ n > 0
    BY ConstantsAssumption DEF Log
  <2>3. DOMAIN <<>> = {} /\ LogsIn(<<>>) = {}
    BY LogsAre
  <2>4. \A u \in Users : LogsIn(queue[u]) \subseteq Log
    BY <2>1, LogsAre
  <2>5. Written \subseteq Log
    BY LogsAre DEF LogInv, LogTypeOK, Written
  <2> QED BY <2>1, <2>2, <2>3, <2>4, <2>5
<1>1. CASE /\ bound' = bound /\ queue' = queue /\ logged' = logged
           /\ Written' \cup removed' = Written \cup removed
           /\ \A t \in Thread : hand'[t] \in {hand[t], 0}
  <2>1. \A u \in Users : \A m \in LogsIn(queue[u]) : m > 0
    BY <1>0
  <2> QED BY <1>0, <1>1, <2>1 DEF QueuesInOrder
<1>2. ASSUME NEW u \in Users, FindQueue(u) PROVE QueuesInOrder'
  BY <1>1, <1>2 DEF FindQueue, procVars, fileVars, Written
<1>3. ASSUME NEW u \in Users, BindQueue(u) PROVE QueuesInOrder'
  <2>1. /\ queue[u] = <<>>
        /\ bound = NoQueue \/ bound' = bound
        /\ bound = NoQueue => \A v \in Users : queue[v] = <<>>
    BY <1>0, <1>3 DEF BindQueue, QueuesAreOwned
  <2>2. queue' = queue
    BY <1>0, <1>3, <2>1 DEF BindQueue
  <2>3. UNCHANGED <<logged, hand, file, removed>> /\ Written' = Written
    BY <1>3 DEF BindQueue, procVars, fileVars, Written
  <2>4. CASE bound' = bound
    BY <1>1, <2>2, <2>3, <2>4
  <2>5. CASE bound = NoQueue
    BY <1>0, <2>1, <2>2, <2>5 DEF QueuesInOrder
  <2> QED BY <2>1, <2>4, <2>5
<1>4. ASSUME NEW p \in Producer, TraceLog(p) PROVE QueuesInOrder'
  <2>1. UNCHANGED <<bound, hand, file, removed>> /\ Written' = Written
    BY <1>4 DEF TraceLog, procVars, fileVars, Written
  <2>2. CASE queue' = queue /\ logged' = logged
    BY <1>1, <2>1, <2>2
  <2>3. CASE /\ logged' = logged + 1
             /\ queue' = [queue EXCEPT ![uses[p]] = Append(@, logged + 1)]
    <3>1. uses[p] \in Users /\ logged + 1 \in Log
      BY <1>0, <1>4, UsersAre, ConstantsAssumption DEF TraceLog, LogInv, LogTypeOK, Log
    <3> DEFINE s == queue[uses[p]]
    <3>2. /\ DOMAIN s = 1 .. Len(s)
          /\ DOMAIN Append(s, logged + 1) = 1 .. Len(s) + 1
          /\ \A i \in 1 .. Len(s) : Append(s, logged + 1)[i] = s[i]
          /\ Append(s, logged + 1)[Len(s) + 1] = logged + 1
          /\ LogsIn(Append(s, logged + 1)) = LogsIn(s) \cup {logged + 1}
          /\ Len(s) \in Nat
      <4>1. s \in Seq(Log)
        BY <1>0, <3>1
      <4> QED BY <3>1, <4>1, AppendedIs
    <3>3. /\ queue'[uses[p]] = Append(s, logged + 1)
          /\ \A u \in Users \ {uses[p]} : queue'[u] = queue[u]
      BY <1>0, <2>3, <3>1
    <3>4. \A k \in 1 .. Len(s) : s[k] \in Nat /\ s[k] <= logged
      <4>1. \A k \in 1 .. Len(s) : s[k] \in LogsIn(s)
        BY <3>2 DEF LogsIn
      <4> QED BY <1>0, <3>1, <4>1 DEF QueuesInOrder
    <3> HIDE DEF s
    <3>5. ASSUME NEW k \in 1 .. Len(s) + 1, NEW l \in 1 .. Len(s) + 1, k < l
          PROVE  Append(s, logged + 1)[k] < Append(s, logged + 1)[l]
      <4>1. k \in 1 .. Len(s)
        BY <3>2, <3>5
      <4>2. CASE l = Len(s) + 1
        BY <1>0, <3>2, <3>4, <4>1, <4>2
      <4>3. CASE l # Len(s) + 1
        <5>1. l \in 1 .. Len(s)
          BY <3>2, <4>3
        <5> QED BY <1>0, <3>1, <3>2, <3>5, <4>1, <5>1 DEF QueuesInOrder, s
      <4> QED BY <4>2, <4>3
    <3>6. ASSUME NEW u \in Users, NEW k \in DOMAIN queue'[u], NEW l \in DOMAIN queue'[u], k < l
          PROVE  queue'[u][k] < queue'[u][l]
      BY <1>0, <3>2, <3>3, <3>5, <3>6 DEF QueuesInOrder
    <3>7. ASSUME NEW u \in Users, NEW m \in LogsIn(queue'[u])
          PROVE  m \in LogsIn(queue[u]) \/ m = logged + 1
      <4>1. CASE u = uses[p]
        <5>1. queue'[u] = Append(s, logged + 1)
          BY <3>3, <4>1
        <5>2. queue[u] = s
          BY <4>1 DEF s
        <5>3. m \in LogsIn(s) \cup {logged + 1}
          BY <3>2, <3>7, <5>1
        <5> QED BY <5>2, <5>3
      <4>2. CASE u # uses[p]
        BY <3>3, <3>7, <4>2
      <4> QED BY <4>1, <4>2
    <3>8. \A n \in Nat : n <= logged => n <= logged'
      BY <1>0, <2>3
    <3>9. ASSUME NEW u \in Users, NEW m \in LogsIn(queue'[u]) PROVE m <= logged'
      BY <1>0, <2>3, <3>7, <3>8 DEF QueuesInOrder
    <3>10. ASSUME NEW m \in LogsIn(queue'[bound]), bound \in Users
           PROVE  /\ \A n \in Written \cup removed : n < m
                  /\ \A t \in Thread : hand[t] < m
      <4>1. CASE m \in LogsIn(queue[bound])
        BY <1>0, <3>10, <4>1 DEF QueuesInOrder
      <4>2. CASE m = logged + 1
        <5>1. \A n \in Written \cup removed : n \in Nat /\ n <= logged
          BY <1>0 DEF HandsAreNew
        <5>2. ASSUME NEW t \in Thread PROVE hand[t] \in Nat /\ hand[t] <= logged
          <6>1. hand[t] \in Log \/ hand[t] = 0
            BY <1>0
          <6>2. hand[t] <= logged
            BY <1>0 DEF HandsAreNew
          <6> QED BY <1>0, <6>1, <6>2
        <5>3. \A n \in Nat : n <= logged => n < logged + 1
          BY <1>0
        <5> QED BY <4>2, <5>1, <5>2, <5>3
      <4> QED BY <3>7, <3>10, <4>1, <4>2
    <3> QED BY <2>1, <3>6, <3>9, <3>10 DEF QueuesInOrder
  <2> QED BY <1>4, <2>2, <2>3 DEF TraceLog
<1>5. ASSUME NEW p \in Producer, ReleaseSemaphore(p) \/ ProducerDies(p) PROVE QueuesInOrder'
  BY <1>1, <1>5 DEF ReleaseSemaphore, ProducerDies, procVars, fileVars, Written
<1>6. CASE EndProcess
  BY <1>1, <1>6 DEF EndProcess, fileVars, Written
<1>7. CASE Loop \/ Acquire \/ CatchSignal \/ SetShuttingDown \/ Close
  BY <1>1, <1>7 DEF Loop, Acquire, CatchSignal, SetShuttingDown, Close, setUp, fileVars, Written
<1>8. ASSUME NEW t \in Thread, TestEmpty(t) PROVE QueuesInOrder'
  BY <1>1, <1>8 DEF TestEmpty, setUp, fileVars, Written
<1>9. ASSUME NEW t \in Thread, Dequeue(t) PROVE QueuesInOrder'
  <2>1. /\ Written' = Written /\ removed' = removed /\ logged' = logged /\ bound' = bound
        /\ hand'[Other(t)] = hand[Other(t)]
        /\ \A u \in Thread : u = t \/ u = Other(t)
    BY <1>9, TakenIs, ThreadsAre
  <2>2. CASE hand' = hand /\ queue' = queue
    BY <1>1, <2>1, <2>2
  <2>3. CASE /\ bound \in Users
             /\ queue[bound] \in Seq(Log) /\ queue[bound] # <<>>
             /\ hand'[t] = Head(queue[bound])
             /\ queue' = [queue EXCEPT ![bound] = Tail(@)]
    <3>1. /\ queue'[bound] = Tail(queue[bound])
          /\ \A u \in Users \ {bound} : queue'[u] = queue[u]
      BY <1>0, <2>3
    <3>2. /\ \A m \in LogsIn(queue'[bound]) : hand'[t] < m
          /\ \A k, l \in DOMAIN queue'[bound] : k < l => queue'[bound][k] < queue'[bound][l]
          /\ LogsIn(queue'[bound]) \subseteq LogsIn(queue[bound])
      BY <1>0, <2>3, <3>1, HeadIsFirst DEF QueuesInOrder
    <3>3. ASSUME NEW m \in LogsIn(queue'[bound])
          PROVE  /\ m <= logged /\ \A n \in Written \cup removed : n < m
                 /\ \A u \in Thread : hand'[u] < m
      BY <1>0, <2>1, <2>3, <3>2, <3>3 DEF QueuesInOrder
    <3> QED BY <1>0, <2>1, <2>3, <3>1, <3>2, <3>3 DEF QueuesInOrder
  <2> QED BY <1>9, <2>2, <2>3, TakenIs
<1>10. ASSUME NEW t \in Thread, Write(t) PROVE QueuesInOrder'
  <2>1. UNCHANGED <<bound, queue, logged, hand>>
    BY <1>10 DEF Write, setUp
  <2>2. hand[t] \in Log
    BY <1>0, <1>10 DEF Write, ProcessorRuns, HandsAreNew
  <2>3. Written' \cup removed' \subseteq Written \cup removed \cup {hand[t]}
    <3>1. CASE stream = "open"
      <4>1. file' = [file EXCEPT ![0] = Append(@, hand[t])] /\ removed' = removed
        BY <1>10, <3>1 DEF Write
      <4>2. Written' = Written \cup {hand[t]}
        BY <2>2, <4>1, WrittenTo DEF LogInv
      <4> QED BY <4>1, <4>2
    <3>2. CASE stream # "open"
      BY <1>10, <3>2 DEF Write, Written
    <3> QED BY <3>1, <3>2
  <2> QED BY <1>0, <2>1, <2>3 DEF QueuesInOrder
<1>11. ASSUME NEW t \in Thread, ShiftKept(t) \/ ShiftActive(t) PROVE QueuesInOrder'
  <2>1. UNCHANGED <<bound, queue, logged, hand>> /\ step[t] = "rolling"
    BY <1>11 DEF ShiftKept, ShiftActive, setUp
  <2>2. \A u \in Thread : ~Write(u)
    <3>1. ASSUME NEW u \in Thread, Write(u) PROVE FALSE
      <4>1. step'[u] # "write" /\ step[u] = "write"
        BY <3>1 DEF Write, Go, After, LogInv, LogTypeOK
      <4>2. step' = step \/ step' = [step EXCEPT ![t] = After(t)]
        BY <1>11 DEF ShiftKept, ShiftActive, Go
      <4> QED BY <2>1, <4>1, <4>2 DEF LogInv, LogTypeOK
    <3> QED BY <3>1
  <2> QED BY <1>1, <2>1, <2>2, WrittenGrows
<1>12. CASE UNCHANGED logVars
  BY <1>1, <1>12 DEF logVars, Written
<1> QED
  BY <1>2, <1>3, <1>4, <1>5, <1>6, <1>7, <1>8, <1>9, <1>10, <1>11, <1>12, LogStepIs

(* What is lost in a step, if threads have written what they hold but those *)
(* that are to write: nothing but what such a one holds when the process    *)
(* ends.                                                                    *)
LEMMA LossStepIs ==
    ASSUME LogInv, [LogNext]_logVars,
           \A t \in Thread : step[t] # "write" => hand[t] \in Written \cup removed \cup {0}
    PROVE  \/ Lost' \subseteq Lost
           \/ ends' = ends + 1 /\ \E t \in Thread : Lost' \subseteq Lost \cup {hand[t]}
<1>0. /\ QueuesAreOwned /\ OneReader
      /\ queue \in [Users -> Seq(Log)]
      /\ hand \in [Thread -> Log \cup {0}]
      /\ logged \in Nat
      /\ uses \in [Users -> Users \cup {NoQueue}]
      /\ step \in [Thread -> {"idle", "loop", "test", "acquire", "dequeue", "write",
                              "rolling", "signalled", "close", "terminate"}]
  BY ConstantsAssumption DEF LogInv, LogTypeOK
<1>1. CASE /\ hand' = hand /\ queue' = queue /\ logged' = logged
           /\ Written \cup removed \subseteq Written' \cup removed'
  BY <1>1 DEF Lost
<1>2. ASSUME NEW u \in Users, FindQueue(u) PROVE Lost' \subseteq Lost
  BY <1>2 DEF FindQueue, procVars, fileVars, Written, Lost
<1>3. ASSUME NEW u \in Users, BindQueue(u) PROVE Lost' \subseteq Lost
  <2>1. queue' = queue
    BY <1>0, <1>3 DEF BindQueue, QueuesAreOwned
  <2> QED BY <1>3, <2>1 DEF BindQueue, procVars, fileVars, Written, Lost
<1>4. ASSUME NEW p \in Producer, TraceLog(p) PROVE Lost' \subseteq Lost
  <2>1. UNCHANGED <<hand, file, removed>> /\ Written' = Written
    BY <1>4 DEF TraceLog, procVars, fileVars, Written
  <2>2. CASE queue' = queue /\ logged' = logged
    BY <2>1, <2>2 DEF Lost
  <2>3. CASE /\ logged' = logged + 1
             /\ queue' = [queue EXCEPT ![uses[p]] = Append(@, logged + 1)]
    <3>1. uses[p] \in Users /\ logged + 1 \in Log
      BY <1>0, <1>4, UsersAre, ConstantsAssumption DEF TraceLog, LogInv, LogTypeOK, Log
    <3>2. queue'[uses[p]] = Append(queue[uses[p]], logged + 1)
             /\ \A u \in Users \ {uses[p]} : queue'[u] = queue[u]
      BY <1>0, <2>3, <3>1
    <3>3. LogsIn(queue'[uses[p]]) = LogsIn(queue[uses[p]]) \cup {logged + 1}
      BY <1>0, <3>1, <3>2, AppendedIs
    <3>4. \A u \in Users : LogsIn(queue[u]) \subseteq LogsIn(queue'[u])
      BY <3>2, <3>3
    <3>5. \A n \in 1 .. logged' : n \in 1 .. logged \/ n = logged + 1
      BY <1>0, <2>3
    <3> QED BY <2>1, <3>1, <3>3, <3>4, <3>5 DEF Lost
  <2> QED BY <1>4, <2>2, <2>3 DEF TraceLog
<1>5. ASSUME NEW p \in Producer, ReleaseSemaphore(p) \/ ProducerDies(p) PROVE Lost' \subseteq Lost
  BY <1>5 DEF ReleaseSemaphore, ProducerDies, procVars, fileVars, Written, Lost
<1>6. ASSUME ProcessorRuns, EndProcess
      PROVE  ends' = ends + 1 /\ \E t \in Thread : Lost' \subseteq Lost \cup {hand[t]}
  <2>1. PICK t \in Thread : step[t] \notin {"write", "rolling"}
    BY <1>0, <1>6 DEF ProcessorRuns, OneReader
  <2>2. hand[t] \in Written \cup removed \cup {0}
    BY <2>1
  <2>3. Other(t) \in Thread /\ \A u \in Thread : u = t \/ u = Other(t)
    BY ThreadsAre
  <2>4. /\ UNCHANGED <<queue, logged, removed>> /\ Written' = Written
        /\ ends' = ends + 1
    BY <1>6 DEF EndProcess, fileVars, Written
  <2>5. 0 \notin 1 .. logged
    BY <1>0
  <2>6. Lost' \subseteq Lost \cup {hand[Other(t)]}
    BY <2>2, <2>3, <2>4, <2>5 DEF Lost
  <2> QED BY <2>3, <2>4, <2>6
<1>7. CASE Loop \/ Acquire \/ CatchSignal \/ SetShuttingDown \/ Close
  BY <1>1, <1>7 DEF Loop, Acquire, CatchSignal, SetShuttingDown, Close, setUp, fileVars, Written
<1>8. ASSUME NEW t \in Thread, TestEmpty(t) PROVE Lost' \subseteq Lost
  BY <1>8 DEF TestEmpty, setUp, fileVars, Written, Lost
<1>9. ASSUME NEW t \in Thread, Dequeue(t) PROVE Lost' \subseteq Lost
  <2>1. /\ Written' = Written /\ removed' = removed /\ logged' = logged
        /\ hand'[Other(t)] = hand[Other(t)] /\ step[t] = "dequeue"
        /\ \A u \in Thread : u = t \/ u = Other(t)
    BY <1>9, TakenIs, ThreadsAre
  <2>2. CASE hand' = hand /\ queue' = queue
    BY <2>1, <2>2 DEF Lost
  <2>3. CASE /\ bound \in Users
             /\ queue[bound] \in Seq(Log) /\ queue[bound] # <<>>
             /\ hand'[t] = Head(queue[bound])
             /\ queue' = [queue EXCEPT ![bound] = Tail(@)]
    <3>1. /\ queue'[bound] = Tail(queue[bound])
          /\ \A u \in Users \ {bound} : queue'[u] = queue[u]
      BY <1>0, <2>3
    <3>2. LogsIn(queue[bound]) = {hand'[t]} \cup LogsIn(queue'[bound])
      BY <2>3, <3>1, TailIs
    <3>3. hand[t] \in Written \cup removed \cup {0}
      BY <2>1
    <3>4. 0 \notin 1 .. logged
      BY <1>0
    <3>5. \A u \in Users : LogsIn(queue[u]) \subseteq {hand'[t]} \cup LogsIn(queue'[u])
      BY <3>1, <3>2
    <3> QED BY <2>1, <3>3, <3>4, <3>5 DEF Lost
  <2> QED BY <1>9, <2>2, <2>3, TakenIs
<1>10. ASSUME NEW t \in Thread, Write(t) \/ ShiftKept(t) \/ ShiftActive(t)
       PROVE  Lost' \subseteq Lost
  <2>1. UNCHANGED <<queue, logged, hand>>
    BY <1>10 DEF Write, ShiftKept, ShiftActive, setUp
  <2>2. Written \cup removed \subseteq Written' \cup removed'
    BY WrittenGrows
  <2> QED BY <2>1, <2>2 DEF Lost
<1>12. CASE UNCHANGED logVars
  BY <1>1, <1>12 DEF logVars, Written
<1> QED
  BY <1>1, <1>2, <1>3, <1>4, <1>5, <1>6, <1>7, <1>8, <1>9, <1>10, <1>12, LogStepIs

(* Losses are bounded by the processes that ended.                          *)
LEMMA LossesKept ==
    ASSUME LogInv, LossesAreBounded, [LogNext]_logVars, LogTypeOK'
    PROVE  LossesAreBounded'
<1>1. SUFFICES ASSUME /\ \A t \in Thread : step[t] # "write"
                                            => hand[t] \in Written \cup removed \cup {0}
                      /\ Cardinality(Lost) <= ends
               PROVE  Cardinality(Lost') <= ends'
  BY LogAccidentsStay DEF LossesAreBounded, LogInv, HandsAreNew
<1>3. /\ IsFiniteSet(Lost) /\ Cardinality(Lost) \in Nat
      /\ ends \in Nat /\ ends' \in Nat
  <2>1. logged \in Nat /\ ends \in Nat /\ ends' \in Nat
    BY ConstantsAssumption DEF LogInv, LogTypeOK
  <2>2. IsFiniteSet(1 .. logged)
    BY <2>1, FS_Interval
  <2>3. Lost \subseteq 1 .. logged
    BY DEF Lost
  <2>4. IsFiniteSet(Lost)
    BY <2>2, <2>3, FS_Subset
  <2> QED BY <2>1, <2>4, FS_CardinalityType
<1>4. CASE Lost' \subseteq Lost
  <2>1. Cardinality(Lost') <= Cardinality(Lost) /\ Cardinality(Lost') \in Nat
    BY <1>3, <1>4, FS_Subset, FS_CardinalityType
  <2>2. ends' >= ends
    <3>1. \/ ends' = ends
          \/ ends' = ends + 1
      BY LogStepIs DEF FindQueue, BindQueue, TraceLog, ReleaseSemaphore, ProducerDies,
         EndProcess, Loop, Acquire, CatchSignal, SetShuttingDown, Close, TestEmpty, Dequeue,
         Write, ShiftKept, ShiftActive, logVars
    <3> QED BY <1>3, <3>1
  <2> QED BY <1>1, <1>3, <2>1, <2>2
<1>5. ASSUME ends' = ends + 1, NEW t \in Thread, Lost' \subseteq Lost \cup {hand[t]}
      PROVE  Cardinality(Lost') <= ends'
  <2>1. /\ IsFiniteSet(Lost \cup {hand[t]})
        /\ Cardinality(Lost \cup {hand[t]}) <= Cardinality(Lost) + 1
        /\ Cardinality(Lost \cup {hand[t]}) \in Nat
    BY <1>3, FS_AddElement, FS_CardinalityType
  <2>2. Cardinality(Lost') <= Cardinality(Lost \cup {hand[t]}) /\ Cardinality(Lost') \in Nat
    BY <1>5, <2>1, FS_Subset, FS_CardinalityType
  <2> QED BY <1>1, <1>3, <1>5, <2>1, <2>2
<1> QED BY <1>1, <1>4, <1>5, LossStepIs

(* A set that loses one element and gains one is no larger.                 *)
LEMMA SetsCompared ==
    ASSUME NEW H, NEW G, IsFiniteSet(H)
    PROVE  /\ Cardinality(H) \in Nat
           /\ G \subseteq H => Cardinality(G) <= Cardinality(H) /\ Cardinality(G) \in Nat
           /\ \A y : G \subseteq H \cup {y} =>
                  Cardinality(G) <= Cardinality(H) + 1 /\ Cardinality(G) \in Nat
           /\ \A x, y : x \in H /\ G \subseteq (H \ {x}) \cup {y} =>
                  Cardinality(G) <= Cardinality(H) /\ Cardinality(G) \in Nat
<1>1. Cardinality(H) \in Nat
  BY FS_CardinalityType
<1>2. G \subseteq H => Cardinality(G) <= Cardinality(H) /\ Cardinality(G) \in Nat
  BY FS_Subset, FS_CardinalityType
<1>3. ASSUME NEW K, IsFiniteSet(K), NEW y, G \subseteq K \cup {y}
      PROVE  Cardinality(G) <= Cardinality(K) + 1 /\ Cardinality(G) \in Nat
  <2>1. /\ IsFiniteSet(K \cup {y}) /\ Cardinality(K) \in Nat
        /\ Cardinality(K \cup {y}) <= Cardinality(K) + 1
        /\ Cardinality(K \cup {y}) \in Nat
    <3>1. IsFiniteSet(K \cup {y})
      BY <1>3, FS_AddElement
    <3>2. Cardinality(K \cup {y}) = Cardinality(K) \/ Cardinality(K \cup {y}) = Cardinality(K) + 1
      BY <1>3, FS_AddElement
    <3>3. Cardinality(K) \in Nat
      BY <1>3, FS_CardinalityType
    <3> QED BY <3>1, <3>2, <3>3
  <2>2. Cardinality(G) <= Cardinality(K \cup {y}) /\ Cardinality(G) \in Nat
    BY <1>3, <2>1, FS_Subset, FS_CardinalityType
  <2> QED BY <2>1, <2>2
<1>4. ASSUME NEW x \in H, NEW y, G \subseteq (H \ {x}) \cup {y}
      PROVE  Cardinality(G) <= Cardinality(H) /\ Cardinality(G) \in Nat
  <2>1. IsFiniteSet(H \ {x}) /\ Cardinality(H \ {x}) = Cardinality(H) - 1
    BY FS_RemoveElement
  <2>2. Cardinality(G) <= Cardinality(H \ {x}) + 1 /\ Cardinality(G) \in Nat
    BY <1>3, <1>4, <2>1
  <2> QED BY <1>1, <2>1, <2>2
<1> QED BY <1>1, <1>2, <1>3, <1>4

(* The places that count, from where the thread is that moves files.        *)
LEMMA PlacesAre ==
    ASSUME LogInv
    PROVE  /\ Places \subseteq 0 .. Keep - 1 /\ IsFiniteSet(Holes)
           /\ \A t \in Thread : step[t] = "rolling" =>
                  Rolling = {t} /\ Places = (0 .. Keep - 1) \ {at[t] + 1}
           /\ (\A t \in Thread : step[t] # "rolling") =>
                  Rolling = {} /\ Places = (0 .. Keep - 1) \ {0}
<1>1. Places \subseteq 0 .. Keep - 1
  BY DEF Places
<1>2. IsFiniteSet(Holes)
  <2>1. IsFiniteSet(0 .. Keep - 1)
    <3>1. 0 \in Int /\ Keep - 1 \in Int
      BY ConstantsAssumption
    <3> QED BY <3>1, FS_Interval
  <2>2. Holes \subseteq 0 .. Keep - 1
    BY <1>1 DEF Holes
  <2> QED BY <2>1, <2>2, FS_Subset
<1>3. ASSUME NEW t \in Thread, step[t] = "rolling"
      PROVE  Rolling = {t} /\ Places = (0 .. Keep - 1) \ {at[t] + 1}
  <2>1. Rolling = {t}
    BY <1>3, ThreadsAre DEF Rolling, LogInv, OneReader
  <2>2. {at[u] + 1 : u \in {t}} = {at[t] + 1}
    OBVIOUS
  <2>3. {at[u] + 1 : u \in Rolling} = {at[t] + 1} /\ Rolling # {}
    BY <2>1, <2>2
  <2> QED BY <2>1, <2>3 DEF Places
<1>4. ASSUME \A t \in Thread : step[t] # "rolling"
      PROVE  Rolling = {} /\ Places = (0 .. Keep - 1) \ {0}
  <2>1. Rolling = {}
    BY <1>4 DEF Rolling
  <2> QED BY <2>1 DEF Places
<1> QED BY <1>1, <1>2, <1>3, <1>4

LEMMA PlacesBecome ==
    ASSUME OneReader'
    PROVE  /\ \A t \in Thread : step'[t] = "rolling" =>
                  Rolling' = {t} /\ Places' = (0 .. Keep - 1) \ {at'[t] + 1}
           /\ (\A t \in Thread : step'[t] # "rolling") =>
                  Rolling' = {} /\ Places' = (0 .. Keep - 1) \ {0}
<1>3. ASSUME NEW t \in Thread, step'[t] = "rolling"
      PROVE  Rolling' = {t} /\ Places' = (0 .. Keep - 1) \ {at'[t] + 1}
  <2>1. Rolling' = {t}
    BY <1>3, ThreadsAre DEF Rolling, OneReader
  <2>2. {at'[u] + 1 : u \in {t}} = {at'[t] + 1}
    OBVIOUS
  <2>3. {at'[u] + 1 : u \in Rolling'} = {at'[t] + 1} /\ Rolling' # {}
    BY <2>1, <2>2
  <2> QED BY <2>1, <2>3 DEF Places
<1>4. ASSUME \A t \in Thread : step'[t] # "rolling"
      PROVE  Rolling' = {} /\ Places' = (0 .. Keep - 1) \ {0}
  <2>1. Rolling' = {}
    BY <1>4 DEF Rolling
  <2> QED BY <2>1 DEF Places
<1> QED BY <1>3, <1>4

\* Files could be renamed so far.
FilesMove == "rename_failed" \notin logAccidents

(* How a thread moves a kept file.                                          *)
LEMMA KeptMoves ==
    ASSUME LogInv, [LogNext]_logVars, OneReader', NEW t \in Thread, ShiftKept(t), FilesMove'
    PROVE  /\ step[t] = "rolling" /\ at[t] > 0 /\ at[t] \in Nat /\ at[t] < Keep
           /\ Places = (0 .. Keep - 1) \ {at[t] + 1} /\ Places' = (0 .. Keep - 1) \ {at[t]}
           /\ Rolling # {} /\ Rolling' # {}
           /\ \/ file[at[t]] = <<>> /\ file' = file /\ removed' = removed
              \/ at[t] = Keep - 1 /\ file' = file /\ removed' = removed
              \/ at[t] = Keep - 1 /\ file[at[t]] # <<>> /\ RemoveFile(at[t])
              \/ at[t] < Keep - 1 /\ file[at[t]] # <<>> /\ RenameFile(at[t], at[t] + 1)
<1>1. /\ step[t] = "rolling" /\ step' = step /\ at[t] > 0 /\ at' = [at EXCEPT ![t] = at[t] - 1]
      /\ at \in [Thread -> FileNo]
  BY DEF ShiftKept, LogInv, LogTypeOK
<1>2. at[t] \in Nat /\ at[t] < Keep /\ Keep \in Nat
  BY <1>1, MoverIs
<1>3. at'[t] = at[t] - 1
  BY <1>1
<1>4. Places = (0 .. Keep - 1) \ {at[t] + 1} /\ Rolling # {}
  BY <1>1, PlacesAre
<1>5. Places' = (0 .. Keep - 1) \ {at[t]} /\ Rolling' # {}
  <2>1. Rolling' = {t} /\ Places' = (0 .. Keep - 1) \ {at'[t] + 1}
    BY <1>1, PlacesBecome
  <2>2. at'[t] + 1 = at[t]
    BY <1>2, <1>3
  <2> QED BY <2>1, <2>2
<1>6. at[t] = Keep - 1 \/ at[t] < Keep - 1
  BY <1>2
<1>7. at[t] < Keep - 1 => at[t] # Keep - 1
  BY <1>2
<1>8. \/ file[at[t]] = <<>> /\ file' = file /\ removed' = removed
      \/ at[t] = Keep - 1 /\ file' = file /\ removed' = removed
      \/ at[t] = Keep - 1 /\ file[at[t]] # <<>> /\ RemoveFile(at[t])
      \/ at[t] < Keep - 1 /\ file[at[t]] # <<>> /\ RenameFile(at[t], at[t] + 1)
  BY <1>6, <1>7 DEF ShiftKept, fileVars, FilesMove
<1> QED BY <1>1, <1>2, <1>4, <1>5, <1>8

(* There are no more holes when a kept file has been moved.                 *)
LEMMA HolesWhenKeptMoves ==
    ASSUME LogInv, [LogNext]_logVars, OneReader', NEW t \in Thread, ShiftKept(t), FilesMove'
    PROVE  \/ Holes' \subseteq Holes
           \/ \E x \in Holes, y \in Nat : Holes' \subseteq (Holes \ {x}) \cup {y}
<1> DEFINE i == at[t]
<1>1. /\ step[t] = "rolling" /\ i > 0 /\ i \in Nat /\ i < Keep
      /\ Places = (0 .. Keep - 1) \ {i + 1} /\ Places' = (0 .. Keep - 1) \ {i}
      /\ \/ file[i] = <<>> /\ file' = file /\ removed' = removed
         \/ i = Keep - 1 /\ file' = file /\ removed' = removed
         \/ i = Keep - 1 /\ file[i] # <<>> /\ RemoveFile(i)
         \/ i < Keep - 1 /\ file[i] # <<>> /\ RenameFile(i, i + 1)
  BY KeptMoves
<1>2. /\ file \in [FileNo -> Seq(Log)] /\ Keep \in Nat /\ SizeLimit \in Nat
      /\ 0 .. Keep - 1 \subseteq FileNo
      /\ \A k \in FileNo : Len(file[k]) \in Nat
      /\ Len(<<>>) = 0
  <2>1. file \in [FileNo -> Seq(Log)]
    BY DEF LogInv, LogTypeOK
  <2> QED BY <1>1, <2>1, PlacesOfFiles, ConstantsAssumption
<1>3. i + 1 < Oldest => file[i + 1] = <<>>
  BY <1>1, LogAccidentsStay DEF LogInv, RoomIsMade, FilesMove
<1>4. i + 1 <= Keep - 1 => i + 1 < Oldest \/ i + 1 = Keep - 1
  BY <1>1, <1>2 DEF Oldest
<1> HIDE DEF i
<1>5. CASE file' = file /\ removed' = removed /\ i = Keep - 1
  <2>1. \A k \in 0 .. Keep - 1 : k # i + 1
    BY <1>1, <1>2, <1>5
  <2> QED BY <1>1, <1>5, <2>1 DEF Holes, Due
<1>6. CASE file' = file /\ removed' = removed /\ file[i] = <<>>
  <2>1. Holes' \subseteq (Holes \ {i}) \cup {i + 1}
    BY <1>1, <1>6 DEF Holes, Due
  <2>2. ASSUME i + 1 \in Holes' PROVE i \in Holes
    <3>1. i + 1 \in 0 .. Keep - 1 /\ Len(file[i + 1]) < SizeLimit
             /\ (removed # {} \/ \E j \in i + 1 .. Keep - 1 : file[j] # <<>>)
      BY <1>1, <1>6, <2>2 DEF Holes, Due
    <3>2. i + 1 .. Keep - 1 \subseteq i .. Keep - 1
      BY <1>1, <1>2
    <3>3. Len(file[i]) < SizeLimit
      BY <1>2, <1>6, <3>1
    <3>4. i \in (0 .. Keep - 1) \ {i + 1}
      BY <1>1, <1>2
    <3> QED BY <1>1, <3>1, <3>2, <3>3, <3>4 DEF Holes, Due
  <2> QED BY <1>1, <2>1, <2>2
<1>7. CASE i = Keep - 1 /\ file[i] # <<>> /\ RemoveFile(i)
  <2>1. file' = [file EXCEPT ![i] = <<>>]
    BY <1>7 DEF RemoveFile
  <2>2. ASSUME NEW k \in Holes' PROVE k \in Holes
    <3>1. k \in (0 .. Keep - 1) \ {i} /\ Len(file'[k]) < SizeLimit
      BY <1>1, <2>2 DEF Holes
    <3>2. file'[k] = file[k]
      BY <1>2, <2>1, <3>1
    <3>3. i \in k .. Keep - 1 /\ k # i + 1
      BY <1>1, <1>2, <1>7, <3>1
    <3> QED BY <1>1, <1>7, <3>1, <3>2, <3>3 DEF Holes, Due
  <2> QED BY <2>2
<1>8. CASE i < Keep - 1 /\ file[i] # <<>> /\ RenameFile(i, i + 1)
  <2>1. /\ file' = [file EXCEPT ![i + 1] = file[i], ![i] = <<>>]
        /\ removed' = removed \cup LogsIn(file[i + 1])
    BY <1>8 DEF RenameFile
  <2>2. /\ i # i + 1 /\ i \in 0 .. Keep - 1 /\ i + 1 \in 0 .. Keep - 1
        /\ i \in FileNo /\ i + 1 \in FileNo
    BY <1>1, <1>2, <1>8
  <2>3. /\ file'[i] = <<>> /\ file'[i + 1] = file[i]
        /\ \A k \in FileNo \ {i, i + 1} : file'[k] = file[k]
    BY <1>2, <2>1, <2>2
  <2>4. ASSUME i + 1 \in Holes' PROVE i \in Holes
    <3>1. Len(file[i]) < SizeLimit
      BY <2>3, <2>4 DEF Holes
    <3>2. i \in i .. Keep - 1
      BY <1>1, <1>2
    <3> QED BY <1>1, <1>8, <2>2, <3>1, <3>2 DEF Holes, Due
  <2>5. ASSUME NEW k \in Holes', k # i + 1 PROVE k \in Holes /\ k # i
    <3>1. /\ k \in (0 .. Keep - 1) \ {i} /\ Len(file'[k]) < SizeLimit
          /\ removed' # {} \/ \E j \in k .. Keep - 1 : file'[j] # <<>>
      BY <1>1, <2>5 DEF Holes, Due
    <3>2. file'[k] = file[k]
      BY <1>2, <2>3, <2>5, <3>1
    <3>3. CASE k < i
      <4>1. i \in k .. Keep - 1
        BY <1>1, <1>2, <3>1, <3>3
      <4> QED BY <1>1, <1>8, <2>5, <3>1, <3>2, <4>1 DEF Holes, Due
    <3>4. CASE k > i + 1
      <4>1. file[i + 1] = <<>>
        BY <1>2, <1>3, <1>4, <2>2, <3>1, <3>4
      <4>2. removed' = removed
        BY <2>1, <4>1, LogsAre
      <4>3. \A j \in k .. Keep - 1 : file'[j] = file[j]
        <5>1. ASSUME NEW j \in k .. Keep - 1 PROVE j \in 0 .. Keep - 1 /\ j # i /\ j # i + 1
          BY <1>1, <1>2, <3>1, <3>4
        <5>2. \A j \in k .. Keep - 1 : j \in FileNo \ {i, i + 1}
          BY <1>2, <5>1
        <5> QED BY <2>3, <5>2
      <4> QED BY <1>1, <2>5, <3>1, <3>2, <4>2, <4>3 DEF Holes, Due
    <3>5. k < i \/ k > i + 1
      BY <1>1, <1>2, <2>5, <3>1
    <3> QED BY <3>1, <3>3, <3>4, <3>5
  <2> QED BY <1>1, <2>4, <2>5
<1> QED BY <1>1, <1>5, <1>6, <1>7, <1>8

(* What moving the active file adds to the holes.                           *)
LEMMA HolesWhenActiveMoves ==
    ASSUME LogInv, [LogNext]_logVars, LogTypeOK', OneReader', NEW t \in Thread,
           ShiftActive(t), FilesMove'
    PROVE  /\ NextHole = 0 /\ ends' = ends
           /\ \/ /\ failures' >= failures + NextHole'
                 /\ \/ Holes' \subseteq Holes
                    \/ \E x \in Holes, y \in Nat : Holes' \subseteq (Holes \ {x}) \cup {y}
              \/ /\ failures' >= failures + 1 + NextHole'
                 /\ \E y \in Nat : Holes' \subseteq Holes \cup {y}
<1>1. /\ step[t] = "rolling" /\ at[t] = 0 /\ step' = [step EXCEPT ![t] = After(t)]
      /\ ends' = ends
  BY DEF ShiftActive, Go
<1>2. Rolling = {t} /\ Places = (0 .. Keep - 1) \ {1}
  BY <1>1, PlacesAre
<1>3. /\ file \in [FileNo -> Seq(Log)] /\ Keep \in Nat /\ Keep > 0 /\ SizeLimit \in Nat
      /\ 0 .. Keep - 1 \subseteq FileNo /\ 0 \in FileNo /\ 1 \in FileNo
      /\ \A k \in FileNo : Len(file[k]) \in Nat
      /\ Len(<<>>) = 0 /\ failures \in Nat
  <2>1. file \in [FileNo -> Seq(Log)] /\ failures \in Nat
    BY ConstantsAssumption DEF LogInv, LogTypeOK
  <2>2. at[t] < Keep
    BY <1>1, MoverIs
  <2> QED BY <1>1, <2>1, <2>2, PlacesOfFiles, ConstantsAssumption
<1>4. Rolling' = {} /\ Places' = (0 .. Keep - 1) \ {0}
  <2>1. \A u \in Thread : u # t => step[u] # "rolling"
    BY <1>1, ThreadsAre DEF LogInv, OneReader
  <2>2. After(t) # "rolling" /\ step \in [Thread -> {"idle", "loop", "test", "acquire",
                    "dequeue", "write", "rolling", "signalled", "close", "terminate"}]
    BY DEF After, LogInv, LogTypeOK
  <2>3. \A u \in Thread : step'[u] # "rolling"
    BY <1>1, <2>1, <2>2
  <2> QED BY <2>3, PlacesBecome
<1>5. NextHole = 0
  BY <1>2 DEF NextHole
<1>6. 1 < Oldest => file[1] = <<>>
  <2>1. at[t] + 1 = 1
    BY <1>1
  <2> QED BY <1>1, <2>1, LogAccidentsStay DEF LogInv, RoomIsMade, FilesMove
<1>7. 1 <= Keep - 1 => 1 < Oldest \/ 1 = Keep - 1
  BY <1>3 DEF Oldest
<1>8. ASSUME file' = file, removed' = removed PROVE \E y \in Nat : Holes' \subseteq Holes \cup {y}
  <2>1. Holes' \subseteq Holes \cup {1}
    BY <1>2, <1>4, <1>8 DEF Holes, Due
  <2> QED BY <2>1
<1>9. ASSUME file' = file, removed' = removed, file[0] = <<>>
       PROVE  \/ Holes' \subseteq Holes
              \/ \E x \in Holes, y \in Nat : Holes' \subseteq (Holes \ {x}) \cup {y}
  <2>1. Holes' \subseteq (Holes \ {0}) \cup {1}
    BY <1>2, <1>4, <1>9 DEF Holes, Due
  <2>2. ASSUME 1 \in Holes' PROVE 0 \in Holes
    <3>1. /\ Len(file[1]) < SizeLimit
          /\ removed # {} \/ \E j \in 1 .. Keep - 1 : file[j] # <<>>
      BY <1>4, <1>9, <2>2 DEF Holes, Due
    <3>2. 1 .. Keep - 1 \subseteq 0 .. Keep - 1 /\ 0 \in 0 .. Keep - 1
      BY <1>3
    <3>3. Len(file[0]) < SizeLimit
      BY <1>3, <1>9, <3>1
    <3> QED BY <1>2, <3>1, <3>2, <3>3 DEF Holes, Due
  <2> QED BY <2>1, <2>2
<1>10. ASSUME RenameFile(0, 1)
       PROVE  \/ Holes' \subseteq Holes
              \/ \E x \in Holes, y \in Nat : Holes' \subseteq (Holes \ {x}) \cup {y}
  <2>1. /\ file' = [file EXCEPT ![1] = file[0], ![0] = <<>>]
        /\ removed' = removed \cup LogsIn(file[1])
    BY <1>10 DEF RenameFile
  <2>2. /\ file'[1] = file[0]
        /\ \A k \in FileNo \ {0, 1} : file'[k] = file[k]
    BY <1>3, <2>1
  <2>3. ASSUME NEW k \in Holes', k # 1 PROVE k \in Holes /\ k # 0
    <3>1. /\ k \in (0 .. Keep - 1) \ {0} /\ Len(file'[k]) < SizeLimit
          /\ removed' # {} \/ \E j \in k .. Keep - 1 : file'[j] # <<>>
      BY <1>4, <2>3 DEF Holes, Due
    <3>2. file'[k] = file[k]
      BY <1>3, <2>2, <2>3, <3>1
    <3>3. k > 1
      BY <1>3, <2>3, <3>1
    <3>4. file[1] = <<>>
      BY <1>3, <1>6, <1>7, <3>1, <3>3
    <3>5. removed' = removed
      BY <2>1, <3>4, LogsAre
    <3>6. \A j \in k .. Keep - 1 : file'[j] = file[j]
      <4>1. ASSUME NEW j \in k .. Keep - 1 PROVE j \in 0 .. Keep - 1 /\ j # 0 /\ j # 1
        BY <1>3, <3>1, <3>3
      <4>2. \A j \in k .. Keep - 1 : j \in FileNo \ {0, 1}
        BY <1>3, <4>1
      <4> QED BY <2>2, <4>2
    <3> QED BY <1>2, <2>3, <3>1, <3>2, <3>5, <3>6 DEF Holes, Due
  <2>4. ASSUME 1 \in Holes' PROVE 0 \in Holes
    <3>1. /\ 1 \in 0 .. Keep - 1 /\ Len(file[0]) < SizeLimit
          /\ removed' # {} \/ \E j \in 1 .. Keep - 1 : file'[j] # <<>>
      BY <2>2, <2>4, <1>4 DEF Holes, Due
    <3>2. removed' # {} => removed # {} \/ file[1] # <<>>
      BY <2>1, LogsAre
    <3>3. \A j \in 1 .. Keep - 1 : j \in 0 .. Keep - 1 /\ j \in FileNo
      BY <1>3
    <3>4. 0 \in 0 .. Keep - 1
      BY <1>3
    <3>5. ASSUME NEW j \in 1 .. Keep - 1, file'[j] # <<>> PROVE \E l \in 0 .. Keep - 1 : file[l] # <<>>
      <4>1. CASE j = 1
        BY <2>2, <3>4, <3>5, <4>1
      <4>2. CASE j # 1
        <5>1. j \in FileNo \ {0, 1}
          BY <1>3, <3>3, <4>2
        <5> QED BY <2>2, <3>3, <3>5, <5>1
      <4> QED BY <4>1, <4>2
    <3>6. Due(0)
      BY <3>1, <3>2, <3>5 DEF Due
    <3> QED BY <1>2, <3>1, <3>4, <3>6 DEF Holes
  <2> QED BY <2>3, <2>4
<1>11. \/ /\ RenameFile(0, 1) /\ failures' >= failures + NextHole'
       \/ /\ file' = file /\ removed' = removed /\ failures' >= failures + 1 + NextHole'
       \/ /\ file' = file /\ removed' = removed /\ file[0] = <<>>
          /\ failures' >= failures + NextHole'
  <2>1. PICK renamed \in BOOLEAN, opened \in BOOLEAN :
           /\ failures' = failures + (IF renamed \/ (stream = "failed" /\ file[0] = <<>>) THEN 0 ELSE 1)
                                   + (IF opened THEN 0 ELSE 1)
           /\ stream' = IF opened THEN "open" ELSE "failed"
           /\ IF renamed /\ ~(stream = "failed" /\ file[0] = <<>>) THEN RenameFile(0, 1)
              ELSE UNCHANGED fileVars
    BY DEF ShiftActive
  <2>2. NextHole' = IF opened THEN 0 ELSE 1
    BY <1>4, <2>1 DEF NextHole
  <2> QED BY <1>3, <2>1, <2>2 DEF fileVars
<1> QED BY <1>1, <1>5, <1>8, <1>9, <1>10, <1>11

(* A write makes no hole, but for an active file that is not there when it  *)
(* is about to be moved.                                                    *)
LEMMA HolesWhenWritten ==
    ASSUME LogInv, [LogNext]_logVars, LogTypeOK', OneReader', NEW t \in Thread, Write(t)
    PROVE  /\ ends' = ends /\ failures' = failures
           /\ \/ Holes' = Holes /\ NextHole' = NextHole
              \/ Holes' \subseteq Holes \cup {0} /\ NextHole = 1 /\ NextHole' = 0
              \/ Holes' \subseteq Holes /\ NextHole' = 0
<1>1. /\ step[t] = "write" /\ "two_readers" \notin logAccidents
      /\ ends' = ends /\ failures' = failures /\ stream' = stream /\ removed' = removed
  BY DEF Write, ProcessorRuns
<1>2. /\ file \in [FileNo -> Seq(Log)] /\ Keep \in Nat
      /\ 0 .. Keep - 1 \subseteq FileNo /\ 0 \in FileNo
      /\ step \in [Thread -> {"idle", "loop", "test", "acquire", "dequeue", "write",
                              "rolling", "signalled", "close", "terminate"}]
      /\ at \in [Thread -> FileNo]
      /\ After(t) # "rolling"
  <2>1. After(t) # "rolling"
    BY DEF After
  <2>2. Keep \in Nat /\ 0 .. Keep - 1 \subseteq FileNo /\ 0 \in FileNo
    BY PlacesOfFiles, ConstantsAssumption
  <2> QED BY <2>1, <2>2 DEF LogInv, LogTypeOK
<1>3. \A u \in Thread : step[u] # "rolling"
  <2>1. PICK u \in Thread : step[u] \notin {"write", "rolling"}
    BY <1>1 DEF LogInv, OneReader
  <2> QED BY <1>1, <2>1, ThreadsAre
<1>4. Rolling = {} /\ Places = (0 .. Keep - 1) \ {0}
  BY <1>3, PlacesAre
<1>5. \A k \in FileNo \ {0} : file'[k] = file[k]
  BY <1>2 DEF Write
<1>6. ASSUME NEW k \in (0 .. Keep - 1) \ {0}
      PROVE  k \in FileNo \ {0} /\ file'[k] = file[k] /\ Due(k)' = Due(k)
  <2>1. ASSUME NEW j \in k .. Keep - 1 PROVE j \in 0 .. Keep - 1 /\ j # 0
    BY <1>2, <1>6
  <2>2. \A j \in k .. Keep - 1 : file'[j] = file[j]
    BY <1>2, <1>5, <2>1
  <2> QED BY <1>1, <1>2, <1>5, <1>6, <2>2 DEF Due
<1>7. CASE step' = [step EXCEPT ![t] = After(t)]
  <2>1. \A u \in Thread : step'[u] # "rolling"
    BY <1>2, <1>3, <1>7
  <2>2. Rolling' = {} /\ Places' = (0 .. Keep - 1) \ {0}
    BY <2>1, PlacesBecome
  <2>3. Holes' = Holes
    BY <1>4, <1>6, <2>2 DEF Holes
  <2>4. NextHole' = NextHole
    BY <1>1, <1>4, <2>2 DEF NextHole
  <2> QED BY <1>1, <2>3, <2>4
<1>8. CASE /\ step' = [step EXCEPT ![t] = "rolling"]
           /\ at' = [at EXCEPT ![t] = Keep - 1]
           /\ \/ stream = "failed"
              \/ Len(file'[0]) >= SizeLimit
  <2>1. step'[t] = "rolling" /\ at'[t] = Keep - 1
    BY <1>2, <1>8
  <2>2. Rolling' = {t} /\ Places' = (0 .. Keep - 1) \ {at'[t] + 1}
    BY <2>1, PlacesBecome
  <2>3. NextHole' = 0
    BY <2>2 DEF NextHole
  <2>4. Holes' \subseteq Holes \cup {0}
    <3>1. ASSUME NEW k \in Holes', k # 0 PROVE k \in Holes
      <4>1. k \in (0 .. Keep - 1) \ {0} /\ Len(file'[k]) < SizeLimit /\ Due(k)'
        BY <2>2, <3>1 DEF Holes
      <4> QED BY <1>4, <1>6, <4>1 DEF Holes
    <3> QED BY <3>1
  <2>5. CASE stream = "failed"
    BY <1>1, <1>4, <2>3, <2>4, <2>5 DEF NextHole
  <2>6. CASE Len(file'[0]) >= SizeLimit
    <3>1. file' \in [FileNo -> Seq(Log)] /\ SizeLimit \in Nat
      BY ConstantsAssumption DEF LogTypeOK
    <3>2. Len(file'[0]) \in Nat
      BY <1>2, <3>1
    <3>3. 0 \notin Holes'
      BY <2>6, <3>1, <3>2 DEF Holes
    <3> QED BY <1>1, <2>3, <2>4, <3>3
  <2> QED BY <1>8, <2>5, <2>6
<1>9. \/ step' = [step EXCEPT ![t] = After(t)]
      \/ /\ step' = [step EXCEPT ![t] = "rolling"]
         /\ at' = [at EXCEPT ![t] = Keep - 1]
         /\ \/ stream = "failed"
            \/ Len(file'[0]) >= SizeLimit
  <2>1. \A tooLong \in TooLong(file'[0]) :
            tooLong => stream = "failed" \/ Len(file'[0]) >= SizeLimit
    BY DEF TooLong
  <2> QED BY <2>1 DEF Write, Go
<1> QED BY <1>7, <1>8, <1>9

(* The end of a process leaves one more.                                    *)
LEMMA HolesWhenEnded ==
    ASSUME LogInv, [LogNext]_logVars, LogTypeOK', OneReader', EndProcess
    PROVE  /\ ends' = ends + 1 /\ failures' >= failures + NextHole'
           /\ \E y \in Nat : Holes' \subseteq Holes \cup {y}
<1>1. /\ ends' = ends + 1 /\ file' = file /\ removed' = removed
      /\ \A t \in Thread : step'[t] # "rolling"
      /\ \/ stream' = "open" /\ failures' = failures
         \/ stream' = "failed" /\ failures' = failures + 1
      /\ failures \in Nat
  BY ConstantsAssumption DEF EndProcess, fileVars, Succeeds, Fails, LogInv, LogTypeOK
<1>2. Rolling' = {} /\ Places' = (0 .. Keep - 1) \ {0}
  BY <1>1, PlacesBecome
<1>3. failures' >= failures + NextHole'
  <2>1. NextHole' = IF stream' = "failed" THEN 1 ELSE 0
    BY <1>2 DEF NextHole
  <2> QED BY <1>1, <2>1
<1>4. CASE \A t \in Thread : step[t] # "rolling"
  <2>1. Places = (0 .. Keep - 1) \ {0}
    BY <1>4, PlacesAre
  <2>2. Holes' \subseteq Holes
    BY <1>1, <1>2, <2>1 DEF Holes, Due
  <2> QED BY <1>1, <1>3, <2>2
<1>5. ASSUME NEW t \in Thread, step[t] = "rolling"
      PROVE  \E y \in Nat : Holes' \subseteq Holes \cup {y}
  <2>1. Places = (0 .. Keep - 1) \ {at[t] + 1}
    BY <1>5, PlacesAre
  <2>2. Holes' \subseteq Holes \cup {at[t] + 1}
    BY <1>1, <1>2, <2>1 DEF Holes, Due
  <2>3. at[t] + 1 \in Nat
    BY <1>5, MoverIs
  <2> QED BY <2>2, <2>3
<1> QED BY <1>1, <1>3, <1>4, <1>5

(* Other steps change nothing that matters.                                 *)
LEMMA HolesStay ==
    ASSUME UNCHANGED <<file, removed, at>>, Rolling' = Rolling
    PROVE  Holes' = Holes
<1>1. \A i : Due(i)' = Due(i)
  BY DEF Due
<1>2. {at'[t] + 1 : t \in Rolling'} = {at[t] + 1 : t \in Rolling}
  OBVIOUS
<1>3. Places' = Places
  BY <1>2 DEF Places
<1> QED BY <1>1, <1>3 DEF Holes

LEMMA HolesWhenQuiet ==
    ASSUME LogInv, [LogNext]_logVars
    PROVE  \/ ProcessorRuns /\ EndProcess
           \/ \E t \in Thread : Write(t) \/ ShiftKept(t) \/ ShiftActive(t)
           \/ /\ Holes' = Holes /\ ends' >= ends /\ failures' >= failures
              /\ NextHole' = NextHole
<1>0. /\ step \in [Thread -> {"idle", "loop", "test", "acquire", "dequeue", "write",
                              "rolling", "signalled", "close", "terminate"}]
      /\ ends \in Nat /\ failures \in Nat
      /\ "worker" \in Thread /\ "closer" \in Thread
  BY ConstantsAssumption DEF LogInv, LogTypeOK, Thread
<1> DEFINE Same == /\ file' = file /\ removed' = removed /\ at' = at
                   /\ stream' = stream \/ (stream = "open" /\ stream' = "closed")
           Steps == \/ step' = step
                    \/ \E t \in Thread, s \in {"test", "signalled", "terminate",
                                               "acquire", "close", "dequeue", "write"} :
                           step[t] # "rolling" /\ step' = [step EXCEPT ![t] = s]
           Counts == ends' \in {ends, ends + 1} /\ failures' \in {failures, failures + 1}
<1>1. ASSUME Same, Steps, Counts
      PROVE  Holes' = Holes /\ ends' >= ends /\ failures' >= failures /\ NextHole' = NextHole
  <2>1. \A t \in Thread : step'[t] = "rolling" <=> step[t] = "rolling"
    BY <1>0, <1>1
  <2>2. Rolling' = Rolling
    BY <2>1 DEF Rolling
  <2>3. Holes' = Holes
    BY <1>1, <2>2, HolesStay
  <2>4. NextHole' = NextHole
    BY <1>1, <2>2 DEF NextHole
  <2>5. ends' >= ends /\ failures' >= failures
    BY <1>0, <1>1
  <2> QED BY <2>3, <2>4, <2>5
<1>2. ASSUME NEW u \in Users, FindQueue(u) \/ BindQueue(u) PROVE Same /\ Steps /\ Counts
  BY <1>2 DEF FindQueue, BindQueue, procVars, fileVars
<1>3. ASSUME NEW p \in Producer, TraceLog(p) \/ ReleaseSemaphore(p) \/ ProducerDies(p)
      PROVE  Same /\ Steps /\ Counts
  BY <1>3 DEF TraceLog, ReleaseSemaphore, ProducerDies, procVars, fileVars, Fails, Succeeds
<1>4. ASSUME Loop \/ Acquire \/ CatchSignal \/ SetShuttingDown \/ Close
      PROVE  Same /\ Steps /\ Counts
  <2>1. Same
    BY <1>4 DEF Loop, Acquire, CatchSignal, SetShuttingDown, Close, fileVars, LogInv, LogTypeOK
  <2>2. Steps
    BY <1>0, <1>4 DEF Loop, Acquire, CatchSignal, SetShuttingDown, Close, Go
  <2>3. Counts
    BY <1>4 DEF Loop, Acquire, CatchSignal, SetShuttingDown, Close
  <2> QED BY <2>1, <2>2, <2>3
<1>5. ASSUME NEW t \in Thread, TestEmpty(t) \/ Dequeue(t) PROVE Same /\ Steps /\ Counts
  <2>1. Same /\ Counts
    BY <1>5 DEF TestEmpty, Dequeue, fileVars
  <2>2. Steps
    BY <1>5 DEF TestEmpty, Dequeue, Go
  <2> QED BY <2>1, <2>2
<1>6. ASSUME UNCHANGED logVars PROVE Same /\ Steps /\ Counts
  BY <1>6 DEF logVars
<1> HIDE DEF Same, Steps, Counts
<1> QED BY <1>1, <1>2, <1>3, <1>4, <1>5, <1>6, LogStepIs

(* Every hole goes back to an end or a failure.                             *)
LEMMA HolesKept ==
    ASSUME LogInv, [LogNext]_logVars, LogTypeOK', OneReader'
    PROVE  HolesAreExplained'
<1>1. SUFFICES ASSUME FilesMove', Cardinality(Holes) + NextHole <= ends + failures
               PROVE  Cardinality(Holes') + NextHole' <= ends' + failures'
  BY LogAccidentsStay DEF HolesAreExplained, FilesMove, LogInv
<1>2. /\ IsFiniteSet(Holes) /\ ends \in Nat /\ failures \in Nat
      /\ ends' \in Nat /\ failures' \in Nat
      /\ NextHole \in 0 .. 1 /\ NextHole' \in 0 .. 1
  <2>1. IsFiniteSet(Holes)
    BY PlacesAre
  <2>2. ends \in Nat /\ failures \in Nat /\ ends' \in Nat /\ failures' \in Nat
    BY ConstantsAssumption DEF LogInv, LogTypeOK
  <2>3. NextHole \in 0 .. 1 /\ NextHole' \in 0 .. 1
    BY DEF NextHole
  <2> QED BY <2>1, <2>2, <2>3
<1>3. /\ Cardinality(Holes) \in Nat
      /\ Holes' \subseteq Holes =>
             Cardinality(Holes') <= Cardinality(Holes) /\ Cardinality(Holes') \in Nat
      /\ \A y \in Nat : Holes' \subseteq Holes \cup {y} =>
             Cardinality(Holes') <= Cardinality(Holes) + 1 /\ Cardinality(Holes') \in Nat
      /\ \A x \in Holes, y \in Nat : Holes' \subseteq (Holes \ {x}) \cup {y} =>
             Cardinality(Holes') <= Cardinality(Holes) /\ Cardinality(Holes') \in Nat
  BY <1>2, SetsCompared
<1>4. CASE ProcessorRuns /\ EndProcess
  <2>1. /\ ends' = ends + 1 /\ failures' >= failures + NextHole'
        /\ \E y \in Nat : Holes' \subseteq Holes \cup {y}
    BY <1>4, HolesWhenEnded
  <2>2. Cardinality(Holes') <= Cardinality(Holes) + 1 /\ Cardinality(Holes') \in Nat
    BY <1>3, <2>1
  <2>3. ends' = ends + 1 /\ failures' >= failures + NextHole'
    BY <2>1
  <2>4. /\ Cardinality(Holes) \in Nat /\ Cardinality(Holes) + NextHole <= ends + failures
        /\ NextHole \in Nat
    BY <1>1, <1>2, <1>3
  <2>5. ends \in Nat /\ failures \in Nat /\ ends' \in Nat /\ failures' \in Nat
    BY <1>2
  <2>6. CASE NextHole' = 0
    BY <2>2, <2>3, <2>4, <2>5, <2>6
  <2>7. CASE NextHole' = 1
    BY <2>2, <2>3, <2>4, <2>5, <2>7
  <2> QED BY <1>2, <2>6, <2>7
<1>5. ASSUME NEW t \in Thread, Write(t)
      PROVE  Cardinality(Holes') + NextHole' <= ends' + failures'
  <2>1. /\ ends' = ends /\ failures' = failures
        /\ \/ Holes' = Holes /\ NextHole' = NextHole
           \/ Holes' \subseteq Holes \cup {0} /\ NextHole = 1 /\ NextHole' = 0
           \/ Holes' \subseteq Holes /\ NextHole' = 0
    BY <1>5, HolesWhenWritten
  <2>2. CASE Holes' = Holes /\ NextHole' = NextHole
    BY <1>1, <2>1, <2>2
  <2>3. CASE Holes' \subseteq Holes \cup {0} /\ NextHole = 1 /\ NextHole' = 0
    <3>1. Cardinality(Holes') <= Cardinality(Holes) + 1 /\ Cardinality(Holes') \in Nat
      BY <1>3, <2>3
    <3> QED BY <1>1, <1>2, <1>3, <2>1, <2>3, <3>1
  <2>4. CASE Holes' \subseteq Holes /\ NextHole' = 0
    <3>1. Cardinality(Holes') <= Cardinality(Holes) /\ Cardinality(Holes') \in Nat
      BY <1>3, <2>4
    <3> QED BY <1>1, <1>2, <1>3, <2>1, <2>4, <3>1
  <2> QED BY <2>1, <2>2, <2>3, <2>4
<1>6. ASSUME NEW t \in Thread, ShiftKept(t)
      PROVE  Cardinality(Holes') + NextHole' <= ends' + failures'
  <2>1. Rolling # {} /\ Rolling' # {}
    BY <1>1, <1>6, KeptMoves
  <2>2. NextHole = 0 /\ NextHole' = 0
    BY <2>1 DEF NextHole
  <2>3. \/ Holes' \subseteq Holes
        \/ \E x \in Holes, y \in Nat : Holes' \subseteq (Holes \ {x}) \cup {y}
    BY <1>1, <1>6, HolesWhenKeptMoves
  <2>4. Cardinality(Holes') <= Cardinality(Holes) /\ Cardinality(Holes') \in Nat
    BY <1>3, <2>3
  <2>5. ends' = ends /\ (failures' = failures \/ failures' = failures + 1)
    BY <1>6 DEF ShiftKept, Fails, Succeeds
  <2> QED BY <1>1, <1>2, <1>3, <2>2, <2>4, <2>5
<1>7. ASSUME NEW t \in Thread, ShiftActive(t)
      PROVE  Cardinality(Holes') + NextHole' <= ends' + failures'
  <2>1. /\ NextHole = 0 /\ ends' = ends
        /\ \/ /\ failures' >= failures + NextHole'
              /\ \/ Holes' \subseteq Holes
                 \/ \E x \in Holes, y \in Nat : Holes' \subseteq (Holes \ {x}) \cup {y}
           \/ /\ failures' >= failures + 1 + NextHole'
              /\ \E y \in Nat : Holes' \subseteq Holes \cup {y}
    BY <1>1, <1>7, HolesWhenActiveMoves
  <2>2. \/ /\ failures' >= failures + NextHole'
           /\ Cardinality(Holes') <= Cardinality(Holes) /\ Cardinality(Holes') \in Nat
        \/ /\ failures' >= failures + 1 + NextHole'
           /\ Cardinality(Holes') <= Cardinality(Holes) + 1 /\ Cardinality(Holes') \in Nat
    BY <1>3, <2>1
  <2>3. NextHole = 0 /\ ends' = ends
    BY <2>1
  <2>4. /\ Cardinality(Holes) \in Nat /\ Cardinality(Holes) + NextHole <= ends + failures
        /\ NextHole \in Nat
    BY <1>1, <1>2, <1>3
  <2>5. ends \in Nat /\ failures \in Nat /\ ends' \in Nat /\ failures' \in Nat
    BY <1>2
  <2>6. CASE NextHole' = 0
    BY <2>2, <2>3, <2>4, <2>5, <2>6
  <2>7. CASE NextHole' = 1
    BY <2>2, <2>3, <2>4, <2>5, <2>7
  <2> QED BY <1>2, <2>6, <2>7
<1>8. CASE /\ Holes' = Holes /\ ends' >= ends /\ failures' >= failures
           /\ NextHole' = NextHole
  BY <1>1, <1>2, <1>3, <1>8
<1> QED BY <1>4, <1>5, <1>6, <1>7, <1>8, HolesWhenQuiet

(* Files that are full hold as many logs as they have room for, and no log  *)
(* is in two of them.                                                       *)
LEMMA FullFilesHold ==
    ASSUME LogTypeOK, FilesInOrder, NEW F, F \subseteq FileNo,
           IsFiniteSet(F), \A i \in F : Len(file[i]) >= SizeLimit
    PROVE  /\ IsFiniteSet(Written)
           /\ Cardinality(F) * SizeLimit <= Cardinality(Written)
<1> DEFINE Rooms == F \X (1 .. SizeLimit)
           f == [p \in Rooms |-> file[p[1]][p[2]]]
<1>1. /\ file \in [FileNo -> Seq(Log)] /\ SizeLimit \in Nat /\ MaxLogs \in Nat
      /\ \A i \in FileNo : i \in Nat
  BY PlacesOfFiles, ConstantsAssumption DEF LogTypeOK
<1>2. IsFiniteSet(Written)
  <2>1. Written \subseteq Log
    BY <1>1, LogsAre DEF Written
  <2>2. IsFiniteSet(1 .. MaxLogs)
    BY <1>1, FS_Interval
  <2> QED BY <2>1, <2>2, FS_Subset DEF Log
<1>3. IsFiniteSet(1 .. SizeLimit) /\ Cardinality(1 .. SizeLimit) = SizeLimit
  BY <1>1, FS_Interval
<1>4. IsFiniteSet(Rooms) /\ Cardinality(Rooms) = Cardinality(F) * SizeLimit
  BY <1>3, FS_Product
<1>5. ASSUME NEW i \in F, NEW k \in 1 .. SizeLimit
      PROVE  /\ i \in FileNo /\ k \in DOMAIN file[i]
             /\ file[i][k] \in LogsIn(file[i]) /\ file[i][k] \in Log
  <2>1. i \in FileNo /\ file[i] \in Seq(Log) /\ Len(file[i]) >= SizeLimit
    BY <1>1
  <2>2. k \in 1 .. Len(file[i]) /\ DOMAIN file[i] = 1 .. Len(file[i])
    BY <1>1, <2>1
  <2> QED BY <2>1, <2>2 DEF LogsIn
<1>6. ASSUME NEW i \in F, NEW k \in 1 .. SizeLimit, NEW j \in F, NEW l \in 1 .. SizeLimit,
             file[i][k] = file[j][l]
      PROVE  i = j /\ k = l
  <2>1. i \in Nat /\ j \in Nat /\ k \in Nat /\ l \in Nat
    BY <1>1
  <2>2. \A n \in Log : ~(n < n)
    BY DEF Log
  <2>3. ~(i < j) /\ ~(j < i)
    BY <1>5, <1>6, <2>2 DEF FilesInOrder
  <2>4. i = j
    BY <2>1, <2>3
  <2>5. ~(k < l) /\ ~(l < k)
    BY <1>5, <1>6, <2>2, <2>4 DEF FilesInOrder
  <2> QED BY <2>1, <2>4, <2>5
<1>7. f \in Injection(Rooms, Written)
  <2>1. \A p \in Rooms : f[p] \in Written
    <3>1. ASSUME NEW p \in Rooms PROVE file[p[1]][p[2]] \in Written
      <4>1. p[1] \in F /\ p[2] \in 1 .. SizeLimit
        OBVIOUS
      <4> QED BY <1>5, <4>1 DEF Written
    <3> QED BY <3>1
  <2>2. ASSUME NEW p \in Rooms, NEW q \in Rooms, f[p] = f[q] PROVE p = q
    <3>1. /\ p[1] \in F /\ p[2] \in 1 .. SizeLimit /\ q[1] \in F /\ q[2] \in 1 .. SizeLimit
          /\ p = <<p[1], p[2]>> /\ q = <<q[1], q[2]>>
      OBVIOUS
    <3>2. file[p[1]][p[2]] = file[q[1]][q[2]]
      BY <2>2
    <3>3. p[1] = q[1] /\ p[2] = q[2]
      BY <1>6, <3>1, <3>2
    <3> QED BY <3>1, <3>3
  <2>3. f \in [Rooms -> Written]
    BY <2>1
  <2> HIDE DEF f, Rooms
  <2> QED BY <2>2, <2>3, Zenon DEF Injection, IsInjective
<1> HIDE DEF f, Rooms
<1>8. Cardinality(Rooms) <= Cardinality(Written)
  BY <1>2, <1>7, FS_Injection
<1> QED BY <1>2, <1>4, <1>8

(* What rollovers leave.                                                    *)
LEMMA NewestKept ==
    ASSUME LogInv
    PROVE  NewestAreKept
<1>1. SUFFICES ASSUME FilesMove, removed # {}
               PROVE  Cardinality(Written) >= (Keep - 1 - ends - failures) * SizeLimit
  BY DEF LogInv, NewestAreKept, OldestGoFirst, FilesMove
<1> DEFINE Full == Places \ Holes
<1>2. /\ Keep \in Nat /\ SizeLimit \in Nat /\ ends \in Nat /\ failures \in Nat
      /\ NextHole \in 0 .. 1
  <2>1. ends \in Nat /\ failures \in Nat
    BY ConstantsAssumption DEF LogInv, LogTypeOK
  <2> QED BY <2>1, ConstantsAssumption DEF NextHole
<1>3. Cardinality(Holes) + NextHole <= ends + failures
  BY <1>1 DEF LogInv, HolesAreExplained, FilesMove
<1>4. /\ IsFiniteSet(Places) /\ IsFiniteSet(Holes) /\ Cardinality(Places) >= Keep - 1
      /\ Cardinality(Places) \in Nat /\ Cardinality(Holes) \in Nat
  <2>1. \E x : Places = (0 .. Keep - 1) \ {x}
    <3>1. CASE \E t \in Thread : step[t] = "rolling"
      BY <3>1, PlacesAre
    <3>2. CASE \A t \in Thread : step[t] # "rolling"
      BY <3>2, PlacesAre
    <3> QED BY <3>1, <3>2
  <2>2. PICK x : Places = (0 .. Keep - 1) \ {x}
    BY <2>1
  <2>3. IsFiniteSet(0 .. Keep - 1) /\ Cardinality(0 .. Keep - 1) = Keep
    <3>1. 0 \in Int /\ Keep - 1 \in Int
      BY <1>2
    <3>2. /\ IsFiniteSet(0 .. Keep - 1)
          /\ Cardinality(0 .. Keep - 1) = IF 0 > Keep - 1 THEN 0 ELSE Keep - 1 - 0 + 1
      BY <3>1, FS_Interval
    <3> QED BY <1>2, <3>2
  <2>4. /\ IsFiniteSet(Places)
        /\ \/ Cardinality(Places) = Cardinality(0 .. Keep - 1) - 1
           \/ Cardinality(Places) = Cardinality(0 .. Keep - 1)
    BY <2>2, <2>3, FS_RemoveElement
  <2>5. IsFiniteSet(Holes)
    BY PlacesAre
  <2>6. Cardinality(Places) \in Nat /\ Cardinality(Holes) \in Nat
    BY <2>4, <2>5, FS_CardinalityType
  <2> QED BY <1>2, <2>3, <2>4, <2>5, <2>6
<1>5. IsFiniteSet(Full) /\ Cardinality(Full) \in Nat
         /\ Cardinality(Full) = Cardinality(Places) - Cardinality(Holes)
  <2>1. Places \cap Holes = Holes
    BY DEF Holes
  <2>2. IsFiniteSet(Full) /\ Cardinality(Full) = Cardinality(Places) - Cardinality(Places \cap Holes)
    BY <1>4, FS_Difference
  <2> QED BY <2>1, <2>2, FS_CardinalityType
<1>6. Full \subseteq FileNo /\ \A i \in Full : Len(file[i]) >= SizeLimit
  <2>1. Full \subseteq FileNo
    <3>1. CASE Keep = 0
      <4>1. 0 .. Keep - 1 = {}
        BY <3>1
      <4> QED BY <4>1, PlacesAre
    <3>2. CASE Keep > 0
      BY <3>2, PlacesAre, PlacesOfFiles
    <3> QED BY <1>2, <3>1, <3>2
  <2>2. ASSUME NEW i \in Full PROVE Len(file[i]) >= SizeLimit
    <3>1. file[i] \in Seq(Log)
      BY <2>1 DEF LogInv, LogTypeOK
    <3>2. Len(file[i]) \in Nat
      BY <3>1
    <3>3. ~(Len(file[i]) < SizeLimit)
      BY <1>1 DEF Holes, Due
    <3> QED BY <1>2, <3>2, <3>3
  <2> QED BY <2>1, <2>2
<1> HIDE DEF Full
<1>7. /\ IsFiniteSet(Written)
      /\ Cardinality(Full) * SizeLimit <= Cardinality(Written)
  BY <1>5, <1>6, FullFilesHold DEF LogInv
<1>8. Cardinality(Written) \in Nat
  BY <1>7, FS_CardinalityType
<1>9. Cardinality(Full) >= Keep - 1 - ends - failures
  BY <1>2, <1>3, <1>4, <1>5
<1>10. ASSUME NEW a \in Int, NEW b \in Int, NEW s \in Nat, a >= b PROVE a * s >= b * s
  <2>1. a - b >= 0
    BY <1>10
  <2>2. (a - b) * s >= 0
    BY <2>1
  <2>3. a * s = b * s + (a - b) * s
    OBVIOUS
  <2> QED BY <2>2, <2>3
<1>11. Cardinality(Full) * SizeLimit >= (Keep - 1 - ends - failures) * SizeLimit
  <2>1. Keep - 1 - ends - failures \in Int /\ Cardinality(Full) \in Int
    BY <1>2, <1>5
  <2> QED BY <1>2, <1>9, <1>10, <2>1
<1>12. /\ Cardinality(Full) * SizeLimit \in Int
       /\ (Keep - 1 - ends - failures) * SizeLimit \in Int
  BY <1>2, <1>5
<1> QED BY <1>7, <1>8, <1>11, <1>12

(* What holds at the start.                                                 *)
LEMMA LogStarts == LogInit => LogInv /\ LossesAreBounded
<1> SUFFICES ASSUME LogInit PROVE LogInv /\ LossesAreBounded
  OBVIOUS
<1>1. LogTypeOK
  <2>1. Users # {} /\ <<>> \in Seq(Log) /\ 0 \in FileNo
    BY UsersAre, PlacesOfFiles
  <2>2. /\ 0 \in 0 .. SemMax /\ 0 \in 0 .. CheckEvery /\ 0 \in 0 .. MaxLogs
        /\ 0 \in 0 .. MaxEnds /\ 0 \in 0 .. MaxFailures
    BY ConstantsAssumption
  <2> QED BY <2>1, <2>2 DEF LogInit, LogTypeOK
<1>2. Written = {} /\ removed = {}
  BY LogsAre DEF LogInit, Written
<1>3. /\ \A u \in Users : uses[u] = NoQueue /\ queue[u] = <<>> /\ pc[u] = "start"
      /\ \A t \in Thread : step[t] \in {"loop", "idle"} /\ hand[t] = 0
      /\ \A i \in FileNo : file[i] = <<>>
      /\ step["worker"] = "loop" /\ step["closer"] = "idle"
      /\ Processor \in Users
  BY UsersAre DEF LogInit, Thread
<1>4. QueuesAreOwned /\ StartsAnew /\ RoomIsMade /\ OldestGoFirst
  BY <1>2, <1>3 DEF LogInit, QueuesAreOwned, StartsAnew, RoomIsMade, OldestGoFirst
<1>5. OneReader /\ NoLostWakeup
  BY <1>3, UsersAre DEF OneReader, NoLostWakeup, ProcessorRuns, Thread
<1>6. FilesInOrder /\ QueuesInOrder
  <2>1. DOMAIN <<>> = {} /\ LogsIn(<<>>) = {}
    BY LogsAre
  <2> QED BY <1>3, <2>1 DEF FilesInOrder, QueuesInOrder
<1>7. HandsAreNew
  BY <1>2, <1>3 DEF LogInit, HandsAreNew
<1>8. HolesAreExplained
  <2>1. Places \subseteq FileNo
    <3>1. Places \subseteq 0 .. Keep - 1
      BY DEF Places
    <3>2. Keep = 0 \/ Keep > 0
      BY ConstantsAssumption
    <3>3. Keep = 0 => 0 .. Keep - 1 = {}
      OBVIOUS
    <3> QED BY <3>1, <3>2, <3>3, PlacesOfFiles
  <2>2. Holes = {}
    <3>1. ASSUME NEW i \in Places PROVE ~ Due(i)
      <4>1. ASSUME NEW j \in i .. Keep - 1 PROVE file[j] = <<>>
        <5>1. j \in 0 .. Keep - 1 /\ Keep > 0
          BY <3>1, ConstantsAssumption DEF Places
        <5> QED BY <1>3, <5>1, PlacesOfFiles
      <4> QED BY <1>2, <4>1 DEF Due
    <3> QED BY <3>1 DEF Holes
  <2>3. Cardinality(Holes) = 0
    BY <2>2, FS_EmptySet
  <2>4. NextHole = 0 /\ ends = 0 /\ failures = 0
    BY DEF NextHole, LogInit
  <2>5. Cardinality(Holes) + NextHole <= ends + failures
    BY <2>3, <2>4
  <2> QED BY <2>5 DEF HolesAreExplained
<1>9. LossesAreBounded
  <2>1. Lost = {} /\ ends = 0
    BY DEF Lost, LogInit
  <2>2. Cardinality(Lost) <= ends
    BY <2>1, FS_EmptySet
  <2> QED BY <2>2 DEF LossesAreBounded
<1> QED BY <1>1, <1>4, <1>5, <1>6, <1>7, <1>8, <1>9, QueueIsOne DEF LogInv

(* The log is in order in every state (LogInv): one queue, no log processor *)
(* that waits while a log waits for it, and the files in the order in which *)
(* the logs were queued, at every moment of a rollover (LoggerSMQueue.cpp,  *)
(* LogProcessor.cpp).                                                       *)
THEOREM LogIsOrderly == LogSpec => []LogInv
<1>1. LogInit => LogInv
  BY LogStarts
<1>2. LogInv /\ [LogNext]_logVars => LogInv'
  <2> SUFFICES ASSUME LogInv, [LogNext]_logVars PROVE LogInv'
    OBVIOUS
  <2>1. LogTypeOK'
    BY LogTypeKept
  <2>2. QueuesAreOwned' /\ OneQueue'
    <3>1. QueuesAreOwned'
      BY QueuesKept
    <3> QED BY <3>1 DEF QueuesAreOwned, OneQueue
  <2>3. StartsAnew' /\ NoLostWakeup' /\ OneReader'
    BY <2>1, StartKept, WakeupsKept, ReadersKept
  <2>4. FilesInOrder' /\ QueuesInOrder' /\ HandsAreNew'
    BY <2>1, <2>3, FileOrderKept, QueueOrderKept, HandsKept
  <2>5. RoomIsMade' /\ OldestGoFirst' /\ HolesAreExplained'
    BY <2>1, <2>3, RoomKept, OldestGoKept, HolesKept
  <2> QED BY <2>1, <2>2, <2>3, <2>4, <2>5 DEF LogInv
<1> QED BY <1>1, <1>2, PTL DEF LogSpec

(* Rollovers give up the oldest logs and leave as many as the kept files    *)
(* are to hold, but for what ends and failures explain (LogProcessor.cpp).  *)
THEOREM RolloversKeepTheNewest == LogSpec => []NewestAreKept
BY LogIsOrderly, NewestKept, PTL

(* What is lost of the logs goes back to processes that ended               *)
(* (LogProcessor.cpp:120-142).                                              *)
THEOREM LossesGoBackToEnds == LogSpec => []LossesAreBounded
<1>1. LogInit => LossesAreBounded
  BY LogStarts
<1>2. LogInv /\ LogInv' /\ LossesAreBounded /\ [LogNext]_logVars => LossesAreBounded'
  BY LossesKept DEF LogInv
<1> QED BY <1>1, <1>2, LogIsOrderly, PTL DEF LogSpec
-----------------------------------------------------------------------------
(* ThreadManager.                                                           *)

ThreadType == [fn : Functions \cup {Monitor, "none"}, calls : 0..Retries,
               entry : Ids \cup {Absent},
               at : {"none", "running", "exiting", "hooks", "asleep",
                     "respawn", "erase"}]

(* The types of the variables but thread.                                   *)
OthersOK ==
    /\ isInitialized \in BOOLEAN
    /\ creation \in [Functions -> {"start", "setFlag", "spawnMonitor", "spawn",
                             "created", "refused"}]
    /\ aceLock \in Ids \cup {Free}
    /\ mapMutex \in Ids \cup {Free}
    /\ restartMap \in [Ids -> Restartable \cup {"none"}]
    /\ spawned \in [Functions -> Nat]
    /\ lost \in [Functions -> Nat]
    /\ returns \in 0..MaxReturns
    /\ spawnFailures \in 0..MaxSpawnFailures

LEMMA LocksInvSplits ==
    /\ LocksInv <=> OthersOK /\ thread \in [Ids -> ThreadType] /\ LocksAreOwned
    /\ LocksInv' <=> OthersOK' /\ thread' \in [Ids -> ThreadType] /\ LocksAreOwned'
  BY DEF LocksInv, ThreadTypeOK, OthersOK, ThreadType

(* The threads there are to begin with, and the ones a spawn makes.         *)
LEMMA NewThreads ==
    /\ NoThread \in ThreadType /\ NoThread.at = "none"
    /\ \A f \in Functions \cup {Monitor} :
          Started(f) \in ThreadType /\ Started(f).at \in {"asleep", "running"}
  BY IdsAssumption DEF NoThread, Started, ThreadType, Monitor, Absent

(* A spawn, whether it succeeds or not, leaves every thread that exists as  *)
(* it is, and the new ones hold no lock.                                    *)
LEMMA SpawnKeeps ==
    ASSUME LocksInv, NEW f \in Functions \cup {Monitor}, NEW n, NEW k,
           SpawnSucceeds(f, k) \/ SpawnFails(f, n, k),
           UNCHANGED <<aceLock, mapMutex, restartMap>>
    PROVE  /\ thread' \in [Ids -> ThreadType]
           /\ spawnFailures' \in 0..MaxSpawnFailures
           /\ LocksAreOwned'
<1> USE LocksInvSplits
<1>1. PICK ids \in SUBSET FreeIds :
          thread' = [id \in Ids |-> IF id \in ids THEN Started(f) ELSE thread[id]]
  BY DEF SpawnSucceeds, SpawnFails, Begin
<1>2. /\ thread' \in [Ids -> ThreadType]
      /\ \A id \in Ids : \/ thread'[id] = thread[id]
                         \/ /\ thread[id].at = "none"
                            /\ thread'[id].at \in {"asleep", "running"}
  BY <1>1, NewThreads DEF FreeIds
<1>3. LocksAreOwned'
  BY <1>2 DEF LocksAreOwned, At, Waiting
<1>4. spawnFailures' \in 0..MaxSpawnFailures
  BY BoundsAssumption DEF SpawnSucceeds, SpawnFails, SpawnError, OthersOK
<1> QED BY <1>2, <1>3, <1>4

(* A thread function runs in one thread, or in those of its pool.           *)
LEMMA WidthIs == \A f : Width(f) \in Nat
  BY IdsAssumption DEF Width

(* The calls that create threads.                                           *)
LEMMA CreateKeeps == ASSUME LocksInv, NEW f \in Functions, Create(f) PROVE LocksInv'
<1> USE LocksInvSplits
<1>1. CASE CheckInitialized(f) \/ SetInitialized(f)
  BY <1>1 DEF CheckInitialized, SetInitialized, OthersOK, LocksAreOwned, At, Waiting
<1>2. CASE SpawnMonitor(f)
  BY <1>2, SpawnKeeps DEF SpawnMonitor, OthersOK
<1>3. CASE SpawnFunction(f)
  <2>1. PICK k \in 0..Width(f) :
            /\ SpawnSucceeds(f, k) \/ SpawnFails(f, Width(f), k)
            /\ spawned' = [spawned EXCEPT ![f] = k]
    BY <1>3 DEF SpawnFunction
  <2>2. k \in Nat
    BY <2>1, WidthIs
  <2>3. /\ thread' \in [Ids -> ThreadType]
        /\ spawnFailures' \in 0..MaxSpawnFailures
        /\ LocksAreOwned'
    BY <1>3, <2>1, SpawnKeeps DEF SpawnFunction
  <2> QED BY <1>3, <2>1, <2>2, <2>3 DEF SpawnFunction, OthersOK
<1> QED BY <1>1, <1>2, <1>3 DEF Create

(* A thread function that returns holds neither lock.                       *)
LEMMA ReturnKeeps == ASSUME LocksInv, NEW id \in Ids, FunctionReturns(id) PROVE LocksInv'
<1> USE LocksInvSplits
<1>1. OthersOK'
  BY BoundsAssumption DEF FunctionReturns, OthersOK
<1>2. PICK new \in ThreadType :
          /\ thread' = [thread EXCEPT ![id] = new]
          /\ new.at \in {"running", "exiting"}
  <2>1. /\ thread[id] \in ThreadType
        /\ \/ /\ thread[id].calls < Retries
              /\ thread' = [thread EXCEPT ![id] =
                                [thread[id] EXCEPT !.calls = @ + 1]]
           \/ thread' = [thread EXCEPT ![id] = [thread[id] EXCEPT !.at = "exiting"]]
    BY DEF FunctionReturns
  <2>2. thread[id].calls < Retries =>
            [thread[id] EXCEPT !.calls = @ + 1] \in ThreadType
    BY <2>1, IdsAssumption DEF ThreadType
  <2>3. [thread[id] EXCEPT !.at = "exiting"] \in ThreadType
    BY <2>1 DEF ThreadType
  <2> QED BY <2>1, <2>2, <2>3 DEF FunctionReturns, At, ThreadType
<1>3. LocksAreOwned'
  BY <1>2 DEF FunctionReturns, LocksAreOwned, At, Waiting
<1> QED BY <1>1, <1>2, <1>3

(* The ways a thread leaves its exit hooks: it gives ACE's lock back and is *)
(* no thread any more.                                                      *)
LEMMA LeaveKeeps ==
    ASSUME LocksInv, NEW id \in Ids, At(id, "hooks"), Leave(id),
           \/ mapMutex = Free \/ UNCHANGED restartMap
    PROVE  thread' \in [Ids -> ThreadType] /\ LocksAreOwned'
<1> USE LocksInvSplits
<1>1. thread' \in [Ids -> ThreadType]
  BY NewThreads DEF Leave
<1>2. \A other \in Ids \ {id} : thread'[other] = thread[other]
  BY DEF Leave
<1>3. thread'[id].at = "none" /\ aceLock' = Free /\ mapMutex' = mapMutex
  BY NewThreads DEF Leave
<1>4. LocksAreOwned'
  BY <1>2, <1>3, IdsAssumption DEF LocksAreOwned, OthersOK, At, Waiting, Free
<1> QED BY <1>1, <1>4

LEMMA ExitKeeps == ASSUME LocksInv, NEW id \in Ids, Exit(id) PROVE LocksInv'
<1> USE LocksInvSplits
<1>1. CASE EnterExitHooks(id)
  <2>1. OthersOK'
    BY <1>1 DEF EnterExitHooks, OthersOK
  <2>2. thread' \in [Ids -> ThreadType]
    BY <1>1 DEF EnterExitHooks, Move, ThreadType
  <2>3. /\ \A other \in Ids \ {id} : thread'[other] = thread[other]
        /\ thread'[id].at = "hooks" /\ thread'[id].entry = thread[id].entry
    BY <1>1 DEF EnterExitHooks, Move, ThreadType
  <2>4. LocksAreOwned'
    BY <1>1, <2>3, IdsAssumption
       DEF EnterExitHooks, LocksAreOwned, At, Waiting, Free
  <2> QED BY <2>1, <2>2, <2>4
<1>2. CASE ApplyInserts(id)
  <2>1. OthersOK'
    BY <1>2 DEF ApplyInserts, Leave, OthersOK
  <2> QED BY <1>2, <2>1, LeaveKeeps DEF ApplyInserts
<1>3. CASE ApplyInsertFails(id)
  <2>1. OthersOK'
    BY <1>3, FunctionsAssumption DEF ApplyInsertFails, Leave, OthersOK
  <2> QED BY <1>3, <2>1, LeaveKeeps DEF ApplyInsertFails
<1>4. CASE ApplyWithoutRestart(id)
  <2>1. OthersOK'
    BY <1>4 DEF ApplyWithoutRestart, Leave, OthersOK
  <2> QED BY <1>4, <2>1, LeaveKeeps DEF ApplyWithoutRestart
<1> QED BY <1>1, <1>2, <1>3, <1>4 DEF Exit

(* The monitor: it has the map's mutex from the first entry to the end, and *)
(* the thread it starts is not itself.                                      *)
LEMMA MonitorKeeps == ASSUME LocksInv, NEW id \in Ids, MonitorStep(id) PROVE LocksInv'
<1> USE LocksInvSplits
<1>1. CASE MonitorWakes(id)
  <2>1. PICK first \in Waiting :
            thread' = [thread EXCEPT ![id].at = "respawn", ![id].entry = first]
    BY <1>1 DEF MonitorWakes
  <2>2. OthersOK'
    BY <1>1 DEF MonitorWakes, OthersOK
  <2>3. thread' \in [Ids -> ThreadType]
    BY <2>1 DEF Waiting, ThreadType
  <2>4. /\ \A other \in Ids \ {id} : thread'[other] = thread[other]
        /\ thread'[id].at = "respawn" /\ thread'[id].entry = first
    BY <2>1 DEF ThreadType
  <2>5. LocksAreOwned'
    BY <1>1, <2>4, IdsAssumption DEF MonitorWakes, LocksAreOwned, At, Waiting, Free
  <2> QED BY <2>2, <2>3, <2>5
<1>2. CASE MonitorRespawns(id)
  <2> DEFINE f == restartMap[thread[id].entry]
             moved == [thread EXCEPT ![id].at = "erase"]
  <2>1. mapMutex = id /\ thread[id].entry \in Waiting
    BY <1>2 DEF MonitorRespawns, LocksAreOwned, At
  <2>2. f \in Restartable /\ f \in Functions
    BY <2>1, FunctionsAssumption DEF Waiting, OthersOK
  <2>3. /\ moved \in [Ids -> ThreadType]
        /\ \A other \in Ids \ {id} : moved[other] = thread[other]
        /\ moved[id].at = "erase" /\ moved[id].entry = thread[id].entry
    BY DEF ThreadType
  <2>4. \/ /\ \E new \in FreeIds : thread' = [moved EXCEPT ![new] = Started(f)]
           /\ UNCHANGED <<lost, spawnFailures>>
        \/ /\ SpawnError(1) /\ thread' = moved
           /\ lost' = [lost EXCEPT ![f] = @ + 1]
    BY <1>2 DEF MonitorRespawns
  <2> HIDE DEF f, moved
  <2>5. /\ thread' \in [Ids -> ThreadType]
        /\ thread'[id] = moved[id]
        /\ \A other \in Ids \ {id} :
              \/ thread'[other] = thread[other]
              \/ thread[other].at = "none" /\ thread'[other].at \in {"asleep", "running"}
    <3>1. CASE thread' = moved
      BY <3>1, <2>3
    <3>2. ASSUME NEW new \in FreeIds, thread' = [moved EXCEPT ![new] = Started(f)]
          PROVE  <2>5!1 /\ <2>5!2 /\ <2>5!3
      <4>1. new \in Ids /\ thread[new].at = "none" /\ new # id
        BY <1>2, NewThreads DEF FreeIds, MonitorRespawns, At
      <4> QED BY <3>2, <4>1, <2>2, <2>3, NewThreads
    <3> QED BY <2>4, <3>1, <3>2
  <2>6. LocksAreOwned'
    BY <1>2, <2>1, <2>3, <2>5 DEF MonitorRespawns, LocksAreOwned, At, Waiting
  <2>7. OthersOK'
    BY <1>2, <2>2, <2>4, BoundsAssumption DEF MonitorRespawns, SpawnError, OthersOK
  <2> QED BY <2>5, <2>6, <2>7
<1>3. CASE MonitorErases(id)
  <2>1. mapMutex = id /\ thread[id].entry \in Waiting
    BY <1>3 DEF MonitorErases, LocksAreOwned, At
  <2>2. OthersOK'
    BY <1>3 DEF MonitorErases, OthersOK
  <2>3. ASSUME NEW next \in Waiting \ {thread[id].entry}, UNCHANGED mapMutex,
               thread' = [thread EXCEPT ![id].at = "respawn", ![id].entry = next]
        PROVE  LocksInv'
    <3>1. thread' \in [Ids -> ThreadType]
      BY <2>3 DEF Waiting, ThreadType
    <3>2. /\ \A other \in Ids \ {id} : thread'[other] = thread[other]
          /\ thread'[id].at = "respawn" /\ thread'[id].entry = next
      BY <2>3 DEF ThreadType
    <3>3. next \in Waiting'
      BY <1>3, <2>3 DEF MonitorErases, Waiting, OthersOK
    <3>4. LocksAreOwned'
      BY <1>3, <2>1, <2>3, <3>2, <3>3 DEF MonitorErases, LocksAreOwned, At
    <3> QED BY <2>2, <3>1, <3>4
  <2>4. ASSUME mapMutex' = Free,
               thread' = [thread EXCEPT ![id].at = "asleep", ![id].entry = Absent]
        PROVE  LocksInv'
    <3>1. thread' \in [Ids -> ThreadType]
      BY <2>4 DEF ThreadType
    <3>2. /\ \A other \in Ids \ {id} : thread'[other] = thread[other]
          /\ thread'[id].at = "asleep"
      BY <2>4 DEF ThreadType
    <3>3. LocksAreOwned'
      BY <1>3, <2>1, <2>4, <3>2, IdsAssumption
         DEF MonitorErases, LocksAreOwned, At, Free
    <3> QED BY <2>2, <3>1, <3>3
  <2> QED BY <1>3, <2>3, <2>4 DEF MonitorErases
<1> QED BY <1>1, <1>2, <1>3 DEF MonitorStep

-----------------------------------------------------------------------------
(* The sets that are counted are finite, and a thread that does not wait or *)
(* is not there is in none of them.                                         *)
LEMMA FiniteCounts ==
    /\ \A S : S \subseteq Ids => IsFiniteSet(S) /\ Cardinality(S) \in Nat
    /\ \A f : Live(f) \subseteq Ids /\ ToRestart(f) \subseteq Ids
    /\ \A f : Live(f)' \subseteq Ids /\ ToRestart(f)' \subseteq Ids
<1>1. ASSUME NEW S, S \subseteq Ids PROVE IsFiniteSet(S) /\ Cardinality(S) \in Nat
  BY <1>1, IdsAssumption, FS_Subset, FS_CardinalityType
<1> QED BY <1>1 DEF Live, ToRestart, Waiting

(* One more, or one less, in a set of ids.                                  *)
LEMMA OneMore ==
    ASSUME NEW S, S \subseteq Ids, NEW id \in Ids \ S
    PROVE  Cardinality(S \cup {id}) = Cardinality(S) + 1
  BY FiniteCounts, FS_AddElement

LEMMA OneLess ==
    ASSUME NEW S, S \subseteq Ids, NEW id \in S
    PROVE  Cardinality(S \ {id}) = Cardinality(S) - 1
  BY FiniteCounts, FS_RemoveElement

(* At most one entry is handled, and none when the mutex is free.           *)
LEMMA OneIsHandled ==
    ASSUME LocksInv
    PROVE  /\ mapMutex = Free => Handled = {}
           /\ \A id \in Ids : mapMutex = id =>
                 Handled = IF At(id, "erase") THEN {thread[id].entry} ELSE {}
  BY IdsAssumption DEF LocksInv, LocksAreOwned, Handled, At, Free

LEMMA OneIsHandledNext ==
    ASSUME LocksInv'
    PROVE  /\ mapMutex' = Free => Handled' = {}
           /\ \A id \in Ids : mapMutex' = id =>
                 Handled' = IF At(id, "erase")' THEN {thread[id].entry}' ELSE {}
<1>1. \A id \in Ids : thread'[id].at = "erase" => mapMutex' = id
  BY DEF LocksInv, LocksAreOwned
<1>2. Free \notin Ids
  BY IdsAssumption DEF Free
<1>3. Handled' = {thread'[id].entry : id \in {m \in Ids : thread'[m].at = "erase"}}
  BY DEF Handled, At
<1> QED BY <1>1, <1>2, <1>3 DEF At

(* What is counted of one function, and what the count ought to be.         *)
ThreadsDue(f) ==
    /\ creation[f] = "created" => spawned[f] = Width(f)
    /\ creation[f] \notin {"created", "refused"} => spawned[f] = 0
Counted(f) ==
    /\ Cardinality(Live(f)) + Cardinality(ToRestart(f)) + lost[f] = spawned[f]
    /\ ThreadsDue(f)

LEMMA CountsSplit ==
    /\ ThreadsCounted <=> \A f \in Restartable : Counted(f)
    /\ ThreadsCounted' <=> \A f \in Restartable : Counted(f)'
  BY DEF ThreadsCounted, Counted, ThreadsDue, Width

(* A function none of whose threads is touched is counted as before.        *)
LEMMA UntouchedKeeps ==
    ASSUME NEW f, Counted(f), Live(f)' = Live(f), ToRestart(f)' = ToRestart(f),
           lost'[f] = lost[f], spawned'[f] = spawned[f], creation'[f] = creation[f]
    PROVE  Counted(f)'
  BY DEF Counted, ThreadsDue, Width

(* The entries that wait are the same when the map is, and so is what the   *)
(* monitors handle.                                                         *)
LEMMA SameWaiting ==
    ASSUME NEW f, UNCHANGED restartMap, Handled' = Handled
    PROVE  ToRestart(f)' = ToRestart(f)
  BY DEF ToRestart, Waiting

(* A spawn adds its threads to those of its function, and no thread of      *)
(* another function.                                                        *)
LEMMA SpawnCounts ==
    ASSUME LocksInv, NEW g \in Functions \cup {Monitor}, NEW n \in Nat,
           NEW f \in Restartable, Begin(g, n)
    PROVE  /\ f # g => Live(f)' = Live(f)
           /\ f = g => Cardinality(Live(f)') = Cardinality(Live(f)) + n
           /\ Handled' = Handled
<1>1. PICK ids \in SUBSET FreeIds :
          /\ Cardinality(ids) = n
          /\ thread' = [id \in Ids |-> IF id \in ids THEN Started(g) ELSE thread[id]]
  BY DEF Begin
<1>2. f # "none" /\ \A id \in FreeIds : thread[id].fn = "none" /\ thread[id].at = "none"
  BY FunctionsAssumption DEF FreeIds, NoThread
<1>3. Started(g).fn = g /\ Started(g).at \in {"asleep", "running"}
  BY DEF Started
<1>4. ids \subseteq Ids /\ IsFiniteSet(ids) /\ ids \cap Live(f) = {}
  BY <1>2, FiniteCounts DEF FreeIds, Live
<1>5. Live(f)' = IF f = g THEN Live(f) \cup ids ELSE Live(f)
  BY <1>1, <1>2, <1>3 DEF Live, FreeIds
<1>6. Cardinality(Live(f) \cup ids) = Cardinality(Live(f)) + n
  <2>1. Live(f) \cap ids = {} /\ IsFiniteSet(Live(f))
    BY <1>4, FiniteCounts
  <2>2. Cardinality(Live(f) \cup ids)
            = Cardinality(Live(f)) + Cardinality(ids) - Cardinality(Live(f) \cap ids)
    BY <1>4, <2>1, FS_Union
  <2>3. Cardinality(Live(f) \cap ids) = 0 /\ Cardinality(Live(f)) \in Nat
    BY <2>1, FS_EmptySet, FiniteCounts
  <2> HIDE DEF Live
  <2> QED BY <1>1, <2>2, <2>3
<1>7. Handled' = Handled
  BY <1>1, <1>2, <1>3 DEF Handled, At, FreeIds
<1> QED BY <1>5, <1>6, <1>7

(* Creating: the threads of a function are counted from the spawn on.       *)
LEMMA CreateCounts ==
    ASSUME LocksInv, ThreadsCounted, NEW g \in Functions, Create(g)
    PROVE  ThreadsCounted'
<1> SUFFICES ASSUME NEW f \in Restartable PROVE Counted(f)'
  BY CountsSplit
<1>1. Counted(f) /\ f \in Functions /\ f # Monitor
  BY CountsSplit, FunctionsAssumption DEF Monitor
<1>2. creation \in [Functions -> {"start", "setFlag", "spawnMonitor", "spawn",
                            "created", "refused"}]
  BY DEF LocksInv, ThreadTypeOK
<1>3. CASE CheckInitialized(g) \/ SetInitialized(g)
  <2>1. /\ creation'[f] = creation[f]
           \/ {creation[f], creation'[f]} \cap {"created", "refused"} = {}
        /\ UNCHANGED <<thread, restartMap, spawned, lost>>
    BY <1>1, <1>2, <1>3 DEF CheckInitialized, SetInitialized
  <2>2. Live(f)' = Live(f) /\ ToRestart(f)' = ToRestart(f)
    BY <2>1 DEF Live, ToRestart, Waiting, Handled, At
  <2> QED BY <1>1, <2>1, <2>2 DEF Counted, ThreadsDue, Width
<1>4. CASE SpawnMonitor(g)
  <2>1. /\ creation'[f] = creation[f]
           \/ {creation[f], creation'[f]} \cap {"created", "refused"} = {}
        /\ UNCHANGED <<restartMap, spawned, lost>>
    BY <1>1, <1>2, <1>4 DEF SpawnMonitor
  <2>2. Begin(Monitor, 1) \/ Begin(Monitor, 0)
    BY <1>4 DEF SpawnMonitor, SpawnSucceeds, SpawnFails
  <2>3. Live(f)' = Live(f) /\ Handled' = Handled
    BY <1>1, <2>2, SpawnCounts
  <2>4. ToRestart(f)' = ToRestart(f)
    BY <2>1, <2>3, SameWaiting
  <2> QED BY <1>1, <2>1, <2>3, <2>4 DEF Counted, ThreadsDue, Width
<1>5. CASE SpawnFunction(g)
  <2>1. PICK k \in 0..Width(g) :
            /\ \/ /\ k = Width(g) /\ SpawnSucceeds(g, k)
                  /\ creation' = [creation EXCEPT ![g] = "created"]
               \/ /\ SpawnFails(g, Width(g), k)
                  /\ creation' = [creation EXCEPT ![g] = "refused"]
            /\ spawned' = [spawned EXCEPT ![g] = k]
    BY <1>5 DEF SpawnFunction
  <2>2. k \in Nat /\ Begin(g, k) /\ UNCHANGED <<restartMap, lost>>
    BY <1>5, <2>1, WidthIs DEF SpawnFunction, SpawnSucceeds, SpawnFails
  <2>3. /\ f # g => Live(f)' = Live(f)
        /\ f = g => Cardinality(Live(f)') = Cardinality(Live(f)) + k
        /\ Handled' = Handled
    BY <2>2, SpawnCounts
  <2>4. ToRestart(f)' = ToRestart(f)
    BY <2>2, <2>3, SameWaiting
  <2>5. spawned \in [Functions -> Nat]
    BY DEF LocksInv, ThreadTypeOK
  <2>6. CASE f # g
    <3>1. creation'[f] = creation[f] /\ spawned'[f] = spawned[f]
      BY <1>1, <1>2, <2>1, <2>5, <2>6
    <3> QED BY <1>1, <2>2, <2>3, <2>4, <2>6, <3>1, UntouchedKeeps
  <2>7. CASE f = g
    <3>1. spawned[f] = 0
      BY <1>1, <1>5, <2>7 DEF SpawnFunction, Counted, ThreadsDue
    <3>2. spawned'[f] = k
      BY <1>1, <2>1, <2>5, <2>7
    <3>3. ThreadsDue(f)'
      BY <1>1, <1>2, <2>1, <2>7, <3>2 DEF ThreadsDue, Width
    <3>4. lost[f] \in Nat /\ Cardinality(Live(f)) \in Nat
          /\ Cardinality(ToRestart(f)) \in Nat
      BY <1>1, FiniteCounts DEF LocksInv, ThreadTypeOK
    <3> QED BY <1>1, <2>2, <2>3, <2>4, <2>7, <3>1, <3>2, <3>3, <3>4 DEF Counted
  <2> QED BY <2>6, <2>7
<1> QED BY <1>3, <1>4, <1>5 DEF Create

(* A function that returns has the thread it had.                           *)
LEMMA ReturnCounts ==
    ASSUME LocksInv, ThreadsCounted, NEW id \in Ids,
           FunctionReturns(id) \/ EnterExitHooks(id)
    PROVE  ThreadsCounted'
<1>1. /\ \A other \in Ids \ {id} : thread'[other] = thread[other]
      /\ thread'[id].fn = thread[id].fn
      /\ thread[id].at # "erase" /\ thread'[id].at # "erase"
      /\ UNCHANGED <<creation, spawned, restartMap, lost>>
  BY DEF FunctionReturns, EnterExitHooks, Move, At, LocksInv, ThreadTypeOK
<1>2. Handled' = Handled
  BY <1>1 DEF Handled, At
<1>3. ASSUME NEW f \in Restartable PROVE Counted(f)'
  <2>1. Live(f)' = Live(f) /\ spawned'[f] = spawned[f] /\ creation'[f] = creation[f]
    BY <1>1 DEF Live
  <2> QED BY <1>1, <1>2, <2>1, SameWaiting, UntouchedKeeps, CountsSplit
<1> QED BY <1>3, CountsSplit

(* A thread that ends leaves its entry in the map, or is given up.          *)
LEMMA ExitCounts ==
    ASSUME LocksInv, LocksInv', ThreadsCounted, NEW id \in Ids, Exit(id)
    PROVE  ThreadsCounted'
<1>1. CASE EnterExitHooks(id)
  BY <1>1, ReturnCounts
<1> DEFINE g == thread[id].fn
<1>2. ASSUME Leave(id), At(id, "hooks")
      PROVE  /\ \A f \in Restartable : Live(f)' = Live(f) \ {id}
             /\ \A f \in Restartable : id \in Live(f) <=> f = g
             /\ Handled' = Handled
             /\ UNCHANGED <<creation, spawned, mapMutex>>
  <2>1. /\ \A other \in Ids \ {id} : thread'[other] = thread[other]
        /\ thread'[id] = NoThread /\ UNCHANGED <<creation, spawned, mapMutex>>
    BY <1>2 DEF Leave, LocksInv, ThreadTypeOK
  <2>2. \A f \in Restartable : f # "none"
    BY FunctionsAssumption
  <2>3. thread'[id].fn = "none" /\ thread'[id].at # "erase" /\ thread[id].at # "erase"
    BY <1>2, <2>1 DEF NoThread, At
  <2> QED BY <2>1, <2>2, <2>3 DEF Live, Handled, At
<1>3. CASE ApplyInserts(id)
  <2>1. Leave(id) /\ At(id, "hooks") /\ mapMutex = Free /\ UNCHANGED lost
        /\ restartMap[id] = "none" /\ restartMap' = [restartMap EXCEPT ![id] = g]
        /\ g \in Restartable
    BY <1>3 DEF ApplyInserts
  <2>2. Handled = {} /\ Handled' = {}
    BY <1>2, <2>1, OneIsHandled
  <2>3. ASSUME NEW f \in Restartable PROVE Counted(f)'
    <3>1. ToRestart(f)' = IF f = g THEN ToRestart(f) \cup {id} ELSE ToRestart(f)
      <4>1. restartMap \in [Ids -> Restartable \cup {"none"}]
        BY DEF LocksInv, ThreadTypeOK
      <4>2. f # "none" /\ g # "none"
        BY <2>1, FunctionsAssumption
      <4> HIDE DEF g
      <4> QED BY <2>1, <2>2, <4>1, <4>2 DEF ToRestart, Waiting
    <3>2. id \notin ToRestart(f)
      BY <2>1 DEF ToRestart, Waiting
    <3>3. spawned'[f] = spawned[f] /\ creation'[f] = creation[f] /\ lost'[f] = lost[f]
      BY <1>2, <2>1
    <3>4. CASE f # g
      <4>1. Live(f)' = Live(f) /\ ToRestart(f)' = ToRestart(f)
        BY <1>2, <2>1, <3>1, <3>4
      <4>2. Counted(f)
        BY CountsSplit
      <4> QED BY <3>3, <4>1, <4>2, UntouchedKeeps
    <3>5. CASE f = g
      <4>1. Cardinality(Live(f)') = Cardinality(Live(f)) - 1
        BY <1>2, <2>1, <3>5, OneLess, FiniteCounts
      <4>2. Cardinality(ToRestart(f)') = Cardinality(ToRestart(f)) + 1
        BY <3>1, <3>2, <3>5, OneMore, FiniteCounts
      <4>3. Cardinality(Live(f)) \in Nat /\ Cardinality(ToRestart(f)) \in Nat
        BY FiniteCounts
      <4>4. lost[f] \in Nat
        BY FunctionsAssumption DEF LocksInv, ThreadTypeOK
      <4> QED BY <3>3, <4>1, <4>2, <4>3, <4>4, CountsSplit DEF Counted, ThreadsDue, Width
    <3> QED BY <3>4, <3>5
  <2> QED BY <2>3, CountsSplit
<1>4. CASE ApplyInsertFails(id)
  <2>1. Leave(id) /\ At(id, "hooks") /\ lost' = [lost EXCEPT ![g] = @ + 1]
        /\ UNCHANGED restartMap /\ g \in Restartable
    BY <1>4 DEF ApplyInsertFails
  <2>2. ASSUME NEW f \in Restartable PROVE Counted(f)'
    <3>1. ToRestart(f)' = ToRestart(f)
      BY <1>2, <2>1, SameWaiting
    <3>2. lost[f] \in Nat /\ lost'[f] = IF f = g THEN lost[f] + 1 ELSE lost[f]
      BY <2>1, FunctionsAssumption DEF LocksInv, ThreadTypeOK
    <3>3. spawned'[f] = spawned[f] /\ creation'[f] = creation[f]
      BY <1>2, <2>1
    <3>4. CASE f # g
      BY <1>2, <2>1, <2>2, <3>1, <3>2, <3>3, <3>4, UntouchedKeeps, CountsSplit
    <3>5. CASE f = g
      <4>1. Cardinality(Live(f)') = Cardinality(Live(f)) - 1
        BY <1>2, <2>1, <3>5, OneLess, FiniteCounts
      <4>2. Cardinality(Live(f)) \in Nat /\ Cardinality(ToRestart(f)) \in Nat
        BY FiniteCounts
      <4> QED BY <3>1, <3>2, <3>3, <3>5, <4>1, <4>2, CountsSplit DEF Counted, ThreadsDue, Width
    <3> QED BY <3>4, <3>5
  <2> QED BY <2>2, CountsSplit
<1>5. CASE ApplyWithoutRestart(id)
  <2>1. Leave(id) /\ At(id, "hooks") /\ UNCHANGED <<restartMap, lost>>
        /\ g \notin Restartable
    BY <1>5 DEF ApplyWithoutRestart
  <2>2. ASSUME NEW f \in Restartable PROVE Counted(f)'
    <3>1. spawned'[f] = spawned[f] /\ creation'[f] = creation[f] /\ lost'[f] = lost[f]
      BY <1>2, <2>1
    <3> QED BY <1>2, <2>1, <2>2, <3>1, SameWaiting, UntouchedKeeps, CountsSplit
  <2> QED BY <2>2, CountsSplit
<1> QED BY <1>1, <1>3, <1>4, <1>5 DEF Exit

(* The monitor: the entry it has dealt with is not counted as waiting from  *)
(* the moment its thread is started, or given up, until it is erased.       *)
LEMMA MonitorCounts ==
    ASSUME LocksInv, LocksInv', ThreadsCounted, NEW id \in Ids, MonitorStep(id)
    PROVE  ThreadsCounted'
<1>1. CASE MonitorWakes(id)
  <2>1. PICK first \in Waiting :
            thread' = [thread EXCEPT ![id].at = "respawn", ![id].entry = first]
    BY <1>1 DEF MonitorWakes
  <2>2. mapMutex = Free /\ mapMutex' = id /\ UNCHANGED <<creation, spawned, restartMap, lost>>
    BY <1>1 DEF MonitorWakes
  <2>3. /\ \A other \in Ids \ {id} : thread'[other] = thread[other]
        /\ thread'[id].at = "respawn" /\ thread'[id].fn = thread[id].fn
    BY <2>1 DEF LocksInv, ThreadTypeOK
  <2>4. Handled = {} /\ Handled' = {}
    BY <2>2, <2>3, OneIsHandled, OneIsHandledNext DEF At
  <2>5. ASSUME NEW f \in Restartable PROVE Counted(f)'
    <3>1. Live(f)' = Live(f) /\ spawned'[f] = spawned[f]
          /\ creation'[f] = creation[f] /\ lost'[f] = lost[f]
      BY <2>2, <2>3 DEF Live
    <3> QED BY <2>2, <2>4, <2>5, <3>1, SameWaiting, UntouchedKeeps, CountsSplit
  <2> QED BY <2>5, CountsSplit
<1>2. CASE MonitorRespawns(id)
  <2> DEFINE e == thread[id].entry
             g == restartMap[e]
             moved == [thread EXCEPT ![id].at = "erase"]
  <2>1. At(id, "respawn") /\ mapMutex = id /\ e \in Waiting
        /\ UNCHANGED <<creation, spawned, restartMap, mapMutex>>
    BY <1>2 DEF MonitorRespawns, LocksInv, LocksAreOwned, At
  <2>2. g \in Restartable /\ e \in Ids
    BY <2>1 DEF Waiting, LocksInv, ThreadTypeOK
  <2>3. /\ \A other \in Ids \ {id} : moved[other] = thread[other]
        /\ moved[id].at = "erase" /\ moved[id].entry = e
        /\ moved[id].fn = thread[id].fn /\ moved \in [Ids -> ThreadType]
    BY DEF LocksInv, ThreadTypeOK, ThreadType
  <2>4. \/ /\ \E new \in FreeIds : thread' = [moved EXCEPT ![new] = Started(g)]
           /\ UNCHANGED lost
        \/ thread' = moved /\ lost' = [lost EXCEPT ![g] = @ + 1]
    BY <1>2 DEF MonitorRespawns
  <2>5. \A new \in FreeIds : /\ new \in Ids /\ new # id
                            /\ thread[new].fn = "none" /\ moved[new].fn = "none"
    BY <2>1, <2>3 DEF FreeIds, NoThread, At
  <2>6. Started(g).fn = g
    BY DEF Started
  <2>7. \A f \in Restartable : f # "none"
    BY FunctionsAssumption
  <2> HIDE DEF e, g, moved
  <2>8. thread'[id] = moved[id]
    BY <2>3, <2>4, <2>5
  <2>9. Handled = {} /\ Handled' = {e}
    BY <2>1, <2>3, <2>8, OneIsHandled, OneIsHandledNext DEF At
  <2>10. ASSUME NEW f \in Restartable PROVE Counted(f)'
    <3>1. ToRestart(f)' = ToRestart(f) \ {e}
      BY <2>1, <2>9 DEF ToRestart, Waiting
    <3>2. e \in ToRestart(f) <=> f = g
      BY <2>1, <2>9 DEF ToRestart, g
    <3>3. spawned'[f] = spawned[f] /\ creation'[f] = creation[f]
      BY <2>1
    <3>4. lost \in [Functions -> Nat] /\ f \in Functions
      BY FunctionsAssumption DEF LocksInv, ThreadTypeOK
    <3>5. Cardinality(Live(f)) \in Nat /\ Cardinality(ToRestart(f)) \in Nat
      BY FiniteCounts
    <3>6. f = g => Cardinality(ToRestart(f)') = Cardinality(ToRestart(f)) - 1
      BY <3>1, <3>2, OneLess, FiniteCounts
    <3>7. ASSUME NEW new \in FreeIds, thread' = [moved EXCEPT ![new] = Started(g)],
                 UNCHANGED lost
          PROVE  Counted(f)'
      <4>1. Live(f)' = IF f = g THEN Live(f) \cup {new} ELSE Live(f)
        BY <2>3, <2>5, <2>6, <2>7, <3>7 DEF Live
      <4>2. new \in Ids \ Live(f)
        BY <2>5, <2>7 DEF Live
      <4>3. f = g => Cardinality(Live(f)') = Cardinality(Live(f)) + 1
        BY <4>1, <4>2, OneMore, FiniteCounts
      <4>4. CASE f = g
        BY <3>3, <3>4, <3>5, <3>6, <3>7, <4>3, <4>4, CountsSplit DEF Counted, ThreadsDue, Width
      <4>5. CASE f # g
        BY <3>1, <3>2, <3>3, <3>7, <4>1, <4>5, UntouchedKeeps, CountsSplit
      <4> QED BY <4>4, <4>5
    <3>8. ASSUME thread' = moved, lost' = [lost EXCEPT ![g] = @ + 1]
          PROVE  Counted(f)'
      <4>1. Live(f)' = Live(f)
        BY <2>3, <3>8 DEF Live
      <4>2. lost'[f] = IF f = g THEN lost[f] + 1 ELSE lost[f]
        BY <3>4, <3>8
      <4>3. lost[f] \in Nat
        BY <3>4
      <4>4. CASE f = g
        BY <3>3, <3>5, <3>6, <4>1, <4>2, <4>3, <4>4, CountsSplit DEF Counted, ThreadsDue, Width
      <4>5. CASE f # g
        BY <3>1, <3>2, <3>3, <4>1, <4>2, <4>5, UntouchedKeeps, CountsSplit
      <4> QED BY <4>4, <4>5
    <3> QED BY <2>4, <3>7, <3>8
  <2> QED BY <2>10, CountsSplit
<1>3. CASE MonitorErases(id)
  <2> DEFINE e == thread[id].entry
  <2>1. At(id, "erase") /\ mapMutex = id /\ UNCHANGED <<creation, spawned, lost>>
        /\ restartMap' = [restartMap EXCEPT ![e] = "none"] /\ e \in Ids
    BY <1>3 DEF MonitorErases, LocksInv, LocksAreOwned, At, Waiting
  <2>2. /\ \A other \in Ids \ {id} : thread'[other] = thread[other]
        /\ thread'[id].fn = thread[id].fn /\ thread'[id].at # "erase"
        /\ mapMutex' \in {id, Free}
    BY <1>3, <2>1 DEF MonitorErases, LocksInv, ThreadTypeOK
  <2>3. Handled = {e} /\ Handled' = {}
    BY <2>1, <2>2, OneIsHandled, OneIsHandledNext DEF At
  <2>4. ASSUME NEW f \in Restartable PROVE Counted(f)'
    <3>1. Live(f)' = Live(f) /\ spawned'[f] = spawned[f]
          /\ creation'[f] = creation[f] /\ lost'[f] = lost[f]
      BY <2>1, <2>2 DEF Live
    <3>2. ToRestart(f)' = ToRestart(f)
      <4>1. restartMap \in [Ids -> Restartable \cup {"none"}] /\ f # "none"
        BY FunctionsAssumption DEF LocksInv, ThreadTypeOK
      <4> HIDE DEF e
      <4> QED BY <2>1, <2>3, <4>1 DEF ToRestart, Waiting
    <3> QED BY <2>4, <3>1, <3>2, UntouchedKeeps, CountsSplit
  <2> QED BY <2>4, CountsSplit
<1> QED BY <1>1, <1>2, <1>3 DEF MonitorStep

-----------------------------------------------------------------------------
(* The locks belong to the threads that hold them and every thread of a     *)
(* function that restarts is accounted for, for any number of functions and *)
(* threads (ThreadManager.cpp: apply, startThreadMonitor).                  *)
THEOREM ThreadsAreCounted == ThreadSpec => []ThreadInv
<1>1. ASSUME ThreadInit PROVE ThreadInv
  <2>1. OthersOK
    <3>1. /\ restartMap \in [Ids -> Restartable \cup {"none"}]
          /\ creation \in [Functions -> {"start", "setFlag", "spawnMonitor", "spawn",
                                    "created", "refused"}]
          /\ lost \in [Functions -> Nat]
          /\ spawned \in [Functions -> Nat]
      BY <1>1 DEF ThreadInit
    <3>2. returns \in 0..MaxReturns /\ spawnFailures \in 0..MaxSpawnFailures
      BY <1>1, BoundsAssumption DEF ThreadInit
    <3> QED BY <1>1, <3>1, <3>2 DEF ThreadInit, OthersOK
  <2>2. thread \in [Ids -> ThreadType]
    BY <1>1, NewThreads DEF ThreadInit
  <2>3. LocksAreOwned
    BY <1>1, NewThreads, IdsAssumption DEF ThreadInit, LocksAreOwned, At, Free
  <2>4. ASSUME NEW f \in Restartable PROVE Counted(f)
    <3>1. f \in Functions /\ f # "none"
      BY FunctionsAssumption
    <3>2. Live(f) = {} /\ ToRestart(f) = {}
      BY <1>1, <3>1 DEF ThreadInit, Live, NoThread, ToRestart, Waiting
    <3>3. lost[f] = 0 /\ spawned[f] = 0 /\ ThreadsDue(f)
      BY <1>1, <3>1 DEF ThreadInit, ThreadsDue
    <3> QED BY <3>2, <3>3, FS_EmptySet DEF Counted
  <2> QED BY <2>1, <2>2, <2>3, <2>4, LocksInvSplits, CountsSplit DEF ThreadInv
<1>2. ASSUME ThreadInv, [ThreadNext]_threadVars PROVE ThreadInv'
  <2>1. CASE UNCHANGED threadVars
    <3>1. LocksInv'
      BY <1>2, <2>1, LocksInvSplits
         DEF ThreadInv, threadVars, OthersOK, LocksAreOwned, At, Waiting
    <3>2. ThreadsCounted'
      BY <1>2, <2>1
         DEF ThreadInv, threadVars, ThreadsCounted, Live, ToRestart, Handled, Waiting, At, Width
    <3> QED BY <3>1, <3>2 DEF ThreadInv
  <2>2. CASE ThreadNext
    <3>1. LocksInv'
      BY <1>2, <2>2, CreateKeeps, ReturnKeeps, ExitKeeps, MonitorKeeps DEF ThreadNext, ThreadInv
    <3>2. ThreadsCounted'
      BY <1>2, <2>2, <3>1, CreateCounts, ReturnCounts, ExitCounts, MonitorCounts
         DEF ThreadNext, ThreadInv
    <3> QED BY <3>1, <3>2 DEF ThreadInv
  <2> QED BY <1>2, <2>1, <2>2
<1> QED BY <1>1, <1>2, PTL DEF ThreadSpec

(* ACE's lock belongs to a thread in its exit hooks, and restartMapMutex_   *)
(* to a monitor whose entry is still in restartMap_.                        *)
THEOREM LocksBelong == ThreadSpec => []LocksAreOwned
<1>1. ThreadInv => LocksAreOwned
  BY DEF ThreadInv, LocksInv
<1> QED BY <1>1, ThreadsAreCounted, PTL

(* Of the threads that were created for a function that restarts each one   *)
(* runs, is ending, waits in restartMap_ or was given up; none is started   *)
(* twice, by however many monitors (ThreadManager.cpp: startThreadMonitor). *)
THEOREM NoneForgotten == ThreadSpec => []NoThreadForgotten
<1>1. ThreadInv => NoThreadForgotten
  BY DEF ThreadInv, ThreadsCounted, NoThreadForgotten
<1> QED BY <1>1, ThreadsAreCounted, PTL
=============================================================================
