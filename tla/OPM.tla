-------------------------------- MODULE OPM --------------------------------
(* The Object Pool Manager (src/platform/opm/OPM.cpp): threads that create *)
(* pools, look pools up by type and call operations on a pool by its id,   *)
(* all through one non-recursive mutex, poolVectorMutex_.  A pool is the   *)
(* type (and initializer) it was created for; what happens inside it is    *)
(* modules ObjectPool and LinkedPool.                                      *)
EXTENDS Integers, Sequences, FiniteSets

CONSTANTS
    Threads,
    Types,        \* pairs of an object type and its initializer
    CallerIds,    \* pool ids callers pass, ERROR among them
    CallerIncrements, \* capacity increments callers pass
    MaxCalls,     \* bound: calls each thread makes
    NoThread

ASSUME CallerIdsAssumption == CallerIds \subseteq Int /\ CallerIncrements \subseteq Int
ASSUME ThreadsAssumption == IsFiniteSet(Threads) /\ NoThread \notin Threads

ERROR == -1

VARIABLES
    poolVector,   \* poolVector_: the type of the pool at each index
    mutexOwner,   \* the holder of poolVectorMutex_, or NoThread
    pc,           \* where each thread is
    call,         \* the call each thread is in
    answer,       \* what the last call of each thread returned
    calls,        \* calls made so far
    running,      \* whether the process has not ended by a fault
    rivals        \* history: the most calls of createPool for each type that
                  \* were at once between their search and their insertion

opmVars == <<poolVector, mutexOwner, pc, call, answer, calls, running, rivals>>

(* Pool ids are vector indexes, from 0.                                    *)
Ids == 0..(Len(poolVector) - 1)
TypeOf(id) == poolVector[id + 1]

NoCall == [op |-> "none"]

OPMInit ==
    /\ poolVector = <<>>
    /\ mutexOwner = NoThread
    /\ pc = [t \in Threads |-> "idle"]
    /\ call = [t \in Threads |-> NoCall]
    /\ answer = [t \in Threads |-> NoCall]
    /\ calls = [t \in Threads |-> 0]
    /\ running = TRUE
    /\ rivals = [type \in Types |-> 0]

-----------------------------------------------------------------------------
Calling(t) ==
    /\ pc[t] = "idle"
    /\ calls[t] < MaxCalls
    /\ calls' = [calls EXCEPT ![t] = @ + 1]

Begin(t, what) ==
    /\ Calling(t)
    /\ call' = [call EXCEPT ![t] = what]
    /\ pc' = [pc EXCEPT ![t] = "acquire"]
    /\ UNCHANGED <<poolVector, mutexOwner, answer, running, rivals>>

(* createPool first asks getObjectPoolID, which takes and gives back the   *)
(* mutex, and only then takes it again to insert.                          *)
CreatePool(t, type)      == Begin(t, [op |-> "create", type |-> type])
GetObjectPoolID(t, type) == Begin(t, [op |-> "find", type |-> type])
IsPoolCreated(t, type)   == Begin(t, [op |-> "find", type |-> type])

(* Without a bootstrap method createPool answers ERROR and takes no mutex. *)
(* (So it does before OPM is initialized, which the main thread of a       *)
(* program does before it starts another.)                                 *)
CreateRejected(t, type) ==
    /\ Calling(t)
    /\ answer' = [answer EXCEPT ![t] = [op |-> "create", type |-> type, id |-> ERROR]]
    /\ UNCHANGED <<poolVector, mutexOwner, pc, call, running, rivals>>

(* Operations on the pool with a given id: look the id up under the mutex, *)
(* then work on the pool without it.                                       *)
OnPool(id, valid) == [op |-> "onPool", id |-> id, valid |-> valid]

ReserveObject(t, id)              == Begin(t, OnPool(id, TRUE))
SetPoolCapacityIncrement(t, id, n) == Begin(t, OnPool(id, n > 0))
GetPoolCapacityIncrement(t, id)   == Begin(t, OnPool(id, TRUE))
GetPoolThresholdPercentage(t, id) == Begin(t, OnPool(id, TRUE))
GetPoolObjectInitParam(t, id)     == Begin(t, OnPool(id, TRUE))
PrintPoolSummary(t, id)           == Begin(t, OnPool(id, TRUE))

(* releaseObject and isCreatedByOPM take the id from the object, which an  *)
(* existing pool wrote there, and turn away only objects without one, with *)
(* no mutex taken.                                                         *)
ReleaseObject(t) ==
    \E id \in Ids : Begin(t, OnPool(id, TRUE))
IsCreatedByOPM(t) ==
    \E id \in Ids : Begin(t, OnPool(id, TRUE))

(* Both hold the mutex while they visit every pool.                        *)
PrintAllPoolsSummary(t)      == Begin(t, [op |-> "visit"])
CheckForUnreleasedObjects(t) == Begin(t, [op |-> "visit"])

-----------------------------------------------------------------------------
Acquire(t) ==
    /\ pc[t] \in {"acquire", "acquireToInsert"}
    /\ mutexOwner = NoThread
    /\ mutexOwner' = t
    /\ pc' = [pc EXCEPT ![t] = IF @ = "acquire" THEN "locked" ELSE "insert"]
    /\ UNCHANGED <<poolVector, call, answer, calls, running, rivals>>

Return(t, value) ==
    /\ pc' = [pc EXCEPT ![t] = "idle"]
    /\ answer' = [answer EXCEPT ![t] = value]
    /\ call' = [call EXCEPT ![t] = NoCall]
    /\ UNCHANGED <<calls, running>>

PoolsOf(type) == {id \in Ids : TypeOf(id) = type}
MatchesButLast(type) ==  \* mutated: the loop leaves out the last pool
    {id \in Ids : TypeOf(id) = type /\ id # Len(poolVector) - 1}
Matches(type) == PoolsOf(type)

(* The first pool of the type, as the loop of getObjectPoolID finds it.    *)
IsFirstMatch(id, type) ==
    id \in Matches(type) /\ \A other \in Matches(type) : id <= other

Found(type, id) == [op |-> "find", type |-> type, id |-> id]

FindLastPool(t) ==  \* mutated: the loop goes on to the last pool of the type
    /\ pc[t] = "locked"
    /\ call[t].op = "find"
    /\ mutexOwner' = NoThread
    /\ \E id \in Ids \cup {ERROR} :
          /\ IF Matches(call[t].type) = {} THEN id = ERROR
             ELSE /\ id \in Matches(call[t].type)
                  /\ \A other \in Matches(call[t].type) : other <= id
          /\ Return(t, Found(call[t].type, id))
    /\ UNCHANGED <<poolVector, rivals>>

FindPool(t) ==
    /\ pc[t] = "locked"
    /\ call[t].op = "find"
    /\ mutexOwner' = NoThread
    /\ \E id \in Ids \cup {ERROR} :
          /\ IF Matches(call[t].type) = {} THEN id = ERROR
             ELSE IsFirstMatch(id, call[t].type)
          /\ Return(t, Found(call[t].type, id))
    /\ UNCHANGED <<poolVector, rivals>>

CreateFindsPool(t) ==
    /\ pc[t] = "locked"
    /\ call[t].op = "create"
    /\ mutexOwner' = NoThread
    /\ \E id \in Ids :
          /\ IsFirstMatch(id, call[t].type)
          /\ Return(t, Found(call[t].type, id))
    /\ UNCHANGED <<poolVector, rivals>>

(* The calls of createPool that have found no pool of the type and have    *)
(* not inserted theirs.                                                    *)
Creating(type) ==
    {t \in Threads : /\ pc[t] \in {"acquireToInsert", "insert"}
                     /\ call[t].type = type}

Most(m, n) == IF m < n THEN n ELSE m

CreateFindsNoneLocked(t) ==  \* mutated: getObjectPoolID keeps the mutex
    /\ pc[t] = "locked"
    /\ call[t].op = "create"
    /\ Matches(call[t].type) = {}
    /\ pc' = [pc EXCEPT ![t] = "acquireToInsert"]
    /\ UNCHANGED <<poolVector, mutexOwner, call, answer, calls, running, rivals>>

CreateFindsNone(t) ==
    /\ pc[t] = "locked"
    /\ call[t].op = "create"
    /\ Matches(call[t].type) = {}
    /\ mutexOwner' = NoThread
    /\ pc' = [pc EXCEPT ![t] = "acquireToInsert"]
    /\ rivals' = [rivals EXCEPT
          ![call[t].type] = Most(@, Cardinality(Creating(call[t].type)) + 1)]
    /\ UNCHANGED <<poolVector, call, answer, calls, running>>

CreateInsertsThenSizes(t) ==  \* mutated: the id is the size after push_back
    /\ pc[t] = "insert"
    /\ poolVector' = Append(poolVector, call[t].type)
    /\ mutexOwner' = NoThread
    /\ Return(t, [op |-> "create", type |-> call[t].type,
                  id |-> Len(poolVector) + 1])
    /\ UNCHANGED rivals

CreateInserts(t) ==
    /\ pc[t] = "insert"
    /\ poolVector' = Append(poolVector, call[t].type)
    /\ mutexOwner' = NoThread
    /\ Return(t, [op |-> "create", type |-> call[t].type,
                  id |-> Len(poolVector)])
    /\ UNCHANGED rivals

(* An id past the end of the vector, or an increment that is not positive, *)
(* returns without poolVectorMutex_.release().                             *)
Rejected(t) == call[t].id > Len(poolVector) - 1 \/ ~call[t].valid

RejectId(t) ==
    /\ pc[t] = "locked"
    /\ call[t].op = "onPool"
    /\ Rejected(t)
    /\ UNCHANGED mutexOwner
    /\ Return(t, [op |-> "onPool", id |-> ERROR])
    /\ UNCHANGED <<poolVector, rivals>>

(* A negative id, such as ERROR, is not rejected: what lies before the     *)
(* elements of the vector is taken for a pool.                             *)
AcceptId(t) ==
    /\ pc[t] = "locked"
    /\ call[t].op = "onPool"
    /\ ~Rejected(t)
    /\ mutexOwner' = NoThread
    /\ pc' = [pc EXCEPT ![t] = "inPool"]
    /\ UNCHANGED <<poolVector, call, answer, calls, running, rivals>>

PoolReturns(t) ==
    /\ pc[t] = "inPool"
    /\ call[t].id \in Ids
    /\ Return(t, [op |-> "onPool", id |-> call[t].id])
    /\ UNCHANGED <<poolVector, mutexOwner, rivals>>

(* What lies there is NULL, and ERROR is answered; or it is no address of  *)
(* a pool, and the process ends.                                           *)
PoolIsNull(t) ==
    /\ pc[t] = "inPool"
    /\ call[t].id \notin Ids
    /\ Return(t, [op |-> "onPool", id |-> ERROR])
    /\ UNCHANGED <<poolVector, mutexOwner, rivals>>

PoolIsNone(t) ==
    /\ pc[t] = "inPool"
    /\ call[t].id \notin Ids
    /\ running' = FALSE
    /\ UNCHANGED <<poolVector, mutexOwner, pc, call, answer, calls, rivals>>

VisitPools(t) ==
    /\ pc[t] = "locked"
    /\ call[t].op = "visit"
    /\ mutexOwner' = NoThread
    /\ Return(t, NoCall)
    /\ UNCHANGED <<poolVector, rivals>>

-----------------------------------------------------------------------------
Start(t) ==
    \/ \E type \in Types :
          \/ CreatePool(t, type)
          \/ CreateRejected(t, type)
          \/ GetObjectPoolID(t, type)
          \/ IsPoolCreated(t, type)
    \/ \E id \in CallerIds :
          \/ ReserveObject(t, id)
          \/ \E n \in CallerIncrements : SetPoolCapacityIncrement(t, id, n)
          \/ GetPoolCapacityIncrement(t, id)
          \/ GetPoolThresholdPercentage(t, id)
          \/ GetPoolObjectInitParam(t, id)
          \/ PrintPoolSummary(t, id)
    \/ ReleaseObject(t)
    \/ IsCreatedByOPM(t)
    \/ PrintAllPoolsSummary(t)
    \/ CheckForUnreleasedObjects(t)

(* The steps of a call once it has begun.                                  *)
Continue(t) ==
    \/ Acquire(t)
    \/ FindPool(t)
    \/ CreateFindsPool(t)
    \/ CreateFindsNone(t)
    \/ CreateInserts(t)
    \/ RejectId(t)
    \/ AcceptId(t)
    \/ PoolReturns(t)
    \/ PoolIsNull(t)
    \/ PoolIsNone(t)
    \/ VisitPools(t)

OPMNext == \E t \in Threads : running /\ (Start(t) \/ Continue(t))

OPMSpec == OPMInit /\ [][OPMNext]_opmVars

(* A thread inside a call keeps running; MaxCalls makes contention for the *)
(* mutex end, so weak fairness is enough.                                  *)
OPMFairSpec == OPMSpec /\ \A t \in Threads : WF_opmVars(running /\ Continue(t))

-----------------------------------------------------------------------------
Calls == [op : {"create", "find"}, type : Types]
         \cup [op : {"onPool"}, id : Int, valid : BOOLEAN]
         \cup {[op |-> "visit"], NoCall}
Answers == [op : {"create", "find"}, type : Types, id : Nat \cup {ERROR}]
           \cup [op : {"onPool"}, id : Nat \cup {ERROR}]
           \cup {NoCall}

OPMTypeOK ==
    /\ poolVector \in Seq(Types)
    /\ mutexOwner \in Threads \cup {NoThread}
    /\ pc \in [Threads -> {"idle", "acquire", "locked", "acquireToInsert",
                           "insert", "inPool"}]
    /\ call \in [Threads -> Calls]
    /\ answer \in [Threads -> Answers]
    /\ calls \in [Threads -> Nat]
    /\ running \in BOOLEAN
    /\ rivals \in [Types -> Nat]

(* However calls of several threads interleave, the id createPool or       *)
(* getObjectPoolID returned names a pool of the type that was asked for.   *)
AnsweredIdNamesItsType ==
    \A t \in Threads :
        (answer[t].op \in {"create", "find"} /\ answer[t].id # ERROR) =>
            answer[t].id \in Ids /\ TypeOf(answer[t].id) = answer[t].type

(* createPool searches and inserts in two critical sections, so a type may *)
(* get a second pool; but never more pools than there were calls at once   *)
(* between the two, whoever searches and creates before and after.         *)
NoMorePoolsThanRivals ==
    \A type \in Types : Cardinality(PoolsOf(type)) <= rivals[type]

(* However many pools a type has got, everybody who looks it up is told of *)
(* the same one, before and after the others are made.                     *)
SearchesAgree ==
    \A t, u \in Threads :
        LET a == answer[t]
            b == answer[u]
        IN  /\ a.op = "find" /\ a.id # ERROR
            /\ b.op = "find" /\ b.id # ERROR
            /\ a.type = b.type
            => a.id = b.id

(* The thread that owns the mutex is the one between its acquire and its   *)
(* release.                                                                *)
MutexHeld == \A t \in Threads : pc[t] \in {"locked", "insert"} => mutexOwner = t

(* The mutex is abandoned when a call has returned without giving it back: *)
(* its owner is outside every call, or waits for it in a later one.        *)
MutexAbandoned ==
    \E t \in Threads : mutexOwner = t /\ pc[t] \in {"idle", "acquire"}

(* A call can hang only behind a mutex that a rejected call abandoned:     *)
(* apart from those early returns every path gives the mutex back, if the  *)
(* process does not end.                                                   *)
OnlyAbandonedMutexBlocks ==
    \A t \in Threads :
        pc[t] # "idle" ~> (pc[t] = "idle" \/ MutexAbandoned \/ ~running)

(* Only createPool takes the mutex a second time, to insert.               *)
OnlyCreateInserts ==
    \A t \in Threads :
        /\ pc[t] \in {"acquireToInsert", "insert"} => call[t].op = "create"
        /\ pc[t] = "inPool" => call[t].op = "onPool"

(* Ids stay right while the vector grows, and the calls that use it take   *)
(* turns.                                                                  *)
IdsNameTheirPools ==
    /\ OPMTypeOK
    /\ AnsweredIdNamesItsType
    /\ MutexHeld
    /\ OnlyCreateInserts

(* The inductive invariant of ObjectPoolProofs: what was found is the      *)
(* first pool of its type, and every call between its search and its       *)
(* insertion counts as a pool to be.                                       *)
FoundIsFirst ==
    \A t \in Threads : answer[t].op = "find" /\ answer[t].id # ERROR =>
        \A id \in PoolsOf(answer[t].type) : answer[t].id <= id

RivalsCounted ==
    \A type \in Types :
        Cardinality(PoolsOf(type)) + Cardinality(Creating(type)) <= rivals[type]

OPMInv == IdsNameTheirPools /\ FoundIsFirst /\ RivalsCounted
=============================================================================
