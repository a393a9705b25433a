----------------------------- MODULE LinkedPool -----------------------------
(* ObjectPool.cpp over the real linked lists: the same reserve, release,   *)
(* growth and shrink as module ObjectPool, with freeList_ and usedList_ as *)
(* OPMLinkedLists that share the pointers inside the objects.  Clients     *)
(* release only objects they hold.                                         *)
EXTENDS OPMLinkedList

CONSTANTS InitialCapacity, ThresholdPct, Increments, GrowthMode

(* A pool starts with an object at least; there is memory for those.       *)
ASSUME CapacityAssumption  == InitialCapacity \in 1..Cardinality(Objects)
ASSUME ThresholdAssumption == ThresholdPct \in Nat
ASSUME IncrementAssumption == Increments \subseteq Nat \ {0}

VARIABLES
    mem,            \* next_, prev_ and the lists "free" and "used"
    pool            \* the counters of the pool

vars == <<mem, pool>>

(* The abstract pool this one implements.                                  *)
Promise == INSTANCE ObjectPool WITH
    freeList               <- Elements(mem, "free"),
    usedList               <- Elements(mem, "used"),
    currentFreeObjects     <- pool.free,
    currentUsedObjects     <- pool.used,
    peakUsedObjects        <- pool.peak,
    currentCapacity        <- pool.capacity,
    capacityIncrement      <- pool.increment,
    numberEnlargements     <- pool.enlargements,
    historicalCapacity     <- pool.history,
    previousThresholdCount <- pool.previousThreshold

Threshold == Promise!InitialThreshold

-----------------------------------------------------------------------------
(* Insert n objects that nothing refers to yet at the head of the free     *)
(* list.  A new OPMBase has null pointers.                                 *)
Fresh(m) == Objects \ (Elements(m, "free") \cup Elements(m, "used"))

AddOne(m) ==
    LET o == CHOOSE x \in Fresh(m) : TRUE
        created == [m EXCEPT !.next[o] = Null, !.prev[o] = Null]
    IN  InsertFirst(created, "free", o)

AddNew(m, n) ==
    LET made[k \in 0..n] == IF k = 0 THEN m ELSE AddOne(made[k - 1])
    IN  made[n]

Init ==
    /\ mem = AddNew(EmptyMemory({"free", "used"}), InitialCapacity)
    /\ \E increment \in Increments :
          pool = [free |-> InitialCapacity, used |-> 0, peak |-> 0,
                  capacity |-> InitialCapacity, increment |-> increment,
                  enlargements |-> 0, history |-> <<InitialCapacity>>,
                  previousThreshold |-> -1]

-----------------------------------------------------------------------------
GrowthDue ==
    /\ GrowthMode # Promise!NoGrowth
    /\ pool.used >= pool.capacity - Threshold

AutoIncreaseLists(p) ==
    LET capacity     == p.capacity + p.increment
        enlargements == p.enlargements + 1
    IN  [p EXCEPT !.enlargements = enlargements,
                  !.previousThreshold = p.capacity - Threshold,
                  !.free = @ + p.increment,
                  !.capacity = capacity,
                  !.history = IF enlargements < Len(@)
                              THEN [@ EXCEPT ![enlargements + 1] = capacity]
                              ELSE Append(@, capacity)]

(* removeFirst from the free list, the counters, insertFirst into the used *)
(* list.                                                                   *)
HandOut(m, p) ==
    /\ mem' = InsertFirst(RemoveFirst(m, "free"), "used", m.head["free"])
    /\ pool' = [p EXCEPT !.free = @ - 1, !.used = @ + 1,
                         !.peak = IF p.used + 1 > @ THEN p.used + 1 ELSE @]

(* On an empty free list reserve() returns NULL and changes nothing.       *)
Reserve ==
    /\ ~IsEmpty(mem, "free")
    /\ IF GrowthDue
       THEN /\ pool.increment <= Cardinality(Fresh(mem))  \* bound: Objects
            /\ HandOut(AddNew(mem, pool.increment), AutoIncreaseLists(pool))
       ELSE HandOut(mem, pool)

-----------------------------------------------------------------------------
(* removeFirst in a loop; on an empty list it returns NULL and the loop    *)
(* deletes nothing.                                                        *)
DeleteFirst(m, n) ==
    LET left[k \in 0..n] == IF k = 0 THEN m ELSE RemoveFirst(left[k - 1], "free")
    IN  left[n]

AutoDecreaseLists(p) ==
    LET smaller      == p.history[p.enlargements]
        enlargements == p.enlargements - 1
    IN  [p EXCEPT !.enlargements = enlargements,
                  !.previousThreshold =
                      IF enlargements > 0
                      THEN p.history[enlargements] - Threshold ELSE -1,
                  !.capacity = smaller,
                  !.free = @ - (p.capacity - smaller)]

ShrinkDue(p) ==
    /\ GrowthMode = Promise!GrowAndShrink
    /\ p.previousThreshold # -1
    /\ p.used <= p.previousThreshold
    /\ p.enlargements > 0

Release(o) ==
    /\ ContainsObject(mem, "used", o)
    /\ LET returned == InsertFirst(Remove(mem, "used", o), "free", o)
           counted  == [pool EXCEPT !.used = @ - 1, !.free = @ + 1]
           shrunk   == AutoDecreaseLists(counted)
       IN  IF ShrinkDue(counted)
           THEN /\ mem' = DeleteFirst(returned, pool.capacity - shrunk.capacity)
                /\ pool' = shrunk
           ELSE /\ mem' = returned
                /\ pool' = counted

SetCapacityIncrement(n) ==
    /\ pool' = [pool EXCEPT !.increment = n]
    /\ UNCHANGED mem

Next ==
    \/ Reserve
    \/ \E o \in Objects : Release(o)
    \/ \E n \in Increments : SetCapacityIncrement(n)

Spec == Init /\ [][Next]_vars

-----------------------------------------------------------------------------
(* The pool over linked lists behaves as the abstract pool: no pointer     *)
(* operation drops, duplicates or misplaces an object through any sequence *)
(* of reserves, releases, growths and shrinks.                             *)
ImplementsObjectPool == Promise!Spec
=============================================================================
