----------------------------- MODULE ObjectPool -----------------------------
(***************************************************************************)
(* One pool of the Object Pool Manager (src/platform/opm/ObjectPool.cpp):  *)
(* what reserve() and release() promise about the free objects, the used   *)
(* objects, the capacity and the history of capacities, for a pool that is *)
(* called by one thread at a time and whose clients release only what they *)
(* hold.  The two linked lists are abstracted to the sets of their         *)
(* elements here; LinkedPool is the same code over the real pointers and   *)
(* implements this module.                                                 *)
(*                                                                         *)
(* creationCount_ and totalUsedObjects_ are left out: the code writes them *)
(* and only printUsageSummary reads them.                                  *)
(***************************************************************************)
EXTENDS Integers, Sequences, FiniteSets

CONSTANTS
    Objects,          \* every address the bootstrap method can return
    InitialCapacity,  \* constructor argument initialCapacity
    ThresholdPct,     \* constructor argument thresholdPercentage, in hundredths
    Increments,       \* values capacityIncrement_ can take
    GrowthMode        \* OPMGrowthModeType of this pool

NoGrowth      == "OPM_NO_GROWTH"
GrowthAllowed == "OPM_GROWTH_ALLOWED"
GrowAndShrink == "OPM_GROW_AND_SHRINK"

ASSUME CapacityAssumption  == InitialCapacity \in Nat \ {0}
ASSUME ThresholdAssumption == ThresholdPct \in Nat
ASSUME IncrementAssumption == Increments \subseteq Nat \ {0}
ASSUME ModeAssumption ==
    GrowthMode \in {NoGrowth, GrowthAllowed, GrowAndShrink}

VARIABLES
    freeList,               \* the objects of freeList_
    usedList,               \* the objects of usedList_
    currentFreeObjects,
    currentUsedObjects,
    peakUsedObjects,
    currentCapacity,
    capacityIncrement,
    numberEnlargements,
    historicalCapacity,     \* historicalCapacityArray_, from index 1
    previousThresholdCount

lists   == <<freeList, usedList>>
counts  == <<currentFreeObjects, currentUsedObjects, peakUsedObjects>>
history == <<currentCapacity, numberEnlargements, historicalCapacity,
             previousThresholdCount>>
vars    == <<lists, counts, history, capacityIncrement>>

-----------------------------------------------------------------------------
(* initialThreshold_ stays 0 when the pool may not grow; the cast to int   *)
(* truncates.                                                              *)
InitialThreshold ==
    IF GrowthMode = NoGrowth
    THEN 0
    ELSE InitialCapacity - ((InitialCapacity * ThresholdPct) \div 100)

NoPreviousThreshold == -1

(* The sets of n objects the bootstrap method can return while the pool    *)
(* owns the objects of both lists.                                         *)
NewObjects(n) ==
    {new \in SUBSET (Objects \ (freeList \cup usedList)) :
        IsFiniteSet(new) /\ Cardinality(new) = n}

Larger(a, b) == IF a >= b THEN a ELSE b
Smaller(a, b) == IF a <= b THEN a ELSE b

GrowthDue ==
    /\ GrowthMode # NoGrowth
    /\ currentUsedObjects >= currentCapacity - InitialThreshold

(* Tested after the released object has left the used list.                *)
ShrinkDue ==
    /\ GrowthMode = GrowAndShrink
    /\ previousThresholdCount # NoPreviousThreshold
    /\ currentUsedObjects - 1 <= previousThresholdCount
    /\ numberEnlargements > 0

-----------------------------------------------------------------------------
Init ==
    /\ freeList \in {new \in SUBSET Objects :
                        IsFiniteSet(new) /\ Cardinality(new) = InitialCapacity}
    /\ usedList = {}
    /\ currentFreeObjects = InitialCapacity
    /\ currentUsedObjects = 0
    /\ peakUsedObjects = 0
    /\ currentCapacity = InitialCapacity
    /\ capacityIncrement \in Increments
    /\ numberEnlargements = 0
    /\ historicalCapacity = <<InitialCapacity>>
    /\ previousThresholdCount = NoPreviousThreshold

TakeIntoUse(available, o, freeCount) ==
    /\ freeList' = available \ {o}
    /\ usedList' = usedList \cup {o}
    /\ currentFreeObjects' = freeCount - 1
    /\ currentUsedObjects' = currentUsedObjects + 1
    /\ peakUsedObjects' = Larger(peakUsedObjects, currentUsedObjects + 1)

(* On an empty free list reserve() returns NULL, before it considers       *)
(* growth, and changes nothing: a stuttering step.                         *)
Reserve(o) ==
    /\ o \in freeList
    /\ ~GrowthDue
    /\ TakeIntoUse(freeList, o, currentFreeObjects)
    /\ UNCHANGED <<history, capacityIncrement>>

(* The capacity recorded for the n-th enlargement: an old entry is reused  *)
(* before the array is extended.                                           *)
RecordCapacity(n, capacity) ==
    IF n + 1 <= Len(historicalCapacity)
    THEN [historicalCapacity EXCEPT ![n + 1] = capacity]
    ELSE Append(historicalCapacity, capacity)

AutoIncreaseLists ==
    /\ numberEnlargements' = numberEnlargements + 1
    /\ previousThresholdCount' = currentCapacity - InitialThreshold
    /\ currentCapacity' = currentCapacity + capacityIncrement
    /\ historicalCapacity' = RecordCapacity(numberEnlargements + 1,
                                            currentCapacity + capacityIncrement)

ReserveAndGrow(o) ==
    /\ freeList # {}
    /\ GrowthDue
    /\ \E new \in NewObjects(capacityIncrement) :
          /\ o \in freeList \cup new
          /\ TakeIntoUse(freeList \cup new, o,
                         currentFreeObjects + capacityIncrement)
    /\ AutoIncreaseLists
    /\ UNCHANGED capacityIncrement

Release(o) ==
    /\ o \in usedList
    /\ ~ShrinkDue
    /\ usedList' = usedList \ {o}
    /\ freeList' = freeList \cup {o}
    /\ currentUsedObjects' = currentUsedObjects - 1
    /\ currentFreeObjects' = currentFreeObjects + 1
    /\ UNCHANGED <<peakUsedObjects, history, capacityIncrement>>

SmallerCapacityOffByOne ==  \* mutated: index read before the decrement
    historicalCapacity[numberEnlargements + 1]

(* autoDecreaseLists takes the capacity before the last enlargement        *)
(* (element numberEnlargements, from index 1).                             *)
SmallerCapacity == historicalCapacity[numberEnlargements]

ThresholdBelow(n) ==
    IF n > 0 THEN historicalCapacity[n] - InitialThreshold
             ELSE NoPreviousThreshold

AutoDecreaseKeepsThreshold ==  \* mutated: previousThresholdCount_ not updated
    /\ numberEnlargements' = numberEnlargements - 1
    /\ currentCapacity' = SmallerCapacity
    /\ UNCHANGED <<historicalCapacity, previousThresholdCount>>

AutoDecreaseDropsThreshold ==  \* mutated: always reset to -1
    /\ numberEnlargements' = numberEnlargements - 1
    /\ previousThresholdCount' = NoPreviousThreshold
    /\ currentCapacity' = SmallerCapacity
    /\ UNCHANGED historicalCapacity

AutoDecreaseLists ==
    /\ numberEnlargements' = numberEnlargements - 1
    /\ previousThresholdCount' = ThresholdBelow(numberEnlargements - 1)
    /\ currentCapacity' = SmallerCapacity
    /\ UNCHANGED historicalCapacity

ReleaseAndShrink(o) ==
    /\ o \in usedList
    /\ ShrinkDue
    /\ usedList' = usedList \ {o}
    /\ currentUsedObjects' = currentUsedObjects - 1
    /\ LET numbToDelete == currentCapacity - SmallerCapacity
       IN  /\ \E deleted \in SUBSET (freeList \cup {o}) :
                 /\ Cardinality(deleted) = Smaller(numbToDelete,
                                               Cardinality(freeList \cup {o}))
                 /\ freeList' = (freeList \cup {o}) \ deleted
           /\ currentFreeObjects' = (currentFreeObjects + 1) - numbToDelete
    /\ AutoDecreaseLists
    /\ UNCHANGED <<peakUsedObjects, capacityIncrement>>

SetCapacityIncrement(n) ==
    /\ capacityIncrement' = n
    /\ UNCHANGED <<lists, counts, history>>

Next ==
    \/ \E o \in Objects :
          Reserve(o) \/ ReserveAndGrow(o) \/ Release(o) \/ ReleaseAndShrink(o)
    \/ \E n \in Increments : SetCapacityIncrement(n)

Spec == Init /\ [][Next]_vars

-----------------------------------------------------------------------------
(* Every variable of the pool keeps its type.                              *)
TypeOK ==
    /\ freeList \subseteq Objects
    /\ usedList \subseteq Objects
    /\ currentFreeObjects \in Nat
    /\ currentUsedObjects \in Nat
    /\ peakUsedObjects \in Nat
    /\ currentCapacity \in Nat
    /\ capacityIncrement \in Increments
    /\ numberEnlargements \in Nat
    /\ historicalCapacity \in Seq(Nat)
    /\ previousThresholdCount \in Nat \cup {NoPreviousThreshold}

(* The two lists are disjoint, the counters the growth and shrink tests    *)
(* read are the lengths of the lists, and free plus used objects are the   *)
(* capacity: no reserve, release, growth or shrink loses or invents one.   *)
CountsMatchLists ==
    /\ freeList \cap usedList = {}
    /\ IsFiniteSet(freeList) /\ Cardinality(freeList) = currentFreeObjects
    /\ IsFiniteSet(usedList) /\ Cardinality(usedList) = currentUsedObjects
    /\ currentCapacity = currentFreeObjects + currentUsedObjects

(* The history array is a stack of capacities: its element for the current *)
(* number of enlargements is the capacity, each enlargement is larger than *)
(* the one below, and previousThresholdCount_ is the threshold of the one  *)
(* just below (or -1 at the bottom), however increments change and entries *)
(* are reused between grow and shrink cycles.                              *)
HistoryMatchesCapacity ==
    /\ numberEnlargements < Len(historicalCapacity)
    /\ historicalCapacity[1] = InitialCapacity
    /\ historicalCapacity[numberEnlargements + 1] = currentCapacity
    /\ \A i \in 1..numberEnlargements :
          historicalCapacity[i] < historicalCapacity[i + 1]
    /\ previousThresholdCount = ThresholdBelow(numberEnlargements)

(* A pool that may grow and whose threshold is below 100 per cent always   *)
(* keeps initialThreshold_ objects free, after a growth as after a shrink, *)
(* so reserve() never takes its "no free objects" return.                  *)
GrowingPoolKeepsHeadroom ==
    (GrowthMode # NoGrowth /\ InitialThreshold >= 1)
        => currentFreeObjects >= InitialThreshold

(* A pool that may shrink has given back every enlargement its clients no  *)
(* longer need: with nothing in use it is back at its initial capacity.    *)
IdlePoolIsInitialSize ==
    (GrowthMode = GrowAndShrink /\ usedList = {})
        => currentCapacity = InitialCapacity

(* A shrink happens exactly when the use of the pool is back at the        *)
(* threshold of the capacity it shrinks to: never earlier, which would     *)
(* leave less than the headroom, and never later, which would leave        *)
(* objects nobody needs.                                                   *)
ShrinkExactlyAtThreshold ==
    [][currentCapacity' < currentCapacity =>
          currentUsedObjects' = currentCapacity' - InitialThreshold]_vars

-----------------------------------------------------------------------------
(* The inductive invariant behind the properties above.                    *)

(* No capacity in the live part of the history is below the initial one.   *)
HistoryAboveInitial ==
    \A i \in 1..(numberEnlargements + 1) :
        historicalCapacity[i] >= InitialCapacity

(* Only a pool that may grow, with a threshold below 100 per cent, is ever *)
(* enlarged.                                                               *)
EnlargedOnlyIfResizable ==
    numberEnlargements > 0 => GrowthMode # NoGrowth /\ InitialThreshold >= 1

(* While an enlargement of a shrinking pool lasts, the use of the pool is  *)
(* above the threshold at which that enlargement is undone.                *)
UseAboveThreshold ==
    (GrowthMode = GrowAndShrink /\ numberEnlargements > 0)
        => currentUsedObjects > previousThresholdCount

(* Inductive: together these parts are kept by every call on the pool.     *)
IInv ==
    /\ TypeOK
    /\ CountsMatchLists
    /\ HistoryMatchesCapacity
    /\ GrowingPoolKeepsHeadroom
    /\ HistoryAboveInitial
    /\ EnlargedOnlyIfResizable
    /\ UseAboveThreshold
=============================================================================
