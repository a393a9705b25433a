-------------------------- MODULE ObjectPoolProofs --------------------------
(* Proofs about ObjectPool for every set of addresses, initial capacity,   *)
(* threshold, set of increments and growth mode, and about OPM for any     *)
(* threads, types and calls.                                               *)
EXTENDS ObjectPool, OPM, FiniteSetTheorems, SequenceTheorems, TLAPS

(* The truncated threshold is an integer that never exceeds the initial    *)
(* capacity.                                                               *)
LEMMA ThresholdBound ==
    InitialThreshold \in Int /\ InitialThreshold <= InitialCapacity
<1> DEFINE product == InitialCapacity * ThresholdPct
<1>1. product \in Nat
  BY CapacityAssumption, ThresholdAssumption
<1> HIDE DEF product
<1>2. product \div 100 \in Nat
  BY <1>1
<1>3. InitialThreshold =
        IF GrowthMode = NoGrowth THEN 0 ELSE InitialCapacity - (product \div 100)
  BY DEF InitialThreshold, product
<1>4. QED
  BY <1>2, <1>3, CapacityAssumption

(* Moving an object from a finite set that holds it to a disjoint one      *)
(* changes both sizes by one and keeps them disjoint.                      *)
LEMMA MoveElement ==
    ASSUME NEW S, NEW T, NEW x \in S,
           IsFiniteSet(S), IsFiniteSet(T), S \cap T = {}
    PROVE  /\ (S \ {x}) \cap (T \cup {x}) = {}
           /\ IsFiniteSet(S \ {x})
           /\ Cardinality(S \ {x}) = Cardinality(S) - 1
           /\ IsFiniteSet(T \cup {x})
           /\ Cardinality(T \cup {x}) = Cardinality(T) + 1
<1>1. x \notin T
  OBVIOUS
<1>2. /\ IsFiniteSet(S \ {x})
      /\ Cardinality(S \ {x}) = Cardinality(S) - 1
  BY FS_RemoveElement
<1>3. /\ IsFiniteSet(T \cup {x})
      /\ Cardinality(T \cup {x}) = Cardinality(T) + 1
  BY <1>1, FS_AddElement
<1>4. QED
  BY <1>1, <1>2, <1>3

(* The constructor's pool satisfies the inductive invariant.               *)
LEMMA InitEstablishes == Init => IInv
<1> SUFFICES ASSUME Init PROVE IInv
  OBVIOUS
<1> USE CapacityAssumption, ThresholdBound DEF Init
<1>1. TypeOK
  BY DEF TypeOK, NoPreviousThreshold
<1>2. CountsMatchLists
  BY FS_EmptySet DEF CountsMatchLists
<1>3. HistoryMatchesCapacity
  BY DEF HistoryMatchesCapacity, ThresholdBelow
<1>4. GrowingPoolKeepsHeadroom
  BY DEF GrowingPoolKeepsHeadroom
<1>5. HistoryAboveInitial
  BY DEF HistoryAboveInitial
<1>6. EnlargedOnlyIfResizable /\ UseAboveThreshold
  BY DEF EnlargedOnlyIfResizable, UseAboveThreshold
<1>7. QED
  BY <1>1, <1>2, <1>3, <1>4, <1>5, <1>6 DEF IInv

(* reserve() below the growth threshold.                                   *)
LEMMA ReserveKeeps ==
    ASSUME IInv, NEW o \in Objects, Reserve(o)
    PROVE  IInv'
<1> USE DEF Reserve, TakeIntoUse, history
<1>1. CountsMatchLists'
  <2>1. /\ IsFiniteSet(freeList) /\ IsFiniteSet(usedList)
        /\ freeList \cap usedList = {}
    BY DEF IInv, CountsMatchLists
  <2>2. /\ freeList' = freeList \ {o} /\ usedList' = usedList \cup {o}
        /\ o \in freeList
    OBVIOUS
  <2>3. /\ freeList' \cap usedList' = {}
        /\ IsFiniteSet(freeList') /\ IsFiniteSet(usedList')
        /\ Cardinality(freeList') = Cardinality(freeList) - 1
        /\ Cardinality(usedList') = Cardinality(usedList) + 1
    BY <2>1, <2>2, MoveElement
  <2>4. QED
    BY <2>3 DEF IInv, CountsMatchLists, TypeOK
<1>2. currentFreeObjects >= 1
  <2>1. IsFiniteSet(freeList) /\ Cardinality(freeList) = currentFreeObjects
    BY DEF IInv, CountsMatchLists
  <2>2. currentFreeObjects # 0
    BY <2>1, FS_EmptySet
  <2>3. QED
    BY <2>2 DEF IInv, TypeOK
<1>3. TypeOK'
  BY <1>2 DEF IInv, TypeOK, Larger
<1>4. HistoryMatchesCapacity' /\ HistoryAboveInitial' /\ EnlargedOnlyIfResizable'
  BY DEF IInv, HistoryMatchesCapacity, ThresholdBelow, HistoryAboveInitial,
         EnlargedOnlyIfResizable
<1>5. GrowingPoolKeepsHeadroom'
  BY ThresholdBound, <1>3
     DEF IInv, GrowingPoolKeepsHeadroom, GrowthDue, CountsMatchLists, TypeOK
<1>6. UseAboveThreshold'
  BY DEF IInv, UseAboveThreshold, TypeOK, NoPreviousThreshold
<1>7. QED
  BY <1>1, <1>3, <1>4, <1>5, <1>6 DEF IInv

(* Recording an enlargement leaves the capacities below it as they are,    *)
(* whether the entry is reused or appended.                                *)
Records(h, n, capacity) ==
    /\ h \in Seq(Nat)
    /\ n + 1 < Len(h)
    /\ \A i \in 1..(n + 1) : h[i] = historicalCapacity[i]
    /\ h[n + 2] = capacity

LEMMA RecordedCapacity ==
    ASSUME IInv, NEW capacity \in Nat
    PROVE  Records(RecordCapacity(numberEnlargements + 1, capacity),
                   numberEnlargements, capacity)
<1> DEFINE n == numberEnlargements
           h == RecordCapacity(n + 1, capacity)
<1> SUFFICES Records(h, n, capacity)
  OBVIOUS
<1>1. /\ historicalCapacity \in Seq(Nat)
      /\ n \in Nat
      /\ n < Len(historicalCapacity)
  BY DEF IInv, TypeOK, HistoryMatchesCapacity
<1>2. CASE n + 2 <= Len(historicalCapacity)
  <2>1. h = [historicalCapacity EXCEPT ![n + 2] = capacity]
    BY <1>1, <1>2 DEF RecordCapacity
  <2> HIDE DEF h
  <2>2. QED
    BY <1>1, <1>2, <2>1 DEF Records
<1>3. CASE ~(n + 2 <= Len(historicalCapacity))
  <2>1. h = Append(historicalCapacity, capacity)
    BY <1>1, <1>3 DEF RecordCapacity
  <2>2. Len(historicalCapacity) = n + 1
    BY <1>1, <1>3
  <2> HIDE DEF h
  <2>3. QED
    BY <1>1, <2>1, <2>2 DEF Records
<1>4. QED
  BY <1>2, <1>3, Zenon

(* reserve() at the growth threshold: autoIncreaseLists, then the object.  *)
LEMMA ReserveAndGrowKeeps ==
    ASSUME IInv, NEW o \in Objects, ReserveAndGrow(o)
    PROVE  IInv'
<1>1. PICK new \in NewObjects(capacityIncrement) :
        /\ o \in freeList \cup new
        /\ TakeIntoUse(freeList \cup new, o, currentFreeObjects + capacityIncrement)
  BY DEF ReserveAndGrow
<1>2. /\ new \subseteq Objects
      /\ new \cap (freeList \cup usedList) = {}
      /\ IsFiniteSet(new)
      /\ Cardinality(new) = capacityIncrement
  BY DEF NewObjects
<1>3. /\ capacityIncrement \in Nat \ {0}
      /\ capacityIncrement' = capacityIncrement
      /\ capacityIncrement \in Increments
  BY IncrementAssumption DEF IInv, TypeOK, ReserveAndGrow
<1>4. /\ numberEnlargements' = numberEnlargements + 1
      /\ previousThresholdCount' = currentCapacity - InitialThreshold
      /\ currentCapacity' = currentCapacity + capacityIncrement
      /\ historicalCapacity' = RecordCapacity(numberEnlargements + 1,
                                              currentCapacity + capacityIncrement)
  BY DEF ReserveAndGrow, AutoIncreaseLists
<1>5. /\ freeList' = (freeList \cup new) \ {o}
      /\ usedList' = usedList \cup {o}
      /\ currentFreeObjects' = (currentFreeObjects + capacityIncrement) - 1
      /\ currentUsedObjects' = currentUsedObjects + 1
      /\ peakUsedObjects' = Larger(peakUsedObjects, currentUsedObjects + 1)
  BY <1>1 DEF TakeIntoUse
<1>6. CountsMatchLists'
  <2>1. /\ IsFiniteSet(freeList) /\ IsFiniteSet(usedList)
        /\ freeList \cap usedList = {}
        /\ Cardinality(freeList) = currentFreeObjects
        /\ Cardinality(usedList) = currentUsedObjects
        /\ currentCapacity = currentFreeObjects + currentUsedObjects
    BY DEF IInv, CountsMatchLists
  <2> DEFINE available == freeList \cup new
  <2>2. freeList \cap new = {} /\ available \cap usedList = {}
    BY <1>2, <2>1
  <2>3. /\ IsFiniteSet(available)
        /\ Cardinality(available) = currentFreeObjects + capacityIncrement
    <3>1. /\ IsFiniteSet(available)
          /\ Cardinality(available)
                = Cardinality(freeList) + Cardinality(new)
                    - Cardinality(freeList \cap new)
      BY <1>2, <2>1, FS_Union
    <3>2. Cardinality(freeList \cap new) = 0
      BY <2>2, FS_EmptySet
    <3>3. QED
      BY <1>2, <1>3, <2>1, <3>1, <3>2 DEF IInv, TypeOK
  <2>4. o \in available
    BY <1>1
  <2> HIDE DEF available
  <2>5. /\ (available \ {o}) \cap (usedList \cup {o}) = {}
        /\ IsFiniteSet(available \ {o})
        /\ Cardinality(available \ {o}) = Cardinality(available) - 1
        /\ IsFiniteSet(usedList \cup {o})
        /\ Cardinality(usedList \cup {o}) = Cardinality(usedList) + 1
    BY <2>1, <2>2, <2>3, <2>4, MoveElement
  <2>6. freeList' = available \ {o}
    BY <1>5 DEF available
  <2>7. /\ currentFreeObjects' = Cardinality(available \ {o})
        /\ currentUsedObjects' = Cardinality(usedList \cup {o})
        /\ currentCapacity' = currentFreeObjects' + currentUsedObjects'
    BY <1>3, <1>4, <1>5, <2>1, <2>3, <2>5 DEF IInv, TypeOK
  <2>8. QED
    BY <1>5, <2>5, <2>6, <2>7, Zenon DEF CountsMatchLists
<1>7. GrowthMode # NoGrowth /\ InitialThreshold >= 1
  <2>1. currentUsedObjects < currentCapacity
    <3>1. /\ freeList # {} /\ IsFiniteSet(freeList)
          /\ Cardinality(freeList) = currentFreeObjects
          /\ currentCapacity = currentFreeObjects + currentUsedObjects
      BY DEF IInv, CountsMatchLists, ReserveAndGrow
    <3>2. currentFreeObjects # 0
      BY <3>1, FS_EmptySet
    <3>3. QED
      BY <3>1, <3>2 DEF IInv, TypeOK
  <2>2. GrowthMode # NoGrowth /\ currentUsedObjects >= currentCapacity - InitialThreshold
    BY DEF ReserveAndGrow, GrowthDue
  <2>3. QED
    BY <2>1, <2>2, ThresholdBound DEF IInv, TypeOK
<1>8. currentFreeObjects >= InitialThreshold
  BY <1>7 DEF IInv, GrowingPoolKeepsHeadroom
<1>9. currentCapacity >= InitialCapacity
  BY DEF IInv, HistoryAboveInitial, HistoryMatchesCapacity, TypeOK
<1> DEFINE n == numberEnlargements
<1>10. /\ historicalCapacity' \in Seq(Nat)
       /\ n + 1 < Len(historicalCapacity')
       /\ \A i \in 1..(n + 1) : historicalCapacity'[i] = historicalCapacity[i]
       /\ historicalCapacity'[n + 2] = currentCapacity'
  <2>1. currentCapacity + capacityIncrement \in Nat
    BY <1>3 DEF IInv, TypeOK
  <2>2. Records(RecordCapacity(n + 1, currentCapacity + capacityIncrement), n,
                currentCapacity + capacityIncrement)
    BY <2>1, RecordedCapacity, Zenon
  <2>3. Records(historicalCapacity', n, currentCapacity')
    BY <1>4, <2>2, Zenon
  <2>4. QED
    BY <2>3 DEF Records
<1>11. TypeOK'
  <2>1. freeList' \subseteq Objects /\ usedList' \subseteq Objects
    BY <1>2, <1>5 DEF IInv, TypeOK
  <2>2. /\ currentFreeObjects' \in Nat
        /\ currentUsedObjects' \in Nat
        /\ peakUsedObjects' \in Nat
    BY <1>3, <1>5 DEF IInv, TypeOK, Larger
  <2>3. previousThresholdCount' \in Nat
    BY <1>4, <1>9, ThresholdBound, CapacityAssumption DEF IInv, TypeOK
  <2>4. currentCapacity' \in Nat /\ numberEnlargements' \in Nat
    BY <1>3, <1>4 DEF IInv, TypeOK
  <2>5. historicalCapacity' \in Seq(Nat) /\ capacityIncrement' \in Increments
    BY <1>3, <1>10
  <2>6. QED
    BY <2>1, <2>2, <2>3, <2>4, <2>5 DEF TypeOK
<1>12. HistoryMatchesCapacity'
  <2>1. /\ n \in Nat
        /\ historicalCapacity[1] = InitialCapacity
        /\ historicalCapacity[n + 1] = currentCapacity
        /\ \A i \in 1..n : historicalCapacity[i] < historicalCapacity[i + 1]
    BY DEF IInv, TypeOK, HistoryMatchesCapacity
  <2>2. \A i \in 1..(n + 1) : historicalCapacity'[i] < historicalCapacity'[i + 1]
    <3> TAKE i \in 1..(n + 1)
    <3>1. CASE i = n + 1
      BY <1>3, <1>4, <1>10, <2>1, <3>1 DEF IInv, TypeOK
    <3>2. CASE i # n + 1
      BY <1>10, <2>1, <3>2
    <3>3. QED
      BY <3>1, <3>2
  <2>3. previousThresholdCount' = historicalCapacity'[n + 1] - InitialThreshold
    BY <1>4, <1>10, <2>1
  <2>4. numberEnlargements' = n + 1 /\ numberEnlargements' > 0
    BY <1>4, <2>1
  <2>5. previousThresholdCount' = ThresholdBelow(numberEnlargements)'
    BY <2>3, <2>4 DEF ThresholdBelow
  <2>6. /\ numberEnlargements' < Len(historicalCapacity')
        /\ historicalCapacity'[1] = InitialCapacity
        /\ historicalCapacity'[numberEnlargements' + 1] = currentCapacity'
    BY <1>10, <2>1, <2>4
  <2>7. QED
    BY <2>2, <2>4, <2>5, <2>6 DEF HistoryMatchesCapacity
<1>13. GrowingPoolKeepsHeadroom'
  BY <1>3, <1>5, <1>8, ThresholdBound DEF GrowingPoolKeepsHeadroom, IInv, TypeOK
<1>14. HistoryAboveInitial'
  <2> SUFFICES ASSUME NEW i \in 1..(n + 2)
               PROVE  historicalCapacity'[i] >= InitialCapacity
    BY <1>4 DEF HistoryAboveInitial, IInv, TypeOK
  <2>1. CASE i = n + 2
    BY <1>3, <1>4, <1>9, <1>10, <2>1, CapacityAssumption DEF IInv, TypeOK
  <2>2. CASE i # n + 2
    BY <1>10, <2>2 DEF HistoryAboveInitial, IInv, TypeOK
  <2>3. QED
    BY <2>1, <2>2
<1>15. EnlargedOnlyIfResizable'
  BY <1>7 DEF EnlargedOnlyIfResizable
<1>16. UseAboveThreshold'
  BY <1>4, <1>5, ThresholdBound
     DEF UseAboveThreshold, ReserveAndGrow, GrowthDue, IInv, TypeOK
<1>17. QED
  BY <1>6, <1>11, <1>12, <1>13, <1>14, <1>15, <1>16 DEF IInv

(* release() that leaves the capacity alone.                               *)
LEMMA ReleaseKeeps ==
    ASSUME IInv, NEW o \in Objects, Release(o)
    PROVE  IInv'
<1> USE DEF Release, history
<1>1. CountsMatchLists'
  <2>1. /\ IsFiniteSet(freeList) /\ IsFiniteSet(usedList)
        /\ usedList \cap freeList = {}
    BY DEF IInv, CountsMatchLists
  <2>2. /\ usedList' = usedList \ {o} /\ freeList' = freeList \cup {o}
        /\ o \in usedList
    OBVIOUS
  <2>3. /\ (usedList \ {o}) \cap (freeList \cup {o}) = {}
        /\ IsFiniteSet(usedList \ {o})
        /\ Cardinality(usedList \ {o}) = Cardinality(usedList) - 1
        /\ IsFiniteSet(freeList \cup {o})
        /\ Cardinality(freeList \cup {o}) = Cardinality(freeList) + 1
    BY <2>1, <2>2, MoveElement
  <2>4. QED
    BY <2>2, <2>3 DEF IInv, CountsMatchLists, TypeOK
<1>2. currentUsedObjects >= 1
  <2>1. IsFiniteSet(usedList) /\ Cardinality(usedList) = currentUsedObjects
    BY DEF IInv, CountsMatchLists
  <2>2. currentUsedObjects # 0
    BY <2>1, FS_EmptySet
  <2>3. QED
    BY <2>2 DEF IInv, TypeOK
<1>3. TypeOK'
  BY <1>2 DEF IInv, TypeOK
<1>4. HistoryMatchesCapacity' /\ HistoryAboveInitial' /\ EnlargedOnlyIfResizable'
  BY DEF IInv, HistoryMatchesCapacity, ThresholdBelow, HistoryAboveInitial,
         EnlargedOnlyIfResizable
<1>5. GrowingPoolKeepsHeadroom'
  BY ThresholdBound DEF IInv, GrowingPoolKeepsHeadroom, TypeOK
<1>6. UseAboveThreshold'
  <2> SUFFICES ASSUME GrowthMode = GrowAndShrink, numberEnlargements > 0
               PROVE  currentUsedObjects - 1 > previousThresholdCount
    BY DEF UseAboveThreshold
  <2>1. previousThresholdCount # NoPreviousThreshold
    <3>1. /\ previousThresholdCount
               = historicalCapacity[numberEnlargements] - InitialThreshold
          /\ historicalCapacity[numberEnlargements] >= InitialCapacity
          /\ historicalCapacity[numberEnlargements] \in Nat
      BY DEF IInv, TypeOK, HistoryMatchesCapacity, ThresholdBelow, HistoryAboveInitial
    <3>2. QED
      BY <3>1, ThresholdBound, CapacityAssumption DEF NoPreviousThreshold
  <2>2. ~(currentUsedObjects - 1 <= previousThresholdCount)
    BY <2>1 DEF ShrinkDue
  <2>3. QED
    BY <2>2 DEF IInv, TypeOK, NoPreviousThreshold
<1>7. QED
  BY <1>1, <1>3, <1>4, <1>5, <1>6 DEF IInv

(* release() that undoes the last enlargement.  The capacity it returns to *)
(* is the recorded one, at least numbToDelete objects are free, and the    *)
(* use left is exactly the threshold of that capacity.                     *)
LEMMA ReleaseAndShrinkKeeps ==
    ASSUME IInv, NEW o \in Objects, ReleaseAndShrink(o)
    PROVE  /\ IInv'
           /\ currentUsedObjects' = currentCapacity' - InitialThreshold
<1> DEFINE n            == numberEnlargements
           smaller      == historicalCapacity[n]
           available    == freeList \cup {o}
           numbToDelete == currentCapacity - smaller
<1>1. /\ o \in usedList
      /\ usedList' = usedList \ {o}
      /\ currentUsedObjects' = currentUsedObjects - 1
      /\ peakUsedObjects' = peakUsedObjects
      /\ capacityIncrement' = capacityIncrement
      /\ n' = n - 1
      /\ currentCapacity' = smaller
      /\ historicalCapacity' = historicalCapacity
      /\ previousThresholdCount' = ThresholdBelow(n - 1)
      /\ currentFreeObjects' = (currentFreeObjects + 1) - numbToDelete
  BY DEF ReleaseAndShrink, AutoDecreaseLists, SmallerCapacity
<1>2. PICK deleted \in SUBSET available :
        /\ Cardinality(deleted) = Smaller(numbToDelete, Cardinality(available))
        /\ freeList' = available \ deleted
  BY DEF ReleaseAndShrink, SmallerCapacity
<1>3. /\ n \in Nat /\ n > 0
      /\ GrowthMode = GrowAndShrink
      /\ currentUsedObjects - 1 <= previousThresholdCount
  BY DEF ReleaseAndShrink, ShrinkDue, IInv, TypeOK
<1>4. /\ n < Len(historicalCapacity)
      /\ historicalCapacity \in Seq(Nat)
      /\ historicalCapacity[1] = InitialCapacity
      /\ historicalCapacity[n + 1] = currentCapacity
      /\ \A i \in 1..n : historicalCapacity[i] < historicalCapacity[i + 1]
      /\ \A i \in 1..(n + 1) : historicalCapacity[i] >= InitialCapacity
      /\ previousThresholdCount = smaller - InitialThreshold
  BY <1>3 DEF IInv, TypeOK, HistoryMatchesCapacity, HistoryAboveInitial, ThresholdBelow
<1>5. /\ smaller \in Nat
      /\ smaller < currentCapacity
      /\ smaller >= InitialCapacity
  BY <1>3, <1>4
<1>6. /\ GrowthMode # NoGrowth /\ InitialThreshold >= 1
      /\ currentUsedObjects > previousThresholdCount
  BY <1>3 DEF IInv, EnlargedOnlyIfResizable, UseAboveThreshold
<1>7. currentUsedObjects' = currentCapacity' - InitialThreshold
  <2>1. previousThresholdCount = smaller - InitialThreshold
    BY <1>4
  <2>2. currentUsedObjects \in Nat
    BY DEF IInv, TypeOK
  <2>3. currentUsedObjects - 1 = previousThresholdCount
    BY <1>3, <1>5, <1>6, <2>1, <2>2, ThresholdBound
  <2>4. QED
    BY <1>1, <2>1, <2>3
<1>8. /\ IsFiniteSet(freeList) /\ IsFiniteSet(usedList)
      /\ freeList \cap usedList = {}
      /\ Cardinality(freeList) = currentFreeObjects
      /\ Cardinality(usedList) = currentUsedObjects
      /\ currentCapacity = currentFreeObjects + currentUsedObjects
      /\ currentFreeObjects \in Nat /\ currentUsedObjects \in Nat
      /\ currentCapacity \in Nat
  BY DEF IInv, CountsMatchLists, TypeOK
<1>9. numbToDelete \in Nat /\ numbToDelete <= currentFreeObjects
  BY <1>1, <1>5, <1>6, <1>7, <1>8, ThresholdBound
<1>10. /\ (usedList \ {o}) \cap available = {}
       /\ IsFiniteSet(usedList \ {o})
       /\ Cardinality(usedList \ {o}) = currentUsedObjects - 1
       /\ IsFiniteSet(available)
       /\ Cardinality(available) = currentFreeObjects + 1
  <2>1. /\ (usedList \ {o}) \cap (freeList \cup {o}) = {}
        /\ IsFiniteSet(usedList \ {o})
        /\ Cardinality(usedList \ {o}) = Cardinality(usedList) - 1
        /\ IsFiniteSet(freeList \cup {o})
        /\ Cardinality(freeList \cup {o}) = Cardinality(freeList) + 1
    <3>1. o \in usedList /\ usedList \cap freeList = {}
      BY <1>1, <1>8
    <3>2. QED
      BY <1>8, <3>1, MoveElement
  <2>2. QED
    BY <1>8, <2>1
<1> HIDE DEF available, smaller, numbToDelete
<1>11. /\ IsFiniteSet(freeList')
       /\ Cardinality(freeList') = currentFreeObjects'
  <2>1. Cardinality(deleted) = numbToDelete
    BY <1>2, <1>8, <1>9, <1>10 DEF Smaller
  <2>2. /\ IsFiniteSet(available \ deleted)
        /\ Cardinality(available \ deleted)
              = Cardinality(available) - Cardinality(available \cap deleted)
    BY <1>10, FS_Difference
  <2>3. available \cap deleted = deleted
    BY <1>2
  <2>4. QED
    BY <1>1, <1>2, <1>10, <2>1, <2>2, <2>3
<1>12. CountsMatchLists'
  <2>1. freeList' \cap usedList' = {}
    BY <1>1, <1>2, <1>10
  <2>2. currentCapacity' = currentFreeObjects' + currentUsedObjects'
    BY <1>1, <1>5, <1>8 DEF numbToDelete
  <2>3. IsFiniteSet(usedList') /\ Cardinality(usedList') = currentUsedObjects'
    BY <1>1, <1>10
  <2>4. QED
    BY <1>11, <2>1, <2>2, <2>3 DEF CountsMatchLists
<1>13. HistoryMatchesCapacity' /\ HistoryAboveInitial'
  <2>1. /\ n' < Len(historicalCapacity')
        /\ historicalCapacity'[1] = InitialCapacity
        /\ historicalCapacity'[n' + 1] = currentCapacity'
        /\ \A i \in 1..n' : historicalCapacity'[i] < historicalCapacity'[i + 1]
        /\ \A i \in 1..(n' + 1) : historicalCapacity'[i] >= InitialCapacity
    <3>1. n' = n - 1 /\ historicalCapacity' = historicalCapacity /\ n \in Nat \ {0}
      BY <1>1, <1>3
    <3>2. historicalCapacity'[n' + 1] = currentCapacity'
      BY <1>1, <3>1 DEF smaller
    <3>3. n' < Len(historicalCapacity') /\ historicalCapacity'[1] = InitialCapacity
      BY <1>4, <3>1
    <3>4. \A i \in 1..n' : historicalCapacity'[i] < historicalCapacity'[i + 1]
      BY <1>4, <3>1
    <3>5. \A i \in 1..(n' + 1) : historicalCapacity'[i] >= InitialCapacity
      BY <1>4, <3>1
    <3> QED BY <3>2, <3>3, <3>4, <3>5
  <2>2. ThresholdBelow(numberEnlargements)' = ThresholdBelow(n - 1)
    BY <1>1 DEF ThresholdBelow
  <2>3. QED
    BY <1>1, <2>1, <2>2 DEF HistoryMatchesCapacity, HistoryAboveInitial
<1>14. TypeOK'
  <2>1. freeList' \subseteq Objects /\ usedList' \subseteq Objects
    BY <1>1, <1>2 DEF available, IInv, TypeOK
  <2>2. /\ currentUsedObjects' \in Nat
        /\ currentFreeObjects' \in Nat
    <3>1. currentUsedObjects >= 1
      BY <1>1, <1>8, FS_EmptySet
    <3>2. QED
      BY <1>1, <1>8, <1>9, <3>1
  <2>3. previousThresholdCount' \in Nat \cup {NoPreviousThreshold}
    <3>1. CASE n = 1
      BY <1>1, <3>1 DEF ThresholdBelow
    <3>2. CASE n # 1
      <4>1. n - 1 \in 1..(n + 1) /\ n - 1 > 0
        BY <1>3, <3>2
      <4>2. /\ historicalCapacity[n - 1] \in Nat
            /\ historicalCapacity[n - 1] >= InitialCapacity
        <5>1. n - 1 \in 1..Len(historicalCapacity)
          BY <1>3, <1>4, <4>1
        <5>2. QED
          BY <1>4, <4>1, <5>1
      <4>3. historicalCapacity[n - 1] - InitialThreshold \in Nat
        BY <4>2, ThresholdBound, CapacityAssumption
      <4>4. QED
        BY <1>1, <4>1, <4>3 DEF ThresholdBelow
    <3>3. QED
      BY <3>1, <3>2
  <2>4. QED
    BY <1>1, <1>3, <1>5, <2>1, <2>2, <2>3 DEF IInv, TypeOK
<1>15. GrowingPoolKeepsHeadroom'
  BY <1>7, <1>12, <1>14, ThresholdBound
     DEF GrowingPoolKeepsHeadroom, CountsMatchLists, TypeOK
<1>16. EnlargedOnlyIfResizable'
  BY <1>6 DEF EnlargedOnlyIfResizable
<1>17. UseAboveThreshold'
  <2> SUFFICES ASSUME n' > 0
               PROVE  currentUsedObjects' > previousThresholdCount'
    BY DEF UseAboveThreshold
  <2>1. n - 1 \in 1..n /\ n - 1 > 0
    BY <1>1, <1>3
  <2>2. historicalCapacity[n - 1] < smaller
    BY <1>3, <1>4, <2>1 DEF smaller
  <2>3. previousThresholdCount' = historicalCapacity[n - 1] - InitialThreshold
    BY <1>1, <2>1 DEF ThresholdBelow
  <2>4. historicalCapacity[n - 1] \in Nat
    <3>1. n - 1 \in 1..Len(historicalCapacity)
      BY <1>3, <1>4, <2>1
    <3>2. QED
      BY <1>4, <3>1
  <2>5. QED
    BY <1>1, <1>5, <1>7, <2>2, <2>3, <2>4, ThresholdBound
<1>18. QED
  BY <1>7, <1>12, <1>13, <1>14, <1>15, <1>16, <1>17 DEF IInv

(* A step that changes at most the increment used by later growth.         *)
LEMMA IncrementKeeps ==
    ASSUME IInv, capacityIncrement' \in Increments,
           UNCHANGED <<lists, counts, history>>
    PROVE  IInv'
<1> USE DEF lists, counts, history
<1>1. TypeOK' /\ CountsMatchLists'
  BY DEF IInv, TypeOK, CountsMatchLists
<1>2. HistoryMatchesCapacity' /\ HistoryAboveInitial'
  BY DEF IInv, HistoryMatchesCapacity, HistoryAboveInitial, ThresholdBelow
<1>3. GrowingPoolKeepsHeadroom' /\ EnlargedOnlyIfResizable' /\ UseAboveThreshold'
  BY DEF IInv, GrowingPoolKeepsHeadroom, EnlargedOnlyIfResizable, UseAboveThreshold
<1>4. QED
  BY <1>1, <1>2, <1>3 DEF IInv

(* Every call on the pool keeps the inductive invariant.                   *)
LEMMA NextKeeps == IInv /\ [Next]_vars => IInv'
<1> SUFFICES ASSUME IInv, [Next]_vars PROVE IInv'
  OBVIOUS
<1>1. CASE UNCHANGED vars
  BY <1>1, IncrementKeeps DEF vars, IInv, TypeOK
<1>2. ASSUME NEW o \in Objects, Reserve(o) PROVE IInv'
  BY <1>2, ReserveKeeps
<1>3. ASSUME NEW o \in Objects, ReserveAndGrow(o) PROVE IInv'
  BY <1>3, ReserveAndGrowKeeps
<1>4. ASSUME NEW o \in Objects, Release(o) PROVE IInv'
  BY <1>4, ReleaseKeeps
<1>5. ASSUME NEW o \in Objects, ReleaseAndShrink(o) PROVE IInv'
  BY <1>5, ReleaseAndShrinkKeeps
<1>6. ASSUME NEW i \in Increments, SetCapacityIncrement(i) PROVE IInv'
  BY <1>6, IncrementKeeps DEF SetCapacityIncrement
<1>7. QED
  BY <1>1, <1>2, <1>3, <1>4, <1>5, <1>6 DEF Next

(* The invariant of every reachable state of every pool.                   *)
THEOREM Invariance == Spec => []IInv
<1>1. Init => IInv
  BY InitEstablishes
<1>2. IInv /\ [Next]_vars => IInv'
  BY NextKeeps
<1>3. QED
  BY <1>1, <1>2, PTL DEF Spec

(* Every variable of the pool keeps its type.                              *)
THEOREM TypeCorrect == Spec => []TypeOK
<1>1. IInv => TypeOK
  BY DEF IInv
<1>2. QED
  BY <1>1, Invariance, PTL

(* The counters the growth and shrink decisions read are the sizes of the  *)
(* two disjoint lists, and no object of the capacity is lost.              *)
THEOREM CountsAreRight == Spec => []CountsMatchLists
<1>1. IInv => CountsMatchLists
  BY DEF IInv
<1>2. QED
  BY <1>1, Invariance, PTL

(* The history array and previousThresholdCount_ describe the capacity.    *)
THEOREM HistoryIsRight == Spec => []HistoryMatchesCapacity
<1>1. IInv => HistoryMatchesCapacity
  BY DEF IInv
<1>2. QED
  BY <1>1, Invariance, PTL

(* A resizable pool with a threshold below 100 per cent always keeps       *)
(* initialThreshold_ objects free.                                         *)
THEOREM HeadroomIsKept == Spec => []GrowingPoolKeepsHeadroom
<1>1. IInv => GrowingPoolKeepsHeadroom
  BY DEF IInv
<1>2. QED
  BY <1>1, Invariance, PTL

(* A shrinking pool nobody uses is back at its initial capacity.           *)
THEOREM IdleMeansInitialSize == Spec => []IdlePoolIsInitialSize
<1>1. IInv => IdlePoolIsInitialSize
  <2> SUFFICES ASSUME IInv, GrowthMode = GrowAndShrink, usedList = {}
               PROVE  currentCapacity = InitialCapacity
    BY DEF IdlePoolIsInitialSize
  <2>1. currentUsedObjects = 0
    BY FS_EmptySet DEF IInv, CountsMatchLists
  <2>2. numberEnlargements = 0
    <3> SUFFICES ASSUME numberEnlargements > 0 PROVE FALSE
      BY DEF IInv, TypeOK
    <3>1. /\ historicalCapacity[numberEnlargements] \in Nat
          /\ historicalCapacity[numberEnlargements] >= InitialCapacity
      BY DEF IInv, TypeOK, HistoryMatchesCapacity, HistoryAboveInitial
    <3>2. previousThresholdCount
            = historicalCapacity[numberEnlargements] - InitialThreshold
      BY DEF IInv, HistoryMatchesCapacity, ThresholdBelow
    <3>3. currentUsedObjects > previousThresholdCount
      BY DEF IInv, UseAboveThreshold
    <3>4. QED
      BY <2>1, <3>1, <3>2, <3>3, ThresholdBound, CapacityAssumption
  <2>3. QED
    BY <2>2 DEF IInv, HistoryMatchesCapacity
<1>2. QED
  BY <1>1, Invariance, PTL

(* A shrink happens exactly at the threshold of the capacity it returns to *)
THEOREM ShrinkAtThreshold == Spec => ShrinkExactlyAtThreshold
<1>1. IInv /\ [Next]_vars =>
        [currentCapacity' < currentCapacity =>
            currentUsedObjects' = currentCapacity' - InitialThreshold]_vars
  <2> SUFFICES ASSUME IInv, Next, currentCapacity' < currentCapacity
               PROVE  currentUsedObjects' = currentCapacity' - InitialThreshold
    OBVIOUS
  <2>1. ASSUME currentCapacity' = currentCapacity PROVE FALSE
    BY <2>1 DEF IInv, TypeOK
  <2>2. ASSUME NEW o \in Objects, Reserve(o) PROVE FALSE
    BY <2>1, <2>2 DEF Reserve, history
  <2>3. ASSUME NEW o \in Objects, ReserveAndGrow(o) PROVE FALSE
    BY <2>3, IncrementAssumption
       DEF ReserveAndGrow, AutoIncreaseLists, IInv, TypeOK
  <2>4. ASSUME NEW o \in Objects, Release(o) PROVE FALSE
    BY <2>1, <2>4 DEF Release, history
  <2>5. ASSUME NEW o \in Objects, ReleaseAndShrink(o)
        PROVE  currentUsedObjects' = currentCapacity' - InitialThreshold
    BY <2>5, ReleaseAndShrinkKeeps
  <2>6. ASSUME NEW i \in Increments, SetCapacityIncrement(i) PROVE FALSE
    BY <2>1, <2>6 DEF SetCapacityIncrement, history
  <2>7. QED
    BY <2>2, <2>3, <2>4, <2>5, <2>6 DEF Next
<1>2. QED
  BY <1>1, Invariance, PTL DEF Spec, ShrinkExactlyAtThreshold
-----------------------------------------------------------------------------
(* What holds of the Object Pool Manager for any number of threads, types   *)
(* and calls: the ids it answers with name pools of the right type, every   *)
(* search finds the same pool, and a type gets no more pools than there     *)
(* were calls at once to create one, whatever the threads do between two    *)
(* holds of the mutex.                                                      *)

(* Types of all the variables but the vector, which only Append changes.    *)
ThreadsOK ==
    /\ mutexOwner \in Threads \cup {NoThread}
    /\ pc \in [Threads -> {"idle", "acquire", "locked", "acquireToInsert",
                           "insert", "inPool"}]
    /\ calls \in [Threads -> Nat]
    /\ running \in BOOLEAN
    /\ rivals \in [Types -> Nat]

LEMMA ManagerTypeSplits ==
    /\ OPMTypeOK <=> /\ ThreadsOK /\ poolVector \in Seq(Types)
                  /\ call \in [Threads -> Calls] /\ answer \in [Threads -> Answers]
    /\ OPMTypeOK' <=> /\ ThreadsOK' /\ poolVector' \in Seq(Types)
                   /\ call' \in [Threads -> Calls] /\ answer' \in [Threads -> Answers]
  BY DEF OPMTypeOK, ThreadsOK

(* The parts of the invariant that relate the variables, the count of the   *)
(* rivals apart.                                                            *)
Relations ==
    AnsweredIdNamesItsType /\ MutexHeld /\ OnlyCreateInserts /\ FoundIsFirst

LEMMA ManagerInvSplits ==
    /\ OPMInv <=> OPMTypeOK /\ Relations /\ RivalsCounted
    /\ OPMInv' <=> OPMTypeOK' /\ Relations' /\ RivalsCounted'
  BY DEF OPMInv, IdsNameTheirPools, Relations

(* What a thread asks is one of the calls of its interface.                 *)
LEMMA CallsAre ==
    /\ \A type \in Types : /\ [op |-> "create", type |-> type] \in Calls
                           /\ [op |-> "find", type |-> type] \in Calls
    /\ \A id \in Int, valid \in BOOLEAN : OnPool(id, valid) \in Calls
    /\ [op |-> "visit"] \in Calls
  BY DEF Calls, OnPool

(* The calls between search and insertion are the same before and after a   *)
(* step of a thread that is not one of them.                                *)
LEMMA RivalsStay ==
    ASSUME OPMTypeOK, RivalsCounted, NEW t \in Threads,
           \A u \in Threads \ {t} : pc'[u] = pc[u] /\ call'[u] = call[u],
           pc[t] \notin {"acquireToInsert", "insert"},
           pc'[t] \notin {"acquireToInsert", "insert"},
           UNCHANGED <<poolVector, rivals>>
    PROVE  RivalsCounted'
<1>1. \A type \in Types : Creating(type)' = Creating(type)
  BY DEF Creating
<1>2. \A type \in Types : PoolsOf(type)' = PoolsOf(type)
  BY DEF PoolsOf, Ids, TypeOf
<1> QED BY <1>1, <1>2 DEF RivalsCounted

(* A call begins: nothing it may rest on is touched.                        *)
LEMMA CallBeginKeeps ==
    ASSUME OPMInv, NEW t \in Threads, NEW what \in Calls, Begin(t, what)
    PROVE  OPMInv'
<1> USE ManagerInvSplits, ManagerTypeSplits
<1>1. OPMTypeOK'
  BY DEF Begin, Calling, ThreadsOK
<1>2. Relations'
  BY DEF Begin, Calling, ThreadsOK, Relations, AnsweredIdNamesItsType, MutexHeld,
         OnlyCreateInserts, FoundIsFirst, PoolsOf, Ids, TypeOf
<1>3. RivalsCounted'
  BY RivalsStay DEF Begin, Calling, ThreadsOK
<1> QED BY <1>1, <1>2, <1>3

(* A call of createPool that is turned away answers ERROR.                  *)
LEMMA CreateRejectedKeeps ==
    ASSUME OPMInv, NEW t \in Threads, NEW type \in Types, CreateRejected(t, type)
    PROVE  OPMInv'
<1> USE ManagerInvSplits, ManagerTypeSplits
<1>1. [op |-> "create", type |-> type, id |-> ERROR] \in Answers
  BY DEF Answers
<1>2. OPMTypeOK'
  BY <1>1 DEF CreateRejected, Calling, ThreadsOK
<1>3. Relations'
  BY DEF CreateRejected, Calling, ThreadsOK, Relations, AnsweredIdNamesItsType,
         MutexHeld, OnlyCreateInserts, FoundIsFirst, PoolsOf, Ids, TypeOf
<1>4. RivalsCounted'
  BY RivalsStay DEF CreateRejected, Calling, ThreadsOK
<1> QED BY <1>2, <1>3, <1>4

(* Whichever operation a thread starts.                                     *)
LEMMA CallStartKeeps ==
    ASSUME OPMInv, NEW t \in Threads, Start(t)
    PROVE  OPMInv'
<1>1. ASSUME NEW type \in Types,
             CreatePool(t, type) \/ GetObjectPoolID(t, type) \/ IsPoolCreated(t, type)
      PROVE  OPMInv'
  BY <1>1, CallsAre, CallBeginKeeps DEF CreatePool, GetObjectPoolID, IsPoolCreated
<1>2. ASSUME NEW id \in CallerIds,
             \/ ReserveObject(t, id)
             \/ GetPoolCapacityIncrement(t, id)
             \/ GetPoolThresholdPercentage(t, id)
             \/ GetPoolObjectInitParam(t, id)
             \/ PrintPoolSummary(t, id)
      PROVE  OPMInv'
  <2>1. OnPool(id, TRUE) \in Calls
    BY CallerIdsAssumption, CallsAre
  <2> QED
    BY <1>2, <2>1, CallBeginKeeps
       DEF ReserveObject, GetPoolCapacityIncrement, GetPoolThresholdPercentage,
           GetPoolObjectInitParam, PrintPoolSummary
<1>3. ASSUME NEW id \in CallerIds, NEW n \in CallerIncrements,
             SetPoolCapacityIncrement(t, id, n)
      PROVE  OPMInv'
  <2>1. (n > 0) \in BOOLEAN
    BY CallerIdsAssumption
  <2>2. OnPool(id, n > 0) \in Calls
    BY CallerIdsAssumption, <2>1, CallsAre
  <2> QED BY <1>3, <2>2, CallBeginKeeps DEF SetPoolCapacityIncrement
<1>4. CASE ReleaseObject(t) \/ IsCreatedByOPM(t)
  <2>1. PICK id \in Ids : Begin(t, OnPool(id, TRUE))
    BY <1>4 DEF ReleaseObject, IsCreatedByOPM
  <2>2. id \in Int
    BY ManagerInvSplits, ManagerTypeSplits DEF Ids
  <2>3. OnPool(id, TRUE) \in Calls
    BY <2>2, CallsAre
  <2> QED BY <2>1, <2>3, CallBeginKeeps
<1>5. CASE PrintAllPoolsSummary(t) \/ CheckForUnreleasedObjects(t)
  BY <1>5, CallsAre, CallBeginKeeps DEF PrintAllPoolsSummary, CheckForUnreleasedObjects
<1>6. ASSUME NEW type \in Types, CreateRejected(t, type) PROVE OPMInv'
  BY <1>6, CreateRejectedKeeps
<1> QED BY <1>1, <1>2, <1>3, <1>4, <1>5, <1>6 DEF Start

(* The answers of the operations are of the type declared for them.         *)
LEMMA ReturnTypes ==
    ASSUME OPMTypeOK, NEW t \in Threads, NEW value \in Answers, Return(t, value)
    PROVE  /\ call' \in [Threads -> Calls] /\ answer' \in [Threads -> Answers]
           /\ pc' = [pc EXCEPT ![t] = "idle"]
           /\ answer' = [answer EXCEPT ![t] = value]
           /\ call' = [call EXCEPT ![t] = NoCall]
  BY ManagerTypeSplits DEF Return, Calls

(* A call returns without changing the vector: what it answers must be      *)
(* right, and it must hold the mutex if it gives it back.                   *)
LEMMA CallReturnKeeps ==
    ASSUME OPMInv, NEW t \in Threads, NEW value \in Answers, Return(t, value),
           UNCHANGED <<poolVector, rivals>>, pc[t] \in {"locked", "inPool"},
           mutexOwner' = mutexOwner \/ (mutexOwner = t /\ mutexOwner' = NoThread),
           (value.op \in {"create", "find"} /\ value.id # ERROR) =>
               value.id \in Ids /\ TypeOf(value.id) = value.type,
           (value.op = "find" /\ value.id # ERROR) =>
               \A id \in PoolsOf(value.type) : value.id <= id
    PROVE  OPMInv'
<1> USE ManagerInvSplits, ManagerTypeSplits, ReturnTypes
<1>1. OPMTypeOK'
  BY DEF ThreadsOK, Return
<1>2. AnsweredIdNamesItsType'
  BY DEF Relations, AnsweredIdNamesItsType, Ids, TypeOf
<1>3. MutexHeld'
  BY DEF ThreadsOK, Relations, MutexHeld
<1>4. OnlyCreateInserts'
  <2>1. pc' = [pc EXCEPT ![t] = "idle"] /\ call' = [call EXCEPT ![t] = NoCall]
    BY DEF Return
  <2>2. \A u \in Threads \ {t} : pc'[u] = pc[u] /\ call'[u] = call[u]
    BY <2>1 DEF ThreadsOK
  <2>3. pc'[t] = "idle"
    BY <2>1 DEF ThreadsOK
  <2> QED BY <2>2, <2>3 DEF Relations, OnlyCreateInserts
<1>5. FoundIsFirst'
  <2>1. \A type : PoolsOf(type)' = PoolsOf(type)
    BY DEF PoolsOf, Ids, TypeOf
  <2> QED BY <2>1 DEF Relations, FoundIsFirst
<1>6. RivalsCounted'
  <2>1. pc' = [pc EXCEPT ![t] = "idle"] /\ call' = [call EXCEPT ![t] = NoCall]
    BY DEF Return
  <2>2. \A u \in Threads \ {t} : pc'[u] = pc[u] /\ call'[u] = call[u]
    BY <2>1 DEF ThreadsOK
  <2>3. pc'[t] = "idle"
    BY <2>1 DEF ThreadsOK
  <2> QED BY <2>2, <2>3, RivalsStay
<1> QED BY <1>1, <1>2, <1>3, <1>4, <1>5, <1>6 DEF Relations

LEMMA AnswersAre ==
    ASSUME OPMTypeOK, NEW t \in Threads
    PROVE  /\ call[t] \in Calls
           /\ call[t].op \in {"create", "find"} => call[t].type \in Types
           /\ call[t].op = "onPool" => call[t].id \in Int
  BY ManagerTypeSplits DEF Calls, NoCall

(* The pools of a type and the calls that are making one are finitely many. *)
LEMMA RivalsFinite ==
    ASSUME OPMTypeOK, NEW type
    PROVE  /\ IsFiniteSet(PoolsOf(type)) /\ Cardinality(PoolsOf(type)) \in Nat
           /\ IsFiniteSet(Creating(type)) /\ Cardinality(Creating(type)) \in Nat
<1>1. Len(poolVector) \in Nat
  BY ManagerTypeSplits
<1>2. IsFiniteSet(Ids)
  BY <1>1, FS_Interval DEF Ids
<1>3. PoolsOf(type) \subseteq Ids /\ Creating(type) \subseteq Threads
  BY DEF PoolsOf, Creating
<1> QED BY <1>2, <1>3, ThreadsAssumption, FS_Subset, FS_CardinalityType

(* A call that has found no pool is one rival more.                         *)
LEMMA RivalAppears ==
    ASSUME OPMInv, NEW t \in Threads, CreateFindsNone(t)
    PROVE  RivalsCounted'
<1> USE ManagerInvSplits, ManagerTypeSplits
<1>1. call[t].type \in Types
  BY AnswersAre DEF CreateFindsNone
<1> SUFFICES ASSUME NEW type \in Types
             PROVE  Cardinality(PoolsOf(type)') + Cardinality(Creating(type)')
                        <= rivals'[type]
  BY DEF RivalsCounted
<1>2. PoolsOf(type)' = PoolsOf(type)
  BY DEF CreateFindsNone, PoolsOf, Ids, TypeOf
<1>3. CASE type # call[t].type
  <2>1. Creating(type)' = Creating(type)
    BY <1>3 DEF Creating, CreateFindsNone, ThreadsOK
  <2>2. rivals'[type] = rivals[type]
    BY <1>3 DEF CreateFindsNone, ThreadsOK
  <2> QED BY <1>2, <2>1, <2>2 DEF RivalsCounted
<1>4. CASE type = call[t].type
  <2>1. /\ Creating(type)' = Creating(type) \cup {t}
        /\ t \notin Creating(type)
    BY <1>4 DEF Creating, CreateFindsNone, ThreadsOK
  <2>2. Cardinality(Creating(type)') = Cardinality(Creating(type)) + 1
    BY <2>1, RivalsFinite, FS_AddElement
  <2>3. Cardinality(PoolsOf(type)') = 0
    BY <1>2, <1>4, FS_EmptySet DEF CreateFindsNone, Matches
  <2>4. rivals'[type] = Most(rivals[type], Cardinality(Creating(type)) + 1)
    BY <1>4, <1>1 DEF CreateFindsNone, ThreadsOK
  <2>5. rivals[type] \in Nat
    BY DEF ThreadsOK
  <2> QED BY <2>2, <2>3, <2>4, <2>5, RivalsFinite DEF Most
<1> QED BY <1>3, <1>4

(* A call that inserts its pool is a rival no more, and its pool one more.  *)
LEMMA RivalInserts ==
    ASSUME OPMInv, NEW t \in Threads, CreateInserts(t)
    PROVE  RivalsCounted'
<1> USE ManagerInvSplits, ManagerTypeSplits
<1>1. call[t].type \in Types /\ Len(poolVector) \in Nat
  BY AnswersAre DEF CreateInserts, Relations, OnlyCreateInserts
<1>2. /\ Ids' = Ids \cup {Len(poolVector)} /\ Len(poolVector) \notin Ids
      /\ \A id \in Ids : poolVector'[id + 1] = poolVector[id + 1]
      /\ poolVector'[Len(poolVector) + 1] = call[t].type
  <2>1. poolVector' = Append(poolVector, call[t].type) /\ poolVector \in Seq(Types)
    BY DEF CreateInserts
  <2>2. Len(poolVector') = Len(poolVector) + 1
    BY <2>1, <1>1
  <2>3. /\ \A i \in 1..Len(poolVector) : poolVector'[i] = poolVector[i]
        /\ poolVector'[Len(poolVector) + 1] = call[t].type
    BY <2>1, <1>1
  <2> QED BY <2>2, <2>3, <1>1 DEF Ids
<1>3. pc' = [pc EXCEPT ![t] = "idle"] /\ call' = [call EXCEPT ![t] = NoCall]
  BY DEF CreateInserts, Return
<1> SUFFICES ASSUME NEW type \in Types
             PROVE  Cardinality(PoolsOf(type)') + Cardinality(Creating(type)')
                        <= rivals'[type]
  BY DEF RivalsCounted
<1>4. rivals' = rivals
  BY DEF CreateInserts
<1>5. CASE type # call[t].type
  <2>1. Creating(type)' = Creating(type)
    BY <1>5, <1>3 DEF Creating, ThreadsOK
  <2>2. PoolsOf(type)' = PoolsOf(type)
    BY <1>5, <1>2 DEF PoolsOf, TypeOf
  <2> QED BY <1>4, <2>1, <2>2 DEF RivalsCounted
<1>6. CASE type = call[t].type
  <2>1. Creating(type)' = Creating(type) \ {t} /\ t \in Creating(type)
    BY <1>6, <1>3 DEF Creating, ThreadsOK, CreateInserts
  <2>2. /\ PoolsOf(type)' = PoolsOf(type) \cup {Len(poolVector)}
        /\ Len(poolVector) \notin PoolsOf(type)
    BY <1>6, <1>2 DEF PoolsOf, TypeOf
  <2>3. Cardinality(Creating(type)') = Cardinality(Creating(type)) - 1
    BY <2>1, RivalsFinite, FS_RemoveElement
  <2>4. Cardinality(PoolsOf(type)') = Cardinality(PoolsOf(type)) + 1
    BY <2>2, RivalsFinite, FS_AddElement
  <2>5. Cardinality(PoolsOf(type)) + Cardinality(Creating(type)) <= rivals[type]
    BY DEF RivalsCounted
  <2>6. rivals[type] \in Nat
    BY DEF ThreadsOK
  <2> QED BY <1>4, <2>3, <2>4, <2>5, <2>6, RivalsFinite
<1> QED BY <1>5, <1>6

(* The insertion lengthens the vector; what was answered before it still    *)
(* names the same pool, and the new pool is behind all the others.          *)
LEMMA InsertionKeeps ==
    ASSUME OPMInv, NEW t \in Threads, CreateInserts(t)
    PROVE  OPMInv'
<1> USE ThreadsAssumption, ManagerInvSplits, ManagerTypeSplits
<1> DEFINE value == [op |-> "create", type |-> call[t].type, id |-> Len(poolVector)]
<1>1. call[t].type \in Types /\ Len(poolVector) \in Nat
  BY AnswersAre DEF CreateInserts, Relations, OnlyCreateInserts
<1>2. /\ poolVector' \in Seq(Types)
      /\ \A id \in Ids : id \in Ids' /\ poolVector'[id + 1] = poolVector[id + 1]
      /\ Len(poolVector) \in Ids'
      /\ poolVector'[Len(poolVector) + 1] = call[t].type
      /\ \A id \in Ids' : id \in Ids \/ id = Len(poolVector)
      /\ \A id \in Ids : id < Len(poolVector)
  BY <1>1 DEF CreateInserts, Ids
<1>3. value \in Answers /\ Return(t, value)
  BY <1>1 DEF CreateInserts, Answers
<1>4. value.op = "create" /\ value.id = Len(poolVector) /\ value.type = call[t].type
  OBVIOUS
<1> HIDE DEF value
<1>5. OPMTypeOK'
  BY <1>2, <1>3, ReturnTypes DEF CreateInserts, ThreadsOK, Return
<1>6. ASSUME NEW u \in Threads, u # t PROVE answer'[u] = answer[u]
  BY <1>3, <1>6, ReturnTypes
<1>7. answer'[t] = value
  BY <1>3, ReturnTypes
<1>8. AnsweredIdNamesItsType'
  <2> SUFFICES ASSUME NEW u \in Threads, answer'[u].op \in {"create", "find"},
                      answer'[u].id # ERROR
               PROVE  /\ answer'[u].id \in Ids'
                      /\ poolVector'[answer'[u].id + 1] = answer'[u].type
    BY DEF AnsweredIdNamesItsType, TypeOf
  <2>1. CASE u = t
    BY <2>1, <1>2, <1>4, <1>7
  <2>2. CASE u # t
    BY <2>2, <1>2, <1>6 DEF Relations, AnsweredIdNamesItsType, TypeOf
  <2> QED BY <2>1, <2>2
<1>9. MutexHeld'
  <2> SUFFICES ASSUME NEW u \in Threads, pc'[u] \in {"locked", "insert"}
               PROVE  FALSE
    BY DEF MutexHeld
  <2>1. u # t /\ pc'[u] = pc[u]
    BY <1>3, ReturnTypes DEF ThreadsOK
  <2>2. mutexOwner = u /\ mutexOwner = t
    BY <2>1 DEF CreateInserts, Relations, MutexHeld
  <2> QED BY <2>1, <2>2
<1>10. OnlyCreateInserts'
  BY <1>3, ReturnTypes DEF ThreadsOK, Relations, OnlyCreateInserts
<1>11. FoundIsFirst'
  <2> SUFFICES ASSUME NEW u \in Threads, answer'[u].op = "find",
                      answer'[u].id # ERROR,
                      NEW id \in Ids', poolVector'[id + 1] = answer'[u].type
               PROVE  answer'[u].id <= id
    BY DEF FoundIsFirst, PoolsOf, TypeOf
  <2>1. u # t /\ answer'[u] = answer[u]
    BY <1>4, <1>6, <1>7
  <2>2. answer[u].id \in Ids
    BY <2>1 DEF Relations, AnsweredIdNamesItsType
  <2>3. CASE id = Len(poolVector)
    BY <2>1, <2>2, <2>3, <1>2, <1>1 DEF Ids
  <2>4. CASE id \in Ids
    BY <2>1, <2>4, <1>2 DEF Relations, FoundIsFirst, PoolsOf, TypeOf
  <2> QED BY <2>3, <2>4, <1>2
<1> QED BY <1>5, <1>8, <1>9, <1>10, <1>11, RivalInserts DEF Relations

(* A search answers the first pool of its type, or ERROR.                   *)
LEMMA SearchKeeps ==
    ASSUME OPMInv, NEW t \in Threads, pc[t] = "locked",
           call[t].op \in {"find", "create"}, NEW id \in Ids \cup {ERROR},
           id \in Ids => IsFirstMatch(id, call[t].type),
           Return(t, Found(call[t].type, id)), mutexOwner' = NoThread,
           UNCHANGED <<poolVector, rivals>>
    PROVE  OPMInv'
<1> USE ManagerInvSplits, ManagerTypeSplits
<1> DEFINE value == Found(call[t].type, id)
<1>1. value \in Answers
  BY AnswersAre DEF Found, Answers, Ids
<1>2. value.op = "find" /\ value.id = id /\ value.type = call[t].type
  BY DEF Found
<1>3. Return(t, value)
  OBVIOUS
<1>4. id # ERROR => /\ id \in Ids /\ TypeOf(id) = call[t].type
                    /\ \A other \in PoolsOf(call[t].type) : id <= other
  BY DEF IsFirstMatch, Matches, PoolsOf
<1>5. mutexOwner = t
  BY DEF Relations, MutexHeld
<1> HIDE DEF value
<1> QED BY <1>1, <1>2, <1>3, <1>4, <1>5, CallReturnKeeps

(* The steps of a call.                                                     *)
LEMMA CallContinueKeeps ==
    ASSUME OPMInv, NEW t \in Threads, Continue(t)
    PROVE  OPMInv'
<1> USE ThreadsAssumption, ManagerInvSplits, ManagerTypeSplits
<1>1. CASE Acquire(t)
  <2>1. OPMTypeOK'
    BY <1>1 DEF Acquire, ThreadsOK
  <2>2. Relations'
    BY <1>1
       DEF Acquire, ThreadsOK, Relations, AnsweredIdNamesItsType, MutexHeld,
           OnlyCreateInserts, FoundIsFirst, PoolsOf, Ids, TypeOf
  <2>3. \A type \in Types : Creating(type)' = Creating(type)
    BY <1>1 DEF Acquire, ThreadsOK, Creating
  <2>4. \A type \in Types : PoolsOf(type)' = PoolsOf(type)
    BY <1>1 DEF Acquire, PoolsOf, Ids, TypeOf
  <2>5. RivalsCounted'
    BY <1>1, <2>3, <2>4 DEF RivalsCounted, Acquire
  <2> QED BY <2>1, <2>2, <2>5
<1>2. CASE FindPool(t)
  <2>1. PICK id \in Ids \cup {ERROR} :
            /\ id \in Ids => IsFirstMatch(id, call[t].type)
            /\ Return(t, Found(call[t].type, id))
    BY <1>2 DEF FindPool, Matches, PoolsOf, Ids, ERROR
  <2> QED BY <1>2, <2>1, SearchKeeps DEF FindPool
<1>3. CASE CreateFindsPool(t)
  <2>1. PICK id \in Ids : /\ IsFirstMatch(id, call[t].type)
                          /\ Return(t, Found(call[t].type, id))
    BY <1>3 DEF CreateFindsPool
  <2> QED BY <1>3, <2>1, SearchKeeps DEF CreateFindsPool
<1>4. CASE CreateFindsNone(t)
  <2>1. call[t].type \in Types
    BY <1>4, AnswersAre DEF CreateFindsNone
  <2>2. rivals' \in [Types -> Nat]
    BY <1>4, <2>1, RivalsFinite DEF CreateFindsNone, ThreadsOK, Most
  <2>3. OPMTypeOK'
    BY <1>4, <2>2 DEF CreateFindsNone, ThreadsOK
  <2>4. Relations'
    BY <1>4 DEF CreateFindsNone, ThreadsOK, Relations, AnsweredIdNamesItsType,
                MutexHeld, OnlyCreateInserts, FoundIsFirst, PoolsOf, Ids, TypeOf
  <2> QED BY <1>4, <2>3, <2>4, RivalAppears
<1>5. CASE CreateInserts(t)
  BY <1>5, InsertionKeeps
<1>6. CASE RejectId(t) \/ PoolIsNull(t)
  <2> DEFINE value == [op |-> "onPool", id |-> ERROR]
  <2>1. value \in Answers /\ value.op = "onPool"
    BY DEF Answers
  <2>2. Return(t, value)
    BY <1>6 DEF RejectId, PoolIsNull
  <2> HIDE DEF value
  <2> QED BY <1>6, <2>1, <2>2, CallReturnKeeps DEF RejectId, PoolIsNull
<1>7. CASE AcceptId(t)
  <2>1. OPMTypeOK'
    BY <1>7 DEF AcceptId, ThreadsOK
  <2>2. Relations'
    BY <1>7, AnswersAre DEF AcceptId, Rejected, ThreadsOK, Relations,
       AnsweredIdNamesItsType, MutexHeld, OnlyCreateInserts, FoundIsFirst,
       PoolsOf, Ids, TypeOf
  <2>3. RivalsCounted'
    BY <1>7, RivalsStay DEF AcceptId, ThreadsOK
  <2> QED BY <2>1, <2>2, <2>3
<1>8. CASE PoolReturns(t)
  <2> DEFINE value == [op |-> "onPool", id |-> call[t].id]
  <2>1. value \in Answers /\ value.op = "onPool"
    BY <1>8 DEF PoolReturns, Answers, Ids
  <2>2. Return(t, value)
    BY <1>8 DEF PoolReturns
  <2> HIDE DEF value
  <2> QED BY <1>8, <2>1, <2>2, CallReturnKeeps DEF PoolReturns
<1>9. CASE VisitPools(t)
  <2>1. NoCall \in Answers /\ NoCall.op = "none"
    BY DEF Answers, NoCall
  <2> QED BY <1>9, <2>1, CallReturnKeeps DEF VisitPools, Relations, MutexHeld
<1>10. CASE PoolIsNone(t)
  <2>1. OPMTypeOK'
    BY <1>10 DEF PoolIsNone, ThreadsOK
  <2>2. Relations'
    BY <1>10 DEF PoolIsNone, Relations, AnsweredIdNamesItsType, MutexHeld,
                 OnlyCreateInserts, FoundIsFirst, PoolsOf, Ids, TypeOf
  <2>3. RivalsCounted'
    BY <1>10, RivalsStay DEF PoolIsNone, ThreadsOK
  <2> QED BY <2>1, <2>2, <2>3
<1> QED
  BY <1>1, <1>2, <1>3, <1>4, <1>5, <1>6, <1>7, <1>8, <1>9, <1>10 DEF Continue

(* In every reachable state of the manager answered ids name pools of their *)
(* type, searches have answered the first pool of the type, and the calls   *)
(* between search and insertion are counted.                                *)
THEOREM ManagerInvariance == OPMSpec => []OPMInv
<1>1. OPMInit => OPMInv
  <2> SUFFICES ASSUME OPMInit PROVE OPMInv
    OBVIOUS
  <2>1. IdsNameTheirPools
    BY DEF OPMInit, IdsNameTheirPools, OPMTypeOK, AnsweredIdNamesItsType,
           MutexHeld, OnlyCreateInserts, Calls, Answers, NoCall
  <2>2. FoundIsFirst
    BY DEF OPMInit, FoundIsFirst, NoCall
  <2>3. \A type \in Types : PoolsOf(type) = {} /\ Creating(type) = {}
    BY DEF OPMInit, PoolsOf, Ids, Creating
  <2>4. RivalsCounted
    <3>1. Cardinality({}) = 0
      BY FS_EmptySet
    <3>2. \A type \in Types : rivals[type] = 0
      BY DEF OPMInit
    <3> QED BY <2>3, <3>1, <3>2 DEF RivalsCounted
  <2> QED BY <2>1, <2>2, <2>4 DEF OPMInv
<1>2. OPMInv /\ [OPMNext]_opmVars => OPMInv'
  <2> SUFFICES ASSUME OPMInv, [OPMNext]_opmVars PROVE OPMInv'
    OBVIOUS
  <2>1. CASE UNCHANGED opmVars
    <3>1. IdsNameTheirPools' /\ FoundIsFirst'
      BY <2>1 DEF opmVars, OPMInv, IdsNameTheirPools, OPMTypeOK,
         AnsweredIdNamesItsType, MutexHeld, OnlyCreateInserts, FoundIsFirst,
         PoolsOf, Ids, TypeOf
    <3>2. \A type \in Types : Creating(type)' = Creating(type)
      BY <2>1 DEF opmVars, Creating
    <3>3. \A type \in Types : PoolsOf(type)' = PoolsOf(type)
      BY <2>1 DEF opmVars, PoolsOf, Ids, TypeOf
    <3> QED BY <3>1, <3>2, <3>3, <2>1 DEF opmVars, OPMInv, RivalsCounted
  <2>2. CASE OPMNext
    BY <2>2, CallStartKeeps, CallContinueKeeps DEF OPMNext
  <2> QED BY <2>1, <2>2
<1> QED BY <1>1, <1>2, PTL DEF OPMSpec

(* Every id answered names a pool of the type asked for, and the mutex      *)
(* belongs to the thread between its acquire and its release, for any       *)
(* number of threads, types and calls (OPM::createPool, getObjectPoolID and *)
(* the operations by id).                                                   *)
THEOREM IdsAreRight == OPMSpec => []IdsNameTheirPools
<1>1. OPMInv => IdsNameTheirPools
  BY DEF OPMInv
<1> QED BY <1>1, ManagerInvariance, PTL

(* createPool's two critical sections let a type get several pools, but no  *)
(* more than there were calls at once between the two.                      *)
THEOREM PoolsAreFew == OPMSpec => []NoMorePoolsThanRivals
<1>1. OPMInv => NoMorePoolsThanRivals
  <2> SUFFICES ASSUME OPMInv, NEW type \in Types
               PROVE  Cardinality(PoolsOf(type)) <= rivals[type]
    BY DEF NoMorePoolsThanRivals
  <2>1. Cardinality(PoolsOf(type)) + Cardinality(Creating(type)) <= rivals[type]
    BY DEF OPMInv, RivalsCounted
  <2>2. rivals[type] \in Nat
    BY ManagerInvSplits, ManagerTypeSplits DEF ThreadsOK
  <2> QED BY <2>1, <2>2, RivalsFinite, ManagerInvSplits
<1> QED BY <1>1, ManagerInvariance, PTL

(* All who look a type up are told of the same pool (OPM::getObjectPoolID), *)
(* even if several threads have made a pool of the type.                    *)
THEOREM SearchesAlwaysAgree == OPMSpec => []SearchesAgree
<1>1. OPMInv => SearchesAgree
  <2> SUFFICES ASSUME OPMInv, NEW t \in Threads, NEW u \in Threads,
                      answer[t].op = "find", answer[t].id # ERROR,
                      answer[u].op = "find", answer[u].id # ERROR,
                      answer[t].type = answer[u].type
               PROVE  answer[t].id = answer[u].id
    BY DEF SearchesAgree
  <2>1. /\ answer[t].id \in PoolsOf(answer[t].type)
        /\ answer[u].id \in PoolsOf(answer[t].type)
    BY DEF OPMInv, IdsNameTheirPools, AnsweredIdNamesItsType, PoolsOf
  <2>2. answer[t].id <= answer[u].id /\ answer[u].id <= answer[t].id
    BY <2>1 DEF OPMInv, FoundIsFirst
  <2>3. answer[t].id \in Int /\ answer[u].id \in Int
    BY <2>1, ManagerInvSplits, ManagerTypeSplits DEF PoolsOf, Ids
  <2> QED BY <2>2, <2>3
<1> QED BY <1>1, ManagerInvariance, PTL
=============================================================================
