------------------------- MODULE LocalMailboxProofs -------------------------
(* Proofs about LocalMailbox for every number of producers, consumers and  *)
(* messages, every priority and every limit of the queue.                  *)
EXTENDS LocalMailbox, FiniteSetTheorems, SequenceTheorems, TLAPS

(* enqueue_prio keeps the queue a sequence of entries.                     *)
LEMMA EnqueuePrioType ==
    ASSUME NEW q \in Seq(Entries), NEW entry \in Entries
    PROVE  EnqueuePrio(q, entry) \in Seq(Entries)
<1> DEFINE ahead == {i \in DOMAIN q : q[i].priority >= entry.priority}
           place == Cardinality(ahead)
<1>1. Len(q) \in Nat /\ DOMAIN q = 1..Len(q)
  OBVIOUS
<1>2. IsFiniteSet(1..Len(q)) /\ Cardinality(1..Len(q)) = Len(q)
  BY <1>1, FS_Interval
<1>3. ahead \subseteq 1..Len(q)
  BY <1>1
<1>4. place \in Nat /\ place <= Len(q)
  BY <1>2, <1>3, FS_Subset, FS_CardinalityType
<1> HIDE DEF ahead, place
<1>5. SubSeq(q, 1, place) \in Seq(Entries)
  BY <1>1, <1>4
<1>6. SubSeq(q, place + 1, Len(q)) \in Seq(Entries)
  BY <1>1, <1>4
<1>7. <<entry>> \in Seq(Entries)
  OBVIOUS
<1>8. EnqueuePrio(q, entry)
        = SubSeq(q, 1, place) \o <<entry>> \o SubSeq(q, place + 1, Len(q))
  BY DEF EnqueuePrio, ahead, place
<1>9. QED
  BY <1>5, <1>6, <1>7, <1>8
(* Types, and the message every post carries to its end.                   *)
LEMMA TypesKept ==
    ASSUME TypeOK, PostingHasMessage, [Next]_vars
    PROVE  TypeOK' /\ PostingHasMessage'
<1> USE DEF TypeOK, PostingHasMessage, Threads, Labels, Goto,
            mailbox, owner, outcome
<1>1. CASE UNCHANGED vars
  BY <1>1 DEF vars
<1>2. ASSUME NEW p \in Producers, NEW m \in Messages, PostInactive(p, m)
      PROVE  TypeOK' /\ PostingHasMessage'
  BY <1>2 DEF PostInactive
<1>3. ASSUME NEW p \in Producers, NEW m \in Messages, PostReserve(p, m)
      PROVE  TypeOK' /\ PostingHasMessage'
  BY <1>3 DEF PostReserve, PoolIsUsed
<1>4. ASSUME NEW p \in Producers, PostEnqueue(p)
      PROVE  TypeOK' /\ PostingHasMessage'
  <2> DEFINE entry == [message |-> posting[p], priority |-> Priority[posting[p]]]
  <2>1. posting[p] \in Messages
    BY <1>4 DEF PostEnqueue
  <2>2. entry \in Entries
    BY <2>1, PriorityAssumption DEF Entries
  <2>3. queue' = EnqueuePrio(queue, entry)
    BY <1>4 DEF PostEnqueue
  <2> HIDE DEF entry
  <2>4. queue' \in Seq(Entries)
    BY <2>2, <2>3, EnqueuePrioType
  <2>5. Queued \subseteq Messages
    <3>1. \A i \in DOMAIN queue : queue[i] \in Entries
      OBVIOUS
    <3>2. QED
      BY <3>1 DEF Queued, Entries
  <2>6. QED
    BY <1>4, <2>1, <2>4, <2>5 DEF PostEnqueue
<1>5. ASSUME NEW p \in Producers, PostFails(p)
      PROVE  TypeOK' /\ PostingHasMessage'
  BY <1>5 DEF PostFails
<1>6. ASSUME NEW p \in Producers, PostSignal(p)
      PROVE  TypeOK' /\ PostingHasMessage'
  BY <1>6 DEF PostSignal
<1>7. ASSUME NEW c \in Consumers, GetMessage(c) \/ GetMessageNonBlocking(c)
      PROVE  TypeOK' /\ PostingHasMessage'
  BY <1>7, ThreadAssumption DEF GetMessage, GetMessageNonBlocking, Begin
<1>8. ASSUME NEW c \in Consumers, GetInactive(c) \/ GetActive(c) \/ GetEmpty(c) \/ GetWait(c)
      PROVE  TypeOK' /\ PostingHasMessage'
  BY <1>8, ThreadAssumption DEF GetInactive, GetActive, AfterTest, GetEmpty, GetWait, Return
<1>9. ASSUME NEW c \in Consumers, GetReset(c) \/ TryEmpty(c) \/ GetDequeueFails(c)
      PROVE  TypeOK' /\ PostingHasMessage'
  BY <1>9, ThreadAssumption DEF GetReset, TryEmpty, GetDequeueFails, Return
<1>10. ASSUME NEW c \in Consumers, GetDequeue(c)
       PROVE  TypeOK' /\ PostingHasMessage'
  <2>1. Head(queue) \in Entries /\ Tail(queue) \in Seq(Entries)
    BY <1>10 DEF GetDequeue
  <2>2. Head(queue).message \in Messages
    BY <2>1 DEF Entries
  <2>3. QED
    BY <1>10, <2>1, <2>2, ThreadAssumption DEF GetDequeue, PoolIsUsed, Return
<1>11. CASE Own
  <2>1. active' \in BOOLEAN /\ queueOpen' \in BOOLEAN /\ event' \in BOOLEAN
    BY <1>11, Zenon DEF Own, Deactivate, SetInactive, Activate, SetActive
  <2>2. /\ ownerPc' \in {"idle", "setInactive", "setActive"}
        /\ deactivations' \in Nat
        /\ overlapped' \subseteq Consumers
    BY <1>11 DEF Own, Deactivate, SetInactive, Activate, SetActive
  <2>3. UNCHANGED <<queue, outcome, getMessageMutex, wrapperPool, pc, posting, answer>>
    BY <1>11 DEF Own, Deactivate, SetInactive, Activate, SetActive
  <2>4. QED
    BY <2>1, <2>2, <2>3
<1>12. QED
  BY <1>1, <1>2, <1>3, <1>4, <1>5, <1>6, <1>7, <1>8, <1>9, <1>10, <1>11
     DEF Next, Step, Produce, Consume

(* The handle's mutex admits one reader.                                   *)
LEMMA OneReaderKept ==
    ASSUME TypeOK, OneReaderAtATime, [Next]_vars
    PROVE  OneReaderAtATime'
<1> USE ThreadAssumption DEF TypeOK, OneReaderAtATime, Threads, Goto
<1>1. CASE UNCHANGED vars
  BY <1>1 DEF vars
<1>2. ASSUME NEW p \in Producers,
             \/ Produce(p)
             \/ \E m \in Messages : PostInactive(p, m) \/ PostReserve(p, m)
      PROVE  OneReaderAtATime'
  <2>1. /\ getMessageMutex' = getMessageMutex
        /\ \A c \in Consumers : pc'[c] = pc[c]
    BY <1>2 DEF Produce, PostInactive, PostReserve, PostEnqueue, PostFails, PostSignal
  <2>2. QED
    BY <2>1
<1>3. ASSUME NEW c \in Consumers, Consume(c) \/ GetMessage(c) \/ GetMessageNonBlocking(c)
      PROVE  OneReaderAtATime'
  <2>1. CASE GetMessage(c) \/ GetMessageNonBlocking(c)
    BY <2>1 DEF GetMessage, GetMessageNonBlocking, Begin
  <2>2. CASE GetInactive(c) \/ GetActive(c) \/ GetEmpty(c) \/ GetWait(c)
    BY <2>2 DEF GetInactive, GetActive, AfterTest, GetEmpty, GetWait, Return
  <2>3. CASE GetReset(c) \/ TryEmpty(c) \/ GetDequeue(c) \/ GetDequeueFails(c)
    BY <2>3 DEF GetReset, TryEmpty, GetDequeue, GetDequeueFails, Return
  <2>4. QED
    BY <1>3, <2>1, <2>2, <2>3 DEF Consume
<1>4. CASE Own
  BY <1>4 DEF Own, Deactivate, SetInactive, Activate, SetActive
<1>5. QED
  BY <1>1, <1>2, <1>3, <1>4 DEF Next, Step

(* A reader whose call meets an inactive mailbox knows of it.              *)
LEMMA InactivityKept ==
    ASSUME TypeOK, InactivityIsSeen, NullOnlyIfDeactivated, [Next]_vars
    PROVE  InactivityIsSeen' /\ NullOnlyIfDeactivated'
<1> USE ThreadAssumption
    DEF TypeOK, InactivityIsSeen, NullOnlyIfDeactivated, Threads, Goto,
        mailbox, owner
<1>1. CASE UNCHANGED vars
  BY <1>1 DEF vars
<1>2. ASSUME NEW p \in Producers,
             \/ Produce(p)
             \/ \E m \in Messages : PostInactive(p, m) \/ PostReserve(p, m)
      PROVE  InactivityIsSeen' /\ NullOnlyIfDeactivated'
  <2>1. /\ UNCHANGED <<active, queueOpen, ownerPc, answer, overlapped>>
        /\ \A c \in Consumers : pc'[c] = pc[c]
    BY <1>2 DEF Produce, PostInactive, PostReserve, PostEnqueue, PostFails, PostSignal
  <2>2. QED
    BY <2>1
<1>3. ASSUME NEW c \in Consumers, Consume(c) \/ GetMessage(c) \/ GetMessageNonBlocking(c)
      PROVE  InactivityIsSeen' /\ NullOnlyIfDeactivated'
  <2>1. CASE GetMessage(c) \/ GetMessageNonBlocking(c)
    BY <2>1 DEF GetMessage, GetMessageNonBlocking, Begin
  <2>2. CASE GetActive(c) \/ GetEmpty(c) \/ GetWait(c) \/ GetReset(c)
    BY <2>2 DEF GetActive, AfterTest, GetEmpty, GetWait, GetReset
  <2>3. CASE GetInactive(c) \/ GetDequeueFails(c)
    BY <2>3 DEF GetInactive, AfterTest, GetDequeueFails, Return
  <2>4. CASE TryEmpty(c) \/ GetDequeue(c)
    BY <2>4 DEF TryEmpty, GetDequeue, Return
  <2>5. QED
    BY <1>3, <2>1, <2>2, <2>3, <2>4 DEF Consume
<1>4. CASE Own
  BY <1>4 DEF Own, Deactivate, SetInactive, Activate, SetActive
<1>5. QED
  BY <1>1, <1>2, <1>3, <1>4 DEF Next, Step

(* No signal is lost between a reader's wait, its reset and its test of    *)
(* the queue.                                                              *)
LEMMA WakeupKept ==
    ASSUME TypeOK, OneReaderAtATime, NoLostWakeup, [Next]_vars
    PROVE  NoLostWakeup'
<1> USE ThreadAssumption DEF TypeOK, NoLostWakeup, Threads, Goto, mailbox
<1>1. CASE UNCHANGED vars
  BY <1>1 DEF vars
<1>2. ASSUME NEW p \in Producers, NEW m \in Messages,
             PostInactive(p, m) \/ PostReserve(p, m)
      PROVE  NoLostWakeup'
  BY <1>2 DEF PostInactive, PostReserve
<1>3. ASSUME NEW p \in Producers, PostEnqueue(p)
      PROVE  NoLostWakeup'
  <2>1. pc'[p] = "signal"
    BY <1>3 DEF PostEnqueue
  <2>2. QED
    BY <2>1
<1>4. ASSUME NEW p \in Producers, PostFails(p)
      PROVE  NoLostWakeup'
  BY <1>4 DEF PostFails
<1>5. ASSUME NEW p \in Producers, PostSignal(p)
      PROVE  NoLostWakeup'
  <2>1. event' = TRUE
    BY <1>5 DEF PostSignal
  <2>2. QED
    BY <2>1
<1>6. ASSUME NEW c \in Consumers, GetMessage(c) \/ GetMessageNonBlocking(c)
      PROVE  NoLostWakeup'
  BY <1>6 DEF GetMessage, GetMessageNonBlocking, Begin
<1>7. ASSUME NEW c \in Consumers,
             GetInactive(c) \/ GetActive(c) \/ GetWait(c) \/ TryEmpty(c) \/ GetDequeueFails(c)
      PROVE  NoLostWakeup'
  BY <1>7 DEF GetInactive, GetActive, AfterTest, GetWait, TryEmpty, GetDequeueFails, Return
<1>8. ASSUME NEW c \in Consumers, GetEmpty(c)
      PROVE  NoLostWakeup'
  BY <1>8 DEF GetEmpty
<1>9. ASSUME NEW c \in Consumers, GetReset(c) \/ GetDequeue(c)
      PROVE  NoLostWakeup'
  <2>1. pc[c] # "idle" /\ pc'[c] # "wait"
    BY <1>9 DEF GetReset, GetDequeue, Return
  <2>2. \A d \in Consumers : d # c => pc[d] = "idle" /\ pc'[d] = pc[d]
    BY <1>9, <2>1 DEF GetReset, GetDequeue, Return, OneReaderAtATime
  <2>3. QED
    BY <2>1, <2>2
<1>10. CASE Own
  BY <1>10 DEF Own, Deactivate, SetInactive, Activate, SetActive
<1>11. QED
  BY <1>1, <1>2, <1>3, <1>4, <1>5, <1>6, <1>7, <1>8, <1>9, <1>10
     DEF Next, Step, Produce, Consume

-----------------------------------------------------------------------------
(* The sequence q with an entry inserted behind its first so many.          *)
Inserted(q, place, entry) ==
    SubSeq(q, 1, place) \o <<entry>> \o SubSeq(q, place + 1, Len(q))

(* In a queue in the order of priorities, enqueue_prio finds the place      *)
(* behind the entries of at least the new one's priority.                   *)
LEMMA EnqueuePrioPlace ==
    ASSUME NEW q \in Seq(Entries), NEW entry \in Entries,
           \A i, j \in DOMAIN q : i < j => q[i].priority >= q[j].priority
    PROVE  \E place \in 0..Len(q) :
              /\ EnqueuePrio(q, entry) = Inserted(q, place, entry)
              /\ \A i \in 1..place : q[i].priority >= entry.priority
              /\ \A i \in (place + 1)..Len(q) : q[i].priority < entry.priority
<1> DEFINE ahead == {i \in DOMAIN q : q[i].priority >= entry.priority}
           place == Cardinality(ahead)
<1>1. Len(q) \in Nat /\ DOMAIN q = 1..Len(q)
  OBVIOUS
<1>2. entry.priority \in Nat /\ \A i \in 1..Len(q) : q[i].priority \in Nat
  <2>1. \A i \in 1..Len(q) : q[i] \in Entries
    BY ElementOfSeq
  <2> QED BY <2>1 DEF Entries
<1>3. IsFiniteSet(ahead) /\ place \in 0..Len(q)
  <2>1. IsFiniteSet(1..Len(q)) /\ Cardinality(1..Len(q)) = Len(q)
    BY <1>1, FS_Interval
  <2>2. ahead \in SUBSET (1..Len(q))
    BY <1>1
  <2> QED BY <1>1, <2>1, <2>2, FS_Subset, FS_CardinalityType
<1>4. ASSUME NEW i \in 1..Len(q), i \in ahead PROVE i <= place
  <2>1. ASSUME NEW j \in 1..i PROVE j \in ahead
    <3>1. j \in 1..Len(q) /\ (j < i \/ j = i) /\ q[i].priority >= entry.priority
      BY <1>1, <1>4
    <3>2. q[j].priority >= q[i].priority
      BY <1>1, <1>2, <3>1
    <3>3. q[j].priority >= entry.priority
      BY <1>2, <3>1, <3>2
    <3> QED BY <1>1, <3>1, <3>3
  <2>2. IsFiniteSet(1..i) /\ Cardinality(1..i) = i
    BY FS_Interval
  <2> QED BY <1>3, <2>1, <2>2, FS_Subset
<1>5. ASSUME NEW i \in 1..Len(q), i \notin ahead PROVE place < i
  <2>1. ASSUME NEW j \in ahead PROVE j \in 1..(i - 1)
    <3>1. j \in 1..Len(q) /\ q[j].priority >= entry.priority
      BY <1>1, <2>1
    <3>2. ~(q[i].priority >= entry.priority)
      BY <1>1, <1>5
    <3>3. ~(i < j) /\ i # j
      BY <1>1, <1>2, <3>1, <3>2
    <3> QED BY <1>1, <3>1, <3>3
  <2>2. IsFiniteSet(1..(i - 1)) /\ Cardinality(1..(i - 1)) = i - 1
    BY FS_Interval
  <2> QED BY <1>3, <2>1, <2>2, FS_Subset
<1>6. EnqueuePrio(q, entry) = Inserted(q, place, entry)
  BY DEF EnqueuePrio, Inserted
<1>7. \A i \in 1..Len(q) : i \in ahead <=> q[i].priority >= entry.priority
  BY <1>1
<1> HIDE DEF ahead, place
<1>8. /\ \A i \in 1..place : q[i].priority >= entry.priority
      /\ \A i \in (place + 1)..Len(q) : q[i].priority < entry.priority
  BY <1>2, <1>3, <1>4, <1>5, <1>7
<1> QED BY <1>3, <1>6, <1>8

(* What is where in such a sequence.                                       *)
LEMMA InsertedAt ==
    ASSUME NEW q \in Seq(Entries), NEW entry \in Entries, NEW place \in 0..Len(q)
    PROVE  /\ Inserted(q, place, entry) \in Seq(Entries)
           /\ Len(Inserted(q, place, entry)) = Len(q) + 1
           /\ Inserted(q, place, entry)[place + 1] = entry
           /\ \A i \in 1..place : Inserted(q, place, entry)[i] = q[i]
           /\ \A i \in (place + 2)..(Len(q) + 1) :
                 Inserted(q, place, entry)[i] = q[i - 1]
<1> DEFINE r == Inserted(q, place, entry)
<1>1. Len(q) \in Nat /\ place \in Nat
  OBVIOUS
<1>2. /\ SubSeq(q, 1, place) \in Seq(Entries)
      /\ Len(SubSeq(q, 1, place)) = place
      /\ \A i \in 1..place : SubSeq(q, 1, place)[i] = q[i]
  BY <1>1
<1>3. /\ SubSeq(q, place + 1, Len(q)) \in Seq(Entries)
      /\ Len(SubSeq(q, place + 1, Len(q))) = Len(q) - place
      /\ \A i \in 1..(Len(q) - place) : SubSeq(q, place + 1, Len(q))[i] = q[place + i]
  BY <1>1
<1> DEFINE front == SubSeq(q, 1, place)
           back == SubSeq(q, place + 1, Len(q))
<1>4. <<entry>> \in Seq(Entries) /\ Len(<<entry>>) = 1 /\ <<entry>>[1] = entry
  OBVIOUS
<1> HIDE DEF front, back, r
<1>5. /\ front \o <<entry>> \in Seq(Entries)
      /\ Len(front \o <<entry>>) = place + 1
      /\ \A i \in 1..place : (front \o <<entry>>)[i] = q[i]
      /\ (front \o <<entry>>)[place + 1] = entry
  <2>1. /\ front \in Seq(Entries) /\ Len(front) = place
        /\ \A i \in 1..place : front[i] = q[i]
    BY <1>2 DEF front
  <2>2. /\ front \o <<entry>> \in Seq(Entries)
        /\ Len(front \o <<entry>>) = Len(front) + Len(<<entry>>)
        /\ \A i \in 1..(Len(front) + Len(<<entry>>)) :
              (front \o <<entry>>)[i]
                 = IF i <= Len(front) THEN front[i] ELSE <<entry>>[i - Len(front)]
    BY <1>4, <2>1, ConcatProperties
  <2>3. (front \o <<entry>>)[place + 1] = entry
    <3>1. place + 1 \in 1..(place + 1) /\ ~(place + 1 <= place) /\ (place + 1) - place = 1
      BY <1>1
    <3> QED BY <1>4, <2>1, <2>2, <3>1
  <2>4. \A i \in 1..place : i \in 1..(place + 1) /\ i <= place
    BY <1>1
  <2>5. \A i \in 1..place : (front \o <<entry>>)[i] = q[i]
    BY <1>4, <2>1, <2>2, <2>4
  <2> QED BY <1>1, <1>4, <2>1, <2>2, <2>3, <2>5
<1>6. /\ back \in Seq(Entries) /\ Len(back) = Len(q) - place
      /\ \A i \in 1..(Len(q) - place) : back[i] = q[place + i]
  BY <1>3 DEF back
<1> DEFINE first == front \o <<entry>>
<1> HIDE DEF first
<1>7. /\ first \in Seq(Entries) /\ Len(first) = place + 1
      /\ \A i \in 1..place : first[i] = q[i]
      /\ first[place + 1] = entry
  BY <1>5 DEF first
<1>8. r = first \o back
  BY DEF r, Inserted, first, front, back
<1>9. /\ first \o back \in Seq(Entries)
      /\ Len(first \o back) = Len(first) + Len(back)
      /\ \A i \in 1..(Len(first) + Len(back)) :
            (first \o back)[i] = IF i <= Len(first) THEN first[i] ELSE back[i - Len(first)]
  BY <1>6, <1>7, ConcatProperties
<1>10. /\ r \in Seq(Entries) /\ Len(r) = Len(q) + 1
       /\ \A i \in 1..(Len(q) + 1) :
             r[i] = IF i <= place + 1 THEN first[i] ELSE back[i - (place + 1)]
  <2>1. Len(first) + Len(back) = Len(q) + 1 /\ Len(first) = place + 1
    BY <1>1, <1>6, <1>7
  <2> QED BY <2>1, <1>8, <1>9
<1>11. \A i \in (place + 2)..(Len(q) + 1) :
          i - (place + 1) \in 1..(Len(q) - place) /\ place + (i - (place + 1)) = i - 1
  BY <1>1
<1>12. \A i \in (place + 2)..(Len(q) + 1) : r[i] = q[i - 1]
  <2> SUFFICES ASSUME NEW i \in (place + 2)..(Len(q) + 1) PROVE r[i] = q[i - 1]
    OBVIOUS
  <2>1. i \in 1..(Len(q) + 1) /\ ~(i <= place + 1)
    BY <1>1
  <2>2. r[i] = back[i - (place + 1)]
    BY <2>1, <1>10
  <2>3. back[i - (place + 1)] = q[place + (i - (place + 1))]
    BY <1>6, <1>11
  <2> QED BY <2>2, <2>3, <1>11
<1>13. \A i \in 1..place : r[i] = q[i]
  <2> SUFFICES ASSUME NEW i \in 1..place PROVE r[i] = q[i]
    OBVIOUS
  <2>1. i \in 1..(Len(q) + 1) /\ i <= place + 1
    BY <1>1
  <2>2. r[i] = first[i]
    BY <2>1, <1>10
  <2> QED BY <2>2, <1>7
<1>14. r[place + 1] = entry
  <2>1. place + 1 \in 1..(Len(q) + 1) /\ place + 1 <= place + 1
    BY <1>1
  <2>2. r[place + 1] = first[place + 1]
    BY <2>1, <1>10
  <2> QED BY <2>2, <1>7
<1> QED BY <1>10, <1>12, <1>13, <1>14 DEF r

(* What a post enqueues is found behind all that is as urgent.             *)
LEMMA EnqueueDelivers ==
    ASSUME TypeOK, PostingHasMessage, Delivering,
           NEW p \in Producers, PostEnqueue(p)
    PROVE  /\ Delivering'
           /\ Queued' = Queued \cup {posting[p]}
<1> DEFINE m == posting[p]
           entry == [message |-> m, priority |-> Priority[m]]
<1>1. /\ m \in Messages /\ entry \in Entries
      /\ pc[p] = "enqueue" /\ pc' = [pc EXCEPT ![p] = "signal"]
      /\ queue' = EnqueuePrio(queue, entry)
      /\ enqueuedBefore' = enqueuedBefore \cup (Queued \X {m})
      /\ UNCHANGED <<accepted, refused, delivered, posting>>
  BY PriorityAssumption DEF PostEnqueue, PostingHasMessage, Entries, Goto
<1>2. queue \in Seq(Entries) /\ Len(queue) \in Nat /\ DOMAIN queue = 1..Len(queue)
  BY DEF TypeOK
<1>3. \A i \in DOMAIN queue :
         /\ queue[i].message \in Messages
         /\ queue[i].priority = Priority[queue[i].message]
         /\ queue[i].priority \in Nat
         /\ queue[i].message \in Queued
  <2>1. \A i \in DOMAIN queue : queue[i] \in Entries
    BY <1>2, ElementOfSeq
  <2> QED BY <2>1 DEF Entries, Delivering, EntriesAreTrue, Queued
<1>4. \A i, j \in DOMAIN queue : i < j => queue[i].priority >= queue[j].priority
  <2> SUFFICES ASSUME NEW i \in DOMAIN queue, NEW j \in DOMAIN queue, i < j
               PROVE  queue[i].priority >= queue[j].priority
    OBVIOUS
  <2>1. \/ Priority[queue[i].message] > Priority[queue[j].message]
        \/ Priority[queue[i].message] = Priority[queue[j].message]
    BY DEF Delivering, DeliveryOrder
  <2> QED BY <2>1, <1>3
<1>5. PICK place \in 0..Len(queue) :
         /\ queue' = Inserted(queue, place, entry)
         /\ \A i \in 1..place : queue[i].priority >= entry.priority
         /\ \A i \in (place + 1)..Len(queue) : queue[i].priority < entry.priority
  <2> HIDE DEF entry
  <2> QED BY <1>1, <1>2, <1>4, EnqueuePrioPlace
<1>6. /\ queue' \in Seq(Entries) /\ Len(queue') = Len(queue) + 1
      /\ queue'[place + 1] = entry
      /\ \A i \in 1..place : queue'[i] = queue[i]
      /\ \A i \in (place + 2)..(Len(queue) + 1) : queue'[i] = queue[i - 1]
  <2>1. entry \in Entries /\ queue \in Seq(Entries) /\ place \in 0..Len(queue)
    BY <1>1, <1>2
  <2>2. queue' = Inserted(queue, place, entry)
    BY <1>5
  <2> HIDE DEF entry
  <2> QED BY <2>1, <2>2, InsertedAt
<1>7. DOMAIN queue' = 1..(Len(queue) + 1) /\ place \in Nat
  BY <1>2, <1>6
<1>8. entry.message = m /\ entry.priority = Priority[m] /\ Priority[m] \in Nat
  BY <1>1, PriorityAssumption
<1> HIDE DEF entry, m
<1>9. ASSUME NEW i \in DOMAIN queue'
      PROVE  \/ i <= place /\ i \in DOMAIN queue /\ queue'[i] = queue[i]
             \/ i = place + 1 /\ queue'[i] = entry
             \/ i > place + 1 /\ i - 1 \in DOMAIN queue /\ queue'[i] = queue[i - 1]
  BY <1>2, <1>6, <1>7
<1>10. Queued' = Queued \cup {m}
  <2>1. \A i \in DOMAIN queue' : queue'[i].message \in Queued \cup {m}
    BY <1>8, <1>9, <1>3
  <2>2. ASSUME NEW i \in DOMAIN queue
        PROVE  \E j \in DOMAIN queue' : queue'[j].message = queue[i].message
    <3>1. CASE i <= place
      <4>1. i \in 1..place /\ i \in DOMAIN queue'
        BY <1>2, <1>7, <3>1
      <4> QED BY <4>1, <1>6
    <3>2. CASE i > place
      <4>1. i + 1 \in (place + 2)..(Len(queue) + 1) /\ i + 1 \in DOMAIN queue' /\ (i + 1) - 1 = i
        BY <1>2, <1>6, <1>7, <3>2
      <4> QED BY <4>1, <1>6
    <3> QED BY <3>1, <3>2, <1>2, <1>7
  <2>3. place + 1 \in DOMAIN queue' /\ queue'[place + 1].message = m
    BY <1>2, <1>6, <1>7, <1>8
  <2> QED BY <2>1, <2>2, <2>3 DEF Queued
<1>11. m \notin Queued \cup delivered /\ m \notin accepted \cup refused
  BY <1>1 DEF Delivering, PostsAreSeparate, m
<1>12. DeliveryOrder'
  <2> SUFFICES ASSUME NEW i \in DOMAIN queue', NEW j \in DOMAIN queue', i < j
               PROVE  \/ Priority[queue'[i].message] > Priority[queue'[j].message]
                      \/ /\ Priority[queue'[i].message] = Priority[queue'[j].message]
                         /\ <<queue'[i].message, queue'[j].message>> \in enqueuedBefore'
    BY DEF DeliveryOrder
  <2>1. i \in Int /\ j \in Int
    BY <1>7
  <2>2. ASSUME NEW k \in DOMAIN queue, NEW l \in DOMAIN queue, k < l,
               queue'[i] = queue[k], queue'[j] = queue[l]
        PROVE  \/ Priority[queue'[i].message] > Priority[queue'[j].message]
               \/ /\ Priority[queue'[i].message] = Priority[queue'[j].message]
                  /\ <<queue'[i].message, queue'[j].message>> \in enqueuedBefore'
    BY <2>2, <1>1 DEF Delivering, DeliveryOrder
  <2>3. CASE i <= place /\ i \in DOMAIN queue /\ queue'[i] = queue[i]
    <3>1. CASE j <= place /\ j \in DOMAIN queue /\ queue'[j] = queue[j]
      BY <2>2, <2>3, <3>1
    <3>2. CASE j = place + 1 /\ queue'[j] = entry
      <4>1. Priority[queue[i].message] >= Priority[m]
        <5>1. i \in 1..place
          BY <1>7, <2>1, <2>3, <1>2
        <5> QED BY <5>1, <1>3, <1>5, <1>8, <2>3
      <4>2. <<queue[i].message, m>> \in enqueuedBefore'
        BY <1>1, <1>3, <2>3
      <4>3. Priority[queue[i].message] \in Nat
        BY <1>3, <2>3
      <4> QED BY <4>1, <4>2, <4>3, <3>2, <2>3, <1>8
    <3>3. CASE j > place + 1 /\ j - 1 \in DOMAIN queue /\ queue'[j] = queue[j - 1]
      <4>1. i < j - 1
        BY <2>1, <2>3, <3>3, <1>7
      <4> QED BY <4>1, <2>2, <2>3, <3>3
    <3> QED BY <3>1, <3>2, <3>3, <1>9
  <2>4. CASE i = place + 1 /\ queue'[i] = entry
    <3>1. j > place + 1 /\ j - 1 \in DOMAIN queue /\ queue'[j] = queue[j - 1]
      BY <1>7, <1>9, <2>1, <2>4
    <3>2. j - 1 \in (place + 1)..Len(queue)
      BY <1>2, <1>7, <2>1, <3>1
    <3>3. Priority[queue[j - 1].message] < Priority[m]
      BY <3>1, <3>2, <1>3, <1>5, <1>8
    <3>4. Priority[queue[j - 1].message] \in Nat
      BY <1>3, <3>1
    <3> QED BY <3>1, <3>3, <3>4, <2>4, <1>8
  <2>5. CASE i > place + 1 /\ i - 1 \in DOMAIN queue /\ queue'[i] = queue[i - 1]
    <3>1. j > place + 1 /\ j - 1 \in DOMAIN queue /\ queue'[j] = queue[j - 1]
      BY <1>7, <1>9, <2>1, <2>5
    <3>2. i - 1 < j - 1
      BY <2>1
    <3> QED BY <2>2, <2>5, <3>1, <3>2
  <2> QED BY <2>3, <2>4, <2>5, <1>9
<1>13. AnswersAreTrue'
  <2>1. /\ accepted' \subseteq Queued' \cup delivered'
        /\ refused' \cap (Queued' \cup delivered') = {}
        /\ Queued' \cap delivered' = {}
    BY <1>1, <1>10, <1>11 DEF Delivering, AnswersAreTrue
  <2>2. ASSUME NEW i \in DOMAIN queue', NEW j \in DOMAIN queue', i # j
        PROVE  queue'[i].message # queue'[j].message
    <3>1. i \in Int /\ j \in Int
      BY <1>7
    <3>2. \A k, l \in DOMAIN queue : k # l => queue[k].message # queue[l].message
      BY DEF Delivering, AnswersAreTrue
    <3>3. \A k \in DOMAIN queue : queue[k].message # entry.message
      BY <1>3, <1>8, <1>11
    <3>4. CASE i = place + 1 \/ j = place + 1
      BY <3>3, <3>4, <2>2, <1>9, <1>6
    <3>5. CASE i # place + 1 /\ j # place + 1
      <4>1. PICK k \in DOMAIN queue :
               /\ queue'[i] = queue[k]
               /\ \/ k = i /\ i <= place
                  \/ k = i - 1 /\ i > place + 1
        BY <3>5, <1>9
      <4>2. PICK l \in DOMAIN queue :
               /\ queue'[j] = queue[l]
               /\ \/ l = j /\ j <= place
                  \/ l = j - 1 /\ j > place + 1
        BY <3>5, <1>9
      <4>3. k # l
        BY <4>1, <4>2, <3>1, <2>2, <1>7
      <4> QED BY <4>1, <4>2, <4>3, <3>2
    <3> QED BY <3>4, <3>5
  <2> QED BY <2>1, <2>2 DEF AnswersAreTrue
<1>14. EntriesAreTrue'
  <2>1. \A i \in DOMAIN queue' : queue'[i].priority = Priority[queue'[i].message]
    BY <1>3, <1>8, <1>9
  <2>2. pc'[p] = "signal" /\ posting'[p] = m
    BY <1>1 DEF TypeOK, Threads, m
  <2>3. ASSUME NEW n \in Queued' \cup delivered'
        PROVE  n \in accepted' \/ \E r \in Producers : pc'[r] = "signal" /\ posting'[r] = n
    <3>1. CASE n = m
      BY <2>2, <3>1
    <3>2. CASE n \in Queued \cup delivered
      <4>1. n \in accepted \/ \E r \in Producers : pc[r] = "signal" /\ posting[r] = n
        BY <3>2 DEF Delivering, EntriesAreTrue
      <4>2. \A r \in Producers : pc[r] = "signal" => pc'[r] = "signal"
        BY <1>1 DEF TypeOK, Threads
      <4> QED BY <4>1, <4>2, <1>1
    <3> QED BY <3>1, <3>2, <1>1, <1>10
  <2> QED BY <2>1, <2>3 DEF EntriesAreTrue
<1>15. PostsAreSeparate'
  <2>1. pc'[p] = "signal" /\ \A r \in Producers \ {p} : pc'[r] = pc[r]
    BY <1>1 DEF TypeOK, Threads
  <2>2. \A r \in Producers \ {p} : posting[r] # None => posting[r] # m
    BY DEF Delivering, PostsAreSeparate, m
  <2>3. m # None
    BY <1>1, ThreadAssumption DEF m
  <2>4. SUFFICES ASSUME NEW r \in Producers
        PROVE  /\ pc'[r] \in {"enqueue", "signal"} => posting[r] \notin accepted \cup refused
               /\ pc'[r] = "enqueue" => posting[r] \notin Queued \cup {m} \cup delivered
               /\ pc'[r] = "signal" => posting[r] \in Queued \cup {m} \cup delivered
               /\ pc'[r] \notin {"enqueue", "signal"} => posting[r] = None
               /\ \A other \in Producers \ {r} :
                     posting[r] # None => posting[r] # posting[other]
    BY <1>1, <1>10 DEF PostsAreSeparate
  <2>5. CASE r = p
    BY <2>1, <2>5, <1>11 DEF Delivering, PostsAreSeparate, m
  <2>6. CASE r # p
    <3>1. pc[r] = "enqueue" => posting[r] # None
      BY ThreadAssumption DEF PostingHasMessage
    <3> QED BY <2>1, <2>2, <2>6, <3>1 DEF Delivering, PostsAreSeparate
  <2> QED BY <2>5, <2>6
<1> QED BY <1>10, <1>12, <1>13, <1>14, <1>15 DEF Delivering, m

(* What a reader dequeues is next: the oldest of the most urgent.          *)
LEMMA DequeueDelivers ==
    ASSUME TypeOK, Delivering, NEW c \in Consumers, GetDequeue(c)
    PROVE  /\ Delivering'
           /\ Head(queue).message \in Queued
           /\ Queued' = Queued \ {Head(queue).message}
           /\ Promise!IsNext(Head(queue).message)
<1> DEFINE m == Head(queue).message
<1>1. /\ queue # <<>> /\ queue' = Tail(queue)
      /\ delivered' = delivered \cup {m}
      /\ enqueuedBefore' = {pair \in enqueuedBefore : pair[1] # m}
      /\ UNCHANGED <<accepted, refused, posting>>
  BY DEF GetDequeue
<1>2. \A p \in Producers : pc'[p] = pc[p]
  BY ThreadAssumption DEF GetDequeue, PoolIsUsed, Return, Goto, TypeOK, Threads
<1>3. queue \in Seq(Entries) /\ Len(queue) \in Nat /\ DOMAIN queue = 1..Len(queue)
  BY DEF TypeOK
<1>4. /\ 1 \in DOMAIN queue /\ m = queue[1].message
      /\ DOMAIN queue' = 1..(Len(queue) - 1)
      /\ \A i \in DOMAIN queue' : i + 1 \in DOMAIN queue /\ queue'[i] = queue[i + 1]
  BY <1>1, <1>3, HeadTailProperties
<1> HIDE DEF m
<1>5. \A i, j \in DOMAIN queue : i # j => queue[i].message # queue[j].message
  BY DEF Delivering, AnswersAreTrue
<1>6. m \in Queued /\ m \notin delivered
  BY <1>4 DEF Queued, Delivering, AnswersAreTrue
<1>7. Queued' = Queued \ {m}
  <2>1. \A i \in DOMAIN queue' : queue'[i].message \in Queued /\ queue'[i].message # m
    <3> SUFFICES ASSUME NEW i \in DOMAIN queue'
                 PROVE  queue'[i].message \in Queued /\ queue'[i].message # m
      OBVIOUS
    <3>1. i + 1 # 1
      BY <1>4
    <3> QED BY <3>1, <1>4, <1>5 DEF Queued
  <2>2. ASSUME NEW n \in Queued, n # m PROVE n \in Queued'
    <3>1. PICK i \in DOMAIN queue : queue[i].message = n
      BY DEF Queued
    <3>2. i # 1
      BY <3>1, <2>2, <1>4
    <3>3. i - 1 \in DOMAIN queue' /\ (i - 1) + 1 = i
      BY <3>2, <1>3, <1>4
    <3> QED BY <3>1, <3>3, <1>4 DEF Queued
  <2> QED BY <2>1, <2>2 DEF Queued
<1>8. Promise!IsNext(m)
  <2> SUFFICES ASSUME NEW n \in Queued \ {m}
               PROVE  \/ Priority[m] > Priority[n]
                      \/ Priority[m] = Priority[n] /\ <<m, n>> \in enqueuedBefore
    BY DEF Promise!IsNext
  <2>1. PICK i \in DOMAIN queue : queue[i].message = n
    BY DEF Queued
  <2>2. i # 1
    BY <2>1, <1>4
  <2>3. 1 < i
    BY <2>2, <1>3
  <2> QED BY <2>1, <2>3, <1>4 DEF Delivering, DeliveryOrder
<1>9. DeliveryOrder'
  <2> SUFFICES ASSUME NEW i \in DOMAIN queue', NEW j \in DOMAIN queue', i < j
               PROVE  \/ Priority[queue'[i].message] > Priority[queue'[j].message]
                      \/ /\ Priority[queue'[i].message] = Priority[queue'[j].message]
                         /\ <<queue'[i].message, queue'[j].message>> \in enqueuedBefore'
    BY DEF DeliveryOrder
  <2>1. i + 1 < j + 1 /\ i + 1 # 1
    BY <1>4
  <2>2. queue'[i].message # m
    BY <2>1, <1>4, <1>5
  <2> QED BY <2>1, <2>2, <1>1, <1>4 DEF Delivering, DeliveryOrder
<1>10. AnswersAreTrue'
  <2>1. /\ accepted' \subseteq Queued' \cup delivered'
        /\ refused' \cap (Queued' \cup delivered') = {}
        /\ Queued' \cap delivered' = {}
    BY <1>1, <1>6, <1>7 DEF Delivering, AnswersAreTrue
  <2>2. ASSUME NEW i \in DOMAIN queue', NEW j \in DOMAIN queue', i # j
        PROVE  queue'[i].message # queue'[j].message
    <3>1. i + 1 # j + 1
      BY <2>2, <1>4
    <3> QED BY <3>1, <1>4, <1>5
  <2> QED BY <2>1, <2>2 DEF AnswersAreTrue
<1>11. EntriesAreTrue'
  BY <1>1, <1>2, <1>4, <1>6, <1>7 DEF Delivering, EntriesAreTrue
<1>12. PostsAreSeparate'
  BY <1>1, <1>2, <1>6, <1>7 DEF Delivering, PostsAreSeparate
<1> QED BY <1>6, <1>7, <1>8, <1>9, <1>10, <1>11, <1>12 DEF Delivering, m

(* Steps that leave the queue and its history alone.                       *)
LEMMA DeliveryUntouched ==
    ASSUME UNCHANGED <<queue, enqueuedBefore, delivered>>,
           DeliveryOrder,
           \A i, j \in DOMAIN queue : i # j => queue[i].message # queue[j].message
    PROVE  /\ DeliveryOrder'
           /\ Queued' = Queued
           /\ (\A i, j \in DOMAIN queue : i # j => queue[i].message # queue[j].message)'
  BY DEF DeliveryOrder, Queued

(* A post that is refused at once is of a message nobody has seen.         *)
LEMMA InactiveDelivers ==
    ASSUME Delivering, NEW p \in Producers, NEW m \in Messages, PostInactive(p, m)
    PROVE  /\ Delivering' /\ Queued' = Queued
           /\ m \notin accepted \cup refused \cup Queued \cup delivered
<1>1. /\ m \notin accepted \cup refused /\ \A r \in Producers : posting[r] # m
      /\ refused' = refused \cup {m}
      /\ UNCHANGED <<queue, enqueuedBefore, delivered, accepted, pc, posting>>
  BY DEF PostInactive, Unposted, mailbox
<1>2. m \notin Queued \cup delivered
  BY <1>1 DEF Delivering, EntriesAreTrue
<1>3. /\ DeliveryOrder' /\ Queued' = Queued
      /\ (\A i, j \in DOMAIN queue : i # j => queue[i].message # queue[j].message)'
  BY <1>1, DeliveryUntouched DEF Delivering, AnswersAreTrue
<1>4. AnswersAreTrue'
  BY <1>1, <1>2, <1>3 DEF Delivering, AnswersAreTrue
<1>5. EntriesAreTrue'
  BY <1>1, <1>3 DEF Delivering, EntriesAreTrue
<1>6. PostsAreSeparate'
  BY <1>1, <1>3 DEF Delivering, PostsAreSeparate
<1> QED BY <1>1, <1>2, <1>3, <1>4, <1>5, <1>6 DEF Delivering

(* A producer begins to post a message nobody has seen.                    *)
LEMMA ReserveDelivers ==
    ASSUME TypeOK, Delivering, NEW p \in Producers, NEW m \in Messages, PostReserve(p, m)
    PROVE  Delivering' /\ Queued' = Queued
<1>1. /\ m \notin accepted \cup refused /\ \A r \in Producers : posting[r] # m
      /\ UNCHANGED <<queue, enqueuedBefore, delivered, accepted, refused>>
      /\ pc[p] = "idle" /\ pc'[p] = "enqueue" /\ posting'[p] = m
      /\ \A r \in Producers \ {p} : pc'[r] = pc[r] /\ posting'[r] = posting[r]
  BY DEF PostReserve, Unposted, mailbox, outcome, Goto, TypeOK, Threads
<1>2. m \notin Queued \cup delivered
  BY <1>1 DEF Delivering, EntriesAreTrue
<1>3. /\ DeliveryOrder' /\ Queued' = Queued
      /\ (\A i, j \in DOMAIN queue : i # j => queue[i].message # queue[j].message)'
  BY <1>1, DeliveryUntouched DEF Delivering, AnswersAreTrue
<1>4. AnswersAreTrue'
  BY <1>1, <1>3 DEF Delivering, AnswersAreTrue
<1>5. EntriesAreTrue'
  <2>1. \A r \in Producers : pc[r] = "signal" => pc'[r] = "signal" /\ posting'[r] = posting[r]
    BY <1>1
  <2> QED BY <1>1, <1>3, <2>1 DEF Delivering, EntriesAreTrue
<1>6. PostsAreSeparate'
  BY <1>1, <1>2, <1>3 DEF Delivering, PostsAreSeparate
<1> QED BY <1>3, <1>4, <1>5, <1>6 DEF Delivering

(* A post the queue refuses leaves no message behind.                      *)
LEMMA FailureDelivers ==
    ASSUME TypeOK, PostingHasMessage, Delivering, NEW p \in Producers, PostFails(p)
    PROVE  /\ Delivering' /\ Queued' = Queued
           /\ posting[p] \notin accepted \cup refused \cup Queued \cup delivered
<1>1. /\ UNCHANGED <<queue, enqueuedBefore, delivered, accepted>>
      /\ refused' = refused \cup {posting[p]}
      /\ pc[p] = "enqueue" /\ pc'[p] = "idle" /\ posting'[p] = None
      /\ \A r \in Producers \ {p} : pc'[r] = pc[r] /\ posting'[r] = posting[r]
  BY DEF PostFails, mailbox, Goto, TypeOK, Threads
<1>2. posting[p] # None /\ posting[p] \notin accepted \cup refused \cup Queued \cup delivered
  BY <1>1, ThreadAssumption DEF Delivering, PostsAreSeparate, PostingHasMessage
<1>3. /\ DeliveryOrder' /\ Queued' = Queued
      /\ (\A i, j \in DOMAIN queue : i # j => queue[i].message # queue[j].message)'
  BY <1>1, DeliveryUntouched DEF Delivering, AnswersAreTrue
<1>4. AnswersAreTrue'
  BY <1>1, <1>2, <1>3 DEF Delivering, AnswersAreTrue
<1>5. EntriesAreTrue'
  <2>1. \A r \in Producers : pc[r] = "signal" => pc'[r] = "signal" /\ posting'[r] = posting[r]
    BY <1>1
  <2> QED BY <1>1, <1>3, <2>1 DEF Delivering, EntriesAreTrue
<1>6. PostsAreSeparate'
  <2>1. \A r \in Producers \ {p} : posting[r] # posting[p]
    BY <1>2 DEF Delivering, PostsAreSeparate
  <2>2. \A r \in Producers : pc[r] \in {"enqueue", "signal"} => posting[r] # None
    BY ThreadAssumption DEF PostingHasMessage
  <2> QED BY <1>1, <1>3, <2>1, <2>2 DEF Delivering, PostsAreSeparate
<1> QED BY <1>2, <1>3, <1>4, <1>5, <1>6 DEF Delivering

(* A post that answers OK has put its message into the queue.              *)
LEMMA SignalDelivers ==
    ASSUME TypeOK, PostingHasMessage, Delivering, NEW p \in Producers, PostSignal(p)
    PROVE  /\ Delivering' /\ Queued' = Queued
           /\ posting[p] \notin accepted \cup refused
           /\ posting[p] \in Queued \cup delivered
<1>1. /\ UNCHANGED <<queue, enqueuedBefore, delivered, refused>>
      /\ accepted' = accepted \cup {posting[p]}
      /\ pc[p] = "signal" /\ pc'[p] = "idle" /\ posting'[p] = None
      /\ \A r \in Producers \ {p} : pc'[r] = pc[r] /\ posting'[r] = posting[r]
  BY DEF PostSignal, Goto, TypeOK, Threads
<1>2. /\ posting[p] # None /\ posting[p] \notin accepted \cup refused
      /\ posting[p] \in Queued \cup delivered
  BY <1>1, ThreadAssumption DEF Delivering, PostsAreSeparate, PostingHasMessage
<1>3. /\ DeliveryOrder' /\ Queued' = Queued
      /\ (\A i, j \in DOMAIN queue : i # j => queue[i].message # queue[j].message)'
  BY <1>1, DeliveryUntouched DEF Delivering, AnswersAreTrue
<1>4. AnswersAreTrue'
  BY <1>1, <1>2, <1>3 DEF Delivering, AnswersAreTrue
<1>5. EntriesAreTrue'
  <2>1. ASSUME NEW n \in Queued \cup delivered
        PROVE  n \in accepted' \/ \E r \in Producers : pc'[r] = "signal" /\ posting'[r] = n
    <3>1. n \in accepted \/ \E r \in Producers : pc[r] = "signal" /\ posting[r] = n
      BY <2>1 DEF Delivering, EntriesAreTrue
    <3> QED BY <3>1, <1>1
  <2> QED BY <1>1, <1>3, <2>1 DEF Delivering, EntriesAreTrue
<1>6. PostsAreSeparate'
  <2>1. \A r \in Producers \ {p} : posting[r] # posting[p]
    BY <1>2 DEF Delivering, PostsAreSeparate
  <2>2. \A r \in Producers : pc[r] \in {"enqueue", "signal"} => posting[r] # None
    BY ThreadAssumption DEF PostingHasMessage
  <2> QED BY <1>1, <1>3, <2>1, <2>2 DEF Delivering, PostsAreSeparate
<1> QED BY <1>2, <1>3, <1>4, <1>5, <1>6 DEF Delivering

(* No other step touches what is delivered.                                *)
LEMMA OthersDeliver ==
    ASSUME TypeOK, Delivering,
           \/ UNCHANGED vars
           \/ Own
           \/ \E c \in Consumers :
                 \/ GetMessage(c) \/ GetMessageNonBlocking(c) \/ GetInactive(c)
                 \/ GetActive(c) \/ GetEmpty(c) \/ GetWait(c) \/ GetReset(c)
                 \/ TryEmpty(c) \/ GetDequeueFails(c)
    PROVE  /\ Delivering' /\ Queued' = Queued
           /\ UNCHANGED <<enqueuedBefore, accepted, refused, delivered>>
<1>1. /\ UNCHANGED <<queue, enqueuedBefore, delivered, accepted, refused, posting>>
      /\ \A p \in Producers : pc'[p] = pc[p]
  <2>1. CASE UNCHANGED vars
    BY <2>1 DEF vars, mailbox, outcome
  <2>2. CASE Own
    BY <2>2 DEF Own, Deactivate, SetInactive, Activate, SetActive, outcome
  <2>3. ASSUME NEW c \in Consumers,
               \/ GetMessage(c) \/ GetMessageNonBlocking(c) \/ GetInactive(c)
               \/ GetActive(c) \/ GetEmpty(c) \/ GetWait(c)
        PROVE  /\ UNCHANGED <<queue, enqueuedBefore, delivered, accepted, refused, posting>>
               /\ \A p \in Producers : pc'[p] = pc[p]
    BY <2>3, ThreadAssumption
       DEF GetMessage, GetMessageNonBlocking, Begin, GetInactive, GetActive, AfterTest, GetEmpty,
           GetWait, Return, Goto, mailbox, outcome, TypeOK, Threads
  <2>4. ASSUME NEW c \in Consumers,
               \/ GetReset(c) \/ TryEmpty(c) \/ GetDequeueFails(c)
        PROVE  /\ UNCHANGED <<queue, enqueuedBefore, delivered, accepted, refused, posting>>
               /\ \A p \in Producers : pc'[p] = pc[p]
    BY <2>4, ThreadAssumption
       DEF GetReset, TryEmpty, GetDequeueFails, Return, Goto, mailbox, outcome,
           TypeOK, Threads
  <2> QED BY <2>1, <2>2, <2>3, <2>4
<1>2. /\ DeliveryOrder' /\ Queued' = Queued
      /\ (\A i, j \in DOMAIN queue : i # j => queue[i].message # queue[j].message)'
  BY <1>1, DeliveryUntouched DEF Delivering, AnswersAreTrue
<1>3. AnswersAreTrue' /\ EntriesAreTrue'
  BY <1>1, <1>2 DEF Delivering, AnswersAreTrue, EntriesAreTrue
<1>4. PostsAreSeparate'
  BY <1>1, <1>2 DEF Delivering, PostsAreSeparate
<1> QED BY <1>1, <1>2, <1>3, <1>4 DEF Delivering

(* Every step keeps the queue in order and its messages apart, and is a    *)
(* step of the promised mailbox, or none.                                  *)
LEMMA DeliveringKept ==
    ASSUME TypeOK, PostingHasMessage, Delivering, [Next]_vars
    PROVE  Delivering' /\ [Promise!Next]_(Promise!vars)
<1> USE DEF Promise!vars, Promise!Next, Promise!Unanswered
<1>1. ASSUME NEW p \in Producers, NEW m \in Messages, PostInactive(p, m)
      PROVE  Delivering' /\ [Promise!Next]_(Promise!vars)
  <2>1. Promise!Refuse(m)
    BY <1>1, InactiveDelivers DEF Promise!Refuse, PostInactive
  <2> QED BY <1>1, <2>1, InactiveDelivers
<1>2. ASSUME NEW p \in Producers, NEW m \in Messages, PostReserve(p, m)
      PROVE  Delivering' /\ [Promise!Next]_(Promise!vars)
  BY <1>2, ReserveDelivers DEF PostReserve, outcome
<1>3. ASSUME NEW p \in Producers, PostEnqueue(p)
      PROVE  Delivering' /\ [Promise!Next]_(Promise!vars)
  <2>1. posting[p] \in Messages
    BY <1>3 DEF PostEnqueue, PostingHasMessage
  <2>2. posting[p] \notin accepted \cup refused \cup Queued \cup delivered
    BY <1>3 DEF PostEnqueue, Delivering, PostsAreSeparate
  <2>3. Promise!Put(posting[p])
    BY <1>3, <2>2, EnqueueDelivers DEF Promise!Put, PostEnqueue
  <2> QED BY <1>3, <2>1, <2>3, EnqueueDelivers
<1>4. ASSUME NEW p \in Producers, PostFails(p)
      PROVE  Delivering' /\ [Promise!Next]_(Promise!vars)
  <2>1. posting[p] \in Messages
    BY <1>4 DEF PostFails, PostingHasMessage
  <2>2. Promise!Refuse(posting[p])
    BY <1>4, FailureDelivers DEF Promise!Refuse, PostFails
  <2> QED BY <1>4, <2>1, <2>2, FailureDelivers
<1>5. ASSUME NEW p \in Producers, PostSignal(p)
      PROVE  Delivering' /\ [Promise!Next]_(Promise!vars)
  <2>1. posting[p] \in Messages
    BY <1>5 DEF PostSignal, PostingHasMessage
  <2>2. Promise!Accept(posting[p])
    BY <1>5, SignalDelivers DEF Promise!Accept, PostSignal
  <2> QED BY <1>5, <2>1, <2>2, SignalDelivers
<1>6. ASSUME NEW c \in Consumers, GetDequeue(c)
      PROVE  Delivering' /\ [Promise!Next]_(Promise!vars)
  <2>1. Head(queue).message \in Messages
    <3>1. Head(queue) \in Entries
      BY <1>6 DEF GetDequeue, TypeOK
    <3> QED BY <3>1 DEF Entries
  <2>2. Promise!Take(Head(queue).message)
    BY <1>6, DequeueDelivers DEF Promise!Take, GetDequeue
  <2> QED BY <1>6, <2>1, <2>2, DequeueDelivers
<1>7. ASSUME \/ UNCHANGED vars
             \/ Own
             \/ \E c \in Consumers :
                   \/ GetMessage(c) \/ GetMessageNonBlocking(c) \/ GetInactive(c)
                   \/ GetActive(c) \/ GetEmpty(c) \/ GetWait(c) \/ GetReset(c)
                   \/ TryEmpty(c) \/ GetDequeueFails(c)
      PROVE  Delivering' /\ [Promise!Next]_(Promise!vars)
  BY <1>7, OthersDeliver
<1> QED BY <1>1, <1>2, <1>3, <1>4, <1>5, <1>6, <1>7 DEF Next, Step, Produce, Consume

-----------------------------------------------------------------------------
(* One entry more, wherever enqueue_prio puts it.                           *)
LEMMA EnqueuePrioLength ==
    ASSUME NEW q \in Seq(Entries), NEW entry \in Entries
    PROVE  Len(EnqueuePrio(q, entry)) = Len(q) + 1
<1> DEFINE ahead == {i \in DOMAIN q : q[i].priority >= entry.priority}
           place == Cardinality(ahead)
<1>1. place \in 0..Len(q)
  <2>1. Len(q) \in Nat /\ DOMAIN q = 1..Len(q)
    OBVIOUS
  <2>2. IsFiniteSet(1..Len(q)) /\ Cardinality(1..Len(q)) = Len(q)
    BY <2>1, FS_Interval
  <2>3. ahead \in SUBSET (1..Len(q))
    BY <2>1
  <2> QED BY <2>1, <2>2, <2>3, FS_Subset, FS_CardinalityType
<1>2. EnqueuePrio(q, entry) = Inserted(q, place, entry)
  BY DEF EnqueuePrio, Inserted
<1> HIDE DEF place
<1> QED BY <1>1, <1>2, InsertedAt

-----------------------------------------------------------------------------
(* The inductive invariant of every mailbox.                               *)
THEOREM Invariance == Spec => []IInv
<1>1. Init => IInv
  <2> SUFFICES ASSUME Init PROVE IInv
    OBVIOUS
  <2> USE ThreadAssumption, LimitAssumption DEF Init, Threads
  <2>1. TypeOK
    <3>1. /\ queue \in Seq(Entries)
          /\ enqueuedBefore \subseteq Messages \X Messages
      OBVIOUS
    <3>2. active \in BOOLEAN /\ queueOpen \in BOOLEAN /\ event \in BOOLEAN
      BY Zenon
    <3>3. /\ pc \in [Threads -> Labels]
          /\ posting \in [Producers -> Messages \cup {None}]
          /\ answer \in [Consumers -> {"none", "message", "nothing", "NULL"}]
      BY DEF Labels
    <3>4. QED
      BY <3>1, <3>2, <3>3 DEF TypeOK, Labels
  <2>2. PostingHasMessage
    BY DEF PostingHasMessage
  <2>3. OneReaderAtATime /\ InactivityIsSeen
    BY DEF OneReaderAtATime, InactivityIsSeen
  <2>4. NoLostWakeup /\ NullOnlyIfDeactivated
    BY DEF NoLostWakeup, NullOnlyIfDeactivated
  <2>5. Delivering
    BY DEF Delivering, DeliveryOrder, AnswersAreTrue, EntriesAreTrue, PostsAreSeparate,
           Queued
  <2>6. QED
    BY <2>1, <2>2, <2>3, <2>4, <2>5 DEF IInv
<1>2. IInv /\ [Next]_vars => IInv'
  BY TypesKept, OneReaderKept, InactivityKept, WakeupKept, DeliveringKept DEF IInv
<1>3. QED
  BY <1>1, <1>2, PTL DEF Spec

(* The variables of every mailbox keep their types.                        *)
THEOREM TypeCorrect == Spec => []TypeOK
<1>1. IInv => TypeOK
  BY DEF IInv
<1>2. QED
  BY <1>1, Invariance, PTL

(* However many threads post and read, no reader sleeps on a queued        *)
(* message whose producer has signaled.                                    *)
THEOREM WakeupsAreKept == Spec => []NoLostWakeup
<1>1. IInv => NoLostWakeup
  BY DEF IInv
<1>2. QED
  BY <1>1, Invariance, PTL

(* getMessage() answers NULL only to a call during which the mailbox was   *)
(* inactive.                                                               *)
THEOREM NullMeansDeactivated == Spec => []NullOnlyIfDeactivated
<1>1. IInv => NullOnlyIfDeactivated
  BY DEF IInv
<1>2. QED
  BY <1>1, Invariance, PTL

(* An accepted message is queued or was read, once, and a refused one is   *)
(* neither, however post, deactivate and the readers interleave.           *)
THEOREM AnswersAreKept == Spec => []AnswersAreTrue
<1>1. IInv => AnswersAreTrue
  BY DEF IInv, Delivering
<1>2. QED
  BY <1>1, Invariance, PTL

(* Every mailbox keeps what module Mailbox promises: one delivery at most  *)
(* of what is accepted, the most urgent and oldest first, and none of what *)
(* is refused.                                                             *)
THEOREM MailboxPromiseKept == Spec => ImplementsMailbox
<1>1. Init => Promise!Init
  BY DEF Init, Promise!Init, Queued
<1>2. IInv /\ [Next]_vars => [Promise!Next]_(Promise!vars)
  BY DeliveringKept DEF IInv
<1>3. QED
  BY <1>1, <1>2, Invariance, PTL DEF Spec, ImplementsMailbox, Promise!Spec
=============================================================================
