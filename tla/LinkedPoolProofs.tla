-------------------------- MODULE LinkedPoolProofs --------------------------
(* What holds of LinkedPool for any set of objects, increments and sizes:   *)
(* the two lists stay linked through the pointers they share, and the pool  *)
(* over them implements the pool over sets.  The loops of the code and the  *)
(* walks along the pointers are recursive functions, about which a set of   *)
(* numbers that 0 and every successor belong to is enough of an induction.  *)
EXTENDS LinkedPool, FiniteSetTheorems, TLAPS

(* A set that holds 0, and with a number its successor, holds every one.   *)
LEMMA SetInduction ==
    ASSUME NEW S, 0 \in S, \A n \in Nat : n \in S => n + 1 \in S
    PROVE  Nat \subseteq S
<1> SUFFICES ASSUME NEW n0 \in Nat, n0 \notin S PROVE FALSE
  OBVIOUS
<1> DEFINE Counters == {0 .. n : n \in Nat \ S}
<1>1. Counters \subseteq FiniteSubsetsOf(Nat)
  <2> SUFFICES ASSUME NEW n \in Nat PROVE 0 .. n \in FiniteSubsetsOf(Nat)
    OBVIOUS
  <2>1. IsFiniteSet(0 .. n)
    BY FS_Interval
  <2>2. QED
    BY <2>1 DEF FiniteSubsetsOf
<1>2. Counters # {}
  OBVIOUS
<1>3. IsWellFoundedOn(StrictSubsetOrdering(Nat), FiniteSubsetsOf(Nat))
  BY FS_StrictSubsetOrderingWellFounded
<1> HIDE DEF Counters
<1>4. PICK x \in Counters : \A y \in Counters : ~ (<<y, x>> \in StrictSubsetOrdering(Nat))
  BY <1>1, <1>2, <1>3, WFMin
<1>5. PICK least \in Nat \ S : x = 0 .. least
  BY DEF Counters
<1>6. least - 1 \in Nat /\ least - 1 \notin S
  BY <1>5
<1>7. 0 .. (least - 1) \in Counters
  BY <1>6 DEF Counters
<1>8. <<0 .. (least - 1), x>> \in StrictSubsetOrdering(Nat)
  BY <1>5, <1>6 DEF StrictSubsetOrdering
<1>9. QED
  BY <1>4, <1>7, <1>8

-----------------------------------------------------------------------------
(* The memory as the code leaves it: objects s[1], ..., s[n], each once,   *)
(* are linked both ways between head and tail, and the size counts them.   *)
Lists == {"free", "used"}

Memory ==
    [next : [Objects -> Objects \cup {Null}], prev : [Objects -> Objects \cup {Null}],
     head : [Lists -> Objects \cup {Null}],   tail : [Lists -> Objects \cup {Null}],
     size : [Lists -> Nat]]

Chain(m, l, n, s) ==
    /\ n \in Nat
    /\ s \in [1..n -> Objects]
    /\ \A i, j \in 1..n : s[i] = s[j] => i = j
    /\ m.size[l] = n
    /\ m.head[l] = IF n = 0 THEN Null ELSE s[1]
    /\ m.tail[l] = IF n = 0 THEN Null ELSE s[n]
    /\ \A i \in 1..n : m.next[s[i]] = IF i < n THEN s[i + 1] ELSE Null
    /\ \A i \in 1..n : m.prev[s[i]] = IF i > 1 THEN s[i - 1] ELSE Null

Members(n, s) == {s[i] : i \in 1..n}

(* A list has no more elements than there are objects.                     *)
LEMMA ChainBound ==
    ASSUME NEW n \in Nat, NEW s \in [1..n -> Objects],
           \A i, j \in 1..n : s[i] = s[j] => i = j
    PROVE  n <= Cardinality(Objects)
<1>1. s \in Injection(1..n, Objects)
  BY DEF Injection, IsInjective
<1>2. Cardinality(1..n) <= Cardinality(Objects)
  BY <1>1, ObjectsAssumption, FS_Injection
<1>3. Cardinality(1..n) = n
  BY FS_Interval
<1>4. QED
  BY <1>2, <1>3

(* The recursion of a walk has exactly one solution along a list: its      *)
(* elements, and Null from then on.                                        *)
LEMMA NodesOfChain ==
    ASSUME NEW m, NEW l, NEW n, NEW s, Chain(m, l, n, s)
    PROVE  \A k \in Nat : Nodes(m.next, m.head[l])[k]
                            = IF k < n THEN s[k + 1] ELSE Null
<1> DEFINE start   == m.head[l]
           pointer == m.next
           F(f)    == f = [k \in Nat |-> IF k = 0 THEN start
                                         ELSE IF f[k - 1] = Null THEN Null
                                              ELSE pointer[f[k - 1]]]
           w       == [k \in Nat |-> IF k < n THEN s[k + 1] ELSE Null]
<1>1. Nodes(pointer, start) = CHOOSE f : F(f)
  BY DEF Nodes
<1>2. F(w)
  <2> SUFFICES ASSUME NEW k \in Nat
               PROVE  w[k] = IF k = 0 THEN start
                             ELSE IF w[k - 1] = Null THEN Null ELSE pointer[w[k - 1]]
    OBVIOUS
  <2>1. CASE k = 0
    BY <2>1 DEF Chain
  <2>2. CASE k # 0 /\ k - 1 < n
    <3>1. w[k - 1] = s[k] /\ s[k] \in Objects /\ k \in 1..n
      BY <2>2 DEF Chain
    <3>2. pointer[s[k]] = IF k < n THEN s[k + 1] ELSE Null
      BY <3>1 DEF Chain
    <3>3. QED
      BY <2>2, <3>1, <3>2, NullAssumption
  <2>3. CASE k # 0 /\ ~(k - 1 < n)
    BY <2>3 DEF Chain
  <2>4. QED
    BY <2>1, <2>2, <2>3
<1> DEFINE node == Nodes(pointer, start)
<1>3. F(node)
  <2> HIDE DEF w
  <2>1. \E f : F(f)
    BY <1>2, Zenon
  <2>2. QED
    BY <1>1, <2>1, Zenon
<1> DEFINE S == {k \in Nat : node[k] = w[k]}
<1> HIDE DEF node, w
<1>4. 0 \in S
  BY <1>2, <1>3
<1>5. ASSUME NEW k \in Nat, k \in S PROVE k + 1 \in S
  <2>1. k + 1 \in Nat /\ k + 1 # 0 /\ (k + 1) - 1 = k
    OBVIOUS
  <2>2. node[k + 1] = IF node[k] = Null THEN Null ELSE pointer[node[k]]
    BY <1>3, <2>1
  <2>3. w[k + 1] = IF w[k] = Null THEN Null ELSE pointer[w[k]]
    BY <1>2, <2>1
  <2>4. QED
    BY <1>5, <2>1, <2>2, <2>3
<1>6. Nat \subseteq S
  BY <1>4, <1>5, SetInduction, Zenon
<1>7. QED
  BY <1>6 DEF node, w

(* A walk along next_ meets the elements of the list in order.             *)
LEMMA ElementsOfChain ==
    ASSUME NEW m, NEW l, NEW n, NEW s, Chain(m, l, n, s)
    PROVE  /\ Forward(m, l) = s
           /\ Elements(m, l) = Members(n, s)
<1> DEFINE node == Nodes(m.next, m.head[l])
           met  == {k \in 0..Cardinality(Objects) : node[k] # Null}
<1>1. /\ n \in Nat /\ s \in [1..n -> Objects]
      /\ n <= Cardinality(Objects) /\ Cardinality(Objects) \in Nat
  BY ChainBound, ObjectsAssumption, FS_CardinalityType DEF Chain
<1>2. \A k \in Nat : node[k] = IF k < n THEN s[k + 1] ELSE Null
  BY NodesOfChain, Zenon
<1> HIDE DEF node
<1>3. met = 0..(n - 1)
  <2>1. ASSUME NEW k \in 0..Cardinality(Objects) PROVE node[k] # Null <=> k < n
    BY <1>1, <1>2, NullAssumption
  <2>2. QED
    BY <1>1, <2>1
<1>4. Cardinality(met) = n
  <2>1. CASE n = 0
    BY <1>3, <2>1, FS_EmptySet
  <2>2. CASE n # 0
    <3>1. n - 1 \in Int /\ ~(0 > n - 1) /\ (n - 1) - 0 + 1 = n
      BY <1>1, <2>2
    <3>2. Cardinality(0..(n - 1)) = n
      BY <3>1, FS_Interval
    <3>3. QED
      BY <1>3, <3>2, Zenon
  <2>3. QED
    BY <2>1, <2>2
<1>5. Forward(m, l) = [i \in 1..Cardinality(met) |-> node[i - 1]]
  BY DEF Forward, Walk, node
<1> HIDE DEF met
<1>6. Forward(m, l) = [i \in 1..n |-> s[i]]
  <2>1. ASSUME NEW i \in 1..n PROVE node[i - 1] = s[i]
    <3>1. i - 1 \in Nat /\ i - 1 < n /\ (i - 1) + 1 = i
      BY <1>1
    <3>2. QED
      BY <1>2, <3>1
  <2>2. QED
    BY <1>4, <1>5, <2>1
<1>7. Forward(m, l) = s
  BY <1>1, <1>6
<1>8. QED
  BY <1>6, <1>7 DEF Elements, Members

-----------------------------------------------------------------------------
(* What an operation on the list l leaves alone: the other lists, and the  *)
(* pointers of every object outside S.                                     *)
Untouched(m, m2, l, S) ==
    /\ \A k \in Lists \ {l} : /\ m2.head[k] = m.head[k]
                              /\ m2.tail[k] = m.tail[k]
                              /\ m2.size[k] = m.size[k]
    /\ \A x \in Objects \ S : m2.next[x] = m.next[x] /\ m2.prev[x] = m.prev[x]

(* A list none of whose elements was touched is the list it was.           *)
LEMMA OtherChain ==
    ASSUME NEW m, NEW m2, NEW l, NEW S, Untouched(m, m2, l, S),
           NEW k \in Lists \ {l}, NEW n, NEW s, Chain(m, k, n, s),
           Members(n, s) \cap S = {}
    PROVE  Chain(m2, k, n, s)
<1>1. \A i \in 1..n : s[i] \in Objects \ S
  BY DEF Chain, Members
<1>2. \A i \in 1..n : m2.next[s[i]] = m.next[s[i]] /\ m2.prev[s[i]] = m.prev[s[i]]
  BY <1>1 DEF Untouched
<1>3. QED
  BY <1>2 DEF Chain, Untouched

Detached(m, o) == m.next[o] = Null /\ m.prev[o] = Null

(* insertFirst of an object that is linked nowhere puts it in front.       *)
LEMMA InsertFirstChain ==
    ASSUME NEW m \in Memory, NEW l \in Lists, NEW n, NEW s, Chain(m, l, n, s),
           NEW o \in Objects, o \notin Members(n, s), Detached(m, o)
    PROVE  LET m2 == InsertFirst(m, l, o)
               t  == [i \in 1..(n + 1) |-> IF i = 1 THEN o ELSE s[i - 1]]
           IN  /\ m2 \in Memory
               /\ Chain(m2, l, n + 1, t)
               /\ Members(n + 1, t) = Members(n, s) \cup {o}
               /\ Untouched(m, m2, l, Members(n, s) \cup {o})
<1> DEFINE m2 == InsertFirst(m, l, o)
           t  == [i \in 1..(n + 1) |-> IF i = 1 THEN o ELSE s[i - 1]]
<1> SUFFICES /\ m2 \in Memory
             /\ Chain(m2, l, n + 1, t)
             /\ Members(n + 1, t) = Members(n, s) \cup {o}
             /\ Untouched(m, m2, l, Members(n, s) \cup {o})
  OBVIOUS
<1> DEFINE Maybe == Objects \cup {Null}
<1>0. /\ m = [next |-> m.next, prev |-> m.prev, head |-> m.head,
              tail |-> m.tail, size |-> m.size]
      /\ m.next \in [Objects -> Maybe] /\ m.prev \in [Objects -> Maybe]
      /\ m.head \in [Lists -> Maybe] /\ m.tail \in [Lists -> Maybe]
      /\ m.size \in [Lists -> Nat]
  BY DEF Memory
<1>1. /\ n \in Nat
      /\ s \in [1..n -> Objects]
      /\ \A i, j \in 1..n : s[i] = s[j] => i = j
      /\ m.size[l] = n
      /\ m.head[l] = IF n = 0 THEN Null ELSE s[1]
      /\ m.tail[l] = IF n = 0 THEN Null ELSE s[n]
      /\ \A i \in 1..n : m.next[s[i]] = IF i < n THEN s[i + 1] ELSE Null
      /\ \A i \in 1..n : m.prev[s[i]] = IF i > 1 THEN s[i - 1] ELSE Null
  BY DEF Chain
<1>2. \A i \in 1..n : s[i] # o
  BY DEF Members
<1>3. /\ t \in [1..(n + 1) -> Objects]
      /\ \A i, j \in 1..(n + 1) : t[i] = t[j] => i = j
  BY <1>1, <1>2
<1>4. Members(n + 1, t) = Members(n, s) \cup {o}
  <2>1. t[1] = o /\ \A i \in 1..n : i + 1 \in 1..(n + 1) /\ t[i + 1] = s[i]
    BY <1>1
  <2>2. \A i \in 1..(n + 1) : t[i] = o \/ (i - 1 \in 1..n /\ t[i] = s[i - 1])
    BY <1>1
  <2> HIDE DEF t
  <2>3. QED
    BY <1>1, <2>1, <2>2 DEF Members
<1>5. CASE n = 0
  <2>1. m.head[l] = Null
    BY <1>1, <1>5
  <2>2. m2 = [m EXCEPT !.head[l] = o, !.tail[l] = o, !.size[l] = @ + 1]
    BY <2>1 DEF InsertFirst
  <2> HIDE DEF m2
  <2>3. /\ m2 \in Memory
        /\ m2.next = m.next /\ m2.prev = m.prev
        /\ m2.head = [m.head EXCEPT ![l] = o]
        /\ m2.tail = [m.tail EXCEPT ![l] = o]
        /\ m2.size = [m.size EXCEPT ![l] = m.size[l] + 1]
    <3>1. m2 = [next |-> m.next, prev |-> m.prev,
                head |-> [m.head EXCEPT ![l] = o], tail |-> [m.tail EXCEPT ![l] = o],
                size |-> [m.size EXCEPT ![l] = m.size[l] + 1]]
      BY <1>0, <2>2
    <3>2. QED
      BY <1>0, <3>1 DEF Memory
  <2>4. /\ m2.head[l] = o /\ m2.tail[l] = o /\ m2.size[l] = n + 1
        /\ \A k \in Lists \ {l} : /\ m2.head[k] = m.head[k]
                                  /\ m2.tail[k] = m.tail[k]
                                  /\ m2.size[k] = m.size[k]
    BY <1>1, <2>3 DEF Memory
  <2>5. t[1] = o
    BY <1>1
  <2>6. Untouched(m, m2, l, Members(n, s) \cup {o})
    BY <2>3, <2>4 DEF Untouched
  <2> HIDE DEF t
  <2>7. Chain(m2, l, n + 1, t)
    BY <1>3, <1>5, <2>3, <2>4, <2>5 DEF Chain, Detached
  <2>8. QED
    BY <1>4, <2>3, <2>6, <2>7
<1>6. CASE n # 0
  <2>1. m.head[l] = s[1] /\ s[1] \in Objects /\ m.head[l] # Null /\ s[1] # o
    BY <1>1, <1>2, <1>6, NullAssumption
  <2>2. m2 = [m EXCEPT !.prev[s[1]] = o, !.next[o] = s[1],
                       !.head[l] = o, !.size[l] = @ + 1]
    BY <2>1 DEF InsertFirst
  <2> HIDE DEF m2
  <2>3. /\ m2 \in Memory
        /\ m2.prev = [m.prev EXCEPT ![s[1]] = o]
        /\ m2.next = [m.next EXCEPT ![o] = s[1]]
        /\ m2.head = [m.head EXCEPT ![l] = o]
        /\ m2.tail = m.tail
        /\ m2.size = [m.size EXCEPT ![l] = m.size[l] + 1]
    <3>1. m2 = [next |-> [m.next EXCEPT ![o] = s[1]],
                prev |-> [m.prev EXCEPT ![s[1]] = o],
                head |-> [m.head EXCEPT ![l] = o], tail |-> m.tail,
                size |-> [m.size EXCEPT ![l] = m.size[l] + 1]]
      BY <1>0, <2>2
    <3>2. QED
      BY <1>0, <2>1, <3>1 DEF Memory
  <2>4. /\ m2.head[l] = o /\ m2.tail[l] = s[n] /\ m2.size[l] = n + 1
        /\ \A k \in Lists \ {l} : /\ m2.head[k] = m.head[k]
                                  /\ m2.tail[k] = m.tail[k]
                                  /\ m2.size[k] = m.size[k]
    BY <1>1, <1>6, <2>3 DEF Memory
  <2>5. /\ m2.next[o] = s[1]
        /\ \A x \in Objects \ {o} : m2.next[x] = m.next[x]
        /\ m2.prev[s[1]] = o
        /\ \A x \in Objects \ {s[1]} : m2.prev[x] = m.prev[x]
    BY <2>1, <2>3 DEF Memory
  <2>6. Untouched(m, m2, l, Members(n, s) \cup {o})
    <3>1. s[1] \in Members(n, s)
      BY <1>1, <1>6 DEF Members
    <3>2. QED
      BY <2>4, <2>5, <3>1 DEF Untouched
  <2>7. \A i \in 1..(n + 1) : m2.next[t[i]] = IF i < n + 1 THEN t[i + 1] ELSE Null
    <3> TAKE i \in 1..(n + 1)
    <3>1. CASE i = 1
      BY <1>1, <1>6, <2>5, <3>1
    <3>2. CASE i # 1
      <4>1. i - 1 \in 1..n /\ t[i] = s[i - 1] /\ s[i - 1] \in Objects \ {o}
        BY <1>1, <1>2, <3>2
      <4>2. m2.next[t[i]] = IF i - 1 < n THEN s[(i - 1) + 1] ELSE Null
        BY <1>1, <2>5, <4>1
      <4>3. i < n + 1 => t[i + 1] = s[i]
        BY <1>1, <3>2
      <4>4. QED
        BY <1>1, <4>1, <4>2, <4>3
    <3>3. QED
      BY <3>1, <3>2
  <2>8. \A i \in 1..(n + 1) : m2.prev[t[i]] = IF i > 1 THEN t[i - 1] ELSE Null
    <3> TAKE i \in 1..(n + 1)
    <3>1. CASE i = 1
      BY <1>1, <2>1, <2>5, <3>1 DEF Detached
    <3>2. CASE i = 2
      BY <1>1, <2>5, <3>2
    <3>3. CASE i # 1 /\ i # 2
      <4>1. i - 1 \in 1..n /\ t[i] = s[i - 1] /\ s[i - 1] \in Objects \ {s[1]}
        BY <1>1, <1>6, <3>3
      <4>2. m2.prev[t[i]] = s[(i - 1) - 1]
        BY <1>1, <2>5, <3>3, <4>1
      <4>3. i > 1 /\ t[i - 1] = s[(i - 1) - 1]
        BY <1>1, <3>3
      <4>4. QED
        BY <4>2, <4>3
    <3>4. QED
      BY <3>1, <3>2, <3>3
  <2>9. t[1] = o /\ t[n + 1] = s[n]
    BY <1>1, <1>6
  <2> HIDE DEF t
  <2>10. Chain(m2, l, n + 1, t)
    BY <1>1, <1>3, <2>4, <2>7, <2>8, <2>9 DEF Chain
  <2>11. QED
    BY <1>4, <2>3, <2>6, <2>10
<1>7. QED
  BY <1>5, <1>6

Maybe == Objects \cup {Null}

(* q is the pointer field after p's was set to v.                          *)
Sets(q, pointer, p, v) ==
    /\ q \in [Objects -> Maybe]
    /\ \A x \in Objects : q[x] = IF x = p THEN v ELSE pointer[x]

(* Link writes a pointer of an object, and nothing through the null pointer. *)
LEMMA LinkSets ==
    ASSUME NEW pointer, pointer \in [Objects -> Maybe],
           NEW p, p \in Maybe, NEW v, v \in Maybe
    PROVE  Sets(Link(pointer, p, v), pointer, p, v)
<1>1. CASE p = Null
  BY <1>1, NullAssumption DEF Link, Sets
<1>2. CASE p # Null
  BY <1>2 DEF Link, Maybe, Sets
<1>3. QED
  BY <1>1, <1>2

(* The pointer field after p's was set to v and then o's to Null.          *)
Closes(q, pointer, p, v, o) ==
    /\ q \in [Objects -> Maybe]
    /\ \A x \in Objects : q[x] = IF x = o THEN Null ELSE IF x = p THEN v ELSE pointer[x]

(* remove: the neighbour of an object is linked past it, and the object is  *)
(* detached (OPMLinkedList.cpp:94-126).                                     *)
LEMMA LinkCloses ==
    ASSUME NEW pointer, pointer \in [Objects -> Maybe],
           NEW p, p \in Maybe, NEW v, v \in Maybe, NEW o, o \in Objects
    PROVE  Closes(Link(Link(pointer, p, v), o, Null), pointer, p, v, o)
<1> DEFINE closed   == Link(pointer, p, v)
           detached == Link(closed, o, Null)
<1>1. Sets(closed, pointer, p, v)
  BY LinkSets, Zenon
<1> HIDE DEF closed
<1>2. Sets(detached, closed, o, Null)
  <2>1. closed \in [Objects -> Maybe] /\ o \in Maybe /\ Null \in Maybe
    BY <1>1 DEF Maybe, Sets
  <2>2. QED
    BY <2>1, LinkSets, Zenon
<1> HIDE DEF detached
<1>3. Closes(detached, pointer, p, v, o)
  BY <1>1, <1>2 DEF Sets, Closes
<1>4. QED
  BY <1>3 DEF closed, detached

(* remove of the j-th element closes the list around it and leaves it      *)
(* linked nowhere.                                                         *)
LEMMA RemoveChain ==
    ASSUME NEW m \in Memory, NEW l \in Lists, NEW n, NEW s, Chain(m, l, n, s),
           NEW j \in 1..n
    PROVE  LET m2 == Remove(m, l, s[j])
               t  == [i \in 1..(n - 1) |-> IF i < j THEN s[i] ELSE s[i + 1]]
           IN  /\ m2 \in Memory
               /\ Chain(m2, l, n - 1, t)
               /\ Members(n - 1, t) = Members(n, s) \ {s[j]}
               /\ Detached(m2, s[j])
               /\ Untouched(m, m2, l, Members(n, s))
<1> DEFINE o        == s[j]
           m2       == Remove(m, l, o)
           t        == [i \in 1..(n - 1) |-> IF i < j THEN s[i] ELSE s[i + 1]]
           previous == m.prev[o]
           next     == m.next[o]
<1> SUFFICES /\ m2 \in Memory
             /\ Chain(m2, l, n - 1, t)
             /\ Members(n - 1, t) = Members(n, s) \ {o}
             /\ Detached(m2, o)
             /\ Untouched(m, m2, l, Members(n, s))
  OBVIOUS
<1>0. /\ m = [next |-> m.next, prev |-> m.prev, head |-> m.head,
              tail |-> m.tail, size |-> m.size]
      /\ m.next \in [Objects -> Maybe] /\ m.prev \in [Objects -> Maybe]
      /\ m.head \in [Lists -> Maybe] /\ m.tail \in [Lists -> Maybe]
      /\ m.size \in [Lists -> Nat]
  BY DEF Memory, Maybe
<1>1. /\ n \in Nat /\ n # 0
      /\ s \in [1..n -> Objects]
      /\ \A i, k \in 1..n : s[i] = s[k] => i = k
      /\ m.size[l] = n
      /\ m.head[l] = s[1]
      /\ m.tail[l] = s[n]
      /\ \A i \in 1..n : m.next[s[i]] = IF i < n THEN s[i + 1] ELSE Null
      /\ \A i \in 1..n : m.prev[s[i]] = IF i > 1 THEN s[i - 1] ELSE Null
  BY DEF Chain
<1>2. /\ o \in Objects
      /\ previous = IF j > 1 THEN s[j - 1] ELSE Null
      /\ next = IF j < n THEN s[j + 1] ELSE Null
  BY <1>1
<1>3. previous \in Maybe /\ next \in Maybe /\ Null \in Maybe /\ o \in Maybe
  BY <1>0, <1>2 DEF Maybe
<1> DEFINE head  == IF previous = Null /\ m.head[l] = o THEN next ELSE m.head[l]
           tail  == IF next = Null /\ m.tail[l] = o THEN previous ELSE m.tail[l]
           nexts == Link(Link(m.next, previous, next), o, Null)
           prevs == Link(Link(m.prev, next, previous), o, Null)
<1>4. m2 = [next |-> nexts, prev |-> prevs, head |-> [m.head EXCEPT ![l] = head],
            tail |-> [m.tail EXCEPT ![l] = tail],
            size |-> [m.size EXCEPT ![l] = m.size[l] - 1]]
  <2>1. m.head[l] # Null
    BY <1>1, NullAssumption
  <2>2. QED
    BY <1>0, <2>1 DEF Remove
<1>5. Closes(nexts, m.next, previous, next, o)
  <2> HIDE DEF o, previous, next
  <2>1. QED
    BY <1>0, <1>2, <1>3, LinkCloses, Zenon
<1>6. Closes(prevs, m.prev, next, previous, o)
  <2> HIDE DEF o, previous, next
  <2>1. QED
    BY <1>0, <1>2, <1>3, LinkCloses, Zenon
<1>7. head \in Maybe /\ tail \in Maybe
  BY <1>0, <1>3
<1> HIDE DEF m2, nexts, prevs
<1>8. m2 \in Memory
  <2>1. m.size[l] - 1 \in Nat
    BY <1>1
  <2> HIDE DEF head, tail
  <2>2. QED
    BY <1>0, <1>4, <1>5, <1>6, <1>7, <2>1 DEF Memory, Maybe, Closes
<1>9. /\ m2.next = nexts /\ m2.prev = prevs
      /\ m2.head[l] = head /\ m2.tail[l] = tail /\ m2.size[l] = n - 1
      /\ \A k \in Lists \ {l} : /\ m2.head[k] = m.head[k]
                                /\ m2.tail[k] = m.tail[k]
                                /\ m2.size[k] = m.size[k]
  <2> HIDE DEF head, tail
  <2>1. QED
    BY <1>0, <1>1, <1>4
<1>10. Detached(m2, o)
  BY <1>2, <1>5, <1>6, <1>9 DEF Detached, Closes
<1>11. Untouched(m, m2, l, Members(n, s))
  <2>1. /\ o \in Members(n, s)
        /\ previous \in Members(n, s) \cup {Null}
        /\ next \in Members(n, s) \cup {Null}
    BY <1>1, <1>2 DEF Members
  <2>2. QED
    BY <1>5, <1>6, <1>9, <2>1, NullAssumption DEF Untouched, Closes
<1>12. /\ t \in [1..(n - 1) -> Objects]
       /\ \A i, k \in 1..(n - 1) : t[i] = t[k] => i = k
  <2>1. \A i \in 1..(n - 1) : i \in 1..n /\ i + 1 \in 1..n
    BY <1>1
  <2>2. t \in [1..(n - 1) -> Objects]
    BY <1>1, <2>1
  <2>3. ASSUME NEW i \in 1..(n - 1), NEW k \in 1..(n - 1), t[i] = t[k]
        PROVE  i = k
    BY <1>1, <2>1, <2>3
  <2>4. QED
    BY <2>2, <2>3
<1>13. Members(n - 1, t) = Members(n, s) \ {o}
  <2>1. \A i \in 1..n : /\ i < j => i \in 1..(n - 1) /\ t[i] = s[i]
                        /\ i > j => i - 1 \in 1..(n - 1) /\ t[i - 1] = s[i]
    BY <1>1
  <2>2. \A i \in 1..(n - 1) : \E k \in 1..n : k # j /\ t[i] = s[k]
    <3> TAKE i \in 1..(n - 1)
    <3>1. CASE i < j
      BY <1>1, <3>1
    <3>2. CASE ~(i < j)
      <4>1. i + 1 \in 1..n /\ i + 1 # j /\ t[i] = s[i + 1]
        BY <1>1, <3>2
      <4>2. QED
        BY <4>1
    <3>3. QED
      BY <3>1, <3>2
  <2> HIDE DEF t
  <2>3. ASSUME NEW x \in Members(n - 1, t) PROVE x \in Members(n, s) \ {o}
    BY <1>1, <2>2 DEF Members
  <2>4. ASSUME NEW x \in Members(n, s) \ {o} PROVE x \in Members(n - 1, t)
    <3>1. PICK i \in 1..n : x = s[i] /\ i # j
      BY DEF Members
    <3>2. i < j \/ i > j
      BY <3>1
    <3>3. QED
      BY <2>1, <3>1, <3>2 DEF Members
  <2>5. QED
    BY <2>3, <2>4
<1>14. \A i \in 1..(n - 1) : m2.next[t[i]] = IF i < n - 1 THEN t[i + 1] ELSE Null
  <2> TAKE i \in 1..(n - 1)
  <2>1. CASE i < j - 1
    <3>1. /\ i \in 1..n /\ i + 1 \in 1..n /\ i < n - 1 /\ j - 1 \in 1..n
          /\ t[i] = s[i] /\ t[i + 1] = s[i + 1]
      BY <1>1, <2>1
    <3>2. s[i] # o /\ s[i] # previous
      BY <1>1, <1>2, <2>1, <3>1, NullAssumption
    <3>3. m2.next[s[i]] = m.next[s[i]]
      <4> HIDE DEF o, previous, next
      <4>1. QED
        BY <1>1, <1>5, <1>9, <3>1, <3>2 DEF Closes
    <3>4. QED
      BY <1>1, <3>1, <3>3
  <2>2. CASE i = j - 1
    <3>1. i \in 1..n /\ t[i] = s[i] /\ s[i] = previous /\ s[i] # o
      BY <1>1, <1>2, <2>2
    <3>2. m2.next[t[i]] = next
      BY <1>1, <1>5, <1>9, <3>1 DEF Closes
    <3>3. i < n - 1 => t[i + 1] = s[j + 1]
      BY <1>1, <2>2
    <3>4. QED
      BY <1>1, <1>2, <2>2, <3>2, <3>3
  <2>3. CASE i >= j
    <3>1. i + 1 \in 1..n /\ t[i] = s[i + 1] /\ i + 1 # j /\ i + 1 # j - 1
      BY <1>1, <2>3
    <3>2. s[i + 1] # o /\ s[i + 1] # previous
      BY <1>1, <1>2, <3>1, NullAssumption
    <3>3. m2.next[t[i]] = IF i + 1 < n THEN s[(i + 1) + 1] ELSE Null
      <4>1. m2.next[s[i + 1]] = m.next[s[i + 1]]
        <5> HIDE DEF o, previous, next
        <5>1. QED
          BY <1>1, <1>5, <1>6, <1>9, <3>1, <3>2 DEF Closes
      <4>2. QED
        BY <1>1, <3>1, <4>1
    <3>4. i < n - 1 => t[i + 1] = s[(i + 1) + 1]
      BY <1>1, <2>3
    <3>5. QED
      BY <1>1, <3>3, <3>4
  <2>4. QED
    BY <1>1, <2>1, <2>2, <2>3
<1>15. \A i \in 1..(n - 1) : m2.prev[t[i]] = IF i > 1 THEN t[i - 1] ELSE Null
  <2> TAKE i \in 1..(n - 1)
  <2>1. CASE i < j
    <3>1. i \in 1..n /\ t[i] = s[i] /\ i # j /\ i # j + 1
      BY <1>1, <2>1
    <3>2. s[i] # o /\ s[i] # next
      BY <1>1, <1>2, <3>1, NullAssumption
    <3>3. m2.prev[t[i]] = IF i > 1 THEN s[i - 1] ELSE Null
      <4>1. m2.prev[s[i]] = m.prev[s[i]]
        <5> HIDE DEF o, previous, next
        <5>1. QED
          BY <1>1, <1>5, <1>6, <1>9, <3>1, <3>2 DEF Closes
      <4>2. QED
        BY <1>1, <3>1, <4>1
    <3>4. i > 1 => t[i - 1] = s[i - 1]
      BY <1>1, <2>1
    <3>5. QED
      BY <3>3, <3>4
  <2>2. CASE i = j
    <3>1. i + 1 \in 1..n /\ t[i] = s[i + 1] /\ s[i + 1] = next /\ s[i + 1] # o
      BY <1>1, <1>2, <2>2
    <3>2. m2.prev[t[i]] = previous
      BY <1>1, <1>6, <1>9, <3>1 DEF Closes
    <3>3. i > 1 => t[i - 1] = s[j - 1]
      BY <1>1, <2>2
    <3>4. QED
      BY <1>2, <2>2, <3>2, <3>3
  <2>3. CASE i > j
    <3>1. i + 1 \in 1..n /\ t[i] = s[i + 1] /\ i + 1 # j /\ i + 1 # j + 1
      BY <1>1, <2>3
    <3>2. s[i + 1] # o /\ s[i + 1] # next
      BY <1>1, <1>2, <3>1, NullAssumption
    <3>3. m2.prev[t[i]] = s[(i + 1) - 1]
      <4>1. m2.prev[s[i + 1]] = m.prev[s[i + 1]]
        <5> HIDE DEF o, previous, next
        <5>1. QED
          BY <1>1, <1>5, <1>6, <1>9, <3>1, <3>2 DEF Closes
      <4>2. QED
        BY <1>1, <2>3, <3>1, <4>1
    <3>4. i > 1 /\ t[i - 1] = s[(i + 1) - 1]
      BY <1>1, <2>3
    <3>5. QED
      BY <3>3, <3>4
  <2>4. QED
    BY <1>1, <2>1, <2>2, <2>3
<1>16. m2.head[l] = IF n - 1 = 0 THEN Null ELSE t[1]
  <2>1. CASE j = 1
    <3>1. head = next
      BY <1>1, <1>2, <2>1
    <3>2. n # 1 => t[1] = s[2]
      BY <1>1, <2>1
    <3>3. QED
      BY <1>1, <1>2, <1>9, <2>1, <3>1, <3>2
  <2>2. CASE j # 1
    <3>1. head = s[1] /\ n # 1 /\ t[1] = s[1]
      BY <1>1, <1>2, <2>2
    <3>2. QED
      BY <1>1, <1>9, <3>1
  <2>3. QED
    BY <2>1, <2>2
<1>17. m2.tail[l] = IF n - 1 = 0 THEN Null ELSE t[n - 1]
  <2>1. CASE j = n
    <3>1. tail = previous
      BY <1>1, <1>2, <2>1
    <3>2. n # 1 => t[n - 1] = s[n - 1]
      BY <1>1, <2>1
    <3>3. QED
      BY <1>1, <1>2, <1>9, <2>1, <3>1, <3>2
  <2>2. CASE j # n
    <3>1. tail = s[n] /\ n # 1 /\ t[n - 1] = s[n]
      BY <1>1, <1>2, <2>2
    <3>2. QED
      BY <1>1, <1>9, <3>1
  <2>3. QED
    BY <2>1, <2>2
<1>18. Chain(m2, l, n - 1, t)
  <2>1. n - 1 \in Nat
    BY <1>1
  <2> HIDE DEF t, head, tail
  <2>2. QED
    BY <1>9, <1>12, <1>14, <1>15, <1>16, <1>17, <2>1 DEF Chain
<1>19. QED
  BY <1>8, <1>10, <1>11, <1>13, <1>18

-----------------------------------------------------------------------------
(* Both lists are chains and share no object.                              *)
Linked(m) ==
    /\ m \in Memory
    /\ \A l \in Lists : Chain(m, l, m.size[l], Forward(m, l))
    /\ \A l, k \in Lists : l # k => Elements(m, l) \cap Elements(m, k) = {}

TwoChains(m, l, n, s, k, p, t) ==
    /\ m \in Memory
    /\ Chain(m, l, n, s)
    /\ Chain(m, k, p, t)
    /\ Members(n, s) \cap Members(p, t) = {}

LinkedAs(m, l, n, s, k, p, t) ==
    /\ Linked(m)
    /\ Elements(m, l) = Members(n, s)
    /\ Elements(m, k) = Members(p, t)

(* Two chains without a common object are the two lists of the pool.       *)
LEMMA LinkedLists ==
    ASSUME NEW m, NEW l, l \in Lists, NEW k, k \in Lists, l # k,
           NEW n, NEW s, NEW p, NEW t, TwoChains(m, l, n, s, k, p, t)
    PROVE  LinkedAs(m, l, n, s, k, p, t)
<1>0. /\ m \in Memory /\ Chain(m, l, n, s) /\ Chain(m, k, p, t)
      /\ Members(n, s) \cap Members(p, t) = {}
  BY DEF TwoChains
<1>1. /\ Forward(m, l) = s /\ Elements(m, l) = Members(n, s)
      /\ Forward(m, k) = t /\ Elements(m, k) = Members(p, t)
  BY <1>0, ElementsOfChain, Zenon
<1>2. m.size[l] = n /\ m.size[k] = p
  BY <1>0 DEF Chain
<1>3. Lists = {l, k}
  BY DEF Lists
<1>4. \A x \in Lists : Chain(m, x, m.size[x], Forward(m, x))
  BY <1>0, <1>1, <1>2, <1>3, Zenon
<1>5. \A x, y \in Lists : x # y => Elements(m, x) \cap Elements(m, y) = {}
  BY <1>0, <1>1, <1>3
<1>6. QED
  BY <1>0, <1>1, <1>4, <1>5, Zenon DEF Linked, LinkedAs

(* The parts of Linked that the lemmas below use.                          *)
LEMMA LinkedParts ==
    ASSUME NEW m, Linked(m), NEW l, l \in Lists
    PROVE  /\ m \in Memory
           /\ Chain(m, l, m.size[l], Forward(m, l))
           /\ Elements(m, l) = Members(m.size[l], Forward(m, l))
           /\ Elements(m, l) \subseteq Objects
           /\ IsFiniteSet(Elements(m, l))
           /\ IsEmpty(m, l) <=> Elements(m, l) = {}
<1>1. m \in Memory /\ Chain(m, l, m.size[l], Forward(m, l))
  BY DEF Linked
<1>2. Elements(m, l) = Members(m.size[l], Forward(m, l))
  BY <1>1, ElementsOfChain, Zenon
<1>3. Elements(m, l) \subseteq Objects
  BY <1>1, <1>2 DEF Chain, Members
<1>4. IsFiniteSet(Elements(m, l))
  BY <1>3, ObjectsAssumption, FS_Subset
<1>5. IsEmpty(m, l) <=> Elements(m, l) = {}
  <2>1. CASE m.size[l] = 0
    BY <1>2, <2>1 DEF IsEmpty, Members
  <2>2. CASE m.size[l] # 0
    <3>1. 1 \in 1..m.size[l]
      BY <1>1, <2>2 DEF Chain
    <3>2. QED
      BY <1>2, <2>2, <3>1 DEF IsEmpty, Members
  <2>3. QED
    BY <2>1, <2>2
<1>6. QED
  BY <1>1, <1>2, <1>3, <1>4, <1>5, Zenon

(* The list l has o as well, or no longer, and k is as it was.             *)
Joins(m, m2, l, k, o) ==
    /\ Linked(m2)
    /\ Elements(m2, l) = Elements(m, l) \cup {o}
    /\ Elements(m2, k) = Elements(m, k)

Leaves(m, m2, l, k, o) ==
    /\ Linked(m2)
    /\ Elements(m2, l) = Elements(m, l) \ {o}
    /\ Elements(m2, k) = Elements(m, k)
    /\ Detached(m2, o)

(* What insertFirst of an object of neither list does to both.             *)
LEMMA InsertFirstLinked ==
    ASSUME NEW m, Linked(m), NEW l, l \in Lists, NEW k, k \in Lists, l # k,
           NEW o, o \in Objects, o \notin Elements(m, l), o \notin Elements(m, k),
           Detached(m, o)
    PROVE  Joins(m, InsertFirst(m, l, o), l, k, o)
<1> DEFINE m2 == InsertFirst(m, l, o)
           n  == m.size[l]
           s  == Forward(m, l)
           p  == m.size[k]
           t  == Forward(m, k)
<1>1. /\ m \in Memory
      /\ Chain(m, l, n, s) /\ Elements(m, l) = Members(n, s)
      /\ Chain(m, k, p, t) /\ Elements(m, k) = Members(p, t)
      /\ Members(n, s) \cap Members(p, t) = {}
  <2>1. Elements(m, l) \cap Elements(m, k) = {}
    BY DEF Linked
  <2>2. QED
    BY <2>1, LinkedParts, Zenon
<1>2. PICK u : /\ m2 \in Memory
               /\ Chain(m2, l, n + 1, u)
               /\ Members(n + 1, u) = Members(n, s) \cup {o}
               /\ Untouched(m, m2, l, Members(n, s) \cup {o})
  <2> HIDE DEF n, s
  <2>1. o \notin Members(n, s)
    BY <1>1
  <2>2. QED
    BY <1>1, <2>1, InsertFirstChain, Zenon
<1>3. Chain(m2, k, p, t)
  <2> HIDE DEF n, s, p, t, m2
  <2>1. Members(p, t) \cap (Members(n, s) \cup {o}) = {}
    BY <1>1
  <2>2. k \in Lists \ {l}
    OBVIOUS
  <2>3. QED
    BY <1>1, <1>2, <2>1, <2>2, OtherChain, Zenon
<1>4. Members(n + 1, u) \cap Members(p, t) = {}
  BY <1>1, <1>2
<1>5. /\ Linked(m2)
      /\ Elements(m2, l) = Members(n + 1, u)
      /\ Elements(m2, k) = Members(p, t)
  <2> HIDE DEF n, s, p, t, m2
  <2>1. TwoChains(m2, l, n + 1, u, k, p, t)
    BY <1>2, <1>3, <1>4, Zenon DEF TwoChains
  <2>2. LinkedAs(m2, l, n + 1, u, k, p, t)
    BY <2>1, LinkedLists, Zenon
  <2>3. QED
    BY <2>2, Zenon DEF LinkedAs
<1>6. QED
  BY <1>1, <1>2, <1>5, Zenon DEF Joins

(* What remove of an element does to both lists.                           *)
LEMMA RemoveLinked ==
    ASSUME NEW m, Linked(m), NEW l, l \in Lists, NEW k, k \in Lists, l # k,
           NEW o, o \in Elements(m, l)
    PROVE  Leaves(m, Remove(m, l, o), l, k, o)
<1> DEFINE m2 == Remove(m, l, o)
           n  == m.size[l]
           s  == Forward(m, l)
           p  == m.size[k]
           t  == Forward(m, k)
<1>1. /\ m \in Memory
      /\ Chain(m, l, n, s) /\ Elements(m, l) = Members(n, s)
      /\ Chain(m, k, p, t) /\ Elements(m, k) = Members(p, t)
      /\ Members(n, s) \cap Members(p, t) = {}
  <2>1. Elements(m, l) \cap Elements(m, k) = {}
    BY DEF Linked
  <2>2. QED
    BY <2>1, LinkedParts, Zenon
<1>2. PICK j \in 1..n : o = s[j]
  BY <1>1 DEF Members
<1>3. PICK u : /\ m2 \in Memory
               /\ Chain(m2, l, n - 1, u)
               /\ Members(n - 1, u) = Members(n, s) \ {o}
               /\ Detached(m2, o)
               /\ Untouched(m, m2, l, Members(n, s))
  <2> HIDE DEF n, s
  <2>1. QED
    BY <1>1, <1>2, RemoveChain, Zenon
<1>4. Chain(m2, k, p, t)
  <2> HIDE DEF n, s, p, t, m2
  <2>1. Members(p, t) \cap Members(n, s) = {}
    BY <1>1
  <2>2. k \in Lists \ {l}
    OBVIOUS
  <2>3. QED
    BY <1>1, <1>3, <2>1, <2>2, OtherChain, Zenon
<1>5. Members(n - 1, u) \cap Members(p, t) = {}
  BY <1>1, <1>3
<1>6. /\ Linked(m2)
      /\ Elements(m2, l) = Members(n - 1, u)
      /\ Elements(m2, k) = Members(p, t)
  <2> HIDE DEF n, s, p, t, m2
  <2>1. TwoChains(m2, l, n - 1, u, k, p, t)
    BY <1>3, <1>4, <1>5, Zenon DEF TwoChains
  <2>2. LinkedAs(m2, l, n - 1, u, k, p, t)
    BY <2>1, LinkedLists, Zenon
  <2>3. QED
    BY <2>2, Zenon DEF LinkedAs
<1>7. QED
  BY <1>1, <1>3, <1>6, Zenon DEF Leaves

(* removeFirst removes the head, and nothing from an empty list.           *)
LEMMA RemoveFirstIsRemove ==
    ASSUME NEW m, Linked(m), NEW l, l \in Lists
    PROVE  /\ Elements(m, l) = {} => RemoveFirst(m, l) = m
           /\ Elements(m, l) # {} =>
                 /\ m.head[l] \in Elements(m, l)
                 /\ RemoveFirst(m, l) = Remove(m, l, m.head[l])
<1> DEFINE n == m.size[l]
           s == Forward(m, l)
<1>1. m \in Memory /\ Chain(m, l, n, s) /\ Elements(m, l) = Members(n, s)
  BY LinkedParts, Zenon
<1>2. /\ n \in Nat /\ s \in [1..n -> Objects]
      /\ m.head[l] = IF n = 0 THEN Null ELSE s[1]
  BY <1>1 DEF Chain
<1>3. CASE n = 0
  <2>1. Elements(m, l) = {}
    BY <1>1, <1>3 DEF Members
  <2>2. RemoveFirst(m, l) = m
    BY <1>2, <1>3 DEF RemoveFirst
  <2>3. QED
    BY <2>1, <2>2
<1>4. CASE n # 0
  <2> DEFINE o == m.head[l]
  <2>1. 1 \in 1..n /\ o = s[1] /\ o \in Objects /\ o # Null
    BY <1>2, <1>4, NullAssumption
  <2>2. o \in Elements(m, l)
    BY <1>1, <2>1 DEF Members
  <2>3. /\ m.prev[o] = Null
        /\ m.next[o] = IF 1 < n THEN s[2] ELSE Null
        /\ m.tail[l] = s[n]
        /\ \A i, j \in 1..n : s[i] = s[j] => i = j
    BY <1>1, <1>4, <2>1 DEF Chain
  <2>4. m.next[o] = Null => m.tail[l] = o
    <3>1. 1 < n => s[2] \in Objects
      BY <1>2
    <3>2. QED
      BY <1>2, <1>4, <2>1, <2>3, <3>1, NullAssumption
  <2> DEFINE second == m.next[o]
             R(h, t, x, v) == [m EXCEPT !.head[l] = h, !.tail[l] = t, !.next = x,
                                        !.prev = v, !.size[l] = @ - 1]
  <2>5. RemoveFirst(m, l)
          = R(second, IF second = Null THEN Null ELSE m.tail[l],
              [m.next EXCEPT ![o] = Null],
              Link(Link(m.prev, second, Null), o, Null))
    BY <1>1, <2>1 DEF RemoveFirst, Memory
  <2>6. Remove(m, l, o)
          = R(IF m.prev[o] = Null /\ m.head[l] = o THEN second ELSE m.head[l],
              IF second = Null /\ m.tail[l] = o THEN m.prev[o] ELSE m.tail[l],
              Link(Link(m.next, m.prev[o], second), o, Null),
              Link(Link(m.prev, second, m.prev[o]), o, Null))
    BY <1>1, <2>1 DEF Remove, Memory
  <2> HIDE DEF R, second
  <2>7. Link(Link(m.next, Null, second), o, Null) = [m.next EXCEPT ![o] = Null]
    BY <2>1 DEF Link
  <2>8. /\ (IF m.prev[o] = Null /\ m.head[l] = o THEN second ELSE m.head[l]) = second
        /\ (IF second = Null /\ m.tail[l] = o THEN m.prev[o] ELSE m.tail[l])
              = (IF second = Null THEN Null ELSE m.tail[l])
    BY <2>3, <2>4 DEF second
  <2>9. RemoveFirst(m, l) = Remove(m, l, o)
    BY <2>3, <2>5, <2>6, <2>7, <2>8
  <2>10. QED
    BY <2>2, <2>9
<1>5. QED
  BY <1>3, <1>4

-----------------------------------------------------------------------------
(* The loops of the pool over its two lists.                               *)
Free(m) == Elements(m, "free")
Used(m) == Elements(m, "used")

(* The free and the used objects are disjoint sets of objects, and a list is *)
(* empty if it has no object.                                               *)
LEMMA TwoLists ==
    /\ "free" \in Lists /\ "used" \in Lists /\ "free" # "used"
    /\ \A m : Linked(m) => /\ Free(m) \cap Used(m) = {}
                           /\ Free(m) \subseteq Objects /\ Used(m) \subseteq Objects
                           /\ IsFiniteSet(Free(m)) /\ IsFiniteSet(Used(m))
                           /\ IsEmpty(m, "free") <=> Free(m) = {}
<1>1. "free" \in Lists /\ "used" \in Lists /\ "free" # "used"
  BY DEF Lists
<1>2. ASSUME NEW m, Linked(m)
      PROVE  /\ Free(m) \cap Used(m) = {}
             /\ Free(m) \subseteq Objects /\ Used(m) \subseteq Objects
             /\ IsFiniteSet(Free(m)) /\ IsFiniteSet(Used(m))
             /\ IsEmpty(m, "free") <=> Free(m) = {}
  <2>1. Free(m) \cap Used(m) = {}
    BY <1>1, <1>2 DEF Linked, Free, Used
  <2>2. QED
    BY <1>1, <1>2, <2>1, LinkedParts, Zenon DEF Free, Used
<1>3. QED
  BY <1>1, <1>2, Zenon

(* A new object joins the free list.                                       *)
LEMMA AddOneEffect ==
    ASSUME NEW m, Linked(m), Fresh(m) # {}
    PROVE  /\ Linked(AddOne(m))
           /\ Used(AddOne(m)) = Used(m)
           /\ \E o \in Fresh(m) : Free(AddOne(m)) = Free(m) \cup {o}
<1> DEFINE o == CHOOSE x \in Fresh(m) : TRUE
           c == [m EXCEPT !.next[o] = Null, !.prev[o] = Null]
<1>1. o \in Fresh(m) /\ o \in Objects /\ o \notin Free(m) /\ o \notin Used(m)
  BY DEF Fresh, Free, Used
<1>2. AddOne(m) = InsertFirst(c, "free", o)
  BY DEF AddOne
<1> HIDE DEF o
<1>3. m \in Memory
  BY DEF Linked
<1>4. /\ c \in Memory /\ c.next = [m.next EXCEPT ![o] = Null]
      /\ c.prev = [m.prev EXCEPT ![o] = Null]
      /\ c.head = m.head /\ c.tail = m.tail /\ c.size = m.size
  <2>1. /\ m = [next |-> m.next, prev |-> m.prev, head |-> m.head,
                tail |-> m.tail, size |-> m.size]
        /\ m.next \in [Objects -> Objects \cup {Null}]
        /\ m.prev \in [Objects -> Objects \cup {Null}]
    BY <1>3 DEF Memory
  <2>2. c = [next |-> [m.next EXCEPT ![o] = Null], prev |-> [m.prev EXCEPT ![o] = Null],
             head |-> m.head, tail |-> m.tail, size |-> m.size]
    <3>1. c = [m EXCEPT !.next[o] = Null, !.prev[o] = Null]
      OBVIOUS
    <3> HIDE DEF c
    <3>2. QED
      BY <2>1, <3>1
  <2>3. QED
    BY <1>3, <2>1, <2>2 DEF Memory
<1> HIDE DEF c
<1>5. Detached(c, o)
  BY <1>1, <1>3, <1>4 DEF Detached, Memory
<1>6. \A l \in Lists : Untouched(m, c, l, {o})
  BY <1>1, <1>3, <1>4 DEF Untouched, Memory
<1> DEFINE n == m.size["free"]
           s == Forward(m, "free")
           p == m.size["used"]
           t == Forward(m, "used")
<1>7. /\ Chain(m, "free", n, s) /\ Free(m) = Members(n, s)
      /\ Chain(m, "used", p, t) /\ Used(m) = Members(p, t)
  BY TwoLists, LinkedParts, Zenon DEF Free, Used
<1> HIDE DEF n, s, p, t
<1>8. Chain(c, "free", n, s) /\ Chain(c, "used", p, t)
  <2>1. Members(n, s) \cap {o} = {} /\ Members(p, t) \cap {o} = {}
    BY <1>1, <1>7
  <2>2. "free" \in Lists \ {"used"} /\ "used" \in Lists \ {"free"}
    BY TwoLists
  <2>3. Untouched(m, c, "used", {o}) /\ Untouched(m, c, "free", {o})
    BY <1>6, TwoLists
  <2>4. QED
    BY <1>7, <2>1, <2>2, <2>3, OtherChain, Zenon
<1>9. Linked(c) /\ Free(c) = Free(m) /\ Used(c) = Used(m)
  <2>1. TwoChains(c, "free", n, s, "used", p, t)
    <3>1. Free(m) \cap Used(m) = {}
      BY TwoLists
    <3>2. QED
      BY <1>4, <1>7, <1>8, <3>1, Zenon DEF TwoChains
  <2>2. LinkedAs(c, "free", n, s, "used", p, t)
    BY <2>1, LinkedLists, TwoLists, Zenon
  <2>3. QED
    BY <1>7, <2>2, Zenon DEF LinkedAs, Free, Used
<1>10. /\ Linked(InsertFirst(c, "free", o))
       /\ Free(InsertFirst(c, "free", o)) = Free(c) \cup {o}
       /\ Used(InsertFirst(c, "free", o)) = Used(c)
  <2>1. o \notin Elements(c, "free") /\ o \notin Elements(c, "used")
    BY <1>1, <1>9 DEF Free, Used
  <2>2. Joins(c, InsertFirst(c, "free", o), "free", "used", o)
    BY <1>1, <1>5, <1>9, <2>1, TwoLists, InsertFirstLinked, Zenon
  <2>3. QED
    BY <2>2, Zenon DEF Joins, Free, Used
<1>11. QED
  BY <1>1, <1>2, <1>9, <1>10

(* f records the memory before and after each of n turns of the loop of    *)
(* autoIncreaseLists.                                                      *)
Growing(f, m, n) ==
    f = [k \in 0..n |-> IF k = 0 THEN m ELSE AddOne(f[k - 1])]

(* Any number of turns of that loop has a record.                           *)
LEMMA GrowingExists ==
    ASSUME NEW m
    PROVE  \A n \in Nat : \E f : Growing(f, m, n)
<1> DEFINE S == {n \in Nat : \E f : Growing(f, m, n)}
<1>1. 0 \in S
  <2> DEFINE f == [k \in 0..0 |-> m]
  <2>1. Growing(f, m, 0)
    BY DEF Growing
  <2>2. QED
    BY <2>1
<1>2. ASSUME NEW n \in Nat, n \in S PROVE n + 1 \in S
  <2>1. PICK f : Growing(f, m, n)
    BY <1>2
  <2> DEFINE g == [k \in 0..(n + 1) |-> IF k = n + 1 THEN AddOne(f[n]) ELSE f[k]]
  <2>2. ASSUME NEW k \in 0..(n + 1)
        PROVE  g[k] = IF k = 0 THEN m ELSE AddOne(g[k - 1])
    <3>1. CASE k = n + 1
      BY <3>1
    <3>2. CASE k # n + 1
      <4>1. k \in 0..n /\ g[k] = f[k] /\ k # 0 => g[k - 1] = f[k - 1]
        BY <3>2
      <4>2. f[k] = IF k = 0 THEN m ELSE AddOne(f[k - 1])
        BY <2>1, <4>1, <3>2 DEF Growing
      <4>3. g[k] = f[k]
        BY <3>2
      <4>4. CASE k = 0
        BY <4>2, <4>3, <4>4
      <4>5. CASE k # 0
        <5>1. g[k - 1] = f[k - 1]
          BY <3>2, <4>5
        <5>2. QED
          BY <4>2, <4>3, <4>5, <5>1
      <4>6. QED
        BY <4>4, <4>5
    <3>3. QED
      BY <3>1, <3>2
  <2>3. Growing(g, m, n + 1)
    <3>1. g = [k \in 0..(n + 1) |-> g[k]]
      OBVIOUS
    <3> HIDE DEF g
    <3>2. QED
      BY <2>2, <3>1 DEF Growing
  <2>4. QED
    BY <2>3
<1> HIDE DEF S
<1>3. Nat \subseteq S
  BY <1>1, <1>2, SetInduction, Zenon
<1>4. QED
  BY <1>3 DEF S

(* m2 is m with k new objects in the free list.                            *)
Grown(m, m2, k) ==
    /\ Linked(m2)
    /\ Used(m2) = Used(m)
    /\ \E new \in SUBSET Fresh(m) :
          /\ IsFiniteSet(new) /\ Cardinality(new) = k
          /\ Free(m2) = Free(m) \cup new

(* The loop of autoIncreaseLists adds as many new objects as it is told.   *)
LEMMA AddNewEffect ==
    ASSUME NEW m, Linked(m), NEW n \in Nat, n <= Cardinality(Fresh(m))
    PROVE  Grown(m, AddNew(m, n), n)
<1> DEFINE made == CHOOSE f : Growing(f, m, n)
<1>1. AddNew(m, n) = made[n]
  BY DEF AddNew, Growing
<1>2. Growing(made, m, n)
  BY GrowingExists
<1> HIDE DEF made
<1>3. IsFiniteSet(Fresh(m)) /\ Cardinality(Fresh(m)) \in Nat
  <2>1. Fresh(m) \subseteq Objects
    BY DEF Fresh
  <2>2. QED
    BY <2>1, ObjectsAssumption, FS_Subset, FS_CardinalityType
<1> DEFINE S == {k \in Nat : k <= n => Grown(m, made[k], k)}
<1>4. 0 \in S
  <2>1. made[0] = m
    BY <1>2 DEF Growing
  <2>2. Grown(m, m, 0)
    <3>1. {} \in SUBSET Fresh(m) /\ Free(m) = Free(m) \cup {}
      OBVIOUS
    <3>2. QED
      BY <3>1, FS_EmptySet, Zenon DEF Grown
  <2>3. QED
    BY <2>1, <2>2
<1>5. ASSUME NEW k \in Nat, k \in S PROVE k + 1 \in S
  <2> SUFFICES ASSUME k + 1 <= n PROVE Grown(m, made[k + 1], k + 1)
    OBVIOUS
  <2>1. made[k + 1] = AddOne(made[k])
    BY <1>2 DEF Growing
  <2>2. Grown(m, made[k], k)
    BY <1>5
  <2> DEFINE m1 == made[k]
             m2 == made[k + 1]
  <2>3. PICK new \in SUBSET Fresh(m) : /\ IsFiniteSet(new) /\ Cardinality(new) = k
                                       /\ Free(m1) = Free(m) \cup new
    BY <2>2 DEF Grown
  <2>4. Linked(m1) /\ Used(m1) = Used(m)
    BY <2>2 DEF Grown
  <2>5. Fresh(m1) = Fresh(m) \ new
    BY <2>3, <2>4 DEF Fresh, Free, Used
  <2>6. Fresh(m1) # {}
    <3>1. new # Fresh(m)
      BY <1>3, <2>3
    <3>2. QED
      BY <2>3, <2>5, <3>1
  <2> HIDE DEF m1, m2
  <2>7. /\ Linked(m2) /\ Used(m2) = Used(m1)
        /\ \E o \in Fresh(m1) : Free(m2) = Free(m1) \cup {o}
    BY <2>1, <2>4, <2>6, AddOneEffect, Zenon DEF m1, m2
  <2>8. PICK o \in Fresh(m1) : Free(m2) = Free(m1) \cup {o}
    BY <2>7
  <2> DEFINE more == new \cup {o}
  <2>9. o \notin new /\ o \in Fresh(m)
    BY <2>5, <2>8
  <2>10. IsFiniteSet(more) /\ Cardinality(more) = k + 1
    BY <2>3, <2>9, FS_AddElement
  <2>11. more \in SUBSET Fresh(m) /\ Free(m2) = Free(m) \cup more
    BY <2>3, <2>8, <2>9
  <2> HIDE DEF more
  <2>12. Grown(m, m2, k + 1)
    BY <2>4, <2>7, <2>10, <2>11, Zenon DEF Grown
  <2>13. QED
    BY <2>12 DEF m2
<1> HIDE DEF S
<1>6. Nat \subseteq S
  BY <1>4, <1>5, SetInduction, Zenon
<1>7. n \in S
  BY <1>6
<1>8. Grown(m, made[n], n)
  BY <1>7 DEF S
<1>9. QED
  BY <1>1, <1>8

(* f records the memory before and after each of n turns of the loop of    *)
(* autoDecreaseLists.                                                      *)
Shrinking(f, m, n) ==
    f = [k \in 0..n |-> IF k = 0 THEN m ELSE RemoveFirst(f[k - 1], "free")]

(* Any number of turns of that loop has a record.                           *)
LEMMA ShrinkingExists ==
    ASSUME NEW m
    PROVE  \A n \in Nat : \E f : Shrinking(f, m, n)
<1> DEFINE S == {n \in Nat : \E f : Shrinking(f, m, n)}
<1>1. 0 \in S
  <2> DEFINE f == [k \in 0..0 |-> m]
  <2>1. Shrinking(f, m, 0)
    BY DEF Shrinking
  <2>2. QED
    BY <2>1
<1>2. ASSUME NEW n \in Nat, n \in S PROVE n + 1 \in S
  <2>1. PICK f : Shrinking(f, m, n)
    BY <1>2
  <2> DEFINE g == [k \in 0..(n + 1) |-> IF k = n + 1 THEN RemoveFirst(f[n], "free")
                                        ELSE f[k]]
  <2>2. ASSUME NEW k \in 0..(n + 1)
        PROVE  g[k] = IF k = 0 THEN m ELSE RemoveFirst(g[k - 1], "free")
    <3>1. CASE k = n + 1
      BY <3>1
    <3>2. CASE k # n + 1
      <4>1. k \in 0..n /\ g[k] = f[k]
        BY <3>2
      <4>2. f[k] = IF k = 0 THEN m ELSE RemoveFirst(f[k - 1], "free")
        BY <2>1, <4>1 DEF Shrinking
      <4>3. CASE k = 0
        BY <4>1, <4>2, <4>3
      <4>4. CASE k # 0
        <5>1. g[k - 1] = f[k - 1]
          BY <3>2, <4>4
        <5>2. QED
          BY <4>1, <4>2, <4>4, <5>1
      <4>5. QED
        BY <4>3, <4>4
    <3>3. QED
      BY <3>1, <3>2
  <2>3. Shrinking(g, m, n + 1)
    <3>1. g = [k \in 0..(n + 1) |-> g[k]]
      OBVIOUS
    <3> HIDE DEF g
    <3>2. QED
      BY <2>2, <3>1 DEF Shrinking
  <2>4. QED
    BY <2>3
<1> HIDE DEF S
<1>3. Nat \subseteq S
  BY <1>1, <1>2, SetInduction, Zenon
<1>4. QED
  BY <1>3 DEF S

(* m2 is m without k objects of the free list, or without all of them.     *)
Shrunk(m, m2, k) ==
    /\ Linked(m2)
    /\ Used(m2) = Used(m)
    /\ \E deleted \in SUBSET Free(m) :
          /\ Cardinality(deleted) = Promise!Smaller(k, Cardinality(Free(m)))
          /\ Free(m2) = Free(m) \ deleted

(* The loop of autoDecreaseLists deletes as many free objects as it is     *)
(* told, as long as there are some.                                        *)
LEMMA DeleteFirstEffect ==
    ASSUME NEW m, Linked(m), NEW n \in Nat
    PROVE  Shrunk(m, DeleteFirst(m, n), n)
<1> DEFINE left == CHOOSE f : Shrinking(f, m, n)
           size == Cardinality(Free(m))
<1>1. DeleteFirst(m, n) = left[n]
  BY DEF DeleteFirst, Shrinking
<1>2. Shrinking(left, m, n)
  BY ShrinkingExists
<1> HIDE DEF left
<1>3. IsFiniteSet(Free(m)) /\ size \in Nat
  BY TwoLists, FS_CardinalityType
<1> DEFINE S == {k \in Nat : k <= n => Shrunk(m, left[k], k)}
<1>4. 0 \in S
  <2>1. left[0] = m
    BY <1>2 DEF Shrinking
  <2>2. {} \in SUBSET Free(m) /\ Free(m) = Free(m) \ {}
    OBVIOUS
  <2>3. Cardinality({}) = Promise!Smaller(0, size)
    BY <1>3, FS_EmptySet DEF Promise!Smaller
  <2>4. Shrunk(m, m, 0)
    BY <2>2, <2>3, Zenon DEF Shrunk
  <2>5. QED
    BY <2>1, <2>4
<1>5. ASSUME NEW k \in Nat, k \in S PROVE k + 1 \in S
  <2> SUFFICES ASSUME k + 1 <= n PROVE Shrunk(m, left[k + 1], k + 1)
    OBVIOUS
  <2> DEFINE m1 == left[k]
             m2 == left[k + 1]
  <2>1. m2 = RemoveFirst(m1, "free")
    BY <1>2 DEF Shrinking
  <2>2. Shrunk(m, m1, k)
    BY <1>5
  <2> HIDE DEF m1, m2
  <2>3. PICK deleted \in SUBSET Free(m) :
               /\ Cardinality(deleted) = Promise!Smaller(k, size)
               /\ Free(m1) = Free(m) \ deleted
    BY <2>2 DEF Shrunk
  <2>4. Linked(m1) /\ Used(m1) = Used(m)
    BY <2>2 DEF Shrunk
  <2>5. IsFiniteSet(deleted) /\ Cardinality(deleted) \in Nat
    BY <1>3, FS_Subset, FS_CardinalityType
  <2>6. CASE Free(m1) = {}
    <3>1. m2 = m1
      BY <2>1, <2>4, <2>6, TwoLists, RemoveFirstIsRemove DEF Free
    <3>2. deleted = Free(m)
      BY <2>3, <2>6
    <3>3. Cardinality(deleted) = Promise!Smaller(k + 1, size)
      BY <1>3, <2>3, <3>2 DEF Promise!Smaller
    <3>4. Shrunk(m, m2, k + 1)
      BY <2>3, <2>4, <3>1, <3>3 DEF Shrunk
    <3>5. QED
      BY <3>4 DEF m2
  <2>7. CASE Free(m1) # {}
    <3> DEFINE o == m1.head["free"]
    <3>1. o \in Elements(m1, "free") /\ m2 = Remove(m1, "free", o)
      BY <2>1, <2>4, <2>7, TwoLists, RemoveFirstIsRemove DEF Free
    <3> HIDE DEF o
    <3>2. Linked(m2) /\ Free(m2) = Free(m1) \ {o} /\ Used(m2) = Used(m1)
      <4>1. Leaves(m1, m2, "free", "used", o)
        BY <2>4, <3>1, TwoLists, RemoveLinked, Zenon
      <4>2. QED
        BY <4>1, Zenon DEF Leaves, Free, Used
    <3> DEFINE more == deleted \cup {o}
    <3>3. o \in Free(m) /\ o \notin deleted
      BY <2>3, <3>1 DEF Free
    <3>4. Cardinality(more) = Cardinality(deleted) + 1
      BY <2>5, <3>3, FS_AddElement
    <3>5. more \in SUBSET Free(m) /\ Free(m2) = Free(m) \ more
      BY <2>3, <3>2, <3>3
    <3>6. Cardinality(deleted) < size
      <4>1. deleted # Free(m)
        BY <3>3
      <4>2. QED
        BY <1>3, <2>5, <4>1, FS_Subset
    <3> HIDE DEF more
    <3>7. Cardinality(more) = Promise!Smaller(k + 1, size)
      BY <1>3, <2>3, <2>5, <3>4, <3>6 DEF Promise!Smaller
    <3>8. Shrunk(m, m2, k + 1)
      BY <2>4, <3>2, <3>5, <3>7 DEF Shrunk
    <3>9. QED
      BY <3>8 DEF m2
  <2>8. QED
    BY <2>6, <2>7
<1> HIDE DEF S
<1>6. Nat \subseteq S
  BY <1>4, <1>5, SetInduction, Zenon
<1>7. n \in S
  BY <1>6
<1>8. Shrunk(m, left[n], n)
  BY <1>7 DEF S
<1>9. QED
  BY <1>1, <1>8

(* The head of the free list moves to the used list.                       *)
LEMMA HandOutEffect ==
    ASSUME NEW m, Linked(m), Free(m) # {}
    PROVE  LET o  == m.head["free"]
               m2 == InsertFirst(RemoveFirst(m, "free"), "used", o)
           IN  /\ Linked(m2)
               /\ o \in Free(m)
               /\ Free(m2) = Free(m) \ {o}
               /\ Used(m2) = Used(m) \cup {o}
<1> DEFINE o  == m.head["free"]
           m1 == RemoveFirst(m, "free")
           m2 == InsertFirst(m1, "used", o)
<1> SUFFICES /\ Linked(m2)
             /\ o \in Free(m)
             /\ Free(m2) = Free(m) \ {o}
             /\ Used(m2) = Used(m) \cup {o}
  OBVIOUS
<1>1. o \in Elements(m, "free") /\ m1 = Remove(m, "free", o)
  BY TwoLists, RemoveFirstIsRemove DEF Free
<1> HIDE DEF o, m1
<1>2. /\ Linked(m1) /\ Detached(m1, o)
      /\ Free(m1) = Free(m) \ {o} /\ Used(m1) = Used(m)
  <2>1. Leaves(m, m1, "free", "used", o)
    BY <1>1, TwoLists, RemoveLinked, Zenon
  <2>2. QED
    BY <2>1, Zenon DEF Leaves, Free, Used
<1>3. o \in Free(m) /\ o \in Objects /\ o \notin Used(m)
  BY <1>1, TwoLists DEF Free
<1>4. o \notin Elements(m1, "used") /\ o \notin Elements(m1, "free")
  BY <1>2, <1>3 DEF Free, Used
<1>5. Joins(m1, m2, "used", "free", o)
  BY <1>2, <1>3, <1>4, TwoLists, InsertFirstLinked, Zenon
<1> HIDE DEF m2
<1>6. QED
  BY <1>2, <1>3, <1>5 DEF Joins, Free, Used

(* An object that is in use moves to the head of the free list.            *)
LEMMA ReturnEffect ==
    ASSUME NEW m, Linked(m), NEW o, o \in Used(m)
    PROVE  LET m2 == InsertFirst(Remove(m, "used", o), "free", o)
           IN  /\ Linked(m2)
               /\ Free(m2) = Free(m) \cup {o}
               /\ Used(m2) = Used(m) \ {o}
<1> DEFINE m1 == Remove(m, "used", o)
           m2 == InsertFirst(m1, "free", o)
<1> SUFFICES /\ Linked(m2)
             /\ Free(m2) = Free(m) \cup {o}
             /\ Used(m2) = Used(m) \ {o}
  OBVIOUS
<1>1. /\ Linked(m1) /\ Detached(m1, o)
      /\ Used(m1) = Used(m) \ {o} /\ Free(m1) = Free(m)
  <2>1. o \in Elements(m, "used")
    BY DEF Used
  <2>2. Leaves(m, m1, "used", "free", o)
    BY <2>1, TwoLists, RemoveLinked, Zenon
  <2>3. QED
    BY <2>2, Zenon DEF Leaves, Free, Used
<1> HIDE DEF m1
<1>2. o \in Objects /\ o \notin Free(m)
  BY TwoLists
<1>3. o \notin Elements(m1, "used") /\ o \notin Elements(m1, "free")
  BY <1>1, <1>2 DEF Free, Used
<1>4. Joins(m1, m2, "free", "used", o)
  BY <1>1, <1>2, <1>3, TwoLists, InsertFirstLinked, Zenon
<1> HIDE DEF m2
<1>5. QED
  BY <1>1, <1>4 DEF Joins, Free, Used

-----------------------------------------------------------------------------
(* The first n + 1 capacities of the history are ascending up to top.      *)
Stack(h, n, top) ==
    /\ n \in Nat /\ h \in Seq(Nat)
    /\ n < Len(h)
    /\ h[n + 1] = top
    /\ \A i \in 1..n : h[i] < h[i + 1]

(* The counters of the pool have their types, and its history is the stack *)
(* of capacities that autoDecreaseLists relies on.                         *)
CountersOK(p) ==
    /\ p \in [free : Int, used : Int, peak : Int, capacity : Nat,
              increment : Increments, enlargements : Nat, history : Seq(Nat),
              previousThreshold : Int]
    /\ Stack(p.history, p.enlargements, p.capacity)

(* Both lists are well linked, and the counters are numbers whose history   *)
(* of capacities ascends to the capacity there is: what the walks along the *)
(* pointers need to find the objects of the abstract pool.                  *)
LinkedInv ==
    /\ Linked(mem)
    /\ CountersOK(pool)

(* The threshold is truncated to an integer (ObjectPool.cpp:76-94).         *)
LEMMA ThresholdIsInt == Threshold \in Int
<1> DEFINE product == InitialCapacity * ThresholdPct
<1>1. InitialCapacity \in Nat /\ product \in Nat
  <2>1. Cardinality(Objects) \in Nat
    BY ObjectsAssumption, FS_CardinalityType
  <2>2. QED
    BY <2>1, CapacityAssumption, ThresholdAssumption
<1>2. Threshold = IF GrowthMode = Promise!NoGrowth THEN 0
                  ELSE InitialCapacity - (product \div 100)
  BY DEF Threshold, Promise!InitialThreshold
<1> HIDE DEF product
<1>3. product \div 100 \in Nat
  BY <1>1
<1>4. QED
  BY <1>1, <1>2, <1>3

(* An entry of the history is reused or a new one appended; the stack of   *)
(* capacities stays ascending.                                             *)
Recorded(h, n, capacity) ==
    IF n + 2 <= Len(h) THEN [h EXCEPT ![n + 2] = capacity] ELSE Append(h, capacity)

(* A larger capacity goes on top of the stack, over a stale entry if there  *)
(* is one (ObjectPool.cpp:381-385).                                         *)
LEMMA StackGrows ==
    ASSUME NEW h, NEW n, NEW top, Stack(h, n, top), NEW capacity \in Nat, top < capacity
    PROVE  Stack(Recorded(h, n, capacity), n + 1, capacity)
<1> DEFINE g == Recorded(h, n, capacity)
<1>1. /\ n \in Nat /\ h \in Seq(Nat) /\ n < Len(h) /\ h[n + 1] = top
      /\ \A i \in 1..n : h[i] < h[i + 1]
  BY DEF Stack
<1>2. /\ g \in Seq(Nat)
      /\ n + 1 < Len(g)
      /\ \A i \in 1..(n + 1) : g[i] = h[i]
      /\ g[n + 2] = capacity
  <2>1. CASE n + 2 <= Len(h)
    <3>1. g = [h EXCEPT ![n + 2] = capacity]
      BY <2>1 DEF Recorded
    <3> HIDE DEF g
    <3>2. QED
      BY <1>1, <2>1, <3>1
  <2>2. CASE ~(n + 2 <= Len(h))
    <3>1. g = Append(h, capacity) /\ Len(h) = n + 1
      BY <1>1, <2>2 DEF Recorded
    <3> HIDE DEF g
    <3>2. QED
      BY <1>1, <3>1
  <2>3. QED
    BY <2>1, <2>2
<1> HIDE DEF g
<1>3. \A i \in 1..(n + 1) : g[i] < g[i + 1]
  <2> TAKE i \in 1..(n + 1)
  <2>1. CASE i = n + 1
    <3>1. g[i] = top /\ g[i + 1] = capacity
      BY <1>1, <1>2, <2>1
    <3>2. QED
      BY <3>1
  <2>2. CASE i # n + 1
    <3>1. i \in 1..n /\ i + 1 \in 1..(n + 1)
      BY <1>1, <2>2
    <3>2. g[i] = h[i] /\ g[i + 1] = h[i + 1]
      BY <1>2, <3>1
    <3>3. QED
      BY <1>1, <3>1, <3>2
  <2>3. QED
    BY <2>1, <2>2
<1>4. Stack(g, n + 1, capacity)
  <2>1. n + 1 \in Nat /\ (n + 1) + 1 = n + 2
    BY <1>1
  <2>2. QED
    BY <1>2, <1>3, <2>1 DEF Stack
<1>5. QED
  BY <1>4 DEF g

(* The counters that autoIncreaseLists leaves.                             *)
Increased(p, q) ==
    /\ CountersOK(q)
    /\ q.free = p.free + p.increment
    /\ q.used = p.used
    /\ q.peak = p.peak
    /\ q.capacity = p.capacity + p.increment
    /\ q.increment = p.increment
    /\ q.enlargements = p.enlargements + 1
    /\ q.previousThreshold = p.capacity - Threshold
    /\ q.history = Recorded(p.history, p.enlargements, p.capacity + p.increment)

(* autoIncreaseLists does that to the counters (ObjectPool.cpp:349-390).    *)
LEMMA AutoIncreaseCounters ==
    ASSUME NEW p, CountersOK(p)
    PROVE  Increased(p, AutoIncreaseLists(p))
<1> DEFINE n        == p.enlargements
           h        == p.history
           capacity == p.capacity + p.increment
           g        == Recorded(h, n, capacity)
           q        == AutoIncreaseLists(p)
<1>1. /\ p = [free |-> p.free, used |-> p.used, peak |-> p.peak,
              capacity |-> p.capacity, increment |-> p.increment,
              enlargements |-> n, history |-> h,
              previousThreshold |-> p.previousThreshold]
      /\ p.free \in Int /\ p.used \in Int /\ p.peak \in Int /\ p.capacity \in Nat
      /\ p.increment \in Increments /\ n \in Nat /\ h \in Seq(Nat)
      /\ Stack(h, n, p.capacity)
  BY DEF CountersOK
<1>2. p.increment \in Nat \ {0} /\ capacity \in Nat /\ p.capacity < capacity
  BY <1>1, IncrementAssumption
<1>3. q = [free |-> p.free + p.increment, used |-> p.used, peak |-> p.peak,
           capacity |-> capacity, increment |-> p.increment,
           enlargements |-> n + 1, history |-> g,
           previousThreshold |-> p.capacity - Threshold]
  <2>1. (IF n + 1 < Len(h) THEN [h EXCEPT ![(n + 1) + 1] = capacity]
                           ELSE Append(h, capacity)) = g
    <3>1. ASSUME NEW a \in Nat, NEW b \in Seq(Nat), NEW c
          PROVE  (IF a + 1 < Len(b) THEN [b EXCEPT ![(a + 1) + 1] = c]
                                    ELSE Append(b, c)) = Recorded(b, a, c)
      <4>1. (a + 1) + 1 = a + 2 /\ (a + 1 < Len(b) <=> a + 2 <= Len(b))
        OBVIOUS
      <4>2. QED
        BY <4>1 DEF Recorded
    <3>2. QED
      BY <1>1, <3>1
  <2>2. q = [p EXCEPT !.enlargements = n + 1,
                      !.previousThreshold = p.capacity - Threshold,
                      !.free = p.free + p.increment,
                      !.capacity = capacity,
                      !.history = IF n + 1 < Len(h) THEN [h EXCEPT ![(n + 1) + 1] = capacity]
                                                    ELSE Append(h, capacity)]
    BY <1>1 DEF AutoIncreaseLists
  <2> HIDE DEF q, capacity, g
  <2>3. q = [p EXCEPT !.enlargements = n + 1,
                      !.previousThreshold = p.capacity - Threshold,
                      !.free = p.free + p.increment,
                      !.capacity = capacity,
                      !.history = g]
    BY <2>1, <2>2
  <2> HIDE DEF n, h
  <2>4. QED
    BY <1>1, <2>3
<1>4. Stack(g, n + 1, capacity)
  <2> HIDE DEF n, h, capacity
  <2>1. QED
    BY <1>1, <1>2, StackGrows
<1>5. p.capacity - Threshold \in Int /\ p.free + p.increment \in Int
  BY <1>1, <1>2, ThresholdIsInt
<1> HIDE DEF q, n, h, capacity, g
<1>6. CountersOK(q)
  BY <1>1, <1>2, <1>3, <1>4, <1>5 DEF CountersOK, Stack
<1>7. Increased(p, q)
  BY <1>3, <1>6 DEF Increased, n, h, capacity, g
<1>8. QED
  BY <1>7 DEF q

(* The counters that autoDecreaseLists leaves: the capacity under the last *)
(* enlargement is smaller, so there is something to delete.                *)
Decreased(p, q) ==
    /\ CountersOK(q)
    /\ q.capacity = p.history[p.enlargements]
    /\ p.capacity - q.capacity \in Nat
    /\ q.free = p.free - (p.capacity - q.capacity)
    /\ q.used = p.used
    /\ q.peak = p.peak
    /\ q.increment = p.increment
    /\ q.enlargements = p.enlargements - 1
    /\ q.history = p.history
    /\ q.previousThreshold = IF p.enlargements - 1 > 0
                             THEN p.history[p.enlargements - 1] - Threshold ELSE -1

(* autoDecreaseLists does that to the counters (ObjectPool.cpp:401-437).    *)
LEMMA AutoDecreaseCounters ==
    ASSUME NEW p, CountersOK(p), p.enlargements > 0
    PROVE  Decreased(p, AutoDecreaseLists(p))
<1> DEFINE n       == p.enlargements
           h       == p.history
           smaller == h[n]
           below   == IF n - 1 > 0 THEN h[n - 1] - Threshold ELSE -1
           q       == AutoDecreaseLists(p)
<1>1. /\ p = [free |-> p.free, used |-> p.used, peak |-> p.peak,
              capacity |-> p.capacity, increment |-> p.increment,
              enlargements |-> n, history |-> h,
              previousThreshold |-> p.previousThreshold]
      /\ p.free \in Int /\ p.used \in Int /\ p.peak \in Int /\ p.capacity \in Nat
      /\ p.increment \in Increments /\ n \in Nat /\ h \in Seq(Nat)
      /\ Stack(h, n, p.capacity) /\ n > 0
  BY DEF CountersOK
<1> HIDE DEF n, h
<1>2. smaller \in Nat /\ smaller < p.capacity /\ n - 1 \in Nat
  <2>1. ASSUME NEW top, Stack(h, n, top), n > 0
        PROVE  h[n] \in Nat /\ h[n] < top /\ n - 1 \in Nat
    <3>1. n \in 1..n /\ n \in 1..Len(h)
      BY <2>1 DEF Stack
    <3>2. QED
      BY <2>1, <3>1 DEF Stack
  <2>2. QED
    BY <1>1, <2>1
<1>3. below \in Int
  <2>1. CASE n - 1 > 0
    <3>1. h[n - 1] \in Nat
      BY <1>1, <2>1 DEF Stack
    <3>2. QED
      BY <2>1, <3>1, ThresholdIsInt
  <2>2. CASE ~(n - 1 > 0)
    BY <2>2
  <2>3. QED
    BY <2>1, <2>2
<1>4. q = [free |-> p.free - (p.capacity - smaller), used |-> p.used, peak |-> p.peak,
           capacity |-> smaller, increment |-> p.increment,
           enlargements |-> n - 1, history |-> h, previousThreshold |-> below]
  <2>1. q = [p EXCEPT !.enlargements = n - 1,
                      !.previousThreshold = below,
                      !.capacity = smaller,
                      !.free = p.free - (p.capacity - smaller)]
    BY <1>1 DEF AutoDecreaseLists, n, h
  <2>2. p = [free |-> p.free, used |-> p.used, peak |-> p.peak,
             capacity |-> p.capacity, increment |-> p.increment,
             enlargements |-> p.enlargements, history |-> p.history,
             previousThreshold |-> p.previousThreshold]
    BY <1>1 DEF n, h
  <2> DEFINE free == p.free - (p.capacity - smaller)
  <2> HIDE DEF q, below, smaller, free
  <2>3. q = [p EXCEPT !.enlargements = n - 1, !.previousThreshold = below,
                      !.capacity = smaller, !.free = free]
    BY <2>1 DEF free
  <2>4. q = [free |-> free, used |-> p.used, peak |-> p.peak, capacity |-> smaller,
             increment |-> p.increment, enlargements |-> n - 1,
             history |-> p.history, previousThreshold |-> below]
    BY <2>2, <2>3
  <2>5. QED
    BY <2>4 DEF free, h
<1> HIDE DEF q, below
<1>5. Stack(h, n - 1, smaller)
  BY <1>1, <1>2 DEF Stack
<1>6. p.free - (p.capacity - smaller) \in Int /\ p.capacity - smaller \in Nat
  BY <1>1, <1>2
<1> HIDE DEF smaller
<1>7. CountersOK(q)
  BY <1>1, <1>2, <1>3, <1>4, <1>5, <1>6 DEF CountersOK
<1>8. Decreased(p, q)
  BY <1>4, <1>6, <1>7 DEF Decreased, below, smaller, n, h
<1>9. QED
  BY <1>8 DEF q

(* The counters that one object handed out or given back leaves.           *)
Move(p, free, used, peak) == [p EXCEPT !.free = free, !.used = used, !.peak = peak]

Moved(p, q, free, used, peak) ==
    /\ CountersOK(q)
    /\ q.free = free /\ q.used = used /\ q.peak = peak
    /\ q.capacity = p.capacity /\ q.increment = p.increment
    /\ q.enlargements = p.enlargements /\ q.history = p.history
    /\ q.previousThreshold = p.previousThreshold

(* An object that changes its list changes three counters only.             *)
LEMMA MovedCounters ==
    ASSUME NEW p, CountersOK(p),
           NEW free, free \in Int, NEW used, used \in Int, NEW peak, peak \in Int
    PROVE  Moved(p, Move(p, free, used, peak), free, used, peak)
<1> DEFINE q == Move(p, free, used, peak)
<1>1. p = [free |-> p.free, used |-> p.used, peak |-> p.peak,
           capacity |-> p.capacity, increment |-> p.increment,
           enlargements |-> p.enlargements, history |-> p.history,
           previousThreshold |-> p.previousThreshold]
  BY DEF CountersOK
<1>2. q = [p EXCEPT !.free = free, !.used = used, !.peak = peak]
  BY DEF Move
<1> HIDE DEF q
<1>3. q = [free |-> free, used |-> used, peak |-> peak,
           capacity |-> p.capacity, increment |-> p.increment,
           enlargements |-> p.enlargements, history |-> p.history,
           previousThreshold |-> p.previousThreshold]
  BY <1>1, <1>2
<1>4. CountersOK(q)
  BY <1>3 DEF CountersOK
<1>5. Moved(p, q, free, used, peak)
  BY <1>3, <1>4 DEF Moved
<1>6. QED
  BY <1>5 DEF q

(* The abstract pool counts the elements of its lists as this module does. *)
LEMMA SameSizes ==
    ASSUME NEW S
    PROVE  /\ Promise!IsFiniteSet(S) <=> IsFiniteSet(S)
           /\ Promise!Cardinality(S) = Cardinality(S)
<1>1. Promise!IsFiniteSet(S) <=> IsFiniteSet(S)
  BY Zenon DEF Promise!IsFiniteSet, IsFiniteSet
<1>2. Promise!Cardinality(S) = Cardinality(S)
  BY Zenon DEF Promise!Cardinality, Cardinality
<1>3. QED
  BY <1>1, <1>2

-----------------------------------------------------------------------------
(* The constructor.                                                        *)
LEMMA EmptyMemoryLinked ==
    LET m == EmptyMemory({"free", "used"})
    IN  Linked(m) /\ Free(m) = {} /\ Used(m) = {} /\ Fresh(m) = Objects
<1> DEFINE m == EmptyMemory({"free", "used"})
           s == [i \in 1..0 |-> Null]
<1>1. m \in Memory
  BY DEF EmptyMemory, Memory, Lists
<1>2. \A l \in Lists : m.head[l] = Null /\ m.tail[l] = Null /\ m.size[l] = 0
  BY DEF EmptyMemory, Lists
<1> HIDE DEF m
<1>3. Members(0, s) = {}
  BY DEF Members
<1>4. \A l \in Lists : Chain(m, l, 0, s)
  BY <1>2 DEF Chain
<1> HIDE DEF s
<1>5. TwoChains(m, "free", 0, s, "used", 0, s)
  BY <1>1, <1>3, <1>4, TwoLists DEF TwoChains
<1>6. LinkedAs(m, "free", 0, s, "used", 0, s)
  BY <1>5, TwoLists, LinkedLists, Zenon
<1>7. Linked(m) /\ Free(m) = {} /\ Used(m) = {}
  BY <1>3, <1>6 DEF LinkedAs, Free, Used
<1>8. Fresh(m) = Objects
  BY <1>7 DEF Fresh, Free, Used
<1>9. QED
  BY <1>7, <1>8 DEF m

(* The constructor's lists and counters are those of the abstract pool.    *)
LEMMA InitImplements == Init => LinkedInv /\ Promise!Init
<1> SUFFICES ASSUME Init PROVE LinkedInv /\ Promise!Init
  OBVIOUS
<1> DEFINE m == EmptyMemory({"free", "used"})
<1>1. Linked(m) /\ Free(m) = {} /\ Used(m) = {} /\ Fresh(m) = Objects
  BY EmptyMemoryLinked
<1>2. mem = AddNew(m, InitialCapacity)
  BY DEF Init
<1> HIDE DEF m
<1>3. /\ InitialCapacity \in Nat \ {0}
      /\ InitialCapacity <= Cardinality(Objects)
  <2>1. Cardinality(Objects) \in Nat
    BY ObjectsAssumption, FS_CardinalityType
  <2>2. QED
    BY <2>1, CapacityAssumption
<1>4. Grown(m, mem, InitialCapacity)
  BY <1>1, <1>2, <1>3, AddNewEffect
<1>5. /\ Linked(mem) /\ Used(mem) = {}
      /\ Free(mem) \in {new \in SUBSET Objects :
                           IsFiniteSet(new) /\ Cardinality(new) = InitialCapacity}
  <2>1. PICK new \in SUBSET Objects :
               /\ IsFiniteSet(new) /\ Cardinality(new) = InitialCapacity
               /\ Free(mem) = Free(m) \cup new
    BY <1>1, <1>4 DEF Grown
  <2>2. Free(mem) = new
    BY <1>1, <2>1
  <2>3. QED
    BY <1>1, <1>4, <2>1, <2>2 DEF Grown
<1>6. PICK increment \in Increments :
          pool = [free |-> InitialCapacity, used |-> 0, peak |-> 0,
                  capacity |-> InitialCapacity, increment |-> increment,
                  enlargements |-> 0, history |-> <<InitialCapacity>>,
                  previousThreshold |-> -1]
  BY DEF Init
<1>7. CountersOK(pool)
  <2>1. Stack(<<InitialCapacity>>, 0, InitialCapacity)
    BY <1>3 DEF Stack
  <2>2. QED
    BY <1>3, <1>6, <2>1 DEF CountersOK
<1>8. Promise!Init
  BY <1>5, <1>6, SameSizes DEF Promise!Init, Promise!NoPreviousThreshold, Free, Used
<1>9. QED
  BY <1>5, <1>7, <1>8 DEF LinkedInv

(* reserve() below the growth threshold.                                   *)
LEMMA ReserveImplements ==
    ASSUME LinkedInv, ~IsEmpty(mem, "free"), ~GrowthDue, HandOut(mem, pool)
    PROVE  LinkedInv' /\ Promise!Next
<1> DEFINE o == mem.head["free"]
<1>1. Linked(mem) /\ CountersOK(pool) /\ Free(mem) # {}
  BY TwoLists DEF LinkedInv
<1>2. /\ Linked(mem') /\ o \in Free(mem)
      /\ Free(mem') = Free(mem) \ {o} /\ Used(mem') = Used(mem) \cup {o}
  BY <1>1, HandOutEffect DEF HandOut
<1>3. /\ o \in Objects
      /\ pool.free \in Int /\ pool.used \in Int /\ pool.peak \in Int
  BY <1>1, <1>2, TwoLists DEF CountersOK
<1> HIDE DEF o
<1>4. Moved(pool, pool', pool.free - 1, pool.used + 1,
            Promise!Larger(pool.peak, pool.used + 1))
  <2> DEFINE peak == Promise!Larger(pool.peak, pool.used + 1)
  <2>1. (IF pool.used + 1 > pool.peak THEN pool.used + 1 ELSE pool.peak) = peak
    BY <1>3 DEF Promise!Larger
  <2>2. pool.free - 1 \in Int /\ pool.used + 1 \in Int /\ peak \in Int
    BY <1>3 DEF Promise!Larger
  <2> HIDE DEF peak
  <2>3. pool' = Move(pool, pool.free - 1, pool.used + 1, peak)
    BY <2>1 DEF HandOut, Move
  <2>4. Moved(pool, Move(pool, pool.free - 1, pool.used + 1, peak),
              pool.free - 1, pool.used + 1, peak)
    BY <1>1, <2>2, MovedCounters, Zenon
  <2>5. Moved(pool, pool', pool.free - 1, pool.used + 1, peak)
    BY <2>3, <2>4, Zenon
  <2>6. QED
    BY <2>5 DEF peak
<1>5. Promise!Reserve(o)
  <2>1. ~Promise!GrowthDue
    BY DEF GrowthDue, Promise!GrowthDue, Threshold
  <2>2. QED
    BY <1>2, <1>4, <2>1
       DEF Promise!Reserve, Promise!TakeIntoUse, Promise!history, Free, Used, Moved
<1>6. QED
  BY <1>2, <1>3, <1>4, <1>5 DEF LinkedInv, Promise!Next, Moved

(* reserve() at the growth threshold: autoIncreaseLists, then the object.  *)
LEMMA ReserveAndGrowImplements ==
    ASSUME LinkedInv, ~IsEmpty(mem, "free"), GrowthDue,
           pool.increment <= Cardinality(Fresh(mem)),
           HandOut(AddNew(mem, pool.increment), AutoIncreaseLists(pool))
    PROVE  LinkedInv' /\ Promise!Next
<1> DEFINE m == AddNew(mem, pool.increment)
           p == AutoIncreaseLists(pool)
           o == m.head["free"]
<1>1. /\ Linked(mem) /\ CountersOK(pool) /\ Free(mem) # {}
      /\ pool.increment \in Nat /\ pool.enlargements \in Nat
      /\ pool.history \in Seq(Nat)
  BY TwoLists, IncrementAssumption DEF LinkedInv, CountersOK
<1>2. Grown(mem, m, pool.increment)
  BY <1>1, AddNewEffect, Zenon
<1>3. Increased(pool, p)
  BY <1>1, AutoIncreaseCounters, Zenon
<1>4. /\ mem' = InsertFirst(RemoveFirst(m, "free"), "used", o)
      /\ pool' = Move(p, p.free - 1, p.used + 1,
                      IF p.used + 1 > p.peak THEN p.used + 1 ELSE p.peak)
  BY DEF HandOut, Move
<1> HIDE DEF p, m
<1>5. PICK new \in SUBSET Fresh(mem) :
          /\ IsFiniteSet(new) /\ Cardinality(new) = pool.increment
          /\ Free(m) = Free(mem) \cup new
  BY <1>2 DEF Grown
<1>6. Linked(m) /\ Used(m) = Used(mem) /\ Free(m) # {}
  BY <1>1, <1>2, <1>5 DEF Grown
<1>7. /\ Linked(mem') /\ o \in Free(m)
      /\ Free(mem') = Free(m) \ {o} /\ Used(mem') = Used(m) \cup {o}
  BY <1>4, <1>6, HandOutEffect
<1>8. o \in Objects
  BY <1>6, <1>7, TwoLists
<1> HIDE DEF o
<1> DEFINE peak == Promise!Larger(p.peak, p.used + 1)
<1>9. p.free \in Int /\ p.used \in Int /\ p.peak \in Int /\ CountersOK(p)
  BY <1>3 DEF Increased, CountersOK
<1>10. Moved(p, pool', p.free - 1, p.used + 1, peak)
  <2>1. (IF p.used + 1 > p.peak THEN p.used + 1 ELSE p.peak) = peak
    BY <1>9 DEF Promise!Larger
  <2>2. p.free - 1 \in Int /\ p.used + 1 \in Int /\ peak \in Int
    BY <1>9 DEF Promise!Larger
  <2> HIDE DEF peak
  <2>3. Moved(p, Move(p, p.free - 1, p.used + 1, peak), p.free - 1, p.used + 1, peak)
    BY <1>9, <2>2, MovedCounters, Zenon
  <2>4. QED
    BY <1>4, <2>1, <2>3, Zenon
<1>11. new \in Promise!NewObjects(pool.increment)
  <2>1. new \in SUBSET (Objects \ (Elements(mem, "free") \cup Elements(mem, "used")))
    BY <1>5 DEF Fresh
  <2>2. Promise!IsFiniteSet(new) /\ Promise!Cardinality(new) = pool.increment
    BY <1>5, SameSizes
  <2>3. QED
    BY <2>1, <2>2 DEF Promise!NewObjects
<1>12. Promise!TakeIntoUse(Elements(mem, "free") \cup new, o, pool.free + pool.increment)
  BY <1>3, <1>5, <1>6, <1>7, <1>10
     DEF Promise!TakeIntoUse, Free, Used, Moved, Increased
<1>13. Promise!AutoIncreaseLists
  <2>1. pool.enlargements + 2 = (pool.enlargements + 1) + 1
    BY <1>1
  <2>2. Recorded(pool.history, pool.enlargements, pool.capacity + pool.increment)
          = Promise!RecordCapacity(pool.enlargements + 1, pool.capacity + pool.increment)
    BY <2>1 DEF Recorded, Promise!RecordCapacity
  <2>3. QED
    BY <1>3, <1>10, <2>2 DEF Promise!AutoIncreaseLists, Threshold, Moved, Increased
<1>14. Promise!ReserveAndGrow(o)
  <2>1. Elements(mem, "free") # {} /\ o \in Elements(mem, "free") \cup new
    BY <1>1, <1>5, <1>7 DEF Free
  <2>2. Promise!GrowthDue
    BY DEF GrowthDue, Promise!GrowthDue, Threshold
  <2>3. pool'.increment = pool.increment
    BY <1>3, <1>10 DEF Moved, Increased
  <2>4. QED
    BY <1>11, <1>12, <1>13, <2>1, <2>2, <2>3 DEF Promise!ReserveAndGrow
<1>15. LinkedInv'
  BY <1>7, <1>10 DEF LinkedInv, Moved
<1>16. QED
  BY <1>8, <1>14, <1>15 DEF Promise!Next

(* release(): the object goes back, and if that is due the pool shrinks.   *)
LEMMA ReleaseImplements ==
    ASSUME LinkedInv, NEW o \in Objects, Release(o)
    PROVE  LinkedInv' /\ Promise!Next
<1> DEFINE m == InsertFirst(Remove(mem, "used", o), "free", o)
           p == [pool EXCEPT !.used = @ - 1, !.free = @ + 1]
           q == AutoDecreaseLists(p)
<1>1. /\ Linked(mem) /\ CountersOK(pool) /\ o \in Used(mem)
      /\ pool.free \in Int /\ pool.used \in Int /\ pool.peak \in Int
  BY DEF LinkedInv, CountersOK, Release, ContainsObject, Used
<1>2. Linked(m) /\ Free(m) = Free(mem) \cup {o} /\ Used(m) = Used(mem) \ {o}
  BY <1>1, ReturnEffect
<1>3. Moved(pool, p, pool.free + 1, pool.used - 1, pool.peak)
  <2>1. p = Move(pool, pool.free + 1, pool.used - 1, pool.peak)
    <3>1. pool = [free |-> pool.free, used |-> pool.used, peak |-> pool.peak,
                  capacity |-> pool.capacity, increment |-> pool.increment,
                  enlargements |-> pool.enlargements, history |-> pool.history,
                  previousThreshold |-> pool.previousThreshold]
      BY <1>1 DEF CountersOK
    <3> DEFINE r == Move(pool, pool.free + 1, pool.used - 1, pool.peak)
    <3>2. /\ p = [pool EXCEPT !.used = pool.used - 1, !.free = pool.free + 1]
          /\ r = [pool EXCEPT !.free = pool.free + 1, !.used = pool.used - 1,
                              !.peak = pool.peak]
      BY DEF Move
    <3> HIDE DEF p, r
    <3>3. p = [free |-> pool.free + 1, used |-> pool.used - 1, peak |-> pool.peak,
               capacity |-> pool.capacity, increment |-> pool.increment,
               enlargements |-> pool.enlargements, history |-> pool.history,
               previousThreshold |-> pool.previousThreshold]
      BY <3>1, <3>2
    <3>4. r = [free |-> pool.free + 1, used |-> pool.used - 1, peak |-> pool.peak,
               capacity |-> pool.capacity, increment |-> pool.increment,
               enlargements |-> pool.enlargements, history |-> pool.history,
               previousThreshold |-> pool.previousThreshold]
      BY <3>1, <3>2
    <3>5. QED
      BY <3>3, <3>4 DEF r
  <2>2. pool.free + 1 \in Int /\ pool.used - 1 \in Int
    BY <1>1
  <2> HIDE DEF p
  <2>3. Moved(pool, Move(pool, pool.free + 1, pool.used - 1, pool.peak),
              pool.free + 1, pool.used - 1, pool.peak)
    BY <1>1, <2>2, MovedCounters, Zenon
  <2>4. QED
    BY <2>1, <2>3, Zenon
<1>4. IF ShrinkDue(p)
      THEN /\ mem' = DeleteFirst(m, pool.capacity - q.capacity)
           /\ pool' = q
      ELSE mem' = m /\ pool' = p
  BY DEF Release
<1>5. o \in Elements(mem, "used")
  BY <1>1 DEF Used
<1>6. ShrinkDue(p) <=> Promise!ShrinkDue
  <2> HIDE DEF p
  <2>1. QED
    BY <1>3 DEF ShrinkDue, Promise!ShrinkDue, Promise!NoPreviousThreshold, Moved
<1> HIDE DEF m, p, q
<1>7. CASE ~ShrinkDue(p)
  <2>1. mem' = m /\ pool' = p
    BY <1>4, <1>7
  <2>2. Promise!Release(o)
    BY <1>2, <1>3, <1>5, <1>6, <1>7, <2>1
       DEF Promise!Release, Promise!history, Free, Used, Moved
  <2>3. QED
    BY <1>2, <1>3, <2>1, <2>2 DEF LinkedInv, Promise!Next, Moved
<1>8. CASE ShrinkDue(p)
  <2>1. CountersOK(p) /\ p.enlargements > 0
    BY <1>3, <1>8 DEF Moved, ShrinkDue
  <2>2. Decreased(p, q)
    BY <2>1, AutoDecreaseCounters, Zenon DEF q
  <2>3. mem' = DeleteFirst(m, pool.capacity - q.capacity) /\ pool' = q
    BY <1>4, <1>8
  <2> DEFINE numbToDelete == pool.capacity - q.capacity
  <2>4. numbToDelete \in Nat
    BY <1>3, <2>2 DEF Moved, Decreased
  <2>5. q.capacity = Promise!SmallerCapacity
    BY <1>3, <2>2 DEF Moved, Decreased, Promise!SmallerCapacity
  <2> HIDE DEF numbToDelete
  <2>6. Shrunk(m, mem', numbToDelete)
    <3>1. Shrunk(m, DeleteFirst(m, numbToDelete), numbToDelete)
      BY <1>2, <2>4, DeleteFirstEffect, Zenon
    <3>2. QED
      BY <2>3, <3>1 DEF numbToDelete
  <2>7. PICK deleted \in SUBSET Free(m) :
               /\ Cardinality(deleted)
                    = Promise!Smaller(numbToDelete, Cardinality(Free(m)))
               /\ Free(mem') = Free(m) \ deleted
    BY <2>6 DEF Shrunk
  <2>8. Free(m) = Elements(mem, "free") \cup {o}
    BY <1>2 DEF Free
  <2>9. numbToDelete = pool.capacity - Promise!SmallerCapacity
    BY <2>5 DEF numbToDelete
  <2>10. /\ deleted \in SUBSET (Elements(mem, "free") \cup {o})
         /\ Promise!Cardinality(deleted)
              = Promise!Smaller(pool.capacity - Promise!SmallerCapacity,
                                Promise!Cardinality(Elements(mem, "free") \cup {o}))
         /\ Elements(mem', "free") = (Elements(mem, "free") \cup {o}) \ deleted
    <3>1. Promise!Cardinality(deleted) = Cardinality(deleted)
      BY SameSizes
    <3>2. Promise!Cardinality(Elements(mem, "free") \cup {o}) = Cardinality(Free(m))
      BY <2>8, SameSizes
    <3>3. QED
      BY <2>7, <2>8, <2>9, <3>1, <3>2 DEF Free
  <2>11. /\ pool'.used = pool.used - 1
         /\ pool'.free = (pool.free + 1) - (pool.capacity - Promise!SmallerCapacity)
         /\ pool'.peak = pool.peak /\ pool'.increment = pool.increment
    BY <1>3, <2>2, <2>3, <2>5 DEF Moved, Decreased
  <2>12. Elements(mem', "used") = Elements(mem, "used") \ {o}
    BY <1>2, <2>6 DEF Shrunk, Used
  <2>13. Promise!AutoDecreaseLists
    BY <1>3, <2>2, <2>3, <2>5
       DEF Moved, Decreased, Promise!AutoDecreaseLists, Promise!ThresholdBelow,
           Promise!NoPreviousThreshold, Threshold
  <2>14. Promise!ReleaseAndShrink(o)
    BY <1>5, <1>6, <1>8, <2>10, <2>11, <2>12, <2>13 DEF Promise!ReleaseAndShrink
  <2>15. LinkedInv'
    BY <2>2, <2>3, <2>6 DEF LinkedInv, Shrunk, Decreased
  <2>16. QED
    BY <2>14, <2>15 DEF Promise!Next
<1>9. QED
  BY <1>7, <1>8

(* setCapacityIncrement is the operation of the abstract pool of that name  *)
(* (ObjectPool.cpp:536-540).                                                *)
LEMMA SetCapacityIncrementImplements ==
    ASSUME LinkedInv, NEW n \in Increments, SetCapacityIncrement(n)
    PROVE  LinkedInv' /\ Promise!Next
<1>1. pool = [free |-> pool.free, used |-> pool.used, peak |-> pool.peak,
              capacity |-> pool.capacity, increment |-> pool.increment,
              enlargements |-> pool.enlargements, history |-> pool.history,
              previousThreshold |-> pool.previousThreshold]
  BY DEF LinkedInv, CountersOK
<1>2. pool' = [pool EXCEPT !.increment = n] /\ mem' = mem
  BY DEF SetCapacityIncrement
<1>3. pool' = [free |-> pool.free, used |-> pool.used, peak |-> pool.peak,
               capacity |-> pool.capacity, increment |-> n,
               enlargements |-> pool.enlargements, history |-> pool.history,
               previousThreshold |-> pool.previousThreshold]
  BY <1>1, <1>2
<1>4. LinkedInv'
  BY <1>2, <1>3 DEF LinkedInv, CountersOK
<1>5. Promise!SetCapacityIncrement(n)
  BY <1>2, <1>3
     DEF Promise!SetCapacityIncrement, Promise!lists, Promise!counts, Promise!history
<1>6. QED
  BY <1>4, <1>5 DEF Promise!Next

(* Every step of the linked pool keeps the lists well linked and is a step *)
(* of the abstract pool, or none.                                          *)
LEMMA NextImplements ==
    LinkedInv /\ [Next]_vars => LinkedInv' /\ [Promise!Next]_(Promise!vars)
<1> SUFFICES ASSUME LinkedInv, [Next]_vars
             PROVE  LinkedInv' /\ [Promise!Next]_(Promise!vars)
  OBVIOUS
<1>1. CASE Reserve
  <2>1. CASE GrowthDue
    BY <1>1, <2>1, ReserveAndGrowImplements DEF Reserve
  <2>2. CASE ~GrowthDue
    BY <1>1, <2>2, ReserveImplements DEF Reserve
  <2>3. QED
    BY <2>1, <2>2
<1>2. ASSUME NEW o \in Objects, Release(o)
      PROVE  LinkedInv' /\ [Promise!Next]_(Promise!vars)
  BY <1>2, ReleaseImplements
<1>3. ASSUME NEW n \in Increments, SetCapacityIncrement(n)
      PROVE  LinkedInv' /\ [Promise!Next]_(Promise!vars)
  BY <1>3, SetCapacityIncrementImplements
<1>4. CASE UNCHANGED vars
  BY <1>4
     DEF vars, LinkedInv, Promise!vars, Promise!lists, Promise!counts, Promise!history
<1>5. QED
  BY <1>1, <1>2, <1>3, <1>4 DEF Next

(* The lists stay well linked: forward and backward along the pointers of  *)
(* the objects both lists hold the same elements between head and tail, as *)
(* many as the size says, and no object is in both.                        *)
THEOREM ListsStayLinked == Spec => []LinkedInv
<1>1. Init => LinkedInv
  BY InitImplements
<1>2. LinkedInv /\ [Next]_vars => LinkedInv'
  BY NextImplements
<1>3. QED
  BY <1>1, <1>2, PTL DEF Spec

(* The pool over linked lists implements the pool over sets.               *)
THEOREM LinkedPoolImplementsObjectPool == Spec => ImplementsObjectPool
<1>1. Init => Promise!Init
  BY InitImplements
<1>2. LinkedInv /\ [Next]_vars => [Promise!Next]_(Promise!vars)
  BY NextImplements
<1>3. QED
  BY <1>1, <1>2, ListsStayLinked, PTL DEF Spec, ImplementsObjectPool, Promise!Spec
=============================================================================
