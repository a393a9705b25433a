---------------------------- MODULE OPMLinkedList ----------------------------
(* The doubly linked lists of src/platform/opm/OPMLinkedList.cpp over the  *)
(* next_ and prev_ pointers that OPMBase keeps inside each object.  Several*)
(* lists share those pointers, so an operation maps the memory             *)
(*    m = [next, prev : Objects -> Objects or Null,                        *)
(*         head, tail : list -> Objects or Null,  size : list -> Int]      *)
(* to the memory it leaves.  Nothing here checks membership: neither does  *)
(* the code.                                                               *)
EXTENDS Integers, Sequences, FiniteSets

CONSTANTS Objects, Null

ASSUME NullAssumption == Null \notin Objects
ASSUME ObjectsAssumption == IsFiniteSet(Objects)

EmptyMemory(lists) ==
    [next |-> [o \in Objects |-> Null], prev |-> [o \in Objects |-> Null],
     head |-> [l \in lists |-> Null],   tail |-> [l \in lists |-> Null],
     size |-> [l \in lists |-> 0]]

(* p->setNext(v) or p->setPrev(v) under the code's "if (p)".               *)
Link(pointer, p, v) == IF p = Null THEN pointer ELSE [pointer EXCEPT ![p] = v]

IsEmpty(m, l) == m.size[l] = 0

InsertFirstOneWay(m, l, o) ==  \* mutated: the old head's prev_ is not set
    IF m.head[l] = Null
    THEN [m EXCEPT !.head[l] = o, !.tail[l] = o, !.size[l] = @ + 1]
    ELSE [m EXCEPT !.next[o] = m.head[l], !.head[l] = o, !.size[l] = @ + 1]

InsertFirst(m, l, o) ==
    IF m.head[l] = Null
    THEN [m EXCEPT !.head[l] = o, !.tail[l] = o, !.size[l] = @ + 1]
    ELSE [m EXCEPT !.prev[m.head[l]] = o, !.next[o] = m.head[l],
                   !.head[l] = o, !.size[l] = @ + 1]

RemoveFirst(m, l) ==
    LET first  == m.head[l]
        second == m.next[first]
    IN  IF first = Null THEN m
        ELSE [m EXCEPT !.head[l] = second,
                       !.tail[l] = IF second = Null THEN Null ELSE @,
                       !.next[first] = Null,
                       !.prev = Link(Link(@, second, Null), first, Null),
                       !.size[l] = @ - 1]

Remove(m, l, o) ==
    LET previous == m.prev[o]
        next     == m.next[o]
    IN  IF m.head[l] = Null THEN m
        ELSE [m EXCEPT !.head[l] = IF previous = Null /\ @ = o THEN next ELSE @,
                       !.tail[l] = IF next = Null /\ @ = o THEN previous ELSE @,
                       !.next = Link(Link(@, previous, next), o, Null),
                       !.prev = Link(Link(@, next, previous), o, Null),
                       !.size[l] = @ - 1]

(* What a walk along one of the pointers stands on after k steps, and the  *)
(* objects it meets, in order.                                             *)
Nodes(pointer, start) ==
    LET node[k \in Nat] ==
            IF k = 0 THEN start
            ELSE IF node[k - 1] = Null THEN Null ELSE pointer[node[k - 1]]
    IN  node

Walk(pointer, start) ==
    LET node == Nodes(pointer, start)
        met  == {k \in 0..Cardinality(Objects) : node[k] # Null}
    IN  [i \in 1..Cardinality(met) |-> node[i - 1]]

Forward(m, l)  == Walk(m.next, m.head[l])
Elements(m, l) == {Forward(m, l)[i] : i \in DOMAIN Forward(m, l)}

ContainsObject(m, l, o) == o \in Elements(m, l)
=============================================================================
