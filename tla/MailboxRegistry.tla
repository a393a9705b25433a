-------------------------- MODULE MailboxRegistry --------------------------
(* The mailbox lookup service of one process                               *)
(* (src/platform/msgmgr/MailboxLookupService.cpp) with the life of the     *)
(* mailboxes it refers to: reference counts (MailboxBase), handles,        *)
(* activation, replacement and the proxies that find() creates.  Each      *)
(* critical section on a registry mutex is one step, as is each access to  *)
(* the atomic count and flag of a mailbox.                                 *)
EXTENDS Integers, FiniteSets

CONSTANTS
    Threads,
    Mailboxes,          \* the mailboxes a behaviour may create
    Names,              \* names of mailboxes of this process
    Remotes,            \* addresses of mailboxes of other processes
    Key,                \* what the order of the maps sees of each address
    None

ASSUME IdentityAssumption == /\ None \notin Threads \cup Mailboxes \cup Names \cup Remotes
                             /\ Names \cap Remotes = {}
ASSUME ThreadsAssumption == IsFiniteSet(Threads)

Addresses == Names \cup Remotes

(* The order of addresses (MailboxAddress::operator<) compares the name     *)
(* and the type, and puts the internet address of its left side on both    *)
(* sides: two remote addresses of one name and type are one key of the     *)
(* map, though they are not equal.  Names and remotes are in two maps.     *)
ASSUME KeyAssumption == \A n \in Names, r \in Remotes : Key[n] # Key[r]

VARIABLES
    registry,           \* localMailboxRegistry_ on Names, proxyMailboxRegistry_ on Remotes
    life,               \* "new", "alive" or "deleted"
    address,            \* of each mailbox
    refs,               \* referenceCount_
    active,             \* active_
    pc,
    handle,             \* the mailbox each thread has a handle to, or None
    owns,               \* the thread's handle is a MailboxOwnerHandle
    work,               \* the mailbox a thread is activating or releasing
    victim,             \* the mailbox a thread is deactivating
    looking,            \* the address find() has no proxy for
    leaked,             \* proxies whose only handle find() has dropped
    \* history:
    shadowed,           \* addresses an insertion was refused for, since
                        \* another address of the same key was registered
    freedUsed,          \* memory of a deleted mailbox has been used
    accidents           \* what went wrong before

mailboxes == <<life, address, refs, active>>
calls == <<handle, owns, work, victim, looking>>
vars == <<registry, mailboxes, pc, calls, leaked, shadowed, freedUsed,
          accidents>>

Alive(m) == life[m] = "alive"
Registered(m) == m \in Mailboxes /\ registry[address[m]] = m
Goto(t, label) == pc' = [pc EXCEPT ![t] = label]

(* The address whose activation, deactivation or release t is in.          *)
Changing(t) == IF work[t] # None THEN address[work[t]]
               ELSE IF victim[t] # None THEN address[victim[t]] ELSE None
Releasing(t) == pc[t] \in {"test", "destroy"}

(* What a thread that begins to change a's entry, or to release m, runs    *)
(* into.                                                                   *)
Overlapping(t, a) ==
    IF \E u \in Threads \ {t} : Changing(u) = a THEN {"overlapping_changes"} ELSE {}
OverlappingRelease(t, m) ==
    (IF \E u \in Threads \ {t} : work[u] = m /\ Releasing(u)
     THEN {"overlapping_releases"} ELSE {})
    \cup (IF \E u \in Threads \ {t} : Changing(u) = address[m] /\ ~Releasing(u)
          THEN {"overlapping_changes"} ELSE {})

Init ==
    /\ registry = [a \in Addresses |-> None]
    /\ life = [m \in Mailboxes |-> "new"]
    /\ address = [m \in Mailboxes |-> None]
    /\ refs = [m \in Mailboxes |-> 0]
    /\ active = [m \in Mailboxes |-> FALSE]
    /\ pc = [t \in Threads |-> "idle"]
    /\ handle = [t \in Threads |-> None]
    /\ owns = [t \in Threads |-> FALSE]
    /\ work = [t \in Threads |-> None]
    /\ victim = [t \in Threads |-> None]
    /\ looking = [t \in Threads |-> None]
    /\ leaked = {}
    /\ shadowed = {}
    /\ freedUsed = FALSE
    /\ accidents = {}

(* A mailbox m is constructed; its owner handle makes the count one.       *)
Construct(m, a) ==
    /\ life[m] = "new"
    /\ life' = [life EXCEPT ![m] = "alive"]
    /\ address' = [address EXCEPT ![m] = a]
    /\ refs' = [refs EXCEPT ![m] = 1]
    /\ UNCHANGED active

(* A handle to m is constructed.  m's memory may be free by then.          *)
AcquireUncounted(t, m) ==  \* mutated: the constructor does not count
    /\ handle' = [handle EXCEPT ![t] = m]
    /\ freedUsed' = ~Alive(m)
    /\ UNCHANGED refs

Acquire(t, m) ==
    /\ handle' = [handle EXCEPT ![t] = m]
    /\ refs' = [refs EXCEPT ![m] = @ + 1]
    /\ freedUsed' = ~Alive(m)

-----------------------------------------------------------------------------
(* createMailbox() of a mailbox of this process, local or served remotely: *)
(* both are registered by name.                                            *)
CreateMailbox(t, m, n) ==
    /\ pc[t] = "idle" /\ handle[t] = None
    /\ Construct(m, n)
    /\ handle' = [handle EXCEPT ![t] = m]
    /\ owns' = [owns EXCEPT ![t] = TRUE]
    /\ UNCHANGED <<registry, pc, work, victim, looking, leaked, shadowed, freedUsed, accidents>>

(* find() of a name.  NULL if it is not registered.                        *)
FindLocal(t, n) ==
    /\ pc[t] = "idle" /\ handle[t] = None
    /\ registry[n] # None
    /\ Acquire(t, registry[n])
    /\ UNCHANGED <<registry, life, address, active, pc, owns, work, victim,
                   looking, leaked, shadowed, accidents>>

(* find() of a remote address: the proxy registry is searched first.       *)
FindProxy(t, r) ==
    /\ pc[t] = "idle" /\ handle[t] = None
    /\ registry[r] # None
    /\ Acquire(t, registry[r])
    /\ UNCHANGED <<registry, life, address, active, pc, owns, work, victim,
                   looking, leaked, shadowed, accidents>>

(* No proxy yet: the mutex is released, and the proxy is made without it.  *)
FindNoProxy(t, r) ==
    /\ pc[t] = "idle" /\ handle[t] = None
    /\ registry[r] = None
    /\ Goto(t, "create")
    /\ looking' = [looking EXCEPT ![t] = r]
    /\ UNCHANGED <<registry, mailboxes, handle, owns, work, victim, leaked, shadowed,
                   freedUsed, accidents>>

CreateProxy(t, m) ==
    /\ pc[t] = "create"
    /\ Construct(m, looking[t])
    /\ work' = [work EXCEPT ![t] = m]
    /\ looking' = [looking EXCEPT ![t] = None]
    /\ Goto(t, "connect")
    /\ accidents' = accidents \cup Overlapping(t, looking[t])
    /\ UNCHANGED <<registry, handle, owns, victim, leaked, shadowed, freedUsed>>

(* The proxy's activate() fails: find() answers NULL and drops the handle. *)
ConnectFails(t) ==
    /\ pc[t] = "connect"
    /\ leaked' = leaked \cup {work[t]}
    /\ work' = [work EXCEPT ![t] = None]
    /\ Goto(t, "idle")
    /\ UNCHANGED <<registry, mailboxes, handle, owns, victim, looking, shadowed,
                   freedUsed, accidents>>

Connect(t) ==
    /\ pc[t] = "connect"
    /\ Goto(t, "register")
    /\ UNCHANGED <<registry, mailboxes, calls, leaked, shadowed, freedUsed, accidents>>

-----------------------------------------------------------------------------
(* activate() by the owner; an active mailbox answers OK at once.          *)
Activate(t) ==
    /\ pc[t] = "idle" /\ owns[t] /\ ~active[handle[t]]
    /\ work' = [work EXCEPT ![t] = handle[t]]
    /\ Goto(t, "register")
    /\ accidents' = accidents \cup Overlapping(t, address[handle[t]])
    /\ UNCHANGED <<registry, mailboxes, handle, owns, victim, looking, leaked, shadowed, freedUsed>>

(* The map refuses a for another address of its key.                       *)
KeyTaken(a) ==
    \E other \in Addresses \ {a} : Key[other] = Key[a] /\ registry[other] # None

(* insert() into the map where nothing is registered at a.  If the map     *)
(* refuses, the activation goes on without the entry.                      *)
InsertAt(a, m) ==
    IF KeyTaken(a)
    THEN registry' = [registry EXCEPT ![a] = None] /\ shadowed' = shadowed \cup {a}
    ELSE registry' = [registry EXCEPT ![a] = m] /\ UNCHANGED shadowed

(* registerMailbox().  An active mailbox at the address is deactivated     *)
(* first, with the mutex released; an inactive one is erased.              *)
Register(t) ==
    LET a == address[work[t]]
        found == registry[a]
    IN  /\ pc[t] = "register"
        /\ IF found # None /\ active[found]
           THEN /\ victim' = [victim EXCEPT ![t] = found]
                /\ Goto(t, "deactivate")
                /\ UNCHANGED <<registry, shadowed>>
           ELSE /\ InsertAt(a, work[t])
                /\ Goto(t, "activate")
                /\ UNCHANGED victim
        /\ freedUsed' = (found # None /\ ~Alive(found))
        /\ UNCHANGED <<mailboxes, handle, owns, work, looking, leaked, accidents>>

(* The second half, after the replaced mailbox is gone.  The insertion     *)
(* fails, too, when the address has been registered since.                 *)
Insert(t) ==
    LET a == address[work[t]]
    IN  /\ pc[t] = "insert"
        /\ IF registry[a] = None THEN InsertAt(a, work[t])
           ELSE UNCHANGED <<registry, shadowed>>
        /\ Goto(t, "activate")
        /\ UNCHANGED <<mailboxes, calls, leaked, freedUsed, accidents>>

(* setActive(TRUE).  A find() goes on to make its own handle and deletes   *)
(* the proxy's owner handle, whose release finds a count above zero.       *)
SetActive(t) ==
    /\ pc[t] = "activate"
    /\ active' = [active EXCEPT ![work[t]] = TRUE]
    /\ handle' = [handle EXCEPT ![t] = work[t]]
    /\ work' = [work EXCEPT ![t] = None]
    /\ Goto(t, "idle")
    /\ freedUsed' = ~Alive(work[t])
    /\ UNCHANGED <<registry, life, address, refs, owns, victim, looking, leaked, shadowed, accidents>>

(* deactivate() by the owner; an inactive mailbox answers OK at once.      *)
Deactivate(t) ==
    /\ pc[t] = "idle" /\ owns[t] /\ active[handle[t]]
    /\ victim' = [victim EXCEPT ![t] = handle[t]]
    /\ Goto(t, "setInactive")
    /\ accidents' = accidents \cup Overlapping(t, address[handle[t]])
    /\ UNCHANGED <<registry, mailboxes, handle, owns, work, looking, leaked, shadowed, freedUsed>>

(* deactivate() of a mailbox that is being replaced.                       *)
TestVictim(t) ==
    /\ pc[t] = "deactivate"
    /\ freedUsed' = ~Alive(victim[t])
    /\ IF active[victim[t]]
       THEN Goto(t, "setInactive") /\ UNCHANGED victim
       ELSE Goto(t, "insert") /\ victim' = [victim EXCEPT ![t] = None]
    /\ UNCHANGED <<registry, mailboxes, handle, owns, work, looking, leaked, shadowed, accidents>>

SetInactive(t) ==
    /\ pc[t] = "setInactive"
    /\ freedUsed' = ~Alive(victim[t])
    /\ active' = [active EXCEPT ![victim[t]] = FALSE]
    /\ Goto(t, "deregister")
    /\ UNCHANGED <<registry, life, address, refs, calls, leaked, shadowed, accidents>>

(* deregisterMailbox() erases whatever is registered at the address.       *)
DeregisterNothing(t) ==  \* mutated: the entry is kept
    /\ pc[t] = "deregister"
    /\ victim' = [victim EXCEPT ![t] = None]
    /\ Goto(t, IF work[t] = None THEN "idle" ELSE "insert")
    /\ UNCHANGED <<registry, mailboxes, handle, owns, work, looking, leaked, shadowed,
                   freedUsed, accidents>>

Deregister(t) ==
    /\ pc[t] = "deregister"
    /\ registry' = [registry EXCEPT ![address[victim[t]]] = None]
    /\ victim' = [victim EXCEPT ![t] = None]
    /\ Goto(t, IF work[t] = None THEN "idle" ELSE "insert")
    /\ UNCHANGED <<mailboxes, handle, owns, work, looking, leaked, shadowed, freedUsed, accidents>>

-----------------------------------------------------------------------------
(* A handle is deleted: release() decrements the count and then reads it.  *)
Release(t) ==
    /\ pc[t] = "idle" /\ handle[t] # None
    /\ refs' = [refs EXCEPT ![handle[t]] = @ - 1]
    /\ work' = [work EXCEPT ![t] = handle[t]]
    /\ handle' = [handle EXCEPT ![t] = None]
    /\ owns' = [owns EXCEPT ![t] = FALSE]
    /\ Goto(t, "test")
    /\ freedUsed' = ~Alive(handle[t])
    /\ accidents' = accidents \cup OverlappingRelease(t, handle[t])
    /\ UNCHANGED <<registry, life, address, active, victim, looking, leaked, shadowed>>

TestCountOfTwo(t) ==  \* mutated: the test is for a count of one or less
    /\ pc[t] = "test"
    /\ freedUsed' = ~Alive(work[t])
    /\ IF refs[work[t]] <= 1
       THEN Goto(t, "destroy") /\ UNCHANGED work
       ELSE Goto(t, "idle") /\ work' = [work EXCEPT ![t] = None]
    /\ UNCHANGED <<registry, mailboxes, handle, owns, victim, looking, leaked, shadowed, accidents>>

TestCount(t) ==
    /\ pc[t] = "test"
    /\ freedUsed' = ~Alive(work[t])
    /\ IF refs[work[t]] = 0
       THEN Goto(t, "destroy") /\ UNCHANGED work
       ELSE Goto(t, "idle") /\ work' = [work EXCEPT ![t] = None]
    /\ UNCHANGED <<registry, mailboxes, handle, owns, victim, looking, leaked, shadowed, accidents>>

(* The last release deactivates an active mailbox and deregisters it with  *)
(* ownerHandleWhoActivatedMe_, which no activate() ever sets: a NULL       *)
(* handle deregisters nothing.  Then it deletes the mailbox.               *)
Destroy(t) ==
    /\ pc[t] = "destroy"
    /\ freedUsed' = ~Alive(work[t])
    /\ life' = [life EXCEPT ![work[t]] = "deleted"]
    /\ active' = [active EXCEPT ![work[t]] = FALSE]
    /\ accidents' = accidents \cup
           IF Registered(work[t]) THEN {"released_while_registered"} ELSE {}
    /\ work' = [work EXCEPT ![t] = None]
    /\ Goto(t, "idle")
    /\ UNCHANGED <<registry, address, refs, handle, owns, victim, looking, leaked, shadowed>>

Step(t) ==
    \/ \E m \in Mailboxes, n \in Names : CreateMailbox(t, m, n)
    \/ \E n \in Names : FindLocal(t, n)
    \/ \E r \in Remotes : FindProxy(t, r) \/ FindNoProxy(t, r)
    \/ \E m \in Mailboxes : CreateProxy(t, m)
    \/ ConnectFails(t) \/ Connect(t)
    \/ Activate(t) \/ Register(t) \/ Insert(t) \/ SetActive(t)
    \/ Deactivate(t) \/ TestVictim(t) \/ SetInactive(t) \/ Deregister(t)
    \/ Release(t) \/ TestCount(t) \/ Destroy(t)

(* The program ends where it uses freed memory: anything may follow.       *)
Next == ~freedUsed /\ \E t \in Threads : Step(t)

Spec == Init /\ [][Next]_vars

-----------------------------------------------------------------------------
Labels == {"idle", "create", "connect", "register", "deactivate", "setInactive",
           "deregister", "insert", "activate", "test", "destroy"}
Accidents == {"overlapping_changes", "overlapping_releases", "released_while_registered"}

(* Every variable has its type.                                            *)
TypeOK ==
    /\ registry \in [Addresses -> Mailboxes \cup {None}]
    /\ life \in [Mailboxes -> {"new", "alive", "deleted"}]
    /\ address \in [Mailboxes -> Addresses \cup {None}]
    /\ refs \in [Mailboxes -> Nat]
    /\ active \in [Mailboxes -> BOOLEAN]
    /\ pc \in [Threads -> Labels]
    /\ handle \in [Threads -> Mailboxes \cup {None}]
    /\ owns \in [Threads -> BOOLEAN]
    /\ work \in [Threads -> Mailboxes \cup {None}]
    /\ victim \in [Threads -> Mailboxes \cup {None}]
    /\ looking \in [Threads -> Remotes \cup {None}]
    /\ leaked \subseteq Mailboxes
    /\ shadowed \subseteq Addresses
    /\ freedUsed \in BOOLEAN
    /\ accidents \subseteq Accidents

(* The count of a mailbox is the number of handles to it, those inside a   *)
(* find() and those a failed find() has dropped included, whatever the     *)
(* threads do at once.                                                     *)
HandlesTo(m) ==
    Cardinality({t \in Threads : handle[t] = m})
    + Cardinality({t \in Threads : work[t] = m /\ handle[t] # m /\ ~Releasing(t)})
    + Cardinality(leaked \cap {m})
CountsAreExact == \A m \in Mailboxes : refs[m] = HandlesTo(m)

(* A handle keeps its mailbox alive and a registered mailbox exists,       *)
(* unless a mailbox was released while registered or two threads changed   *)
(* one address at a time.  An owner that deactivates first is safe from    *)
(* find() in any interleaving.                                             *)
Unregistered == {"overlapping_changes", "released_while_registered"}
ReferencesAreAlive ==
    accidents \cap Unregistered = {} =>
        /\ \A t \in Threads : handle[t] # None => Alive(handle[t])
        /\ \A a \in Addresses : registry[a] # None => Alive(registry[a])

(* Memory of a deleted mailbox is used only after one of the accidents.    *)
(* Two last releases that overlap are one by themselves: both read zero.   *)
FreedIsNotUsed == freedUsed => accidents # {}

(* While changes of an address do not overlap, the registry agrees with    *)
(* the mailboxes: all active mailboxes are in it, as registerMailbox()     *)
(* says they must be, and what is in it is active or being changed; but    *)
(* for the addresses that the map took for another one it held.            *)
RegistryAgrees ==
    "overlapping_changes" \notin accidents =>
        \A m \in Mailboxes :
            /\ Alive(m)
            /\ address[m] \notin shadowed
            /\ \A t \in Threads : Changing(t) # address[m]
            => (active[m] <=> Registered(m))

(* Why they hold.  First, what the place of a thread says of its           *)
(* variables.                                                              *)
WellPlaced(t) ==
    /\ pc[t] \in {"idle", "create"} => work[t] = None /\ victim[t] = None
    /\ pc[t] \in {"connect", "register", "deactivate", "insert", "activate", "test",
                  "destroy"} => work[t] # None
    /\ victim[t] # None <=> pc[t] \in {"deactivate", "setInactive", "deregister"}
    /\ looking[t] # None <=> pc[t] = "create"
    /\ pc[t] \in {"create", "connect", "test", "destroy"} => handle[t] = None
    /\ work[t] # None => handle[t] \in {None, work[t]}
    /\ work[t] # None /\ victim[t] # None => address[victim[t]] = address[work[t]]
    /\ owns[t] => handle[t] # None
ThreadsAreWell == \A t \in Threads : WellPlaced(t)

(* Whatever refers to a mailbox refers to one that has been constructed.   *)
Refers(t, m) == handle[t] = m \/ work[t] = m \/ victim[t] = m
WellMade(m) ==
    /\ address[m] = None <=> life[m] = "new"
    /\ life[m] = "new" => ~active[m] /\ m \notin leaked /\ \A t \in Threads : ~Refers(t, m)
    /\ active[m] => Alive(m)
MailboxesAreMade ==
    /\ \A m \in Mailboxes : WellMade(m)
    /\ \A a \in Addresses : registry[a] # None => address[registry[a]] = a

(* The mailbox of a find() that connects is its own until it is leaked.    *)
ConnectedIsFresh ==
    \A t \in Threads : pc[t] = "connect" =>
        /\ work[t] \notin leaked
        /\ \A u \in Threads \ {t} : pc[u] = "connect" => work[u] # work[t]

(* The count covers an owner, and whoever activates a mailbox: nobody      *)
(* deletes it below them.                                                  *)
Covers(t, m) == (owns[t] /\ handle[t] = m) \/ (work[t] = m /\ ~Releasing(t))
CoveredAreAlive ==
    \A t \in Threads, m \in Mailboxes : Covers(t, m) =>
        Alive(m) /\ \A u \in Threads : pc[u] = "destroy" => work[u] # m

(* Without overlapping changes a thread changes an address alone, unless   *)
(* others release as well,                                                 *)
ChangesAreAlone ==
    \A t, u \in Threads :
        t # u /\ Changing(t) # None /\ Changing(u) = Changing(t) => Releasing(t)

(* the active mailbox of an address is the registered one, until it is set *)
(* inactive and until the new one is set active, if the map takes it,      *)
Agrees(a) == \A m \in Mailboxes : Alive(m) /\ address[m] = a => (active[m] <=> registry[a] = m)
Quiet(a) == \A m \in Mailboxes : address[m] = a => ~active[m]
Disagreeing == {"deregister", "insert", "activate"}
Orderly(t) ==
    /\ pc[t] \in {"connect", "register"} => ~active[work[t]]
    /\ pc[t] \in {"deactivate", "setInactive"} => active[victim[t]]
    /\ pc[t] = "deregister" => Alive(victim[t])
    /\ pc[t] = "insert" => registry[Changing(t)] = None
    /\ pc[t] \in Disagreeing /\ Changing(t) \notin shadowed =>
          /\ Quiet(Changing(t))
          /\ pc[t] = "deregister" => registry[Changing(t)] = victim[t]
          /\ pc[t] = "activate" => registry[Changing(t)] = work[t]
ChangesAreOrderly ==
    /\ \A t \in Threads : Orderly(t)
    /\ \A a \in Addresses \ shadowed :
          Agrees(a) \/ \E t \in Threads : pc[t] \in Disagreeing /\ Changing(t) = a

(* and a mailbox that is to be deleted has no handle, or is found again.   *)
DestroyedAreUnused ==
    \A t \in Threads : pc[t] = "destroy" => refs[work[t]] = 0 \/ Registered(work[t])

(* Without any accident one thread deletes a mailbox.                      *)
OneReleases ==
    \A t \in Threads : Releasing(t) =>
        /\ Alive(work[t])
        /\ \A u \in Threads \ {t} : Releasing(u) => work[u] # work[t]

(* What the reference counts, the handles and the memory of the mailboxes  *)
(* are, through every interleaving: counts are exact, one thread at most   *)
(* deletes a mailbox, and freed memory is used only after an accident.     *)
Bookkeeping ==
    /\ TypeOK
    /\ ThreadsAreWell
    /\ MailboxesAreMade
    /\ ConnectedIsFresh
    /\ CountsAreExact
    /\ CoveredAreAlive
    /\ "overlapping_changes" \notin accidents =>
          ChangesAreAlone /\ ChangesAreOrderly /\ DestroyedAreUnused
    /\ accidents = {} => OneReleases
    /\ FreedIsNotUsed

(* The inductive invariant of MailboxRegistryProofs.                       *)
IInv == Bookkeeping /\ ReferencesAreAlive
=============================================================================
