------------------------ MODULE MailboxRegistryProofs ------------------------
(* What holds of MailboxRegistry for any number of threads, mailboxes and  *)
(* addresses.                                                              *)
EXTENDS MailboxRegistry, FiniteSetTheorems, TLAPS

(* The types of three kinds of variables, for which the provers need       *)
(* different means.                                                        *)
Places ==
    /\ registry \in [Addresses -> Mailboxes \cup {None}]
    /\ life \in [Mailboxes -> {"new", "alive", "deleted"}]
    /\ address \in [Mailboxes -> Addresses \cup {None}]
    /\ pc \in [Threads -> Labels]
    /\ handle \in [Threads -> Mailboxes \cup {None}]
    /\ work \in [Threads -> Mailboxes \cup {None}]
    /\ victim \in [Threads -> Mailboxes \cup {None}]
    /\ looking \in [Threads -> Remotes \cup {None}]
    /\ leaked \subseteq Mailboxes
    /\ shadowed \subseteq Addresses
    /\ accidents \subseteq Accidents
Flags ==
    /\ active \in [Mailboxes -> BOOLEAN]
    /\ owns \in [Threads -> BOOLEAN]
    /\ freedUsed \in BOOLEAN
Counts == refs \in [Mailboxes -> Nat]

(* The type invariant is these three.                                      *)
LEMMA TypeSplits ==
    /\ TypeOK <=> Places /\ Flags /\ Counts
    /\ TypeOK' <=> Places' /\ Flags' /\ Counts'
  BY DEF TypeOK, Places, Flags, Counts

(* None is nothing else.                                                   *)
LEMMA NoneIsNone ==
    /\ None \notin Mailboxes /\ None \notin Addresses /\ None \notin Remotes
    /\ Names \subseteq Addresses /\ Remotes \subseteq Addresses
  BY IdentityAssumption DEF Addresses

(* What a thread and an address refer to.                                  *)
LEMMA ReferredAre ==
    ASSUME IInv, NEW t \in Threads
    PROVE  /\ pc[t] \in {"connect", "register", "deactivate", "insert", "activate", "test",
                         "destroy"} => work[t] \in Mailboxes
           /\ pc[t] \in {"deactivate", "setInactive", "deregister"} => victim[t] \in Mailboxes
           /\ handle[t] # None => handle[t] \in Mailboxes
           /\ owns[t] => handle[t] \in Mailboxes
           /\ work[t] # None => work[t] \in Mailboxes
           /\ work[t] # None => address[work[t]] \in Addresses
           /\ victim[t] # None => victim[t] \in Mailboxes
           /\ victim[t] # None => address[victim[t]] \in Addresses
           /\ handle[t] # None => address[handle[t]] \in Addresses
           /\ pc[t] = "create" => looking[t] \in Remotes
           /\ pc[t] \in Labels
<1>1. /\ handle[t] # None => handle[t] \in Mailboxes
      /\ work[t] # None => work[t] \in Mailboxes
      /\ victim[t] # None => victim[t] \in Mailboxes
      /\ looking[t] # None => looking[t] \in Remotes
      /\ pc[t] \in Labels
  BY TypeSplits DEF IInv, Bookkeeping, Places
<1>2. \A m \in Mailboxes : Refers(t, m) => address[m] \in Addresses
  BY TypeSplits DEF IInv, Bookkeeping, Places, MailboxesAreMade, WellMade
<1> QED BY <1>1, <1>2 DEF IInv, Bookkeeping, ThreadsAreWell, WellPlaced, Refers

(* What is registered is a mailbox of that address.                        *)
LEMMA RegisteredAre ==
    ASSUME IInv, NEW a \in Addresses, registry[a] # None
    PROVE  registry[a] \in Mailboxes /\ address[registry[a]] = a
  BY TypeSplits DEF IInv, Bookkeeping, Places, MailboxesAreMade, WellMade

(* The registration finds an active mailbox and deactivates it first.      *)
Replaces(t) == registry[address[work[t]]] # None /\ active[registry[address[work[t]]]]

(* createMailbox(): the thread owns the first handle of a new mailbox.     *)
CreateMailboxEffect(t, m, n) ==
    /\ pc[t] = "idle"
    /\ handle[t] = None
    /\ life[m] = "new"
    /\ \A k \in Mailboxes : life'[k] = IF k = m THEN "alive" ELSE life[k]
    /\ \A k \in Mailboxes : address'[k] = IF k = m THEN n ELSE address[k]
    /\ \A k \in Mailboxes : refs'[k] = IF k = m THEN 1 ELSE refs[k]
    /\ \A u \in Threads : handle'[u] = IF u = t THEN m ELSE handle[u]
    /\ \A u \in Threads : owns'[u] = IF u = t THEN TRUE ELSE owns[u]
    /\ UNCHANGED <<registry, active, pc, work, victim, looking, leaked, shadowed, freedUsed,
                   accidents>>

(* The action has this effect.                                             *)
LEMMA CreateMailboxDoes ==
    ASSUME IInv, NEW t \in Threads, NEW m \in Mailboxes,
           NEW n \in Names, CreateMailbox(t, m, n)
    PROVE  CreateMailboxEffect(t, m, n)
<1> USE TypeSplits, NoneIsNone DEF IInv, Bookkeeping, CreateMailbox, Construct, Goto, mailboxes, calls
<1>1. /\ pc[t] = "idle"
      /\ handle[t] = None
      /\ life[m] = "new"
  BY ReferredAre
<1>2. /\ \A k \in Mailboxes : life'[k] = IF k = m THEN "alive" ELSE life[k]
      /\ \A k \in Mailboxes : address'[k] = IF k = m THEN n ELSE address[k]
      /\ \A u \in Threads : handle'[u] = IF u = t THEN m ELSE handle[u]
  BY <1>1 DEF Places
<1>3. \A k \in Mailboxes : refs'[k] = IF k = m THEN 1 ELSE refs[k]
  BY <1>1 DEF Counts
<1>4. \A u \in Threads : owns'[u] = IF u = t THEN TRUE ELSE owns[u]
  BY <1>1 DEF Flags
<1>5. UNCHANGED <<registry, active, pc, work, victim, looking, leaked, shadowed, freedUsed,
                  accidents>>
  OBVIOUS
<1> QED BY <1>1, <1>2, <1>3, <1>4, <1>5 DEF CreateMailboxEffect

(* find() of a registered address: one more handle, if the mailbox is      *)
(* alive.                                                                  *)
FindEffect(t, a) ==
    /\ pc[t] = "idle"
    /\ handle[t] = None
    /\ registry[a] # None
    /\ registry[a] \in Mailboxes
    /\ \A u \in Threads : handle'[u] = IF u = t THEN registry[a] ELSE handle[u]
    /\ \A m \in Mailboxes : refs'[m] = IF m = registry[a] THEN refs[registry[a]] + 1
                                       ELSE refs[m]
    /\ freedUsed' = ~Alive(registry[a])
    /\ UNCHANGED <<registry, life, address, active, pc, owns, work, victim, looking,
                   leaked, shadowed, accidents>>

(* The action has this effect.                                             *)
LEMMA FindDoes ==
    ASSUME IInv, NEW t \in Threads,
           NEW a \in Addresses, FindLocal(t, a) \/ FindProxy(t, a)
    PROVE  FindEffect(t, a)
<1> USE TypeSplits, NoneIsNone DEF IInv, Bookkeeping, FindLocal, FindProxy, Acquire, Goto, mailboxes, calls
<1>1. /\ pc[t] = "idle"
      /\ handle[t] = None
      /\ registry[a] # None
      /\ registry[a] \in Mailboxes
  BY RegisteredAre
<1>2. \A u \in Threads : handle'[u] = IF u = t THEN registry[a] ELSE handle[u]
  BY <1>1 DEF Places
<1>3. \A m \in Mailboxes : refs'[m] = IF m = registry[a] THEN refs[registry[a]] + 1
                                      ELSE refs[m]
  BY <1>1 DEF Counts
<1>4. /\ freedUsed' = ~Alive(registry[a])
      /\ UNCHANGED <<registry, life, address, active, pc, owns, work, victim, looking,
                     leaked, shadowed, accidents>>
  OBVIOUS
<1> QED BY <1>1, <1>2, <1>3, <1>4 DEF FindEffect

(* find() of an address without a proxy.                                   *)
FindNoProxyEffect(t, r) ==
    /\ pc[t] = "idle"
    /\ handle[t] = None
    /\ \A u \in Threads : pc'[u] = IF u = t THEN "create" ELSE pc[u]
    /\ \A u \in Threads : looking'[u] = IF u = t THEN r ELSE looking[u]
    /\ UNCHANGED <<registry, life, address, refs, active, handle, owns, work, victim,
                   leaked, shadowed, freedUsed, accidents>>

(* The action has this effect.                                             *)
LEMMA FindNoProxyDoes ==
    ASSUME IInv, NEW t \in Threads, NEW r \in Remotes, FindNoProxy(t, r)
    PROVE  FindNoProxyEffect(t, r)
<1> USE TypeSplits, NoneIsNone DEF IInv, Bookkeeping, FindNoProxy, Goto, mailboxes, calls
<1>1. /\ pc[t] = "idle"
      /\ handle[t] = None
  BY ReferredAre
<1>2. /\ \A u \in Threads : pc'[u] = IF u = t THEN "create" ELSE pc[u]
      /\ \A u \in Threads : looking'[u] = IF u = t THEN r ELSE looking[u]
  BY <1>1 DEF Places
<1>3. UNCHANGED <<registry, life, address, refs, active, handle, owns, work, victim,
                  leaked, shadowed, freedUsed, accidents>>
  OBVIOUS
<1> QED BY <1>1, <1>2, <1>3 DEF FindNoProxyEffect

(* find() makes the proxy, which it holds and nobody else knows.           *)
CreateProxyEffect(t, m) ==
    /\ pc[t] = "create"
    /\ life[m] = "new"
    /\ looking[t] \in Remotes
    /\ \A k \in Mailboxes : life'[k] = IF k = m THEN "alive" ELSE life[k]
    /\ \A k \in Mailboxes : address'[k] = IF k = m THEN looking[t] ELSE address[k]
    /\ \A k \in Mailboxes : refs'[k] = IF k = m THEN 1 ELSE refs[k]
    /\ \A u \in Threads : work'[u] = IF u = t THEN m ELSE work[u]
    /\ \A u \in Threads : looking'[u] = IF u = t THEN None ELSE looking[u]
    /\ \A u \in Threads : pc'[u] = IF u = t THEN "connect" ELSE pc[u]
    /\ accidents' = accidents \cup Overlapping(t, looking[t])
    /\ UNCHANGED <<registry, active, handle, owns, victim, leaked, shadowed, freedUsed>>

(* The action has this effect.                                             *)
LEMMA CreateProxyDoes ==
    ASSUME IInv, NEW t \in Threads, NEW m \in Mailboxes, CreateProxy(t, m)
    PROVE  CreateProxyEffect(t, m)
<1> USE TypeSplits, NoneIsNone DEF IInv, Bookkeeping, CreateProxy, Construct, Goto, mailboxes, calls
<1>1. /\ pc[t] = "create"
      /\ life[m] = "new"
      /\ looking[t] \in Remotes
  BY ReferredAre
<1>2. /\ \A k \in Mailboxes : life'[k] = IF k = m THEN "alive" ELSE life[k]
      /\ \A k \in Mailboxes : address'[k] = IF k = m THEN looking[t] ELSE address[k]
      /\ \A u \in Threads : work'[u] = IF u = t THEN m ELSE work[u]
      /\ \A u \in Threads : looking'[u] = IF u = t THEN None ELSE looking[u]
      /\ \A u \in Threads : pc'[u] = IF u = t THEN "connect" ELSE pc[u]
  BY <1>1 DEF Places
<1>3. \A k \in Mailboxes : refs'[k] = IF k = m THEN 1 ELSE refs[k]
  BY <1>1 DEF Counts
<1>4. /\ accidents' = accidents \cup Overlapping(t, looking[t])
      /\ UNCHANGED <<registry, active, handle, owns, victim, leaked, shadowed, freedUsed>>
  OBVIOUS
<1> QED BY <1>1, <1>2, <1>3, <1>4 DEF CreateProxyEffect

(* A failed find() leaks the handle to its proxy.                          *)
ConnectFailsEffect(t) ==
    /\ pc[t] = "connect"
    /\ \A u \in Threads : work'[u] = IF u = t THEN None ELSE work[u]
    /\ \A u \in Threads : pc'[u] = IF u = t THEN "idle" ELSE pc[u]
    /\ leaked' = leaked \cup {work[t]}
    /\ UNCHANGED <<registry, life, address, refs, active, handle, owns, victim,
                   looking, shadowed, freedUsed, accidents>>

(* The action has this effect.                                             *)
LEMMA ConnectFailsDoes ==
    ASSUME IInv, NEW t \in Threads, ConnectFails(t)
    PROVE  ConnectFailsEffect(t)
<1> USE TypeSplits, NoneIsNone DEF IInv, Bookkeeping, ConnectFails, Goto, mailboxes, calls
<1>1. pc[t] = "connect"
  BY ReferredAre
<1>2. /\ \A u \in Threads : work'[u] = IF u = t THEN None ELSE work[u]
      /\ \A u \in Threads : pc'[u] = IF u = t THEN "idle" ELSE pc[u]
  BY <1>1 DEF Places
<1>3. /\ leaked' = leaked \cup {work[t]}
      /\ UNCHANGED <<registry, life, address, refs, active, handle, owns, victim,
                     looking, shadowed, freedUsed, accidents>>
  OBVIOUS
<1> QED BY <1>1, <1>2, <1>3 DEF ConnectFailsEffect

(* A find() that has connected goes on to register.                        *)
ConnectEffect(t) ==
    /\ pc[t] = "connect"
    /\ \A u \in Threads : pc'[u] = IF u = t THEN "register" ELSE pc[u]
    /\ UNCHANGED <<registry, life, address, refs, active, handle, owns, work, victim,
                   looking, leaked, shadowed, freedUsed, accidents>>

(* The action has this effect.                                             *)
LEMMA ConnectDoes ==
    ASSUME IInv, NEW t \in Threads, Connect(t)
    PROVE  ConnectEffect(t)
<1> USE TypeSplits, NoneIsNone DEF IInv, Bookkeeping, Connect, Goto, mailboxes, calls
<1>1. pc[t] = "connect"
  BY ReferredAre
<1>2. \A u \in Threads : pc'[u] = IF u = t THEN "register" ELSE pc[u]
  BY <1>1 DEF Places
<1>3. UNCHANGED <<registry, life, address, refs, active, handle, owns, work, victim,
                  looking, leaked, shadowed, freedUsed, accidents>>
  OBVIOUS
<1> QED BY <1>1, <1>2, <1>3 DEF ConnectEffect

(* The owner of an inactive mailbox begins to register it.                 *)
ActivateEffect(t) ==
    /\ pc[t] = "idle"
    /\ owns[t]
    /\ ~active[handle[t]]
    /\ \A u \in Threads : work'[u] = IF u = t THEN handle[t] ELSE work[u]
    /\ \A u \in Threads : pc'[u] = IF u = t THEN "register" ELSE pc[u]
    /\ accidents' = accidents \cup Overlapping(t, address[handle[t]])
    /\ UNCHANGED <<registry, life, address, refs, active, handle, owns, victim,
                   looking, leaked, shadowed, freedUsed>>

(* The action has this effect.                                             *)
LEMMA ActivateDoes ==
    ASSUME IInv, NEW t \in Threads, Activate(t)
    PROVE  ActivateEffect(t)
<1> USE TypeSplits, NoneIsNone DEF IInv, Bookkeeping, Activate, Goto, mailboxes, calls
<1>1. /\ pc[t] = "idle"
      /\ owns[t]
      /\ ~active[handle[t]]
  BY ReferredAre
<1>2. /\ \A u \in Threads : work'[u] = IF u = t THEN handle[t] ELSE work[u]
      /\ \A u \in Threads : pc'[u] = IF u = t THEN "register" ELSE pc[u]
  BY <1>1 DEF Places
<1>3. /\ accidents' = accidents \cup Overlapping(t, address[handle[t]])
      /\ UNCHANGED <<registry, life, address, refs, active, handle, owns, victim,
                     looking, leaked, shadowed, freedUsed>>
  OBVIOUS
<1> QED BY <1>1, <1>2, <1>3 DEF ActivateEffect

(* registerMailbox() that finds an active mailbox at the address.          *)
RegisterWaitsEffect(t) ==
    /\ pc[t] = "register"
    /\ address[work[t]] \in Addresses
    /\ registry[address[work[t]]] \in Mailboxes
    /\ address[registry[address[work[t]]]] = address[work[t]]
    /\ Replaces(t)
    /\ \A u \in Threads : victim'[u] = IF u = t THEN registry[address[work[t]]]
                                       ELSE victim[u]
    /\ \A u \in Threads : pc'[u] = IF u = t THEN "deactivate" ELSE pc[u]
    /\ freedUsed' = (registry[address[work[t]]] # None /\ ~Alive(registry[address[work[t]]]))
    /\ UNCHANGED <<registry, life, address, refs, active, handle, owns, work, looking,
                   leaked, shadowed, accidents>>

(* The action has this effect.                                             *)
LEMMA RegisterWaitsDoes ==
    ASSUME IInv, NEW t \in Threads, Register(t), Replaces(t)
    PROVE  RegisterWaitsEffect(t)
<1> USE TypeSplits, NoneIsNone DEF IInv, Bookkeeping, Register, Replaces, Goto, mailboxes, calls
<1>1. /\ pc[t] = "register"
      /\ address[work[t]] \in Addresses
      /\ registry[address[work[t]]] \in Mailboxes
      /\ address[registry[address[work[t]]]] = address[work[t]]
  BY ReferredAre, RegisteredAre
<1>2. /\ \A u \in Threads : victim'[u] = IF u = t THEN registry[address[work[t]]]
                                         ELSE victim[u]
      /\ \A u \in Threads : pc'[u] = IF u = t THEN "deactivate" ELSE pc[u]
  BY <1>1 DEF Places
<1>3. /\ freedUsed' = (registry[address[work[t]]] # None /\ ~Alive(registry[address[work[t]]]))
      /\ UNCHANGED <<registry, life, address, refs, active, handle, owns, work,
                     looking, leaked, shadowed, accidents>>
  OBVIOUS
<1> QED BY <1>1, <1>2, <1>3 DEF RegisterWaitsEffect

(* The map takes m at a, unless it holds another address of the key.       *)
Enters(a, m) ==
    /\ \A b \in Addresses : registry'[b] = IF b = a THEN IF KeyTaken(a) THEN None ELSE m
                                           ELSE registry[b]
    /\ shadowed' = IF KeyTaken(a) THEN shadowed \cup {a} ELSE shadowed

(* registerMailbox() that finds none, or an inactive one.                  *)
RegisterEntersEffect(t) ==
    /\ pc[t] = "register"
    /\ address[work[t]] \in Addresses
    /\ work[t] \in Mailboxes
    /\ ~Replaces(t)
    /\ Enters(address[work[t]], work[t])
    /\ \A u \in Threads : pc'[u] = IF u = t THEN "activate" ELSE pc[u]
    /\ freedUsed' = (registry[address[work[t]]] # None /\ ~Alive(registry[address[work[t]]]))
    /\ UNCHANGED <<life, address, refs, active, handle, owns, work, victim, looking,
                   leaked, accidents>>

(* The action has this effect.                                             *)
LEMMA RegisterEntersDoes ==
    ASSUME IInv, NEW t \in Threads, Register(t), ~Replaces(t)
    PROVE  RegisterEntersEffect(t)
<1> USE TypeSplits, NoneIsNone DEF IInv, Bookkeeping, Register, Replaces, Goto, mailboxes, calls
<1>1. /\ pc[t] = "register"
      /\ address[work[t]] \in Addresses
      /\ work[t] \in Mailboxes
  BY ReferredAre
<1>2. /\ Enters(address[work[t]], work[t])
      /\ \A u \in Threads : pc'[u] = IF u = t THEN "activate" ELSE pc[u]
  BY <1>1 DEF Places, InsertAt, Enters
<1>3. /\ freedUsed' = (registry[address[work[t]]] # None /\ ~Alive(registry[address[work[t]]]))
      /\ UNCHANGED <<life, address, refs, active, handle, owns, work, victim, looking,
                     leaked, accidents>>
  OBVIOUS
<1> QED BY <1>1, <1>2, <1>3 DEF RegisterEntersEffect

(* The second half of registerMailbox() enters unless another has.         *)
InsertEffect(t) ==
    /\ pc[t] = "insert"
    /\ address[work[t]] \in Addresses
    /\ work[t] \in Mailboxes
    /\ IF registry[address[work[t]]] = None THEN Enters(address[work[t]], work[t])
       ELSE UNCHANGED <<registry, shadowed>>
    /\ \A u \in Threads : pc'[u] = IF u = t THEN "activate" ELSE pc[u]
    /\ UNCHANGED <<life, address, refs, active, handle, owns, work, victim, looking,
                   leaked, freedUsed, accidents>>

(* The action has this effect.                                             *)
LEMMA InsertDoes ==
    ASSUME IInv, NEW t \in Threads, Insert(t)
    PROVE  InsertEffect(t)
<1> USE TypeSplits, NoneIsNone DEF IInv, Bookkeeping, Insert, Goto, mailboxes, calls
<1>1. /\ pc[t] = "insert"
      /\ address[work[t]] \in Addresses
      /\ work[t] \in Mailboxes
  BY ReferredAre
<1>2. /\ IF registry[address[work[t]]] = None THEN Enters(address[work[t]], work[t])
         ELSE UNCHANGED <<registry, shadowed>>
      /\ \A u \in Threads : pc'[u] = IF u = t THEN "activate" ELSE pc[u]
  BY <1>1 DEF Places, InsertAt, Enters
<1>3. UNCHANGED <<life, address, refs, active, handle, owns, work, victim, looking,
                  leaked, freedUsed, accidents>>
  OBVIOUS
<1> QED BY <1>1, <1>2, <1>3 DEF InsertEffect

(* The registered mailbox is active and the thread has its handle.         *)
SetActiveEffect(t) ==
    /\ pc[t] = "activate"
    /\ work[t] \in Mailboxes
    /\ \A m \in Mailboxes : active'[m] = IF m = work[t] THEN TRUE ELSE active[m]
    /\ \A u \in Threads : handle'[u] = IF u = t THEN work[t] ELSE handle[u]
    /\ \A u \in Threads : work'[u] = IF u = t THEN None ELSE work[u]
    /\ \A u \in Threads : pc'[u] = IF u = t THEN "idle" ELSE pc[u]
    /\ freedUsed' = ~Alive(work[t])
    /\ UNCHANGED <<registry, life, address, refs, owns, victim, looking, leaked, shadowed,
                   accidents>>

(* The action has this effect.                                             *)
LEMMA SetActiveDoes ==
    ASSUME IInv, NEW t \in Threads, SetActive(t)
    PROVE  SetActiveEffect(t)
<1> USE TypeSplits, NoneIsNone DEF IInv, Bookkeeping, SetActive, Goto, mailboxes, calls
<1>1. /\ pc[t] = "activate"
      /\ work[t] \in Mailboxes
  BY ReferredAre
<1>2. /\ \A u \in Threads : handle'[u] = IF u = t THEN work[t] ELSE handle[u]
      /\ \A u \in Threads : work'[u] = IF u = t THEN None ELSE work[u]
      /\ \A u \in Threads : pc'[u] = IF u = t THEN "idle" ELSE pc[u]
  BY <1>1 DEF Places
<1>3. \A m \in Mailboxes : active'[m] = IF m = work[t] THEN TRUE ELSE active[m]
  BY <1>1 DEF Flags
<1>4. /\ freedUsed' = ~Alive(work[t])
      /\ UNCHANGED <<registry, life, address, refs, owns, victim, looking, leaked, shadowed,
                     accidents>>
  OBVIOUS
<1> QED BY <1>1, <1>2, <1>3, <1>4 DEF SetActiveEffect

(* The owner of an active mailbox begins to deactivate it.                 *)
DeactivateEffect(t) ==
    /\ pc[t] = "idle"
    /\ owns[t]
    /\ active[handle[t]]
    /\ \A u \in Threads : victim'[u] = IF u = t THEN handle[t] ELSE victim[u]
    /\ \A u \in Threads : pc'[u] = IF u = t THEN "setInactive" ELSE pc[u]
    /\ accidents' = accidents \cup Overlapping(t, address[handle[t]])
    /\ UNCHANGED <<registry, life, address, refs, active, handle, owns, work, looking,
                   leaked, shadowed, freedUsed>>

(* The action has this effect.                                             *)
LEMMA DeactivateDoes ==
    ASSUME IInv, NEW t \in Threads, Deactivate(t)
    PROVE  DeactivateEffect(t)
<1> USE TypeSplits, NoneIsNone DEF IInv, Bookkeeping, Deactivate, Goto, mailboxes, calls
<1>1. /\ pc[t] = "idle"
      /\ owns[t]
      /\ active[handle[t]]
  BY ReferredAre
<1>2. /\ \A u \in Threads : victim'[u] = IF u = t THEN handle[t] ELSE victim[u]
      /\ \A u \in Threads : pc'[u] = IF u = t THEN "setInactive" ELSE pc[u]
  BY <1>1 DEF Places
<1>3. /\ accidents' = accidents \cup Overlapping(t, address[handle[t]])
      /\ UNCHANGED <<registry, life, address, refs, active, handle, owns, work,
                     looking, leaked, shadowed, freedUsed>>
  OBVIOUS
<1> QED BY <1>1, <1>2, <1>3 DEF DeactivateEffect

(* The mailbox to be replaced is still active.                             *)
TestVictimActiveEffect(t) ==
    /\ pc[t] = "deactivate"
    /\ victim[t] \in Mailboxes
    /\ active[victim[t]]
    /\ \A u \in Threads : pc'[u] = IF u = t THEN "setInactive" ELSE pc[u]
    /\ freedUsed' = ~Alive(victim[t])
    /\ UNCHANGED <<registry, life, address, refs, active, handle, owns, work, victim,
                   looking, leaked, shadowed, accidents>>

(* The action has this effect.                                             *)
LEMMA TestVictimActiveDoes ==
    ASSUME IInv, NEW t \in Threads, TestVictim(t), active[victim[t]]
    PROVE  TestVictimActiveEffect(t)
<1> USE TypeSplits, NoneIsNone DEF IInv, Bookkeeping, TestVictim, Goto, mailboxes, calls
<1>1. /\ pc[t] = "deactivate"
      /\ victim[t] \in Mailboxes
  BY ReferredAre
<1>2. \A u \in Threads : pc'[u] = IF u = t THEN "setInactive" ELSE pc[u]
  BY <1>1 DEF Places
<1>3. /\ freedUsed' = ~Alive(victim[t])
      /\ UNCHANGED <<registry, life, address, refs, active, handle, owns, work, victim,
                     looking, leaked, shadowed, accidents>>
  OBVIOUS
<1> QED BY <1>1, <1>2, <1>3 DEF TestVictimActiveEffect

(* The mailbox to be replaced is not active any more.                      *)
TestVictimInactiveEffect(t) ==
    /\ pc[t] = "deactivate"
    /\ victim[t] \in Mailboxes
    /\ ~active[victim[t]]
    /\ \A u \in Threads : victim'[u] = IF u = t THEN None ELSE victim[u]
    /\ \A u \in Threads : pc'[u] = IF u = t THEN "insert" ELSE pc[u]
    /\ freedUsed' = ~Alive(victim[t])
    /\ UNCHANGED <<registry, life, address, refs, active, handle, owns, work, looking,
                   leaked, shadowed, accidents>>

(* The action has this effect.                                             *)
LEMMA TestVictimInactiveDoes ==
    ASSUME IInv, NEW t \in Threads, TestVictim(t), ~active[victim[t]]
    PROVE  TestVictimInactiveEffect(t)
<1> USE TypeSplits, NoneIsNone DEF IInv, Bookkeeping, TestVictim, Goto, mailboxes, calls
<1>1. /\ pc[t] = "deactivate"
      /\ victim[t] \in Mailboxes
  BY ReferredAre
<1>2. /\ \A u \in Threads : victim'[u] = IF u = t THEN None ELSE victim[u]
      /\ \A u \in Threads : pc'[u] = IF u = t THEN "insert" ELSE pc[u]
  BY <1>1 DEF Places
<1>3. /\ freedUsed' = ~Alive(victim[t])
      /\ UNCHANGED <<registry, life, address, refs, active, handle, owns, work,
                     looking, leaked, shadowed, accidents>>
  OBVIOUS
<1> QED BY <1>1, <1>2, <1>3 DEF TestVictimInactiveEffect

(* The mailbox is inactive before it is deregistered.                      *)
SetInactiveEffect(t) ==
    /\ pc[t] = "setInactive"
    /\ victim[t] \in Mailboxes
    /\ \A m \in Mailboxes : active'[m] = IF m = victim[t] THEN FALSE ELSE active[m]
    /\ \A u \in Threads : pc'[u] = IF u = t THEN "deregister" ELSE pc[u]
    /\ freedUsed' = ~Alive(victim[t])
    /\ UNCHANGED <<registry, life, address, refs, handle, owns, work, victim, looking,
                   leaked, shadowed, accidents>>

(* The action has this effect.                                             *)
LEMMA SetInactiveDoes ==
    ASSUME IInv, NEW t \in Threads, SetInactive(t)
    PROVE  SetInactiveEffect(t)
<1> USE TypeSplits, NoneIsNone DEF IInv, Bookkeeping, SetInactive, Goto, mailboxes, calls
<1>1. /\ pc[t] = "setInactive"
      /\ victim[t] \in Mailboxes
  BY ReferredAre
<1>2. \A u \in Threads : pc'[u] = IF u = t THEN "deregister" ELSE pc[u]
  BY <1>1 DEF Places
<1>3. \A m \in Mailboxes : active'[m] = IF m = victim[t] THEN FALSE ELSE active[m]
  BY <1>1 DEF Flags
<1>4. /\ freedUsed' = ~Alive(victim[t])
      /\ UNCHANGED <<registry, life, address, refs, handle, owns, work, victim,
                     looking, leaked, shadowed, accidents>>
  OBVIOUS
<1> QED BY <1>1, <1>2, <1>3, <1>4 DEF SetInactiveEffect

(* The entry is erased, whatever it refers to.                             *)
DeregisterEffect(t) ==
    /\ pc[t] = "deregister"
    /\ address[victim[t]] \in Addresses
    /\ \A a \in Addresses : registry'[a] = IF a = address[victim[t]] THEN None
                                           ELSE registry[a]
    /\ \A u \in Threads : victim'[u] = IF u = t THEN None ELSE victim[u]
    /\ \A u \in Threads : pc'[u] = IF u = t
                                   THEN IF work[t] = None THEN "idle"
                                        ELSE "insert"
                                   ELSE pc[u]
    /\ UNCHANGED <<life, address, refs, active, handle, owns, work, looking, leaked, shadowed,
                   freedUsed, accidents>>

(* The action has this effect.                                             *)
LEMMA DeregisterDoes ==
    ASSUME IInv, NEW t \in Threads, Deregister(t)
    PROVE  DeregisterEffect(t)
<1> USE TypeSplits, NoneIsNone DEF IInv, Bookkeeping, Deregister, Goto, mailboxes, calls
<1>1. /\ pc[t] = "deregister"
      /\ address[victim[t]] \in Addresses
  BY ReferredAre
<1>2. /\ \A a \in Addresses : registry'[a] = IF a = address[victim[t]] THEN None
                                             ELSE registry[a]
      /\ \A u \in Threads : victim'[u] = IF u = t THEN None ELSE victim[u]
      /\ \A u \in Threads : pc'[u] = IF u = t
                                     THEN IF work[t] = None THEN "idle"
                                          ELSE "insert"
                                     ELSE pc[u]
  BY <1>1 DEF Places
<1>3. UNCHANGED <<life, address, refs, active, handle, owns, work, looking, leaked, shadowed,
                  freedUsed, accidents>>
  OBVIOUS
<1> QED BY <1>1, <1>2, <1>3 DEF DeregisterEffect

(* A handle less; the thread goes on to test the count.                    *)
ReleaseEffect(t) ==
    /\ pc[t] = "idle"
    /\ handle[t] # None
    /\ handle[t] \in Mailboxes
    /\ \A m \in Mailboxes : refs'[m] = IF m = handle[t] THEN refs[handle[t]] - 1
                                       ELSE refs[m]
    /\ \A u \in Threads : work'[u] = IF u = t THEN handle[t] ELSE work[u]
    /\ \A u \in Threads : handle'[u] = IF u = t THEN None ELSE handle[u]
    /\ \A u \in Threads : owns'[u] = IF u = t THEN FALSE ELSE owns[u]
    /\ \A u \in Threads : pc'[u] = IF u = t THEN "test" ELSE pc[u]
    /\ freedUsed' = ~Alive(handle[t])
    /\ accidents' = accidents \cup OverlappingRelease(t, handle[t])
    /\ UNCHANGED <<registry, life, address, active, victim, looking, leaked, shadowed>>

(* The action has this effect.                                             *)
LEMMA ReleaseDoes ==
    ASSUME IInv, NEW t \in Threads, Release(t)
    PROVE  ReleaseEffect(t)
<1> USE TypeSplits, NoneIsNone DEF IInv, Bookkeeping, Release, Goto, mailboxes, calls
<1>1. /\ pc[t] = "idle"
      /\ handle[t] # None
      /\ handle[t] \in Mailboxes
  BY ReferredAre
<1>2. /\ \A u \in Threads : work'[u] = IF u = t THEN handle[t] ELSE work[u]
      /\ \A u \in Threads : handle'[u] = IF u = t THEN None ELSE handle[u]
      /\ \A u \in Threads : pc'[u] = IF u = t THEN "test" ELSE pc[u]
  BY <1>1 DEF Places
<1>3. \A m \in Mailboxes : refs'[m] = IF m = handle[t] THEN refs[handle[t]] - 1
                                      ELSE refs[m]
  BY <1>1 DEF Counts
<1>4. \A u \in Threads : owns'[u] = IF u = t THEN FALSE ELSE owns[u]
  BY <1>1 DEF Flags
<1>5. /\ freedUsed' = ~Alive(handle[t])
      /\ accidents' = accidents \cup OverlappingRelease(t, handle[t])
      /\ UNCHANGED <<registry, life, address, active, victim, looking, leaked, shadowed>>
  OBVIOUS
<1> QED BY <1>1, <1>2, <1>3, <1>4, <1>5 DEF ReleaseEffect

(* The last release.                                                       *)
TestCountZeroEffect(t) ==
    /\ pc[t] = "test"
    /\ work[t] \in Mailboxes
    /\ refs[work[t]] = 0
    /\ \A u \in Threads : pc'[u] = IF u = t THEN "destroy" ELSE pc[u]
    /\ freedUsed' = ~Alive(work[t])
    /\ UNCHANGED <<registry, life, address, refs, active, handle, owns, work, victim,
                   looking, leaked, shadowed, accidents>>

(* The action has this effect.                                             *)
LEMMA TestCountZeroDoes ==
    ASSUME IInv, NEW t \in Threads, TestCount(t), refs[work[t]] = 0
    PROVE  TestCountZeroEffect(t)
<1> USE TypeSplits, NoneIsNone DEF IInv, Bookkeeping, TestCount, Goto, mailboxes, calls
<1>1. /\ pc[t] = "test"
      /\ work[t] \in Mailboxes
  BY ReferredAre
<1>2. \A u \in Threads : pc'[u] = IF u = t THEN "destroy" ELSE pc[u]
  BY <1>1 DEF Places
<1>3. /\ freedUsed' = ~Alive(work[t])
      /\ UNCHANGED <<registry, life, address, refs, active, handle, owns, work, victim,
                     looking, leaked, shadowed, accidents>>
  OBVIOUS
<1> QED BY <1>1, <1>2, <1>3 DEF TestCountZeroEffect

(* A release that is not the last.                                         *)
TestCountMoreEffect(t) ==
    /\ pc[t] = "test"
    /\ work[t] \in Mailboxes
    /\ refs[work[t]] # 0
    /\ \A u \in Threads : work'[u] = IF u = t THEN None ELSE work[u]
    /\ \A u \in Threads : pc'[u] = IF u = t THEN "idle" ELSE pc[u]
    /\ freedUsed' = ~Alive(work[t])
    /\ UNCHANGED <<registry, life, address, refs, active, handle, owns, victim,
                   looking, leaked, shadowed, accidents>>

(* The action has this effect.                                             *)
LEMMA TestCountMoreDoes ==
    ASSUME IInv, NEW t \in Threads, TestCount(t), refs[work[t]] # 0
    PROVE  TestCountMoreEffect(t)
<1> USE TypeSplits, NoneIsNone DEF IInv, Bookkeeping, TestCount, Goto, mailboxes, calls
<1>1. /\ pc[t] = "test"
      /\ work[t] \in Mailboxes
  BY ReferredAre
<1>2. /\ \A u \in Threads : work'[u] = IF u = t THEN None ELSE work[u]
      /\ \A u \in Threads : pc'[u] = IF u = t THEN "idle" ELSE pc[u]
  BY <1>1 DEF Places
<1>3. /\ freedUsed' = ~Alive(work[t])
      /\ UNCHANGED <<registry, life, address, refs, active, handle, owns, victim,
                     looking, leaked, shadowed, accidents>>
  OBVIOUS
<1> QED BY <1>1, <1>2, <1>3 DEF TestCountMoreEffect

(* The mailbox is deleted.                                                 *)
DestroyEffect(t) ==
    /\ pc[t] = "destroy"
    /\ work[t] \in Mailboxes
    /\ \A m \in Mailboxes : life'[m] = IF m = work[t] THEN "deleted" ELSE life[m]
    /\ \A m \in Mailboxes : active'[m] = IF m = work[t] THEN FALSE ELSE active[m]
    /\ \A u \in Threads : work'[u] = IF u = t THEN None ELSE work[u]
    /\ \A u \in Threads : pc'[u] = IF u = t THEN "idle" ELSE pc[u]
    /\ freedUsed' = ~Alive(work[t])
    /\ accidents' = accidents
           \cup (IF Registered(work[t]) THEN {"released_while_registered"} ELSE {})
    /\ UNCHANGED <<registry, address, refs, handle, owns, victim, looking, leaked, shadowed>>

(* The action has this effect.                                             *)
LEMMA DestroyDoes ==
    ASSUME IInv, NEW t \in Threads, Destroy(t)
    PROVE  DestroyEffect(t)
<1> USE TypeSplits, NoneIsNone DEF IInv, Bookkeeping, Destroy, Goto, mailboxes, calls
<1>1. /\ pc[t] = "destroy"
      /\ work[t] \in Mailboxes
  BY ReferredAre
<1>2. /\ \A m \in Mailboxes : life'[m] = IF m = work[t] THEN "deleted" ELSE life[m]
      /\ \A u \in Threads : work'[u] = IF u = t THEN None ELSE work[u]
      /\ \A u \in Threads : pc'[u] = IF u = t THEN "idle" ELSE pc[u]
  BY <1>1 DEF Places
<1>3. \A m \in Mailboxes : active'[m] = IF m = work[t] THEN FALSE ELSE active[m]
  BY <1>1 DEF Flags
<1>4. /\ freedUsed' = ~Alive(work[t])
      /\ accidents' = accidents
             \cup (IF Registered(work[t]) THEN {"released_while_registered"} ELSE {})
      /\ UNCHANGED <<registry, address, refs, handle, owns, victim, looking, leaked, shadowed>>
  OBVIOUS
<1> QED BY <1>1, <1>2, <1>3, <1>4 DEF DestroyEffect

(* Every step is one of these.                                             *)
LEMMA StepDoes ==
    ASSUME IInv, NEW t \in Threads, Step(t)
    PROVE  \/ \E m \in Mailboxes, n \in Names : CreateMailboxEffect(t, m, n)
           \/ \E a \in Addresses : FindEffect(t, a)
           \/ \E r \in Remotes : FindNoProxyEffect(t, r)
           \/ \E m \in Mailboxes : CreateProxyEffect(t, m)
           \/ ConnectFailsEffect(t)
           \/ ConnectEffect(t)
           \/ ActivateEffect(t)
           \/ RegisterWaitsEffect(t)
           \/ RegisterEntersEffect(t)
           \/ InsertEffect(t)
           \/ SetActiveEffect(t)
           \/ DeactivateEffect(t)
           \/ TestVictimActiveEffect(t)
           \/ TestVictimInactiveEffect(t)
           \/ SetInactiveEffect(t)
           \/ DeregisterEffect(t)
           \/ ReleaseEffect(t)
           \/ TestCountZeroEffect(t)
           \/ TestCountMoreEffect(t)
           \/ DestroyEffect(t)
  BY NoneIsNone, CreateMailboxDoes, FindDoes, FindNoProxyDoes, CreateProxyDoes,
     ConnectFailsDoes, ConnectDoes, ActivateDoes, RegisterWaitsDoes,
     RegisterEntersDoes, InsertDoes, SetActiveDoes, DeactivateDoes,
     TestVictimActiveDoes, TestVictimInactiveDoes, SetInactiveDoes, DeregisterDoes,
     ReleaseDoes, TestCountZeroDoes, TestCountMoreDoes, DestroyDoes
  DEF Step

(* The other threads and the addresses of made mailboxes stay put.         *)
StaysPut(t) ==
    /\ \A u \in Threads \ {t} :
          /\ pc'[u] = pc[u] /\ handle'[u] = handle[u] /\ owns'[u] = owns[u]
          /\ work'[u] = work[u] /\ victim'[u] = victim[u] /\ looking'[u] = looking[u]
    /\ \A m \in Mailboxes : life[m] # "new" => address'[m] = address[m] /\ life'[m] # "new"

(* A step moves one thread, and the mailboxes that are made keep their     *)
(* addresses.                                                              *)
LEMMA OthersStay ==
    ASSUME IInv, ~freedUsed, NEW t \in Threads, Step(t)
    PROVE  StaysPut(t)
<1>1. ASSUME NEW m \in Mailboxes, NEW n \in Names, CreateMailboxEffect(t, m, n)
      PROVE  StaysPut(t)
  BY <1>1, NoneIsNone DEF CreateMailboxEffect, StaysPut
<1>2. ASSUME NEW a \in Addresses, FindEffect(t, a) PROVE StaysPut(t)
  BY <1>2, NoneIsNone DEF FindEffect, StaysPut
<1>3. ASSUME NEW r \in Remotes, FindNoProxyEffect(t, r) PROVE StaysPut(t)
  BY <1>3, NoneIsNone DEF FindNoProxyEffect, StaysPut
<1>4. ASSUME NEW m \in Mailboxes, CreateProxyEffect(t, m) PROVE StaysPut(t)
  BY <1>4, NoneIsNone DEF CreateProxyEffect, StaysPut
<1>5. CASE ConnectFailsEffect(t)
  BY <1>5, NoneIsNone DEF ConnectFailsEffect, StaysPut
<1>6. CASE ConnectEffect(t)
  BY <1>6, NoneIsNone DEF ConnectEffect, StaysPut
<1>7. CASE ActivateEffect(t)
  BY <1>7, NoneIsNone DEF ActivateEffect, StaysPut
<1>8. CASE RegisterWaitsEffect(t)
  BY <1>8, NoneIsNone DEF RegisterWaitsEffect, StaysPut
<1>9. CASE RegisterEntersEffect(t)
  BY <1>9, NoneIsNone DEF RegisterEntersEffect, StaysPut
<1>10. CASE InsertEffect(t)
  BY <1>10, NoneIsNone DEF InsertEffect, StaysPut
<1>11. CASE SetActiveEffect(t)
  BY <1>11, NoneIsNone DEF SetActiveEffect, StaysPut
<1>12. CASE DeactivateEffect(t)
  BY <1>12, NoneIsNone DEF DeactivateEffect, StaysPut
<1>13. CASE TestVictimActiveEffect(t)
  BY <1>13, NoneIsNone DEF TestVictimActiveEffect, StaysPut
<1>14. CASE TestVictimInactiveEffect(t)
  BY <1>14, NoneIsNone DEF TestVictimInactiveEffect, StaysPut
<1>15. CASE SetInactiveEffect(t)
  BY <1>15, NoneIsNone DEF SetInactiveEffect, StaysPut
<1>16. CASE DeregisterEffect(t)
  BY <1>16, NoneIsNone DEF DeregisterEffect, StaysPut
<1>17. CASE ReleaseEffect(t)
  BY <1>17, NoneIsNone DEF ReleaseEffect, StaysPut
<1>18. CASE TestCountZeroEffect(t)
  BY <1>18, NoneIsNone DEF TestCountZeroEffect, StaysPut
<1>19. CASE TestCountMoreEffect(t)
  BY <1>19, NoneIsNone DEF TestCountMoreEffect, StaysPut
<1>20. CASE DestroyEffect(t)
  BY <1>20, NoneIsNone DEF DestroyEffect, StaysPut
<1> QED
  BY StepDoes, <1>1, <1>2, <1>3, <1>4, <1>5, <1>6, <1>7, <1>8, <1>9, <1>10, <1>11,
     <1>12, <1>13, <1>14, <1>15, <1>16, <1>17, <1>18, <1>19, <1>20

(* Every step leaves the thread's variables as its new place says, and the *)
(* other threads alone.                                                    *)
LEMMA WellKept ==
    ASSUME IInv, ~freedUsed, NEW t \in Threads, Step(t)
    PROVE  ThreadsAreWell'
<1>a. TypeOK /\ ThreadsAreWell /\ MailboxesAreMade
  BY DEF IInv, Bookkeeping
<1>b. \A u \in Threads \ {t} : WellPlaced(u)'
  <2>1. \A u \in Threads : /\ work[u] # None => work[u] \in Mailboxes /\ life[work[u]] # "new"
                           /\ victim[u] # None => victim[u] \in Mailboxes /\ life[victim[u]] # "new"
    BY <1>a, ReferredAre DEF MailboxesAreMade, WellMade, Refers
  <2> QED BY <1>a, <2>1, OthersStay DEF StaysPut, ThreadsAreWell, WellPlaced
<1> SUFFICES WellPlaced(t)'
  BY <1>b DEF ThreadsAreWell
<1>c. WellPlaced(t)
  BY <1>a DEF ThreadsAreWell
<1>1. ASSUME NEW m \in Mailboxes, NEW n \in Names, CreateMailboxEffect(t, m, n)
      PROVE  WellPlaced(t)'
  BY <1>1, <1>c, NoneIsNone DEF CreateMailboxEffect, WellPlaced
<1>2. ASSUME NEW a \in Addresses, FindEffect(t, a) PROVE WellPlaced(t)'
  BY <1>2, <1>c, NoneIsNone DEF FindEffect, WellPlaced
<1>3. ASSUME NEW r \in Remotes, FindNoProxyEffect(t, r) PROVE WellPlaced(t)'
  BY <1>3, <1>c, NoneIsNone DEF FindNoProxyEffect, WellPlaced
<1>4. ASSUME NEW m \in Mailboxes, CreateProxyEffect(t, m) PROVE WellPlaced(t)'
  BY <1>4, <1>c, NoneIsNone DEF CreateProxyEffect, WellPlaced
<1>5. CASE ConnectFailsEffect(t)
  BY <1>5, <1>c, NoneIsNone DEF ConnectFailsEffect, WellPlaced
<1>6. CASE ConnectEffect(t)
  BY <1>6, <1>c, NoneIsNone DEF ConnectEffect, WellPlaced
<1>7. CASE ActivateEffect(t)
  BY <1>7, <1>c, NoneIsNone DEF ActivateEffect, WellPlaced
<1>8. CASE RegisterWaitsEffect(t)
  BY <1>8, <1>c, NoneIsNone DEF RegisterWaitsEffect, WellPlaced
<1>9. CASE RegisterEntersEffect(t)
  BY <1>9, <1>c, NoneIsNone DEF RegisterEntersEffect, WellPlaced
<1>10. CASE InsertEffect(t)
  BY <1>10, <1>c, NoneIsNone DEF InsertEffect, WellPlaced
<1>11. CASE SetActiveEffect(t)
  BY <1>11, <1>c, NoneIsNone DEF SetActiveEffect, WellPlaced
<1>12. CASE DeactivateEffect(t)
  BY <1>12, <1>c, NoneIsNone DEF DeactivateEffect, WellPlaced
<1>13. CASE TestVictimActiveEffect(t)
  BY <1>13, <1>c, NoneIsNone DEF TestVictimActiveEffect, WellPlaced
<1>14. CASE TestVictimInactiveEffect(t)
  BY <1>14, <1>c, NoneIsNone DEF TestVictimInactiveEffect, WellPlaced
<1>15. CASE SetInactiveEffect(t)
  BY <1>15, <1>c, NoneIsNone DEF SetInactiveEffect, WellPlaced
<1>16. CASE DeregisterEffect(t)
  BY <1>16, <1>c, NoneIsNone DEF DeregisterEffect, WellPlaced
<1>17. CASE ReleaseEffect(t)
  BY <1>17, <1>c, NoneIsNone DEF ReleaseEffect, WellPlaced
<1>18. CASE TestCountZeroEffect(t)
  BY <1>18, <1>c, NoneIsNone DEF TestCountZeroEffect, WellPlaced
<1>19. CASE TestCountMoreEffect(t)
  BY <1>19, <1>c, NoneIsNone DEF TestCountMoreEffect, WellPlaced
<1>20. CASE DestroyEffect(t)
  BY <1>20, <1>c, NoneIsNone DEF DestroyEffect, WellPlaced
<1> QED
  BY StepDoes, <1>1, <1>2, <1>3, <1>4, <1>5, <1>6, <1>7, <1>8, <1>9, <1>10, <1>11,
     <1>12, <1>13, <1>14, <1>15, <1>16, <1>17, <1>18, <1>19, <1>20

(* Mailboxes are referred to and set active only when they have been made: *)
(* activate() holds a mailbox that its count keeps alive.                  *)
LEMMA MadeKept ==
    ASSUME IInv, ~freedUsed, NEW t \in Threads, Step(t)
    PROVE  \A k \in Mailboxes : WellMade(k)'
<1>a. TypeOK /\ ThreadsAreWell /\ MailboxesAreMade
  BY DEF IInv, Bookkeeping
<1>e. \A a \in Addresses : registry[a] # None => registry[a] \in Mailboxes /\ life[registry[a]] # "new"
  BY <1>a, RegisteredAre, NoneIsNone DEF MailboxesAreMade, WellMade
<1>f. pc[t] = "activate" => Alive(work[t])
  BY ReferredAre DEF IInv, Bookkeeping, CoveredAreAlive, Covers, Releasing
<1> SUFFICES ASSUME NEW k \in Mailboxes PROVE WellMade(k)'
  OBVIOUS
<1>c. WellMade(k)
  BY <1>a DEF MailboxesAreMade
<1>d. life'[k] = "new" => life[k] = "new" /\ \A u \in Threads \ {t} : ~Refers(u, k)'
  BY <1>c, OthersStay DEF StaysPut, WellMade, Refers
<1>1. ASSUME NEW m \in Mailboxes, NEW n \in Names, CreateMailboxEffect(t, m, n)
      PROVE  WellMade(k)'
  BY <1>1, <1>c, <1>d, <1>e, <1>f, NoneIsNone
  DEF CreateMailboxEffect, WellMade, Refers, Alive
<1>2. ASSUME NEW a \in Addresses, FindEffect(t, a) PROVE WellMade(k)'
  BY <1>2, <1>c, <1>d, <1>e, <1>f, NoneIsNone DEF FindEffect, WellMade, Refers, Alive
<1>3. ASSUME NEW r \in Remotes, FindNoProxyEffect(t, r) PROVE WellMade(k)'
  BY <1>3, <1>c, <1>d, <1>e, <1>f, NoneIsNone
  DEF FindNoProxyEffect, WellMade, Refers, Alive
<1>4. ASSUME NEW m \in Mailboxes, CreateProxyEffect(t, m) PROVE WellMade(k)'
  BY <1>4, <1>c, <1>d, <1>e, <1>f, NoneIsNone
  DEF CreateProxyEffect, WellMade, Refers, Alive
<1>5. CASE ConnectFailsEffect(t)
  BY <1>5, <1>c, <1>d, <1>e, <1>f, NoneIsNone
  DEF ConnectFailsEffect, WellMade, Refers, Alive
<1>6. CASE ConnectEffect(t)
  BY <1>6, <1>c, <1>d, <1>e, <1>f, NoneIsNone DEF ConnectEffect, WellMade, Refers, Alive
<1>7. CASE ActivateEffect(t)
  BY <1>7, <1>c, <1>d, <1>e, <1>f, NoneIsNone
  DEF ActivateEffect, WellMade, Refers, Alive
<1>8. CASE RegisterWaitsEffect(t)
  BY <1>8, <1>c, <1>d, <1>e, <1>f, NoneIsNone
  DEF RegisterWaitsEffect, WellMade, Refers, Alive
<1>9. CASE RegisterEntersEffect(t)
  BY <1>9, <1>c, <1>d, <1>e, <1>f, NoneIsNone
  DEF RegisterEntersEffect, WellMade, Refers, Alive
<1>10. CASE InsertEffect(t)
  BY <1>10, <1>c, <1>d, <1>e, <1>f, NoneIsNone DEF InsertEffect, WellMade, Refers, Alive
<1>11. CASE SetActiveEffect(t)
  BY <1>11, <1>c, <1>d, <1>e, <1>f, NoneIsNone
  DEF SetActiveEffect, WellMade, Refers, Alive
<1>12. CASE DeactivateEffect(t)
  BY <1>12, <1>c, <1>d, <1>e, <1>f, NoneIsNone
  DEF DeactivateEffect, WellMade, Refers, Alive
<1>13. CASE TestVictimActiveEffect(t)
  BY <1>13, <1>c, <1>d, <1>e, <1>f, NoneIsNone
  DEF TestVictimActiveEffect, WellMade, Refers, Alive
<1>14. CASE TestVictimInactiveEffect(t)
  BY <1>14, <1>c, <1>d, <1>e, <1>f, NoneIsNone
  DEF TestVictimInactiveEffect, WellMade, Refers, Alive
<1>15. CASE SetInactiveEffect(t)
  BY <1>15, <1>c, <1>d, <1>e, <1>f, NoneIsNone
  DEF SetInactiveEffect, WellMade, Refers, Alive
<1>16. CASE DeregisterEffect(t)
  BY <1>16, <1>c, <1>d, <1>e, <1>f, NoneIsNone
  DEF DeregisterEffect, WellMade, Refers, Alive
<1>17. CASE ReleaseEffect(t)
  BY <1>17, <1>c, <1>d, <1>e, <1>f, NoneIsNone
  DEF ReleaseEffect, WellMade, Refers, Alive
<1>18. CASE TestCountZeroEffect(t)
  BY <1>18, <1>c, <1>d, <1>e, <1>f, NoneIsNone
  DEF TestCountZeroEffect, WellMade, Refers, Alive
<1>19. CASE TestCountMoreEffect(t)
  BY <1>19, <1>c, <1>d, <1>e, <1>f, NoneIsNone
  DEF TestCountMoreEffect, WellMade, Refers, Alive
<1>20. CASE DestroyEffect(t)
  BY <1>20, <1>c, <1>d, <1>e, <1>f, NoneIsNone
  DEF DestroyEffect, WellMade, Refers, Alive
<1> QED
  BY StepDoes, <1>1, <1>2, <1>3, <1>4, <1>5, <1>6, <1>7, <1>8, <1>9, <1>10, <1>11,
     <1>12, <1>13, <1>14, <1>15, <1>16, <1>17, <1>18, <1>19, <1>20

(* What is registered at an address has that address.                      *)
LEMMA EnteredKept ==
    ASSUME IInv, ~freedUsed, NEW t \in Threads, Step(t)
    PROVE  \A a \in Addresses : registry'[a] # None => address'[registry'[a]] = a
<1>a. TypeOK /\ ThreadsAreWell /\ MailboxesAreMade
  BY DEF IInv, Bookkeeping
<1> SUFFICES ASSUME NEW a \in Addresses, registry'[a] # None
             PROVE  address'[registry'[a]] = a
  OBVIOUS
<1>c. registry[a] # None => /\ registry[a] \in Mailboxes /\ life[registry[a]] # "new"
                            /\ address[registry[a]] = a
  BY <1>a, RegisteredAre, NoneIsNone DEF MailboxesAreMade, WellMade
<1>d. StaysPut(t)
  BY OthersStay
<1>e. work[t] # None => work[t] \in Mailboxes /\ life[work[t]] # "new"
  BY <1>a, ReferredAre DEF MailboxesAreMade, WellMade, Refers
<1>1. ASSUME NEW m \in Mailboxes, NEW n \in Names, CreateMailboxEffect(t, m, n)
      PROVE  address'[registry'[a]] = a
  BY <1>1, <1>c, <1>d, <1>e, NoneIsNone DEF CreateMailboxEffect, StaysPut
<1>2. ASSUME NEW b \in Addresses, FindEffect(t, b) PROVE address'[registry'[a]] = a
  BY <1>2, <1>c, <1>d, <1>e, NoneIsNone DEF FindEffect, StaysPut
<1>3. ASSUME NEW r \in Remotes, FindNoProxyEffect(t, r) PROVE address'[registry'[a]] = a
  BY <1>3, <1>c, <1>d, <1>e, NoneIsNone DEF FindNoProxyEffect, StaysPut
<1>4. ASSUME NEW m \in Mailboxes, CreateProxyEffect(t, m)
      PROVE  address'[registry'[a]] = a
  BY <1>4, <1>c, <1>d, <1>e, NoneIsNone DEF CreateProxyEffect, StaysPut
<1>5. CASE ConnectFailsEffect(t)
  BY <1>5, <1>c, <1>d, <1>e, NoneIsNone DEF ConnectFailsEffect, StaysPut
<1>6. CASE ConnectEffect(t)
  BY <1>6, <1>c, <1>d, <1>e, NoneIsNone DEF ConnectEffect, StaysPut
<1>7. CASE ActivateEffect(t)
  BY <1>7, <1>c, <1>d, <1>e, NoneIsNone DEF ActivateEffect, StaysPut
<1>8. CASE RegisterWaitsEffect(t)
  BY <1>8, <1>c, <1>d, <1>e, NoneIsNone DEF RegisterWaitsEffect, StaysPut
<1>9. CASE RegisterEntersEffect(t)
  BY <1>9, <1>c, <1>d, <1>e, NoneIsNone DEF RegisterEntersEffect, Enters, StaysPut
<1>10. CASE InsertEffect(t)
  BY <1>10, <1>c, <1>d, <1>e, NoneIsNone DEF InsertEffect, Enters, StaysPut
<1>11. CASE SetActiveEffect(t)
  BY <1>11, <1>c, <1>d, <1>e, NoneIsNone DEF SetActiveEffect, StaysPut
<1>12. CASE DeactivateEffect(t)
  BY <1>12, <1>c, <1>d, <1>e, NoneIsNone DEF DeactivateEffect, StaysPut
<1>13. CASE TestVictimActiveEffect(t)
  BY <1>13, <1>c, <1>d, <1>e, NoneIsNone DEF TestVictimActiveEffect, StaysPut
<1>14. CASE TestVictimInactiveEffect(t)
  BY <1>14, <1>c, <1>d, <1>e, NoneIsNone DEF TestVictimInactiveEffect, StaysPut
<1>15. CASE SetInactiveEffect(t)
  BY <1>15, <1>c, <1>d, <1>e, NoneIsNone DEF SetInactiveEffect, StaysPut
<1>16. CASE DeregisterEffect(t)
  BY <1>16, <1>c, <1>d, <1>e, NoneIsNone DEF DeregisterEffect, StaysPut
<1>17. CASE ReleaseEffect(t)
  BY <1>17, <1>c, <1>d, <1>e, NoneIsNone DEF ReleaseEffect, StaysPut
<1>18. CASE TestCountZeroEffect(t)
  BY <1>18, <1>c, <1>d, <1>e, NoneIsNone DEF TestCountZeroEffect, StaysPut
<1>19. CASE TestCountMoreEffect(t)
  BY <1>19, <1>c, <1>d, <1>e, NoneIsNone DEF TestCountMoreEffect, StaysPut
<1>20. CASE DestroyEffect(t)
  BY <1>20, <1>c, <1>d, <1>e, NoneIsNone DEF DestroyEffect, StaysPut
<1> QED
  BY StepDoes, <1>1, <1>2, <1>3, <1>4, <1>5, <1>6, <1>7, <1>8, <1>9, <1>10, <1>11,
     <1>12, <1>13, <1>14, <1>15, <1>16, <1>17, <1>18, <1>19, <1>20

(* A proxy that find() connects is new: nobody else connects it and it has *)
(* not been leaked.                                                        *)
LEMMA FreshKept ==
    ASSUME IInv, ~freedUsed, NEW t \in Threads, Step(t)
    PROVE  ConnectedIsFresh'
<1>a. TypeOK /\ ThreadsAreWell /\ MailboxesAreMade
  BY DEF IInv, Bookkeeping
<1>c. ConnectedIsFresh /\ \A m \in Mailboxes : WellMade(m)
  BY <1>a DEF IInv, Bookkeeping, MailboxesAreMade
<1>d. \A u \in Threads : pc[u] = "connect" => work[u] \in Mailboxes
  BY ReferredAre
<1>e. pc[t] = "create" \/ pc[t] = "connect" => handle[t] = None
  BY <1>a DEF ThreadsAreWell, WellPlaced
<1>1. ASSUME NEW m \in Mailboxes, NEW n \in Names, CreateMailboxEffect(t, m, n)
      PROVE  ConnectedIsFresh'
  BY <1>1, <1>c, <1>d, NoneIsNone DEF CreateMailboxEffect, ConnectedIsFresh
<1>2. ASSUME NEW a \in Addresses, FindEffect(t, a) PROVE ConnectedIsFresh'
  BY <1>2, <1>c, <1>d, NoneIsNone DEF FindEffect, ConnectedIsFresh
<1>3. ASSUME NEW r \in Remotes, FindNoProxyEffect(t, r) PROVE ConnectedIsFresh'
  BY <1>3, <1>c, <1>d, NoneIsNone DEF FindNoProxyEffect, ConnectedIsFresh
<1>4. ASSUME NEW m \in Mailboxes, CreateProxyEffect(t, m) PROVE ConnectedIsFresh'
  BY <1>4, <1>c, <1>d, NoneIsNone
  DEF CreateProxyEffect, ConnectedIsFresh, WellMade, Refers
<1>5. CASE ConnectFailsEffect(t)
  BY <1>5, <1>c, <1>d, NoneIsNone DEF ConnectFailsEffect, ConnectedIsFresh
<1>6. CASE ConnectEffect(t)
  BY <1>6, <1>c, <1>d, NoneIsNone DEF ConnectEffect, ConnectedIsFresh
<1>7. CASE ActivateEffect(t)
  BY <1>7, <1>c, <1>d, NoneIsNone DEF ActivateEffect, ConnectedIsFresh
<1>8. CASE RegisterWaitsEffect(t)
  BY <1>8, <1>c, <1>d, NoneIsNone DEF RegisterWaitsEffect, ConnectedIsFresh
<1>9. CASE RegisterEntersEffect(t)
  BY <1>9, <1>c, <1>d, NoneIsNone DEF RegisterEntersEffect, ConnectedIsFresh
<1>10. CASE InsertEffect(t)
  BY <1>10, <1>c, <1>d, NoneIsNone DEF InsertEffect, ConnectedIsFresh
<1>11. CASE SetActiveEffect(t)
  BY <1>11, <1>c, <1>d, NoneIsNone DEF SetActiveEffect, ConnectedIsFresh
<1>12. CASE DeactivateEffect(t)
  BY <1>12, <1>c, <1>d, NoneIsNone DEF DeactivateEffect, ConnectedIsFresh
<1>13. CASE TestVictimActiveEffect(t)
  BY <1>13, <1>c, <1>d, NoneIsNone DEF TestVictimActiveEffect, ConnectedIsFresh
<1>14. CASE TestVictimInactiveEffect(t)
  BY <1>14, <1>c, <1>d, NoneIsNone DEF TestVictimInactiveEffect, ConnectedIsFresh
<1>15. CASE SetInactiveEffect(t)
  BY <1>15, <1>c, <1>d, NoneIsNone DEF SetInactiveEffect, ConnectedIsFresh
<1>16. CASE DeregisterEffect(t)
  BY <1>16, <1>c, <1>d, NoneIsNone DEF DeregisterEffect, ConnectedIsFresh
<1>17. CASE ReleaseEffect(t)
  BY <1>17, <1>c, <1>d, NoneIsNone DEF ReleaseEffect, ConnectedIsFresh
<1>18. CASE TestCountZeroEffect(t)
  BY <1>18, <1>c, <1>d, NoneIsNone DEF TestCountZeroEffect, ConnectedIsFresh
<1>19. CASE TestCountMoreEffect(t)
  BY <1>19, <1>c, <1>d, NoneIsNone DEF TestCountMoreEffect, ConnectedIsFresh
<1>20. CASE DestroyEffect(t)
  <2>1. \A u \in Threads : pc'[u] = "connect" => u # t /\ pc[u] = "connect" /\ work'[u] = work[u]
    BY <1>20 DEF DestroyEffect
  <2>2. leaked' = leaked
    BY <1>20 DEF DestroyEffect
  <2> QED BY <2>1, <2>2, <1>c DEF ConnectedIsFresh
<1> QED
  BY StepDoes, <1>1, <1>2, <1>3, <1>4, <1>5, <1>6, <1>7, <1>8, <1>9, <1>10, <1>11,
     <1>12, <1>13, <1>14, <1>15, <1>16, <1>17, <1>18, <1>19, <1>20

(* Who is counted: the threads with a handle and those inside a find().    *)
Holds(u, m) == handle[u] = m \/ (work[u] = m /\ ~Releasing(u))
Holders(m) == {u \in Threads : Holds(u, m)}
Leaks(m) == IF m \in leaked THEN 1 ELSE 0

(* The handles to a mailbox are its holders and the one that leaked.       *)
LEMMA HandlesAre ==
    ASSUME NEW m
    PROVE  /\ HandlesTo(m) = Cardinality(Holders(m)) + Leaks(m)
           /\ HandlesTo(m)' = Cardinality(Holders(m)') + Leaks(m)'
<1> DEFINE With == {t \in Threads : handle[t] = m}
           In == {t \in Threads : work[t] = m /\ handle[t] # m /\ ~Releasing(t)}
<1>1. /\ IsFiniteSet(With) /\ IsFiniteSet(In) /\ With \cap In = {}
      /\ Holders(m) = With \cup In
  BY ThreadsAssumption, FS_Subset DEF Holders, Holds
<1>2. /\ IsFiniteSet(With') /\ IsFiniteSet(In') /\ With' \cap In' = {}
      /\ Holders(m)' = With' \cup In'
  BY ThreadsAssumption, FS_Subset DEF Holders, Holds
<1>3. Cardinality(leaked \cap {m}) = Leaks(m) /\ Cardinality(leaked' \cap {m}) = Leaks(m)'
  <2>1. leaked \cap {m} = IF m \in leaked THEN {m} ELSE {}
    OBVIOUS
  <2>2. leaked' \cap {m} = IF m \in leaked' THEN {m} ELSE {}
    OBVIOUS
  <2> QED BY <2>1, <2>2, FS_EmptySet, FS_Singleton DEF Leaks
<1>4. /\ Cardinality(Holders(m)) = Cardinality(With) + Cardinality(In)
      /\ Cardinality(Holders(m)') = Cardinality(With') + Cardinality(In')
  <2> HIDE DEF With, In
  <2>1. /\ Cardinality(With \cup In) = Cardinality(With) + Cardinality(In)
                                        - Cardinality(With \cap In)
        /\ Cardinality(With' \cup In') = Cardinality(With') + Cardinality(In')
                                          - Cardinality(With' \cap In')
    BY <1>1, <1>2, FS_Union
  <2>2. /\ Cardinality(With) \in Nat /\ Cardinality(In) \in Nat
        /\ Cardinality(With') \in Nat /\ Cardinality(In') \in Nat
    BY <1>1, <1>2, FS_CardinalityType
  <2>3. Cardinality(With \cap In) = 0 /\ Cardinality(With' \cap In') = 0
    BY <1>1, <1>2, FS_EmptySet
  <2> QED BY <1>1, <1>2, <2>1, <2>2, <2>3
<1>5. /\ HandlesTo(m) = Cardinality(With) + Cardinality(In) + Cardinality(leaked \cap {m})
      /\ HandlesTo(m)' = Cardinality(With') + Cardinality(In') + Cardinality(leaked' \cap {m})
  BY DEF HandlesTo
<1> HIDE DEF With, In
<1> QED BY <1>3, <1>4, <1>5

(* A set of threads with one more, and with one less.                      *)
LEMMA HoldersCount ==
    ASSUME NEW H \in SUBSET Threads, NEW t \in Threads
    PROVE  /\ Cardinality(H) \in Nat
           /\ H # {} => Cardinality(H) > 0
           /\ t \notin H => Cardinality(H \cup {t}) = Cardinality(H) + 1
           /\ t \in H => Cardinality(H \ {t}) = Cardinality(H) - 1
<1>1. IsFiniteSet(H)
  BY ThreadsAssumption, FS_Subset
<1>2. Cardinality(H) \in Nat
  BY <1>1, FS_CardinalityType
<1>3. H # {} => Cardinality(H) # 0
  BY <1>1, FS_EmptySet
<1>4. t \notin H => Cardinality(H \cup {t}) = Cardinality(H) + 1
  BY <1>1, FS_AddElement
<1>5. t \in H => Cardinality(H \ {t}) = Cardinality(H) - 1
  BY <1>1, FS_RemoveElement
<1> QED BY <1>2, <1>3, <1>4, <1>5

(* Who holds a mailbox, the count is above zero.                           *)
LEMMA HeldAreCounted ==
    ASSUME IInv, NEW u \in Threads, NEW m \in Mailboxes, Holds(u, m)
    PROVE  refs[m] # 0
<1>1. refs[m] = Cardinality(Holders(m)) + Leaks(m)
  BY HandlesAre DEF IInv, Bookkeeping, CountsAreExact
<1>2. Holders(m) # {} /\ Holders(m) \in SUBSET Threads
  BY DEF Holders
<1>3. Leaks(m) \in Nat
  BY DEF Leaks
<1>4. Cardinality(Holders(m)) \in Nat /\ Cardinality(Holders(m)) > 0
  BY <1>2, HoldersCount
<1> QED BY <1>1, <1>3, <1>4

(* The three ways in which a step changes the count of a mailbox.          *)
Same(t, m) == (Holds(t, m)' <=> Holds(t, m)) /\ refs'[m] = refs[m] /\ Leaks(m)' = Leaks(m)
Gains(t, m) == /\ ~Holds(t, m) /\ Holds(t, m)'
               /\ refs'[m] = refs[m] + 1 /\ Leaks(m)' = Leaks(m)
Drops(t, m) == /\ Holds(t, m) /\ ~Holds(t, m)'
               /\ \/ refs'[m] = refs[m] - 1 /\ Leaks(m)' = Leaks(m)
                  \/ refs'[m] = refs[m] /\ Leaks(m) = 0 /\ Leaks(m)' = 1

(* Every step changes the count of each mailbox as it changes the holders: *)
(* it keeps both, gains one or drops one.                                  *)
LEMMA CountsKept ==
    ASSUME IInv, ~freedUsed, NEW t \in Threads, Step(t)
    PROVE  CountsAreExact'
<1>a. TypeOK /\ ThreadsAreWell /\ MailboxesAreMade
  BY DEF IInv, Bookkeeping
<1>b. WellPlaced(t)
  BY <1>a DEF ThreadsAreWell
<1> SUFFICES ASSUME NEW k \in Mailboxes PROVE refs'[k] = HandlesTo(k)'
  BY DEF CountsAreExact
<1>c. WellMade(k)
  BY <1>a DEF MailboxesAreMade
<1>d. refs[k] = Cardinality(Holders(k)) + Leaks(k)
  BY HandlesAre DEF IInv, Bookkeeping, CountsAreExact
<1>e. life[k] = "new" => refs[k] = 0 /\ ~Holds(t, k)
  <2>1. life[k] = "new" => Holders(k) = {} /\ Leaks(k) = 0 /\ ~Holds(t, k)
    BY <1>c DEF WellMade, Refers, Holders, Holds, Leaks
  <2> QED BY <1>d, <2>1, FS_EmptySet
<1>f. pc[t] = "connect" => work[t] \notin leaked
  BY DEF IInv, Bookkeeping, ConnectedIsFresh
<1>g. \A u \in Threads \ {t} : Holds(u, k)' <=> Holds(u, k)
  BY OthersStay DEF StaysPut, Holds, Releasing
<1> SUFFICES Same(t, k) \/ Gains(t, k) \/ Drops(t, k)
  <2>1. /\ Same(t, k) => Holders(k)' = Holders(k)
        /\ Gains(t, k) => t \notin Holders(k) /\ Holders(k)' = Holders(k) \cup {t}
        /\ Drops(t, k) => t \in Holders(k) /\ Holders(k)' = Holders(k) \ {t}
    BY <1>g DEF Same, Gains, Drops, Holders
  <2>2. Holders(k) \in SUBSET Threads
    BY DEF Holders
  <2>3. refs'[k] = Cardinality(Holders(k)') + Leaks(k)'
    <3>1. Leaks(k) \in Nat /\ Leaks(k)' \in Nat
      BY DEF Leaks
    <3> QED BY <1>d, <2>1, <2>2, <3>1, HoldersCount DEF Same, Gains, Drops
  <2> QED BY <2>3, HandlesAre
<1>1. ASSUME NEW m \in Mailboxes, NEW n \in Names, CreateMailboxEffect(t, m, n)
      PROVE  Same(t, k) \/ Gains(t, k) \/ Drops(t, k)
  BY <1>1, <1>c, <1>e, NoneIsNone
  DEF CreateMailboxEffect, Same, Gains, Holds, Releasing, Leaks, WellMade, Refers
<1>2. ASSUME NEW a \in Addresses, FindEffect(t, a)
      PROVE  Same(t, k) \/ Gains(t, k) \/ Drops(t, k)
  BY <1>2, <1>b, NoneIsNone
  DEF FindEffect, Same, Gains, Holds, Releasing, Leaks, WellPlaced
<1>3. ASSUME NEW r \in Remotes, FindNoProxyEffect(t, r)
      PROVE  Same(t, k) \/ Gains(t, k) \/ Drops(t, k)
  BY <1>3, <1>b, NoneIsNone
  DEF FindNoProxyEffect, Same, Holds, Releasing, Leaks, WellPlaced
<1>4. ASSUME NEW m \in Mailboxes, CreateProxyEffect(t, m)
      PROVE  Same(t, k) \/ Gains(t, k) \/ Drops(t, k)
  BY <1>4, <1>b, <1>c, <1>e, NoneIsNone
  DEF CreateProxyEffect, Same, Gains, Holds, Releasing, Leaks, WellMade, Refers,
      WellPlaced
<1>5. CASE ConnectFailsEffect(t)
  BY <1>5, <1>b, <1>f, NoneIsNone
  DEF ConnectFailsEffect, Same, Drops, Holds, Releasing, Leaks, WellPlaced
<1>6. CASE ConnectEffect(t)
  BY <1>6, <1>b, NoneIsNone DEF ConnectEffect, Same, Holds, Releasing, Leaks, WellPlaced
<1>7. CASE ActivateEffect(t)
  BY <1>7, <1>b, NoneIsNone
  DEF ActivateEffect, Same, Holds, Releasing, Leaks, WellPlaced
<1>8. CASE RegisterWaitsEffect(t)
  BY <1>8, <1>b, NoneIsNone
  DEF RegisterWaitsEffect, Same, Holds, Releasing, Leaks, WellPlaced
<1>9. CASE RegisterEntersEffect(t)
  BY <1>9, <1>b, NoneIsNone
  DEF RegisterEntersEffect, Same, Holds, Releasing, Leaks, WellPlaced
<1>10. CASE InsertEffect(t)
  BY <1>10, <1>b, NoneIsNone DEF InsertEffect, Same, Holds, Releasing, Leaks, WellPlaced
<1>11. CASE SetActiveEffect(t)
  BY <1>11, <1>b, NoneIsNone
  DEF SetActiveEffect, Same, Holds, Releasing, Leaks, WellPlaced
<1>12. CASE DeactivateEffect(t)
  BY <1>12, <1>b, NoneIsNone
  DEF DeactivateEffect, Same, Holds, Releasing, Leaks, WellPlaced
<1>13. CASE TestVictimActiveEffect(t)
  BY <1>13, <1>b, NoneIsNone
  DEF TestVictimActiveEffect, Same, Holds, Releasing, Leaks, WellPlaced
<1>14. CASE TestVictimInactiveEffect(t)
  BY <1>14, <1>b, NoneIsNone
  DEF TestVictimInactiveEffect, Same, Holds, Releasing, Leaks, WellPlaced
<1>15. CASE SetInactiveEffect(t)
  BY <1>15, <1>b, NoneIsNone
  DEF SetInactiveEffect, Same, Holds, Releasing, Leaks, WellPlaced
<1>16. CASE DeregisterEffect(t)
  BY <1>16, <1>b, NoneIsNone
  DEF DeregisterEffect, Same, Holds, Releasing, Leaks, WellPlaced
<1>17. CASE ReleaseEffect(t)
  BY <1>17, <1>b, NoneIsNone
  DEF ReleaseEffect, Same, Drops, Holds, Releasing, Leaks, WellPlaced
<1>18. CASE TestCountZeroEffect(t)
  BY <1>18, <1>b, NoneIsNone
  DEF TestCountZeroEffect, Same, Holds, Releasing, Leaks, WellPlaced
<1>19. CASE TestCountMoreEffect(t)
  BY <1>19, <1>b, NoneIsNone
  DEF TestCountMoreEffect, Same, Holds, Releasing, Leaks, WellPlaced
<1>20. CASE DestroyEffect(t)
  BY <1>20, <1>b, NoneIsNone
  DEF DestroyEffect, Same, Holds, Releasing, Leaks, WellPlaced
<1> QED
  BY StepDoes, <1>1, <1>2, <1>3, <1>4, <1>5, <1>6, <1>7, <1>8, <1>9, <1>10, <1>11,
     <1>12, <1>13, <1>14, <1>15, <1>16, <1>17, <1>18, <1>19, <1>20

(* Accidents are recorded forever.                                         *)
LEMMA AccidentsStay ==
    ASSUME IInv, ~freedUsed, NEW t \in Threads, Step(t)
    PROVE  accidents \subseteq accidents'
<1>1. ASSUME NEW m \in Mailboxes, NEW n \in Names, CreateMailboxEffect(t, m, n)
      PROVE  accidents \subseteq accidents'
  BY <1>1, NoneIsNone DEF CreateMailboxEffect
<1>2. ASSUME NEW a \in Addresses, FindEffect(t, a) PROVE accidents \subseteq accidents'
  BY <1>2, NoneIsNone DEF FindEffect
<1>3. ASSUME NEW r \in Remotes, FindNoProxyEffect(t, r)
      PROVE  accidents \subseteq accidents'
  BY <1>3, NoneIsNone DEF FindNoProxyEffect
<1>4. ASSUME NEW m \in Mailboxes, CreateProxyEffect(t, m)
      PROVE  accidents \subseteq accidents'
  BY <1>4, NoneIsNone DEF CreateProxyEffect
<1>5. CASE ConnectFailsEffect(t)
  BY <1>5, NoneIsNone DEF ConnectFailsEffect
<1>6. CASE ConnectEffect(t)
  BY <1>6, NoneIsNone DEF ConnectEffect
<1>7. CASE ActivateEffect(t)
  BY <1>7, NoneIsNone DEF ActivateEffect
<1>8. CASE RegisterWaitsEffect(t)
  BY <1>8, NoneIsNone DEF RegisterWaitsEffect
<1>9. CASE RegisterEntersEffect(t)
  BY <1>9, NoneIsNone DEF RegisterEntersEffect
<1>10. CASE InsertEffect(t)
  BY <1>10, NoneIsNone DEF InsertEffect
<1>11. CASE SetActiveEffect(t)
  BY <1>11, NoneIsNone DEF SetActiveEffect
<1>12. CASE DeactivateEffect(t)
  BY <1>12, NoneIsNone DEF DeactivateEffect
<1>13. CASE TestVictimActiveEffect(t)
  BY <1>13, NoneIsNone DEF TestVictimActiveEffect
<1>14. CASE TestVictimInactiveEffect(t)
  BY <1>14, NoneIsNone DEF TestVictimInactiveEffect
<1>15. CASE SetInactiveEffect(t)
  BY <1>15, NoneIsNone DEF SetInactiveEffect
<1>16. CASE DeregisterEffect(t)
  BY <1>16, NoneIsNone DEF DeregisterEffect
<1>17. CASE ReleaseEffect(t)
  BY <1>17, NoneIsNone DEF ReleaseEffect
<1>18. CASE TestCountZeroEffect(t)
  BY <1>18, NoneIsNone DEF TestCountZeroEffect
<1>19. CASE TestCountMoreEffect(t)
  BY <1>19, NoneIsNone DEF TestCountMoreEffect
<1>20. CASE DestroyEffect(t)
  BY <1>20, NoneIsNone DEF DestroyEffect
<1> QED
  BY StepDoes, <1>1, <1>2, <1>3, <1>4, <1>5, <1>6, <1>7, <1>8, <1>9, <1>10, <1>11,
     <1>12, <1>13, <1>14, <1>15, <1>16, <1>17, <1>18, <1>19, <1>20

(* An owner and an activating thread keep their mailbox alive: the release *)
(* of another thread finds the count above zero.                           *)
LEMMA CoveredKept ==
    ASSUME IInv, ~freedUsed, NEW t \in Threads, Step(t)
    PROVE  CoveredAreAlive'
<1>a. TypeOK /\ ThreadsAreWell /\ MailboxesAreMade
  BY DEF IInv, Bookkeeping
<1> SUFFICES ASSUME NEW u \in Threads, NEW k \in Mailboxes, Covers(u, k)'
             PROVE  Alive(k)' /\ \A w \in Threads : pc'[w] = "destroy" => work'[w] # k
  BY DEF CoveredAreAlive
<1> DEFINE Stands == Alive(k)' /\ \A w \in Threads : pc'[w] = "destroy" => work'[w] # k
<1>b. WellPlaced(t)
  BY <1>a DEF ThreadsAreWell
<1>c. WellMade(k)
  BY <1>a DEF MailboxesAreMade
<1>d. Covers(u, k) => /\ Alive(k) /\ refs[k] # 0
                      /\ \A w \in Threads : pc[w] = "destroy" => work[w] # k
  BY HeldAreCounted DEF IInv, Bookkeeping, CoveredAreAlive, Covers, Holds
<1>e. u # t => Covers(u, k)
  BY OthersStay DEF StaysPut, Covers, Releasing
<1>1. ASSUME NEW m \in Mailboxes, NEW n \in Names, CreateMailboxEffect(t, m, n)
      PROVE  Stands
  BY <1>1, <1>b, <1>d, <1>e, <1>c, NoneIsNone
  DEF CreateMailboxEffect, WellMade, Refers, Covers, Releasing, Alive, WellPlaced
<1>2. ASSUME NEW a \in Addresses, FindEffect(t, a) PROVE Stands
  BY <1>2, <1>b, <1>d, <1>e, NoneIsNone
  DEF FindEffect, Covers, Releasing, Alive, WellPlaced
<1>3. ASSUME NEW r \in Remotes, FindNoProxyEffect(t, r) PROVE Stands
  BY <1>3, <1>b, <1>d, <1>e, NoneIsNone
  DEF FindNoProxyEffect, Covers, Releasing, Alive, WellPlaced
<1>4. ASSUME NEW m \in Mailboxes, CreateProxyEffect(t, m) PROVE Stands
  BY <1>4, <1>b, <1>d, <1>e, <1>c, NoneIsNone
  DEF CreateProxyEffect, WellMade, Refers, Covers, Releasing, Alive, WellPlaced
<1>5. CASE ConnectFailsEffect(t)
  BY <1>5, <1>b, <1>d, <1>e, NoneIsNone
  DEF ConnectFailsEffect, Covers, Releasing, Alive, WellPlaced
<1>6. CASE ConnectEffect(t)
  BY <1>6, <1>b, <1>d, <1>e, NoneIsNone
  DEF ConnectEffect, Covers, Releasing, Alive, WellPlaced
<1>7. CASE ActivateEffect(t)
  BY <1>7, <1>b, <1>d, <1>e, NoneIsNone
  DEF ActivateEffect, Covers, Releasing, Alive, WellPlaced
<1>8. CASE RegisterWaitsEffect(t)
  BY <1>8, <1>b, <1>d, <1>e, NoneIsNone
  DEF RegisterWaitsEffect, Covers, Releasing, Alive, WellPlaced
<1>9. CASE RegisterEntersEffect(t)
  BY <1>9, <1>b, <1>d, <1>e, NoneIsNone
  DEF RegisterEntersEffect, Covers, Releasing, Alive, WellPlaced
<1>10. CASE InsertEffect(t)
  BY <1>10, <1>b, <1>d, <1>e, NoneIsNone
  DEF InsertEffect, Covers, Releasing, Alive, WellPlaced
<1>11. CASE SetActiveEffect(t)
  BY <1>11, <1>b, <1>d, <1>e, NoneIsNone
  DEF SetActiveEffect, Covers, Releasing, Alive, WellPlaced
<1>12. CASE DeactivateEffect(t)
  BY <1>12, <1>b, <1>d, <1>e, NoneIsNone
  DEF DeactivateEffect, Covers, Releasing, Alive, WellPlaced
<1>13. CASE TestVictimActiveEffect(t)
  BY <1>13, <1>b, <1>d, <1>e, NoneIsNone
  DEF TestVictimActiveEffect, Covers, Releasing, Alive, WellPlaced
<1>14. CASE TestVictimInactiveEffect(t)
  BY <1>14, <1>b, <1>d, <1>e, NoneIsNone
  DEF TestVictimInactiveEffect, Covers, Releasing, Alive, WellPlaced
<1>15. CASE SetInactiveEffect(t)
  BY <1>15, <1>b, <1>d, <1>e, NoneIsNone
  DEF SetInactiveEffect, Covers, Releasing, Alive, WellPlaced
<1>16. CASE DeregisterEffect(t)
  BY <1>16, <1>b, <1>d, <1>e, NoneIsNone
  DEF DeregisterEffect, Covers, Releasing, Alive, WellPlaced
<1>17. CASE ReleaseEffect(t)
  BY <1>17, <1>b, <1>d, <1>e, NoneIsNone
  DEF ReleaseEffect, Covers, Releasing, Alive, WellPlaced
<1>18. CASE TestCountZeroEffect(t)
  BY <1>18, <1>b, <1>d, <1>e, NoneIsNone
  DEF TestCountZeroEffect, Covers, Releasing, Alive, WellPlaced
<1>19. CASE TestCountMoreEffect(t)
  BY <1>19, <1>b, <1>d, <1>e, NoneIsNone
  DEF TestCountMoreEffect, Covers, Releasing, Alive, WellPlaced
<1>20. CASE DestroyEffect(t)
  BY <1>20, <1>b, <1>d, <1>e, NoneIsNone
  DEF DestroyEffect, Covers, Releasing, Alive, WellPlaced
<1> QED
  BY StepDoes, <1>1, <1>2, <1>3, <1>4, <1>5, <1>6, <1>7, <1>8, <1>9, <1>10, <1>11,
     <1>12, <1>13, <1>14, <1>15, <1>16, <1>17, <1>18, <1>19, <1>20

(* No two threads have changed one address at a time.                      *)
Unflagged == "overlapping_changes" \notin accidents

(* What another thread changes stays the same.                             *)
LEMMA ChangingStays ==
    ASSUME IInv, ~freedUsed, NEW t \in Threads, Step(t), NEW u \in Threads \ {t}
    PROVE  Changing(u)' = Changing(u) /\ Releasing(u)' = Releasing(u) /\ pc'[u] = pc[u]
<1>1. /\ work[u] # None => work[u] \in Mailboxes /\ life[work[u]] # "new"
      /\ victim[u] # None => victim[u] \in Mailboxes /\ life[victim[u]] # "new"
  BY ReferredAre DEF IInv, Bookkeeping, MailboxesAreMade, WellMade, Refers
<1> QED BY <1>1, OthersStay DEF StaysPut, Changing, Releasing

(* Without overlapping changes no step begins to change an address that    *)
(* another thread changes, but for releases.                               *)
LEMMA AloneKept ==
    ASSUME IInv, ~freedUsed, NEW t \in Threads, Step(t), Unflagged', ChangesAreAlone
    PROVE  ChangesAreAlone'
<1>a. TypeOK /\ ThreadsAreWell /\ MailboxesAreMade
  BY DEF IInv, Bookkeeping
<1> SUFFICES ASSUME
                    NEW u \in Threads \ {t}, Changing(t)' # None, Changing(u) = Changing(t)'
             PROVE  Releasing(t)' /\ Releasing(u)
  BY ChangingStays DEF ChangesAreAlone
<1> DEFINE Fits == Releasing(t)' /\ Releasing(u)
<1>b. WellPlaced(t)
  BY <1>a DEF ThreadsAreWell
<1>c. Changing(t) # None /\ Changing(u) = Changing(t) => Releasing(t) /\ Releasing(u)
  BY DEF ChangesAreAlone
<1>d. \A m \in Mailboxes : Refers(t, m) => life[m] # "new"
  BY <1>a DEF MailboxesAreMade, WellMade
<1>e. /\ work[t] # None => work[t] \in Mailboxes
      /\ victim[t] # None => victim[t] \in Mailboxes
  BY ReferredAre
<1>f. \A m \in Mailboxes : life[m] # "new" => address'[m] = address[m]
  BY OthersStay DEF StaysPut
<1>1. ASSUME NEW m \in Mailboxes, NEW n \in Names, CreateMailboxEffect(t, m, n)
      PROVE  Fits
  BY <1>1, <1>b, <1>c, NoneIsNone
  DEF CreateMailboxEffect, Changing, Releasing, WellPlaced
<1>2. ASSUME NEW a \in Addresses, FindEffect(t, a) PROVE Fits
  BY <1>2, <1>b, <1>c, NoneIsNone DEF FindEffect, Changing, Releasing, WellPlaced
<1>3. ASSUME NEW r \in Remotes, FindNoProxyEffect(t, r) PROVE Fits
  BY <1>3, <1>b, <1>c, NoneIsNone DEF FindNoProxyEffect, Changing, Releasing, WellPlaced
<1>4. ASSUME NEW m \in Mailboxes, CreateProxyEffect(t, m) PROVE Fits
  <2>1. Changing(u) # looking[t] \/ "overlapping_changes" \in accidents'
    BY <1>4 DEF CreateProxyEffect, Overlapping, Unflagged
  <2>2. Changing(t)' = looking[t]
    BY <1>4, <1>b, NoneIsNone DEF CreateProxyEffect, Changing, WellPlaced
  <2> QED BY <2>1, <2>2 DEF Unflagged
<1>5. CASE ConnectFailsEffect(t)
  BY <1>5, <1>b, <1>c, NoneIsNone
  DEF ConnectFailsEffect, Changing, Releasing, WellPlaced
<1>6. CASE ConnectEffect(t)
  BY <1>6, <1>b, <1>c, NoneIsNone DEF ConnectEffect, Changing, Releasing, WellPlaced
<1>7. CASE ActivateEffect(t)
  <2>1. Changing(u) # address[handle[t]] \/ "overlapping_changes" \in accidents'
    BY <1>7 DEF ActivateEffect, Overlapping, Unflagged
  <2>2. Changing(t)' = address[handle[t]]
    BY <1>7, <1>b, NoneIsNone DEF ActivateEffect, Changing, WellPlaced
  <2> QED BY <2>1, <2>2 DEF Unflagged
<1>8. CASE RegisterWaitsEffect(t)
  BY <1>8, <1>b, <1>c, NoneIsNone
  DEF RegisterWaitsEffect, Changing, Releasing, WellPlaced
<1>9. CASE RegisterEntersEffect(t)
  BY <1>9, <1>b, <1>c, NoneIsNone
  DEF RegisterEntersEffect, Changing, Releasing, WellPlaced
<1>10. CASE InsertEffect(t)
  BY <1>10, <1>b, <1>c, NoneIsNone DEF InsertEffect, Changing, Releasing, WellPlaced
<1>11. CASE SetActiveEffect(t)
  BY <1>11, <1>b, <1>c, NoneIsNone DEF SetActiveEffect, Changing, Releasing, WellPlaced
<1>12. CASE DeactivateEffect(t)
  <2>1. Changing(u) # address[handle[t]] \/ "overlapping_changes" \in accidents'
    BY <1>12 DEF DeactivateEffect, Overlapping, Unflagged
  <2>2. Changing(t)' = address[handle[t]]
    BY <1>12, <1>b, NoneIsNone DEF DeactivateEffect, Changing, WellPlaced
  <2> QED BY <2>1, <2>2 DEF Unflagged
<1>13. CASE TestVictimActiveEffect(t)
  BY <1>13, <1>b, <1>c, NoneIsNone
  DEF TestVictimActiveEffect, Changing, Releasing, WellPlaced
<1>14. CASE TestVictimInactiveEffect(t)
  BY <1>14, <1>b, <1>c, NoneIsNone
  DEF TestVictimInactiveEffect, Changing, Releasing, WellPlaced
<1>15. CASE SetInactiveEffect(t)
  BY <1>15, <1>b, <1>c, NoneIsNone
  DEF SetInactiveEffect, Changing, Releasing, WellPlaced
<1>16. CASE DeregisterEffect(t)
  BY <1>16, <1>b, <1>c, NoneIsNone DEF DeregisterEffect, Changing, Releasing, WellPlaced
<1>17. CASE ReleaseEffect(t)
  <2>1. Changing(u) = address[handle[t]] => Releasing(u)
    BY <1>17 DEF ReleaseEffect, OverlappingRelease, Unflagged
  <2>2. Changing(t)' = address[handle[t]] /\ Releasing(t)'
    BY <1>17, <1>b, NoneIsNone DEF ReleaseEffect, Changing, Releasing, WellPlaced
  <2> QED BY <2>1, <2>2
<1>18. CASE TestCountZeroEffect(t)
  BY <1>18, <1>b, <1>c, NoneIsNone
  DEF TestCountZeroEffect, Changing, Releasing, WellPlaced
<1>19. CASE TestCountMoreEffect(t)
  BY <1>19, <1>b, <1>c, NoneIsNone
  DEF TestCountMoreEffect, Changing, Releasing, WellPlaced
<1>20. CASE DestroyEffect(t)
  BY <1>20, <1>b, <1>c, NoneIsNone DEF DestroyEffect, Changing, Releasing, WellPlaced
<1> QED
  BY StepDoes, <1>1, <1>2, <1>3, <1>4, <1>5, <1>6, <1>7, <1>8, <1>9, <1>10, <1>11,
     <1>12, <1>13, <1>14, <1>15, <1>16, <1>17, <1>18, <1>19, <1>20

(* Nothing happens at the other addresses but that mailboxes are made.     *)
Untouched(a) ==
    /\ registry'[a] = registry[a]
    /\ a \in shadowed' <=> a \in shadowed
    /\ \A m \in Mailboxes : address'[m] = a =>
          \/ address[m] = a /\ active'[m] = active[m] /\ (Alive(m)' <=> Alive(m))
          \/ life[m] = "new" /\ ~active'[m]

(* The mailboxes of a thread have the address that it changes.             *)
LEMMA WorkIsChanging ==
    ASSUME IInv, NEW t \in Threads
    PROVE  /\ work[t] # None => address[work[t]] = Changing(t)
           /\ victim[t] # None => address[victim[t]] = Changing(t)
           /\ Changing(t) # None <=> work[t] # None \/ victim[t] # None
           /\ pc[t] \notin {"idle", "create"} <=> Changing(t) # None
           /\ Changing(t) # None => Changing(t) \in Addresses
<1>1. WellPlaced(t)
  BY DEF IInv, Bookkeeping, ThreadsAreWell
<1>2. /\ work[t] # None => address[work[t]] \in Addresses
      /\ victim[t] # None => address[victim[t]] \in Addresses
      /\ pc[t] \in Labels
  BY ReferredAre
<1> QED BY <1>1, <1>2, NoneIsNone DEF WellPlaced, Changing, Labels

(* A step leaves all but the address that its thread changes untouched.    *)
LEMMA ElsewhereStays ==
    ASSUME IInv, ~freedUsed, NEW t \in Threads, Step(t),
           NEW a \in Addresses, a # Changing(t)
    PROVE  Untouched(a)
<1>a. TypeOK /\ ThreadsAreWell /\ MailboxesAreMade
  BY DEF IInv, Bookkeeping
<1>b. \A m \in Mailboxes : address[m] = None <=> life[m] = "new"
  BY <1>a DEF MailboxesAreMade, WellMade
<1>c. \A m \in Mailboxes : life[m] = "new" => ~active[m]
  BY <1>a DEF MailboxesAreMade, WellMade
<1>d. /\ pc[t] \in {"register", "insert", "activate", "destroy"} => address[work[t]] = Changing(t)
      /\ pc[t] \in {"setInactive", "deregister"} => address[victim[t]] = Changing(t)
  BY <1>a, WorkIsChanging DEF ThreadsAreWell, WellPlaced
<1>1. ASSUME NEW m \in Mailboxes, NEW n \in Names, CreateMailboxEffect(t, m, n)
      PROVE  Untouched(a)
  BY <1>1, <1>b, <1>c, <1>d, NoneIsNone DEF CreateMailboxEffect, Untouched, Alive
<1>2. ASSUME NEW b \in Addresses, FindEffect(t, b) PROVE Untouched(a)
  BY <1>2, <1>b, <1>c, <1>d, NoneIsNone DEF FindEffect, Untouched, Alive
<1>3. ASSUME NEW r \in Remotes, FindNoProxyEffect(t, r) PROVE Untouched(a)
  BY <1>3, <1>b, <1>c, <1>d, NoneIsNone DEF FindNoProxyEffect, Untouched, Alive
<1>4. ASSUME NEW m \in Mailboxes, CreateProxyEffect(t, m) PROVE Untouched(a)
  BY <1>4, <1>b, <1>c, <1>d, NoneIsNone DEF CreateProxyEffect, Untouched, Alive
<1>5. CASE ConnectFailsEffect(t)
  BY <1>5, <1>b, <1>c, <1>d, NoneIsNone DEF ConnectFailsEffect, Untouched, Alive
<1>6. CASE ConnectEffect(t)
  BY <1>6, <1>b, <1>c, <1>d, NoneIsNone DEF ConnectEffect, Untouched, Alive
<1>7. CASE ActivateEffect(t)
  BY <1>7, <1>b, <1>c, <1>d, NoneIsNone DEF ActivateEffect, Untouched, Alive
<1>8. CASE RegisterWaitsEffect(t)
  BY <1>8, <1>b, <1>c, <1>d, NoneIsNone DEF RegisterWaitsEffect, Untouched, Alive
<1>9. CASE RegisterEntersEffect(t)
  BY <1>9, <1>b, <1>c, <1>d, NoneIsNone DEF RegisterEntersEffect, Enters, Untouched, Alive
<1>10. CASE InsertEffect(t)
  BY <1>10, <1>b, <1>c, <1>d, NoneIsNone DEF InsertEffect, Enters, Untouched, Alive
<1>11. CASE SetActiveEffect(t)
  BY <1>11, <1>b, <1>c, <1>d, NoneIsNone DEF SetActiveEffect, Untouched, Alive
<1>12. CASE DeactivateEffect(t)
  BY <1>12, <1>b, <1>c, <1>d, NoneIsNone DEF DeactivateEffect, Untouched, Alive
<1>13. CASE TestVictimActiveEffect(t)
  BY <1>13, <1>b, <1>c, <1>d, NoneIsNone DEF TestVictimActiveEffect, Untouched, Alive
<1>14. CASE TestVictimInactiveEffect(t)
  BY <1>14, <1>b, <1>c, <1>d, NoneIsNone DEF TestVictimInactiveEffect, Untouched, Alive
<1>15. CASE SetInactiveEffect(t)
  BY <1>15, <1>b, <1>c, <1>d, NoneIsNone DEF SetInactiveEffect, Untouched, Alive
<1>16. CASE DeregisterEffect(t)
  BY <1>16, <1>b, <1>c, <1>d, NoneIsNone DEF DeregisterEffect, Untouched, Alive
<1>17. CASE ReleaseEffect(t)
  BY <1>17, <1>b, <1>c, <1>d, NoneIsNone DEF ReleaseEffect, Untouched, Alive
<1>18. CASE TestCountZeroEffect(t)
  BY <1>18, <1>b, <1>c, <1>d, NoneIsNone DEF TestCountZeroEffect, Untouched, Alive
<1>19. CASE TestCountMoreEffect(t)
  BY <1>19, <1>b, <1>c, <1>d, NoneIsNone DEF TestCountMoreEffect, Untouched, Alive
<1>20. CASE DestroyEffect(t)
  BY <1>20, <1>b, <1>c, <1>d, NoneIsNone DEF DestroyEffect, Untouched, Alive
<1> QED
  BY StepDoes, <1>1, <1>2, <1>3, <1>4, <1>5, <1>6, <1>7, <1>8, <1>9, <1>10, <1>11,
     <1>12, <1>13, <1>14, <1>15, <1>16, <1>17, <1>18, <1>19, <1>20

(* The changes of the other threads are not disturbed.                     *)
LEMMA OthersAreOrderly ==
    ASSUME IInv, ~freedUsed,
           NEW t \in Threads, Step(t), ChangesAreAlone, ChangesAreOrderly,
           NEW u \in Threads \ {t}
    PROVE  Orderly(u)'
<1> SUFFICES ASSUME NEW a, a = Changing(u) PROVE Orderly(u)'
  OBVIOUS
<1>1. Orderly(u) /\ WellPlaced(u) /\ pc[u] \in Labels
  BY ReferredAre DEF IInv, Bookkeeping, ThreadsAreWell, ChangesAreOrderly
<1>2. /\ Changing(u)' = a /\ pc'[u] = pc[u] /\ work'[u] = work[u] /\ victim'[u] = victim[u]
  BY ChangingStays, OthersStay DEF StaysPut
<1>3. CASE pc[u] \in {"idle", "create", "test", "destroy"}
  BY <1>2, <1>3 DEF Orderly, Disagreeing
<1>4. CASE pc[u] \notin {"idle", "create", "test", "destroy"}
  <2>1. a \in Addresses /\ a # Changing(t)
    BY <1>4, WorkIsChanging, NoneIsNone DEF ChangesAreAlone, Releasing
  <2>2. Untouched(a)
    BY <2>1, ElsewhereStays
  <2>3. \A m \in Mailboxes : life[m] = "new" => ~Refers(u, m) /\ ~Alive(m)
    BY DEF IInv, Bookkeeping, MailboxesAreMade, WellMade, Alive
  <2>4. \A m \in Mailboxes : work[u] = m \/ victim[u] = m => address'[m] = a
    BY <2>3, WorkIsChanging, NoneIsNone, OthersStay DEF StaysPut, Refers
  <2>5. /\ pc[u] \in {"connect", "register"} => work[u] \in Mailboxes
        /\ pc[u] \in {"deactivate", "setInactive", "deregister"} => victim[u] \in Mailboxes
    BY ReferredAre
  <2>6. /\ pc[u] \in {"connect", "register"} => ~active'[work[u]]
        /\ pc[u] \in {"deactivate", "setInactive"} => active'[victim[u]]
        /\ pc[u] = "deregister" => life'[victim[u]] = "alive"
    <3>1. \A m \in Mailboxes : work[u] = m \/ victim[u] = m =>
             active'[m] = active[m] /\ (Alive(m)' <=> Alive(m))
      BY <2>2, <2>3, <2>4 DEF Untouched, Refers
    <3> QED BY <1>1, <1>2, <2>5, <3>1 DEF Orderly, Disagreeing, Alive
  <2>7. Quiet(a) => Quiet(a)'
    BY <2>2 DEF Untouched, Quiet
  <2>8. registry'[a] = registry[a]
    BY <2>2 DEF Untouched
  <2>9. Quiet(Changing(u)) = Quiet(a) /\ Quiet(Changing(u))' = Quiet(a)'
    BY <1>2
  <2>10. Changing(u)' \in shadowed' <=> Changing(u) \in shadowed
    BY <1>2, <2>2 DEF Untouched
  <2> QED BY <1>1, <1>2, <2>6, <2>7, <2>8, <2>9, <2>10 DEF Orderly, Disagreeing, Alive
<1> QED BY <1>3, <1>4

(* What agrees at another address still does.                              *)
LEMMA OthersAgree ==
    ASSUME IInv, ~freedUsed, NEW t \in Threads, Step(t), ChangesAreOrderly,
           NEW a \in Addresses, a # Changing(t), a \notin shadowed'
    PROVE  Agrees(a)' \/ \E u \in Threads : pc'[u] \in Disagreeing /\ Changing(u)' = a
<1>1. Agrees(a) \/ \E u \in Threads : pc[u] \in Disagreeing /\ Changing(u) = a
  BY ElsewhereStays DEF ChangesAreOrderly, Untouched
<1>2. CASE Agrees(a)
  <2>1. Untouched(a)
    BY ElsewhereStays
  <2>2. \A m \in Mailboxes : life[m] = "new" => registry[a] # m
    <3>1. SUFFICES ASSUME NEW m \in Mailboxes, life[m] = "new", registry[a] = m
                   PROVE  FALSE
      OBVIOUS
    <3>2. registry[a] # None
      BY <3>1, NoneIsNone
    <3>3. address[m] = a
      BY <3>1, <3>2, RegisteredAre
    <3>4. WellMade(m)
      BY <3>1 DEF IInv, Bookkeeping, MailboxesAreMade
    <3> QED BY <3>1, <3>3, <3>4, NoneIsNone DEF WellMade
  <2> QED BY <1>2, <2>1, <2>2 DEF Agrees, Untouched
<1>3. ASSUME NEW u \in Threads, pc[u] \in Disagreeing, Changing(u) = a
      PROVE  pc'[u] \in Disagreeing /\ Changing(u)' = a
  BY <1>3, ChangingStays
<1> QED BY <1>1, <1>2, <1>3

(* The address a thread changes stays in order.                            *)
Fits(t, a) ==
    /\ Orderly(t)'
    /\ a # None /\ a \notin shadowed' => Agrees(a)' \/ (pc'[t] \in Disagreeing /\ Changing(t)' = a)

(* The thread's own change stays in order, and leaves the address agreeing *)
(* when it ends.                                                           *)
LEMMA OneIsOrderly ==
    ASSUME IInv, ~freedUsed, NEW t \in Threads, Step(t),
           NEW a, a = Changing(t), ChangesAreAlone, ChangesAreOrderly
    PROVE  Fits(t, a)
<1>a. TypeOK /\ ThreadsAreWell /\ MailboxesAreMade
  BY DEF IInv, Bookkeeping
<1>b. Orderly(t) /\ WellPlaced(t)
  BY <1>a DEF ThreadsAreWell, ChangesAreOrderly
<1>c. /\ work[t] # None => address[work[t]] = a
      /\ victim[t] # None => address[victim[t]] = a
  BY WorkIsChanging
<1>d. \A m \in Mailboxes : active[m] => Alive(m)
  BY <1>a DEF MailboxesAreMade, WellMade
<1>e. a # None /\ a \notin shadowed /\ pc[t] \notin Disagreeing => Agrees(a)
  <2>1. \A u \in Threads \ {t} : a # None /\ Changing(u) = a => Releasing(u)
    BY DEF ChangesAreAlone
  <2>2. \A u \in Threads : pc[u] \in Disagreeing => ~Releasing(u)
    BY DEF Releasing, Disagreeing
  <2> QED BY <2>1, <2>2, WorkIsChanging DEF ChangesAreOrderly
<1>1. ASSUME NEW m \in Mailboxes, NEW n \in Names, CreateMailboxEffect(t, m, n)
      PROVE  Fits(t, a)
  BY <1>1, <1>b, <1>c, <1>d, <1>e, NoneIsNone
  DEF CreateMailboxEffect, Fits, Orderly, Agrees, Quiet, Disagreeing, Changing, Alive,
      WellPlaced
<1>2. ASSUME NEW b \in Addresses, FindEffect(t, b) PROVE Fits(t, a)
  BY <1>2, <1>b, <1>c, <1>d, <1>e, NoneIsNone
  DEF FindEffect, Fits, Orderly, Agrees, Quiet, Disagreeing, Changing, Alive,
      WellPlaced
<1>3. ASSUME NEW r \in Remotes, FindNoProxyEffect(t, r) PROVE Fits(t, a)
  BY <1>3, <1>b, <1>c, <1>d, <1>e, NoneIsNone
  DEF FindNoProxyEffect, Fits, Orderly, Agrees, Quiet, Disagreeing, Changing, Alive,
      WellPlaced
<1>4. ASSUME NEW m \in Mailboxes, CreateProxyEffect(t, m) PROVE Fits(t, a)
  BY <1>4, <1>b, <1>c, <1>d, <1>e, NoneIsNone
  DEF CreateProxyEffect, Fits, Orderly, Agrees, Quiet, Disagreeing, Changing, Alive,
      WellPlaced
<1>5. CASE ConnectFailsEffect(t)
  BY <1>5, <1>b, <1>c, <1>d, <1>e, NoneIsNone
  DEF ConnectFailsEffect, Fits, Orderly, Agrees, Quiet, Disagreeing, Changing, Alive,
      WellPlaced
<1>6. CASE ConnectEffect(t)
  BY <1>6, <1>b, <1>c, <1>d, <1>e, NoneIsNone
  DEF ConnectEffect, Fits, Orderly, Agrees, Quiet, Disagreeing, Changing, Alive,
      WellPlaced
<1>7. CASE ActivateEffect(t)
  BY <1>7, <1>b, <1>c, <1>d, <1>e, NoneIsNone
  DEF ActivateEffect, Fits, Orderly, Agrees, Quiet, Disagreeing, Changing, Alive,
      WellPlaced
<1>8. CASE RegisterWaitsEffect(t)
  <2>1. active[registry[address[work[t]]]] /\ a # None
    BY <1>8, WorkIsChanging DEF RegisterWaitsEffect, Replaces, Disagreeing
  <2>2. a \notin shadowed' => Agrees(a)
    BY <1>8, <2>1, <1>e DEF RegisterWaitsEffect, Disagreeing
  <2> QED
    BY <1>8, <2>1, <2>2, <1>b, NoneIsNone
    DEF RegisterWaitsEffect, Fits, Orderly, Agrees, Disagreeing, Alive, WellPlaced
<1>9. CASE RegisterEntersEffect(t)
  <2>1. work[t] \in Mailboxes /\ address[work[t]] = a /\ a # None /\ a \in Addresses
    BY <1>9, <1>b, <1>c, NoneIsNone DEF RegisterEntersEffect
  <2>2. Changing(t)' = a /\ pc'[t] = "activate" /\ work'[t] = work[t]
    BY <1>9, <2>1, NoneIsNone DEF RegisterEntersEffect, Changing
  <2>3. CASE a \in shadowed'
    BY <2>2, <2>3 DEF Fits, Orderly, Disagreeing
  <2>4. CASE a \notin shadowed'
    <3>1. a \notin shadowed /\ registry'[a] = work[t]
      BY <1>9, <2>1, <2>4 DEF RegisterEntersEffect, Enters
    <3>2. Agrees(a) /\ ~Replaces(t)
      BY <1>9, <3>1, <2>1, <1>e DEF RegisterEntersEffect, Disagreeing
    <3>3. Quiet(a)
      BY <2>1, <3>2, <1>d, NoneIsNone DEF Quiet, Agrees, Replaces
    <3>4. Quiet(a)'
      BY <1>9, <3>3 DEF RegisterEntersEffect, Quiet
    <3>5. Quiet(Changing(t))' = Quiet(a)'
      BY <2>2
    <3> QED BY <2>2, <3>1, <3>4, <3>5 DEF Fits, Orderly, Disagreeing
  <2> QED BY <2>3, <2>4
<1>10. CASE InsertEffect(t)
  <2>1. work[t] \in Mailboxes /\ address[work[t]] = a /\ a # None /\ a \in Addresses
    BY <1>10, <1>b, <1>c, NoneIsNone DEF InsertEffect
  <2>2. Changing(t)' = a /\ pc'[t] = "activate" /\ work'[t] = work[t]
    BY <1>10, <2>1, NoneIsNone DEF InsertEffect, Changing
  <2>3. Enters(a, work[t])
    BY <1>10, <2>1, <1>b DEF InsertEffect, Orderly
  <2>4. CASE a \in shadowed'
    BY <2>2, <2>4 DEF Fits, Orderly, Disagreeing
  <2>5. CASE a \notin shadowed'
    <3>1. a \notin shadowed /\ registry'[a] = work[t]
      BY <2>1, <2>3, <2>5 DEF Enters
    <3>2. Quiet(a)
      BY <1>10, <3>1, <1>b DEF InsertEffect, Orderly, Disagreeing
    <3>3. Quiet(a)'
      BY <1>10, <3>2 DEF InsertEffect, Quiet
    <3>4. Quiet(Changing(t))' = Quiet(a)'
      BY <2>2
    <3> QED BY <2>2, <3>1, <3>3, <3>4 DEF Fits, Orderly, Disagreeing
  <2> QED BY <2>4, <2>5
<1>11. CASE SetActiveEffect(t)
  <2>1. Orderly(t)'
    BY <1>11 DEF SetActiveEffect, Orderly, Disagreeing
  <2>2. address[work[t]] = a /\ Changing(t) = a
    BY <1>11, <1>c, NoneIsNone DEF SetActiveEffect
  <2>3. a \notin shadowed => Quiet(a) /\ registry[a] = work[t]
    BY <1>11, <2>2, <1>b DEF SetActiveEffect, Orderly, Disagreeing
  <2>4. a \notin shadowed => Agrees(a)'
    BY <1>11, <2>2, <2>3 DEF SetActiveEffect, Quiet, Agrees, Alive
  <2> QED BY <1>11, <2>1, <2>4 DEF SetActiveEffect, Fits
<1>12. CASE DeactivateEffect(t)
  BY <1>12, <1>b, <1>c, <1>d, <1>e, NoneIsNone
  DEF DeactivateEffect, Fits, Orderly, Agrees, Quiet, Disagreeing, Changing, Alive,
      WellPlaced
<1>13. CASE TestVictimActiveEffect(t)
  BY <1>13, <1>b, <1>c, <1>d, <1>e, NoneIsNone
  DEF TestVictimActiveEffect, Fits, Orderly, Agrees, Quiet, Disagreeing, Changing,
      Alive, WellPlaced
<1>14. CASE TestVictimInactiveEffect(t)
  BY <1>14, <1>b, <1>c, <1>d, <1>e, NoneIsNone
  DEF TestVictimInactiveEffect, Fits, Orderly, Agrees, Quiet, Disagreeing, Changing,
      Alive, WellPlaced
<1>15. CASE SetInactiveEffect(t)
  <2>1. victim[t] \in Mailboxes /\ address[victim[t]] = a /\ a # None
    BY <1>15, <1>c, WorkIsChanging, NoneIsNone DEF SetInactiveEffect
  <2>2. active[victim[t]] /\ Alive(victim[t])
    BY <1>15, <2>1, <1>b, <1>d DEF SetInactiveEffect, Orderly
  <2>3. Changing(t)' = a /\ pc'[t] = "deregister" /\ victim'[t] = victim[t]
    BY <1>15, <2>1, <1>b, <1>c DEF SetInactiveEffect, Changing, WellPlaced
  <2>4. Alive(victim[t])' /\ shadowed' = shadowed /\ registry' = registry
    BY <1>15, <2>2 DEF SetInactiveEffect, Alive
  <2>5. CASE a \in shadowed
    BY <2>3, <2>4, <2>5 DEF Fits, Orderly, Disagreeing, Alive
  <2>6. CASE a \notin shadowed
    <3>1. Agrees(a)
      BY <1>15, <2>1, <2>6, <1>e DEF SetInactiveEffect, Disagreeing
    <3>2. registry[a] = victim[t]
      BY <2>1, <2>2, <3>1 DEF Agrees
    <3>3. Quiet(a)'
      BY <1>15, <2>1, <3>1, <3>2, <1>d DEF SetInactiveEffect, Quiet, Agrees
    <3>4. Quiet(Changing(t))' = Quiet(a)'
      BY <2>3
    <3> QED BY <2>3, <2>4, <3>2, <3>3, <3>4 DEF Fits, Orderly, Disagreeing, Alive
  <2> QED BY <2>5, <2>6
<1>16. CASE DeregisterEffect(t)
  BY <1>16, <1>b, <1>c, <1>d, <1>e, NoneIsNone
  DEF DeregisterEffect, Fits, Orderly, Agrees, Quiet, Disagreeing, Changing, Alive,
      WellPlaced
<1>17. CASE ReleaseEffect(t)
  BY <1>17, <1>b, <1>c, <1>d, <1>e, NoneIsNone
  DEF ReleaseEffect, Fits, Orderly, Agrees, Quiet, Disagreeing, Changing, Alive,
      WellPlaced
<1>18. CASE TestCountZeroEffect(t)
  BY <1>18, <1>b, <1>c, <1>d, <1>e, NoneIsNone
  DEF TestCountZeroEffect, Fits, Orderly, Agrees, Quiet, Disagreeing, Changing, Alive,
      WellPlaced
<1>19. CASE TestCountMoreEffect(t)
  BY <1>19, <1>b, <1>c, <1>d, <1>e, NoneIsNone
  DEF TestCountMoreEffect, Fits, Orderly, Agrees, Quiet, Disagreeing, Changing, Alive,
      WellPlaced
<1>20. CASE DestroyEffect(t)
  <2>1. a # None /\ a \notin shadowed' => Agrees(a)
    BY <1>20, <1>e DEF DestroyEffect, Disagreeing
  <2>2. a # None /\ a \notin shadowed' => Agrees(a)'
    BY <1>20, <2>1 DEF DestroyEffect, Agrees, Alive
  <2> QED BY <1>20, <2>2 DEF DestroyEffect, Fits, Orderly, Disagreeing
<1> QED
  BY StepDoes, <1>1, <1>2, <1>3, <1>4, <1>5, <1>6, <1>7, <1>8, <1>9, <1>10, <1>11,
     <1>12, <1>13, <1>14, <1>15, <1>16, <1>17, <1>18, <1>19, <1>20

(* Without overlapping changes the changes stay in order.                  *)
LEMMA OrderKept ==
    ASSUME IInv, ~freedUsed,
           NEW t \in Threads, Step(t), ChangesAreAlone, ChangesAreOrderly
    PROVE  ChangesAreOrderly'
<1>1. \A u \in Threads : Orderly(u)'
  BY OthersAreOrderly, OneIsOrderly DEF Fits
<1>2. ASSUME NEW a \in Addresses \ shadowed'
      PROVE  Agrees(a)' \/ \E u \in Threads : pc'[u] \in Disagreeing /\ Changing(u)' = a
  <2>1. CASE a = Changing(t)
    <3>1. Agrees(a)' \/ (pc'[t] \in Disagreeing /\ Changing(t)' = a)
      BY <2>1, OneIsOrderly, NoneIsNone DEF Fits
    <3> QED BY <3>1
  <2>2. CASE a # Changing(t)
    BY <2>2, OthersAgree
  <2> QED BY <2>1, <2>2
<1> QED BY <1>1, <1>2 DEF ChangesAreOrderly

(* A releasing thread does not touch the registry.                         *)
LEMMA StepOfReleaser ==
    ASSUME IInv, ~freedUsed, NEW t \in Threads, Step(t), pc[t] \in {"test", "destroy"}
    PROVE  registry' = registry
<1>1. ASSUME NEW m \in Mailboxes, NEW n \in Names, CreateMailboxEffect(t, m, n)
      PROVE  registry' = registry
  BY <1>1, NoneIsNone DEF CreateMailboxEffect
<1>2. ASSUME NEW a \in Addresses, FindEffect(t, a) PROVE registry' = registry
  BY <1>2, NoneIsNone DEF FindEffect
<1>3. ASSUME NEW r \in Remotes, FindNoProxyEffect(t, r) PROVE registry' = registry
  BY <1>3, NoneIsNone DEF FindNoProxyEffect
<1>4. ASSUME NEW m \in Mailboxes, CreateProxyEffect(t, m) PROVE registry' = registry
  BY <1>4, NoneIsNone DEF CreateProxyEffect
<1>5. CASE ConnectFailsEffect(t)
  BY <1>5, NoneIsNone DEF ConnectFailsEffect
<1>6. CASE ConnectEffect(t)
  BY <1>6, NoneIsNone DEF ConnectEffect
<1>7. CASE ActivateEffect(t)
  BY <1>7, NoneIsNone DEF ActivateEffect
<1>8. CASE RegisterWaitsEffect(t)
  BY <1>8, NoneIsNone DEF RegisterWaitsEffect
<1>9. CASE RegisterEntersEffect(t)
  BY <1>9, NoneIsNone DEF RegisterEntersEffect
<1>10. CASE InsertEffect(t)
  BY <1>10, NoneIsNone DEF InsertEffect
<1>11. CASE SetActiveEffect(t)
  BY <1>11, NoneIsNone DEF SetActiveEffect
<1>12. CASE DeactivateEffect(t)
  BY <1>12, NoneIsNone DEF DeactivateEffect
<1>13. CASE TestVictimActiveEffect(t)
  BY <1>13, NoneIsNone DEF TestVictimActiveEffect
<1>14. CASE TestVictimInactiveEffect(t)
  BY <1>14, NoneIsNone DEF TestVictimInactiveEffect
<1>15. CASE SetInactiveEffect(t)
  BY <1>15, NoneIsNone DEF SetInactiveEffect
<1>16. CASE DeregisterEffect(t)
  BY <1>16, NoneIsNone DEF DeregisterEffect
<1>17. CASE ReleaseEffect(t)
  BY <1>17, NoneIsNone DEF ReleaseEffect
<1>18. CASE TestCountZeroEffect(t)
  BY <1>18, NoneIsNone DEF TestCountZeroEffect
<1>19. CASE TestCountMoreEffect(t)
  BY <1>19, NoneIsNone DEF TestCountMoreEffect
<1>20. CASE DestroyEffect(t)
  BY <1>20, NoneIsNone DEF DestroyEffect
<1> QED
  BY StepDoes, <1>1, <1>2, <1>3, <1>4, <1>5, <1>6, <1>7, <1>8, <1>9, <1>10, <1>11,
     <1>12, <1>13, <1>14, <1>15, <1>16, <1>17, <1>18, <1>19, <1>20

(* Who goes on to delete has just read a count of zero.                    *)
LEMMA DestroyerFoundZero ==
    ASSUME IInv, ~freedUsed, NEW t \in Threads, Step(t)
    PROVE  pc'[t] = "destroy" => refs'[work'[t]] = 0
<1>1. ASSUME NEW m \in Mailboxes, NEW n \in Names, CreateMailboxEffect(t, m, n)
      PROVE  pc'[t] = "destroy" => refs'[work'[t]] = 0
  BY <1>1 DEF CreateMailboxEffect
<1>2. ASSUME NEW a \in Addresses, FindEffect(t, a)
      PROVE  pc'[t] = "destroy" => refs'[work'[t]] = 0
  BY <1>2 DEF FindEffect
<1>3. ASSUME NEW r \in Remotes, FindNoProxyEffect(t, r)
      PROVE  pc'[t] = "destroy" => refs'[work'[t]] = 0
  BY <1>3 DEF FindNoProxyEffect
<1>4. ASSUME NEW m \in Mailboxes, CreateProxyEffect(t, m)
      PROVE  pc'[t] = "destroy" => refs'[work'[t]] = 0
  BY <1>4 DEF CreateProxyEffect
<1>5. CASE ConnectFailsEffect(t)
  BY <1>5 DEF ConnectFailsEffect
<1>6. CASE ConnectEffect(t)
  BY <1>6 DEF ConnectEffect
<1>7. CASE ActivateEffect(t)
  BY <1>7 DEF ActivateEffect
<1>8. CASE RegisterWaitsEffect(t)
  BY <1>8 DEF RegisterWaitsEffect
<1>9. CASE RegisterEntersEffect(t)
  BY <1>9 DEF RegisterEntersEffect
<1>10. CASE InsertEffect(t)
  BY <1>10 DEF InsertEffect
<1>11. CASE SetActiveEffect(t)
  BY <1>11 DEF SetActiveEffect
<1>12. CASE DeactivateEffect(t)
  BY <1>12 DEF DeactivateEffect
<1>13. CASE TestVictimActiveEffect(t)
  BY <1>13 DEF TestVictimActiveEffect
<1>14. CASE TestVictimInactiveEffect(t)
  BY <1>14 DEF TestVictimInactiveEffect
<1>15. CASE SetInactiveEffect(t)
  BY <1>15 DEF SetInactiveEffect
<1>16. CASE DeregisterEffect(t)
  BY <1>16 DEF DeregisterEffect
<1>17. CASE ReleaseEffect(t)
  BY <1>17 DEF ReleaseEffect
<1>18. CASE TestCountZeroEffect(t)
  BY <1>18 DEF TestCountZeroEffect
<1>19. CASE TestCountMoreEffect(t)
  BY <1>19 DEF TestCountMoreEffect
<1>20. CASE DestroyEffect(t)
  BY <1>20 DEF DestroyEffect
<1> QED
  BY StepDoes, <1>1, <1>2, <1>3, <1>4, <1>5, <1>6, <1>7, <1>8, <1>9, <1>10, <1>11,
     <1>12, <1>13, <1>14, <1>15, <1>16, <1>17, <1>18, <1>19, <1>20

(* What has no handles gets none but by a find(), which finds it           *)
(* registered.                                                             *)
LEMMA UnusedStays ==
    ASSUME IInv, ~freedUsed, NEW t \in Threads, Step(t), ChangesAreAlone,
           NEW w \in Threads \ {t}, NEW k \in Mailboxes, pc[w] = "destroy", work[w] = k,
           refs[k] = 0 \/ registry[address[k]] = k
    PROVE  refs'[k] = 0 \/ registry'[address[k]] = k
<1>a. TypeOK /\ ThreadsAreWell /\ MailboxesAreMade
  BY DEF IInv, Bookkeeping
<1>b. life[k] # "new"
  BY <1>a DEF MailboxesAreMade, WellMade, Refers
<1>c. handle[t] = k => refs[k] # 0
  BY HeldAreCounted DEF Holds
<1>d. registry'[address[k]] = registry[address[k]]
  <2>1. address[k] \in Addresses /\ Changing(w) = address[k] /\ Changing(w) # None
    BY WorkIsChanging, NoneIsNone, ReferredAre
  <2>2. CASE address[k] = Changing(t)
    <3>1. Releasing(t)
      BY <2>1, <2>2 DEF ChangesAreAlone
    <3>2. pc[t] \in {"test", "destroy"}
      BY <3>1 DEF Releasing
    <3>3. registry' = registry
      BY <3>2, StepOfReleaser
    <3> QED BY <3>3
  <2>3. CASE address[k] # Changing(t)
    BY <2>1, <2>3, ElsewhereStays DEF Untouched
  <2> QED BY <2>2, <2>3
<1>e. \A a \in Addresses : registry[a] # None => address[registry[a]] = a
  BY <1>a DEF MailboxesAreMade
<1>1. ASSUME NEW m \in Mailboxes, NEW n \in Names, CreateMailboxEffect(t, m, n)
      PROVE  refs'[k] = 0 \/ registry'[address[k]] = k
  BY <1>1, <1>b, <1>c, <1>d, <1>e, NoneIsNone DEF CreateMailboxEffect
<1>2. ASSUME NEW a \in Addresses, FindEffect(t, a)
      PROVE  refs'[k] = 0 \/ registry'[address[k]] = k
  BY <1>2, <1>b, <1>c, <1>d, <1>e, NoneIsNone DEF FindEffect
<1>3. ASSUME NEW r \in Remotes, FindNoProxyEffect(t, r)
      PROVE  refs'[k] = 0 \/ registry'[address[k]] = k
  BY <1>3, <1>b, <1>c, <1>d, <1>e, NoneIsNone DEF FindNoProxyEffect
<1>4. ASSUME NEW m \in Mailboxes, CreateProxyEffect(t, m)
      PROVE  refs'[k] = 0 \/ registry'[address[k]] = k
  BY <1>4, <1>b, <1>c, <1>d, <1>e, NoneIsNone DEF CreateProxyEffect
<1>5. CASE ConnectFailsEffect(t)
  BY <1>5, <1>b, <1>c, <1>d, <1>e, NoneIsNone DEF ConnectFailsEffect
<1>6. CASE ConnectEffect(t)
  BY <1>6, <1>b, <1>c, <1>d, <1>e, NoneIsNone DEF ConnectEffect
<1>7. CASE ActivateEffect(t)
  BY <1>7, <1>b, <1>c, <1>d, <1>e, NoneIsNone DEF ActivateEffect
<1>8. CASE RegisterWaitsEffect(t)
  BY <1>8, <1>b, <1>c, <1>d, <1>e, NoneIsNone DEF RegisterWaitsEffect
<1>9. CASE RegisterEntersEffect(t)
  BY <1>9, <1>b, <1>c, <1>d, <1>e, NoneIsNone DEF RegisterEntersEffect
<1>10. CASE InsertEffect(t)
  BY <1>10, <1>b, <1>c, <1>d, <1>e, NoneIsNone DEF InsertEffect
<1>11. CASE SetActiveEffect(t)
  BY <1>11, <1>b, <1>c, <1>d, <1>e, NoneIsNone DEF SetActiveEffect
<1>12. CASE DeactivateEffect(t)
  BY <1>12, <1>b, <1>c, <1>d, <1>e, NoneIsNone DEF DeactivateEffect
<1>13. CASE TestVictimActiveEffect(t)
  BY <1>13, <1>b, <1>c, <1>d, <1>e, NoneIsNone DEF TestVictimActiveEffect
<1>14. CASE TestVictimInactiveEffect(t)
  BY <1>14, <1>b, <1>c, <1>d, <1>e, NoneIsNone DEF TestVictimInactiveEffect
<1>15. CASE SetInactiveEffect(t)
  BY <1>15, <1>b, <1>c, <1>d, <1>e, NoneIsNone DEF SetInactiveEffect
<1>16. CASE DeregisterEffect(t)
  BY <1>16, <1>b, <1>c, <1>d, <1>e, NoneIsNone DEF DeregisterEffect
<1>17. CASE ReleaseEffect(t)
  BY <1>17, <1>b, <1>c, <1>d, <1>e, NoneIsNone DEF ReleaseEffect
<1>18. CASE TestCountZeroEffect(t)
  BY <1>18, <1>b, <1>c, <1>d, <1>e, NoneIsNone DEF TestCountZeroEffect
<1>19. CASE TestCountMoreEffect(t)
  BY <1>19, <1>b, <1>c, <1>d, <1>e, NoneIsNone DEF TestCountMoreEffect
<1>20. CASE DestroyEffect(t)
  BY <1>20, <1>b, <1>c, <1>d, <1>e, NoneIsNone DEF DestroyEffect
<1> QED
  BY StepDoes, <1>1, <1>2, <1>3, <1>4, <1>5, <1>6, <1>7, <1>8, <1>9, <1>10, <1>11,
     <1>12, <1>13, <1>14, <1>15, <1>16, <1>17, <1>18, <1>19, <1>20

(* Without overlapping changes what is destroyed stays unused, or is found.*)
LEMMA UnusedKept ==
    ASSUME IInv, ~freedUsed,
           NEW t \in Threads, Step(t), ChangesAreAlone, DestroyedAreUnused
    PROVE  DestroyedAreUnused'
<1> SUFFICES ASSUME NEW w \in Threads, pc'[w] = "destroy"
             PROVE  refs'[work'[w]] = 0 \/ Registered(work[w])'
  BY DEF DestroyedAreUnused
<1>1. CASE w = t
  BY <1>1, DestroyerFoundZero
<1>2. CASE w # t
  <2>1. pc[w] = "destroy" /\ work'[w] = work[w] /\ work[w] \in Mailboxes
    BY <1>2, OthersStay, ReferredAre DEF StaysPut
  <2>2. address'[work[w]] = address[work[w]]
    <3>1. life[work[w]] # "new"
      BY <2>1 DEF IInv, Bookkeeping, MailboxesAreMade, WellMade, Refers
    <3> QED BY <2>1, <3>1, OthersStay DEF StaysPut
  <2>3. refs[work[w]] = 0 \/ registry[address[work[w]]] = work[w]
    BY <2>1 DEF DestroyedAreUnused, Registered
  <2>4. refs'[work[w]] = 0 \/ registry'[address[work[w]]] = work[w]
    BY <1>2, <2>1, <2>3, UnusedStays
  <2> QED BY <2>1, <2>2, <2>4 DEF Registered
<1> QED BY <1>1, <1>2

(* What a thread has a handle to, and what is registered, is alive.        *)
ReferredLive ==
    /\ \A u \in Threads : handle[u] # None => Alive(handle[u])
    /\ \A b \in Addresses : registry[b] # None => Alive(registry[b])

(* Unless what is deleted was registered, or changes overlapped, no        *)
(* reference dangles: a mailbox without an entry is deleted only with its  *)
(* count at zero.                                                          *)
LEMMA ReferencesKept ==
    ASSUME IInv, ~freedUsed, NEW t \in Threads, Step(t),
           accidents' \cap Unregistered = {}
    PROVE  ReferredLive'
<1>a. TypeOK /\ ThreadsAreWell /\ MailboxesAreMade
  BY DEF IInv, Bookkeeping
<1>b. accidents \cap Unregistered = {}
  BY AccidentsStay
<1>c. \A u \in Threads : handle[u] # None => handle[u] \in Mailboxes /\ Alive(handle[u])
  BY <1>b, ReferredAre DEF IInv, Bookkeeping, ReferencesAreAlive
<1>d. \A b \in Addresses : registry[b] # None => registry[b] \in Mailboxes /\ Alive(registry[b])
  BY <1>b, RegisteredAre DEF IInv, Bookkeeping, ReferencesAreAlive
<1>e. pc[t] \in {"register", "insert", "activate"} => work[t] \in Mailboxes /\ Alive(work[t])
  BY ReferredAre DEF IInv, Bookkeeping, CoveredAreAlive, Covers, Releasing
<1>1. ASSUME NEW m \in Mailboxes, NEW n \in Names, CreateMailboxEffect(t, m, n)
      PROVE  ReferredLive'
  BY <1>1, <1>c, <1>d, <1>e, NoneIsNone DEF CreateMailboxEffect, Alive, ReferredLive
<1>2. ASSUME NEW a \in Addresses, FindEffect(t, a) PROVE ReferredLive'
  BY <1>2, <1>c, <1>d, <1>e, NoneIsNone DEF FindEffect, Alive, ReferredLive
<1>3. ASSUME NEW r \in Remotes, FindNoProxyEffect(t, r) PROVE ReferredLive'
  BY <1>3, <1>c, <1>d, <1>e, NoneIsNone DEF FindNoProxyEffect, Alive, ReferredLive
<1>4. ASSUME NEW m \in Mailboxes, CreateProxyEffect(t, m) PROVE ReferredLive'
  BY <1>4, <1>c, <1>d, <1>e, NoneIsNone DEF CreateProxyEffect, Alive, ReferredLive
<1>5. CASE ConnectFailsEffect(t)
  BY <1>5, <1>c, <1>d, <1>e, NoneIsNone DEF ConnectFailsEffect, Alive, ReferredLive
<1>6. CASE ConnectEffect(t)
  BY <1>6, <1>c, <1>d, <1>e, NoneIsNone DEF ConnectEffect, Alive, ReferredLive
<1>7. CASE ActivateEffect(t)
  BY <1>7, <1>c, <1>d, <1>e, NoneIsNone DEF ActivateEffect, Alive, ReferredLive
<1>8. CASE RegisterWaitsEffect(t)
  BY <1>8, <1>c, <1>d, <1>e, NoneIsNone DEF RegisterWaitsEffect, Alive, ReferredLive
<1>9. CASE RegisterEntersEffect(t)
  BY <1>9, <1>c, <1>d, <1>e, NoneIsNone DEF RegisterEntersEffect, Enters, Alive, ReferredLive
<1>10. CASE InsertEffect(t)
  BY <1>10, <1>c, <1>d, <1>e, NoneIsNone DEF InsertEffect, Enters, Alive, ReferredLive
<1>11. CASE SetActiveEffect(t)
  BY <1>11, <1>c, <1>d, <1>e, NoneIsNone DEF SetActiveEffect, Alive, ReferredLive
<1>12. CASE DeactivateEffect(t)
  BY <1>12, <1>c, <1>d, <1>e, NoneIsNone DEF DeactivateEffect, Alive, ReferredLive
<1>13. CASE TestVictimActiveEffect(t)
  BY <1>13, <1>c, <1>d, <1>e, NoneIsNone DEF TestVictimActiveEffect, Alive, ReferredLive
<1>14. CASE TestVictimInactiveEffect(t)
  BY <1>14, <1>c, <1>d, <1>e, NoneIsNone
  DEF TestVictimInactiveEffect, Alive, ReferredLive
<1>15. CASE SetInactiveEffect(t)
  BY <1>15, <1>c, <1>d, <1>e, NoneIsNone DEF SetInactiveEffect, Alive, ReferredLive
<1>16. CASE DeregisterEffect(t)
  BY <1>16, <1>c, <1>d, <1>e, NoneIsNone DEF DeregisterEffect, Alive, ReferredLive
<1>17. CASE ReleaseEffect(t)
  BY <1>17, <1>c, <1>d, <1>e, NoneIsNone DEF ReleaseEffect, Alive, ReferredLive
<1>18. CASE TestCountZeroEffect(t)
  BY <1>18, <1>c, <1>d, <1>e, NoneIsNone DEF TestCountZeroEffect, Alive, ReferredLive
<1>19. CASE TestCountMoreEffect(t)
  BY <1>19, <1>c, <1>d, <1>e, NoneIsNone DEF TestCountMoreEffect, Alive, ReferredLive
<1>20. CASE DestroyEffect(t)
  <2>1. work[t] \in Mailboxes /\ ~Registered(work[t])
    BY <1>20 DEF DestroyEffect, Unregistered
  <2>2. DestroyedAreUnused
    BY <1>b DEF IInv, Bookkeeping, Unregistered
  <2>3. refs[work[t]] = 0
    BY <1>20, <2>1, <2>2 DEF DestroyEffect, DestroyedAreUnused
  <2>4. \A u \in Threads : handle[u] # work[t]
    BY <2>1, <2>3, HeldAreCounted DEF Holds
  <2>5. \A b \in Addresses : registry[b] # None => registry[b] # work[t]
    BY <2>1, RegisteredAre DEF Registered
  <2> QED BY <1>20, <2>4, <2>5, <1>c, <1>d DEF DestroyEffect, Alive, ReferredLive
<1> QED
  BY StepDoes, <1>1, <1>2, <1>3, <1>4, <1>5, <1>6, <1>7, <1>8, <1>9, <1>10, <1>11,
     <1>12, <1>13, <1>14, <1>15, <1>16, <1>17, <1>18, <1>19, <1>20

(* Without an accident no second thread reads the count of zero.           *)
LEMMA ReleasesKept ==
    ASSUME IInv, ~freedUsed, NEW t \in Threads, Step(t), accidents' = {}
    PROVE  OneReleases'
<1>a. TypeOK
  BY DEF IInv, Bookkeeping
<1>b. OneReleases
  BY AccidentsStay DEF IInv, Bookkeeping
<1>c. handle[t] # None => handle[t] \in Mailboxes /\ Alive(handle[t])
  BY AccidentsStay, ReferredAre DEF IInv, Bookkeeping, ReferencesAreAlive
<1>d. \A u \in Threads : Releasing(u) => work[u] \in Mailboxes
  BY ReferredAre DEF Releasing
<1>1. ASSUME NEW m \in Mailboxes, NEW n \in Names, CreateMailboxEffect(t, m, n)
      PROVE  OneReleases'
  BY <1>1, <1>b, <1>c, <1>d, NoneIsNone
  DEF CreateMailboxEffect, OneReleases, Releasing, Alive
<1>2. ASSUME NEW a \in Addresses, FindEffect(t, a) PROVE OneReleases'
  BY <1>2, <1>b, <1>c, <1>d, NoneIsNone DEF FindEffect, OneReleases, Releasing, Alive
<1>3. ASSUME NEW r \in Remotes, FindNoProxyEffect(t, r) PROVE OneReleases'
  BY <1>3, <1>b, <1>c, <1>d, NoneIsNone
  DEF FindNoProxyEffect, OneReleases, Releasing, Alive
<1>4. ASSUME NEW m \in Mailboxes, CreateProxyEffect(t, m) PROVE OneReleases'
  BY <1>4, <1>b, <1>c, <1>d, NoneIsNone
  DEF CreateProxyEffect, OneReleases, Releasing, Alive
<1>5. CASE ConnectFailsEffect(t)
  BY <1>5, <1>b, <1>c, <1>d, NoneIsNone
  DEF ConnectFailsEffect, OneReleases, Releasing, Alive
<1>6. CASE ConnectEffect(t)
  BY <1>6, <1>b, <1>c, <1>d, NoneIsNone DEF ConnectEffect, OneReleases, Releasing, Alive
<1>7. CASE ActivateEffect(t)
  BY <1>7, <1>b, <1>c, <1>d, NoneIsNone
  DEF ActivateEffect, OneReleases, Releasing, Alive
<1>8. CASE RegisterWaitsEffect(t)
  BY <1>8, <1>b, <1>c, <1>d, NoneIsNone
  DEF RegisterWaitsEffect, OneReleases, Releasing, Alive
<1>9. CASE RegisterEntersEffect(t)
  BY <1>9, <1>b, <1>c, <1>d, NoneIsNone
  DEF RegisterEntersEffect, OneReleases, Releasing, Alive
<1>10. CASE InsertEffect(t)
  BY <1>10, <1>b, <1>c, <1>d, NoneIsNone DEF InsertEffect, OneReleases, Releasing, Alive
<1>11. CASE SetActiveEffect(t)
  BY <1>11, <1>b, <1>c, <1>d, NoneIsNone
  DEF SetActiveEffect, OneReleases, Releasing, Alive
<1>12. CASE DeactivateEffect(t)
  BY <1>12, <1>b, <1>c, <1>d, NoneIsNone
  DEF DeactivateEffect, OneReleases, Releasing, Alive
<1>13. CASE TestVictimActiveEffect(t)
  BY <1>13, <1>b, <1>c, <1>d, NoneIsNone
  DEF TestVictimActiveEffect, OneReleases, Releasing, Alive
<1>14. CASE TestVictimInactiveEffect(t)
  BY <1>14, <1>b, <1>c, <1>d, NoneIsNone
  DEF TestVictimInactiveEffect, OneReleases, Releasing, Alive
<1>15. CASE SetInactiveEffect(t)
  BY <1>15, <1>b, <1>c, <1>d, NoneIsNone
  DEF SetInactiveEffect, OneReleases, Releasing, Alive
<1>16. CASE DeregisterEffect(t)
  BY <1>16, <1>b, <1>c, <1>d, NoneIsNone
  DEF DeregisterEffect, OneReleases, Releasing, Alive
<1>17. CASE ReleaseEffect(t)
  <2>1. \A u \in Threads \ {t} : Releasing(u) => work[u] # handle[t]
    BY <1>17 DEF ReleaseEffect, OverlappingRelease
  <2> QED
    BY <1>17, <2>1, <1>b, <1>c, <1>d DEF ReleaseEffect, OneReleases, Releasing, Alive
<1>18. CASE TestCountZeroEffect(t)
  BY <1>18, <1>b, <1>c, <1>d, NoneIsNone
  DEF TestCountZeroEffect, OneReleases, Releasing, Alive
<1>19. CASE TestCountMoreEffect(t)
  BY <1>19, <1>b, <1>c, <1>d, NoneIsNone
  DEF TestCountMoreEffect, OneReleases, Releasing, Alive
<1>20. CASE DestroyEffect(t)
  <2>1. \A u \in Threads : Releasing(u)' => u # t /\ Releasing(u) /\ work'[u] = work[u]
    BY <1>20 DEF DestroyEffect, Releasing
  <2>2. Releasing(t)
    BY <1>20 DEF DestroyEffect, Releasing
  <2>3. \A u \in Threads \ {t} : Releasing(u) => work[u] # work[t]
    BY <1>b, <2>2 DEF OneReleases
  <2>4. \A u \in Threads : Releasing(u)' => Alive(work[u])'
    <3> SUFFICES ASSUME NEW u \in Threads, Releasing(u)' PROVE Alive(work[u])'
      OBVIOUS
    <3>1. work[u] \in Mailboxes /\ life[work[u]] = "alive" /\ work[u] # work[t]
      BY <2>1, <2>3, <1>b, <1>d DEF OneReleases, Alive
    <3>2. life'[work[u]] = life[work[u]]
      BY <1>20, <3>1 DEF DestroyEffect
    <3> QED BY <2>1, <3>1, <3>2 DEF Alive
  <2> QED BY <2>1, <2>4, <1>b DEF OneReleases
<1> QED
  BY StepDoes, <1>1, <1>2, <1>3, <1>4, <1>5, <1>6, <1>7, <1>8, <1>9, <1>10, <1>11,
     <1>12, <1>13, <1>14, <1>15, <1>16, <1>17, <1>18, <1>19, <1>20

(* Without an accident no step touches a deleted mailbox.                  *)
LEMMA FreedStaysUnused ==
    ASSUME IInv, ~freedUsed, NEW t \in Threads, Step(t), accidents' = {}
    PROVE  ~freedUsed'
<1>a. TypeOK
  BY DEF IInv, Bookkeeping
<1>b. accidents = {}
  BY AccidentsStay
<1>c. handle[t] # None => handle[t] \in Mailboxes /\ Alive(handle[t])
  BY <1>b, ReferredAre DEF IInv, Bookkeeping, ReferencesAreAlive
<1>d. \A a \in Addresses : registry[a] # None => Alive(registry[a])
  BY <1>b DEF IInv, Bookkeeping, ReferencesAreAlive
<1>e. pc[t] \in {"register", "insert", "activate"} => work[t] \in Mailboxes /\ Alive(work[t])
  BY ReferredAre DEF IInv, Bookkeeping, CoveredAreAlive, Covers, Releasing
<1>f. pc[t] \in {"test", "destroy"} => Alive(work[t])
  BY <1>b DEF IInv, Bookkeeping, OneReleases, Releasing
<1>g. pc[t] \in {"deactivate", "setInactive"} => Alive(victim[t])
  BY <1>b, ReferredAre DEF IInv, Bookkeeping, ChangesAreOrderly, Orderly, MailboxesAreMade, WellMade
<1>1. ASSUME NEW m \in Mailboxes, NEW n \in Names, CreateMailboxEffect(t, m, n)
      PROVE  ~freedUsed'
  BY <1>1, <1>c, <1>d, <1>e, <1>f, <1>g, NoneIsNone DEF CreateMailboxEffect
<1>2. ASSUME NEW a \in Addresses, FindEffect(t, a) PROVE ~freedUsed'
  BY <1>2, <1>c, <1>d, <1>e, <1>f, <1>g, NoneIsNone DEF FindEffect
<1>3. ASSUME NEW r \in Remotes, FindNoProxyEffect(t, r) PROVE ~freedUsed'
  BY <1>3, <1>c, <1>d, <1>e, <1>f, <1>g, NoneIsNone DEF FindNoProxyEffect
<1>4. ASSUME NEW m \in Mailboxes, CreateProxyEffect(t, m) PROVE ~freedUsed'
  BY <1>4, <1>c, <1>d, <1>e, <1>f, <1>g, NoneIsNone DEF CreateProxyEffect
<1>5. CASE ConnectFailsEffect(t)
  BY <1>5, <1>c, <1>d, <1>e, <1>f, <1>g, NoneIsNone DEF ConnectFailsEffect
<1>6. CASE ConnectEffect(t)
  BY <1>6, <1>c, <1>d, <1>e, <1>f, <1>g, NoneIsNone DEF ConnectEffect
<1>7. CASE ActivateEffect(t)
  BY <1>7, <1>c, <1>d, <1>e, <1>f, <1>g, NoneIsNone DEF ActivateEffect
<1>8. CASE RegisterWaitsEffect(t)
  BY <1>8, <1>c, <1>d, <1>e, <1>f, <1>g, NoneIsNone DEF RegisterWaitsEffect
<1>9. CASE RegisterEntersEffect(t)
  BY <1>9, <1>c, <1>d, <1>e, <1>f, <1>g, NoneIsNone DEF RegisterEntersEffect
<1>10. CASE InsertEffect(t)
  BY <1>10, <1>c, <1>d, <1>e, <1>f, <1>g, NoneIsNone DEF InsertEffect
<1>11. CASE SetActiveEffect(t)
  BY <1>11, <1>c, <1>d, <1>e, <1>f, <1>g, NoneIsNone DEF SetActiveEffect
<1>12. CASE DeactivateEffect(t)
  BY <1>12, <1>c, <1>d, <1>e, <1>f, <1>g, NoneIsNone DEF DeactivateEffect
<1>13. CASE TestVictimActiveEffect(t)
  BY <1>13, <1>c, <1>d, <1>e, <1>f, <1>g, NoneIsNone DEF TestVictimActiveEffect
<1>14. CASE TestVictimInactiveEffect(t)
  BY <1>14, <1>c, <1>d, <1>e, <1>f, <1>g, NoneIsNone DEF TestVictimInactiveEffect
<1>15. CASE SetInactiveEffect(t)
  BY <1>15, <1>c, <1>d, <1>e, <1>f, <1>g, NoneIsNone DEF SetInactiveEffect
<1>16. CASE DeregisterEffect(t)
  BY <1>16, <1>c, <1>d, <1>e, <1>f, <1>g, NoneIsNone DEF DeregisterEffect
<1>17. CASE ReleaseEffect(t)
  BY <1>17, <1>c, <1>d, <1>e, <1>f, <1>g, NoneIsNone DEF ReleaseEffect
<1>18. CASE TestCountZeroEffect(t)
  BY <1>18, <1>c, <1>d, <1>e, <1>f, <1>g, NoneIsNone DEF TestCountZeroEffect
<1>19. CASE TestCountMoreEffect(t)
  BY <1>19, <1>c, <1>d, <1>e, <1>f, <1>g, NoneIsNone DEF TestCountMoreEffect
<1>20. CASE DestroyEffect(t)
  BY <1>20, <1>c, <1>d, <1>e, <1>f, <1>g, NoneIsNone DEF DestroyEffect
<1> QED
  BY StepDoes, <1>1, <1>2, <1>3, <1>4, <1>5, <1>6, <1>7, <1>8, <1>9, <1>10, <1>11,
     <1>12, <1>13, <1>14, <1>15, <1>16, <1>17, <1>18, <1>19, <1>20

(* What insert() leaves in the map has its type.                           *)
LEMMA InsertFits ==
    ASSUME Places, NEW a \in Addresses, NEW m \in Mailboxes, InsertAt(a, m)
    PROVE  registry' \in [Addresses -> Mailboxes \cup {None}] /\ shadowed' \subseteq Addresses
  BY DEF Places, InsertAt

(* The types of the variables that hold places and references.             *)
LEMMA PlacesKept ==
    ASSUME IInv, ~freedUsed, NEW t \in Threads, Step(t)
    PROVE  Places'
<1> USE TypeSplits, NoneIsNone, ReferredAre
    DEF IInv, Bookkeeping, Goto, mailboxes, calls
<1>1. ASSUME NEW m \in Mailboxes, NEW n \in Names, CreateMailbox(t, m, n) PROVE Places'
  BY <1>1
  DEF CreateMailbox, Construct, Places, Labels, Addresses, Accidents, Overlapping,
      OverlappingRelease
<1>2. ASSUME NEW a \in Addresses, FindLocal(t, a) \/ FindProxy(t, a) PROVE Places'
  <2>1. registry[a] \in Mailboxes
    BY <1>2, RegisteredAre DEF FindLocal, FindProxy
  <2> QED BY <1>2, <2>1 DEF FindLocal, FindProxy, Acquire, Places
<1>3. ASSUME NEW r \in Remotes, FindNoProxy(t, r) PROVE Places'
  BY <1>3
  DEF FindNoProxy, Places, Labels, Addresses, Accidents, Overlapping,
      OverlappingRelease
<1>4. ASSUME NEW m \in Mailboxes, CreateProxy(t, m) PROVE Places'
  BY <1>4
  DEF CreateProxy, Construct, Places, Labels, Addresses, Accidents, Overlapping,
      OverlappingRelease
<1>5. CASE ConnectFails(t)
  <2>1. work[t] \in Mailboxes
    BY <1>5 DEF ConnectFails
  <2> QED BY <1>5, <2>1 DEF ConnectFails, Places, Labels
<1>6. CASE Connect(t)
  BY <1>6
  DEF Connect, Places, Labels, Addresses, Accidents, Overlapping, OverlappingRelease
<1>7. CASE Activate(t)
  BY <1>7
  DEF Activate, Places, Labels, Addresses, Accidents, Overlapping, OverlappingRelease
<1>8. CASE Register(t)
  <2>1. work[t] \in Mailboxes /\ address[work[t]] \in Addresses
    BY <1>8 DEF Register, ThreadsAreWell, WellPlaced
  <2>2. registry[address[work[t]]] # None => registry[address[work[t]]] \in Mailboxes
    BY <2>1, RegisteredAre
  <2>3. CASE Replaces(t)
    BY <1>8, <2>1, <2>2, <2>3 DEF Register, Replaces, Places, Labels
  <2>4. CASE ~Replaces(t)
    <3>1. InsertAt(address[work[t]], work[t])
      BY <1>8, <2>4 DEF Register, Replaces
    <3>2. registry' \in [Addresses -> Mailboxes \cup {None}] /\ shadowed' \subseteq Addresses
      BY <2>1, <3>1, InsertFits
    <3> QED BY <1>8, <2>1, <2>4, <3>2 DEF Register, Replaces, Places, Labels
  <2> QED BY <2>3, <2>4
<1>9. CASE Insert(t)
  <2>1. work[t] \in Mailboxes /\ address[work[t]] \in Addresses
    BY <1>9 DEF Insert, ThreadsAreWell, WellPlaced
  <2>2. registry' \in [Addresses -> Mailboxes \cup {None}] /\ shadowed' \subseteq Addresses
    BY <1>9, <2>1, InsertFits DEF Insert, Places
  <2> QED BY <1>9, <2>2 DEF Insert, Places, Labels
<1>10. CASE SetActive(t)
  BY <1>10
  DEF SetActive, Places, Labels, Addresses, Accidents, Overlapping, OverlappingRelease
<1>11. CASE Deactivate(t)
  BY <1>11
  DEF Deactivate, Places, Labels, Addresses, Accidents, Overlapping, OverlappingRelease
<1>12. CASE TestVictim(t)
  <2>1. CASE active[victim[t]]
    BY <1>12, <2>1 DEF TestVictim, Places, Labels
  <2>2. CASE ~active[victim[t]]
    BY <1>12, <2>2 DEF TestVictim, Places, Labels
  <2> QED BY <2>1, <2>2
<1>13. CASE SetInactive(t)
  BY <1>13
  DEF SetInactive, Places, Labels, Addresses, Accidents, Overlapping,
      OverlappingRelease
<1>14. CASE Deregister(t)
  BY <1>14
  DEF Deregister, Places, Labels, Addresses, Accidents, Overlapping, OverlappingRelease
<1>15. CASE Release(t)
  BY <1>15
  DEF Release, Places, Labels, Addresses, Accidents, Overlapping, OverlappingRelease
<1>16. CASE TestCount(t)
  <2>1. CASE refs[work[t]] = 0
    BY <1>16, <2>1 DEF TestCount, Places, Labels
  <2>2. CASE refs[work[t]] # 0
    BY <1>16, <2>2 DEF TestCount, Places, Labels
  <2> QED BY <2>1, <2>2
<1>17. CASE Destroy(t)
  BY <1>17
  DEF Destroy, Places, Labels, Addresses, Accidents, Overlapping, OverlappingRelease
<1> QED
  BY <1>1, <1>2, <1>3, <1>4, <1>5, <1>6, <1>7, <1>8, <1>9, <1>10, <1>11, <1>12, <1>13,
     <1>14, <1>15, <1>16, <1>17
  DEF Step

(* The types of the flags.                                                 *)
LEMMA FlagsKept ==
    ASSUME IInv, ~freedUsed, NEW t \in Threads, Step(t)
    PROVE  Flags'
<1> USE TypeSplits, NoneIsNone, ReferredAre
    DEF IInv, Bookkeeping, Goto, mailboxes, calls
<1>1. ASSUME NEW m \in Mailboxes, NEW n \in Names, CreateMailbox(t, m, n) PROVE Flags'
  BY <1>1 DEF CreateMailbox, Construct, Flags, Places
<1>2. ASSUME NEW a \in Addresses, FindLocal(t, a) \/ FindProxy(t, a) PROVE Flags'
  BY <1>2 DEF FindLocal, FindProxy, Acquire, Flags, Places
<1>3. ASSUME NEW r \in Remotes, FindNoProxy(t, r) PROVE Flags'
  BY <1>3 DEF FindNoProxy, Flags, Places
<1>4. ASSUME NEW m \in Mailboxes, CreateProxy(t, m) PROVE Flags'
  BY <1>4 DEF CreateProxy, Construct, Flags, Places
<1>5. CASE ConnectFails(t)
  BY <1>5 DEF ConnectFails, Flags, Places
<1>6. CASE Connect(t)
  BY <1>6 DEF Connect, Flags, Places
<1>7. CASE Activate(t)
  BY <1>7 DEF Activate, Flags, Places
<1>8. CASE Register(t)
  BY <1>8 DEF Register, Flags, Places
<1>9. CASE Insert(t)
  BY <1>9 DEF Insert, Flags, Places
<1>10. CASE SetActive(t)
  BY <1>10 DEF SetActive, Flags, Places
<1>11. CASE Deactivate(t)
  BY <1>11 DEF Deactivate, Flags, Places
<1>12. CASE TestVictim(t)
  BY <1>12 DEF TestVictim, Flags, Places
<1>13. CASE SetInactive(t)
  BY <1>13 DEF SetInactive, Flags, Places
<1>14. CASE Deregister(t)
  BY <1>14 DEF Deregister, Flags, Places
<1>15. CASE Release(t)
  BY <1>15 DEF Release, Flags, Places
<1>16. CASE TestCount(t)
  BY <1>16 DEF TestCount, Flags, Places
<1>17. CASE Destroy(t)
  BY <1>17 DEF Destroy, Flags, Places
<1> QED
  BY <1>1, <1>2, <1>3, <1>4, <1>5, <1>6, <1>7, <1>8, <1>9, <1>10, <1>11, <1>12, <1>13,
     <1>14, <1>15, <1>16, <1>17
  DEF Step

(* Counts are natural numbers: what is released had been counted.          *)
LEMMA NumbersKept ==
    ASSUME IInv, ~freedUsed, NEW t \in Threads, Step(t)
    PROVE  Counts'
<1>1. refs \in [Mailboxes -> Nat]
  BY TypeSplits DEF IInv, Bookkeeping, Counts
<1>2. ASSUME NEW m \in Mailboxes,
             \/ refs' = [refs EXCEPT ![m] = 1]
             \/ refs' = [refs EXCEPT ![m] = refs[m] + 1]
             \/ refs' = [refs EXCEPT ![m] = refs[m] - 1] /\ refs[m] # 0
      PROVE  Counts'
  BY <1>1, <1>2 DEF Counts
<1>3. CASE UNCHANGED refs
  BY <1>1, <1>3 DEF Counts
<1>4. ASSUME NEW m \in Mailboxes, NEW n \in Names, CreateMailbox(t, m, n) PROVE Counts'
  BY <1>2, <1>4 DEF CreateMailbox, Construct
<1>5. ASSUME NEW a \in Addresses, FindLocal(t, a) \/ FindProxy(t, a) PROVE Counts'
  <2>1. registry[a] \in Mailboxes
    BY <1>5, RegisteredAre DEF FindLocal, FindProxy
  <2> QED BY <1>2, <1>5, <2>1 DEF FindLocal, FindProxy, Acquire
<1>6. ASSUME NEW m \in Mailboxes, CreateProxy(t, m) PROVE Counts'
  BY <1>2, <1>6 DEF CreateProxy, Construct
<1>7. CASE Release(t)
  <2>1. handle[t] \in Mailboxes
    BY <1>7, ReferredAre DEF Release
  <2>2. refs[handle[t]] # 0
    BY <2>1, HeldAreCounted DEF Holds
  <2> QED BY <1>2, <1>7, <2>1, <2>2 DEF Release
<1>8. \/ UNCHANGED refs
      \/ \E m \in Mailboxes, n \in Names : CreateMailbox(t, m, n)
      \/ \E a \in Addresses : FindLocal(t, a) \/ FindProxy(t, a)
      \/ \E m \in Mailboxes : CreateProxy(t, m)
      \/ Release(t)
  BY NoneIsNone
  DEF Step, FindNoProxy, ConnectFails, Connect, Activate, Register, Insert,
     SetActive, Deactivate, TestVictim, SetInactive, Deregister, TestCount, Destroy,
     mailboxes
<1> QED BY <1>3, <1>4, <1>5, <1>6, <1>7, <1>8

(* Every step keeps the invariant.                                         *)
LEMMA StepKeeps ==
    ASSUME IInv, ~freedUsed, NEW t \in Threads, Step(t)
    PROVE  IInv'
<1>1. TypeOK'
  BY PlacesKept, FlagsKept, NumbersKept, TypeSplits
<1>2. ThreadsAreWell' /\ ConnectedIsFresh' /\ CountsAreExact' /\ CoveredAreAlive'
  BY WellKept, FreshKept, CountsKept, CoveredKept
<1>3. MailboxesAreMade'
  BY MadeKept, EnteredKept DEF MailboxesAreMade
<1>4. accidents \subseteq accidents'
  BY AccidentsStay
<1>5. ASSUME "overlapping_changes" \notin accidents'
      PROVE  (ChangesAreAlone /\ ChangesAreOrderly /\ DestroyedAreUnused)'
  <2>1. Unflagged' /\ ChangesAreAlone /\ ChangesAreOrderly /\ DestroyedAreUnused
    BY <1>4, <1>5 DEF IInv, Bookkeeping, Unflagged
  <2>2. ChangesAreAlone'
    BY <2>1, AloneKept
  <2>3. ChangesAreOrderly'
    BY <2>1, OrderKept
  <2>4. DestroyedAreUnused'
    BY <2>1, UnusedKept
  <2> QED BY <2>2, <2>3, <2>4
<1>6. ReferencesAreAlive'
  BY ReferencesKept DEF ReferencesAreAlive, ReferredLive
<1>7. (accidents = {} => OneReleases)'
  BY ReleasesKept
<1>8. FreedIsNotUsed'
  BY FreedStaysUnused DEF FreedIsNotUsed
<1> QED BY <1>1, <1>2, <1>3, <1>5, <1>6, <1>7, <1>8 DEF IInv, Bookkeeping

(* At the start there is nothing that could be referred to.                *)
LEMMA StartIsWell == Init => IInv
<1> SUFFICES ASSUME Init PROVE IInv
  OBVIOUS
<1>1. TypeOK
  BY NoneIsNone DEF Init, TypeOK, Labels
<1>2. ThreadsAreWell /\ MailboxesAreMade /\ ConnectedIsFresh
  BY NoneIsNone
  DEF Init, ThreadsAreWell, WellPlaced, MailboxesAreMade, WellMade, Refers,
     ConnectedIsFresh
<1>3. CountsAreExact
  <2> SUFFICES ASSUME NEW m \in Mailboxes PROVE refs[m] = HandlesTo(m)
    BY DEF CountsAreExact
  <2>1. Holders(m) = {} /\ Leaks(m) = 0
    BY NoneIsNone DEF Init, Holders, Holds, Leaks
  <2> QED BY <2>1, HandlesAre, FS_EmptySet DEF Init
<1>4. CoveredAreAlive
  BY NoneIsNone DEF Init, CoveredAreAlive, Covers
<1>5. ChangesAreAlone /\ ChangesAreOrderly /\ DestroyedAreUnused
  BY NoneIsNone DEF Init, ChangesAreAlone, ChangesAreOrderly, DestroyedAreUnused,
     Changing, Orderly, Disagreeing, Agrees, Alive
<1>6. ReferencesAreAlive /\ OneReleases /\ FreedIsNotUsed
  BY DEF Init, ReferencesAreAlive, OneReleases, Releasing, FreedIsNotUsed
<1> QED BY <1>1, <1>2, <1>3, <1>4, <1>5, <1>6 DEF IInv, Bookkeeping

(* A step that changes nothing keeps the invariant.                        *)
LEMMA StutterKeeps == IInv /\ UNCHANGED vars => IInv'
<1> SUFFICES ASSUME IInv, UNCHANGED vars PROVE IInv'
  OBVIOUS
<1> USE DEF vars, mailboxes, calls
<1>1. TypeOK' /\ ThreadsAreWell' /\ ConnectedIsFresh'
  BY DEF IInv, Bookkeeping, TypeOK, ThreadsAreWell, WellPlaced, ConnectedIsFresh
<1>2. MailboxesAreMade' /\ CoveredAreAlive'
  <2>1. \A m \in Mailboxes : WellMade(m)'
    BY DEF IInv, Bookkeeping, MailboxesAreMade, WellMade, Refers, Alive
  <2>2. (\A a \in Addresses : registry[a] # None => address[registry[a]] = a)'
    BY DEF IInv, Bookkeeping, MailboxesAreMade
  <2>3. CoveredAreAlive'
    BY DEF IInv, Bookkeeping, CoveredAreAlive, Covers, Releasing, Alive
  <2> QED BY <2>1, <2>2, <2>3 DEF MailboxesAreMade
<1>3. CountsAreExact'
  <2>1. \A m : Holders(m)' = Holders(m) /\ Leaks(m)' = Leaks(m)
    BY DEF Holders, Holds, Releasing, Leaks
  <2> QED BY <2>1, HandlesAre DEF IInv, Bookkeeping, CountsAreExact
<1>4. (ChangesAreAlone <=> ChangesAreAlone')
  BY DEF ChangesAreAlone, Changing, Releasing
<1>5. ChangesAreOrderly <=> ChangesAreOrderly'
  <2>1. \A u \in Threads : Changing(u)' = Changing(u)
    BY DEF Changing
  <2>2. \A a \in Addresses : (Quiet(a) <=> Quiet(a)') /\ (Agrees(a) <=> Agrees(a)')
    BY DEF Quiet, Agrees, Alive
  <2>3. \A u \in Threads : Orderly(u) <=> Orderly(u)'
    BY <2>1 DEF Orderly, Quiet, Alive
  <2> QED BY <2>1, <2>2, <2>3 DEF ChangesAreOrderly
<1>6. DestroyedAreUnused <=> DestroyedAreUnused'
  BY DEF DestroyedAreUnused, Registered
<1>7. (ReferencesAreAlive /\ (accidents = {} => OneReleases) /\ FreedIsNotUsed)'
  BY DEF IInv, Bookkeeping, ReferencesAreAlive, Alive, OneReleases, Releasing, FreedIsNotUsed
<1> QED BY <1>1, <1>2, <1>3, <1>4, <1>5, <1>6, <1>7 DEF IInv, Bookkeeping

(* For any number of threads, mailboxes and addresses: counts equal the    *)
(* handles, who owns or activates a mailbox keeps it alive, without        *)
(* overlapping changes an address is changed in order, and no memory of a  *)
(* deleted mailbox is used before an accident.                             *)
THEOREM Invariance == Spec => []IInv
<1>1. Init => IInv
  BY StartIsWell
<1>2. IInv /\ [Next]_vars => IInv'
  BY StepKeeps, StutterKeeps DEF Next
<1> QED BY <1>1, <1>2, PTL DEF Spec

(* Counts are exact and freed memory is used only after an accident.       *)
THEOREM BookkeepingIsRight == Spec => []Bookkeeping
<1>1. IInv => Bookkeeping
  BY DEF IInv
<1> QED BY <1>1, Invariance, PTL

(* A handle keeps its mailbox alive and what is registered exists, unless  *)
(* a mailbox was released while registered or two threads changed one      *)
(* address at a time: no interleaving of find(), activate(), deactivate()  *)
(* and release() alone breaks it.                                          *)
THEOREM HandlesKeepAlive == Spec => []ReferencesAreAlive
<1>1. IInv => ReferencesAreAlive
  BY DEF IInv, Bookkeeping
<1> QED BY <1>1, Invariance, PTL

(* The active mailboxes are the registered ones wherever no thread is at   *)
(* work, as long as the changes of an address do not overlap, but for the  *)
(* addresses that the map took for another of their key.                   *)
THEOREM RegistryAgreesAlways == Spec => []RegistryAgrees
<1>1. ASSUME IInv, "overlapping_changes" \notin accidents,
             NEW m \in Mailboxes, Alive(m), address[m] \notin shadowed,
             \A t \in Threads : Changing(t) # address[m]
      PROVE  active[m] <=> Registered(m)
  <2>1. address[m] \in Addresses
    <3>1. Places /\ WellMade(m)
      BY <1>1, TypeSplits DEF IInv, Bookkeeping, MailboxesAreMade
    <3>2. address[m] # None
      BY <1>1, <3>1 DEF WellMade, Alive
    <3> QED BY <3>1, <3>2 DEF Places
  <2>2. Agrees(address[m])
    BY <1>1, <2>1 DEF IInv, Bookkeeping, ChangesAreOrderly
  <2> QED BY <1>1, <2>2 DEF Agrees, Registered
<1>2. IInv => RegistryAgrees
  BY <1>1 DEF RegistryAgrees
<1> QED BY <1>2, Invariance, PTL

==============================================================================
