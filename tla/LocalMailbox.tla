---------------------------- MODULE LocalMailbox ----------------------------
(* A mailbox within one process (src/platform/msgmgr/LocalMailbox.cpp),    *)
(* read through its MailboxOwnerHandle.  Producers post, consumers (the    *)
(* threads of a MailboxProcessor, or callers of getMessageNonBlocking)     *)
(* read, and the owner deactivates and activates.  Every access to the ACE *)
(* message queue, to the manual event and to active_ is a step of its own. *)
EXTENDS Integers, Sequences, FiniteSets

CONSTANTS
    Producers, Consumers,
    Messages,
    Priority,           \* Priority[m] is what m's getPriority() answers
    QueueLimit,         \* entries below the ACE queue's high water mark
    MaxDeactivations,   \* bound: how often the owner deactivates
    None

ASSUME ThreadAssumption == /\ Producers \cap Consumers = {}
                           /\ None \notin Producers \cup Consumers \cup Messages
ASSUME PriorityAssumption == Priority \in [Messages -> Nat]
ASSUME LimitAssumption == QueueLimit \in Nat /\ MaxDeactivations \in Nat

VARIABLES
    active,             \* active_
    queueOpen,          \* the ACE queue is activated
    queue,              \* the ACE queue: [message, priority] from head to tail
    event,              \* manualEvent_ is signaled
    getMessageMutex,    \* the consumer that holds the handle's mutex, or None
    wrapperPool,        \* the pool of MessageBlockWrappers: "intact", or
                        \* "raced" by two threads, which nothing is said of
    pc,                 \* where each producer and consumer is
    ownerPc,            \* where the owner is
    posting,            \* the message a producer is posting, or None
    answer,             \* how a consumer's last call ended
    \* the history the properties speak of:
    enqueuedBefore,     \* pairs of queued messages, the first enqueued earlier
    accepted, refused,  \* messages whose post answered OK or ERROR
    delivered,          \* messages a consumer has got
    overlapped,         \* consumers during whose call the mailbox was inactive
    deactivations       \* how often deactivate has begun

mailbox == <<active, queueOpen, queue, event>>
owner   == <<ownerPc, deactivations>>
outcome == <<enqueuedBefore, accepted, refused, delivered>>
vars == <<mailbox, owner, outcome, getMessageMutex, wrapperPool, pc, posting,
          answer, overlapped>>

Threads == Producers \cup Consumers
Queued == {queue[i].message : i \in DOMAIN queue}

(* createMailbox returns the handle of an activated mailbox.               *)
Init ==
    /\ active = TRUE
    /\ queueOpen = TRUE
    /\ queue = <<>>
    /\ event = FALSE
    /\ getMessageMutex = None
    /\ wrapperPool = "intact"
    /\ pc = [t \in Threads |-> "idle"]
    /\ ownerPc = "idle"
    /\ posting = [p \in Producers |-> None]
    /\ answer = [c \in Consumers |-> "none"]
    /\ enqueuedBefore = {}
    /\ accepted = {} /\ refused = {} /\ delivered = {}
    /\ overlapped = {}
    /\ deactivations = 0

Goto(t, label) == pc' = [pc EXCEPT ![t] = label]

-----------------------------------------------------------------------------
(* post(): refused at once while inactive.  bound: each message is posted  *)
(* once.                                                                   *)
Unposted(m) == m \notin accepted \cup refused /\ \A p \in Producers : posting[p] # m

PostInactive(p, m) ==
    /\ pc[p] = "idle" /\ Unposted(m)
    /\ ~active
    /\ refused' = refused \cup {m}
    /\ UNCHANGED <<mailbox, owner, enqueuedBefore, accepted, delivered, pc, posting,
                   getMessageMutex, wrapperPool, answer, overlapped>>

(* All mailboxes of the process share one pool of wrappers.  OPM_RESERVE   *)
(* takes the pool's mutex and OPM_RELEASE does not, so a reserve or a      *)
(* release may meet a release of any other thread half done, and leave the *)
(* lists of the pool broken.  That is undefined: the model stops there.    *)
PoolIsUsed == wrapperPool' \in {"intact", "raced"}

(* The pool may grow, so OPM_RESERVE answers a wrapper.                    *)
PostReserve(p, m) ==
    /\ pc[p] = "idle" /\ Unposted(m)
    /\ active
    /\ PoolIsUsed
    /\ posting' = [posting EXCEPT ![p] = m]
    /\ Goto(p, "enqueue")
    /\ UNCHANGED <<mailbox, owner, outcome, getMessageMutex, answer, overlapped>>

(* ACE enqueue_prio: behind every entry of at least this priority.  They   *)
(* come first in the queue, as DeliveryOrder states.                       *)
EnqueuePrio(q, entry) ==
    LET place == Cardinality({i \in DOMAIN q : q[i].priority >= entry.priority})
    IN  SubSeq(q, 1, place) \o <<entry>> \o SubSeq(q, place + 1, Len(q))

(* The default timeout is zero: a full queue refuses at once.              *)
QueueAccepts == queueOpen /\ Len(queue) < QueueLimit

PostEnqueueUnprioritized(p) ==  \* mutated: the block keeps the default priority
    /\ pc[p] = "enqueue"
    /\ QueueAccepts
    /\ queue' = EnqueuePrio(queue, [message |-> posting[p], priority |-> 0])
    /\ enqueuedBefore' = enqueuedBefore \cup (Queued \X {posting[p]})
    /\ Goto(p, "signal")
    /\ UNCHANGED <<active, queueOpen, event, owner, accepted, refused, delivered,
                   getMessageMutex, wrapperPool, posting, answer, overlapped>>

PostEnqueueUnsignaled(p) ==  \* mutated: nothing is signaled
    /\ pc[p] = "enqueue"
    /\ QueueAccepts
    /\ queue' = EnqueuePrio(queue, [message |-> posting[p],
                                    priority |-> Priority[posting[p]]])
    /\ enqueuedBefore' = enqueuedBefore \cup (Queued \X {posting[p]})
    /\ accepted' = accepted \cup {posting[p]}
    /\ posting' = [posting EXCEPT ![p] = None]
    /\ Goto(p, "idle")
    /\ UNCHANGED <<active, queueOpen, event, owner, refused, delivered,
                   getMessageMutex, wrapperPool, answer, overlapped>>

PostEnqueue(p) ==
    /\ pc[p] = "enqueue"
    /\ QueueAccepts
    /\ queue' = EnqueuePrio(queue, [message |-> posting[p],
                                    priority |-> Priority[posting[p]]])
    /\ enqueuedBefore' = enqueuedBefore \cup (Queued \X {posting[p]})
    /\ Goto(p, "signal")
    /\ UNCHANGED <<active, queueOpen, event, owner, accepted, refused, delivered,
                   getMessageMutex, wrapperPool, posting, answer, overlapped>>

(* The wrapper of a message the queue refuses is not released.             *)
PostFails(p) ==
    /\ pc[p] = "enqueue"
    /\ ~QueueAccepts
    /\ refused' = refused \cup {posting[p]}
    /\ posting' = [posting EXCEPT ![p] = None]
    /\ Goto(p, "idle")
    /\ UNCHANGED <<mailbox, owner, enqueuedBefore, accepted, delivered,
                   getMessageMutex, wrapperPool, answer, overlapped>>

PostSignal(p) ==
    /\ pc[p] = "signal"
    /\ event' = TRUE
    /\ accepted' = accepted \cup {posting[p]}
    /\ posting' = [posting EXCEPT ![p] = None]
    /\ Goto(p, "idle")
    /\ UNCHANGED <<active, queueOpen, queue, owner, enqueuedBefore, refused, delivered,
                   getMessageMutex, wrapperPool, answer, overlapped>>

-----------------------------------------------------------------------------
(* getMessage() and getMessageNonBlocking() of the handle take its mutex   *)
(* and hold it to the end of the mailbox's own call.  A caller that waits  *)
(* for the mutex has not begun.                                            *)
BeginUnlocked(c, label) ==  \* mutated: no getMessageMutex_
    /\ pc[c] = "idle"
    /\ Goto(c, label)
    /\ answer' = [answer EXCEPT ![c] = "none"]
    /\ overlapped' = IF active /\ queueOpen THEN overlapped \ {c}
                     ELSE overlapped \cup {c}
    /\ UNCHANGED <<mailbox, owner, outcome, getMessageMutex, wrapperPool, posting>>

Begin(c, label) ==
    /\ pc[c] = "idle"
    /\ getMessageMutex = None
    /\ getMessageMutex' = c
    /\ Goto(c, label)
    /\ answer' = [answer EXCEPT ![c] = "none"]
    /\ overlapped' = IF active /\ queueOpen THEN overlapped \ {c}
                     ELSE overlapped \cup {c}
    /\ UNCHANGED <<mailbox, owner, outcome, wrapperPool, posting>>

GetMessage(c)            == Begin(c, "checkActive")
GetMessageNonBlocking(c) == Begin(c, "tryActive")

Return(c, value) ==
    /\ answer' = [answer EXCEPT ![c] = value]
    /\ overlapped' = IF value = "NULL" THEN overlapped ELSE overlapped \ {c}
    /\ getMessageMutex' = None
    /\ Goto(c, "idle")

(* isActive() is tested first in both calls, and again in getMessage when  *)
(* the queue is not empty: what comes after each test, if it succeeds.     *)
AfterTest == [checkActive |-> "checkEmpty", tryActive |-> "tryEmpty",
              recheckActive |-> "dequeue"]

GetInactive(c) ==
    /\ pc[c] \in DOMAIN AfterTest
    /\ ~active
    /\ Return(c, "NULL")
    /\ UNCHANGED <<mailbox, owner, outcome, wrapperPool, posting>>

GetActive(c) ==
    /\ pc[c] \in DOMAIN AfterTest
    /\ active
    /\ Goto(c, AfterTest[pc[c]])
    /\ UNCHANGED <<mailbox, owner, outcome, getMessageMutex, wrapperPool, posting,
                   answer, overlapped>>

(* The loop of getMessage: while the queue is empty, wait for the event    *)
(* and reset it.                                                           *)
GetEmpty(c) ==
    /\ pc[c] = "checkEmpty"
    /\ Goto(c, IF queue = <<>> THEN "wait" ELSE "recheckActive")
    /\ UNCHANGED <<mailbox, owner, outcome, getMessageMutex, wrapperPool, posting,
                   answer, overlapped>>

GetWait(c) ==
    /\ pc[c] = "wait"
    /\ event
    /\ Goto(c, "reset")
    /\ UNCHANGED <<mailbox, owner, outcome, getMessageMutex, wrapperPool, posting,
                   answer, overlapped>>

GetReset(c) ==
    /\ pc[c] = "reset"
    /\ event' = FALSE
    /\ Goto(c, "checkEmpty")
    /\ UNCHANGED <<active, queueOpen, queue, owner, outcome, getMessageMutex,
                   wrapperPool, posting, answer, overlapped>>

TryEmpty(c) ==
    /\ pc[c] = "tryEmpty"
    /\ IF queue = <<>> THEN Return(c, "nothing")
       ELSE Goto(c, "dequeue") /\ UNCHANGED <<answer, getMessageMutex, overlapped>>
    /\ UNCHANGED <<mailbox, owner, outcome, wrapperPool, posting>>

(* dequeue_head waits inside ACE while the queue is open and empty.        *)
GetDequeue(c) ==
    /\ pc[c] = "dequeue"
    /\ queueOpen
    /\ queue # <<>>
    /\ queue' = Tail(queue)
    /\ delivered' = delivered \cup {Head(queue).message}
    /\ enqueuedBefore' = {pair \in enqueuedBefore : pair[1] # Head(queue).message}
    /\ PoolIsUsed
    /\ Return(c, "message")
    /\ UNCHANGED <<active, queueOpen, event, owner, accepted, refused, posting>>

GetDequeueFails(c) ==
    /\ pc[c] = "dequeue"
    /\ ~queueOpen
    /\ Return(c, "NULL")
    /\ UNCHANGED <<mailbox, owner, outcome, wrapperPool, posting>>

-----------------------------------------------------------------------------
(* deactivate() and activate() through the owner's handle.  The event is   *)
(* not signaled by either.                                                 *)
Deactivate ==
    /\ ownerPc = "idle" /\ active
    /\ deactivations < MaxDeactivations
    /\ deactivations' = deactivations + 1
    /\ queueOpen' = FALSE
    /\ overlapped' = overlapped \cup {c \in Consumers : pc[c] # "idle"}
    /\ ownerPc' = "setInactive"
    /\ UNCHANGED <<active, queue, event, outcome, getMessageMutex, wrapperPool,
                   pc, posting, answer>>

SetInactive ==
    /\ ownerPc = "setInactive"
    /\ active' = FALSE
    /\ ownerPc' = "idle"
    /\ UNCHANGED <<queueOpen, queue, event, deactivations, outcome, getMessageMutex,
                   wrapperPool, pc, posting, answer, overlapped>>

Activate ==
    /\ ownerPc = "idle" /\ ~active
    /\ queueOpen' = TRUE
    /\ ownerPc' = "setActive"
    /\ UNCHANGED <<active, queue, event, deactivations, outcome, getMessageMutex,
                   wrapperPool, pc, posting, answer, overlapped>>

SetActive ==
    /\ ownerPc = "setActive"
    /\ active' = TRUE
    /\ ownerPc' = "idle"
    /\ UNCHANGED <<queueOpen, queue, event, deactivations, outcome, getMessageMutex,
                   wrapperPool, pc, posting, answer, overlapped>>

-----------------------------------------------------------------------------
Produce(p) ==
    \/ PostEnqueue(p)
    \/ PostFails(p)
    \/ PostSignal(p)

Consume(c) ==
    \/ GetInactive(c)
    \/ GetActive(c)
    \/ GetEmpty(c)
    \/ GetWait(c)
    \/ GetReset(c)
    \/ TryEmpty(c)
    \/ GetDequeue(c)
    \/ GetDequeueFails(c)

Own == Deactivate \/ SetInactive \/ Activate \/ SetActive

Step ==
    \/ \E p \in Producers : \/ Produce(p)
                            \/ \E m \in Messages : PostInactive(p, m) \/ PostReserve(p, m)
    \/ \E c \in Consumers : \/ Consume(c)
                            \/ GetMessage(c)
                            \/ GetMessageNonBlocking(c)
    \/ Own

PoolIsIntact == wrapperPool = "intact"

Next == PoolIsIntact /\ Step

Spec == Init /\ [][Next]_vars

(* A thread inside a call keeps running; a consumer calls again, as        *)
(* processMailboxInternal does after every message; an owner finishes the  *)
(* call it has begun.                                                      *)
Fairness ==
    /\ \A p \in Producers : WF_vars(PoolIsIntact /\ Produce(p))
    /\ \A c \in Consumers : WF_vars(PoolIsIntact /\ (Consume(c) \/ GetMessage(c)))
    /\ WF_vars(PoolIsIntact /\ (SetInactive \/ SetActive))

FairSpec == Spec /\ Fairness

-----------------------------------------------------------------------------
Labels == {"idle", "enqueue", "signal", "checkActive", "checkEmpty", "wait",
           "reset", "recheckActive", "dequeue", "tryActive", "tryEmpty"}
Entries == [message : Messages, priority : Nat]

TypeOK ==
    /\ active \in BOOLEAN /\ queueOpen \in BOOLEAN /\ event \in BOOLEAN
    /\ queue \in Seq(Entries)
    /\ getMessageMutex \in Consumers \cup {None}
    /\ wrapperPool \in {"intact", "raced"}
    /\ pc \in [Threads -> Labels]
    /\ ownerPc \in {"idle", "setInactive", "setActive"}
    /\ posting \in [Producers -> Messages \cup {None}]
    /\ answer \in [Consumers -> {"none", "message", "nothing", "NULL"}]
    /\ enqueuedBefore \subseteq Messages \X Messages
    /\ accepted \subseteq Messages /\ refused \subseteq Messages
    /\ delivered \subseteq Messages
    /\ overlapped \subseteq Consumers
    /\ deactivations \in Nat

(* The wait and reset of getMessage and the signal of post lose no wakeup: *)
(* a reader waits for an unsignaled event on a queue that is not empty     *)
(* only while the producer of an entry has still to signal.                *)
NoLostWakeup ==
    \A c \in Consumers :
        (pc[c] = "wait" /\ ~event /\ queue # <<>>) =>
            \E p \in Producers : pc[p] = "signal"

(* The next message is the oldest of the most urgent ones, whatever the    *)
(* order in which producers and consumers run (LocalMailbox.cpp:262-264).  *)
DeliveryOrder ==
    \A i, j \in DOMAIN queue : i < j =>
        LET m == queue[i].message
            n == queue[j].message
        IN  \/ Priority[m] > Priority[n]
            \/ Priority[m] = Priority[n] /\ <<m, n>> \in enqueuedBefore

(* post() answers the truth across deactivations and a full queue: an      *)
(* accepted message is queued or was delivered, once, and a refused one is *)
(* neither, so its poster may free it.                                     *)
AnswersAreTrue ==
    /\ accepted \subseteq Queued \cup delivered
    /\ refused \cap (Queued \cup delivered) = {}
    /\ Queued \cap delivered = {}
    /\ \A i, j \in DOMAIN queue : i # j => queue[i].message # queue[j].message

(* getMessage() answers NULL only if the mailbox was inactive at some time *)
(* during the call, so a MailboxProcessor never stops by mistake.          *)
NullOnlyIfDeactivated ==
    \A c \in Consumers : answer[c] = "NULL" => c \in overlapped

(* A queued message reaches a reader, unless the owner deactivates or the  *)
(* pool of the wrappers is broken.                                         *)
QueuedIsDelivered ==
    \A m \in Messages :
        m \in Queued ~> (m \in delivered \/ deactivations > 0 \/ ~PoolIsIntact)

-----------------------------------------------------------------------------
(* Why those hold.  One reader at a time is inside the mailbox, so nobody  *)
(* else resets the event it waits for.                                     *)
OneReaderAtATime ==
    \A c \in Consumers : pc[c] # "idle" <=> getMessageMutex = c

(* A producer has its message until its post answers.                      *)
PostingHasMessage ==
    \A p \in Producers : pc[p] \in {"enqueue", "signal"} => posting[p] \in Messages

(* The queue closes before active_ is cleared, and a reader whose call     *)
(* meets either knows of it.                                               *)
InactivityIsSeen ==
    /\ ownerPc = "setInactive" => ~queueOpen
    /\ \A c \in Consumers :
          (pc[c] # "idle" /\ (~active \/ ~queueOpen)) => c \in overlapped

(* Every entry has its message's priority, and every message in the queue  *)
(* or read was accepted, or its post has yet to answer.                    *)
EntriesAreTrue ==
    /\ \A i \in DOMAIN queue : queue[i].priority = Priority[queue[i].message]
    /\ \A m \in Queued \cup delivered :
          m \in accepted \/ \E p \in Producers : pc[p] = "signal" /\ posting[p] = m

(* A message has one post: nothing is known of it before it is enqueued,   *)
(* and no answer is before it is signaled.                                 *)
PostsAreSeparate ==
    \A p \in Producers :
        /\ pc[p] \in {"enqueue", "signal"} => posting[p] \notin accepted \cup refused
        /\ pc[p] = "enqueue" => posting[p] \notin Queued \cup delivered
        /\ pc[p] = "signal" => posting[p] \in Queued \cup delivered
        /\ pc[p] \notin {"enqueue", "signal"} => posting[p] = None
        /\ \A other \in Producers \ {p} : posting[p] # None => posting[p] # posting[other]

Delivering == DeliveryOrder /\ AnswersAreTrue /\ EntriesAreTrue /\ PostsAreSeparate

(* The inductive invariant behind the theorems of LocalMailboxProofs.      *)
IInv ==
    /\ TypeOK
    /\ OneReaderAtATime
    /\ PostingHasMessage
    /\ InactivityIsSeen
    /\ NoLostWakeup
    /\ NullOnlyIfDeactivated
    /\ Delivering

(* Readers and posters see the mailbox that module Mailbox describes.      *)
Promise == INSTANCE Mailbox WITH waiting <- Queued
ImplementsMailbox == Promise!Spec
=============================================================================
