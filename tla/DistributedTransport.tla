------------------------- MODULE DistributedTransport -------------------------
(***************************************************************************)
(* Messages between two processes (msgmgr/DistributedMailboxProxy.cpp and  *)
(* DistributedMailbox.cpp).  The threads of one process share a proxy, with*)
(* one stream, and post through it without a lock.  The reactor thread of  *)
(* the other process accepts connections and takes one message out of each *)
(* read.                                                                   *)
(*                                                                         *)
(* A message is its number, in the order in which post was called.  It is  *)
(* sent in parts: the first holds the message id, the second the rest of   *)
(* the contents, and a third the priority level, if it is not zero.  The   *)
(* connections of TCP, and the reactor of ACE, are external.               *)
(***************************************************************************)
EXTENDS Integers, Sequences, FiniteSets

CONSTANTS
    Poster,        \* threads that post through the proxy
    Urgent,        \* the messages with a priority level
    MaxPosts,      \* bound on the messages of a behaviour
    MaxConns,      \* bound on the connections made
    MaxFaults      \* bound on the connections that break, the calls that time out
                   \* or fail, and the deactivations of the active mailbox

Msg == 1 .. MaxPosts
Conn == 1 .. MaxConns
Closed == 0        \* the handle of a stream that is closed

ASSUME ConstantsAssumption ==
    /\ MaxPosts \in Nat /\ MaxConns \in Nat /\ MaxFaults \in Nat
    /\ Urgent \subseteq Msg

VARIABLES
    \* the proxy and the threads that post
    proxyActive,   \* the proxy has been activated
    clientStream,  \* the connection of clientStream_
    pc,            \* where each thread is in post
    msg,           \* the message each thread posts, 0 before the first
    handle,        \* the connection its send_n writes to
    part,          \* the part it writes next
    tries,         \* how often it has sent the message in this call
    \* the connections
    made,          \* how many were made
    units,         \* the parts in each connection, sent and not yet read
    open,          \* the connections the sender has not closed
    up,            \* the connections that work
    pending,       \* the connections not yet accepted
    \* the mailbox
    active,        \* the mailbox is active
    acceptor,      \* socketAcceptor_: "none" is NULL, "made" is an acceptor, and "lost"
                   \* is one that no longer has the descriptor it opened
    listening,     \* connections can be made
    registered,    \* the reactor calls handle_input for the acceptor
    connectorMap,  \* clientConnectorMap_, the connections that are read
    inbox,         \* the messages posted to the local queue
    \* bookkeeping
    owner,         \* the thread that posted each message, in order
    answeredOK,    \* the messages that post answered OK for
    sentInPart,    \* the messages a send of which failed after a part of it
    faults,
    accidents      \* what happened that the properties except

proxyVars == <<clientStream, pc, msg, handle, part, tries>>
linkVars == <<made, units, open, up, pending>>
boxVars == <<active, acceptor, listening, registered, connectorMap, inbox>>
postVars == <<owner, answeredOK, sentInPart>>
vars == <<proxyActive, proxyVars, linkVars, boxVars, postVars, faults, accidents>>

posted == Len(owner)
LastPart(n) == IF n \in Urgent THEN 3 ELSE 2
Parts(n) == [k \in 1 .. LastPart(n) |-> <<n, k>>]

\* How a message can be lost after OK; only the first one is recorded.
Loss == {"broken", "inactive", "refused", "handle_reused", "read_is_not_a_message"}
Accident == Loss \cup {"overtaken", "not_read"}
Lose(a) == accidents' = IF accidents \cap Loss = {} THEN accidents \cup {a} ELSE accidents
Received == [msg : Msg, whole : BOOLEAN, priority : {"none", "set", "wrong"}]

TypeOK ==
    /\ proxyActive \in BOOLEAN
    /\ clientStream \in (1 .. made) \cup {Closed}
    /\ pc \in [Poster -> {"idle", "begin", "send", "close", "connect", "failed"}]
    /\ msg \in [Poster -> Msg \cup {0}]
    /\ handle \in [Poster -> (1 .. made) \cup {Closed}]
    /\ part \in [Poster -> 1 .. 3]
    /\ tries \in [Poster -> 0 .. 2]
    /\ made \in 0 .. MaxConns
    /\ units \in [Conn -> Seq(Msg \X (1 .. 3))]
    /\ open \subseteq 1 .. made /\ up \subseteq 1 .. made
    /\ pending \in Seq(1 .. made)
    /\ active \in BOOLEAN /\ listening \in BOOLEAN /\ registered \in BOOLEAN
    /\ acceptor \in {"none", "made", "lost"}
    /\ connectorMap \subseteq 1 .. made
    /\ inbox \in Seq(Received)
    /\ owner \in Seq(Poster) /\ posted <= MaxPosts
    /\ answeredOK \subseteq 1 .. posted /\ sentInPart \subseteq 1 .. posted
    /\ faults \in 0 .. MaxFaults
    /\ accidents \subseteq Accident

Init ==
    /\ proxyActive = FALSE
    /\ clientStream = Closed
    /\ pc = [t \in Poster |-> "idle"]
    /\ msg = [t \in Poster |-> 0]
    /\ handle = [t \in Poster |-> Closed]
    /\ part = [t \in Poster |-> 1]
    /\ tries = [t \in Poster |-> 0]
    /\ made = 0
    /\ units = [c \in Conn |-> <<>>]
    /\ open = {} /\ up = {}
    /\ pending = <<>>
    /\ active = FALSE /\ acceptor = "none" /\ listening = FALSE /\ registered = FALSE
    /\ connectorMap = {}
    /\ inbox = <<>>
    /\ owner = <<>>
    /\ answeredOK = {} /\ sentInPart = {}
    /\ faults = 0
    /\ accidents = {}

-----------------------------------------------------------------------------
(* The proxy.                                                              *)

\* A connection to the acceptor.  It is made by the network, and stands before
\* the other side accepts it.
Connected ==
    /\ listening /\ made < MaxConns
    /\ made' = made + 1
    /\ clientStream' = made + 1
    /\ open' = open \cup {made + 1}
    /\ up' = up \cup {made + 1}
    /\ pending' = Append(pending, made + 1)
    /\ UNCHANGED units

\* activate, called by the find that created the proxy.  A connection that is
\* refused changes nothing.
ActivateProxy ==
    /\ ~proxyActive
    /\ Connected
    /\ proxyActive' = TRUE
    /\ UNCHANGED <<pc, msg, handle, part, tries, boxVars, postVars, faults, accidents>>

\* post of a new message, or of the one that the thread got ERROR for.
Post(t) ==
    /\ proxyActive
    /\ \/ /\ pc[t] \in {"idle", "failed"} /\ posted < MaxPosts
          /\ msg' = [msg EXCEPT ![t] = posted + 1]
          /\ owner' = Append(owner, t)
       \/ pc[t] = "failed" /\ UNCHANGED <<msg, owner>>
    /\ pc' = [pc EXCEPT ![t] = "begin"]
    /\ tries' = [tries EXCEPT ![t] = 0]
    /\ UNCHANGED <<proxyActive, clientStream, handle, part, linkVars, boxVars,
                   answeredOK, sentInPart, faults, accidents>>

\* send_n takes the handle of the stream once and writes all parts to it.
BeginSend(t) ==
    /\ pc[t] = "begin"
    /\ handle' = [handle EXCEPT ![t] = clientStream]
    /\ tries' = [tries EXCEPT ![t] = @ + 1]
    /\ pc' = [pc EXCEPT ![t] = "send"]
    /\ UNCHANGED <<proxyActive, clientStream, msg, part, linkVars, boxVars, postVars,
                   faults, accidents>>

\* The handle of a connection that another thread has closed may by now be that
\* of the connection made after it.
Target(t) == IF handle[t] \in open THEN {handle[t]} ELSE {clientStream} \ {Closed}

\* send_n returns, and with it go its handle and its place.
Leave(t, where) ==
    /\ pc' = [pc EXCEPT ![t] = where]
    /\ handle' = [handle EXCEPT ![t] = Closed]
    /\ part' = [part EXCEPT ![t] = 1]

\* mutated: after the last part the answer is ERROR
SendPartAnswersError(t) ==
    /\ pc[t] = "send"
    /\ \E c \in Target(t) :
          units' = IF c \in up THEN [units EXCEPT ![c] = Append(@, <<msg[t], part[t]>>)]
                   ELSE units
    /\ IF part[t] = LastPart(msg[t])
       THEN Leave(t, "failed") /\ tries' = [tries EXCEPT ![t] = 0]
       ELSE part' = [part EXCEPT ![t] = @ + 1] /\ UNCHANGED <<pc, handle, tries>>
    /\ IF handle[t] \in open THEN UNCHANGED accidents ELSE Lose("handle_reused")
    /\ UNCHANGED <<proxyActive, clientStream, msg, made, open, up, pending, boxVars,
                   owner, answeredOK, sentInPart, faults>>

\* A part is written.  A connection that broke still takes it and loses it.
\* After the last part the message is counted, deleted, and the answer is OK.
SendPart(t) ==
    /\ pc[t] = "send"
    /\ \E c \in Target(t) :
          units' = IF c \in up THEN [units EXCEPT ![c] = Append(@, <<msg[t], part[t]>>)]
                   ELSE units
    /\ IF part[t] = LastPart(msg[t])
       THEN /\ Leave(t, "idle")
            /\ msg' = [msg EXCEPT ![t] = 0]
            /\ tries' = [tries EXCEPT ![t] = 0]
            /\ answeredOK' = answeredOK \cup {msg[t]}
       ELSE /\ part' = [part EXCEPT ![t] = @ + 1]
            /\ UNCHANGED <<pc, msg, handle, tries, answeredOK>>
    /\ IF handle[t] \in open THEN UNCHANGED accidents ELSE Lose("handle_reused")
    /\ UNCHANGED <<proxyActive, clientStream, made, open, up, pending, boxVars, owner,
                   sentInPart, faults>>

\* send_n fails: the stream is closed, the connection broke, or the timeout
\* passed.  The first time the stream is opened again; the second time the
\* answer is ERROR and the message stays with the caller.
SendFails(t) ==
    /\ pc[t] = "send"
    /\ IF handle[t] \in open \cap up
       THEN faults < MaxFaults /\ faults' = faults + 1
       ELSE UNCHANGED faults
    /\ IF tries[t] = 1 THEN Leave(t, "close") /\ UNCHANGED tries
       ELSE Leave(t, "failed") /\ tries' = [tries EXCEPT ![t] = 0]
    /\ sentInPart' = IF part[t] > 1 THEN sentInPart \cup {msg[t]} ELSE sentInPart
    /\ UNCHANGED <<proxyActive, clientStream, msg, linkVars, boxVars,
                   owner, answeredOK, accidents>>

CloseStream(t) ==
    /\ pc[t] = "close"
    /\ open' = open \ {clientStream}
    /\ clientStream' = Closed
    /\ pc' = [pc EXCEPT ![t] = "connect"]
    /\ UNCHANGED <<proxyActive, msg, handle, part, tries, made, units, up, pending,
                   boxVars, postVars, faults, accidents>>

\* connect stores the new handle in the stream, over one that another thread
\* stored since this one closed it.  That connection stays open, and a thread
\* that took its handle goes on writing to it.
Reconnect(t) ==
    /\ pc[t] = "connect"
    /\ Connected
    /\ pc' = [pc EXCEPT ![t] = "begin"]
    /\ accidents' = IF \E c \in up : units[c] # <<>> \/ c \in open
                    THEN accidents \cup {"overtaken"} ELSE accidents
    /\ UNCHANGED <<proxyActive, msg, handle, part, tries, boxVars, postVars, faults>>

\* mutated: the answer is OK
ReconnectFailsOK(t) ==
    /\ pc[t] = "connect"
    /\ ~listening \/ made = MaxConns
    /\ pc' = [pc EXCEPT ![t] = "idle"]
    /\ msg' = [msg EXCEPT ![t] = 0]
    /\ tries' = [tries EXCEPT ![t] = 0]
    /\ answeredOK' = answeredOK \cup {msg[t]}
    /\ UNCHANGED <<proxyActive, clientStream, handle, part, linkVars, boxVars, owner,
                   sentInPart, faults, accidents>>

\* The connection is refused, and the answer is ERROR.
ReconnectFails(t) ==
    /\ pc[t] = "connect"
    /\ ~listening \/ made = MaxConns
    /\ pc' = [pc EXCEPT ![t] = "failed"]
    /\ UNCHANGED <<proxyActive, clientStream, msg, handle, part, tries, linkVars, boxVars,
                   postVars, faults, accidents>>

\* A connection breaks, and what is in it is lost.
Break(c) ==
    /\ c \in up /\ faults < MaxFaults
    /\ c \in open \/ units[c] # <<>>
    /\ faults' = faults + 1
    /\ up' = up \ {c}
    /\ units' = [units EXCEPT ![c] = <<>>]
    /\ Lose("broken")
    /\ UNCHANGED <<proxyActive, proxyVars, made, open, pending, boxVars, postVars>>

-----------------------------------------------------------------------------
(* The mailbox.                                                            *)

\* activate registers the acceptor with the reactor the first time only.  When
\* it is opened again the reactor may still know it, if it has the number it
\* had before.
Activate ==
    /\ ~active /\ ~listening
    /\ active' = TRUE
    /\ acceptor' = "made"
    /\ listening' = TRUE
    /\ registered' \in IF acceptor = "none" THEN {TRUE} ELSE {registered, FALSE}
    /\ accidents' = IF registered' THEN accidents ELSE accidents \cup {"not_read"}
    /\ UNCHANGED <<proxyActive, proxyVars, linkVars, connectorMap, inbox,
                   postVars, faults>>

\* activate answers ERROR and leaves the local mailbox inactive: the acceptor
\* cannot be registered the first time, which leaves it open if it was opened,
\* or it cannot be opened again.  The address of one that was left open is in
\* use, and its descriptor is lost in the attempt.
ActivateFails ==
    /\ ~active
    /\ \/ /\ listening
          /\ acceptor' = "lost"
          /\ UNCHANGED <<listening, faults, accidents>>
       \/ /\ ~listening /\ faults < MaxFaults
          /\ faults' = faults + 1
          /\ acceptor' = "made"
          /\ listening' \in IF acceptor = "none" THEN BOOLEAN ELSE {FALSE}
          /\ accidents' = IF listening' THEN accidents \cup {"not_read"} ELSE accidents
    /\ UNCHANGED <<proxyActive, proxyVars, linkVars, active, registered, connectorMap,
                   inbox, postVars>>

\* deactivate closes the acceptor, and with it the connections it has not
\* accepted, and leaves the others.  An acceptor that a failed activate left
\* open is closed as well, while it has its descriptor.
Deactivate ==
    /\ IF active THEN faults < MaxFaults /\ faults' = faults + 1
       ELSE listening /\ acceptor = "made" /\ UNCHANGED faults
    /\ active' = FALSE
    /\ listening' = FALSE
    /\ up' = up \ {pending[i] : i \in DOMAIN pending}
    /\ units' = [c \in Conn |-> IF c \in up' THEN units[c] ELSE <<>>]
    /\ pending' = <<>>
    /\ Lose("inactive")
    /\ UNCHANGED <<proxyActive, proxyVars, made, open, acceptor, registered,
                   connectorMap, inbox, postVars>>

\* The reactor finds that the handle of the acceptor is not valid.
NoticeClosed ==
    /\ registered /\ ~listening
    /\ registered' = FALSE
    /\ UNCHANGED <<proxyActive, proxyVars, linkVars, active, acceptor, listening,
                   connectorMap, inbox, postVars, faults, accidents>>

\* mutated: the acceptor is not called again
AcceptOnce ==
    /\ registered /\ listening
    /\ pending # <<>>
    /\ connectorMap' = connectorMap \cup {Head(pending)}
    /\ pending' = Tail(pending)
    /\ registered' = FALSE
    /\ UNCHANGED <<proxyActive, proxyVars, made, units, open, up, active, acceptor,
                   listening, inbox, postVars, faults, accidents>>

\* handle_input for the acceptor.  If accept fails, for one because no descriptor
\* is left, the answer is ERROR, on which the reactor removes the handler.  A
\* connection that cannot be registered is kept and not read.
Accept ==
    /\ registered /\ listening
    /\ pending # <<>>
    /\ \/ /\ connectorMap' = connectorMap \cup {Head(pending)}
          /\ pending' = Tail(pending)
          /\ UNCHANGED <<registered, faults, accidents>>
       \/ /\ faults < MaxFaults /\ faults' = faults + 1
          /\ \/ registered' = FALSE /\ UNCHANGED pending
             \/ pending' = Tail(pending) /\ UNCHANGED registered
          /\ accidents' = accidents \cup {"not_read"}
          /\ UNCHANGED connectorMap
    /\ UNCHANGED <<proxyActive, proxyVars, made, units, open, up, active, acceptor,
                   listening, inbox, postVars>>

\* What recreateMessageFromBuffer and the test for a priority level make of the
\* parts of one read: one message, however many there were.  A read that does
\* not begin with the first part of a message begins with some number for a
\* message id; what is made of it, if anything, is a message nobody posted, and
\* left out here.
Decoded(s) ==
    IF s[1][2] # 1 THEN <<>>
    ELSE <<[msg |-> s[1][1],
            whole |-> Len(s) > 1 /\ s[2] = <<s[1][1], 2>>,
            priority |-> IF Len(s) < 3 THEN "none"
                         ELSE IF s[3] = <<s[1][1], 3>> THEN "set" ELSE "wrong"]>>

\* mutated: the message is put at the head
PutFirst(decoded) == inbox' = IF active THEN decoded \o inbox ELSE inbox

\* The post to the local queue, which answers ERROR if the mailbox is not active.
Put(decoded) == inbox' = IF active THEN inbox \o decoded ELSE inbox

\* The local queue is full, or the pool of its wrappers is at its end.
PostRefused ==
    /\ active /\ faults < MaxFaults
    /\ faults' = faults + 1
    /\ Lose("refused")
    /\ UNCHANGED inbox

\* handle_input for a connection with data: one recv, one message, and a post,
\* whose ERROR is logged.
Receive(c) ==
    /\ c \in connectorMap
    /\ \E k \in DOMAIN units[c] :
         LET s == SubSeq(units[c], 1, k) IN
         /\ units' = [units EXCEPT ![c] = SubSeq(@, k + 1, Len(@))]
         /\ \/ /\ Put(Decoded(s))
               /\ IF s = Parts(s[1][1]) THEN UNCHANGED accidents
                  ELSE Lose("read_is_not_a_message")
               /\ UNCHANGED faults
            \/ Decoded(s) # <<>> /\ PostRefused
    /\ UNCHANGED <<proxyActive, proxyVars, made, open, up, pending, active, acceptor,
                   listening, registered, connectorMap, postVars>>

\* handle_input for a connection that has ended.  The stream object is deleted,
\* which does not close its descriptor.
EndOfStream(c) ==
    /\ c \in connectorMap
    /\ units[c] = <<>> /\ c \notin up \cap open
    /\ connectorMap' = connectorMap \ {c}
    /\ up' = up \ {c}
    /\ UNCHANGED <<proxyActive, proxyVars, made, units, open, pending, active,
                   acceptor, listening, registered, inbox, postVars, faults, accidents>>

PostStep(t) == BeginSend(t) \/ SendPart(t) \/ SendFails(t) \/ CloseStream(t)
                 \/ Reconnect(t) \/ ReconnectFails(t)
ReactorStep == Accept \/ \E c \in Conn : Receive(c) \/ EndOfStream(c)

Next ==
    \/ ActivateProxy
    \/ \E t \in Poster : Post(t) \/ PostStep(t)
    \/ \E c \in Conn : Break(c)
    \/ Activate \/ ActivateFails \/ Deactivate \/ NoticeClosed
    \/ ReactorStep

Spec == Init /\ [][Next]_vars

\* The thread in post and the reactor thread run; a connection need not break
\* and a message need not be posted.
FairSpec == /\ Spec
            /\ \A t \in Poster : WF_vars(PostStep(t))
            /\ WF_vars(ReactorStep)

-----------------------------------------------------------------------------
(* Properties.                                                             *)

Intact(m) == m.whole /\ m.priority = IF m.msg \in Urgent THEN "set" ELSE "none"
Delivered == {inbox[i].msg : i \in {j \in DOMAIN inbox : Intact(inbox[j])}}
Without(set) == accidents \cap set = {}
Holds(c, n, k) == \E i \in DOMAIN units[c] : units[c][i] = <<n, k>>

\* A message is put in the mailbox once, also when the stream had to be opened
\* again, when the caller posts it again after ERROR, and whatever the other
\* threads do to the stream, unless a send of it failed after some of its parts
\* were written (DistributedMailboxProxy.cpp:128-182).
AtMostOnce ==
    \A i, j \in DOMAIN inbox :
        i # j /\ inbox[i].msg = inbox[j].msg
        => inbox[i].msg \in sentInPart

\* A message that post answered OK for is in the mailbox as it was posted, or all
\* of its parts are in one connection that works, unless one of the accidents
\* below came before: OK means no more than that.
OKIsAccounted ==
    Without(Loss) =>
        \A n \in answeredOK :
            \/ n \in Delivered
            \/ \E c \in up : \A k \in 1 .. LastPart(n) : Holds(c, n, k)

\* The messages of one thread arrive in the order in which it posted them, unless
\* a connection was opened while another still held parts or could be written.
OrderOfOneThread ==
    Without({"overtaken"}) =>
        \A i, j \in DOMAIN inbox :
            i < j /\ owner[inbox[i].msg] = owner[inbox[j].msg]
            => inbox[i].msg <= inbox[j].msg

\* The messages that post answered OK for are put in the mailbox in the end,
\* unless one of the accidents happened: time and again there is none under way.
OKIsDelivered ==
    []<>(\/ answeredOK \subseteq Delivered
         \/ ~Without(Loss \cup {"not_read"}))

-----------------------------------------------------------------------------
(* Why they hold.                                                          *)

\* A thread has a message from the beginning of a post until OK, and writes its
\* parts in one send.
PostsAreOwn ==
    \A t \in Poster :
        /\ msg[t] = 0 <=> pc[t] = "idle"
        /\ msg[t] # 0 => msg[t] <= posted /\ owner[msg[t]] = t
        /\ pc[t] = "send" => part[t] <= LastPart(msg[t])
        /\ pc[t] # "send" => part[t] = 1
        /\ pc[t] \in {"begin", "close", "connect"} => tries[t] < 2
        /\ pc[t] # "idle" => proxyActive

\* What is stored in the stream is open, and only what works holds parts.  Without
\* a loss what is open works.
StreamIsOpen ==
    /\ clientStream # Closed => clientStream \in open
    /\ proxyActive \/ made = 0
    /\ registered /\ listening => active
    /\ registered => acceptor # "none"
    /\ \A c \in Conn : units[c] # <<>> => c \in up
    /\ Without(Loss) => open \subseteq up /\ (active \/ connectorMap = {})

\* What is on the way was posted, and of a thread it is nothing newer than the
\* message the thread is at.
NothingIsNew ==
    /\ \A c \in Conn : \A i \in DOMAIN units[c] : units[c][i][1] <= posted
    /\ \A i \in DOMAIN inbox : inbox[i].msg <= posted
    /\ \A t \in Poster : msg[t] # 0 =>
          /\ \A c \in Conn : \A i \in DOMAIN units[c] :
                owner[units[c][i][1]] = t => units[c][i][1] <= msg[t]
          /\ \A i \in DOMAIN inbox : owner[inbox[i].msg] = t => inbox[i].msg <= msg[t]

\* Unless a send of it failed in between, the first part of a message was written
\* once, and not before the thread has written it.
FirstIsSent(n) == \E c \in Conn : Holds(c, n, 1)
Unsent(t) == pc[t] = "send" => part[t] = 1
FirstPartsAreSingle ==
    \A n \in Msg \ sentInPart :
        /\ \A c, d \in Conn : \A i \in DOMAIN units[c], j \in DOMAIN units[d] :
              units[c][i] = <<n, 1>> /\ units[d][j] = <<n, 1>> => c = d /\ i = j
        /\ \A j \in DOMAIN inbox : inbox[j].msg = n => ~FirstIsSent(n)
        /\ \A t \in Poster : msg[t] = n /\ Unsent(t) =>
              ~FirstIsSent(n) /\ \A j \in DOMAIN inbox : inbox[j].msg # n

\* Unless overtaken, only the newest connection holds parts or can be written, and
\* it holds nothing of a thread that is older than what has arrived.
OnlyNewest ==
    Without({"overtaken"}) => \A c \in up : units[c] # <<>> \/ c \in open => c = made
Follows(n, k) == owner[n] = owner[k] => n <= k
OrderIsKept ==
    Without({"overtaken"}) =>
        \A c \in Conn : \A i \in DOMAIN units[c] :
            /\ \A j \in DOMAIN units[c] : i < j => Follows(units[c][i][1], units[c][j][1])
            /\ \A j \in DOMAIN inbox : Follows(inbox[j].msg, units[c][i][1])

\* Without a loss an open connection holds the parts that a thread has written to
\* it of a message that is not delivered.
PartsAreKept ==
    Without(Loss) =>
        \A t \in Poster : pc[t] = "send" /\ handle[t] \in open =>
            \A k \in 1 .. part[t] - 1 : msg[t] \in Delivered \/ Holds(handle[t], msg[t], k)

\* What is on the way and what has arrived, through every interleaving: all of
\* it was posted, nothing twice but what a failed send wrote in part, and the
\* parts of an open connection are kept in their order.
TransportInv ==
    /\ TypeOK
    /\ PostsAreOwn
    /\ StreamIsOpen
    /\ NothingIsNew
    /\ FirstPartsAreSingle
    /\ AtMostOnce
    /\ OnlyNewest
    /\ OrderIsKept
    /\ PartsAreKept

\* The inductive invariant of TransportProofs.
IInv == TransportInv /\ OrderOfOneThread /\ OKIsAccounted
===============================================================================
