------------------------------- MODULE Mailbox -------------------------------
(* What a mailbox promises to those who post to it and read from it         *)
(* (MailboxHandle.h, MailboxOwnerHandle.h): a message it answers OK for is  *)
(* delivered once at most, the most urgent first and in the order of their  *)
(* posts if they are equally so, and one it answers ERROR for is not.       *)
(* A message may be read before its post has answered.                      *)
EXTENDS Integers

CONSTANTS
    Messages,
    Priority            \* of each message

VARIABLES
    waiting,            \* the messages in the mailbox
    enqueuedBefore,     \* pairs of them, the first put in earlier
    accepted, refused,  \* messages whose post answered OK or ERROR
    delivered           \* messages that were read

vars == <<waiting, enqueuedBefore, accepted, refused, delivered>>

Init ==
    /\ waiting = {}
    /\ enqueuedBefore = {}
    /\ accepted = {} /\ refused = {}
    /\ delivered = {}

Unanswered(m) == m \notin accepted \cup refused

Put(m) ==
    /\ Unanswered(m)
    /\ m \notin waiting \cup delivered
    /\ waiting' = waiting \cup {m}
    /\ enqueuedBefore' = enqueuedBefore \cup (waiting \X {m})
    /\ UNCHANGED <<accepted, refused, delivered>>

Accept(m) ==
    /\ Unanswered(m)
    /\ m \in waiting \cup delivered
    /\ accepted' = accepted \cup {m}
    /\ UNCHANGED <<waiting, enqueuedBefore, refused, delivered>>

Refuse(m) ==
    /\ Unanswered(m)
    /\ m \notin waiting \cup delivered
    /\ refused' = refused \cup {m}
    /\ UNCHANGED <<waiting, enqueuedBefore, accepted, delivered>>

IsNext(m) ==
    \A n \in waiting \ {m} :
        \/ Priority[m] > Priority[n]
        \/ Priority[m] = Priority[n] /\ <<m, n>> \in enqueuedBefore

Take(m) ==
    /\ m \in waiting
    /\ IsNext(m)
    /\ waiting' = waiting \ {m}
    /\ delivered' = delivered \cup {m}
    /\ enqueuedBefore' = {pair \in enqueuedBefore : pair[1] # m}
    /\ UNCHANGED <<accepted, refused>>

Next == \E m \in Messages : Put(m) \/ Accept(m) \/ Refuse(m) \/ Take(m)

Spec == Init /\ [][Next]_vars
==============================================================================
