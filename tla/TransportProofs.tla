---------------------------- MODULE TransportProofs ----------------------------
(***************************************************************************)
(* Proofs about the way of a message between two processes: about          *)
(* DistributedTransport, for any number of threads, messages, connections  *)
(* and faults, and in the second half about MessageBuffer, for any sizes   *)
(* of the buffers, any values and any layouts of the messages.             *)
(***************************************************************************)
EXTENDS DistributedTransport, MessageBuffer, SequenceTheorems, FiniteSetTheorems,
        WellFoundedInduction, TLAPS

(***************************************************************************)
(* What is in the connections and in the mailbox.                          *)
(***************************************************************************)
Part == Msg \X (1 .. 3)

(* A part is a pair of a message and the place in it.                       *)
LEMMA PartsAre == \A e \in Part : e[1] \in Msg /\ e[2] \in 1 .. 3 /\ e = <<e[1], e[2]>>
  BY DEF Part

(* The numbers of the messages, and of their parts.                         *)
LEMMA NumbersAre ==
    /\ \A n \in Msg : n \in Nat /\ n # 0 /\ n <= MaxPosts
    /\ \A n \in Msg : LastPart(n) \in {2, 3}
    /\ \A c \in Conn : c \in Nat /\ c # Closed
  BY ConstantsAssumption DEF Msg, Conn, Closed, LastPart

(* The sequences, element by element.                                       *)
LEMMA ElementsAre ==
    ASSUME TypeOK
    PROVE  /\ \A c \in Conn :
                 /\ units[c] \in Seq(Part)
                 /\ Len(units[c]) \in Nat
                 /\ DOMAIN units[c] = 1 .. Len(units[c])
                 /\ units[c] # <<>> => 1 \in DOMAIN units[c]
                 /\ \A i \in DOMAIN units[c] :
                       /\ units[c][i] \in Part
                       /\ units[c][i][1] \in Msg
           /\ inbox \in Seq(Received) /\ Len(inbox) \in Nat
           /\ DOMAIN inbox = 1 .. Len(inbox)
           /\ \A i \in DOMAIN inbox : inbox[i] \in Received /\ inbox[i].msg \in Msg
           /\ owner \in Seq(Poster) /\ posted \in Nat /\ DOMAIN owner = 1 .. posted
<1>1. ASSUME NEW c \in Conn
      PROVE  /\ units[c] \in Seq(Part)
             /\ Len(units[c]) \in Nat
             /\ DOMAIN units[c] = 1 .. Len(units[c])
             /\ units[c] # <<>> => 1 \in DOMAIN units[c]
             /\ \A i \in DOMAIN units[c] : units[c][i] \in Part
  BY DEF TypeOK, Part
<1>2. \A c \in Conn : \A i \in DOMAIN units[c] : units[c][i][1] \in Msg
  BY <1>1, PartsAre
<1>3. /\ inbox \in Seq(Received) /\ Len(inbox) \in Nat
      /\ DOMAIN inbox = 1 .. Len(inbox)
      /\ \A i \in DOMAIN inbox : inbox[i] \in Received /\ inbox[i].msg \in Msg
  <2>1. inbox \in Seq(Received)
    BY DEF TypeOK
  <2>2. \A r \in Received : r.msg \in Msg
    BY DEF Received
  <2> QED BY <2>1, <2>2
<1>4. owner \in Seq(Poster) /\ posted \in Nat /\ DOMAIN owner = 1 .. posted
  BY DEF TypeOK, posted
<1> QED BY <1>1, <1>2, <1>3, <1>4

(* What one append does to the elements.                                    *)
Extends(s, e, r) ==
    /\ Len(r) = Len(s) + 1 /\ DOMAIN r = 1 .. Len(s) + 1
    /\ r[Len(s) + 1] = e
    /\ \A i \in 1 .. Len(s) : r[i] = s[i]

(* An append is one.                                                        *)
LEMMA AppendExtends ==
    ASSUME NEW S, NEW s \in Seq(S), NEW e \in S
    PROVE  Append(s, e) \in Seq(S) /\ Extends(s, e, Append(s, e))
  BY DEF Extends

(* What one read does to the elements of its connection.                    *)
LEMMA RestIs ==
    ASSUME NEW S, NEW s \in Seq(S), NEW k \in 1 .. Len(s)
    PROVE  LET r == SubSeq(s, k + 1, Len(s)) IN
           /\ r \in Seq(S)
           /\ DOMAIN r = 1 .. Len(s) - k
           /\ \A i \in DOMAIN r : r[i] = s[i + k]
  OBVIOUS

(* The parts one read returns are the first of its connection.              *)
LEMMA PrefixIs ==
    ASSUME NEW S, NEW s \in Seq(S), NEW k \in 1 .. Len(s)
    PROVE  LET p == SubSeq(s, 1, k) IN
           /\ p \in Seq(S) /\ Len(p) = k
           /\ \A i \in 1 .. k : p[i] = s[i]
  OBVIOUS

(* The parts of a message, in order, are taken for the message.             *)
LEMMA DecodedIs ==
    ASSUME NEW s \in Seq(Part), s # <<>>
    PROVE  \E r \in Received :
              /\ \/ Decoded(s) = <<>>
                 \/ Decoded(s) = <<r>> /\ s[1] = <<r.msg, 1>>
              /\ s = Parts(s[1][1]) =>
                    Decoded(s) = <<r>> /\ Intact(r) /\ \A i \in 1 .. Len(s) : s[i][1] = r.msg
<1> DEFINE n == s[1][1]
           w == Len(s) > 1 /\ s[2] = <<n, 2>>
           p == IF Len(s) < 3 THEN "none" ELSE IF s[3] = <<n, 3>> THEN "set" ELSE "wrong"
           r == [msg |-> n, whole |-> w, priority |-> p]
<1>1. s[1] \in Part /\ Len(s) \in Nat
  OBVIOUS
<1>2. n \in Msg /\ s[1] = <<n, s[1][2]>>
  BY <1>1, PartsAre
<1>3. w \in BOOLEAN /\ p \in {"none", "set", "wrong"}
  OBVIOUS
<1>4. r \in Received
  <2> HIDE DEF w, p
  <2> QED BY <1>2, <1>3 DEF Received
<1>5. Decoded(s) = IF s[1][2] # 1 THEN <<>> ELSE <<r>>
  BY DEF Decoded
<1>6. r.msg = n
  OBVIOUS
<1>7. ASSUME s = Parts(n)
      PROVE  Decoded(s) = <<r>> /\ Intact(r) /\ \A i \in 1 .. Len(s) : s[i][1] = n
  <2>1. Parts(n) = [k \in 1 .. LastPart(n) |-> <<n, k>>]
    BY DEF Parts
  <2>2. LastPart(n) \in {2, 3}
    BY <1>2, NumbersAre
  <2>3. DOMAIN s = 1 .. LastPart(n) /\ Len(s) = LastPart(n)
    BY <1>7, <2>1, <2>2
  <2>4. \A i \in 1 .. LastPart(n) : s[i] = <<n, i>>
    BY <1>7, <2>1 DEF n
  <2>5. s[1] = <<n, 1>> /\ s[2] = <<n, 2>> /\ (LastPart(n) = 3 => s[3] = <<n, 3>>)
    BY <2>2, <2>4
  <2>6. Decoded(s) = <<r>>
    BY <1>5, <2>5
  <2>7. Intact(r)
    <3>1. w /\ p = IF n \in Urgent THEN "set" ELSE "none"
      BY <2>2, <2>3, <2>5 DEF LastPart
    <3> HIDE DEF w, p
    <3>2. r.whole = w /\ r.priority = p /\ r.msg = n
      OBVIOUS
    <3> QED BY <3>1, <3>2 DEF Intact
  <2> QED BY <2>3, <2>4, <2>6, <2>7
<1> HIDE DEF r
<1> QED BY <1>2, <1>4, <1>5, <1>6, <1>7

(***************************************************************************)
(* What the steps do to the messages on the way.                           *)
(***************************************************************************)

(* Nothing is sent, received or lost.                                       *)
Quiet ==
    /\ UNCHANGED <<units, inbox, owner, answeredOK, msg>>
    /\ sentInPart \subseteq sentInPart' /\ accidents \subseteq accidents'
    /\ \A t \in Poster : Unsent(t)' => Unsent(t) \/ msg[t] \in sentInPart'
    /\ \A t \in Poster : pc'[t] = "send" /\ handle'[t] \in open' =>
          \/ part'[t] = 1
          \/ /\ pc[t] = "send" /\ handle[t] \in open
             /\ handle'[t] = handle[t] /\ part'[t] = part[t]
    /\ \A c \in up : units[c] # <<>> => c \in up'

(* A thread begins with a message nobody has posted before.                 *)
Begins(t) ==
    /\ UNCHANGED <<units, inbox, answeredOK, sentInPart, accidents, handle, part, open, up>>
    /\ pc[t] # "send" /\ posted < MaxPosts
    /\ pc' = [pc EXCEPT ![t] = "begin"]
    /\ msg' = [msg EXCEPT ![t] = posted + 1]
    /\ Extends(owner, t, owner')

(* A part of its message is written to connection c, which keeps or loses it.*)
Writes(t, c) ==
    /\ UNCHANGED <<inbox, owner, sentInPart, open, up>>
    /\ accidents \subseteq accidents'
    /\ pc[t] = "send" /\ c \in open
    /\ Without(Loss)' => handle[t] = c
    /\ \A d \in Conn \ {c} : units'[d] = units[d]
    /\ IF c \in up THEN Extends(units[c], <<msg[t], part[t]>>, units'[c])
       ELSE units'[c] = units[c]
    /\ \A u \in Poster \ {t} : /\ pc'[u] = pc[u] /\ msg'[u] = msg[u]
                                /\ part'[u] = part[u] /\ handle'[u] = handle[u]
    /\ \/ /\ part[t] = LastPart(msg[t])
          /\ pc'[t] = "idle" /\ msg'[t] = 0
          /\ answeredOK' = answeredOK \cup {msg[t]}
       \/ /\ part[t] # LastPart(msg[t])
          /\ pc'[t] = "send" /\ msg'[t] = msg[t] /\ part'[t] = part[t] + 1
          /\ handle'[t] = handle[t]
          /\ answeredOK' = answeredOK

(* Connections break, and what was in them is lost.                         *)
Clears ==
    /\ UNCHANGED <<inbox, owner, answeredOK, sentInPart, msg, pc, part, handle>>
    /\ accidents \subseteq accidents' /\ ~Without(Loss)'
    /\ \A c \in Conn : units'[c] \in {units[c], <<>>}

(* A read takes k parts out of connection c.  If it makes a message of them, *)
(* that is r.                                                                *)
Adds(c, r) ==
    /\ inbox' = Append(inbox, r)
    /\ Extends(inbox, r, inbox')
    /\ units[c][1] = <<r.msg, 1>>
Takes(c, k, r) ==
    /\ UNCHANGED <<owner, answeredOK, sentInPart, msg, pc, part, handle, open, up>>
    /\ accidents \subseteq accidents'
    /\ k \in 1 .. Len(units[c])
    /\ \A d \in Conn \ {c} : units'[d] = units[d]
    /\ DOMAIN units'[c] = 1 .. Len(units[c]) - k
    /\ \A i \in DOMAIN units'[c] : units'[c][i] = units[c][i + k]
    /\ inbox' = inbox \/ Adds(c, r)
    /\ Without(Loss)' =>
          Adds(c, r) /\ Intact(r) /\ \A i \in 1 .. k : units[c][i][1] = r.msg

(* An accident of those that lose messages is on record from then on.       *)
LEMMA LosesIs ==
    \A a \in Loss : Lose(a) => accidents \subseteq accidents' /\ ~Without(Loss)'
  BY DEF Lose, Without

(* The steps of a thread that write nothing.                                *)
LEMMA ThreadIsQuiet ==
    ASSUME IInv, NEW t \in Poster,
           \/ BeginSend(t) \/ SendFails(t) \/ CloseStream(t)
           \/ Reconnect(t) \/ ReconnectFails(t)
    PROVE  Quiet
<1>a. TypeOK /\ PostsAreOwn
  BY DEF IInv, TransportInv
<1> USE <1>a DEF Quiet, Unsent
<1>1. CASE BeginSend(t)
  BY <1>1 DEF BeginSend, PostsAreOwn, TypeOK, linkVars, boxVars, postVars
<1>2. CASE SendFails(t)
  <2>1. /\ pc' \in {[pc EXCEPT ![t] = "close"], [pc EXCEPT ![t] = "failed"]}
        /\ part' = [part EXCEPT ![t] = 1]
        /\ part[t] = 1 \/ msg[t] \in sentInPart'
        /\ sentInPart \subseteq sentInPart'
    <3>1. Leave(t, "close") \/ Leave(t, "failed")
      BY <1>2 DEF SendFails
    <3>2. sentInPart' = IF part[t] > 1 THEN sentInPart \cup {msg[t]} ELSE sentInPart
      BY <1>2 DEF SendFails
    <3>3. part[t] \in 1 .. 3
      BY DEF TypeOK
    <3> QED BY <3>1, <3>2, <3>3 DEF Leave
  <2>2. UNCHANGED <<units, inbox, owner, answeredOK, msg, accidents, open, up>>
    BY <1>2 DEF SendFails, linkVars, boxVars
  <2>3. \A u \in Poster : pc'[u] = "send" =>
           u # t /\ pc[u] = "send" /\ part'[u] = part[u] /\ handle'[u] = handle[u]
    BY <1>2, <2>1 DEF SendFails, Leave, TypeOK
  <2> QED BY <2>1, <2>2, <2>3 DEF TypeOK
<1>3. CASE CloseStream(t)
  BY <1>3 DEF CloseStream, TypeOK, boxVars, postVars
<1>4. CASE Reconnect(t)
  <2>1. /\ pc' = [pc EXCEPT ![t] = "begin"] /\ pc[t] = "connect"
        /\ UNCHANGED <<units, inbox, owner, answeredOK, msg, sentInPart, part, handle>>
        /\ open' = open \cup {made + 1} /\ up \subseteq up'
        /\ accidents \subseteq accidents'
    BY <1>4 DEF Reconnect, Connected, boxVars, postVars
  <2>2. \A u \in Poster : handle[u] \in open' => handle[u] \in open
    <3>1. made \in Nat /\ \A u \in Poster : handle[u] \in (1 .. made) \cup {0}
      BY DEF TypeOK, Closed
    <3> QED BY <2>1, <3>1
  <2> QED BY <2>1, <2>2 DEF TypeOK
<1>5. CASE ReconnectFails(t)
  BY <1>5 DEF ReconnectFails, TypeOK, linkVars, boxVars, postVars
<1> QED BY <1>1, <1>2, <1>3, <1>4, <1>5

(* A connection that is made holds nothing that a thread has written.       *)
LEMMA OthersAreQuiet ==
    ASSUME IInv,
           \/ ActivateProxy \/ Activate \/ ActivateFails \/ NoticeClosed \/ Accept
           \/ \E c \in Conn : EndOfStream(c)
           \/ UNCHANGED vars
    PROVE  Quiet
<1>a. TypeOK
  BY DEF IInv, TransportInv
<1> USE <1>a DEF Quiet, Unsent
<1>1. CASE ActivateProxy
  <2>1. /\ UNCHANGED <<units, inbox, owner, answeredOK, msg, sentInPart, part, handle, pc,
                       accidents>>
        /\ open' = open \cup {made + 1} /\ up \subseteq up'
    BY <1>1 DEF ActivateProxy, Connected, boxVars, postVars
  <2>2. \A u \in Poster : handle[u] \in open' => handle[u] \in open
    BY <2>1 DEF TypeOK, Closed
  <2> QED BY <2>1, <2>2 DEF TypeOK
<1>2. CASE Activate
  BY <1>2 DEF Activate, TypeOK, proxyVars, linkVars, boxVars, postVars
<1>3. CASE NoticeClosed
  BY <1>3 DEF NoticeClosed, TypeOK, proxyVars, linkVars, boxVars, postVars
<1>4. CASE Accept
  BY <1>4 DEF Accept, TypeOK, proxyVars, linkVars, boxVars, postVars
<1>5. ASSUME NEW c \in Conn, EndOfStream(c) PROVE Quiet
  BY <1>5 DEF EndOfStream, TypeOK, proxyVars, linkVars, boxVars, postVars
<1>6. CASE UNCHANGED vars
  BY <1>6 DEF vars, TypeOK, proxyVars, linkVars, boxVars, postVars
<1>7. CASE ActivateFails
  BY <1>7 DEF ActivateFails, TypeOK, proxyVars, linkVars, postVars
<1> QED BY <1>1, <1>2, <1>3, <1>4, <1>5, <1>6, <1>7

(* post of a new message, or again of the one that got ERROR.               *)
LEMMA PostDoes == ASSUME IInv, NEW t \in Poster, Post(t) PROVE Quiet \/ Begins(t)
<1>1. CASE pc[t] = "failed" /\ UNCHANGED <<msg, owner>>
  BY <1>1 DEF IInv, TransportInv, Post, Quiet, Unsent, TypeOK, linkVars, boxVars, postVars
<1>2. CASE /\ pc[t] \in {"idle", "failed"} /\ posted < MaxPosts
           /\ msg' = [msg EXCEPT ![t] = posted + 1]
           /\ owner' = Append(owner, t)
  <2>1. owner \in Seq(Poster)
    BY DEF IInv, TransportInv, TypeOK
  <2>2. Extends(owner, t, owner')
    BY <1>2, <2>1, AppendExtends
  <2> QED BY <1>2, <2>2 DEF Post, Begins, linkVars, boxVars
<1> QED BY <1>1, <1>2 DEF Post

(* A part is written to the connection of its handle, or the newest one.    *)
LEMMA SendPartDoes ==
    ASSUME IInv, NEW t \in Poster, SendPart(t)
    PROVE  \E c \in Conn : Writes(t, c)
<1>1. PICK c \in Target(t) :
          units' = IF c \in up THEN [units EXCEPT ![c] = Append(@, <<msg[t], part[t]>>)]
                   ELSE units
  BY DEF SendPart
<1>2. c \in Conn /\ c \in open
  <2>1. c \in open
    BY DEF Target, IInv, TransportInv, StreamIsOpen
  <2>2. open \subseteq 1 .. made /\ made \in 0 .. MaxConns
    BY DEF IInv, TransportInv, TypeOK
  <2> QED BY <2>1, <2>2, ConstantsAssumption DEF Conn
<1>3. accidents \subseteq accidents' /\ (Without(Loss)' => handle[t] = c)
  <2>1. CASE handle[t] \in open
    BY <2>1 DEF SendPart, Target
  <2>2. CASE handle[t] \notin open
    BY <2>2, LosesIs DEF SendPart, Loss
  <2> QED BY <2>1, <2>2
<1>4. /\ \A d \in Conn \ {c} : units'[d] = units[d]
      /\ IF c \in up THEN Extends(units[c], <<msg[t], part[t]>>, units'[c])
         ELSE units'[c] = units[c]
  <2>1. <<msg[t], part[t]>> \in Part
    <3>1. TypeOK /\ PostsAreOwn
      BY DEF IInv, TransportInv
    <3>2. msg[t] \in Msg /\ part[t] \in 1 .. 3
      <4>1. msg[t] \in Msg \cup {0} /\ part[t] \in 1 .. 3
        BY <3>1 DEF TypeOK
      <4>2. msg[t] # 0
        BY <3>1 DEF SendPart, PostsAreOwn
      <4> QED BY <4>1, <4>2
    <3> QED BY <3>2 DEF Part
  <2>2. units[c] \in Seq(Part)
    BY <1>2, ElementsAre DEF IInv, TransportInv
  <2>3. Extends(units[c], <<msg[t], part[t]>>, Append(units[c], <<msg[t], part[t]>>))
    BY <2>1, <2>2, AppendExtends
  <2>4. DOMAIN units = Conn
    BY DEF IInv, TransportInv, TypeOK
  <2> QED BY <1>1, <1>2, <2>3, <2>4
<1>5. /\ UNCHANGED <<inbox, owner, sentInPart, open, up>> /\ pc[t] = "send"
      /\ \A u \in Poster \ {t} : /\ pc'[u] = pc[u] /\ msg'[u] = msg[u]
                                  /\ part'[u] = part[u] /\ handle'[u] = handle[u]
      /\ \/ /\ part[t] = LastPart(msg[t])
            /\ pc'[t] = "idle" /\ msg'[t] = 0
            /\ answeredOK' = answeredOK \cup {msg[t]}
         \/ /\ part[t] # LastPart(msg[t])
            /\ pc'[t] = "send" /\ msg'[t] = msg[t] /\ part'[t] = part[t] + 1
            /\ handle'[t] = handle[t]
            /\ answeredOK' = answeredOK
  BY DEF SendPart, Leave, boxVars, IInv, TransportInv, TypeOK
<1> QED BY <1>2, <1>3, <1>4, <1>5 DEF Writes

(* Connections that break, or that are never accepted.                      *)
LEMMA ConnectionsClear ==
    ASSUME IInv, Deactivate \/ \E c \in Conn : Break(c)
    PROVE  Clears
<1>1. ASSUME NEW c \in Conn, Break(c) PROVE Clears
  BY <1>1, LosesIs DEF Break, Clears, Loss, IInv, TransportInv, TypeOK, proxyVars, boxVars, postVars
<1>2. CASE Deactivate
  BY <1>2, LosesIs DEF Deactivate, Clears, Loss, IInv, TransportInv, TypeOK, proxyVars, postVars
<1> QED BY <1>1, <1>2

(* handle_input of a connection.                                            *)
LEMMA ReceiveDoes ==
    ASSUME IInv, NEW c \in Conn, Receive(c)
    PROVE  \E k \in 1 .. Len(units[c]), r \in Received : Takes(c, k, r)
<1> DEFINE p(k) == SubSeq(units[c], 1, k)
<1>1. PICK k \in DOMAIN units[c] :
          /\ units' = [units EXCEPT ![c] = SubSeq(@, k + 1, Len(@))]
          /\ \/ /\ Put(Decoded(p(k)))
                /\ IF p(k) = Parts(p(k)[1][1]) THEN UNCHANGED accidents
                   ELSE Lose("read_is_not_a_message")
             \/ UNCHANGED inbox /\ Lose("refused")
  BY DEF Receive, PostRefused
<1>2. units[c] \in Seq(Part) /\ Len(units[c]) \in Nat /\ k \in 1 .. Len(units[c])
  BY ElementsAre DEF IInv, TransportInv
<1>3. p(k) \in Seq(Part) /\ Len(p(k)) = k /\ \A i \in 1 .. k : p(k)[i] = units[c][i]
  BY <1>2, PrefixIs
<1>4. p(k) # <<>>
  BY <1>2, <1>3
<1>5. PICK r \in Received :
          /\ \/ Decoded(p(k)) = <<>>
             \/ Decoded(p(k)) = <<r>> /\ p(k)[1] = <<r.msg, 1>>
          /\ p(k) = Parts(p(k)[1][1]) =>
                /\ Decoded(p(k)) = <<r>> /\ Intact(r)
                /\ \A i \in 1 .. Len(p(k)) : p(k)[i][1] = r.msg
  BY <1>3, <1>4, DecodedIs
<1> HIDE DEF p
<1>6. /\ inbox' = inbox \/ Adds(c, r)
      /\ ~Without(Loss)' \/ (active /\ Decoded(p(k)) = <<r>> => Adds(c, r))
  <2>1. inbox \in Seq(Received)
    BY ElementsAre DEF IInv, TransportInv
  <2>2. inbox \o <<>> = inbox /\ inbox \o <<r>> = Append(inbox, r)
    BY <2>1
  <2>3. Decoded(p(k)) = <<r>> => p(k)[1] = <<r.msg, 1>>
    BY <1>5
  <2>4. p(k)[1] = units[c][1]
    BY <1>2, <1>3
  <2>5. Extends(inbox, r, Append(inbox, r))
    BY <2>1, AppendExtends
  <2>6. CASE Put(Decoded(p(k)))
    <3>1. inbox' = IF active THEN inbox \o Decoded(p(k)) ELSE inbox
      BY <2>6 DEF Put
    <3> QED BY <1>5, <2>2, <2>3, <2>4, <2>5, <3>1 DEF Adds
  <2>7. CASE UNCHANGED inbox /\ Lose("refused")
    BY <2>7, LosesIs DEF Loss
  <2> QED BY <1>1, <2>6, <2>7
<1>7. /\ accidents \subseteq accidents'
      /\ Without(Loss)' => p(k) = Parts(p(k)[1][1]) /\ Without(Loss)
  <2>1. "read_is_not_a_message" \in Loss /\ "refused" \in Loss
    BY DEF Loss
  <2> QED BY <1>1, <2>1, LosesIs DEF Without
<1>8. Without(Loss)' => active
  <2>1. connectorMap # {}
    BY DEF Receive
  <2> QED BY <1>7, <2>1 DEF IInv, TransportInv, StreamIsOpen
<1>9. /\ \A d \in Conn \ {c} : units'[d] = units[d]
      /\ DOMAIN units'[c] = 1 .. Len(units[c]) - k
      /\ \A i \in DOMAIN units'[c] : units'[c][i] = units[c][i + k]
  <2>1. DOMAIN units = Conn
    BY DEF IInv, TransportInv, TypeOK
  <2>2. units'[c] = SubSeq(units[c], k + 1, Len(units[c]))
    BY <1>1, <2>1
  <2>3. LET rest == SubSeq(units[c], k + 1, Len(units[c])) IN
        /\ DOMAIN rest = 1 .. Len(units[c]) - k
        /\ \A i \in DOMAIN rest : rest[i] = units[c][i + k]
    BY <1>2, RestIs
  <2> QED BY <1>1, <2>1, <2>2, <2>3
<1>10. UNCHANGED <<owner, answeredOK, sentInPart, msg, pc, part, handle, open, up>>
  BY DEF Receive, proxyVars, postVars
<1>11. Takes(c, k, r)
  BY <1>2, <1>3, <1>5, <1>6, <1>7, <1>8, <1>9, <1>10 DEF Takes
<1> QED BY <1>2, <1>11

(* The steps are of these kinds.                                            *)
LEMMA StepDoes ==
    ASSUME IInv, [Next]_vars
    PROVE  \/ Quiet
           \/ \E t \in Poster : Begins(t)
           \/ \E t \in Poster, c \in Conn : Writes(t, c)
           \/ Clears
           \/ \E c \in Conn : \E k \in 1 .. Len(units[c]), r \in Received : Takes(c, k, r)
<1>1. ASSUME NEW t \in Poster, Post(t) \/ PostStep(t)
      PROVE  Quiet \/ Begins(t) \/ \E c \in Conn : Writes(t, c)
  BY <1>1, ThreadIsQuiet, PostDoes, SendPartDoes DEF PostStep
<1>2. CASE ReactorStep
  BY <1>2, OthersAreQuiet, ReceiveDoes DEF ReactorStep
<1>3. CASE Deactivate \/ \E c \in Conn : Break(c)
  BY <1>3, ConnectionsClear
<1>4. CASE ActivateProxy \/ Activate \/ ActivateFails \/ NoticeClosed \/ UNCHANGED vars
  BY <1>4, OthersAreQuiet
<1> QED BY <1>1, <1>2, <1>3, <1>4 DEF Next

(***************************************************************************)
(* Types.                                                                  *)
(***************************************************************************)
LEMMA ConnectedTypes ==
    ASSUME TypeOK, Connected
    PROVE  /\ made \in Nat /\ made' = made + 1 /\ made' \in 0 .. MaxConns
           /\ clientStream' \in 1 .. made' /\ clientStream' \in open'
           /\ open' = open \cup {made'} /\ open' \subseteq 1 .. made'
           /\ up' = up \cup {made'} /\ up' \subseteq 1 .. made'
           /\ pending' \in Seq(1 .. made')
           /\ connectorMap \subseteq 1 .. made'
           /\ handle \in [Poster -> (1 .. made') \cup {Closed}]
           /\ units' = units /\ listening
<1>1. made \in Nat /\ made' = made + 1 /\ made' \in 0 .. MaxConns
  BY ConstantsAssumption DEF TypeOK, Connected
<1>2. 1 .. made \subseteq 1 .. made' /\ made' \in 1 .. made'
  BY <1>1
<1>3. pending \in Seq(1 .. made')
  <2>1. /\ Len(pending) \in Nat /\ DOMAIN pending = 1 .. Len(pending)
        /\ pending = [i \in DOMAIN pending |-> pending[i]]
        /\ \A i \in DOMAIN pending : pending[i] \in 1 .. made
    BY DEF TypeOK
  <2>2. \A i \in 1 .. Len(pending) : pending[i] \in 1 .. made'
    BY <1>2, <2>1
  <2>3. pending \in [1 .. Len(pending) -> 1 .. made']
    BY <2>1, <2>2
  <2> QED BY <2>1, <2>3, SeqDef
<1>4. pending' \in Seq(1 .. made')
  BY <1>2, <1>3, <1>1 DEF Connected
<1> QED BY <1>1, <1>2, <1>4 DEF TypeOK, Connected

(* send_n returns.                                                          *)
LEMMA LeaveTypes ==
    ASSUME TypeOK, NEW t \in Poster, NEW where \in {"idle", "close", "failed"},
           Leave(t, where)
    PROVE  /\ pc' \in [Poster -> {"idle", "begin", "send", "close", "connect", "failed"}]
           /\ handle' \in [Poster -> (1 .. made) \cup {Closed}]
           /\ part' \in [Poster -> 1 .. 3]
<1>1. pc' \in [Poster -> {"idle", "begin", "send", "close", "connect", "failed"}]
  BY DEF TypeOK, Leave
<1>2. handle' \in [Poster -> (1 .. made) \cup {Closed}]
  BY DEF TypeOK, Leave
<1>3. part' \in [Poster -> 1 .. 3]
  BY DEF TypeOK, Leave
<1> QED BY <1>1, <1>2, <1>3

(* The steps of the threads that post keep the types.                       *)
LEMMA ThreadTypes ==
    ASSUME IInv, NEW t \in Poster, Post(t) \/ PostStep(t)
    PROVE  TypeOK'
<1>a. TypeOK /\ PostsAreOwn /\ StreamIsOpen
  BY DEF IInv, TransportInv
<1> USE <1>a
<1>1. CASE Post(t)
  <2>1. posted \in Nat
    BY ElementsAre
  <2>2. posted < MaxPosts => posted + 1 \in Msg
    BY <2>1, ConstantsAssumption DEF Msg
  <2>3. CASE UNCHANGED <<msg, owner>>
    BY <1>1, <2>3 DEF Post, TypeOK, linkVars, boxVars, posted
  <2>4. CASE posted < MaxPosts /\ msg' = [msg EXCEPT ![t] = posted + 1] /\ owner' = Append(owner, t)
    <3>1. owner' \in Seq(Poster) /\ posted' = posted + 1
      BY <2>4 DEF TypeOK, posted
    <3>2. /\ msg' \in [Poster -> Msg \cup {0}]
          /\ pc' \in [Poster -> {"idle", "begin", "send", "close", "connect", "failed"}]
          /\ tries' \in [Poster -> 0 .. 2]
      BY <1>1, <2>2, <2>4 DEF Post, TypeOK
    <3>3. answeredOK \subseteq 1 .. posted' /\ sentInPart \subseteq 1 .. posted' /\ posted' <= MaxPosts
      BY <2>1, <2>4, <3>1, ConstantsAssumption DEF TypeOK
    <3>4. UNCHANGED <<proxyActive, clientStream, handle, part, linkVars, boxVars,
                   answeredOK, sentInPart, faults, accidents>>
      BY <1>1 DEF Post
    <3> QED BY <3>1, <3>2, <3>3, <3>4 DEF TypeOK, linkVars, boxVars
  <2> QED BY <1>1, <2>3, <2>4 DEF Post
<1>2. CASE BeginSend(t)
  <2>1. tries[t] + 1 \in 0 .. 2
    <3>1. tries[t] \in 0 .. 2
      BY DEF TypeOK
    <3>2. tries[t] < 2
      BY <1>2 DEF BeginSend, PostsAreOwn
    <3> QED BY <3>1, <3>2
  <2> QED BY <1>2, <2>1 DEF BeginSend, TypeOK, linkVars, boxVars, postVars, posted
<1>3. CASE SendPart(t)
  <2>1. PICK c \in Target(t) :
            units' = IF c \in up THEN [units EXCEPT ![c] = Append(@, <<msg[t], part[t]>>)]
                     ELSE units
    BY <1>3 DEF SendPart
  <2>2. <<msg[t], part[t]>> \in Msg \X (1 .. 3)
    <3>1. msg[t] \in Msg \cup {0} /\ part[t] \in 1 .. 3
      BY DEF TypeOK
    <3>2. msg[t] # 0
      BY <1>3 DEF SendPart, PostsAreOwn
    <3> QED BY <3>1, <3>2
  <2>3. units' \in [Conn -> Seq(Msg \X (1 .. 3))]
    <3>1. units \in [Conn -> Seq(Part)] /\ <<msg[t], part[t]>> \in Part
      BY <2>2 DEF TypeOK, Part
    <3>2. \A d \in Conn : Append(units[d], <<msg[t], part[t]>>) \in Seq(Part)
      BY <3>1
    <3> QED BY <2>1, <3>1, <3>2 DEF Part
  <2>4. msg[t] \in 1 .. posted
    <3>1. msg[t] \in Msg
      BY <2>2
    <3> QED BY <3>1, ElementsAre, NumbersAre DEF PostsAreOwn
  <2>5. part[t] # LastPart(msg[t]) => part[t] + 1 \in 1 .. 3
    <3>1. LastPart(msg[t]) \in {2, 3} /\ part[t] <= LastPart(msg[t]) /\ part[t] \in 1 .. 3
      BY <1>3, <2>2, NumbersAre DEF SendPart, PostsAreOwn, TypeOK
    <3> QED BY <3>1
  <2>6. /\ pc' \in [Poster -> {"idle", "begin", "send", "close", "connect", "failed"}]
        /\ msg' \in [Poster -> Msg \cup {0}]
        /\ handle' \in [Poster -> (1 .. made) \cup {Closed}]
        /\ part' \in [Poster -> 1 .. 3]
        /\ tries' \in [Poster -> 0 .. 2]
        /\ answeredOK' \subseteq 1 .. posted
    <3>1. CASE part[t] = LastPart(msg[t])
      <4>1. /\ Leave(t, "idle") /\ msg' = [msg EXCEPT ![t] = 0]
            /\ tries' = [tries EXCEPT ![t] = 0] /\ answeredOK' = answeredOK \cup {msg[t]}
        BY <1>3, <3>1 DEF SendPart
      <4>2. msg' \in [Poster -> Msg \cup {0}] /\ tries' \in [Poster -> 0 .. 2]
        BY <4>1 DEF TypeOK
      <4>3. answeredOK' \subseteq 1 .. posted
        BY <4>1, <2>4 DEF TypeOK
      <4> QED BY <4>1, <4>2, <4>3, LeaveTypes
    <3>2. CASE part[t] # LastPart(msg[t])
      <4>1. part' = [part EXCEPT ![t] = @ + 1] /\ UNCHANGED <<pc, msg, handle, tries, answeredOK>>
        BY <1>3, <3>2 DEF SendPart
      <4> QED BY <4>1, <3>2, <2>5 DEF TypeOK
    <3> QED BY <3>1, <3>2
  <2>7. accidents' \subseteq Accident
    BY <1>3 DEF SendPart, Lose, TypeOK, Accident, Loss
  <2>8. UNCHANGED <<proxyActive, clientStream, made, open, up, pending, boxVars, owner,
                    sentInPart, faults>>
    BY <1>3 DEF SendPart
  <2> QED BY <2>3, <2>6, <2>7, <2>8 DEF TypeOK, boxVars, posted
<1>4. CASE SendFails(t)
  <2>1. Leave(t, "close") \/ Leave(t, "failed")
    BY <1>4 DEF SendFails
  <2>2. msg[t] \in 1 .. posted
    BY <1>4, ElementsAre, NumbersAre DEF SendFails, PostsAreOwn, TypeOK
  <2>3. tries' \in [Poster -> 0 .. 2] /\ sentInPart' \subseteq 1 .. posted
    <3>1. tries' = tries \/ tries' = [tries EXCEPT ![t] = 0]
      BY <1>4 DEF SendFails
    <3>2. sentInPart' \subseteq sentInPart \cup {msg[t]}
      BY <1>4 DEF SendFails
    <3>3. tries \in [Poster -> 0 .. 2] /\ sentInPart \subseteq 1 .. posted
      BY DEF TypeOK
    <3> QED BY <3>1, <3>2, <3>3, <2>2
  <2>4. faults' \in 0 .. MaxFaults
    BY <1>4, ConstantsAssumption DEF SendFails, TypeOK
  <2>5. /\ pc' \in [Poster -> {"idle", "begin", "send", "close", "connect", "failed"}]
        /\ handle' \in [Poster -> (1 .. made) \cup {Closed}]
        /\ part' \in [Poster -> 1 .. 3]
    BY <2>1, LeaveTypes
  <2>6. UNCHANGED <<proxyActive, clientStream, msg, linkVars, boxVars,
                    owner, answeredOK, accidents>>
    BY <1>4 DEF SendFails
  <2> QED BY <2>3, <2>4, <2>5, <2>6 DEF TypeOK, linkVars, boxVars, posted
<1>5. CASE CloseStream(t)
  BY <1>5 DEF CloseStream, TypeOK, boxVars, postVars, posted
<1>6. CASE Reconnect(t)
  <2>1. Connected /\ pc' = [pc EXCEPT ![t] = "begin"]
    BY <1>6 DEF Reconnect
  <2>2. accidents' \subseteq Accident
    BY <1>6 DEF Reconnect, TypeOK, Accident
  <2>3. UNCHANGED <<proxyActive, msg, handle, part, tries, boxVars, postVars, faults>>
    BY <1>6 DEF Reconnect
  <2> QED BY <2>1, <2>2, <2>3, ConnectedTypes DEF TypeOK, boxVars, postVars, posted
<1>7. CASE ReconnectFails(t)
  BY <1>7 DEF ReconnectFails, TypeOK, linkVars, boxVars, postVars, posted
<1> QED BY <1>1, <1>2, <1>3, <1>4, <1>5, <1>6, <1>7 DEF PostStep

(* Faults are counted up to their bound.                                    *)
LEMMA FaultTypes ==
    ASSUME TypeOK, faults < MaxFaults, faults' = faults + 1
    PROVE  faults' \in 0 .. MaxFaults
<1>1. faults \in 0 .. MaxFaults
  BY DEF TypeOK
<1> QED BY <1>1, ConstantsAssumption

(* An accident that loses messages is one of the accidents.                 *)
LEMMA LosesTypes ==
    ASSUME TypeOK, NEW a \in Loss, Lose(a)
    PROVE  accidents' \subseteq Accident
  BY DEF Lose, TypeOK, Accident

(* The steps of the mailbox and the network keep the types.                 *)
LEMMA OtherTypes ==
    ASSUME IInv,
           \/ ActivateProxy \/ Activate \/ ActivateFails \/ Deactivate \/ NoticeClosed
           \/ ReactorStep
           \/ \E c \in Conn : Break(c)
           \/ UNCHANGED vars
    PROVE  TypeOK'
<1> USE DEF IInv, TransportInv
<1>1. CASE ActivateProxy
  BY <1>1, ConnectedTypes DEF ActivateProxy, TypeOK, boxVars, postVars, posted
<1>2. CASE Activate
  BY <1>2 DEF Activate, TypeOK, proxyVars, linkVars, postVars, posted, Accident
<1>3. CASE Deactivate
  <2>1. units' \in [Conn -> Seq(Msg \X (1 .. 3))]
    <3>1. units' = [c \in Conn |-> IF c \in up' THEN units[c] ELSE <<>>]
      BY <1>3 DEF Deactivate
    <3> QED BY <3>1 DEF TypeOK
  <2>2. accidents' \subseteq Accident /\ faults' \in 0 .. MaxFaults
    <3>1. (faults' = faults + 1 /\ faults < MaxFaults) \/ faults' = faults
      BY <1>3 DEF Deactivate
    <3>2. Lose("inactive")
      BY <1>3 DEF Deactivate
    <3>3. faults' \in 0 .. MaxFaults
      BY <3>1, FaultTypes DEF TypeOK
    <3> QED BY <3>2, <3>3, LosesTypes DEF Loss
  <2>3. up' \subseteq 1 .. made /\ pending' \in Seq(1 .. made)
    <3>1. up' \subseteq up /\ pending' = <<>>
      BY <1>3 DEF Deactivate
    <3> QED BY <3>1 DEF TypeOK
  <2>4. active' = FALSE /\ listening' = FALSE
        /\ UNCHANGED <<proxyActive, proxyVars, made, open, acceptor, registered,
                       connectorMap, inbox, postVars>>
    BY <1>3 DEF Deactivate
  <2> QED BY <2>1, <2>2, <2>3, <2>4 DEF TypeOK, proxyVars, postVars, posted
<1>4. CASE NoticeClosed
  BY <1>4 DEF NoticeClosed, TypeOK, proxyVars, linkVars, postVars, posted
<1>5. CASE Accept
  <2>1. /\ pending' \in Seq(1 .. made) /\ connectorMap' \subseteq 1 .. made
        /\ registered' \in BOOLEAN /\ faults' \in 0 .. MaxFaults
        /\ accidents' \subseteq Accident
    <3>1. pending # <<>> /\ pending \in Seq(1 .. made)
      BY <1>5 DEF Accept, TypeOK
    <3>2. Head(pending) \in 1 .. made /\ Tail(pending) \in Seq(1 .. made)
      BY <3>1, HeadTailProperties
    <3>3. CASE /\ connectorMap' = connectorMap \cup {Head(pending)}
               /\ pending' = Tail(pending)
               /\ UNCHANGED <<registered, faults, accidents>>
      BY <3>2, <3>3 DEF TypeOK
    <3>4. CASE /\ faults < MaxFaults /\ faults' = faults + 1
               /\ registered' \in {FALSE, registered} /\ pending' \in {pending, Tail(pending)}
               /\ accidents' = accidents \cup {"not_read"}
               /\ UNCHANGED connectorMap
      <4>1. faults' \in 0 .. MaxFaults
        BY <3>4, FaultTypes
      <4>2. accidents' \subseteq Accident
        BY <3>4 DEF TypeOK, Accident
      <4> QED BY <3>2, <3>4, <4>1, <4>2 DEF TypeOK
    <3> QED BY <1>5, <3>3, <3>4 DEF Accept
  <2>2. UNCHANGED <<proxyActive, proxyVars, made, units, open, up, active, acceptor,
                    listening, inbox, postVars>>
    BY <1>5 DEF Accept
  <2> QED BY <2>1, <2>2 DEF TypeOK, proxyVars, postVars, posted
<1>6. ASSUME NEW c \in Conn, Receive(c) PROVE TypeOK'
  <2>1. PICK k \in DOMAIN units[c] : 
            /\ units' = [units EXCEPT ![c] = SubSeq(@, k + 1, Len(@))]
            /\ accidents' \subseteq accidents \cup {"read_is_not_a_message", "refused"}
            /\ faults' = faults \/ (faults < MaxFaults /\ faults' = faults + 1)
    BY <1>6 DEF Receive, PostRefused, Lose
  <2>2. units' \in [Conn -> Seq(Msg \X (1 .. 3))]
    <3>1. units \in [Conn -> Seq(Part)]
      BY DEF TypeOK, Part
    <3>2. SubSeq(units[c], k + 1, Len(units[c])) \in Seq(Part)
      <4>1. units[c] \in Seq(Part) /\ k \in 1 .. Len(units[c])
        BY <3>1
      <4> QED BY <4>1, RestIs
    <3> QED BY <2>1, <3>1, <3>2 DEF Part
  <2>3. inbox' \in Seq(Received)
    <3>1. \E r \in Received : inbox' = inbox \/ inbox' = Append(inbox, r)
      BY <1>6, ReceiveDoes DEF Takes, Adds
    <3>2. inbox \in Seq(Received)
      BY DEF TypeOK
    <3> QED BY <3>1, <3>2, AppendExtends
  <2>4. accidents' \subseteq Accident /\ faults' \in 0 .. MaxFaults
    BY <2>1, FaultTypes DEF TypeOK, Accident, Loss
  <2>5. UNCHANGED <<proxyActive, proxyVars, made, open, up, pending, active, acceptor,
                    listening, registered, connectorMap, postVars>>
    BY <1>6 DEF Receive
  <2> QED BY <2>2, <2>3, <2>4, <2>5 DEF TypeOK, proxyVars, postVars, posted
<1>7. ASSUME NEW c \in Conn, EndOfStream(c) PROVE TypeOK'
  BY <1>7 DEF EndOfStream, TypeOK, proxyVars, postVars, posted
<1>8. ASSUME NEW c \in Conn, Break(c) PROVE TypeOK'
  <2>1. units' \in [Conn -> Seq(Msg \X (1 .. 3))]
    BY <1>8 DEF Break, TypeOK
  <2>2. accidents' \subseteq Accident /\ faults' \in 0 .. MaxFaults
    <3>1. faults' = faults + 1 /\ faults < MaxFaults /\ Lose("broken")
      BY <1>8 DEF Break
    <3> QED BY <3>1, FaultTypes, LosesTypes DEF Loss
  <2>3. up' = up \ {c} /\ UNCHANGED <<proxyActive, proxyVars, made, open, pending, boxVars, postVars>>
    BY <1>8 DEF Break
  <2> QED BY <2>1, <2>2, <2>3 DEF TypeOK, proxyVars, boxVars, postVars, posted
<1>9. CASE UNCHANGED vars
  BY <1>9 DEF vars, TypeOK, proxyVars, linkVars, boxVars, postVars, posted
<1>10. CASE ActivateFails
  <2>1. faults' \in 0 .. MaxFaults
    <3>1. faults' = faults \/ (faults < MaxFaults /\ faults' = faults + 1)
      BY <1>10 DEF ActivateFails
    <3> QED BY <3>1, FaultTypes DEF TypeOK
  <2>2. accidents' \subseteq Accident /\ acceptor' \in {"made", "lost"} /\ listening' \in BOOLEAN
    BY <1>10 DEF ActivateFails, TypeOK, Accident
  <2>3. UNCHANGED <<proxyActive, proxyVars, linkVars, active, registered, connectorMap,
                    inbox, postVars>>
    BY <1>10 DEF ActivateFails
  <2> QED BY <2>1, <2>2, <2>3 DEF TypeOK, proxyVars, linkVars, postVars, posted
<1> QED BY <1>1, <1>2, <1>3, <1>4, <1>5, <1>6, <1>7, <1>8, <1>9, <1>10 DEF ReactorStep

(* Every step keeps the types.                                              *)
LEMMA TypesAreKept == ASSUME IInv, [Next]_vars PROVE TypeOK'
  BY ThreadTypes, OtherTypes DEF Next

(***************************************************************************)
(* The threads and the stream.                                             *)
(***************************************************************************)

(* What PostsAreOwn says of one thread.                                     *)
Own(t) ==
    /\ msg[t] = 0 <=> pc[t] = "idle"
    /\ msg[t] # 0 => msg[t] <= posted /\ owner[msg[t]] = t
    /\ pc[t] = "send" => part[t] <= LastPart(msg[t])
    /\ pc[t] # "send" => part[t] = 1
    /\ pc[t] \in {"begin", "close", "connect"} => tries[t] < 2
    /\ pc[t] # "idle" => proxyActive

(* PostsAreOwn, thread by thread.                                           *)
LEMMA OwnIs == /\ PostsAreOwn <=> \A t \in Poster : Own(t)
               /\ PostsAreOwn' <=> \A t \in Poster : Own(t)'
  BY DEF PostsAreOwn, Own

(* The message of a thread that is in post.                                 *)
LEMMA MessageOfThread ==
    ASSUME TypeOK, PostsAreOwn, NEW t \in Poster, pc[t] # "idle"
    PROVE  msg[t] \in Msg /\ msg[t] <= posted /\ owner[msg[t]] = t
  BY DEF TypeOK, PostsAreOwn

(* A thread keeps its message from one step of post to the next.            *)
LEMMA PostsAreOwnKept == ASSUME IInv, [Next]_vars PROVE PostsAreOwn'
<1> USE DEF IInv, TransportInv
<1>1. ASSUME NEW t \in Poster, Post(t) \/ PostStep(t) PROVE PostsAreOwn'
  <2>1. ASSUME NEW u \in Poster, u # t PROVE Own(u)'
    <3>1. pc'[u] = pc[u] /\ msg'[u] = msg[u] /\ part'[u] = part[u] /\ tries'[u] = tries[u]
      BY <1>1, <2>1 DEF Post, PostStep, BeginSend, SendPart, SendFails, CloseStream, Reconnect,
                        ReconnectFails, Leave, TypeOK
    <3>2. msg[u] # 0 /\ msg[u] <= posted => msg[u] <= posted' /\ owner'[msg[u]] = owner[msg[u]]
      <4>1. CASE owner' = owner
        BY <4>1 DEF posted
      <4>2. CASE owner' = Append(owner, t)
        <5>1. Extends(owner, t, owner')
          BY <4>2, ElementsAre, AppendExtends
        <5>2. msg[u] \in Nat
          BY NumbersAre DEF TypeOK
        <5> QED BY <5>1, <5>2, ElementsAre DEF Extends, posted
      <4>3. owner' \in {owner, Append(owner, t)}
        BY <1>1 DEF Post, PostStep, BeginSend, SendPart, SendFails, CloseStream, Reconnect,
                    ReconnectFails, postVars
      <4> QED BY <4>1, <4>2, <4>3
    <3>3. proxyActive' = proxyActive
      BY <1>1 DEF Post, PostStep, BeginSend, SendPart, SendFails, CloseStream, Reconnect,
                  ReconnectFails
    <3>4. Own(u)
      BY OwnIs
    <3> QED BY <3>1, <3>2, <3>3, <3>4 DEF Own
  <2>2. Own(t)
    BY OwnIs
  <2>3. Own(t)'
    <3>1. CASE Post(t)
      <4>1. pc'[t] = "begin" /\ tries'[t] = 0 /\ part'[t] = part[t] /\ proxyActive'
            /\ pc[t] \in {"idle", "failed"}
        BY <3>1 DEF Post, TypeOK
      <4>2. CASE UNCHANGED <<msg, owner>> /\ pc[t] = "failed"
        BY <4>1, <4>2, <2>2 DEF Own, posted
      <4>3. CASE msg' = [msg EXCEPT ![t] = posted + 1] /\ owner' = Append(owner, t)
        <5>1. Extends(owner, t, owner') /\ posted \in Nat /\ posted = Len(owner)
          BY <4>3, ElementsAre, AppendExtends DEF posted
        <5>2. msg'[t] = posted + 1 /\ posted' = posted + 1
          BY <4>3, <5>1 DEF TypeOK, Extends, posted
        <5>3. msg'[t] # 0 /\ msg'[t] <= posted' /\ owner'[msg'[t]] = t
          BY <5>1, <5>2 DEF Extends
        <5> QED BY <4>1, <5>3, <2>2 DEF Own
      <4> QED BY <3>1, <4>2, <4>3 DEF Post
    <3>2. CASE BeginSend(t)
      <4>1. msg[t] \in Msg
        BY <3>2, MessageOfThread DEF BeginSend
      <4> QED BY <3>2, <2>2, <4>1, NumbersAre DEF BeginSend, Own, TypeOK, postVars, posted
    <3>3. CASE SendPart(t)
      <4>1. msg[t] \in Msg
        BY <3>3, MessageOfThread DEF SendPart
      <4>2. LastPart(msg[t]) \in {2, 3} /\ part[t] \in 1 .. 3
        BY <4>1, NumbersAre DEF TypeOK
      <4>3. CASE part[t] = LastPart(msg[t])
        <5>1. pc'[t] = "idle" /\ msg'[t] = 0 /\ part'[t] = 1
          BY <3>3, <4>3 DEF SendPart, Leave, TypeOK
        <5> QED BY <5>1 DEF Own
      <4>4. CASE part[t] # LastPart(msg[t])
        <5>1. part'[t] = part[t] + 1 /\ UNCHANGED <<proxyActive, pc, msg, owner>> /\ pc[t] = "send"
          BY <3>3, <4>4 DEF SendPart, TypeOK
        <5> QED BY <5>1, <4>2, <4>4, <2>2 DEF Own, posted
      <4> QED BY <4>3, <4>4
    <3>4. CASE SendFails(t)
      <4>1. pc[t] = "send" /\ pc'[t] \in {"close", "failed"} /\ part'[t] = 1
            /\ UNCHANGED <<proxyActive, msg, owner>>
        BY <3>4 DEF SendFails, Leave, TypeOK
      <4>2. pc'[t] = "close" => tries'[t] = 1
        BY <3>4 DEF SendFails, Leave, TypeOK
      <4> QED BY <4>1, <4>2, <2>2 DEF Own, posted
    <3>5. CASE CloseStream(t) \/ Reconnect(t) \/ ReconnectFails(t)
      <4>1. /\ pc[t] \in {"close", "connect"} /\ pc'[t] \in {"connect", "begin", "failed"}
            /\ UNCHANGED <<proxyActive, msg, owner, part, tries>>
        BY <3>5 DEF CloseStream, Reconnect, ReconnectFails, TypeOK, postVars
      <4> QED BY <4>1, <2>2 DEF Own, posted
    <3> QED BY <1>1, <3>1, <3>2, <3>3, <3>4, <3>5 DEF PostStep
  <2> QED BY <2>1, <2>3, OwnIs
<1>2. ASSUME UNCHANGED <<pc, msg, part, tries, owner>>, proxyActive => proxyActive'
      PROVE  PostsAreOwn'
  BY <1>2 DEF PostsAreOwn, posted
<1>3. CASE ActivateProxy
  BY <1>2, <1>3 DEF ActivateProxy, postVars
<1>4. CASE Activate \/ ActivateFails \/ Deactivate \/ NoticeClosed
  BY <1>2, <1>4 DEF Activate, ActivateFails, linkVars, Deactivate, NoticeClosed, proxyVars, postVars
<1>5. CASE ReactorStep \/ \E c \in Conn : Break(c)
  BY <1>2, <1>5 DEF ReactorStep, Accept, Receive, EndOfStream, Break, proxyVars, postVars
<1>6. CASE UNCHANGED vars
  BY <1>2, <1>6 DEF vars, proxyVars, postVars
<1> QED BY <1>1, <1>3, <1>4, <1>5, <1>6 DEF Next

(* The connections: one is made, or they are closed or break.               *)
Grow ==
    /\ made' = made + 1 /\ open' = open \cup {made'} /\ up' = up \cup {made'}
    /\ clientStream' \in open'
    /\ UNCHANGED <<units, listening, active, acceptor, registered, connectorMap>>
    /\ listening /\ proxyActive' /\ accidents \subseteq accidents'
    /\ Without({"overtaken"})' => \A c \in up : units[c] = <<>> /\ c \notin open
Shrink ==
    /\ made' = made /\ open' \subseteq open /\ up' \subseteq up
    /\ proxyActive => proxyActive'
    /\ clientStream' \in {Closed, clientStream}
    /\ clientStream' # Closed => open' = open
    /\ registered' /\ listening' => active'
    /\ registered' => acceptor' # "none"
    /\ accidents \subseteq accidents'
    /\ \A c \in Conn : units'[c] # <<>> =>
          c \in up' /\ (units[c] # <<>> \/ c \in open)
    /\ Without(Loss)' => (active' \/ connectorMap' = {}) /\ (open \subseteq up => open' \subseteq up')

(* Every step makes at most one connection.                                 *)
LEMMA LinksDo == ASSUME IInv, [Next]_vars PROVE Grow \/ Shrink
<1>a. TypeOK /\ PostsAreOwn /\ StreamIsOpen
  BY DEF IInv, TransportInv
<1> USE <1>a
<1>1. CASE ActivateProxy
  <2>1. made' = made + 1 /\ open' = open \cup {made'} /\ up' = up \cup {made'}
        /\ clientStream' \in open' /\ units' = units /\ listening
    BY <1>1, ConnectedTypes DEF ActivateProxy
  <2>2. made = 0
    BY <1>1 DEF ActivateProxy, StreamIsOpen
  <2>3. up = {}
    BY <2>2 DEF TypeOK
  <2>4. UNCHANGED <<listening, active, acceptor, registered, connectorMap, accidents>> /\ proxyActive'
    BY <1>1 DEF ActivateProxy, boxVars
  <2> QED BY <2>1, <2>3, <2>4 DEF Grow
<1>2. ASSUME NEW t \in Poster, Reconnect(t) PROVE Grow
  <2>1. made' = made + 1 /\ open' = open \cup {made'} /\ up' = up \cup {made'}
        /\ clientStream' \in open' /\ units' = units /\ listening
    BY <1>2, ConnectedTypes DEF Reconnect
  <2>2. proxyActive' /\ UNCHANGED <<listening, active, acceptor, registered, connectorMap>>
    BY <1>2 DEF Reconnect, PostsAreOwn, boxVars
  <2>3. accidents \subseteq accidents'
        /\ ((\E c \in up : units[c] # <<>> \/ c \in open) => "overtaken" \in accidents')
    BY <1>2 DEF Reconnect
  <2> QED BY <2>1, <2>2, <2>3 DEF Grow, Without
<1>3. ASSUME NEW t \in Poster, CloseStream(t) PROVE Shrink
  BY <1>3 DEF CloseStream, Shrink, StreamIsOpen, Without, boxVars
<1>4. ASSUME NEW t \in Poster,
             Post(t) \/ BeginSend(t) \/ SendFails(t) \/ ReconnectFails(t)
      PROVE  Shrink
  BY <1>4 DEF Post, BeginSend, SendFails, ReconnectFails, Shrink, StreamIsOpen, Without, linkVars, boxVars
<1>5. ASSUME NEW t \in Poster, SendPart(t) PROVE Shrink
  <2>1. PICK c \in Conn : Writes(t, c)
    BY <1>5, SendPartDoes
  <2>2. UNCHANGED <<proxyActive, clientStream, made, open, up, listening, active, acceptor, registered, connectorMap>>
    BY <1>5 DEF SendPart, boxVars
  <2>3. \A d \in Conn : units'[d] # <<>> => d \in up /\ (units[d] # <<>> \/ d \in open)
    BY <2>1 DEF Writes, StreamIsOpen
  <2>4. accidents \subseteq accidents'
    BY <2>1 DEF Writes
  <2> QED BY <2>2, <2>3, <2>4 DEF Shrink, StreamIsOpen, Without
<1>6. ASSUME NEW c \in Conn, Break(c) PROVE Shrink
  <2>1. accidents \subseteq accidents' /\ ~Without(Loss)'
    BY <1>6, LosesIs DEF Break, Loss
  <2>2. \A d \in Conn : units'[d] # <<>> => d # c /\ units'[d] = units[d]
    BY <1>6 DEF Break, TypeOK
  <2>3. up' = up \ {c} /\ UNCHANGED <<proxyActive, clientStream, made, open, listening, active, acceptor, registered, connectorMap>>
    BY <1>6 DEF Break, proxyVars, boxVars
  <2> QED BY <2>1, <2>2, <2>3 DEF Shrink, StreamIsOpen, Without
<1>7. CASE Deactivate
  <2>1. accidents \subseteq accidents' /\ ~Without(Loss)'
    BY <1>7, LosesIs DEF Deactivate, Loss
  <2>2. \A d \in Conn : units'[d] # <<>> => d \in up' /\ units'[d] = units[d]
    BY <1>7 DEF Deactivate
  <2>3. up' \subseteq up /\ listening' = FALSE
        /\ UNCHANGED <<proxyActive, clientStream, made, open, acceptor, registered>>
    BY <1>7 DEF Deactivate, proxyVars
  <2> QED BY <2>1, <2>2, <2>3 DEF Shrink, StreamIsOpen, Without
<1>8. ASSUME NEW c \in Conn, EndOfStream(c) PROVE Shrink
  BY <1>8 DEF EndOfStream, Shrink, StreamIsOpen, Without, TypeOK, proxyVars
<1>9. CASE Activate
  <2>1. accidents \subseteq accidents'
    BY <1>9 DEF Activate
  <2> QED BY <1>9, <2>1 DEF Activate, Shrink, StreamIsOpen, Without, proxyVars, linkVars
<1>10. CASE NoticeClosed \/ Accept
  <2>1. accidents \subseteq accidents'
    BY <1>10 DEF NoticeClosed, Accept
  <2> QED BY <1>10, <2>1 DEF NoticeClosed, Accept, Shrink, StreamIsOpen, Without, proxyVars, linkVars
<1>11. ASSUME NEW c \in Conn, Receive(c) PROVE Shrink
  <2>1. PICK k \in 1 .. Len(units[c]), r \in Received : Takes(c, k, r)
    BY <1>11, ReceiveDoes
  <2>2. units[c] # <<>>
    BY <2>1, ElementsAre
  <2>3. \A d \in Conn : units'[d] # <<>> => units[d] # <<>>
    BY <2>1, <2>2 DEF Takes
  <2>4. accidents \subseteq accidents'
    BY <2>1 DEF Takes
  <2>5. UNCHANGED <<proxyActive, clientStream, made, open, up, listening, active, acceptor, registered, connectorMap>>
    BY <1>11 DEF Receive, proxyVars
  <2> QED BY <2>3, <2>4, <2>5 DEF Shrink, StreamIsOpen, Without
<1>12. CASE UNCHANGED vars
  BY <1>12 DEF vars, Shrink, StreamIsOpen, Without, proxyVars, linkVars, boxVars
<1>13. CASE ActivateFails
  <2>1. accidents \subseteq accidents' /\ acceptor' # "none"
    BY <1>13 DEF ActivateFails
  <2>2. UNCHANGED <<proxyActive, clientStream, made, units, open, up, active, registered,
                    connectorMap>> /\ ~active
    BY <1>13 DEF ActivateFails, proxyVars, linkVars
  <2>3. ~(registered' /\ listening')
    BY <1>13 DEF ActivateFails, StreamIsOpen
  <2> QED BY <2>1, <2>2, <2>3 DEF Shrink, StreamIsOpen, Without
<1> QED BY <1>1, <1>2, <1>3, <1>4, <1>5, <1>6, <1>7, <1>8, <1>9, <1>10, <1>11, <1>12, <1>13
        DEF Next, PostStep, ReactorStep

(* What is stored in the stream stays open.                                 *)
LEMMA StreamIsOpenKept == ASSUME IInv, [Next]_vars PROVE StreamIsOpen'
<1>1. CASE Grow
  <2>1. made \in Nat /\ Closed = 0
    BY DEF IInv, TransportInv, TypeOK, Closed
  <2> QED BY <1>1, <2>1 DEF Grow, IInv, TransportInv, StreamIsOpen, Without
<1>2. CASE Shrink
  BY <1>2 DEF Shrink, IInv, TransportInv, StreamIsOpen, Without
<1> QED BY <1>1, <1>2, LinksDo

(* A connection is made when no other holds parts, or that is on record.    *)
LEMMA OnlyNewestKept == ASSUME IInv, [Next]_vars PROVE OnlyNewest'
<1>1. CASE Grow
  BY <1>1 DEF Grow, IInv, TransportInv, OnlyNewest, Without, TypeOK
<1>2. CASE Shrink
  <2>1. up \subseteq Conn
    BY ConstantsAssumption DEF IInv, TransportInv, TypeOK, Conn
  <2>2. Without({"overtaken"})' => Without({"overtaken"})
    BY <1>2 DEF Shrink, Without
  <2> QED BY <1>2, <2>1, <2>2 DEF Shrink, IInv, TransportInv, OnlyNewest
<1> QED BY <1>1, <1>2, LinksDo

(***************************************************************************)
(* The order of what is on the way.                                        *)
(***************************************************************************)

(* What a connection still holds was in it before, further back.            *)
Remains(off) ==
    \A c \in Conn :
        /\ off[c] \in Nat
        /\ \A i \in DOMAIN units'[c] :
              /\ i \in Nat \ {0} /\ i + off[c] \in DOMAIN units[c]
              /\ units'[c][i] = units[c][i + off[c]]

(* Of what is not read, what is left has the place it had.                  *)
LEMMA SameRemains ==
    ASSUME TypeOK, units' = units \/ Clears
    PROVE  Remains([c \in Conn |-> 0])
<1>1. \A c \in Conn : units'[c] = units[c] \/ units'[c] = <<>>
  BY DEF Clears
<1>2. \A c \in Conn : \A i \in DOMAIN units[c] : i \in Nat \ {0}
  BY ElementsAre
<1> QED BY <1>1, <1>2 DEF Remains

(* Of what is read from, the rest moves up.                                 *)
LEMMA TakenRemains ==
    ASSUME TypeOK, NEW c \in Conn, NEW k \in 1 .. Len(units[c]), NEW r, Takes(c, k, r)
    PROVE  Remains([d \in Conn |-> IF d = c THEN k ELSE 0])
<1>1. ASSUME NEW i \in DOMAIN units'[c]
      PROVE  i \in Nat \ {0} /\ i + k \in DOMAIN units[c] /\ units'[c][i] = units[c][i + k]
  BY ElementsAre DEF Takes
<1>2. ASSUME NEW d \in Conn, d # c, NEW i \in DOMAIN units'[d]
      PROVE  i \in Nat \ {0} /\ i + 0 \in DOMAIN units[d] /\ units'[d][i] = units[d][i + 0]
  BY <1>2, ElementsAre DEF Takes
<1>3. k \in Nat
  BY ElementsAre
<1> QED BY <1>1, <1>2, <1>3 DEF Remains

(* The part that is written is at the end; the others stay.                 *)
LEMMA WrittenIs ==
    ASSUME TypeOK, NEW t \in Poster, NEW c \in Conn, Writes(t, c)
    PROVE  /\ \A d \in Conn : \A i \in DOMAIN units'[d] :
                 \/ i \in DOMAIN units[d] /\ units'[d][i] = units[d][i]
                 \/ /\ d = c /\ i = Len(units[c]) + 1 /\ c \in up
                    /\ units'[d][i] = <<msg[t], part[t]>>
           /\ \A d \in Conn : \A i \in DOMAIN units[d] :
                 i \in DOMAIN units'[d] /\ units'[d][i] = units[d][i]
           /\ c \in up => \E i \in DOMAIN units'[c] : units'[c][i] = <<msg[t], part[t]>>
<1>1. CASE units'[c] = units[c] /\ c \notin up
  BY <1>1 DEF Writes
<1>2. CASE Extends(units[c], <<msg[t], part[t]>>, units'[c]) /\ c \in up
  <2>1. DOMAIN units[c] = 1 .. Len(units[c]) /\ Len(units[c]) \in Nat
    BY ElementsAre
  <2>2. \A d \in Conn : d # c => units'[d] = units[d]
    BY DEF Writes
  <2>3. /\ Len(units[c]) + 1 \in DOMAIN units'[c]
        /\ units'[c][Len(units[c]) + 1] = <<msg[t], part[t]>>
        /\ \A i \in DOMAIN units'[c] : i \in DOMAIN units[c] \/ i = Len(units[c]) + 1
        /\ \A i \in DOMAIN units[c] : i \in DOMAIN units'[c] /\ units'[c][i] = units[c][i]
    BY <1>2, <2>1 DEF Extends
  <2> QED BY <1>2, <2>2, <2>3
<1> QED BY <1>1, <1>2 DEF Writes

(* The message that is added is at the end; the others stay.                *)
LEMMA AddedIs ==
    ASSUME TypeOK, NEW c \in Conn, NEW r, inbox' = inbox \/ Adds(c, r)
    PROVE  /\ \A j \in DOMAIN inbox' :
                 \/ j \in DOMAIN inbox /\ inbox'[j] = inbox[j]
                 \/ /\ j \notin DOMAIN inbox /\ j = Len(inbox) + 1
                    /\ inbox'[j] = r /\ Adds(c, r)
           /\ \A j \in DOMAIN inbox : j \in DOMAIN inbox' /\ inbox'[j] = inbox[j]
<1>1. DOMAIN inbox = 1 .. Len(inbox) /\ Len(inbox) \in Nat
  BY ElementsAre
<1>2. CASE Adds(c, r)
  BY <1>1, <1>2 DEF Adds, Extends
<1>3. CASE inbox' = inbox
  BY <1>3
<1> QED BY <1>2, <1>3

(* A new message is the last of all; the others keep their threads.         *)
LEMMA BegunIs ==
    ASSUME TypeOK, NEW t \in Poster, Begins(t)
    PROVE  /\ posted \in Nat /\ posted' = posted + 1 /\ owner'[posted + 1] = t
           /\ \A n \in Msg : n <= posted => owner'[n] = owner[n] /\ n # posted + 1
           /\ msg'[t] = posted + 1 /\ pc'[t] = "begin"
           /\ \A u \in Poster \ {t} : msg'[u] = msg[u] /\ pc'[u] = pc[u]
<1>1. posted \in Nat /\ posted = Len(owner)
  BY ElementsAre DEF posted
<1>2. \A n \in Msg : n \in Nat /\ n # 0
  BY NumbersAre
<1> QED BY <1>1, <1>2 DEF Begins, Extends, TypeOK, posted

(* What NothingIsNew says of one message that is on the way.                *)
NotNew(n) == n <= posted /\ \A t \in Poster : msg[t] # 0 /\ owner[n] = t => n <= msg[t]

(* NothingIsNew, message by message.                                        *)
LEMMA NothingIsNewIs ==
    /\ NothingIsNew <=> /\ \A c \in Conn : \A i \in DOMAIN units[c] : NotNew(units[c][i][1])
                        /\ \A j \in DOMAIN inbox : NotNew(inbox[j].msg)
    /\ NothingIsNew' <=> /\ \A c \in Conn : \A i \in DOMAIN units'[c] : NotNew(units[c][i][1])'
                         /\ \A j \in DOMAIN inbox' : NotNew(inbox[j].msg)'
  BY DEF NothingIsNew, NotNew

(* What is written is the message its thread is at.                         *)
LEMMA NothingIsNewKept == ASSUME IInv, [Next]_vars PROVE NothingIsNew'
<1> USE DEF IInv, TransportInv
<1>1. CASE Quiet
  BY <1>1 DEF Quiet, NothingIsNew, posted
<1>2. ASSUME NEW t \in Poster, Begins(t) PROVE NothingIsNew'
  <2>1. ASSUME NEW n \in Msg, NotNew(n)
        PROVE  n <= posted' /\ \A u \in Poster : msg'[u] # 0 /\ owner'[n] = u => n <= msg'[u]
    BY <1>2, <2>1, BegunIs, NumbersAre DEF NotNew
  <2>2. units' = units /\ inbox' = inbox
    BY <1>2 DEF Begins
  <2> QED BY <2>1, <2>2, NothingIsNewIs, ElementsAre DEF NotNew
<1>3. ASSUME NEW t \in Poster, NEW c \in Conn, Writes(t, c) PROVE NothingIsNew'
  <2>1. msg[t] \in Msg /\ msg[t] <= posted /\ owner[msg[t]] = t
    BY <1>3, MessageOfThread DEF Writes
  <2>2. posted' = posted /\ owner' = owner /\ inbox' = inbox
    BY <1>3 DEF Writes, posted
  <2>3. \A u \in Poster : msg'[u] \in {msg[u], 0}
    BY <1>3 DEF Writes
  <2>4. ASSUME NEW n, NotNew(n)
        PROVE  n <= posted' /\ \A u \in Poster : msg'[u] # 0 /\ owner'[n] = u => n <= msg'[u]
    BY <2>2, <2>3, <2>4 DEF NotNew
  <2>5. NotNew(msg[t])
    BY <2>1, NumbersAre DEF NotNew
  <2>6. \A d \in Conn : \A i \in DOMAIN units'[d] : NotNew(units'[d][i][1])
    BY <1>3, <2>5, WrittenIs, NothingIsNewIs
  <2> QED BY <2>2, <2>4, <2>6, NothingIsNewIs DEF NotNew
<1>4. CASE Clears
  <2>1. \A c \in Conn : \A i \in DOMAIN units'[c] :
           i \in DOMAIN units[c] /\ units'[c][i] = units[c][i]
    BY <1>4 DEF Clears
  <2> QED BY <1>4, <2>1 DEF Clears, NothingIsNew, posted
<1>5. ASSUME NEW c \in Conn, NEW k \in 1 .. Len(units[c]), NEW r \in Received, Takes(c, k, r)
      PROVE  NothingIsNew'
  <2>1. PICK off : Remains(off)
    BY <1>5, TakenRemains
  <2>2. \A d \in Conn : \A i \in DOMAIN units'[d] : NotNew(units'[d][i][1])
    BY <2>1, NothingIsNewIs DEF Remains
  <2>3. Adds(c, r) => NotNew(r.msg)
    <3>1. 1 \in DOMAIN units[c]
      BY ElementsAre
    <3> QED BY <3>1, NothingIsNewIs DEF Adds
  <2>4. \A j \in DOMAIN inbox' : NotNew(inbox'[j].msg)
    BY <1>5, <2>3, AddedIs, NothingIsNewIs DEF Takes
  <2>5. UNCHANGED <<owner, msg>>
    BY <1>5 DEF Takes
  <2> QED BY <2>2, <2>4, <2>5, NothingIsNewIs DEF NotNew, posted
<1> QED BY <1>1, <1>2, <1>3, <1>4, <1>5, StepDoes

(* Two messages that are on the way keep their order.                       *)
LEMMA FollowsKept ==
    ASSUME IInv, [Next]_vars, NEW n \in Msg, NEW m \in Msg, n <= posted, m <= posted, Follows(n, m)
    PROVE  Follows(n, m)'
<1>1. CASE owner' = owner
  BY <1>1 DEF Follows
<1>2. ASSUME NEW t \in Poster, Begins(t) PROVE Follows(n, m)'
  BY <1>2, BegunIs DEF Follows, IInv, TransportInv
<1> QED BY <1>1, <1>2, StepDoes DEF Quiet, Writes, Clears, Takes

(* The messages of a thread follow each other, in the threads known before the step.*)
LEMMA OrderOnTheWay ==
    ASSUME IInv, [Next]_vars, Without({"overtaken"})'
    PROVE  /\ Without({"overtaken"})
           /\ \A c \in Conn : \A i, j \in DOMAIN units'[c] :
                 i < j => Follows(units'[c][i][1], units'[c][j][1])
           /\ \A c \in Conn : \A i \in DOMAIN units'[c] : \A j \in DOMAIN inbox' :
                 Follows(inbox'[j].msg, units'[c][i][1])
           /\ \A i, j \in DOMAIN inbox' : i < j => Follows(inbox'[i].msg, inbox'[j].msg)
<1> USE DEF IInv, TransportInv
<1>1. Without({"overtaken"})
  BY StepDoes DEF Quiet, Begins, Writes, Clears, Takes, Without
<1>2. /\ \A c \in Conn : \A i, j \in DOMAIN units[c] :
            i < j => Follows(units[c][i][1], units[c][j][1])
      /\ \A c \in Conn : \A i \in DOMAIN units[c] : \A j \in DOMAIN inbox :
            Follows(inbox[j].msg, units[c][i][1])
      /\ \A i, j \in DOMAIN inbox : i < j => Follows(inbox[i].msg, inbox[j].msg)
  BY <1>1 DEF OrderIsKept, OrderOfOneThread, Follows
<1>3. CASE units' = units /\ inbox' = inbox
  BY <1>1, <1>2, <1>3
<1>4. CASE Clears
  BY <1>1, <1>2, <1>4 DEF Clears
<1>5. ASSUME NEW t \in Poster, NEW c \in Conn, Writes(t, c)
      PROVE  /\ \A d \in Conn : \A i, j \in DOMAIN units'[d] :
                   i < j => Follows(units'[d][i][1], units'[d][j][1])
             /\ \A d \in Conn : \A i \in DOMAIN units'[d] : \A j \in DOMAIN inbox :
                   Follows(inbox[j].msg, units'[d][i][1])
             /\ inbox' = inbox
  <2>1. msg[t] \in Msg /\ owner[msg[t]] = t
    BY <1>5, MessageOfThread DEF Writes
  <2>2. ASSUME NEW n, NotNew(n) PROVE Follows(n, msg[t])
    BY <2>1, <2>2, NumbersAre DEF NotNew, Follows
  <2>3. \A d \in Conn : \A i \in DOMAIN units[d] : Follows(units[d][i][1], msg[t])
    BY <2>2, NothingIsNewIs
  <2>4. \A j \in DOMAIN inbox : Follows(inbox[j].msg, msg[t])
    BY <2>2, NothingIsNewIs
  <2>5. \A d \in Conn : \A i \in DOMAIN units[d] : i \in Nat /\ i <= Len(units[d])
    BY ElementsAre
  <2>6. ASSUME NEW d \in Conn, NEW i \in DOMAIN units'[d], NEW j \in DOMAIN units'[d], i < j
        PROVE  Follows(units'[d][i][1], units'[d][j][1])
    <3>1. CASE j \in DOMAIN units[d] /\ units'[d][j] = units[d][j]
      <4>1. i \in DOMAIN units[d] /\ units'[d][i] = units[d][i]
        <5>1. Len(units[d]) \in Nat /\ j <= Len(units[d]) /\ j \in Nat
          BY <3>1, <2>5, ElementsAre
        <5> QED BY <1>5, <2>6, <5>1, WrittenIs
      <4> QED BY <2>6, <3>1, <4>1, <1>2
    <3>2. CASE d = c /\ j = Len(units[c]) + 1 /\ units'[d][j] = <<msg[t], part[t]>>
      <4>1. i # Len(units[c]) + 1
        BY <2>6, <3>2, ElementsAre
      <4>2. i \in DOMAIN units[d] /\ units'[d][i] = units[d][i]
        BY <1>5, <4>1, WrittenIs
      <4> QED BY <3>2, <4>2, <2>3
    <3> QED BY <1>5, <3>1, <3>2, WrittenIs
  <2>7. \A d \in Conn : \A i \in DOMAIN units'[d] : \A j \in DOMAIN inbox :
           Follows(inbox[j].msg, units'[d][i][1])
    BY <1>5, <1>2, <2>4, WrittenIs
  <2>8. inbox' = inbox
    BY <1>5 DEF Writes
  <2> QED BY <2>6, <2>7, <2>8
<1>6. ASSUME NEW c \in Conn, NEW k \in 1 .. Len(units[c]), NEW r \in Received, Takes(c, k, r)
      PROVE  /\ \A d \in Conn : \A i, j \in DOMAIN units'[d] :
                   i < j => Follows(units'[d][i][1], units'[d][j][1])
             /\ \A d \in Conn : \A i \in DOMAIN units'[d] : \A j \in DOMAIN inbox' :
                   Follows(inbox'[j].msg, units'[d][i][1])
             /\ \A i, j \in DOMAIN inbox' : i < j => Follows(inbox'[i].msg, inbox'[j].msg)
  <2> DEFINE off == [d \in Conn |-> IF d = c THEN k ELSE 0]
  <2>1. Remains(off)
    BY <1>6, TakenRemains
  <2>2. ASSUME NEW d \in Conn, NEW i \in DOMAIN units'[d]
        PROVE  /\ i \in Nat \ {0} /\ off[d] \in Nat /\ i + off[d] \in DOMAIN units[d]
               /\ units'[d][i] = units[d][i + off[d]]
    BY <2>1, <2>2 DEF Remains
  <2>3. 1 \in DOMAIN units[c] /\ units[c] # <<>>
    BY ElementsAre
  <2>4. ASSUME NEW d \in Conn, NEW i \in DOMAIN units'[d], Adds(c, r)
        PROVE  Follows(r.msg, units'[d][i][1])
    <3>1. d = c
      <4>1. units[d] # <<>>
        BY <2>2, <2>4, ElementsAre
      <4>2. c \in up /\ d \in up
        BY <2>3, <4>1 DEF StreamIsOpen
      <4> QED BY <1>1, <2>3, <4>1, <4>2 DEF OnlyNewest
    <3>2. i + k \in DOMAIN units[c] /\ units'[c][i] = units[c][i + k] /\ 1 < i + k
      BY <2>2, <2>4, <3>1, ElementsAre
    <3>3. Follows(units[c][1][1], units[c][i + k][1])
      BY <2>3, <3>2, <1>2
    <3>4. units[c][1][1] = r.msg
      BY <2>4 DEF Adds
    <3> QED BY <3>1, <3>2, <3>3, <3>4
  <2> HIDE DEF off
  <2>5. \A d \in Conn : \A i, j \in DOMAIN units'[d] :
           i < j => Follows(units'[d][i][1], units'[d][j][1])
    <3> SUFFICES ASSUME NEW d \in Conn, NEW i \in DOMAIN units'[d],
                        NEW j \in DOMAIN units'[d], i < j
                 PROVE  Follows(units'[d][i][1], units'[d][j][1])
      OBVIOUS
    <3>1. i + off[d] < j + off[d]
      BY <2>2
    <3> QED BY <2>2, <3>1, <1>2
  <2>6. \A d \in Conn : \A i \in DOMAIN units'[d] : \A j \in DOMAIN inbox' :
           Follows(inbox'[j].msg, units'[d][i][1])
    <3> SUFFICES ASSUME NEW d \in Conn, NEW i \in DOMAIN units'[d], NEW j \in DOMAIN inbox'
                 PROVE  Follows(inbox'[j].msg, units'[d][i][1])
      OBVIOUS
    <3>1. CASE j \in DOMAIN inbox /\ inbox'[j] = inbox[j]
      BY <3>1, <2>2, <1>2
    <3>2. CASE inbox'[j] = r /\ Adds(c, r)
      BY <3>2, <2>4
    <3> QED BY <1>6, <3>1, <3>2, AddedIs DEF Takes
  <2>7. \A j \in DOMAIN inbox : Adds(c, r) => Follows(inbox[j].msg, r.msg)
    <3>1. Adds(c, r) => units[c][1][1] = r.msg
      BY DEF Adds
    <3> QED BY <2>3, <3>1, <1>2
  <2>8. \A i, j \in DOMAIN inbox' : i < j => Follows(inbox'[i].msg, inbox'[j].msg)
    <3> SUFFICES ASSUME NEW i \in DOMAIN inbox', NEW j \in DOMAIN inbox', i < j
                 PROVE  Follows(inbox'[i].msg, inbox'[j].msg)
      OBVIOUS
    <3>1. i \in DOMAIN inbox /\ inbox'[i] = inbox[i]
      <4>1. Len(inbox) \in Nat /\ \A n \in DOMAIN inbox : n \in Nat /\ n <= Len(inbox)
        BY ElementsAre
      <4>2. j \in DOMAIN inbox \/ j = Len(inbox) + 1
        BY <1>6, AddedIs DEF Takes
      <4>3. i # Len(inbox) + 1
        BY <4>1, <4>2
      <4> QED BY <1>6, <4>3, AddedIs DEF Takes
    <3> QED BY <1>6, <3>1, <1>2, <2>7, AddedIs DEF Takes
  <2> QED BY <2>5, <2>6, <2>8
<1>7. \/ units' = units /\ inbox' = inbox
      \/ Clears
      \/ \E t \in Poster, c \in Conn : Writes(t, c)
      \/ \E c \in Conn : \E k \in 1 .. Len(units[c]), r \in Received : Takes(c, k, r)
  BY StepDoes DEF Quiet, Begins
<1> QED BY <1>1, <1>2, <1>3, <1>4, <1>5, <1>6, <1>7

(* The same, in the threads known after it.                                 *)
LEMMA OrderKept == ASSUME IInv, [Next]_vars PROVE OrderIsKept' /\ OrderOfOneThread'
<1> USE DEF IInv, TransportInv
<1> SUFFICES ASSUME Without({"overtaken"})'
             PROVE  /\ \A c \in Conn : \A i \in DOMAIN units'[c] :
                          /\ \A j \in DOMAIN units'[c] :
                                i < j => Follows(units[c][i][1], units[c][j][1])'
                          /\ \A j \in DOMAIN inbox' : Follows(inbox[j].msg, units[c][i][1])'
                    /\ \A i, j \in DOMAIN inbox' : i < j => Follows(inbox[i].msg, inbox[j].msg)'
  BY DEF OrderIsKept, OrderOfOneThread, Follows
<1>1. CASE owner' = owner
  BY <1>1, OrderOnTheWay DEF Follows
<1>2. ASSUME NEW t \in Poster, Begins(t)
      PROVE  /\ units' = units /\ inbox' = inbox
             /\ \A n, m \in Msg : n <= posted /\ m <= posted /\ Follows(n, m) => Follows(n, m)'
  BY <1>2, FollowsKept DEF Begins
<1>3. /\ \A c \in Conn : \A i \in DOMAIN units[c] : units[c][i][1] \in Msg /\ units[c][i][1] <= posted
      /\ \A j \in DOMAIN inbox : inbox[j].msg \in Msg /\ inbox[j].msg <= posted
  BY ElementsAre DEF NothingIsNew
<1>4. ASSUME NEW t \in Poster, Begins(t)
      PROVE  /\ \A c \in Conn : \A i \in DOMAIN units'[c] :
                          /\ \A j \in DOMAIN units'[c] :
                                i < j => Follows(units[c][i][1], units[c][j][1])'
                          /\ \A j \in DOMAIN inbox' : Follows(inbox[j].msg, units[c][i][1])'
             /\ \A i, j \in DOMAIN inbox' : i < j => Follows(inbox[i].msg, inbox[j].msg)'
  <2>1. units' = units /\ inbox' = inbox
    BY <1>2, <1>4
  <2>2. \A n, m \in Msg : n <= posted /\ m <= posted /\ Follows(n, m) =>
           (owner'[n] = owner'[m] => n <= m)
    BY <1>2, <1>4 DEF Follows
  <2> QED BY <2>1, <2>2, <1>3, OrderOnTheWay DEF Follows
<1> QED BY <1>1, <1>4, StepDoes DEF Quiet, Writes, Clears, Takes

(***************************************************************************)
(* Every message once.                                                     *)
(***************************************************************************)

(* What FirstPartsAreSingle says of one message.                            *)
OneFirst(n) ==
    \A c, d \in Conn : \A i \in DOMAIN units[c], j \in DOMAIN units[d] :
        units[c][i] = <<n, 1>> /\ units[d][j] = <<n, 1>> => c = d /\ i = j
FirstBeforeArrival(n) == \A j \in DOMAIN inbox : inbox[j].msg = n => ~FirstIsSent(n)
NotBegun(n) ==
    \A t \in Poster : msg[t] = n /\ Unsent(t) =>
        ~FirstIsSent(n) /\ \A j \in DOMAIN inbox : inbox[j].msg # n
Single(n) == OneFirst(n) /\ FirstBeforeArrival(n) /\ NotBegun(n)

(* FirstPartsAreSingle, message by message.                                 *)
LEMMA SingleIs ==
    /\ FirstPartsAreSingle <=> \A n \in Msg \ sentInPart : Single(n)
    /\ FirstPartsAreSingle' <=> \A n \in Msg \ sentInPart' : Single(n)'
  BY DEF FirstPartsAreSingle, Single, OneFirst, FirstBeforeArrival, NotBegun

(* The first part of a message is not written again before a send failed after it.*)
LEMMA FirstPartsKept == ASSUME IInv, [Next]_vars PROVE FirstPartsAreSingle'
<1> USE DEF IInv, TransportInv
<1> SUFFICES ASSUME NEW n \in Msg, n \notin sentInPart' PROVE Single(n)'
  BY SingleIs
<1>1. Single(n) /\ n \notin sentInPart
  BY SingleIs, StepDoes DEF Quiet, Begins, Writes, Clears, Takes
<1>2. CASE Quiet
  BY <1>1, <1>2 DEF Quiet, Single, OneFirst, FirstBeforeArrival, NotBegun, FirstIsSent, Holds
<1>3. ASSUME NEW t \in Poster, Begins(t) PROVE Single(n)'
  <2>1. units' = units /\ inbox' = inbox /\ part' = part
    BY <1>3 DEF Begins
  <2>2. OneFirst(n)' /\ FirstBeforeArrival(n)'
    BY <1>1, <2>1 DEF Single, OneFirst, FirstBeforeArrival, FirstIsSent, Holds
  <2>3. ASSUME n = posted + 1
        PROVE  ~FirstIsSent(n) /\ \A j \in DOMAIN inbox : inbox[j].msg # n
    <3>1. posted \in Nat /\ ~(n <= posted)
      BY <2>3, ElementsAre
    <3> QED BY <3>1 DEF NothingIsNew, FirstIsSent, Holds
  <2>4. \A u \in Poster \ {t} : msg'[u] = msg[u] /\ pc'[u] = pc[u]
    BY <1>3, BegunIs
  <2>5. msg'[t] = posted + 1
    BY <1>3, BegunIs
  <2>6. NotBegun(n)'
    BY <1>1, <2>1, <2>3, <2>4, <2>5 DEF Single, NotBegun, Unsent, FirstIsSent, Holds
  <2> QED BY <2>2, <2>6 DEF Single
<1>4. ASSUME NEW t \in Poster, NEW c \in Conn, Writes(t, c) PROVE Single(n)'
  <2>1. msg[t] \in Msg /\ owner[msg[t]] = t /\ pc[t] = "send" /\ part[t] \in 1 .. 3
    BY <1>4, MessageOfThread DEF Writes, TypeOK
  <2>2. inbox' = inbox
    BY <1>4 DEF Writes
  <2>3. ASSUME NEW u \in Poster, msg'[u] = n, Unsent(u)'
        PROVE  u # t /\ msg[u] = n /\ Unsent(u) /\ n # msg[t]
    <3>1. u # t
      <4>1. msg'[t] # 0 => pc'[t] = "send" /\ part'[t] = part[t] + 1
        BY <1>4 DEF Writes
      <4>2. part[t] + 1 # 1 /\ n # 0
        BY <2>1, NumbersAre
      <4> QED BY <2>3, <4>1, <4>2 DEF Unsent
    <3>2. msg[u] = n /\ Unsent(u)
      BY <1>4, <2>3, <3>1 DEF Writes, Unsent
    <3>3. owner[n] = u
      BY <3>2, NumbersAre DEF PostsAreOwn
    <3> QED BY <3>1, <3>2, <3>3, <2>1
  <2>4. CASE n = msg[t] /\ part[t] = 1
    <3>1. Unsent(t)
      BY <2>4 DEF Unsent
    <3>2. ~FirstIsSent(n) /\ \A j \in DOMAIN inbox : inbox[j].msg # n
      BY <1>1, <2>4, <3>1 DEF Single, NotBegun
    <3>3. \A d \in Conn : \A i \in DOMAIN units'[d] :
             units'[d][i] = <<n, 1>> => d = c /\ i = Len(units[c]) + 1
      BY <1>4, <3>2, WrittenIs DEF FirstIsSent, Holds
    <3>4. OneFirst(n)'
      BY <3>3 DEF OneFirst
    <3>5. FirstBeforeArrival(n)'
      BY <2>2, <3>2 DEF FirstBeforeArrival
    <3>6. NotBegun(n)'
      BY <2>3, <2>4 DEF NotBegun
    <3> QED BY <3>4, <3>5, <3>6 DEF Single
  <2>5. CASE ~(n = msg[t] /\ part[t] = 1)
    <3>1. <<msg[t], part[t]>> # <<n, 1>>
      BY <2>5
    <3>2. \A d \in Conn : \A i \in DOMAIN units'[d] :
             units'[d][i] = <<n, 1>> => i \in DOMAIN units[d] /\ units[d][i] = <<n, 1>>
      BY <1>4, <3>1, WrittenIs
    <3>3. OneFirst(n)'
      BY <1>1, <3>2 DEF Single, OneFirst
    <3>4. FirstIsSent(n)' => FirstIsSent(n)
      BY <3>2 DEF FirstIsSent, Holds
    <3>5. FirstBeforeArrival(n)' /\ NotBegun(n)'
      BY <1>1, <2>2, <2>3, <3>4 DEF Single, FirstBeforeArrival, NotBegun
    <3> QED BY <3>3, <3>5 DEF Single
  <2> QED BY <2>4, <2>5
<1>5. CASE Clears
  <2>1. \A c \in Conn : \A i \in DOMAIN units'[c] :
           i \in DOMAIN units[c] /\ units'[c][i] = units[c][i]
    BY <1>5 DEF Clears
  <2>2. OneFirst(n)' /\ (FirstIsSent(n)' => FirstIsSent(n))
    BY <1>1, <2>1 DEF Single, OneFirst, FirstIsSent, Holds
  <2>3. UNCHANGED <<inbox, msg, pc, part>>
    BY <1>5 DEF Clears
  <2>4. FirstBeforeArrival(n)' /\ NotBegun(n)'
    BY <1>1, <2>2, <2>3 DEF Single, FirstBeforeArrival, NotBegun, Unsent
  <2> QED BY <2>2, <2>4 DEF Single
<1>6. ASSUME NEW c \in Conn, NEW k \in 1 .. Len(units[c]), NEW r \in Received, Takes(c, k, r)
      PROVE  Single(n)'
  <2> DEFINE off == [d \in Conn |-> IF d = c THEN k ELSE 0]
  <2>1. Remains(off) /\ off[c] = k
    BY <1>6, TakenRemains
  <2> HIDE DEF off
  <2>2. ASSUME NEW d \in Conn, NEW i \in DOMAIN units'[d]
        PROVE  /\ i \in Nat \ {0} /\ off[d] \in Nat /\ i + off[d] \in DOMAIN units[d]
               /\ units'[d][i] = units[d][i + off[d]]
    BY <2>1, <2>2 DEF Remains
  <2>3. FirstIsSent(n)' => FirstIsSent(n)
    BY <2>2 DEF FirstIsSent, Holds
  <2>4. OneFirst(n)'
    <3> SUFFICES ASSUME NEW d \in Conn, NEW e \in Conn,
                        NEW i \in DOMAIN units'[d], NEW j \in DOMAIN units'[e],
                        units'[d][i] = <<n, 1>>, units'[e][j] = <<n, 1>>
                 PROVE  d = e /\ i = j
      BY DEF OneFirst
    <3>1. d = e /\ i + off[d] = j + off[e]
      <4>1. /\ i + off[d] \in DOMAIN units[d] /\ units[d][i + off[d]] = <<n, 1>>
            /\ j + off[e] \in DOMAIN units[e] /\ units[e][j + off[e]] = <<n, 1>>
        BY <2>2
      <4>2. OneFirst(n)
        BY <1>1 DEF Single
      <4> QED BY <4>1, <4>2 DEF OneFirst
    <3> QED BY <2>2, <3>1
  <2>5. 1 \in DOMAIN units[c]
    BY ElementsAre
  <2>6. ASSUME Adds(c, r), r.msg = n PROVE FirstIsSent(n) /\ ~FirstIsSent(n)'
    <3>1. units[c][1] = <<n, 1>>
      BY <2>6 DEF Adds
    <3>2. ASSUME NEW d \in Conn, NEW i \in DOMAIN units'[d], units'[d][i] = <<n, 1>>
          PROVE  FALSE
      <4>1. d = c /\ i + off[d] = 1
        <5>1. i + off[d] \in DOMAIN units[d] /\ units[d][i + off[d]] = <<n, 1>>
          BY <2>2, <3>2
        <5>2. OneFirst(n)
          BY <1>1 DEF Single
        <5> QED BY <2>5, <3>1, <5>1, <5>2 DEF OneFirst
      <4>2. i \in Nat \ {0} /\ off[c] \in Nat \ {0}
        BY <2>1, <2>2, <3>2, <4>1
      <4> QED BY <4>1, <4>2
    <3> QED BY <2>5, <3>1, <3>2 DEF FirstIsSent, Holds
  <2>7. FirstBeforeArrival(n)'
    BY <1>1, <1>6, <2>3, <2>6, AddedIs DEF Single, FirstBeforeArrival, Takes
  <2>8. NotBegun(n)'
    <3>1. UNCHANGED <<msg, pc, part>>
      BY <1>6 DEF Takes
    <3>2. \A t \in Poster : Unsent(t)' => Unsent(t)
      BY <3>1 DEF Unsent
    <3> QED BY <1>1, <1>6, <2>3, <2>6, <3>1, <3>2, AddedIs DEF Single, NotBegun, Takes
  <2> QED BY <2>4, <2>7, <2>8 DEF Single
<1> QED BY <1>2, <1>3, <1>4, <1>5, <1>6, StepDoes

(* What arrives is the message of a first part, which is gone then.         *)
LEMMA AtMostOnceKept == ASSUME IInv, [Next]_vars PROVE AtMostOnce'
<1> USE DEF IInv, TransportInv
<1>1. CASE inbox' = inbox /\ sentInPart \subseteq sentInPart'
  BY <1>1 DEF AtMostOnce
<1>2. ASSUME NEW c \in Conn, NEW k \in 1 .. Len(units[c]), NEW r \in Received, Takes(c, k, r)
      PROVE  AtMostOnce'
  <2>1. sentInPart' = sentInPart /\ (inbox' = inbox \/ Adds(c, r))
    BY <1>2 DEF Takes
  <2>2. Adds(c, r) => \A j \in DOMAIN inbox : inbox[j].msg = r.msg => r.msg \in sentInPart
    <3>1. 1 \in DOMAIN units[c] /\ units[c][1][1] \in Msg
      BY ElementsAre
    <3>2. Adds(c, r) => units[c][1] = <<r.msg, 1>> /\ r.msg \in Msg
      BY <3>1 DEF Adds
    <3>3. Adds(c, r) => FirstIsSent(r.msg)
      BY <3>1, <3>2 DEF FirstIsSent, Holds
    <3> QED BY <3>2, <3>3, SingleIs DEF Single, FirstBeforeArrival
  <2> QED BY <2>1, <2>2, AddedIs DEF AtMostOnce
<1> QED BY <1>1, <1>2, StepDoes DEF Quiet, Begins, Writes, Clears

(***************************************************************************)
(* What OK means.                                                          *)
(***************************************************************************)
LEMMA DeliveredIs ==
    /\ \A n : n \in Delivered <=> \E j \in DOMAIN inbox : Intact(inbox[j]) /\ inbox[j].msg = n
    /\ \A n : n \in Delivered' <=> \E j \in DOMAIN inbox' : Intact(inbox'[j]) /\ inbox'[j].msg = n
  BY DEF Delivered, Intact

(* Without a loss a part stays in its connection, or its message arrives.   *)
LEMMA PartsStay ==
    ASSUME IInv, [Next]_vars, Without(Loss)'
    PROVE  /\ Without(Loss)
           /\ Delivered \subseteq Delivered'
           /\ \A c \in Conn, n \in Msg, k \in 1 .. 3 :
                 Holds(c, n, k) => Holds(c, n, k)' \/ n \in Delivered'
<1> USE DEF IInv, TransportInv
<1>1. Without(Loss)
  BY StepDoes DEF Quiet, Begins, Writes, Clears, Takes, Without
<1>2. CASE units' = units /\ inbox' = inbox
  BY <1>1, <1>2, DeliveredIs DEF Holds
<1>3. ASSUME NEW t \in Poster, NEW c \in Conn, Writes(t, c)
      PROVE  inbox' = inbox /\ \A d \in Conn, n \in Msg, k \in 1 .. 3 : Holds(d, n, k) => Holds(d, n, k)'
  BY <1>3, WrittenIs DEF Writes, Holds
<1>4. ASSUME NEW c \in Conn, NEW q \in 1 .. Len(units[c]), NEW r \in Received, Takes(c, q, r)
      PROVE  /\ Delivered \subseteq Delivered'
             /\ \A d \in Conn, n \in Msg, k \in 1 .. 3 :
                   Holds(d, n, k) => Holds(d, n, k)' \/ n \in Delivered'
  <2>1. Adds(c, r) /\ Intact(r) /\ \A i \in 1 .. q : units[c][i][1] = r.msg
    BY <1>4 DEF Takes
  <2>2. Delivered \subseteq Delivered'
    BY <2>1, AddedIs, DeliveredIs
  <2>3. r.msg \in Delivered'
    <3>1. Len(inbox) \in Nat
      BY ElementsAre
    <3>2. Len(inbox) + 1 \in DOMAIN inbox' /\ inbox'[Len(inbox) + 1] = r
      BY <2>1, <3>1 DEF Adds, Extends
    <3> QED BY <2>1, <3>2, DeliveredIs
  <2>4. ASSUME NEW n \in Msg, NEW k \in 1 .. 3, Holds(c, n, k)
        PROVE  Holds(c, n, k)' \/ n \in Delivered'
    <3>1. PICK i \in DOMAIN units[c] : units[c][i] = <<n, k>>
      BY <2>4 DEF Holds
    <3>2. DOMAIN units[c] = 1 .. Len(units[c]) /\ Len(units[c]) \in Nat
      BY ElementsAre
    <3>3. CASE i <= q
      <4>1. units[c][i][1] = r.msg
        BY <2>1, <3>2, <3>3
      <4> QED BY <2>3, <3>1, <4>1
    <3>4. CASE i > q
      <4>1. i - q \in DOMAIN units'[c] /\ (i - q) + q = i
        BY <1>4, <3>2, <3>4 DEF Takes
      <4>2. units'[c][i - q] = units[c][i]
        BY <1>4, <4>1 DEF Takes
      <4> QED BY <3>1, <4>1, <4>2 DEF Holds
    <3> QED BY <3>2, <3>3, <3>4
  <2>5. ASSUME NEW d \in Conn, d # c, NEW n, NEW k, Holds(d, n, k) PROVE Holds(d, n, k)'
    BY <1>4, <2>5 DEF Takes, Holds
  <2> QED BY <2>2, <2>4, <2>5
<1>5. \/ units' = units /\ inbox' = inbox
      \/ \E t \in Poster, c \in Conn : Writes(t, c)
      \/ \E c \in Conn : \E q \in 1 .. Len(units[c]), r \in Received : Takes(c, q, r)
  BY StepDoes DEF Quiet, Begins, Clears
<1> QED BY <1>1, <1>2, <1>3, <1>4, <1>5, DeliveredIs

(* Of a message that is being sent, what is written is there or has arrived.*)
LEMMA PartsAreKeptKept == ASSUME IInv, [Next]_vars PROVE PartsAreKept'
<1> USE DEF IInv, TransportInv
<1> SUFFICES ASSUME Without(Loss)', NEW t \in Poster, pc'[t] = "send", handle'[t] \in open',
                    NEW k \in 1 .. part'[t] - 1
             PROVE  msg'[t] \in Delivered' \/ Holds(handle[t], msg[t], k)'
  BY DEF PartsAreKept
<1>1. TypeOK'
  BY TypesAreKept
<1>2. ASSUME pc[t] = "send", handle[t] \in open, handle'[t] = handle[t], msg'[t] = msg[t],
             k \in 1 .. part[t] - 1
      PROVE  msg'[t] \in Delivered' \/ Holds(handle[t], msg[t], k)'
  <2>1. msg[t] \in Delivered \/ Holds(handle[t], msg[t], k)
    BY <1>2, PartsStay DEF PartsAreKept
  <2>2. msg[t] \in Msg
    BY <1>2, MessageOfThread
  <2>3. handle[t] \in Conn
    <3>1. open \subseteq 1 .. made /\ made \in 0 .. MaxConns
      BY DEF TypeOK
    <3>2. handle[t] \in 1 .. made
      BY <1>2, <3>1
    <3> QED BY <3>1, <3>2, ConstantsAssumption DEF Conn
  <2>4. k \in 1 .. 3
    <3>1. part[t] \in 1 .. 3
      BY DEF TypeOK
    <3> QED BY <1>2, <3>1
  <2>5. Holds(handle[t], msg[t], k)' <=>
           \E i \in DOMAIN units'[handle[t]] : units'[handle[t]][i] = <<msg[t], k>>
    BY <1>2 DEF Holds
  <2>6. Delivered \subseteq Delivered'
    BY PartsStay
  <2>7. Holds(handle[t], msg[t], k) =>
           (\E i \in DOMAIN units'[handle[t]] : units'[handle[t]][i] = <<msg[t], k>>) \/ msg[t] \in Delivered'
    BY <2>2, <2>3, <2>4, PartsStay DEF Holds
  <2> QED BY <1>2, <2>1, <2>5, <2>6, <2>7
<1>3. CASE Quiet
  <2>1. part'[t] # 1
    OBVIOUS
  <2> QED BY <1>2, <1>3, <2>1 DEF Quiet
<1>4. ASSUME NEW u \in Poster, Begins(u)
      PROVE  msg'[t] \in Delivered' \/ Holds(handle[t], msg[t], k)'
  <2>1. t # u
    BY <1>4, BegunIs
  <2>2. pc[t] = "send" /\ handle[t] \in open /\ handle'[t] = handle[t] /\ part'[t] = part[t]
        /\ msg'[t] = msg[t]
    BY <1>4, <2>1, BegunIs DEF Begins
  <2> QED BY <1>2, <2>2
<1>5. ASSUME NEW u \in Poster, NEW c \in Conn, Writes(u, c)
      PROVE  msg'[t] \in Delivered' \/ Holds(handle[t], msg[t], k)'
  <2>1. CASE t # u
    BY <1>2, <1>5, <2>1 DEF Writes
  <2>2. CASE t = u
    <3>1. /\ pc[t] = "send" /\ msg'[t] = msg[t] /\ part'[t] = part[t] + 1
          /\ handle'[t] = handle[t] /\ open' = open /\ handle[t] = c /\ c \in open
      BY <1>5, <2>2 DEF Writes
    <3>2. c \in up
      BY <3>1, PartsStay DEF StreamIsOpen
    <3>3. part[t] \in 1 .. 3
      BY DEF TypeOK
    <3>4. CASE k = part[t]
      <4>1. \E i \in DOMAIN units'[c] : units'[c][i] = <<msg[t], part[t]>>
        BY <1>5, <2>2, <3>2, WrittenIs
      <4> QED BY <3>1, <3>4, <4>1 DEF Holds
    <3>5. CASE k # part[t]
      <4>1. k \in 1 .. part[t] - 1
        BY <3>1, <3>3, <3>5
      <4> QED BY <1>2, <3>1, <4>1
    <3> QED BY <3>4, <3>5
  <2> QED BY <2>1, <2>2
<1>6. ASSUME NEW c \in Conn, NEW q \in 1 .. Len(units[c]), NEW r \in Received, Takes(c, q, r)
      PROVE  msg'[t] \in Delivered' \/ Holds(handle[t], msg[t], k)'
  BY <1>2, <1>6 DEF Takes
<1>7. ~Clears
  BY DEF Clears
<1> QED BY <1>3, <1>4, <1>5, <1>6, <1>7, StepDoes

(* OK comes after the last part, when all the parts are there or have arrived.*)
LEMMA OKIsAccountedKept == ASSUME IInv, [Next]_vars PROVE OKIsAccounted'
<1> USE DEF IInv, TransportInv
<1> SUFFICES ASSUME Without(Loss)', NEW n \in answeredOK'
             PROVE  \/ n \in Delivered'
                    \/ \E c \in up' : \A k \in 1 .. LastPart(n) : Holds(c, n, k)'
  BY DEF OKIsAccounted
<1>1. up \subseteq Conn /\ \A m \in answeredOK : m \in Msg
  <2>1. answeredOK \subseteq 1 .. posted /\ posted <= MaxPosts /\ posted \in Nat
    BY ElementsAre DEF TypeOK
  <2>2. up \subseteq 1 .. made /\ made \in 0 .. MaxConns
    BY DEF TypeOK
  <2> QED BY <2>1, <2>2, ConstantsAssumption DEF Msg, Conn
<1>2. ASSUME n \in answeredOK, \A c \in up : units[c] # <<>> => c \in up'
      PROVE  \/ n \in Delivered'
             \/ \E c \in up' : \A k \in 1 .. LastPart(n) : Holds(c, n, k)'
  <2>1. n \in Msg /\ LastPart(n) \in {2, 3}
    BY <1>1, <1>2, NumbersAre
  <2>2. CASE n \in Delivered
    BY <2>2, PartsStay
  <2>3. ASSUME NEW c \in up, \A k \in 1 .. LastPart(n) : Holds(c, n, k), n \notin Delivered'
        PROVE  c \in up' /\ \A k \in 1 .. LastPart(n) : Holds(c, n, k)'
    <3>1. Holds(c, n, 1)
      BY <2>1, <2>3
    <3>2. units[c] # <<>>
      BY <1>1, <3>1, ElementsAre DEF Holds
    <3>3. \A k \in 1 .. LastPart(n) : k \in 1 .. 3
      BY <2>1
    <3> QED BY <1>1, <1>2, <2>1, <2>3, <3>2, <3>3, PartsStay
  <2> QED BY <1>2, <2>2, <2>3, PartsStay DEF OKIsAccounted
<1>3. CASE answeredOK' = answeredOK /\ \A c \in up : units[c] # <<>> => c \in up'
  BY <1>2, <1>3
<1>4. ASSUME NEW t \in Poster, NEW c \in Conn, Writes(t, c)
      PROVE  \/ n \in Delivered'
             \/ \E d \in up' : \A k \in 1 .. LastPart(n) : Holds(d, n, k)'
  <2>1. up' = up
    BY <1>4 DEF Writes
  <2>2. CASE n \in answeredOK
    BY <1>2, <2>1, <2>2
  <2>3. CASE n \notin answeredOK
    <3>1. n = msg[t] /\ part[t] = LastPart(n) /\ handle[t] = c /\ c \in open /\ pc[t] = "send"
      BY <1>4, <2>3 DEF Writes
    <3>2. c \in up
      BY <3>1, PartsStay DEF StreamIsOpen
    <3>3. n \in Msg /\ LastPart(n) \in {2, 3}
      BY <3>1, MessageOfThread, NumbersAre
    <3>4. \A k \in 1 .. part[t] - 1 : n \in Delivered \/ Holds(c, n, k)
      BY <3>1, PartsStay DEF PartsAreKept
    <3>5. \E i \in DOMAIN units'[c] : units'[c][i] = <<n, part[t]>>
      <4>1. \E i \in DOMAIN units'[c] : units'[c][i] = <<msg[t], part[t]>>
        BY <1>4, <3>2, WrittenIs
      <4> QED BY <3>1, <4>1
    <3>6. ASSUME n \notin Delivered', NEW k \in 1 .. LastPart(n) PROVE Holds(c, n, k)'
      <4>1. CASE k = part[t]
        BY <3>5, <4>1 DEF Holds
      <4>2. CASE k # part[t]
        <5>1. k \in 1 .. part[t] - 1 /\ k \in 1 .. 3
          BY <3>1, <3>3, <3>6, <4>2
        <5>2. Holds(c, n, k)
          BY <3>4, <3>6, <5>1, PartsStay
        <5> QED BY <3>3, <3>6, <5>1, <5>2, PartsStay
      <4> QED BY <4>1, <4>2
    <3> QED BY <2>1, <3>2, <3>6
  <2> QED BY <2>2, <2>3
<1>5. ~Clears
  BY DEF Clears
<1> QED BY <1>3, <1>4, <1>5, StepDoes DEF Quiet, Begins, Takes

(***************************************************************************)
(* The theorems.                                                           *)
(***************************************************************************)
LEMMA StartIsWell == Init => IInv
<1> SUFFICES ASSUME Init PROVE IInv
  OBVIOUS
<1>1. TypeOK
  <2>1. /\ made \in 0 .. MaxConns /\ faults \in 0 .. MaxFaults
        /\ clientStream = Closed /\ handle = [t \in Poster |-> Closed]
        /\ pc = [t \in Poster |-> "idle"] /\ msg = [t \in Poster |-> 0]
        /\ part = [t \in Poster |-> 1] /\ tries = [t \in Poster |-> 0]
    BY ConstantsAssumption DEF Init
  <2>2. /\ units = [c \in Conn |-> <<>>] /\ pending = <<>> /\ inbox = <<>> /\ owner = <<>>
        /\ posted = 0 /\ posted <= MaxPosts
    BY ConstantsAssumption DEF Init, posted
  <2>3. /\ units \in [Conn -> Seq(Msg \X (1 .. 3))] /\ pending \in Seq(1 .. made)
        /\ inbox \in Seq(Received) /\ owner \in Seq(Poster)
    BY <2>2
  <2>4. /\ pc \in [Poster -> {"idle", "begin", "send", "close", "connect", "failed"}]
        /\ msg \in [Poster -> Msg \cup {0}]
        /\ handle \in [Poster -> (1 .. made) \cup {Closed}]
        /\ part \in [Poster -> 1 .. 3] /\ tries \in [Poster -> 0 .. 2]
    BY <2>1
  <2>5. /\ open \subseteq 1 .. made /\ up \subseteq 1 .. made
        /\ connectorMap \subseteq 1 .. made /\ accidents \subseteq Accident
        /\ answeredOK \subseteq 1 .. posted /\ sentInPart \subseteq 1 .. posted
        /\ proxyActive \in BOOLEAN /\ active \in BOOLEAN
        /\ acceptor \in {"none", "made", "lost"}
        /\ listening \in BOOLEAN /\ registered \in BOOLEAN
    BY DEF Init
  <2> QED BY <2>1, <2>2, <2>3, <2>4, <2>5 DEF TypeOK
<1>2. \A c \in Conn : units[c] = <<>> /\ DOMAIN units[c] = {}
  BY DEF Init
<1>3. inbox = <<>> /\ DOMAIN inbox = {}
  BY DEF Init
<1>4. PostsAreOwn
  BY DEF Init, PostsAreOwn
<1>5. StreamIsOpen
  BY <1>2 DEF Init, StreamIsOpen
<1>6. NothingIsNew
  BY <1>2, <1>3 DEF NothingIsNew
<1>7. FirstPartsAreSingle
  BY <1>2, <1>3 DEF FirstPartsAreSingle, FirstIsSent, Holds
<1>8. AtMostOnce /\ OrderOfOneThread
  BY <1>3 DEF AtMostOnce, OrderOfOneThread
<1>9. OnlyNewest /\ OrderIsKept
  BY <1>2 DEF Init, OnlyNewest, OrderIsKept
<1>10. PartsAreKept /\ OKIsAccounted
  BY DEF Init, PartsAreKept, OKIsAccounted
<1> QED BY <1>1, <1>4, <1>5, <1>6, <1>7, <1>8, <1>9, <1>10 DEF IInv, TransportInv

(* The invariant is inductive.                                              *)
LEMMA StepKeeps == IInv /\ [Next]_vars => IInv'
<1> SUFFICES ASSUME IInv, [Next]_vars PROVE IInv'
  OBVIOUS
<1> QED BY TypesAreKept, PostsAreOwnKept, StreamIsOpenKept, NothingIsNewKept, FirstPartsKept,
           AtMostOnceKept, OnlyNewestKept, OrderKept, PartsAreKeptKept, OKIsAccountedKept DEF IInv, TransportInv

(* What relates the threads of post, the connections and the mailbox holds  *)
(* always, for any number of threads, messages, connections and faults; with*)
(* it a message is in the mailbox at most once, unless a send of it failed  *)
(* after some of its parts (DistributedMailboxProxy::post).                 *)
THEOREM Invariance == Spec => []IInv
<1> QED BY StartIsWell, StepKeeps, PTL DEF Spec

(* Nothing arrives that was not posted, nothing twice unless a send of it   *)
(* failed in the middle, and an open connection keeps what was written to   *)
(* it (DistributedMailboxProxy::post).                                      *)
THEOREM TransportIsRight == Spec => []TransportInv
<1>1. IInv => TransportInv
  BY DEF IInv
<1> QED BY <1>1, Invariance, PTL

(* post answers OK only for a message that has arrived or is on its way in a *)
(* connection that works, unless one of the accidents came before           *)
(* (DistributedMailboxProxy::post, DistributedMailbox::handle_input).       *)
THEOREM OKMeansAccounted == Spec => []OKIsAccounted
<1>1. IInv => OKIsAccounted
  BY DEF IInv, TransportInv
<1> QED BY <1>1, Invariance, PTL

(* What one thread posts arrives in its order, unless a connection was opened*)
(* while another held parts or could be written, whatever the other threads  *)
(* that share the stream do (DistributedMailboxProxy::post).                *)
THEOREM ThreadsKeepTheirOrder == Spec => []OrderOfOneThread
<1>1. IInv => OrderOfOneThread
  BY DEF IInv, TransportInv
<1> QED BY <1>1, Invariance, PTL

-----------------------------------------------------------------------------
(***************************************************************************)
(* MessageBuffer.  First what the conversions of a value into bytes and    *)
(* back do: a recursive function has the value its definition says, which  *)
(* needs that the function exists, by induction over its domain.           *)
(***************************************************************************)

(* A set that holds 0, and with a number its successor, holds every one.   *)
LEMMA SetInduction ==
    ASSUME NEW S, 0 \in S, \A n \in Nat : n \in S => n + 1 \in S
    PROVE  Nat \subseteq S
<1> SUFFICES ASSUME NEW n0 \in Nat, n0 \notin S PROVE FALSE
  OBVIOUS
<1> DEFINE Counters == {0 .. n : n \in Nat \ S}
<1>1. Counters \subseteq FiniteSubsetsOf(Nat)
  <2> SUFFICES ASSUME NEW n \in Nat PROVE 0 .. n \in FiniteSubsetsOf(Nat)
    OBVIOUS
  <2>1. IsFiniteSet(0 .. n)
    BY FS_Interval
  <2>2. QED
    BY <2>1 DEF FiniteSubsetsOf
<1>2. Counters # {}
  OBVIOUS
<1>3. IsWellFoundedOn(StrictSubsetOrdering(Nat), FiniteSubsetsOf(Nat))
  BY FS_StrictSubsetOrderingWellFounded
<1> HIDE DEF Counters
<1>4. PICK x \in Counters : \A y \in Counters : ~ (<<y, x>> \in StrictSubsetOrdering(Nat))
  BY <1>1, <1>2, <1>3, WFMin
<1>5. PICK least \in Nat \ S : x = 0 .. least
  BY DEF Counters
<1>6. least - 1 \in Nat /\ least - 1 \notin S
  BY <1>5
<1>7. 0 .. (least - 1) \in Counters
  BY <1>6 DEF Counters
<1>8. <<0 .. (least - 1), x>> \in StrictSubsetOrdering(Nat)
  BY <1>5, <1>6 DEF StrictSubsetOrdering
<1>9. QED
  BY <1>4, <1>7, <1>8

(* Division by a byte.                                                     *)
LEMMA Division ==
    ASSUME NEW v \in Nat
    PROVE  /\ v \div Byte \in Nat /\ v % Byte \in 0 .. Byte - 1
           /\ v = (v \div Byte) * Byte + (v % Byte)
  BY ByteAssumption

Shifting(f, v, k) == f = [j \in 0 .. k |-> IF j = 0 THEN v ELSE f[j - 1] \div Byte]

LEMMA ShiftingIs ==
    ASSUME NEW f, NEW v, NEW k \in 0 .. 4, Shifting(f, v, k)
    PROVE  /\ f[0] = v
           /\ k >= 1 => f[1] = v \div Byte
           /\ k >= 2 => f[2] = (v \div Byte) \div Byte
           /\ k >= 3 => f[3] = ((v \div Byte) \div Byte) \div Byte
           /\ k >= 4 => f[4] = (((v \div Byte) \div Byte) \div Byte) \div Byte
  BY DEF Shifting

(* The number without its last bytes.                                      *)
LEMMA ShiftedIs ==
    ASSUME NEW v
    PROVE  /\ Shifted(v, 0) = v
           /\ Shifted(v, 1) = v \div Byte
           /\ Shifted(v, 2) = (v \div Byte) \div Byte
           /\ Shifted(v, 3) = ((v \div Byte) \div Byte) \div Byte
           /\ Shifted(v, 4) = (((v \div Byte) \div Byte) \div Byte) \div Byte
<1>1. ASSUME NEW k \in 0 .. 4 PROVE \E f : Shifting(f, v, k)
  <2> DEFINE f == [j \in 0 .. k |->
                     IF j = 0 THEN v ELSE IF j = 1 THEN v \div Byte
                     ELSE IF j = 2 THEN (v \div Byte) \div Byte
                     ELSE IF j = 3 THEN ((v \div Byte) \div Byte) \div Byte
                     ELSE (((v \div Byte) \div Byte) \div Byte) \div Byte]
  <2>1. Shifting(f, v, k)
    BY <1>1 DEF Shifting
  <2> QED BY <2>1
<1>2. ASSUME NEW k \in 0 .. 4
      PROVE  \E f : Shifting(f, v, k) /\ Shifted(v, k) = f[k]
  <2>1. Shifting(CHOOSE f : Shifting(f, v, k), v, k)
    BY <1>1
  <2>2. Shifted(v, k) = (CHOOSE f : Shifting(f, v, k))[k]
    BY DEF Shifted, Shifting
  <2> QED BY <2>1, <2>2
<1> QED BY <1>2, ShiftingIs

(* A place in the memory of a buffer has a byte.                           *)
LEMMA AtIs ==
    ASSUME NEW b \in BufferType, NEW i \in Nat
    PROVE  /\ At(b, i) \in 0 .. Byte - 1
           /\ i < Arena => At(b, i) = b.mem[i]
           /\ i >= Arena => At(b, i) = 0
  BY ByteAssumption, SizesAssumption DEF At, BufferType

Reading(n, b, i, size) ==
    n = [k \in 0 .. size |->
           IF k = 0 THEN 0
           ELSE n[k - 1] * Byte + At(b, i + (IF BigEndian(b) THEN k - 1 ELSE size - k))]

(* What is read of the bytes of a number.                                  *)
LEMMA ReadNumberIs ==
    ASSUME NEW b \in BufferType, NEW i \in Nat
    PROVE  LET at(k) == At(b, i + k) IN
           /\ ReadNumber(b, i, 1) = at(0)
           /\ ReadNumber(b, i, 2) = IF BigEndian(b) THEN at(0) * Byte + at(1)
                                    ELSE at(1) * Byte + at(0)
           /\ ReadNumber(b, i, 4) =
                  IF BigEndian(b) THEN ((at(0) * Byte + at(1)) * Byte + at(2)) * Byte + at(3)
                  ELSE ((at(3) * Byte + at(2)) * Byte + at(1)) * Byte + at(0)
<1> DEFINE at(k) == At(b, i + k)
           big == BigEndian(b)
<1>0. \A k \in 0 .. 4 : at(k) \in 0 .. Byte - 1 /\ at(k) \in Nat
  BY AtIs, ByteAssumption
<1>1. ASSUME NEW size \in {1, 2, 4}
      PROVE  \E n : Reading(n, b, i, size) /\ ReadNumber(b, i, size) = n[size]
  <2> DEFINE r(k) == at(IF big THEN k - 1 ELSE size - k)
             n == [k \in 0 .. size |->
                     IF k = 0 THEN 0 ELSE IF k = 1 THEN 0 * Byte + r(1)
                     ELSE IF k = 2 THEN (0 * Byte + r(1)) * Byte + r(2)
                     ELSE IF k = 3 THEN ((0 * Byte + r(1)) * Byte + r(2)) * Byte + r(3)
                     ELSE (((0 * Byte + r(1)) * Byte + r(2)) * Byte + r(3)) * Byte + r(4)]
  <2>1. n = [k \in 0 .. size |-> IF k = 0 THEN 0 ELSE n[k - 1] * Byte + r(k)]
    <3> HIDE DEF r
    <3> QED BY <1>1
  <2>2. Reading(n, b, i, size)
    BY <2>1 DEF Reading
  <2>3. Reading(CHOOSE m : Reading(m, b, i, size), b, i, size)
    <3> HIDE DEF n
    <3> QED BY <2>2
  <2>4. ReadNumber(b, i, size) = (CHOOSE m : Reading(m, b, i, size))[size]
    BY DEF ReadNumber, Reading
  <2> QED BY <2>3, <2>4
<1>2. ASSUME NEW n, NEW size \in {1, 2, 4}, Reading(n, b, i, size)
      PROVE  n[size] =
               CASE size = 1 -> at(0)
                 [] size = 2 -> IF big THEN at(0) * Byte + at(1) ELSE at(1) * Byte + at(0)
                 [] size = 4 ->
                      IF big THEN ((at(0) * Byte + at(1)) * Byte + at(2)) * Byte + at(3)
                      ELSE ((at(3) * Byte + at(2)) * Byte + at(1)) * Byte + at(0)
  <2> DEFINE r(k) == at(IF big THEN k - 1 ELSE size - k)
  <2>1. n = [k \in 0 .. size |-> IF k = 0 THEN 0 ELSE n[k - 1] * Byte + r(k)]
    BY <1>2 DEF Reading
  <2>2. r(1) = at(IF big THEN 0 ELSE size - 1) /\ r(2) = at(IF big THEN 1 ELSE size - 2)
        /\ r(3) = at(IF big THEN 2 ELSE size - 3) /\ r(4) = at(IF big THEN 3 ELSE size - 4)
    BY <1>2
  <2> HIDE DEF r
  <2>3. /\ n[0] = 0
        /\ n[1] = n[0] * Byte + r(1)
        /\ size >= 2 => n[2] = n[1] * Byte + r(2)
        /\ size >= 4 => n[3] = n[2] * Byte + r(3) /\ n[4] = n[3] * Byte + r(4)
    BY <2>1, <1>2
  <2> HIDE DEF at, big
  <2>4. CASE size = 1
    BY <2>2, <2>3, <2>4, <1>0, ByteAssumption
  <2>5. CASE size = 2
    BY <2>2, <2>3, <2>5, <1>0, ByteAssumption
  <2>6. CASE size = 4
    BY <2>2, <2>3, <2>6, <1>0, ByteAssumption
  <2> QED BY <2>4, <2>5, <2>6
<1> HIDE DEF at, big
<1> SUFFICES
      /\ ReadNumber(b, i, 1) = at(0)
      /\ ReadNumber(b, i, 2) = IF big THEN at(0) * Byte + at(1) ELSE at(1) * Byte + at(0)
      /\ ReadNumber(b, i, 4) =
             IF big THEN ((at(0) * Byte + at(1)) * Byte + at(2)) * Byte + at(3)
             ELSE ((at(3) * Byte + at(2)) * Byte + at(1)) * Byte + at(0)
  BY DEF at, big
<1> QED BY <1>1, <1>2

(* What is read is a number.                                               *)
LEMMA NumbersAreRead ==
    ASSUME NEW b \in BufferType, NEW i \in Nat, NEW size \in {1, 2, 4}
    PROVE  ReadNumber(b, i, size) \in Nat
<1>1. \A k \in 0 .. 4 : At(b, i + k) \in Nat
  BY AtIs, ByteAssumption
<1>2. /\ At(b, i + 0) \in Nat /\ At(b, i + 1) \in Nat
      /\ At(b, i + 2) \in Nat /\ At(b, i + 3) \in Nat
  BY <1>1
<1>3. \A m, n \in Nat : m * Byte + n \in Nat
  BY ByteAssumption
<1> QED BY <1>2, <1>3, ReadNumberIs, ByteAssumption

(* A function on an initial segment of the numbers is a sequence.          *)
LEMMA SegmentIsSequence ==
    ASSUME NEW S, NEW n \in Nat, NEW f \in [1 .. n -> S]
    PROVE  f \in Seq(S) /\ Len(f) = n /\ DOMAIN f = 1 .. n
  OBVIOUS

(* The bytes of a number.                                                  *)
LEMMA BytesOfNumber ==
    ASSUME NEW b, NEW v \in Nat, NEW size \in {1, 2, 4}
    PROVE  /\ Number(b, v, size) \in [1 .. size -> 0 .. Byte - 1]
           /\ Number(b, v, size) \in Seq(0 .. Byte - 1)
           /\ Len(Number(b, v, size)) = size
<1>1. \A k \in 0 .. 3 : Shifted(v, k) \in Nat
  <2>1. /\ v \div Byte \in Nat /\ (v \div Byte) \div Byte \in Nat
        /\ ((v \div Byte) \div Byte) \div Byte \in Nat
    BY Division
  <2> QED BY <2>1, ShiftedIs
<1>2. \A k \in 0 .. 3 : Shifted(v, k) % Byte \in 0 .. Byte - 1
  BY <1>1, Division
<1>3. \A k \in 1 .. size : size - k \in 0 .. 3 /\ k - 1 \in 0 .. 3
  OBVIOUS
<1>4. Number(b, v, size) \in [1 .. size -> 0 .. Byte - 1]
  BY <1>2, <1>3 DEF Number
<1>5. size \in Nat
  OBVIOUS
<1> QED BY <1>4, <1>5, SegmentIsSequence

(* A number that fits is read back from its bytes, in the order it was     *)
(* written in; of a larger one, what is read is not larger.                *)
LEMMA NumberBack ==
    ASSUME NEW b \in BufferType, NEW c \in BufferType, BigEndian(b) = BigEndian(c),
           NEW i \in Nat, NEW v \in Nat, NEW size \in {1, 2, 4},
           \A k \in 1 .. size : At(c, i + k - 1) = Number(b, v, size)[k]
    PROVE  /\ ReadNumber(c, i, size) <= v
           /\ Shifted(v, size) = 0 => ReadNumber(c, i, size) = v
<1> DEFINE q1 == v \div Byte
           q2 == q1 \div Byte
           q3 == q2 \div Byte
           q4 == q3 \div Byte
           at(k) == At(c, i + k)
           big == BigEndian(b)
<1>1. /\ q1 \in Nat /\ q2 \in Nat /\ q3 \in Nat /\ q4 \in Nat
      /\ v = q1 * Byte + (v % Byte) /\ q1 = q2 * Byte + (q1 % Byte)
      /\ q2 = q3 * Byte + (q2 % Byte) /\ q3 = q4 * Byte + (q3 % Byte)
      /\ v % Byte \in Nat /\ q1 % Byte \in Nat /\ q2 % Byte \in Nat /\ q3 % Byte \in Nat
  <2>1. q1 \in Nat /\ v % Byte \in Nat /\ v = q1 * Byte + (v % Byte)
    BY Division, ByteAssumption
  <2>2. q2 \in Nat /\ q1 % Byte \in Nat /\ q1 = q2 * Byte + (q1 % Byte)
    BY <2>1, Division, ByteAssumption
  <2>3. q3 \in Nat /\ q2 % Byte \in Nat /\ q2 = q3 * Byte + (q2 % Byte)
    BY <2>2, Division, ByteAssumption
  <2>4. q4 \in Nat /\ q3 % Byte \in Nat /\ q3 = q4 * Byte + (q3 % Byte)
    BY <2>3, Division, ByteAssumption
  <2> QED BY <2>1, <2>2, <2>3, <2>4
<1>2. /\ Shifted(v, 0) = v /\ Shifted(v, 1) = q1 /\ Shifted(v, 2) = q2
      /\ Shifted(v, 3) = q3 /\ Shifted(v, 4) = q4
  BY ShiftedIs
<1> HIDE DEF q1, q2, q3, q4
<1>3. ASSUME NEW k \in 1 .. size
      PROVE  at(k - 1) = Shifted(v, IF big THEN size - k ELSE k - 1) % Byte
  BY <1>3 DEF Number
<1>4. at(0) = Shifted(v, IF big THEN size - 1 ELSE 0) % Byte
  BY <1>3
<1>5. size >= 2 => at(1) = Shifted(v, IF big THEN size - 2 ELSE 1) % Byte
  <2>1. size >= 2 => at(2 - 1) = Shifted(v, IF big THEN size - 2 ELSE 2 - 1) % Byte
    BY <1>3
  <2> QED BY <2>1
<1>6. size = 4 => /\ at(2) = Shifted(v, IF big THEN 1 ELSE 2) % Byte
                  /\ at(3) = Shifted(v, IF big THEN 0 ELSE 3) % Byte
  <2>1. size = 4 => /\ at(3 - 1) = Shifted(v, IF big THEN 4 - 3 ELSE 3 - 1) % Byte
                    /\ at(4 - 1) = Shifted(v, IF big THEN 4 - 4 ELSE 4 - 1) % Byte
    BY <1>3
  <2> QED BY <2>1
<1>7. BigEndian(c) = big
  OBVIOUS
<1> HIDE DEF at, big
<1>8. /\ ReadNumber(c, i, 1) = at(0)
      /\ ReadNumber(c, i, 2) = IF big THEN at(0) * Byte + at(1) ELSE at(1) * Byte + at(0)
      /\ ReadNumber(c, i, 4) =
             IF big THEN ((at(0) * Byte + at(1)) * Byte + at(2)) * Byte + at(3)
             ELSE ((at(3) * Byte + at(2)) * Byte + at(1)) * Byte + at(0)
  BY ReadNumberIs, <1>7 DEF at
<1>9. \A n \in Nat : n * Byte \in Nat
  BY ByteAssumption
<1>10. CASE size = 1
  <2>1. at(0) = v % Byte
    BY <1>2, <1>4, <1>10
  <2> QED BY <2>1, <1>1, <1>2, <1>8, <1>9, <1>10, ByteAssumption
<1>11. CASE size = 2
  <2>1. IF big THEN at(0) = q1 % Byte /\ at(1) = v % Byte
               ELSE at(0) = v % Byte /\ at(1) = q1 % Byte
    BY <1>2, <1>4, <1>5, <1>11
  <2>2. ReadNumber(c, i, 2) = (q1 % Byte) * Byte + (v % Byte)
    BY <2>1, <1>8
  <2>3. (q2 = 0 => q1 % Byte = q1) /\ q1 % Byte <= q1
    BY <1>1, <1>9, ByteAssumption
  <2>4. (q1 % Byte) * Byte <= q1 * Byte
    BY <2>3, <1>1, ByteAssumption
  <2> QED BY <2>2, <2>3, <2>4, <1>1, <1>2, <1>9, <1>11
<1>12. CASE size = 4
  <2> DEFINE m == (q3 % Byte) * Byte + (q2 % Byte)
             n == m * Byte + (q1 % Byte)
  <2>1. IF big THEN at(0) = q3 % Byte /\ at(1) = q2 % Byte /\ at(2) = q1 % Byte /\ at(3) = v % Byte
               ELSE at(0) = v % Byte /\ at(1) = q1 % Byte /\ at(2) = q2 % Byte /\ at(3) = q3 % Byte
    BY <1>2, <1>4, <1>5, <1>6, <1>12
  <2>2. ReadNumber(c, i, 4) = n * Byte + (v % Byte)
    BY <2>1, <1>8
  <2>3. (q4 = 0 => q3 % Byte = q3) /\ q3 % Byte <= q3
    BY <1>1, <1>9, ByteAssumption
  <2>4. (q3 % Byte) * Byte <= q3 * Byte
    BY <2>3, <1>1, ByteAssumption
  <2>5. m \in Nat /\ m <= q2 /\ (q4 = 0 => m = q2)
    BY <2>3, <2>4, <1>1, <1>9
  <2> HIDE DEF m
  <2>6. m * Byte <= q2 * Byte
    BY <2>5, <1>1, ByteAssumption
  <2>7. n \in Nat /\ n <= q1 /\ (q4 = 0 => n = q1)
    BY <2>5, <2>6, <1>1, <1>9
  <2> HIDE DEF n
  <2>8. n * Byte <= q1 * Byte
    BY <2>7, <1>1, ByteAssumption
  <2> QED BY <2>2, <2>7, <2>8, <1>1, <1>2, <1>9, <1>12
<1> QED BY <1>10, <1>11, <1>12

Simple == Types \ {"address"}

\* What the test of the room leaves out of a value.
Uncounted(type) == IF type = "string" THEN 1 ELSE 0

(* The length of a string as it is written.                                *)
LEMMA LengthIs ==
    ASSUME NEW v \in Seq(1 .. Byte - 1)
    PROVE  /\ Length(v) \in 0 .. Byte - 1 /\ Length(v) <= Len(v) + 1
           /\ Len(v) + 1 < Byte => Length(v) = Len(v) + 1
<1> DEFINE n == Len(v) + 1
<1>1. n \in Nat /\ Length(v) = n % Byte
  BY DEF Length
<1> SUFFICES n % Byte \in 0 .. Byte - 1 /\ n % Byte <= n /\ (n < Byte => n % Byte = n)
  BY <1>1
<1> HIDE DEF n
<1>2. n = (n \div Byte) * Byte + (n % Byte) /\ n \div Byte \in Nat /\ n % Byte \in 0 .. Byte - 1
  BY <1>1, Division
<1>3. (n \div Byte) * Byte \in Nat
  <2>1. \A m \in Nat : m * Byte \in Nat
    BY ByteAssumption
  <2> QED BY <1>2, <2>1
<1>4. n < Byte => n % Byte = n
  BY <1>1, ByteAssumption
<1> QED BY <1>1, <1>2, <1>3, <1>4, ByteAssumption

(* A string with a 0 behind it.                                            *)
LEMMA CharactersAre ==
    ASSUME NEW v \in Seq(1 .. Byte - 1)
    PROVE  /\ \A k \in 1 .. Len(v) : Append(v, 0)[k] = v[k] /\ v[k] \in 1 .. Byte - 1
           /\ Append(v, 0)[Len(v) + 1] = 0
           /\ \A k \in 1 .. Len(v) + 1 : Append(v, 0)[k] \in 0 .. Byte - 1
<1>1. Len(v) \in Nat /\ \A k \in 1 .. Len(v) : v[k] \in 1 .. Byte - 1
  BY LenProperties, ElementOfSeq
<1>2. v \in Seq(Nat)
  <2>1. v \in [1 .. Len(v) -> Nat]
    BY ByteAssumption
  <2> QED BY <1>1, <2>1
<1>3. \A k \in 1 .. Len(v) : Append(v, 0)[k] = v[k]
  BY <1>2
<1>4. Append(v, 0)[Len(v) + 1] = 0
  BY <1>2
<1> QED BY <1>1, <1>3, <1>4, ByteAssumption

(* How many bytes a value takes, and how many of them are counted.         *)
LEMMA BytesAre ==
    ASSUME NEW b \in BufferType, NEW type \in Simple, NEW v, OfType(type, v)
    PROVE  /\ Bytes(b, type, v) \in Seq(0 .. Byte - 1)
           /\ Len(Bytes(b, type, v)) = Counted(type, v) + Uncounted(type)
           /\ Counted(type, v) \in Nat
           /\ Counted(type, v) + Uncounted(type) > 0
           /\ Counted(type, v) + Uncounted(type) <= Byte + IntSize
<1>1. CASE type = "string"
  <2>1. v \in Seq(1 .. Byte - 1)
    BY <1>1 DEF OfType, NumberTypes
  <2>2. Length(v) \in 0 .. Byte - 1 /\ Length(v) <= Len(v) + 1
    BY <2>1, LengthIs
  <2>3. \A k \in 1 .. Len(v) + 1 : Append(v, 0)[k] \in 0 .. Byte - 1
    BY <2>1, CharactersAre
  <2>4. Bytes(b, type, v) \in [1 .. Length(v) + 1 -> 0 .. Byte - 1]
    <3>1. ASSUME NEW k \in 1 .. Length(v) + 1, k # 1
          PROVE  Append(v, 0)[k - 1] \in 0 .. Byte - 1
      <4>1. Len(v) \in Nat /\ Length(v) \in Nat
        BY <2>1, <2>2, ByteAssumption
      <4>2. k - 1 \in 1 .. Len(v) + 1
        BY <3>1, <2>2, <4>1
      <4> QED BY <2>3, <4>2
    <3> QED BY <1>1, <2>2, <3>1, ByteAssumption DEF Bytes
  <2>5. Length(v) + 1 \in Nat
    BY <2>2, ByteAssumption
  <2> QED BY <1>1, <2>2, <2>4, <2>5, SegmentIsSequence, ByteAssumption
          DEF Counted, Uncounted, IntSize
<1>2. CASE type = "bool"
  BY <1>2, ByteAssumption DEF Bytes, Counted, Uncounted, Width, IntSize
<1>3. CASE type \in NumberTypes
  <2>1. v \in Nat /\ Width(type) \in {1, 2, 4} /\ type # "string" /\ type # "bool"
    BY <1>3 DEF OfType, NumberTypes, Width, IntSize, ShortSize
  <2>2. Bytes(b, type, v) = Number(b, v, Width(type))
    BY <2>1 DEF Bytes
  <2>3. Counted(type, v) = Width(type) /\ Uncounted(type) = 0
    BY <2>1 DEF Counted, Uncounted
  <2>4. /\ Number(b, v, Width(type)) \in Seq(0 .. Byte - 1)
        /\ Len(Number(b, v, Width(type))) = Width(type)
    BY <2>1, BytesOfNumber
  <2> QED BY <2>1, <2>2, <2>3, <2>4, ByteAssumption DEF IntSize
<1> QED BY <1>1, <1>2, <1>3 DEF Simple, Types

Contains(b, i, bytes) == \A k \in 1 .. Len(bytes) : At(b, i + k - 1) = bytes[k]

(* A string is read back from its bytes, when it is not too long.          *)
LEMMA StringBack ==
    ASSUME NEW b \in BufferType, NEW c \in BufferType, NEW i \in Nat,
           NEW v \in Seq(1 .. Byte - 1), Len(v) + 1 < Byte,
           Contains(c, i, Bytes(b, "string", v))
    PROVE  Read(c, i, "string") = [value |-> v, next |-> i + Len(Bytes(b, "string", v))]
<1>1. Len(v) \in Nat /\ Length(v) = Len(v) + 1
  BY LengthIs
<1>2. Bytes(b, "string", v) = [k \in 1 .. Len(v) + 2 |->
                                 IF k = 1 THEN Len(v) + 1 ELSE Append(v, 0)[k - 1]]
  BY <1>1 DEF Bytes
<1>3. Len(Bytes(b, "string", v)) = Len(v) + 2
  <2>1. OfType("string", v) /\ "string" \in Simple
    BY DEF OfType, Simple, Types, NumberTypes
  <2>2. Len(Bytes(b, "string", v)) = Counted("string", v) + Uncounted("string")
    BY <2>1, BytesAre
  <2> QED BY <1>1, <2>2 DEF Counted, Uncounted
<1>4. ASSUME NEW k \in 1 .. Len(v) + 2
      PROVE  At(c, i + k - 1) = IF k = 1 THEN Len(v) + 1 ELSE Append(v, 0)[k - 1]
  BY <1>2, <1>3 DEF Contains
<1>5. At(c, i) = Len(v) + 1
  <2>1. 1 \in 1 .. Len(v) + 2 /\ i + 1 - 1 = i
    BY <1>1
  <2> QED BY <1>4, <2>1
<1>6. ASSUME NEW k \in 1 .. Len(v) PROVE At(c, i + k) = v[k] /\ v[k] # 0
  <2>1. k + 1 \in 1 .. Len(v) + 2 /\ i + (k + 1) - 1 = i + k /\ k + 1 # 1 /\ k + 1 - 1 = k
    BY <1>1
  <2>2. At(c, i + k) = Append(v, 0)[k]
    BY <1>4, <2>1
  <2> QED BY <2>2, CharactersAre, ByteAssumption
<1>7. At(c, i + 1 + Len(v)) = 0
  <2>1. /\ Len(v) + 2 \in 1 .. Len(v) + 2 /\ i + (Len(v) + 2) - 1 = i + 1 + Len(v)
        /\ Len(v) + 2 # 1 /\ Len(v) + 2 - 1 = Len(v) + 1
    BY <1>1
  <2>2. At(c, i + 1 + Len(v)) = Append(v, 0)[Len(v) + 1]
    BY <1>4, <2>1
  <2> QED BY <2>2, CharactersAre
<1> DEFINE zeros == {k \in i + 1 .. (i + 1) + Arena : At(c, k) = 0}
           end == Min(zeros)
<1>8. i + 1 + Len(v) \in zeros
  BY <1>1, <1>7, SizesAssumption, ByteAssumption DEF IntSize, Overrun
<1>9. ASSUME NEW k \in zeros PROVE i + 1 + Len(v) <= k
  <2>1. SUFFICES ASSUME k < i + 1 + Len(v) PROVE FALSE
    BY <1>1
  <2>2. k - i \in 1 .. Len(v) /\ i + (k - i) = k
    BY <1>1, <2>1
  <2>3. At(c, k) # 0
    BY <1>6, <2>2
  <2> QED BY <2>3
<1>10. end = i + 1 + Len(v)
  <2> HIDE DEF zeros
  <2>1. \A k \in zeros : k \in Int
    BY DEF zeros
  <2>2. end \in zeros /\ \A k \in zeros : end <= k
    BY <1>8, <1>9, <2>1 DEF Min
  <2> QED BY <1>1, <1>8, <1>9, <2>1, <2>2
<1>11. ReadString(c, i + 1) = [k \in 1 .. Len(v) |-> At(c, i + 1 + k - 1)]
  BY <1>1, <1>10 DEF ReadString
<1>12. ReadString(c, i + 1) = v
  <2>1. v = [k \in 1 .. Len(v) |-> v[k]]
    OBVIOUS
  <2>2. \A k \in 1 .. Len(v) : i + 1 + k - 1 = i + k
    BY <1>1
  <2> QED BY <1>6, <1>11, <2>1, <2>2
<1>13. i + 1 + At(c, i) = i + Len(Bytes(b, "string", v))
  BY <1>1, <1>3, <1>5
<1> QED BY <1>12, <1>13 DEF Read

(* A value of any type but an address is read back from its bytes, unless  *)
(* it is a string that is too long for its length byte.                    *)
LEMMA BytesBack ==
    ASSUME NEW b \in BufferType, NEW c \in BufferType, BigEndian(b) = BigEndian(c),
           NEW i \in Nat, NEW type \in Simple, NEW v, OfType(type, v),
           type = "string" => Len(v) + 1 < Byte,
           Contains(c, i, Bytes(b, type, v))
    PROVE  Read(c, i, type) = [value |-> v, next |-> i + Len(Bytes(b, type, v))]
<1>1. CASE type = "string"
  <2>1. v \in Seq(1 .. Byte - 1)
    BY <1>1 DEF OfType, NumberTypes
  <2> QED BY <1>1, <2>1, StringBack
<1>2. CASE type = "bool"
  <2>1. Bytes(b, type, v) = <<IF v THEN 1 ELSE 0>> /\ v \in BOOLEAN
    BY <1>2 DEF Bytes, OfType, NumberTypes
  <2>2. At(c, i) = IF v THEN 1 ELSE 0
    <3>1. Len(Bytes(b, type, v)) = 1 /\ Bytes(b, type, v)[1] = IF v THEN 1 ELSE 0
      BY <2>1
    <3>2. 1 \in 1 .. Len(Bytes(b, type, v)) /\ i + 1 - 1 = i
      BY <3>1
    <3> QED BY <3>1, <3>2 DEF Contains
  <2>3. ReadNumber(c, i, 1) = At(c, i + 0) /\ i + 0 = i
    BY ReadNumberIs
  <2>4. Read(c, i, type) = [value |-> ReadNumber(c, i, 1) # 0, next |-> i + 1]
    BY <1>2 DEF Read, Width
  <2>5. CASE v = TRUE
    <3>1. (ReadNumber(c, i, 1) # 0) = TRUE
      BY <2>2, <2>3, <2>5
    <3>2. Len(Bytes(b, type, v)) = 1
      BY <2>1
    <3> QED BY <2>4, <2>5, <3>1, <3>2
  <2>6. CASE v = FALSE
    <3>1. (ReadNumber(c, i, 1) # 0) = FALSE
      BY <2>2, <2>3, <2>6
    <3>2. Len(Bytes(b, type, v)) = 1
      BY <2>1
    <3> QED BY <2>4, <2>6, <3>1, <3>2
  <2> QED BY <2>1, <2>5, <2>6
<1>3. CASE type \in NumberTypes
  <2>1. /\ v \in Nat /\ Width(type) \in {1, 2, 4} /\ type # "string" /\ type # "bool"
        /\ Shifted(v, Width(type)) = 0
    BY <1>3 DEF OfType, NumberTypes, Width, IntSize, ShortSize
  <2>2. Bytes(b, type, v) = Number(b, v, Width(type))
    BY <2>1 DEF Bytes
  <2>3. Len(Number(b, v, Width(type))) = Width(type)
    BY <2>1, BytesOfNumber
  <2>4. \A k \in 1 .. Width(type) : At(c, i + k - 1) = Number(b, v, Width(type))[k]
    BY <2>2, <2>3 DEF Contains
  <2>5. ReadNumber(c, i, Width(type)) = v
    BY <2>1, <2>4, NumberBack
  <2> QED BY <2>1, <2>2, <2>3, <2>5 DEF Read
<1> QED BY <1>1, <1>2, <1>3 DEF Simple, Types

-----------------------------------------------------------------------------
(* Two states of one buffer.                                               *)
SameBuffer(b, c) ==
    /\ c \in BufferType
    /\ c.max = b.max /\ c.network = b.network /\ c.host = b.host
    /\ c.deserialize = b.deserialize

\* Nothing but what is behind the end of b was written.
Grows(b, c) ==
    /\ SameBuffer(b, c)
    /\ c.insert >= b.insert
    /\ \A i \in 0 .. Arena - 1 : i \notin b.insert .. c.insert - 1 => c.mem[i] = b.mem[i]

\* What a write of bytes to b leaves.
WritesBytes(b, c, bytes) ==
    /\ Grows(b, c)
    /\ c.insert = b.insert + Len(bytes)
    /\ \A i \in 0 .. Arena - 1 :
           i \in b.insert .. c.insert - 1 => c.mem[i] = bytes[i - b.insert + 1]

(* A write puts the bytes behind the end of the buffer.                    *)
LEMMA WriteIs ==
    ASSUME NEW b \in BufferType, NEW bytes \in Seq(0 .. Byte - 1)
    PROVE  WritesBytes(b, Write(b, bytes), bytes)
<1> DEFINE m == [i \in 0 .. Arena - 1 |-> IF i - b.insert \in 0 .. Len(bytes) - 1
                                          THEN bytes[i - b.insert + 1] ELSE b.mem[i]]
           c == [mem |-> m, max |-> b.max, insert |-> b.insert + Len(bytes),
                 deserialize |-> b.deserialize, network |-> b.network, host |-> b.host]
<1>1. b = [mem |-> b.mem, max |-> b.max, insert |-> b.insert,
           deserialize |-> b.deserialize, network |-> b.network, host |-> b.host]
  BY DEF BufferType
<1>2. b.mem \in [0 .. Arena - 1 -> 0 .. Byte - 1] /\ b.insert \in Nat /\ Len(bytes) \in Nat
  BY DEF BufferType
<1>3. Write(b, bytes) = c
  <2>1. DOMAIN b.mem = 0 .. Arena - 1
    BY <1>2
  <2>2. m = [i \in DOMAIN b.mem |-> IF i - b.insert \in 0 .. Len(bytes) - 1
                                    THEN bytes[i - b.insert + 1] ELSE b.mem[i]]
    BY <2>1
  <2> HIDE DEF m
  <2>3. Write(b, bytes) = [b EXCEPT !.mem = m, !.insert = b.insert + Len(bytes)]
    BY <2>2 DEF Write
  <2> QED BY <1>1, <2>3
<1>4. m \in [0 .. Arena - 1 -> 0 .. Byte - 1]
  <2>1. ASSUME NEW i \in 0 .. Arena - 1, i - b.insert \in 0 .. Len(bytes) - 1
        PROVE  bytes[i - b.insert + 1] \in 0 .. Byte - 1
    <3>1. i - b.insert + 1 \in 1 .. Len(bytes)
      BY <1>2, <2>1
    <3> QED BY <3>1, ElementOfSeq
  <2> QED BY <1>2, <2>1
<1>5. c \in BufferType
  <2> HIDE DEF m
  <2> QED BY <1>2, <1>4 DEF BufferType
<1>6. ASSUME NEW i \in 0 .. Arena - 1
      PROVE  c.mem[i] = IF i \in b.insert .. c.insert - 1
                        THEN bytes[i - b.insert + 1] ELSE b.mem[i]
  BY <1>2
<1>7. c.insert = b.insert + Len(bytes) /\ c.insert >= b.insert
  BY <1>2
<1> HIDE DEF c
<1>8. SameBuffer(b, c)
  BY <1>5 DEF SameBuffer, c
<1> QED BY <1>3, <1>6, <1>7, <1>8 DEF WritesBytes, Grows

(* f has the size of the location and the first k fields.                  *)
Sizing(f, v, n) ==
    f = [k \in 0 .. n |-> IF k = 0 THEN IntSize
                         ELSE f[k - 1] + Counted(AddressFields(v.location)[k], v.parts[k])]

(* The sum without the first field, and the sum with one more.             *)
LEMMA SizingIs ==
    ASSUME NEW f, NEW v, NEW n \in Nat, Sizing(f, v, n)
    PROVE  /\ f[0] = IntSize
           /\ \A k \in 1 .. n : /\ k \in 0 .. n
                               /\ f[k] = f[k - 1]
                                    + Counted(AddressFields(v.location)[k], v.parts[k])
<1>1. 0 \in 0 .. n /\ \A k \in 1 .. n : k \in 0 .. n /\ k # 0
  OBVIOUS
<1>2. \A k \in 0 .. n : f[k] = IF k = 0 THEN IntSize
             ELSE f[k - 1] + Counted(AddressFields(v.location)[k], v.parts[k])
  BY DEF Sizing
<1> QED BY <1>1, <1>2

(* There is such an f, for any number of fields.                           *)
LEMMA SizingExists ==
    ASSUME NEW v
    PROVE  \A n \in Nat : \E f : Sizing(f, v, n)
<1> DEFINE S == {n \in Nat : \E f : Sizing(f, v, n)}
<1>1. 0 \in S
  <2> DEFINE f == [k \in 0 .. 0 |-> IntSize]
  <2>1. Sizing(f, v, 0)
    BY DEF Sizing
  <2> QED BY <2>1
<1>2. ASSUME NEW n \in Nat, n \in S PROVE n + 1 \in S
  <2>1. PICK f : Sizing(f, v, n)
    BY <1>2
  <2> DEFINE Step(x, k) == x + Counted(AddressFields(v.location)[k], v.parts[k])
             g == [k \in 0 .. n + 1 |-> IF k = n + 1 THEN Step(f[n], k) ELSE f[k]]
  <2>2. \A k \in 0 .. n : f[k] = IF k = 0 THEN IntSize ELSE Step(f[k - 1], k)
    BY <2>1 DEF Sizing
  <2> HIDE DEF Step
  <2>3. ASSUME NEW k \in 0 .. n + 1
        PROVE  g[k] = IF k = 0 THEN IntSize ELSE Step(g[k - 1], k)
    <3>1. CASE k = n + 1
      BY <3>1
    <3>2. CASE k = 0
      <4>1. k \in 0 .. n /\ k # n + 1
        BY <3>2
      <4> QED BY <2>2, <3>2, <4>1
    <3>3. CASE k # n + 1 /\ k # 0
      <4>1. k \in 0 .. n /\ k - 1 \in 0 .. n /\ k - 1 \in 0 .. n + 1 /\ k - 1 # n + 1
        BY <3>3
      <4>2. g[k] = f[k] /\ g[k - 1] = f[k - 1]
        BY <3>3, <4>1
      <4> HIDE DEF g
      <4> QED BY <2>2, <3>3, <4>1, <4>2
    <3> QED BY <3>1, <3>2, <3>3
  <2>4. g = [k \in 0 .. n + 1 |-> g[k]]
    OBVIOUS
  <2> HIDE DEF g
  <2>5. g = [k \in 0 .. n + 1 |-> IF k = 0 THEN IntSize ELSE Step(g[k - 1], k)]
    BY <2>3, <2>4
  <2>6. Sizing(g, v, n + 1)
    BY <2>5 DEF Sizing, Step
  <2> QED BY <2>6
<1> HIDE DEF S
<1>3. Nat \subseteq S
  BY <1>1, <1>2, SetInduction, Zenon
<1> QED BY <1>3 DEF S

Start(b, v) == Write(Write(b, SizeBytes(b, v)), Number(b, v.location, IntSize))

(* f has the buffer when the first k fields were written.                  *)
Writing(f, b, v, n) ==
    f = [k \in 0 .. n |-> IF k = 0 THEN Start(b, v)
                         ELSE Write(f[k - 1], Bytes(b, AddressFields(v.location)[k], v.parts[k]))]

(* There is such an f, for any number of fields.                           *)
LEMMA WritingExists ==
    ASSUME NEW b, NEW v
    PROVE  \A n \in Nat : \E f : Writing(f, b, v, n)
<1> DEFINE S == {n \in Nat : \E f : Writing(f, b, v, n)}
<1>1. 0 \in S
  <2> DEFINE f == [k \in 0 .. 0 |-> Start(b, v)]
  <2>1. Writing(f, b, v, 0)
    BY DEF Writing
  <2> QED BY <2>1
<1>2. ASSUME NEW n \in Nat, n \in S PROVE n + 1 \in S
  <2>1. PICK f : Writing(f, b, v, n)
    BY <1>2
  <2> DEFINE Step(x, k) == Write(x, Bytes(b, AddressFields(v.location)[k], v.parts[k]))
             g == [k \in 0 .. n + 1 |-> IF k = n + 1 THEN Step(f[n], k) ELSE f[k]]
  <2>2. \A k \in 0 .. n : f[k] = IF k = 0 THEN Start(b, v) ELSE Step(f[k - 1], k)
    BY <2>1 DEF Writing
  <2> HIDE DEF Step
  <2>3. ASSUME NEW k \in 0 .. n + 1
        PROVE  g[k] = IF k = 0 THEN Start(b, v) ELSE Step(g[k - 1], k)
    <3>1. CASE k = n + 1
      BY <3>1
    <3>2. CASE k = 0
      <4>1. k \in 0 .. n /\ k # n + 1
        BY <3>2
      <4> QED BY <2>2, <3>2, <4>1
    <3>3. CASE k # n + 1 /\ k # 0
      <4>1. k \in 0 .. n /\ k - 1 \in 0 .. n /\ k - 1 \in 0 .. n + 1 /\ k - 1 # n + 1
        BY <3>3
      <4>2. g[k] = f[k] /\ g[k - 1] = f[k - 1]
        BY <3>3, <4>1
      <4> HIDE DEF g
      <4> QED BY <2>2, <3>3, <4>1, <4>2
    <3> QED BY <3>1, <3>2, <3>3
  <2>4. g = [k \in 0 .. n + 1 |-> g[k]]
    OBVIOUS
  <2> HIDE DEF g
  <2>5. g = [k \in 0 .. n + 1 |-> IF k = 0 THEN Start(b, v) ELSE Step(g[k - 1], k)]
    BY <2>3, <2>4
  <2>6. Writing(g, b, v, n + 1)
    BY <2>5 DEF Writing, Step
  <2> QED BY <2>6
<1> HIDE DEF S
<1>3. Nat \subseteq S
  BY <1>1, <1>2, SetInduction, Zenon
<1> QED BY <1>3 DEF S

(* f has the places where the fields end that are read from i on.          *)
Ending(f, b, i, types, n) ==
    f = [k \in 0 .. n |-> IF k = 0 THEN (i + ShortSize) + IntSize
                         ELSE Read(b, f[k - 1], types[k]).next]

(* There is such an f, for any number of fields.                           *)
LEMMA EndingExists ==
    ASSUME NEW b, NEW i, NEW types
    PROVE  \A n \in Nat : \E f : Ending(f, b, i, types, n)
<1> DEFINE S == {n \in Nat : \E f : Ending(f, b, i, types, n)}
<1>1. 0 \in S
  <2> DEFINE f == [k \in 0 .. 0 |-> (i + ShortSize) + IntSize]
  <2>1. Ending(f, b, i, types, 0)
    BY DEF Ending
  <2> QED BY <2>1
<1>2. ASSUME NEW n \in Nat, n \in S PROVE n + 1 \in S
  <2>1. PICK f : Ending(f, b, i, types, n)
    BY <1>2
  <2> DEFINE Step(x, k) == Read(b, x, types[k]).next
             g == [k \in 0 .. n + 1 |-> IF k = n + 1 THEN Step(f[n], k) ELSE f[k]]
  <2>2. \A k \in 0 .. n : f[k] = IF k = 0 THEN (i + ShortSize) + IntSize ELSE Step(f[k - 1], k)
    BY <2>1 DEF Ending
  <2> HIDE DEF Step
  <2>3. ASSUME NEW k \in 0 .. n + 1
        PROVE  g[k] = IF k = 0 THEN (i + ShortSize) + IntSize ELSE Step(g[k - 1], k)
    <3>1. CASE k = n + 1
      BY <3>1
    <3>2. CASE k = 0
      <4>1. k \in 0 .. n /\ k # n + 1
        BY <3>2
      <4> QED BY <2>2, <3>2, <4>1
    <3>3. CASE k # n + 1 /\ k # 0
      <4>1. k \in 0 .. n /\ k - 1 \in 0 .. n /\ k - 1 \in 0 .. n + 1 /\ k - 1 # n + 1
        BY <3>3
      <4>2. g[k] = f[k] /\ g[k - 1] = f[k - 1]
        BY <3>3, <4>1
      <4> HIDE DEF g
      <4> QED BY <2>2, <3>3, <4>1, <4>2
    <3> QED BY <3>1, <3>2, <3>3
  <2>4. g = [k \in 0 .. n + 1 |-> g[k]]
    OBVIOUS
  <2> HIDE DEF g
  <2>5. g = [k \in 0 .. n + 1 |-> IF k = 0 THEN (i + ShortSize) + IntSize ELSE Step(g[k - 1], k)]
    BY <2>3, <2>4
  <2>6. Ending(g, b, i, types, n + 1)
    BY <2>5 DEF Ending, Step
  <2> QED BY <2>6
<1> HIDE DEF S
<1>3. Nat \subseteq S
  BY <1>1, <1>2, SetInduction, Zenon
<1> QED BY <1>3 DEF S

-----------------------------------------------------------------------------
(* The fields of an address.                                               *)
LEMMA FieldsAre ==
    ASSUME NEW location
    PROVE  LET types == AddressFields(location) IN
           /\ types \in Seq(Simple) /\ Len(types) \in {0, 1, 7}
           /\ DOMAIN types = 1 .. Len(types)
           /\ \A k \in 1 .. Len(types) : types[k] \in Simple
           /\ Len(types) = 0 <=> types = <<>>
           /\ Len(types) = 1 => types[1] = "string"
           /\ Len(types) = 7 => /\ types[1] = "string" /\ types[2] = "string" /\ types[3] = "int"
                                /\ types[4] = "int" /\ types[5] = "int" /\ types[6] = "int"
                                /\ types[7] = "string"
<1>1. "string" \in Simple /\ "int" \in Simple
  BY DEF Simple, Types, NumberTypes
<1>2. CASE location = LocalMailboxLocation
  BY <1>1, <1>2 DEF AddressFields, LocalMailboxLocation, Locations
<1>3. CASE location \in Locations
  <2>1. AddressFields(location) =
            <<"string", "string", "int", "int", "int", "int", "string">>
    BY <1>3 DEF AddressFields, LocalMailboxLocation, Locations
  <2> QED BY <1>1, <2>1
<1>4. CASE location # LocalMailboxLocation /\ location \notin Locations
  <2>1. AddressFields(location) = <<>>
    BY <1>4 DEF AddressFields
  <2> QED BY <2>1
<1> QED BY <1>2, <1>3, <1>4

(* What is counted of an address.                                          *)
LEMMA TotalSizeIs ==
    ASSUME NEW v, IsAddress(v)
    PROVE  LET types == AddressFields(v.location)
               of(k) == Counted(types[k], v.parts[k]) IN
           /\ TotalSize(v) \in Nat
           /\ \A k \in 1 .. Len(types) : of(k) \in Nat
           /\ Len(types) = 1 => TotalSize(v) = IntSize + of(1)
           /\ Len(types) = 7 =>
                TotalSize(v) = IntSize + of(1) + of(2) + of(3) + of(4) + of(5) + of(6) + of(7)
<1> DEFINE types == AddressFields(v.location)
           n == Len(types)
           of(k) == Counted(types[k], v.parts[k])
<1>1. n \in {0, 1, 7} /\ DOMAIN types = 1 .. n /\ \A k \in 1 .. n : types[k] \in Simple
  BY FieldsAre
<1>2. ASSUME NEW k \in 1 .. n PROVE of(k) \in Nat
  <2>1. OfType(types[k], v.parts[k]) /\ types[k] \in Simple
    <3>1. DOMAIN v.parts = 1 .. n
      BY <1>1 DEF IsAddress
    <3> QED BY <1>1, <1>2, <3>1 DEF IsAddress
  <2>2. PICK b \in BufferType : TRUE
    <3> DEFINE b == [mem |-> [i \in 0 .. Arena - 1 |-> 0], max |-> 0, insert |-> 0,
                     deserialize |-> 0, network |-> TRUE, host |-> "big"]
    <3>1. b \in BufferType
      BY ByteAssumption DEF BufferType
    <3> QED BY <3>1
  <2> QED BY <2>1, <2>2, BytesAre
<1>3. PICK size : Sizing(size, v, n) /\ TotalSize(v) = size[n]
  <2>1. \E f : Sizing(f, v, n)
    BY <1>1, SizingExists
  <2>2. TotalSize(v) = (CHOOSE f : Sizing(f, v, n))[n]
    BY DEF TotalSize, Sizing
  <2> QED BY <2>1, <2>2
<1>4. /\ size[0] = IntSize
      /\ \A k \in 1 .. n : k \in 0 .. n /\ size[k] = size[k - 1] + of(k)
  <2>1. n \in Nat
    <3> HIDE DEF n
    <3> QED BY <1>1
  <2>2. /\ size[0] = IntSize
        /\ \A k \in 1 .. n : /\ k \in 0 .. n
                            /\ size[k] = size[k - 1]
                                 + Counted(AddressFields(v.location)[k], v.parts[k])
    <3> HIDE DEF types, of, n
    <3> QED BY <1>3, <2>1, SizingIs
  <2> QED BY <2>2, Zenon
<1> HIDE DEF types, of, n
<1>5. CASE n = 0
  BY <1>2, <1>3, <1>4, <1>5 DEF types, of, n, IntSize
<1>6. CASE n = 1
  <2>1. size[1] = size[0] + of(1) /\ of(1) \in Nat
    <3>1. size[1] = size[1 - 1] + of(1) /\ of(1) \in Nat
      BY <1>2, <1>4, <1>6
    <3> QED BY <3>1
  <2>2. TotalSize(v) \in Nat /\ TotalSize(v) = IntSize + of(1)
    BY <1>3, <1>4, <1>6, <2>1 DEF IntSize
  <2> QED BY <1>2, <1>6, <2>2 DEF types, of, n
<1>7. CASE n = 7
  <2>1. \A k \in 1 .. 7 : size[k] = size[k - 1] + of(k) /\ of(k) \in Nat
    BY <1>2, <1>4, <1>7
  <2>2. /\ size[1] = size[0] + of(1) /\ size[2] = size[1] + of(2) /\ size[3] = size[2] + of(3)
        /\ size[4] = size[3] + of(4) /\ size[5] = size[4] + of(5) /\ size[6] = size[5] + of(6)
        /\ size[7] = size[6] + of(7)
    <3>1. /\ size[1] = size[1 - 1] + of(1) /\ size[2] = size[2 - 1] + of(2)
          /\ size[3] = size[3 - 1] + of(3) /\ size[4] = size[4 - 1] + of(4)
          /\ size[5] = size[5 - 1] + of(5) /\ size[6] = size[6 - 1] + of(6)
          /\ size[7] = size[7 - 1] + of(7)
      BY <2>1
    <3> QED BY <3>1
  <2>3. /\ of(1) \in Nat /\ of(2) \in Nat /\ of(3) \in Nat /\ of(4) \in Nat
        /\ of(5) \in Nat /\ of(6) \in Nat /\ of(7) \in Nat
    BY <2>1
  <2>4. /\ TotalSize(v) \in Nat
        /\ TotalSize(v) = IntSize + of(1) + of(2) + of(3) + of(4) + of(5) + of(6) + of(7)
    BY <1>3, <1>4, <1>7, <2>2, <2>3 DEF IntSize
  <2> QED BY <1>2, <1>7, <2>4 DEF types, of, n
<1> QED BY <1>1, <1>5, <1>6, <1>7 DEF n, types

(* The total size as it is written.                                        *)
LEMMA SizeBytesAre ==
    ASSUME NEW b \in BufferType, NEW v, IsAddress(v)
    PROVE  SizeBytes(b, v) \in Seq(0 .. Byte - 1) /\ Len(SizeBytes(b, v)) = 2
<1>1. Number(b, TotalSize(v), 2) \in Seq(0 .. Byte - 1) /\ Len(Number(b, TotalSize(v), 2)) = 2
  BY TotalSizeIs, BytesOfNumber
<1>2. <<0, 0>> \in Seq(0 .. Byte - 1) /\ Len(<<0, 0>>) = 2
  BY ByteAssumption
<1> QED BY <1>1, <1>2 DEF SizeBytes, ShortSize

(* A buffer that grows twice grows.                                        *)
LEMMA GrowsAgain ==
    ASSUME NEW b \in BufferType, NEW c, Grows(b, c), NEW d, Grows(c, d)
    PROVE  Grows(b, d)
<1>1. c \in BufferType /\ d \in BufferType
  BY DEF Grows, SameBuffer
<1>2. b.insert \in Nat /\ c.insert \in Nat /\ d.insert \in Nat
  BY <1>1 DEF BufferType
<1> QED BY <1>1, <1>2 DEF Grows, SameBuffer

(* The buffer after the location and each field of an address.             *)
LEMMA AddressIsWritten ==
    ASSUME NEW b \in BufferType, NEW v, IsAddress(v)
    PROVE  LET types == AddressFields(v.location)
               first == Write(b, SizeBytes(b, v)) IN
           \E w : /\ InsertAddress(b, v) = w[Len(types)]
                  /\ WritesBytes(b, first, SizeBytes(b, v))
                  /\ WritesBytes(first, w[0], Number(b, v.location, IntSize))
                  /\ \A k \in 1 .. Len(types) :
                         WritesBytes(w[k - 1], w[k], Bytes(b, types[k], v.parts[k]))
                  /\ \A j, k \in 0 .. Len(types) : j <= k => Grows(w[j], w[k])
                  /\ \A k \in 0 .. Len(types) : w[k] \in BufferType
<1> DEFINE types == AddressFields(v.location)
           n == Len(types)
           first == Write(b, SizeBytes(b, v))
           of(k) == Bytes(b, types[k], v.parts[k])
<1>1. n \in {0, 1, 7} /\ DOMAIN types = 1 .. n /\ \A k \in 1 .. n : types[k] \in Simple
  BY FieldsAre
<1>2. ASSUME NEW k \in 1 .. n PROVE of(k) \in Seq(0 .. Byte - 1)
  <2>1. OfType(types[k], v.parts[k]) /\ types[k] \in Simple
    <3>1. DOMAIN v.parts = 1 .. n
      BY <1>1 DEF IsAddress
    <3> QED BY <1>1, <1>2, <3>1 DEF IsAddress
  <2> QED BY <2>1, BytesAre
<1>3. WritesBytes(b, first, SizeBytes(b, v)) /\ first \in BufferType
  <2>1. SizeBytes(b, v) \in Seq(0 .. Byte - 1)
    BY SizeBytesAre
  <2>2. WritesBytes(b, first, SizeBytes(b, v))
    BY <2>1, WriteIs
  <2> HIDE DEF first
  <2> QED BY <2>2 DEF WritesBytes, Grows, SameBuffer
<1>4. WritesBytes(first, Start(b, v), Number(b, v.location, IntSize)) /\ Start(b, v) \in BufferType
  <2>1. v.location \in Nat
    BY DEF IsAddress, OfType, NumberTypes
  <2>2. Number(b, v.location, IntSize) \in Seq(0 .. Byte - 1)
    BY <2>1, BytesOfNumber DEF IntSize
  <2> HIDE DEF first
  <2> QED BY <1>3, <2>2, WriteIs DEF WritesBytes, Grows, SameBuffer, Start, first
<1>5. PICK w : Writing(w, b, v, n) /\ InsertAddress(b, v) = w[n]
  <2>1. \E f : Writing(f, b, v, n)
    BY <1>1, WritingExists
  <2>2. InsertAddress(b, v) = (CHOOSE f : Writing(f, b, v, n))[n]
    BY DEF InsertAddress, Writing, Start
  <2> QED BY <2>1, <2>2
<1>6. /\ w[0] = Start(b, v)
      /\ \A k \in 1 .. n : k - 1 \in 0 .. n /\ w[k] = Write(w[k - 1], of(k))
  BY <1>1, <1>5 DEF Writing
<1> HIDE DEF types, of, n, first
<1> DEFINE S == {k \in Nat : k <= n =>
                     \A j \in 0 .. k : w[j] \in BufferType /\ Grows(w[j], w[k])}
<1>7. 0 \in S
  BY <1>4, <1>6 DEF Grows, SameBuffer, BufferType
<1>8. ASSUME NEW k \in Nat, k \in S PROVE k + 1 \in S
  <2> SUFFICES ASSUME k + 1 <= n
               PROVE  \A j \in 0 .. k + 1 : w[j] \in BufferType /\ Grows(w[j], w[k + 1])
    OBVIOUS
  <2>1. k <= n /\ k + 1 \in 1 .. n /\ (k + 1) - 1 = k
    BY <1>1
  <2>2. w[k + 1] = Write(w[k], of(k + 1)) /\ of(k + 1) \in Seq(0 .. Byte - 1)
    BY <1>2, <1>6, <2>1
  <2>3. \A j \in 0 .. k : w[j] \in BufferType /\ Grows(w[j], w[k])
    BY <1>8, <2>1
  <2>7. w[k] \in BufferType
    BY <2>3
  <2>4. Grows(w[k], w[k + 1]) /\ w[k + 1] \in BufferType
    BY <2>7, <2>2, WriteIs DEF WritesBytes, Grows, SameBuffer
  <2>5. Grows(w[k + 1], w[k + 1])
    BY <2>4 DEF Grows, SameBuffer, BufferType
  <2>6. ASSUME NEW j \in 0 .. k PROVE w[j] \in BufferType /\ Grows(w[j], w[k + 1])
    BY <2>3, <2>4, GrowsAgain
  <2> QED BY <2>4, <2>5, <2>6
<1> HIDE DEF S
<1>9. Nat \subseteq S
  BY <1>7, <1>8, SetInduction, Zenon
<1>10. \A k \in 0 .. n : \A j \in 0 .. k : w[j] \in BufferType /\ Grows(w[j], w[k])
  BY <1>1, <1>9 DEF S
<1>14. \A k \in 0 .. n : w[k] \in BufferType
  BY <1>1, <1>10
<1>11. \A j, k \in 0 .. n : j <= k => Grows(w[j], w[k])
  BY <1>1, <1>10
<1>12. \A k \in 1 .. n : WritesBytes(w[k - 1], w[k], of(k))
  BY <1>1, <1>2, <1>6, <1>14, WriteIs
<1>13. WritesBytes(first, w[0], Number(b, v.location, IntSize))
  BY <1>4, <1>6
<1> QED BY <1>3, <1>5, <1>14, <1>11, <1>12, <1>13 DEF types, n, of, first

(* An address takes its total size and the two bytes of it, and a length   *)
(* byte for each string.                                                   *)
LEMMA AddressGrows ==
    ASSUME NEW b \in BufferType, NEW v, IsAddress(v), AddressFields(v.location) # <<>>
    PROVE  LET c == InsertAddress(b, v) IN
           /\ Grows(b, c)
           /\ c.insert > b.insert + TotalSize(v)
           /\ c.insert <= b.insert + TotalSize(v) + Overrun
<1> DEFINE types == AddressFields(v.location)
           n == Len(types)
           of(k) == Counted(types[k], v.parts[k])
           first == Write(b, SizeBytes(b, v))
<1>1. /\ n \in {1, 7} /\ DOMAIN types = 1 .. n /\ \A k \in 1 .. n : types[k] \in Simple
      /\ n = 1 => types[1] = "string"
      /\ n = 7 => /\ types[1] = "string" /\ types[2] = "string" /\ types[3] = "int"
                  /\ types[4] = "int" /\ types[5] = "int" /\ types[6] = "int"
                  /\ types[7] = "string"
  BY FieldsAre
<1>2. PICK w : /\ InsertAddress(b, v) = w[n]
               /\ WritesBytes(b, first, SizeBytes(b, v))
               /\ WritesBytes(first, w[0], Number(b, v.location, IntSize))
               /\ \A k \in 1 .. n : WritesBytes(w[k - 1], w[k], Bytes(b, types[k], v.parts[k]))
               /\ \A j, k \in 0 .. n : j <= k => Grows(w[j], w[k])
               /\ \A k \in 0 .. n : w[k] \in BufferType
  BY AddressIsWritten
<1>3. ASSUME NEW k \in 1 .. n
      PROVE  /\ w[k].insert = w[k - 1].insert + (of(k) + Uncounted(types[k]))
             /\ of(k) \in Nat
  <2>1. OfType(types[k], v.parts[k]) /\ types[k] \in Simple
    <3>1. DOMAIN v.parts = 1 .. n
      BY <1>1 DEF IsAddress
    <3> QED BY <1>1, <1>3, <3>1 DEF IsAddress
  <2>2. /\ Len(Bytes(b, types[k], v.parts[k])) = of(k) + Uncounted(types[k])
        /\ of(k) \in Nat
    BY <2>1, BytesAre
  <2> QED BY <1>2, <2>2 DEF WritesBytes
<1>4. first.insert = b.insert + 2 /\ w[0].insert = first.insert + 4
  <2>1. Len(SizeBytes(b, v)) = 2
    BY SizeBytesAre
  <2>2. v.location \in Nat
    BY DEF IsAddress, OfType, NumberTypes
  <2>3. Len(Number(b, v.location, IntSize)) = 4
    BY <2>2, BytesOfNumber DEF IntSize
  <2> HIDE DEF first
  <2> QED BY <1>2, <2>1, <2>3 DEF WritesBytes
<1>5. /\ n = 1 => TotalSize(v) = 4 + of(1)
      /\ n = 7 => TotalSize(v) = 4 + of(1) + of(2) + of(3) + of(4) + of(5) + of(6) + of(7)
  BY TotalSizeIs DEF IntSize
<1>6. b.insert \in Nat
  BY DEF BufferType
<1>7. Grows(b, w[n])
  <2>1. first \in BufferType /\ w[0] \in BufferType /\ Grows(b, first) /\ Grows(first, w[0])
    <3> HIDE DEF first
    <3> QED BY <1>1, <1>2 DEF WritesBytes, Grows, SameBuffer
  <2>2. 0 \in 0 .. n /\ n \in 0 .. n /\ 0 <= n
    BY <1>1
  <2>3. Grows(w[0], w[n])
    BY <1>2, <2>2
  <2> HIDE DEF first, n
  <2> QED BY <2>1, <2>3, GrowsAgain
<1> HIDE DEF n, types, of, first
<1>8. CASE n = 1
  <2>1. w[1].insert = w[0].insert + (of(1) + 1) /\ of(1) \in Nat
    <3>1. w[1].insert = w[1 - 1].insert + (of(1) + Uncounted(types[1])) /\ of(1) \in Nat
      BY <1>3, <1>8
    <3> QED BY <1>1, <1>8, <3>1 DEF Uncounted
  <2> QED BY <1>2, <1>4, <1>5, <1>6, <1>7, <1>8, <2>1 DEF Overrun
<1>9. CASE n = 7
  <2>1. \A k \in 1 .. 7 : /\ w[k].insert = w[k - 1].insert + (of(k) + Uncounted(types[k]))
                          /\ of(k) \in Nat
    BY <1>3, <1>9
  <2>2. /\ of(1) \in Nat /\ of(2) \in Nat /\ of(3) \in Nat /\ of(4) \in Nat
        /\ of(5) \in Nat /\ of(6) \in Nat /\ of(7) \in Nat
    BY <2>1
  <2>3. /\ w[1].insert = w[0].insert + (of(1) + 1) /\ w[2].insert = w[1].insert + (of(2) + 1)
        /\ w[3].insert = w[2].insert + (of(3) + 0) /\ w[4].insert = w[3].insert + (of(4) + 0)
        /\ w[5].insert = w[4].insert + (of(5) + 0) /\ w[6].insert = w[5].insert + (of(6) + 0)
        /\ w[7].insert = w[6].insert + (of(7) + 1)
    <3>1. /\ w[1].insert = w[1 - 1].insert + (of(1) + Uncounted(types[1]))
          /\ w[2].insert = w[2 - 1].insert + (of(2) + Uncounted(types[2]))
          /\ w[3].insert = w[3 - 1].insert + (of(3) + Uncounted(types[3]))
          /\ w[4].insert = w[4 - 1].insert + (of(4) + Uncounted(types[4]))
          /\ w[5].insert = w[5 - 1].insert + (of(5) + Uncounted(types[5]))
          /\ w[6].insert = w[6 - 1].insert + (of(6) + Uncounted(types[6]))
          /\ w[7].insert = w[7 - 1].insert + (of(7) + Uncounted(types[7]))
      BY <2>1
    <3> QED BY <1>1, <1>9, <3>1 DEF Uncounted
  <2>4. w[0].insert \in Nat /\ w[0].insert = b.insert + 6
    BY <1>4, <1>6
  <2>5. TotalSize(v) = 4 + of(1) + of(2) + of(3) + of(4) + of(5) + of(6) + of(7)
    BY <1>5, <1>9
  <2>6. w[7].insert = b.insert + TotalSize(v) + 5 /\ TotalSize(v) \in Nat
    <3> DEFINE x0 == w[0].insert
               x1 == w[1].insert
               x2 == w[2].insert
               x3 == w[3].insert
               x4 == w[4].insert
               x5 == w[5].insert
               x6 == w[6].insert
               x7 == w[7].insert
               a1 == of(1)
               a2 == of(2)
               a3 == of(3)
               a4 == of(4)
               a5 == of(5)
               a6 == of(6)
               a7 == of(7)
               end == b.insert
               total == TotalSize(v)
    <3>1. /\ x0 = end + 6 /\ x1 = x0 + (a1 + 1) /\ x2 = x1 + (a2 + 1) /\ x3 = x2 + (a3 + 0)
          /\ x4 = x3 + (a4 + 0) /\ x5 = x4 + (a5 + 0) /\ x6 = x5 + (a6 + 0)
          /\ x7 = x6 + (a7 + 1) /\ end \in Nat
      BY <1>6, <2>3, <2>4
    <3>2. total = 4 + a1 + a2 + a3 + a4 + a5 + a6 + a7
      BY <2>5
    <3>3. /\ a1 \in Nat /\ a2 \in Nat /\ a3 \in Nat /\ a4 \in Nat /\ a5 \in Nat
          /\ a6 \in Nat /\ a7 \in Nat
      BY <2>2
    <3> SUFFICES x7 = end + total + 5 /\ total \in Nat
      OBVIOUS
    <3> HIDE DEF x0, x1, x2, x3, x4, x5, x6, x7, a1, a2, a3, a4, a5, a6, a7, end, total
    <3> QED BY <3>1, <3>2, <3>3
  <2> QED BY <1>2, <1>6, <1>7, <1>9, <2>6 DEF Overrun
<1> QED BY <1>1, <1>8, <1>9

\* What an insertion writes past the end of the buffer, at most.
Excess(type) == CASE type = "address" -> Overrun [] type = "string" -> 1 [] OTHER -> 0

(* An insertion leaves the buffer as it is, or writes the value behind the *)
(* end of the contents and a few bytes past the end of the buffer at most. *)
LEMMA InsertIs ==
    ASSUME NEW b \in BufferType, NEW type \in Types, NEW v, Valid(type, v)
    PROVE  LET c == Insert(b, type, v) IN
           \/ c = b
           \/ /\ Grows(b, c)
              /\ c.insert > b.insert
              /\ c.insert <= b.max + Excess(type)
              /\ type = "address" => AddressFields(v.location) # <<>> /\ c = InsertAddress(b, v)
              /\ type # "address" => WritesBytes(b, c, Bytes(b, type, v))
<1> DEFINE c == Insert(b, type, v)
<1> SUFFICES ASSUME c # b
             PROVE  /\ Grows(b, c)
                    /\ c.insert > b.insert
                    /\ c.insert <= b.max + Excess(type)
                    /\ type = "address" => AddressFields(v.location) # <<>> /\ c = InsertAddress(b, v)
                    /\ type # "address" => WritesBytes(b, c, Bytes(b, type, v))
  OBVIOUS
<1>1. b.insert \in Nat /\ b.max \in Nat
  BY DEF BufferType
<1>2. CASE type = "address"
  <2>1. IsAddress(v)
    BY <1>2 DEF Valid
  <2>2. /\ AddressFields(v.location) # <<>>
        /\ ~ (b.insert + TotalSize(v) > b.max)
        /\ c = InsertAddress(b, v)
    BY <1>2 DEF Insert
  <2>3. TotalSize(v) \in Nat
    BY <2>1, TotalSizeIs
  <2>4. /\ Grows(b, c) /\ c.insert > b.insert + TotalSize(v)
        /\ c.insert <= b.insert + TotalSize(v) + Overrun
    BY <2>1, <2>2, AddressGrows
  <2>5. c.insert \in Nat
    BY <2>4 DEF Grows, SameBuffer, BufferType
  <2> HIDE DEF c
  <2> QED BY <1>1, <1>2, <2>2, <2>3, <2>4, <2>5 DEF Excess, Overrun
<1>3. CASE type # "address"
  <2>1. OfType(type, v) /\ type \in Simple
    BY <1>3 DEF Valid, Simple
  <2>2. /\ ~ (b.insert + Counted(type, v) > b.max)
        /\ c = Write(b, Bytes(b, type, v))
    BY <1>3 DEF Insert
  <2>3. /\ Bytes(b, type, v) \in Seq(0 .. Byte - 1)
        /\ Len(Bytes(b, type, v)) = Counted(type, v) + Uncounted(type)
        /\ Counted(type, v) \in Nat
        /\ Counted(type, v) + Uncounted(type) > 0
    BY <2>1, BytesAre
  <2>4. WritesBytes(b, c, Bytes(b, type, v))
    BY <2>2, <2>3, WriteIs
  <2> HIDE DEF c
  <2>5. Grows(b, c) /\ c.insert = b.insert + Counted(type, v) + Uncounted(type)
    BY <1>1, <2>3, <2>4 DEF WritesBytes, Uncounted
  <2> QED BY <1>1, <1>3, <2>2, <2>3, <2>4, <2>5 DEF Excess, Uncounted
<1> QED BY <1>2, <1>3

(* Where the value ends that is read at a place.                           *)
LEMMA ReadEnds ==
    ASSUME NEW b \in BufferType, NEW i \in Nat, NEW type \in Simple
    PROVE  /\ Read(b, i, type).next \in Nat
           /\ Read(b, i, type).next <= i + (IF type = "string" THEN Byte ELSE IntSize)
<1>1. CASE type = "string"
  <2>1. Read(b, i, type).next = i + 1 + At(b, i)
    BY <1>1 DEF Read
  <2>2. At(b, i) \in 0 .. Byte - 1
    BY AtIs
  <2> QED BY <1>1, <2>1, <2>2, ByteAssumption
<1>2. CASE type # "string"
  <2>1. Read(b, i, type).next = i + Width(type)
    BY <1>2 DEF Read
  <2>2. Width(type) \in 1 .. 4
    BY <1>2 DEF Width, IntSize, ShortSize
  <2> QED BY <1>2, <2>1, <2>2 DEF IntSize
<1> QED BY <1>1, <1>2

\* The fields of an address at a place, each from the end of the one before.
Followed(b, i, location) ==
    LET types == AddressFields(location) IN
    \E end : /\ end[0] = (i + ShortSize) + IntSize
             /\ \A k \in 1 .. Len(types) : end[k] = Read(b, end[k - 1], types[k]).next
             /\ ReadAddress(b, i) =
                   [value |-> [location |-> location,
                               parts |-> [k \in DOMAIN types |->
                                            Read(b, end[k - 1], types[k]).value]],
                    next |-> end[Len(types)]]

(* The places where the fields of an address end that is read.             *)
LEMMA AddressIsRead ==
    ASSUME NEW b, NEW i
    PROVE  Followed(b, i, ReadNumber(b, i + ShortSize, IntSize))
<1> DEFINE location == ReadNumber(b, i + ShortSize, IntSize)
           types == AddressFields(location)
           n == Len(types)
<1>1. n \in Nat
  BY FieldsAre
<1>2. Ending(CHOOSE f : Ending(f, b, i, types, n), b, i, types, n)
  <2>1. \E f : Ending(f, b, i, types, n)
    BY <1>1, EndingExists
  <2> QED BY <2>1
<1> DEFINE end == CHOOSE f : Ending(f, b, i, types, n)
<1>3. ReadAddress(b, i) =
        [value |-> [location |-> location,
                    parts |-> [k \in DOMAIN types |-> Read(b, end[k - 1], types[k]).value]],
         next |-> end[n]]
  BY DEF ReadAddress, Ending
<1>4. Ending(end, b, i, types, n)
  BY <1>2
<1> HIDE DEF end
<1>5. /\ end[0] = (i + ShortSize) + IntSize
      /\ \A k \in 1 .. n : end[k] = Read(b, end[k - 1], types[k]).next
  <2> HIDE DEF types, n
  <2> QED BY <1>1, <1>4 DEF Ending
<1> QED BY <1>3, <1>5 DEF Followed

(* How far an address reaches that is read.                                *)
LEMMA AddressEnds ==
    ASSUME NEW b \in BufferType, NEW i \in Nat
    PROVE  /\ ReadAddress(b, i).next \in Nat
           /\ ReadAddress(b, i).next <= i + ShortSize + 5 * IntSize + 3 * Byte
<1> DEFINE types == AddressFields(ReadNumber(b, i + ShortSize, IntSize))
           n == Len(types)
<1>1. PICK end : /\ end[0] = (i + ShortSize) + IntSize
                 /\ \A k \in 1 .. n : end[k] = Read(b, end[k - 1], types[k]).next
                 /\ ReadAddress(b, i).next = end[n]
  <2>1. PICK end : /\ end[0] = (i + ShortSize) + IntSize
                   /\ \A k \in 1 .. n : end[k] = Read(b, end[k - 1], types[k]).next
                   /\ ReadAddress(b, i) =
                         [value |-> [location |-> ReadNumber(b, i + ShortSize, IntSize),
                                     parts |-> [k \in DOMAIN types |->
                                                  Read(b, end[k - 1], types[k]).value]],
                          next |-> end[n]]
    BY AddressIsRead DEF Followed
  <2>2. ReadAddress(b, i).next = end[n]
    BY <2>1
  <2> QED BY <2>1, <2>2
<1>2. /\ n \in {0, 1, 7} /\ \A k \in 1 .. n : types[k] \in Simple
      /\ n = 1 => types[1] = "string"
      /\ n = 7 => /\ types[1] = "string" /\ types[2] = "string" /\ types[3] = "int"
                  /\ types[4] = "int" /\ types[5] = "int" /\ types[6] = "int"
                  /\ types[7] = "string"
  BY FieldsAre
<1>3. ASSUME NEW k \in 1 .. n, end[k - 1] \in Nat
      PROVE  /\ end[k] \in Nat
             /\ end[k] <= end[k - 1] + (IF types[k] = "string" THEN Byte ELSE 4)
  BY <1>1, <1>2, <1>3, ReadEnds DEF IntSize
<1>4. end[0] \in Nat /\ end[0] = i + 6
  BY <1>1 DEF ShortSize, IntSize
<1> HIDE DEF n, types
<1>5. CASE n = 0
  BY <1>1, <1>4, <1>5, ByteAssumption DEF ShortSize, IntSize
<1>6. CASE n = 1
  <2>1. end[1 - 1] \in Nat
    BY <1>4
  <2>2. end[1] \in Nat /\ end[1] <= end[1 - 1] + Byte
    BY <1>2, <1>3, <1>6, <2>1
  <2> QED BY <1>1, <1>4, <1>6, <2>2, ByteAssumption DEF ShortSize, IntSize
<1>7. CASE n = 7
  <2>1. \A k \in 1 .. 7 : end[k - 1] \in Nat =>
            end[k] \in Nat /\ end[k] <= end[k - 1] + (IF types[k] = "string" THEN Byte ELSE 4)
    BY <1>3, <1>7
  <2>2. /\ end[0] \in Nat => end[1] \in Nat /\ end[1] <= end[0] + Byte
        /\ end[1] \in Nat => end[2] \in Nat /\ end[2] <= end[1] + Byte
        /\ end[2] \in Nat => end[3] \in Nat /\ end[3] <= end[2] + 4
        /\ end[3] \in Nat => end[4] \in Nat /\ end[4] <= end[3] + 4
        /\ end[4] \in Nat => end[5] \in Nat /\ end[5] <= end[4] + 4
        /\ end[5] \in Nat => end[6] \in Nat /\ end[6] <= end[5] + 4
        /\ end[6] \in Nat => end[7] \in Nat /\ end[7] <= end[6] + Byte
    <3>1. /\ end[1 - 1] \in Nat => end[1] \in Nat /\ end[1] <= end[1 - 1] + Byte
          /\ end[2 - 1] \in Nat => end[2] \in Nat /\ end[2] <= end[2 - 1] + Byte
          /\ end[3 - 1] \in Nat => end[3] \in Nat /\ end[3] <= end[3 - 1] + 4
          /\ end[4 - 1] \in Nat => end[4] \in Nat /\ end[4] <= end[4 - 1] + 4
          /\ end[5 - 1] \in Nat => end[5] \in Nat /\ end[5] <= end[5 - 1] + 4
          /\ end[6 - 1] \in Nat => end[6] \in Nat /\ end[6] <= end[6 - 1] + 4
          /\ end[7 - 1] \in Nat => end[7] \in Nat /\ end[7] <= end[7 - 1] + Byte
      BY <1>2, <1>7, <2>1
    <3> QED BY <3>1
  <2> DEFINE x0 == end[0]
             x1 == end[1]
             x2 == end[2]
             x3 == end[3]
             x4 == end[4]
             x5 == end[5]
             x6 == end[6]
             x7 == end[7]
  <2>3. /\ x0 \in Nat /\ x0 = i + 6
        /\ x0 \in Nat => x1 \in Nat /\ x1 <= x0 + Byte
        /\ x1 \in Nat => x2 \in Nat /\ x2 <= x1 + Byte
        /\ x2 \in Nat => x3 \in Nat /\ x3 <= x2 + 4
        /\ x3 \in Nat => x4 \in Nat /\ x4 <= x3 + 4
        /\ x4 \in Nat => x5 \in Nat /\ x5 <= x4 + 4
        /\ x5 \in Nat => x6 \in Nat /\ x6 <= x5 + 4
        /\ x6 \in Nat => x7 \in Nat /\ x7 <= x6 + Byte
    BY <1>4, <2>2
  <2>4. ReadAddress(b, i).next = x7
    BY <1>1, <1>7
  <2> HIDE DEF x0, x1, x2, x3, x4, x5, x6, x7
  <2>5. x7 \in Nat /\ x7 <= i + 22 + 3 * Byte
    BY <2>3, ByteAssumption
  <2> QED BY <2>4, <2>5, ByteAssumption DEF ShortSize, IntSize
<1> QED BY <1>2, <1>5, <1>6, <1>7

(* An extraction ends where it began, or in the memory behind the buffer.  *)
LEMMA ExtractEnds ==
    ASSUME NEW b \in BufferType, NEW type \in Types, b.deserialize <= Arena,
           b.max + 3 * Byte + 6 * IntSize <= Arena
    PROVE  Extract(b, type).next \in Nat /\ Extract(b, type).next <= Arena
<1>1. b.deserialize \in Nat /\ b.max \in Nat /\ Arena \in Nat
  BY SizesAssumption DEF BufferType
<1>2. CASE AreContentsProcessed(b) \/ b.deserialize + Announced(b, type) > b.max
  BY <1>1, <1>2 DEF Extract
<1>3. CASE ~ (AreContentsProcessed(b) \/ b.deserialize + Announced(b, type) > b.max)
  <2>1. Announced(b, type) \in Nat
    <3>1. CASE type = "string"
      BY <1>1, <3>1, AtIs, ByteAssumption DEF Announced
    <3>2. CASE type = "address"
      BY <1>1, <3>2, NumbersAreRead DEF Announced, ShortSize
    <3>3. CASE type # "string" /\ type # "address"
      BY <3>3 DEF Announced, Width, IntSize, ShortSize
    <3> QED BY <3>1, <3>2, <3>3
  <2>2. b.deserialize <= b.max
    BY <1>1, <1>3, <2>1
  <2>3. CASE type = "address"
    <3>1. Extract(b, type).next = ReadAddress(b, b.deserialize).next
      BY <1>3, <2>3 DEF Extract
    <3> QED BY <1>1, <2>2, <3>1, AddressEnds, ByteAssumption DEF ShortSize, IntSize
  <2>4. CASE type # "address"
    <3>1. Extract(b, type).next = Read(b, b.deserialize, type).next /\ type \in Simple
      BY <1>3, <2>4 DEF Extract, Simple
    <3> QED BY <1>1, <2>2, <3>1, ReadEnds, ByteAssumption DEF IntSize
  <2> QED BY <2>3, <2>4
<1> QED BY <1>2, <1>3

-----------------------------------------------------------------------------
(* What every operation on a buffer leaves.                                *)
Cleared(b, c) ==
    /\ c \in BufferType
    /\ c.max = b.max /\ c.network = b.network /\ c.host = b.host
    /\ c.insert = 0 /\ c.deserialize = 0
    /\ \A i \in 0 .. Arena - 1 : c.mem[i] = IF i < b.max THEN 0 ELSE b.mem[i]

(* clearBuffer (MessageBuffer.cpp:225-233).                                *)
LEMMA ClearIs ==
    ASSUME NEW b \in BufferType
    PROVE  Cleared(b, ClearBuffer(b))
<1> DEFINE m == [i \in 0 .. Arena - 1 |-> IF i < b.max THEN 0 ELSE b.mem[i]]
           c == [mem |-> m, max |-> b.max, insert |-> 0, deserialize |-> 0,
                 network |-> b.network, host |-> b.host]
<1>1. b = [mem |-> b.mem, max |-> b.max, insert |-> b.insert,
           deserialize |-> b.deserialize, network |-> b.network, host |-> b.host]
  BY DEF BufferType
<1>2. b.mem \in [0 .. Arena - 1 -> 0 .. Byte - 1] /\ DOMAIN b.mem = 0 .. Arena - 1
  BY DEF BufferType
<1>3. m \in [0 .. Arena - 1 -> 0 .. Byte - 1]
  <2>1. 0 \in 0 .. Byte - 1
    BY ByteAssumption
  <2>2. \A i \in 0 .. Arena - 1 : b.mem[i] \in 0 .. Byte - 1
    BY <1>2
  <2> QED BY <2>1, <2>2
<1>4. ClearBuffer(b) = c
  <2>1. m = [i \in DOMAIN b.mem |-> IF i < b.max THEN 0 ELSE b.mem[i]]
    BY <1>2
  <2> HIDE DEF m
  <2>2. ClearBuffer(b) = [b EXCEPT !.mem = m, !.insert = 0, !.deserialize = 0]
    BY <2>1 DEF ClearBuffer
  <2> QED BY <1>1, <2>2
<1>5. c \in BufferType
  <2> HIDE DEF m
  <2> QED BY <1>3 DEF BufferType
<1> QED BY <1>4, <1>5 DEF Cleared

(* A deserialization moves the pointer of the buffer only.                 *)
Moved(b, c, next) ==
    /\ c \in BufferType
    /\ c.mem = b.mem /\ c.max = b.max /\ c.network = b.network /\ c.host = b.host
    /\ c.insert = b.insert /\ c.deserialize = next

(* The pointer of a buffer behind what was read.                           *)
LEMMA MoveIs ==
    ASSUME NEW b \in BufferType, NEW next \in Nat
    PROVE  Moved(b, [b EXCEPT !.deserialize = next], next)
<1>1. b = [mem |-> b.mem, max |-> b.max, insert |-> b.insert,
           deserialize |-> b.deserialize, network |-> b.network, host |-> b.host]
  BY DEF BufferType
<1>2. [b EXCEPT !.deserialize = next] =
        [mem |-> b.mem, max |-> b.max, insert |-> b.insert,
         deserialize |-> next, network |-> b.network, host |-> b.host]
  BY <1>1
<1>3. [mem |-> b.mem, max |-> b.max, insert |-> b.insert,
         deserialize |-> next, network |-> b.network, host |-> b.host] \in BufferType
  BY DEF BufferType
<1> QED BY <1>2, <1>3 DEF Moved

(* A sequence with one more element.                                       *)
LEMMA AppendIs ==
    ASSUME NEW s, IsSequence(s), NEW v
    PROVE  /\ IsSequence(Append(s, v)) /\ Len(Append(s, v)) = Len(s) + 1
           /\ DOMAIN Append(s, v) = 1 .. Len(s) + 1 /\ DOMAIN s = 1 .. Len(s)
           /\ Append(s, v)[Len(s) + 1] = v
           /\ \A k \in 1 .. Len(s) : Append(s, v)[k] = s[k]
<1> DEFINE S == {s[k] : k \in 1 .. Len(s)} \cup {v}
<1>1. Len(s) \in Nat /\ s = [k \in 1 .. Len(s) |-> s[k]]
  BY DEF IsSequence
<1>2. s \in [1 .. Len(s) -> S]
  BY <1>1
<1>3. v \in S
  OBVIOUS
<1> HIDE DEF S
<1>4. s \in Seq(S)
  BY <1>1, <1>2, SegmentIsSequence
<1>5. Append(s, v) \in Seq(S) /\ Len(Append(s, v)) = Len(s) + 1
  BY <1>3, <1>4
<1>6. Append(s, v)[Len(s) + 1] = v /\ \A k \in 1 .. Len(s) : Append(s, v)[k] = s[k]
  BY <1>3, <1>4
<1>7. Append(s, v) = [k \in 1 .. Len(Append(s, v)) |-> Append(s, v)[k]]
  <2> DEFINE t == Append(s, v)
  <2>1. t \in Seq(S)
    BY <1>5
  <2> HIDE DEF t
  <2>2. t = [k \in 1 .. Len(t) |-> t[k]]
    BY <2>1
  <2> QED BY <2>2 DEF t
<1>8. DOMAIN Append(s, v) = 1 .. Len(s) + 1
  BY <1>5
<1> QED BY <1>1, <1>5, <1>6, <1>7, <1>8 DEF IsSequence

(* What is known of the two buffers.                                       *)
LEMMA BuffersAre ==
    ASSUME BufferInv
    PROVE  /\ out \in BufferType /\ in \in BufferType
           /\ out.insert \in Nat /\ out.max \in Nat /\ out.insert <= out.max + Overrun
           /\ in.insert \in Nat /\ in.max \in Nat /\ in.insert <= in.max
           /\ out.max + Overrun + 3 * Byte + 6 * IntSize <= Arena
           /\ in.max + 3 * Byte + 6 * IntSize <= Arena
           /\ MaxLength \in Nat /\ MaxLength + 3 * Byte + 6 * IntSize <= Arena
           /\ Arena \in Nat /\ Byte \in Nat
           /\ \A i \in out.insert .. out.max - 1 : out.mem[i] = 0
           /\ \A i \in in.insert .. in.max - 1 : in.mem[i] = 0
<1>1. out \in BufferType /\ in \in BufferType /\ out.insert <= out.max + Overrun
  BY DEF BufferInv, BufferTypeOK
<1>2. /\ out.insert \in Nat /\ out.max \in Nat /\ in.insert \in Nat /\ in.max \in Nat
  BY <1>1 DEF BufferType
<1>3. out.max \in Sizes /\ in.insert <= in.max /\ in.max + 3 * Byte + 6 * IntSize <= Arena
  BY DEF BufferInv, Steady
<1>4. MaxLength + 3 * Byte + 6 * IntSize <= Arena
  BY SizesAssumption, ByteAssumption DEF Overrun, IntSize
<1> QED BY <1>1, <1>2, <1>3, <1>4, SizesAssumption, ByteAssumption DEF BufferInv, NoStaleByte

(* An insertion into the buffer of the pool.                               *)
LEMMA OutIsInserted ==
    ASSUME BufferInv, NEW type \in Types, NEW v, Valid(type, v)
    PROVE  LET c == Insert(out, type, v) IN
           /\ c \in BufferType /\ Grows(out, c)
           /\ c.insert <= c.max + Overrun /\ c.insert >= out.insert
           /\ c.max = out.max /\ c.deserialize = out.deserialize
           /\ \A i \in c.insert .. c.max - 1 : c.mem[i] = 0
<1> DEFINE c == Insert(out, type, v)
<1>1. out \in BufferType
  BY BuffersAre
<1>2. Grows(out, c) /\ (c = out \/ c.insert <= out.max + Excess(type))
  <2>1. Grows(out, out)
    BY <1>1 DEF Grows, SameBuffer, BufferType
  <2> QED BY <1>1, <2>1, InsertIs
<1> HIDE DEF c
<1>3. /\ c \in BufferType /\ c.insert >= out.insert
      /\ c.max = out.max /\ c.deserialize = out.deserialize
      /\ c.insert \in Nat
      /\ \A i \in 0 .. Arena - 1 : i \notin out.insert .. c.insert - 1 => c.mem[i] = out.mem[i]
  BY <1>2 DEF Grows, SameBuffer, BufferType
<1>4. c.insert <= c.max + Overrun
  BY <1>2, <1>3, BuffersAre DEF Excess, Overrun
<1>5. ASSUME NEW i \in c.insert .. c.max - 1 PROVE c.mem[i] = 0
  <2>1. i \in 0 .. Arena - 1 /\ i \notin out.insert .. c.insert - 1 /\ i \in out.insert .. out.max - 1
    BY <1>3, BuffersAre DEF Overrun, IntSize
  <2> QED BY <1>3, <2>1, BuffersAre
<1> QED BY <1>2, <1>3, <1>4, <1>5 DEF c

-----------------------------------------------------------------------------
(* Types, stale bytes and what is steady.                                  *)

(* A buffer that nothing was written into.                                 *)
Fresh(b, max, network, host) ==
    /\ b \in BufferType /\ b.max = max /\ b.insert = 0 /\ b.deserialize = 0
    /\ b.network = network /\ b.host = host
    /\ \A i \in 0 .. Arena - 1 : b.mem[i] = IF i < max THEN 0 ELSE beyond

(* A new buffer.                                                           *)
LEMMA NewBuffer ==
    ASSUME NEW max \in Nat, NEW network \in BOOLEAN, NEW host \in {"big", "little"},
           beyond \in {0, 1}
    PROVE  Fresh(Buffer(max, network, host), max, network, host)
<1> DEFINE m == [i \in 0 .. Arena - 1 |-> IF i < max THEN 0 ELSE beyond]
<1>1. m \in [0 .. Arena - 1 -> 0 .. Byte - 1]
  BY ByteAssumption
<1> HIDE DEF m
<1>2. [mem |-> m, max |-> max, insert |-> 0, deserialize |-> 0,
       network |-> network, host |-> host] \in BufferType
  BY <1>1 DEF BufferType
<1>3. Buffer(max, network, host) =
        [mem |-> m, max |-> max, insert |-> 0, deserialize |-> 0,
         network |-> network, host |-> host]
  BY DEF Buffer, m
<1>4. \A i \in 0 .. Arena - 1 : m[i] = IF i < max THEN 0 ELSE beyond
  BY DEF m
<1> QED BY <1>2, <1>3, <1>4 DEF Fresh

(* An empty sequence.                                                      *)
LEMMA EmptyIsSequence == IsSequence(<<>>) /\ Len(<<>>) = 0
  BY DEF IsSequence

(* The message that stands for none.                                       *)
LEMMA NoMessageIs ==
    /\ NoMessage.id \in DOMAIN Layout /\ NoMessage.fields = <<>>
    /\ NoMessage = [id |-> NoMessage.id, fields |-> NoMessage.fields,
                    priority |-> NoMessage.priority]
    /\ Len(Layout[NoMessage.id]) \in Nat
<1>1. (CHOOSE i \in DOMAIN Layout : TRUE) \in DOMAIN Layout
  BY LayoutAssumption
<1>2. NoMessage.id \in DOMAIN Layout
  BY <1>1 DEF NoMessage
<1> QED BY <1>2, LayoutAssumption DEF NoMessage

(* The layouts.                                                            *)
LEMMA LayoutsAre ==
    \A i \in DOMAIN Layout : /\ Len(Layout[i]) \in Nat
                             /\ \A k \in 1 .. Len(Layout[i]) : Layout[i][k] \in Types
  BY LayoutAssumption, ElementOfSeq, LenProperties

(* At first, two new buffers.                                              *)
LEMMA InvStarts == BufferInit => BufferInv
<1> SUFFICES ASSUME BufferInit PROVE BufferInv
  OBVIOUS
<1>1. beyond \in {0, 1} /\ transport \in {"connection", "shared_memory"}
  BY DEF BufferInit
<1>2. PICK size \in Sizes, converts \in BOOLEAN, from \in {"big", "little"},
           to \in {"big", "little"} :
         /\ out = Buffer(size, converts, from)
         /\ in = Buffer(MaxLength, transport = "connection", to)
  BY DEF BufferInit
<1>3. /\ out \in BufferType /\ out.max = size /\ out.insert = 0 /\ out.deserialize = 0
      /\ \A i \in 0 .. Arena - 1 : out.mem[i] = IF i < size THEN 0 ELSE beyond
  <2>1. size \in Nat
    BY SizesAssumption
  <2>2. Fresh(Buffer(size, converts, from), size, converts, from)
    BY <1>1, <2>1, NewBuffer
  <2> QED BY <1>2, <2>2 DEF Fresh
<1>4. /\ in \in BufferType /\ in.max = MaxLength /\ in.insert = 0 /\ in.deserialize = 0
      /\ \A i \in 0 .. Arena - 1 : in.mem[i] = IF i < MaxLength THEN 0 ELSE beyond
  <2>1. (transport = "connection") \in BOOLEAN
    OBVIOUS
  <2>2. MaxLength \in Nat
    BY SizesAssumption
  <2>3. Fresh(Buffer(MaxLength, transport = "connection", to), MaxLength,
              transport = "connection", to)
    BY <1>1, <2>1, <2>2, NewBuffer
  <2> QED BY <1>2, <2>3 DEF Fresh
<1>5. /\ phase = "idle" /\ message = NoMessage /\ taken = <<>> /\ id = 0 /\ got = <<>>
      /\ priority = 0 /\ stream = <<>> /\ fromStart = TRUE
  BY DEF BufferInit
<1>6. BufferTypeOK
  <2>1. taken \in Seq(Nat) /\ Len(taken) = 0 /\ Len(got) = 0
    BY <1>5
  <2>2. out.insert <= out.max + Overrun /\ in.insert <= in.max + Overrun
        /\ out.deserialize <= Arena /\ in.deserialize <= Arena
    BY <1>3, <1>4, SizesAssumption DEF Overrun
  <2>3. id \in Registered => Len(got) <= Len(Layout[id])
    BY <2>1, LayoutAssumption, LayoutsAre
  <2>4. IsSequence(message.fields) /\ IsSequence(got)
    BY <1>5, EmptyIsSequence, NoMessageIs
  <2>5. \A b \in {out, in} : /\ b \in BufferType /\ b.insert <= b.max + Overrun
                             /\ b.deserialize <= Arena
    BY <1>3, <1>4, <2>2
  <2>6. Len(taken) <= Len(Layout[message.id])
    BY <1>5, <2>1, NoMessageIs
  <2>7. stream \in Seq(0 .. Byte - 1) /\ fromStart \in BOOLEAN
    BY <1>5
  <2> QED BY <1>1, <1>5, <2>1, <2>3, <2>4, <2>5, <2>6, <2>7, NoMessageIs DEF BufferTypeOK
<1>7. NoStaleByte
  BY <1>3, <1>4, SizesAssumption, ByteAssumption DEF NoStaleByte, Overrun, IntSize
<1>8. Steady
  <2>1. in.max + 3 * Byte + 6 * IntSize <= Arena /\ in.insert <= in.max
    BY <1>4, SizesAssumption, ByteAssumption DEF Overrun, IntSize
  <2>2. Len(message.fields) = Len(taken) /\ DOMAIN taken = {}
    BY <1>5, NoMessageIs
  <2> QED BY <1>2, <1>3, <1>4, <1>5, <2>1, <2>2 DEF Steady
<1> QED BY <1>6, <1>7, <1>8 DEF BufferInv

(* An action on the buffer of the pool alone.                              *)
LEMMA PostMessageKeeps == ASSUME BufferInv, PostMessage PROVE BufferInv'
<1>1. PICK i \in DOMAIN Layout, p \in Priorities :
         /\ message' = [id |-> i, fields |-> <<>>, priority |-> p]
         /\ out' = Insert(out, "short", i)
  BY DEF PostMessage
<1>2. /\ phase = "idle" /\ phase' = "serialize"
      /\ UNCHANGED <<transport, beyond, taken, in, stream, fromStart, id, got, priority>>
  BY DEF PostMessage
<1>3. Valid("short", i) /\ "short" \in Types
  BY LayoutAssumption DEF Valid, Types, NumberTypes
<1>4. /\ out' \in BufferType /\ out'.insert <= out'.max + Overrun
      /\ out'.max = out.max /\ out'.deserialize = out.deserialize
      /\ \A k \in out'.insert .. out'.max - 1 : out'.mem[k] = 0
  BY <1>1, <1>3, OutIsInserted
<1>5. /\ BufferTypeOK /\ NoStaleByte /\ Steady /\ taken = <<>>
  BY <1>2 DEF BufferInv, Steady
<1>6. out.deserialize = 0 /\ out.max \in Sizes
  BY <1>5 DEF Steady
<1>7. BufferTypeOK'
  <2>1. IsSequence(message'.fields) /\ message'.id \in DOMAIN Layout
    BY <1>1, EmptyIsSequence
  <2>2. Len(taken') <= Len(Layout[message'.id]) /\ taken' \in Seq(Nat)
    BY <1>1, <1>2, <1>5, LayoutsAre
  <2>3. out'.deserialize <= Arena
    BY <1>4, <1>6, SizesAssumption
  <2> QED BY <1>1, <1>2, <1>4, <1>5, <2>1, <2>2, <2>3 DEF BufferTypeOK, IsSequence
<1>8. NoStaleByte'
  BY <1>2, <1>4, <1>5 DEF NoStaleByte
<1>9. Steady'
  <2>1. Len(message'.fields) = Len(taken') /\ DOMAIN taken' = {}
    BY <1>1, <1>2, <1>5
  <2> QED BY <1>1, <1>2, <1>4, <1>5, <1>6, <2>1 DEF Steady
<1> QED BY <1>7, <1>8, <1>9 DEF BufferInv

(* The next field is inserted.                                             *)
LEMMA SerializeKeeps == ASSUME BufferInv, Serialize PROVE BufferInv'
<1> DEFINE n == Len(taken)
           type == Layout[message.id][n + 1]
<1>1. PICK v \in Values(type) :
         /\ message' = [message EXCEPT !.fields = Append(@, v)]
         /\ out' = Insert(out, type, v)
         /\ taken' = Append(taken, IF out' = out THEN Refused ELSE out'.insert)
  BY DEF Serialize
<1>2. /\ phase = "serialize" /\ phase' = phase /\ n < Len(Layout[message.id])
      /\ UNCHANGED <<transport, beyond, in, stream, fromStart, id, got, priority>>
  BY DEF Serialize
<1>3. BufferTypeOK /\ NoStaleByte /\ Steady
  BY DEF BufferInv
<1>4. /\ message.id \in DOMAIN Layout /\ IsSequence(message.fields)
      /\ message = [id |-> message.id, fields |-> message.fields, priority |-> message.priority]
      /\ taken \in Seq(Nat) /\ n \in Nat /\ Len(message.fields) = n /\ DOMAIN taken = 1 .. n
      /\ \A k \in 1 .. n : Valid(Layout[message.id][k], message.fields[k])
  <2>1. /\ message.id \in DOMAIN Layout /\ IsSequence(message.fields)
        /\ message = [id |-> message.id, fields |-> message.fields, priority |-> message.priority]
        /\ taken \in Seq(Nat)
    BY <1>3 DEF BufferTypeOK
  <2>2. n \in Nat /\ DOMAIN taken = 1 .. n
    BY <2>1
  <2>3. /\ Len(message.fields) = n
        /\ \A k \in DOMAIN taken : Valid(Layout[message.id][k], message.fields[k])
    BY <1>3 DEF Steady
  <2> QED BY <2>1, <2>2, <2>3
<1>5. type \in Types /\ Valid(type, v)
  <2>1. n + 1 \in 1 .. Len(Layout[message.id])
    BY <1>2, <1>4, LayoutsAre
  <2> QED BY <1>4, <2>1, LayoutsAre, ValuesAssumption
<1>6. /\ out' \in BufferType /\ out'.insert <= out'.max + Overrun
      /\ out'.max = out.max /\ out'.deserialize = out.deserialize
      /\ \A k \in out'.insert .. out'.max - 1 : out'.mem[k] = 0
  BY <1>1, <1>5, OutIsInserted
<1>7. out.deserialize = 0 /\ out.max \in Sizes
  BY <1>3 DEF Steady
<1>8. /\ message'.id = message.id /\ message'.fields = Append(message.fields, v)
      /\ message'.priority = message.priority
      /\ message' = [id |-> message'.id, fields |-> message'.fields, priority |-> message'.priority]
  BY <1>1, <1>4
<1>9. /\ IsSequence(message'.fields) /\ Len(message'.fields) = n + 1
      /\ message'.fields[n + 1] = v
      /\ \A k \in 1 .. n : message'.fields[k] = message.fields[k]
  BY <1>4, <1>8, AppendIs
<1>10. taken' \in Seq(Nat) /\ Len(taken') = n + 1 /\ DOMAIN taken' = 1 .. n + 1
  <2>1. (IF out' = out THEN Refused ELSE out'.insert) \in Nat
    BY <1>6 DEF BufferType, Refused
  <2> DEFINE x == IF out' = out THEN Refused ELSE out'.insert
  <2> HIDE DEF x
  <2> QED BY <1>1, <1>4, <2>1 DEF x
<1> HIDE DEF n, type
<1>11. BufferTypeOK'
  <2>1. Len(taken') <= Len(Layout[message'.id])
    BY <1>2, <1>4, <1>8, <1>10, LayoutsAre
  <2>2. out'.deserialize <= Arena
    BY <1>6, <1>7, SizesAssumption
  <2> QED BY <1>2, <1>3, <1>4, <1>6, <1>8, <1>9, <1>10, <2>1, <2>2 DEF BufferTypeOK, IsSequence
<1>12. NoStaleByte'
  BY <1>2, <1>3, <1>6 DEF NoStaleByte
<1>13. Steady'
  <2>1. ASSUME NEW k \in DOMAIN taken' PROVE Valid(Layout[message'.id][k], message'.fields[k])
    <3>1. k \in 1 .. n \/ k = n + 1
      BY <1>4, <1>10
    <3>2. CASE k \in 1 .. n
      BY <1>4, <1>8, <1>9, <3>2
    <3>3. CASE k = n + 1
      BY <1>5, <1>8, <1>9, <3>3 DEF type
    <3> QED BY <3>1, <3>2, <3>3
  <2> QED BY <1>2, <1>3, <1>6, <1>7, <1>8, <1>9, <1>10, <2>1 DEF Steady
<1> QED BY <1>11, <1>12, <1>13 DEF BufferInv

(* The priority is inserted, unless it is 0.                               *)
LEMMA SerializePriorityKeeps == ASSUME BufferInv, SerializePriority PROVE BufferInv'
<1>1. /\ phase = "serialize" /\ phase' = "send" /\ Len(taken) = Len(Layout[message.id])
      /\ out' = IF message.priority # 0 THEN Insert(out, "int", message.priority) ELSE out
      /\ UNCHANGED <<transport, beyond, message, taken, in, stream, fromStart, id, got, priority>>
  BY DEF SerializePriority
<1>2. BufferTypeOK /\ NoStaleByte /\ Steady
  BY DEF BufferInv
<1>3. /\ out' \in BufferType /\ out'.insert <= out'.max + Overrun
      /\ out'.max = out.max /\ out'.deserialize = out.deserialize
      /\ \A k \in out'.insert .. out'.max - 1 : out'.mem[k] = 0
  <2>1. CASE message.priority # 0
    <3>1. Valid("int", message.priority) /\ "int" \in Types
      BY <1>1, <1>2, ValuesAssumption DEF Steady, Valid, Types, NumberTypes
    <3> QED BY <1>1, <2>1, <3>1, OutIsInserted
  <2>2. CASE message.priority = 0
    BY <1>1, <2>2, BuffersAre
  <2> QED BY <2>1, <2>2
<1>4. out.deserialize = 0 /\ out.max \in Sizes
  BY <1>2 DEF Steady
<1>5. BufferTypeOK'
  <2>1. out'.deserialize <= Arena
    BY <1>3, <1>4, SizesAssumption
  <2>2. \A b \in {out', in'} : /\ b \in BufferType /\ b.insert <= b.max + Overrun
                               /\ b.deserialize <= Arena
    BY <1>1, <1>2, <1>3, <2>1 DEF BufferTypeOK
  <2> QED BY <1>1, <1>2, <2>2 DEF BufferTypeOK, IsSequence
<1>6. NoStaleByte'
  BY <1>1, <1>2, <1>3 DEF NoStaleByte
<1>7. Steady'
  BY <1>1, <1>2, <1>3, <1>4 DEF Steady
<1> QED BY <1>5, <1>6, <1>7 DEF BufferInv

(* The bytes that the receiver has.                                        *)
LEMMA ReceivedIs ==
    ASSUME BufferInv, NEW n \in Nat
    PROVE  /\ ReceivedBytes(n) \in [0 .. Arena - 1 -> 0 .. Byte - 1]
           /\ \A i \in 0 .. Arena - 1 :
                  ReceivedBytes(n)[i] = IF i < n /\ i < MaxLength THEN out.mem[i] ELSE in.mem[i]
           /\ Min({n, MaxLength}) = IF n <= MaxLength THEN n ELSE MaxLength
<1>1. /\ out.mem \in [0 .. Arena - 1 -> 0 .. Byte - 1]
      /\ in.mem \in [0 .. Arena - 1 -> 0 .. Byte - 1]
      /\ MaxLength \in Nat
  BY BuffersAre DEF BufferType
<1>2. Min({n, MaxLength}) = IF n <= MaxLength THEN n ELSE MaxLength
  BY <1>1 DEF Min
<1>3. \A i \in 0 .. Arena - 1 :
          ReceivedBytes(n)[i] = IF i < n /\ i < MaxLength THEN out.mem[i] ELSE in.mem[i]
  BY <1>1, <1>2 DEF ReceivedBytes
<1>4. ReceivedBytes(n) = [i \in 0 .. Arena - 1 |-> ReceivedBytes(n)[i]]
  BY DEF ReceivedBytes
<1>5. \A i \in 0 .. Arena - 1 : ReceivedBytes(n)[i] \in 0 .. Byte - 1
  BY <1>1, <1>3
<1> HIDE DEF ReceivedBytes
<1>6. ReceivedBytes(n) \in [0 .. Arena - 1 -> 0 .. Byte - 1]
  BY <1>4, <1>5
<1> QED BY <1>2, <1>3, <1>6

(* The buffer of the mailbox with a message in it.                         *)
Holding(b, mem, insert, max) ==
    /\ b \in BufferType
    /\ b.mem = mem /\ b.insert = insert /\ b.max = max
    /\ b.deserialize = in.deserialize /\ b.network = in.network /\ b.host = in.host

IsBuffer(b) ==
    b = [mem |-> b.mem, max |-> b.max, insert |-> b.insert,
         deserialize |-> b.deserialize, network |-> b.network, host |-> b.host]

Replaced(b, mem, insert, max) ==
    /\ [b EXCEPT !.mem = mem, !.insert = insert, !.max = max] =
         [mem |-> mem, max |-> max, insert |-> insert, deserialize |-> b.deserialize,
          network |-> b.network, host |-> b.host]
    /\ [b EXCEPT !.mem = mem, !.insert = insert] =
         [mem |-> mem, max |-> b.max, insert |-> insert, deserialize |-> b.deserialize,
          network |-> b.network, host |-> b.host]

(* Two or three components of a buffer are replaced.                       *)
LEMMA Replacing ==
    ASSUME NEW b, IsBuffer(b), NEW mem, NEW insert, NEW max
    PROVE  Replaced(b, mem, insert, max)
<1> USE DEF IsBuffer
<1>1. [b EXCEPT !.mem = mem] =
                [mem |-> mem, max |-> b.max, insert |-> b.insert, deserialize |-> b.deserialize,
                 network |-> b.network, host |-> b.host]
  OBVIOUS
<1> DEFINE c == [b EXCEPT !.mem = mem]
<1>2. c = [mem |-> mem, max |-> b.max, insert |-> b.insert, deserialize |-> b.deserialize,
           network |-> b.network, host |-> b.host]
  BY <1>1
<1> HIDE DEF c
<1>3. [c EXCEPT !.insert = insert] =
                [mem |-> mem, max |-> b.max, insert |-> insert, deserialize |-> b.deserialize,
                 network |-> b.network, host |-> b.host]
  BY <1>2
<1> DEFINE d == [c EXCEPT !.insert = insert]
<1>4. d = [mem |-> mem, max |-> b.max, insert |-> insert, deserialize |-> b.deserialize,
           network |-> b.network, host |-> b.host]
  BY <1>3
<1> HIDE DEF d
<1>5. [d EXCEPT !.max = max] =
                [mem |-> mem, max |-> max, insert |-> insert, deserialize |-> b.deserialize,
                 network |-> b.network, host |-> b.host]
  BY <1>4
<1> QED BY <1>3, <1>5 DEF c, d, Replaced

(* A message arrives in the buffer of the mailbox.                         *)
LEMMA ReceivingIs ==
    ASSUME in \in BufferType, NEW mem \in [0 .. Arena - 1 -> 0 .. Byte - 1],
           NEW insert \in Nat, NEW max \in Nat
    PROVE  /\ Holding([in EXCEPT !.mem = mem, !.insert = insert, !.max = max], mem, insert, max)
           /\ Holding([in EXCEPT !.mem = mem, !.insert = insert], mem, insert, in.max)
<1>1. IsBuffer(in)
  BY DEF BufferType, IsBuffer
<1>2. Replaced(in, mem, insert, max)
  BY <1>1, Replacing
<1>3. /\ [mem |-> mem, max |-> max, insert |-> insert,
          deserialize |-> in.deserialize, network |-> in.network, host |-> in.host] \in BufferType
      /\ [mem |-> mem, max |-> in.max, insert |-> insert,
          deserialize |-> in.deserialize, network |-> in.network, host |-> in.host] \in BufferType
  BY DEF BufferType
<1> QED BY <1>2, <1>3 DEF Holding, Replaced

(* A function on the first numbers is a sequence.                          *)
LEMMA FunctionIsSeq ==
    ASSUME NEW S, NEW n \in Nat, NEW f \in [1 .. n -> S] PROVE f \in Seq(S)
  OBVIOUS

(* What stays in the connection is bytes of the message.                   *)
LEMMA StreamIs ==
    ASSUME BufferInv
    PROVE  [k \in 1 .. out.insert - MaxLength |-> out.mem[MaxLength + k - 1]]
             \in Seq(0 .. Byte - 1)
<1> DEFINE n == out.insert - MaxLength
           rest == [k \in 1 .. n |-> out.mem[MaxLength + k - 1]]
<1>1. /\ out.mem \in [0 .. Arena - 1 -> 0 .. Byte - 1]
      /\ out.insert \in Nat /\ MaxLength \in Nat /\ Arena \in Nat /\ Byte \in Nat
      /\ out.insert <= Arena
  <2>1. out.mem \in [0 .. Arena - 1 -> 0 .. Byte - 1]
    BY BuffersAre DEF BufferType
  <2>2. out.insert <= Arena
    <3>1. /\ out.insert \in Nat /\ out.max \in Nat /\ Byte \in Nat /\ Arena \in Nat
          /\ out.insert <= out.max + 5 /\ out.max + 5 + 3 * Byte + 6 * 4 <= Arena
      BY BuffersAre DEF IntSize, Overrun
    <3> QED BY <3>1
  <2> QED BY <2>1, <2>2, BuffersAre
<1>2. ASSUME NEW k \in 1 .. n PROVE rest[k] \in 0 .. Byte - 1
  <2>1. MaxLength + k - 1 \in 0 .. Arena - 1
    BY <1>1
  <2> QED BY <1>1, <2>1
<1>3. PICK l \in Nat : 1 .. n = 1 .. l
  <2>1. CASE n \in Nat
    BY <2>1
  <2>2. CASE n \notin Nat
    <3>1. 1 .. n = 1 .. 0
      BY <1>1, <2>2
    <3> QED BY <3>1
  <2> QED BY <2>1, <2>2
<1>4. rest \in [1 .. l -> 0 .. Byte - 1]
  BY <1>2, <1>3
<1> HIDE DEF rest, n
<1>5. rest \in Seq(0 .. Byte - 1)
  <2> DEFINE S == 0 .. Byte - 1
  <2>1. rest \in [1 .. l -> S]
    BY <1>4
  <2> HIDE DEF S
  <2>2. rest \in Seq(S)
    BY <1>3, <2>1, FunctionIsSeq
  <2> QED BY <2>2 DEF S
<1> QED BY <1>5 DEF rest, n

(* The message is read by the mailbox from its connection.                 *)
LEMMA SendOnConnectionKeeps == ASSUME BufferInv, SendOnConnection PROVE BufferInv'
<1> DEFINE n == Min({out.insert, MaxLength})
<1>1. /\ phase = "send" /\ phase' = "recreate" /\ transport = "connection" /\ out.insert > 0
      /\ in' = [in EXCEPT !.mem = ReceivedBytes(out.insert), !.insert = n]
      /\ out' = ClearBuffer(out)
      /\ UNCHANGED <<transport, beyond, message, taken, fromStart, id, got, priority>>
  BY DEF SendOnConnection
<1>a. stream' \in Seq(0 .. Byte - 1)
  BY StreamIs DEF SendOnConnection
<1>2. BufferTypeOK /\ NoStaleByte /\ Steady
  BY DEF BufferInv
<1>3. out.insert \in Nat /\ in \in BufferType /\ out \in BufferType /\ MaxLength \in Nat
  BY BuffersAre
<1>4. n \in Nat /\ n = IF out.insert <= MaxLength THEN out.insert ELSE MaxLength
  BY <1>3, ReceivedIs
<1> HIDE DEF n
<1>5. Holding(in', ReceivedBytes(out.insert), n, in.max)
  BY <1>1, <1>3, <1>4, ReceivedIs, ReceivingIs
<1>6. Cleared(out, out')
  BY <1>1, <1>3, ClearIs
<1>7. /\ in.insert = 0 /\ in.deserialize = 0 /\ in.max = MaxLength /\ got = <<>> /\ priority = 0
      /\ out.max \in Sizes
  BY <1>1, <1>2 DEF Steady
<1>8. BufferTypeOK'
  <2>1. /\ out'.insert <= out'.max + Overrun /\ in'.insert <= in'.max + Overrun
        /\ out'.deserialize <= Arena /\ in'.deserialize <= Arena
        /\ out' \in BufferType /\ in' \in BufferType
    <3>1. /\ out'.insert = 0 /\ out'.deserialize = 0 /\ out' \in BufferType
          /\ in' \in BufferType /\ in'.insert = n /\ in'.max = MaxLength /\ in'.deserialize = 0
      BY <1>5, <1>6, <1>7 DEF Holding, Cleared
    <3>2. n <= MaxLength /\ out'.max \in Nat
      BY <1>3, <1>4, <3>1 DEF BufferType
    <3> QED BY <1>3, <1>4, <3>1, <3>2, SizesAssumption DEF Overrun
  <2>2. \A b \in {out', in'} : /\ b \in BufferType /\ b.insert <= b.max + Overrun
                               /\ b.deserialize <= Arena
    BY <2>1
  <2> QED BY <1>1, <1>2, <1>a, <2>2 DEF BufferTypeOK, IsSequence
<1>9. NoStaleByte'
  <2>1. ASSUME NEW i \in out'.insert .. out'.max - 1 PROVE out'.mem[i] = 0
    BY <1>3, <1>6, BuffersAre DEF Cleared, Overrun, IntSize
  <2>2. ASSUME NEW i \in in'.insert .. in'.max - 1 PROVE in'.mem[i] = 0
    <3>1. i \in 0 .. Arena - 1 /\ ~ (i < out.insert /\ i < MaxLength) /\ i \in in.insert .. in.max - 1
      BY <1>3, <1>4, <1>5, <1>7, BuffersAre DEF Holding, IntSize
    <3>2. in'.mem[i] = in.mem[i]
      <4>1. in'.mem = ReceivedBytes(out.insert)
        BY <1>5 DEF Holding
      <4> QED BY <1>3, <3>1, <4>1, ReceivedIs
    <3> QED BY <3>1, <3>2, BuffersAre
  <2> QED BY <2>1, <2>2 DEF NoStaleByte
<1>10. Steady'
  <2>1. in'.max + 3 * Byte + 6 * IntSize <= Arena /\ in'.insert <= in'.max /\ in'.max = MaxLength
        /\ in'.deserialize = 0 /\ out'.max \in Sizes /\ out'.deserialize = 0 /\ out'.insert = 0
    BY <1>3, <1>4, <1>5, <1>6, <1>7, BuffersAre DEF Holding, Cleared
  <2> QED BY <1>1, <1>2, <1>7, <2>1 DEF Steady
<1> QED BY <1>8, <1>9, <1>10 DEF BufferInv

(* No byte was sent.                                                       *)
LEMMA PostFailsKeeps == ASSUME BufferInv, PostFails PROVE BufferInv'
<1>1. /\ phase = "send" /\ phase' = "done" /\ out.insert = 0
      /\ out' = ClearBuffer(out)
      /\ UNCHANGED <<transport, beyond, message, taken, in, stream, fromStart, id, got, priority>>
  BY DEF PostFails
<1>2. BufferTypeOK /\ NoStaleByte /\ Steady
  BY DEF BufferInv
<1>3. Cleared(out, out')
  BY <1>1, BuffersAre, ClearIs
<1>4. out.max \in Sizes
  BY <1>2 DEF Steady
<1>5. BufferTypeOK'
  <2>1. /\ out'.insert <= out'.max + Overrun /\ out'.deserialize <= Arena /\ out' \in BufferType
    BY <1>3, BuffersAre DEF Cleared, Overrun
  <2>2. \A b \in {out', in'} : /\ b \in BufferType /\ b.insert <= b.max + Overrun
                               /\ b.deserialize <= Arena
    BY <1>1, <1>2, <2>1 DEF BufferTypeOK
  <2> QED BY <1>1, <1>2, <2>2 DEF BufferTypeOK, IsSequence
<1>6. NoStaleByte'
  <2>1. ASSUME NEW i \in out'.insert .. out'.max - 1 PROVE out'.mem[i] = 0
    BY <1>3, BuffersAre DEF Cleared, Overrun, IntSize
  <2> QED BY <1>1, <1>2, <2>1 DEF NoStaleByte
<1>7. Steady'
  BY <1>1, <1>2, <1>3, <1>4 DEF Steady, Cleared
<1> QED BY <1>5, <1>6, <1>7 DEF BufferInv

(* The message is copied into shared memory and out of it.                 *)
LEMMA PassInSharedMemoryKeeps == ASSUME BufferInv, PassInSharedMemory PROVE BufferInv'
<1> DEFINE n == out.insert
<1>1. /\ phase = "send" /\ phase' = "recreate" /\ transport = "shared_memory"
      /\ in' = [in EXCEPT !.mem = ReceivedBytes(n), !.insert = n, !.max = n]
      /\ out' = ClearBuffer(out)
      /\ UNCHANGED <<transport, beyond, message, taken, stream, fromStart, id, got, priority>>
  BY DEF PassInSharedMemory
<1>2. BufferTypeOK /\ NoStaleByte /\ Steady
  BY DEF BufferInv
<1>3. n \in Nat /\ in \in BufferType /\ out \in BufferType
  BY BuffersAre
<1>4. Holding(in', ReceivedBytes(n), n, n)
  BY <1>1, <1>3, ReceivedIs, ReceivingIs
<1>5. Cleared(out, out')
  BY <1>1, <1>3, ClearIs
<1>6. /\ in.deserialize = 0 /\ got = <<>> /\ priority = 0 /\ out.max \in Sizes
  BY <1>1, <1>2 DEF Steady
<1>7. n + 3 * Byte + 6 * IntSize <= Arena
  BY BuffersAre, ByteAssumption DEF Overrun, IntSize
<1> HIDE DEF n
<1>8. BufferTypeOK'
  <2>1. /\ out'.insert <= out'.max + Overrun /\ in'.insert <= in'.max + Overrun
        /\ out'.deserialize <= Arena /\ in'.deserialize <= Arena
        /\ out' \in BufferType /\ in' \in BufferType
    BY <1>3, <1>4, <1>5, <1>6, BuffersAre DEF Holding, Cleared, Overrun
  <2>2. \A b \in {out', in'} : /\ b \in BufferType /\ b.insert <= b.max + Overrun
                               /\ b.deserialize <= Arena
    BY <2>1
  <2> QED BY <1>1, <1>2, <2>2 DEF BufferTypeOK, IsSequence
<1>9. NoStaleByte'
  <2>1. ASSUME NEW i \in out'.insert .. out'.max - 1 PROVE out'.mem[i] = 0
    BY <1>3, <1>5, BuffersAre DEF Cleared, Overrun, IntSize
  <2>2. ASSUME NEW i \in in'.insert .. in'.max - 1 PROVE in'.mem[i] = 0
    BY <1>3, <1>4 DEF Holding
  <2> QED BY <2>1, <2>2 DEF NoStaleByte
<1>10. Steady'
  <2>1. in'.max + 3 * Byte + 6 * IntSize <= Arena /\ in'.insert <= in'.max
        /\ in'.deserialize = 0 /\ out'.max \in Sizes /\ out'.deserialize = 0 /\ out'.insert = 0
    BY <1>3, <1>4, <1>5, <1>6, <1>7 DEF Holding, Cleared
  <2> QED BY <1>1, <1>2, <1>6, <2>1 DEF Steady
<1> QED BY <1>8, <1>9, <1>10 DEF BufferInv

(* Something is read from the buffer of the mailbox, or nothing is.        *)
LEMMA ReadingKeeps ==
    ASSUME BufferInv, NEW type \in Types, in' = [in EXCEPT !.deserialize = Extract(in, type).next]
    PROVE  /\ Moved(in, in', Extract(in, type).next)
           /\ in' \in BufferType /\ in'.insert <= in'.max + Overrun /\ in'.deserialize <= Arena
           /\ in'.max + 3 * Byte + 6 * IntSize <= Arena /\ in'.insert <= in'.max
           /\ in'.max = in.max
           /\ \A i \in in'.insert .. in'.max - 1 : in'.mem[i] = 0
<1> DEFINE next == Extract(in, type).next
<1>1. in \in BufferType /\ in.deserialize <= Arena
  BY DEF BufferInv, BufferTypeOK
<1>2. next \in Nat /\ next <= Arena
  BY <1>1, BuffersAre, ExtractEnds
<1> HIDE DEF next
<1>3. in' = [in EXCEPT !.deserialize = next]
  BY DEF next
<1>4. Moved(in, in', next)
  BY <1>1, <1>2, <1>3, MoveIs
<1>5. Moved(in, in', Extract(in, type).next)
  BY <1>4 DEF next
<1> QED BY <1>2, <1>4, <1>5, BuffersAre DEF Moved, Overrun

(* The message id is read.                                                 *)
LEMMA RecreateMessageKeeps == ASSUME BufferInv, RecreateMessage PROVE BufferInv'
<1>1. /\ phase = "recreate"
      /\ in' = [in EXCEPT !.deserialize = Extract(in, "short").next]
      /\ phase' = IF id' \in Registered THEN "read" ELSE "done"
      /\ UNCHANGED <<transport, beyond, message, taken, out, stream, fromStart, got, priority>>
  BY DEF RecreateMessage
<1>2. BufferTypeOK /\ NoStaleByte /\ Steady
  BY DEF BufferInv
<1>3. "short" \in Types
  BY DEF Types, NumberTypes
<1>4. /\ in' \in BufferType /\ in'.insert <= in'.max + Overrun /\ in'.deserialize <= Arena
      /\ in'.max + 3 * Byte + 6 * IntSize <= Arena /\ in'.insert <= in'.max
      /\ in'.max = in.max
      /\ \A i \in in'.insert .. in'.max - 1 : in'.mem[i] = 0
  BY <1>1, <1>3, ReadingKeeps
<1>5. BufferTypeOK'
  <2>1. \A b \in {out', in'} : /\ b \in BufferType /\ b.insert <= b.max + Overrun
                               /\ b.deserialize <= Arena
    BY <1>1, <1>2, <1>4 DEF BufferTypeOK
  <2>2. id' \in Registered => Len(got') <= Len(Layout[id'])
    <3>1. Len(got') = 0
      BY <1>1, <1>2 DEF Steady
    <3> QED BY <3>1, LayoutAssumption, LayoutsAre
  <2>3. phase' \in {"read", "done"}
    BY <1>1
  <2> QED BY <1>1, <1>2, <2>1, <2>2, <2>3 DEF BufferTypeOK, IsSequence
<1>6. NoStaleByte'
  BY <1>1, <1>2, <1>4 DEF NoStaleByte
<1>7. Steady'
  <2>1. CASE id' \in Registered
    <3>1. phase' = "read"
      BY <1>1, <2>1
    <3> QED BY <1>1, <1>2, <1>4, <2>1, <3>1 DEF Steady
  <2>2. CASE id' \notin Registered
    <3>1. phase' = "done"
      BY <1>1, <2>2
    <3> QED BY <1>1, <1>2, <1>4, <3>1 DEF Steady
  <2> QED BY <2>1, <2>2
<1> QED BY <1>5, <1>6, <1>7 DEF BufferInv

(* A field is read.                                                        *)
LEMMA DeserializeKeeps == ASSUME BufferInv, Deserialize PROVE BufferInv'
<1> DEFINE n == Len(got)
           type == Layout[id][n + 1]
           value == Extract(in, type).value
<1>1. /\ phase = "read" /\ n < Len(Layout[id])
      /\ got' = Append(got, value)
      /\ in' = [in EXCEPT !.deserialize = Extract(in, type).next]
      /\ UNCHANGED <<transport, beyond, phase, message, taken, out, stream, fromStart, id, priority>>
  BY DEF Deserialize
<1>2. BufferTypeOK /\ NoStaleByte /\ Steady
  BY DEF BufferInv
<1>3. IsSequence(got) /\ n \in Nat /\ id \in Registered
  BY <1>1, <1>2 DEF BufferTypeOK, Steady, IsSequence
<1>4. type \in Types /\ n + 1 <= Len(Layout[id])
  <2>1. n + 1 \in 1 .. Len(Layout[id])
    BY <1>1, <1>3, LayoutsAre, LayoutAssumption
  <2> QED BY <1>3, <2>1, LayoutsAre, LayoutAssumption
<1>5. /\ in' \in BufferType /\ in'.insert <= in'.max + Overrun /\ in'.deserialize <= Arena
      /\ in'.max + 3 * Byte + 6 * IntSize <= Arena /\ in'.insert <= in'.max
      /\ in'.max = in.max
      /\ \A i \in in'.insert .. in'.max - 1 : in'.mem[i] = 0
  BY <1>1, <1>4, ReadingKeeps
<1>6. IsSequence(got') /\ Len(got') = n + 1
  <2> HIDE DEF value
  <2> QED BY <1>1, <1>3, AppendIs
<1> HIDE DEF n, type, value
<1>7. BufferTypeOK'
  <2>1. \A b \in {out', in'} : /\ b \in BufferType /\ b.insert <= b.max + Overrun
                               /\ b.deserialize <= Arena
    BY <1>1, <1>2, <1>5 DEF BufferTypeOK
  <2>2. id' \in Registered => Len(got') <= Len(Layout[id'])
    BY <1>1, <1>4, <1>6
  <2>3. IsSequence(message.fields)'
    BY <1>1, <1>2 DEF BufferTypeOK
  <2> QED BY <1>1, <1>2, <1>6, <2>1, <2>2, <2>3 DEF BufferTypeOK
<1>8. NoStaleByte'
  BY <1>1, <1>2, <1>5 DEF NoStaleByte
<1>9. Steady'
  BY <1>1, <1>2, <1>5 DEF Steady
<1> QED BY <1>7, <1>8, <1>9 DEF BufferInv

(* What is left is the priority.                                           *)
LEMMA DeserializePriorityKeeps == ASSUME BufferInv, DeserializePriority PROVE BufferInv'
<1>1. /\ phase = "read" /\ phase' = "done"
      /\ \/ in' = [in EXCEPT !.deserialize = Extract(in, "int").next]
         \/ in' = in
      /\ UNCHANGED <<transport, beyond, message, taken, out, stream, fromStart, id, got>>
  BY DEF DeserializePriority
<1>2. BufferTypeOK /\ NoStaleByte /\ Steady
  BY DEF BufferInv
<1>3. "int" \in Types
  BY DEF Types, NumberTypes
<1>4. /\ in' \in BufferType /\ in'.insert <= in'.max + Overrun /\ in'.deserialize <= Arena
      /\ in'.max + 3 * Byte + 6 * IntSize <= Arena /\ in'.insert <= in'.max
      /\ in'.max = in.max
      /\ \A i \in in'.insert .. in'.max - 1 : in'.mem[i] = 0
  <2>1. CASE in' = in
    BY <1>2, <2>1, BuffersAre DEF BufferTypeOK, Overrun
  <2>2. CASE in' = [in EXCEPT !.deserialize = Extract(in, "int").next]
    BY <1>3, <2>2, ReadingKeeps
  <2> QED BY <1>1, <2>1, <2>2
<1>5. BufferTypeOK'
  <2>1. \A b \in {out', in'} : /\ b \in BufferType /\ b.insert <= b.max + Overrun
                               /\ b.deserialize <= Arena
    BY <1>1, <1>2, <1>4 DEF BufferTypeOK
  <2> QED BY <1>1, <1>2, <2>1 DEF BufferTypeOK, IsSequence
<1>6. NoStaleByte'
  BY <1>1, <1>2, <1>4 DEF NoStaleByte
<1>7. Steady'
  BY <1>1, <1>2, <1>4 DEF Steady
<1> QED BY <1>5, <1>6, <1>7 DEF BufferInv

(* The bytes that are left are read.                                       *)
LEMMA ReadRestKeeps == ASSUME BufferInv, ReadRest PROVE BufferInv'
<1>1. PICK n : n = Min({Len(stream), MaxLength})
  OBVIOUS
<1>2. /\ phase = "done" /\ phase' = "recreate" /\ stream # <<>>
      /\ in' = Write(ClearBuffer(in), SubSeq(stream, 1, n))
      /\ stream' = SubSeq(stream, n + 1, Len(stream)) /\ fromStart' = FALSE
      /\ id' = 0 /\ got' = <<>> /\ priority' = 0
      /\ UNCHANGED <<transport, beyond, message, taken, out>>
  BY <1>1 DEF ReadRest
<1>3. BufferTypeOK /\ NoStaleByte /\ Steady
  BY DEF BufferInv
<1>4. stream \in Seq(0 .. Byte - 1) /\ Len(stream) \in Nat /\ MaxLength \in Nat
  <2>1. stream \in Seq(0 .. Byte - 1)
    BY <1>3 DEF BufferTypeOK
  <2> QED BY <2>1, BuffersAre, LenProperties
<1>5. n \in Nat /\ n <= Len(stream) /\ n <= MaxLength
  <2>1. n = IF Len(stream) <= MaxLength THEN Len(stream) ELSE MaxLength
    BY <1>1, <1>4, ReceivedIs
  <2> QED BY <1>4, <2>1
<1>6. SubSeq(stream, 1, n) \in Seq(0 .. Byte - 1) /\ Len(SubSeq(stream, 1, n)) = n
      /\ stream' \in Seq(0 .. Byte - 1)
  <2> DEFINE S == 0 .. Byte - 1
             l == Len(stream)
  <2>1. \A i \in 1 .. l : stream[i] \in S
    BY <1>4, ElementOfSeq
  <2> HIDE DEF S
  <2>2. SubSeq(stream, 1, n) \in Seq(S) /\ Len(SubSeq(stream, 1, n)) = n
    BY <1>4, <1>5, <2>1, SubSeqProperties
  <2>3. \A i \in n + 1 .. l : stream[i] \in S
    BY <1>4, <1>5, <2>1
  <2>4. SubSeq(stream, n + 1, l) \in Seq(S)
    BY <1>4, <1>5, <2>3, SubSeqProperties
  <2> QED BY <1>2, <2>2, <2>4 DEF S
<1>7. PICK c : c = ClearBuffer(in) /\ Cleared(in, c)
  BY BuffersAre, ClearIs
<1>8. WritesBytes(c, in', SubSeq(stream, 1, n))
  BY <1>2, <1>6, <1>7, WriteIs DEF Cleared
<1>9. transport = "connection" /\ in.max = MaxLength /\ out.max \in Sizes /\ out.insert = 0
  BY <1>2, <1>3 DEF Steady
<1>10. /\ in' \in BufferType /\ in'.insert = n /\ in'.max = MaxLength /\ in'.deserialize = 0
       /\ \A i \in 0 .. Arena - 1 : i \notin 0 .. n - 1 => in'.mem[i] = c.mem[i]
  <2>1. Grows(c, in') /\ in'.insert = n /\ c.insert = 0
    BY <1>5, <1>6, <1>7, <1>8 DEF WritesBytes, Cleared
  <2> QED BY <1>7, <1>9, <2>1 DEF Grows, SameBuffer, Cleared
<1>11. BufferTypeOK'
  <2>1. in'.insert <= in'.max + Overrun /\ in'.deserialize <= Arena
    BY <1>4, <1>5, <1>10, BuffersAre DEF Overrun
  <2>2. \A b \in {out', in'} : /\ b \in BufferType /\ b.insert <= b.max + Overrun
                               /\ b.deserialize <= Arena
    BY <1>2, <1>3, <1>10, <2>1 DEF BufferTypeOK
  <2>3. IsSequence(got') /\ Len(got') = 0
    BY <1>2, EmptyIsSequence
  <2>4. id' \in Registered => Len(got') <= Len(Layout[id'])
    BY <2>3, LayoutAssumption, LayoutsAre
  <2>5. IsSequence(message.fields)'
    BY <1>2, <1>3 DEF BufferTypeOK
  <2> QED BY <1>2, <1>3, <1>6, <2>2, <2>3, <2>4, <2>5 DEF BufferTypeOK
<1>12. NoStaleByte'
  <2>1. ASSUME NEW i \in in'.insert .. in'.max - 1 PROVE in'.mem[i] = 0
    <3>1. i \in 0 .. Arena - 1 /\ i \notin 0 .. n - 1 /\ i < in.max
      BY <1>5, <1>9, <1>10, BuffersAre DEF IntSize
    <3> QED BY <1>7, <1>10, <3>1 DEF Cleared
  <2> QED BY <1>2, <1>3, <2>1 DEF NoStaleByte
<1>13. Steady'
  <2>1. in'.max + 3 * Byte + 6 * IntSize <= Arena /\ in'.insert <= in'.max
    BY <1>5, <1>9, <1>10, BuffersAre
  <2> QED BY <1>2, <1>3, <1>9, <1>10, <2>1 DEF Steady
<1> QED BY <1>11, <1>12, <1>13 DEF BufferInv

(* The mailbox waits for the next message.                                 *)
LEMMA NextMessageKeeps == ASSUME BufferInv, NextMessage PROVE BufferInv'
<1> DEFINE c == ClearBuffer(in)
           m == [i \in 0 .. Arena - 1 |-> IF transport = "connection" \/ i >= MaxLength
                                          THEN c.mem[i] ELSE 0]
<1>1. /\ phase = "done" /\ phase' = "idle" /\ message' = NoMessage /\ taken' = <<>>
      /\ id' = 0 /\ got' = <<>> /\ priority' = 0 /\ fromStart' = TRUE /\ stream = <<>>
      /\ in' = [c EXCEPT !.max = MaxLength,
                 !.mem = [i \in DOMAIN @ |-> IF transport = "connection" \/ i >= MaxLength
                                             THEN @[i] ELSE 0]]
      /\ UNCHANGED <<transport, beyond, out, stream>>
  BY DEF NextMessage
<1>2. BufferTypeOK /\ NoStaleByte /\ Steady
  BY DEF BufferInv
<1>3. Cleared(in, c)
  BY BuffersAre, ClearIs
<1> HIDE DEF c
<1>4. /\ c = [mem |-> c.mem, max |-> c.max, insert |-> c.insert,
              deserialize |-> c.deserialize, network |-> c.network, host |-> c.host]
      /\ c.mem \in [0 .. Arena - 1 -> 0 .. Byte - 1] /\ DOMAIN c.mem = 0 .. Arena - 1
      /\ c.insert = 0 /\ c.deserialize = 0 /\ c \in BufferType
  BY <1>3 DEF Cleared, BufferType
<1>5. m \in [0 .. Arena - 1 -> 0 .. Byte - 1]
  <2>1. 0 \in 0 .. Byte - 1 /\ \A i \in 0 .. Arena - 1 : c.mem[i] \in 0 .. Byte - 1
    <3>1. c.mem \in [0 .. Arena - 1 -> 0 .. Byte - 1]
      BY <1>4
    <3>2. 0 \in 0 .. Byte - 1
      BY ByteAssumption
    <3>3. \A i \in 0 .. Arena - 1 : c.mem[i] \in 0 .. Byte - 1
      BY <3>1
    <3> QED BY <3>2, <3>3
  <2> QED BY <2>1
<1>6. m = [i \in DOMAIN c.mem |-> IF transport = "connection" \/ i >= MaxLength
                                  THEN c.mem[i] ELSE 0]
  BY <1>4
<1>7. \A i \in 0 .. Arena - 1 :
          m[i] = IF transport = "connection" \/ i >= MaxLength THEN c.mem[i] ELSE 0
  OBVIOUS
<1> HIDE DEF m
<1>8. in' = [mem |-> m, max |-> MaxLength, insert |-> 0, deserialize |-> 0,
             network |-> c.network, host |-> c.host]
  BY <1>1, <1>4, <1>6
<1>9. in' \in BufferType
  BY <1>4, <1>5, <1>8, SizesAssumption DEF BufferType
<1>10. BufferTypeOK'
  <2>1. \A b \in {out', in'} : /\ b \in BufferType /\ b.insert <= b.max + Overrun
                               /\ b.deserialize <= Arena
    <3>1. in'.insert = 0 /\ in'.max = MaxLength /\ in'.deserialize = 0
      BY <1>8
    <3>2. in'.insert <= in'.max + Overrun /\ in'.deserialize <= Arena
      BY <3>1, SizesAssumption DEF Overrun
    <3> QED BY <1>1, <1>2, <1>9, <3>2 DEF BufferTypeOK
  <2>2. IsSequence(message'.fields) /\ IsSequence(got')
    BY <1>1, NoMessageIs, EmptyIsSequence
  <2>3. taken' \in Seq(Nat) /\ Len(taken') = 0 /\ Len(got') = 0
    BY <1>1
  <2>4. Len(taken') <= Len(Layout[message'.id])
    BY <1>1, <2>3, NoMessageIs
  <2>5. id' \in Registered => Len(got') <= Len(Layout[id'])
    BY <2>3, LayoutAssumption, LayoutsAre
  <2> QED BY <1>1, <1>2, <2>1, <2>2, <2>3, <2>4, <2>5, NoMessageIs DEF BufferTypeOK
<1>11. NoStaleByte'
  <2>1. ASSUME NEW i \in in'.insert .. in'.max - 1 PROVE in'.mem[i] = 0
    <3>1. i \in 0 .. Arena - 1 /\ i < MaxLength
      BY <1>8, SizesAssumption, BuffersAre DEF IntSize
    <3>2. CASE transport = "connection"
      <4>1. in.max = MaxLength
        BY <1>2, <3>2 DEF Steady
      <4> QED BY <1>3, <1>7, <1>8, <3>1, <4>1 DEF Cleared
    <3>3. CASE transport # "connection"
      BY <1>7, <1>8, <3>1, <3>3, SizesAssumption
    <3> QED BY <3>2, <3>3
  <2> QED BY <1>1, <1>2, <2>1 DEF NoStaleByte
<1>12. Steady'
  <2>1. Len(message'.fields) = Len(taken') /\ DOMAIN taken' = {}
    BY <1>1, NoMessageIs
  <2>2. in'.max + 3 * Byte + 6 * IntSize <= Arena /\ in'.insert <= in'.max
    BY <1>8, BuffersAre
  <2>3. in'.max = MaxLength /\ in'.insert = 0 /\ in'.deserialize = 0
    BY <1>8
  <2> QED BY <1>1, <1>2, <2>1, <2>2, <2>3 DEF Steady
<1> QED BY <1>10, <1>11, <1>12 DEF BufferInv

(* Every step of the two processes keeps the invariant.                    *)
LEMMA BufferInvKeeps == ASSUME BufferInv, [BufferNext]_bufferVars PROVE BufferInv'
<1>1. CASE UNCHANGED bufferVars
  BY <1>1 DEF bufferVars, BufferInv, BufferTypeOK, NoStaleByte, Steady, IsSequence
<1> QED BY <1>1, PostMessageKeeps, SerializeKeeps, SerializePriorityKeeps,
           SendOnConnectionKeeps, PostFailsKeeps, PassInSharedMemoryKeeps,
           RecreateMessageKeeps, DeserializeKeeps, DeserializePriorityKeeps,
           ReadRestKeeps, NextMessageKeeps DEF BufferNext

(* Whatever is serialized, sent and recreated, no byte of an earlier message *)
(* is left behind the message of a buffer, and every pointer of a buffer     *)
(* stays within the memory around it (MessageBuffer.cpp:225-233, 277-628).   *)
THEOREM NoByteIsStale == BufferSpec => []BufferInv
<1>1. BufferInit => BufferInv
  BY InvStarts
<1>2. BufferInv /\ [BufferNext]_bufferVars => BufferInv'
  BY BufferInvKeeps
<1> QED BY <1>1, <1>2, PTL DEF BufferSpec

-----------------------------------------------------------------------------
(* The room of a buffer.                                                    *)

(* Nothing was written behind the five bytes, and what was written behind the *)
(* end is the field that was accepted last.                                   *)
LastFits ==
    /\ \A i \in 0 .. Arena - 1 : i >= out.max + Overrun => out.mem[i] = beyond
    /\ out.insert > out.max =>
           \E k \in DOMAIN taken :
               /\ taken[k] = out.insert
               /\ \A j \in DOMAIN taken : j > k => taken[j] = Refused
               /\ Layout[message.id][k] \in {"string", "address"}
               /\ Layout[message.id][k] = "string" => out.insert = out.max + 1

(* An insertion into the buffer of the pool, and the bytes behind its end. *)
LEMMA OutIsExtended ==
    ASSUME BufferInv, LastFits, NEW type \in Types, NEW v, Valid(type, v),
           out' = Insert(out, type, v)
    PROVE  /\ out'.max = out.max /\ out'.insert \in Nat
           /\ \A i \in 0 .. Arena - 1 : i >= out.max + Overrun => out'.mem[i] = out.mem[i]
           /\ out' # out => out'.insert > out.insert /\ out'.insert <= out.max + Excess(type)
<1>1. out \in BufferType
  BY BuffersAre
<1>2. Grows(out, out') /\ out'.insert <= out'.max + Overrun /\ out'.max = out.max
  BY OutIsInserted
<1>3. out' # out => out'.insert > out.insert /\ out'.insert <= out.max + Excess(type)
  BY <1>1, InsertIs
<1>4. out'.insert \in Nat /\ out.max \in Nat
  BY <1>1, <1>2 DEF Grows, SameBuffer, BufferType
<1>5. ASSUME NEW i \in 0 .. Arena - 1, i >= out.max + Overrun PROVE out'.mem[i] = out.mem[i]
  <2>1. i \notin out.insert .. out'.insert - 1
    BY <1>2, <1>4, <1>5 DEF Overrun
  <2> QED BY <1>2, <2>1 DEF Grows
<1> QED BY <1>2, <1>3, <1>4, <1>5

(* At first nothing was written.                                           *)
LEMMA LastFitsAtFirst == ASSUME BufferInit PROVE LastFits
<1>1. beyond \in {0, 1}
  BY DEF BufferInit
<1>2. PICK size \in Sizes, converts \in BOOLEAN, from \in {"big", "little"} :
          out = Buffer(size, converts, from)
  BY DEF BufferInit
<1>3. size \in Nat
  BY SizesAssumption
<1>4. Fresh(out, size, converts, from)
  BY <1>1, <1>2, <1>3, NewBuffer
<1>5. out.max = size /\ out.insert = 0
  BY <1>4 DEF Fresh
<1>6. \A i \in 0 .. Arena - 1 : i >= out.max + Overrun => out.mem[i] = beyond
  <2>1. \A i \in 0 .. Arena - 1 : out.mem[i] = IF i < size THEN 0 ELSE beyond
    BY <1>4 DEF Fresh
  <2> QED BY <1>3, <1>5, <2>1 DEF Overrun
<1> QED BY <1>3, <1>5, <1>6 DEF LastFits

(* The field that is inserted next is the last.                            *)
LEMMA LastFitsSerialized == ASSUME BufferInv, LastFits, Serialize PROVE LastFits'
<1> DEFINE n == Len(taken)
           type == Layout[message.id][n + 1]
<1>1. PICK v \in Values(type) :
         /\ message' = [message EXCEPT !.fields = Append(@, v)]
         /\ out' = Insert(out, type, v)
         /\ taken' = Append(taken, IF out' = out THEN Refused ELSE out'.insert)
  BY DEF Serialize
<1>2. n < Len(Layout[message.id]) /\ beyond' = beyond
  BY DEF Serialize
<1>3. message.id \in DOMAIN Layout /\ taken \in Seq(Nat)
  BY DEF BufferInv, BufferTypeOK
<1>4. n \in Nat /\ DOMAIN taken = 1 .. n
  BY <1>3
<1>5. type \in Types /\ Valid(type, v)
  <2>1. n + 1 \in 1 .. Len(Layout[message.id])
    BY <1>2, <1>3, <1>4, LayoutsAre
  <2> QED BY <1>3, <2>1, LayoutsAre, ValuesAssumption
<1>6. message'.id = message.id
  <2>1. message = [id |-> message.id, fields |-> message.fields, priority |-> message.priority]
    BY DEF BufferInv, BufferTypeOK
  <2> QED BY <1>1, <2>1
<1> DEFINE x == IF out' = out THEN Refused ELSE out'.insert
<1>7. /\ out'.max = out.max /\ out'.insert \in Nat
      /\ \A i \in 0 .. Arena - 1 : i >= out.max + Overrun => out'.mem[i] = out.mem[i]
      /\ out' # out => out'.insert > out.insert /\ out'.insert <= out.max + Excess(type)
  BY <1>1, <1>5, OutIsExtended
<1>8. x \in Nat /\ x = IF out' = out THEN Refused ELSE out'.insert
  BY <1>7 DEF Refused
<1>9. taken' = Append(taken, x)
  BY <1>1
<1> HIDE DEF x
<1>10. /\ DOMAIN taken' = 1 .. n + 1 /\ taken'[n + 1] = x
       /\ \A k \in 1 .. n : taken'[k] = taken[k]
  BY <1>3, <1>4, <1>8, <1>9
<1> HIDE DEF n
<1>11. ASSUME out'.insert > out'.max
       PROVE  \E k \in DOMAIN taken' :
                  /\ taken'[k] = out'.insert
                  /\ \A j \in DOMAIN taken' : j > k => taken'[j] = Refused
                  /\ Layout[message'.id][k] \in {"string", "address"}
                  /\ Layout[message'.id][k] = "string" => out'.insert = out'.max + 1
  <2>1. CASE out' = out
    <3>1. PICK k \in DOMAIN taken :
               /\ taken[k] = out.insert
               /\ \A j \in DOMAIN taken : j > k => taken[j] = Refused
               /\ Layout[message.id][k] \in {"string", "address"}
               /\ Layout[message.id][k] = "string" => out.insert = out.max + 1
      BY <1>11, <2>1 DEF LastFits
    <3>2. k \in DOMAIN taken' /\ taken'[k] = out'.insert
      BY <1>4, <1>10, <2>1, <3>1
    <3>3. ASSUME NEW j \in DOMAIN taken', j > k PROVE taken'[j] = Refused
      <4>1. CASE j \in 1 .. n
        BY <1>4, <1>10, <3>1, <3>3, <4>1
      <4>2. CASE j = n + 1
        BY <1>8, <1>10, <2>1, <4>2
      <4> QED BY <1>4, <1>10, <4>1, <4>2
    <3> QED BY <1>6, <2>1, <3>1, <3>2, <3>3
  <2>2. CASE out' # out
    <3>1. n + 1 \in DOMAIN taken' /\ taken'[n + 1] = out'.insert
      BY <1>4, <1>8, <1>10, <2>2
    <3>2. \A j \in DOMAIN taken' : ~ (j > n + 1)
      BY <1>4, <1>10
    <3>3. out.max \in Nat /\ out'.insert <= out.max + Excess(type) /\ out'.insert > out.max
      BY <1>7, <1>11, <2>2, BuffersAre
    <3>4. /\ type \in {"string", "address"}
          /\ type = "string" => out'.insert = out'.max + 1
      BY <1>7, <3>3 DEF Excess
    <3> QED BY <1>6, <3>1, <3>2, <3>4 DEF n
  <2> QED BY <2>1, <2>2
<1>12. \A i \in 0 .. Arena - 1 : i >= out'.max + Overrun => out'.mem[i] = beyond'
  BY <1>2, <1>7 DEF LastFits
<1> QED BY <1>11, <1>12 DEF LastFits

(* A number is inserted: it stays within the buffer.                       *)
LEMMA LastFitsWithNumber ==
    ASSUME BufferInv, LastFits, NEW type \in {"int", "short"}, NEW v, Valid(type, v),
           out' = Insert(out, type, v), UNCHANGED <<beyond, taken>>,
           message'.id = message.id \/ out.insert = 0
    PROVE  LastFits'
<1>1. type \in Types
  BY DEF Types, NumberTypes
<1>2. /\ out'.max = out.max /\ out'.insert \in Nat
      /\ \A i \in 0 .. Arena - 1 : i >= out.max + Overrun => out'.mem[i] = out.mem[i]
      /\ out' # out => out'.insert > out.insert /\ out'.insert <= out.max + Excess(type)
  BY <1>1, OutIsExtended
<1>3. out.max \in Nat /\ Excess(type) = 0
  BY BuffersAre DEF Excess
<1>4. out'.insert > out'.max => out' = out
  BY <1>2, <1>3
<1>5. out'.insert > out'.max => message'.id = message.id
  BY <1>2, <1>3, <1>4
<1>6. \A i \in 0 .. Arena - 1 : i >= out'.max + Overrun => out'.mem[i] = beyond'
  BY <1>2 DEF LastFits
<1> QED BY <1>4, <1>5, <1>6 DEF LastFits

(* The buffer is cleared, or it is empty and stays as it is.               *)
LEMMA LastFitsInEmpty ==
    ASSUME BufferInv, LastFits, Cleared(out, out') \/ (out' = out /\ out.insert = 0),
           beyond' = beyond
    PROVE  LastFits'
<1>1. out'.insert = 0 /\ out'.max = out.max /\ out.max \in Nat
  BY BuffersAre DEF Cleared
<1>2. ASSUME NEW i \in 0 .. Arena - 1, i >= out'.max + Overrun PROVE out'.mem[i] = beyond'
  BY <1>1, <1>2 DEF Cleared, LastFits, Overrun
<1> QED BY <1>1, <1>2 DEF LastFits

(* Every step keeps what was inserted last.                                *)
LEMMA LastFitsKeeps == ASSUME BufferInv, LastFits, [BufferNext]_bufferVars PROVE LastFits'
<1>1. CASE UNCHANGED bufferVars
  BY <1>1 DEF bufferVars, LastFits
<1>2. CASE PostMessage
  <2>1. PICK i \in DOMAIN Layout : out' = Insert(out, "short", i)
    BY <1>2 DEF PostMessage
  <2>2. Valid("short", i)
    BY LayoutAssumption DEF Valid
  <2>3. UNCHANGED <<beyond, taken>> /\ out.insert = 0
    BY <1>2 DEF PostMessage, BufferInv, Steady
  <2> QED BY <2>1, <2>2, <2>3, LastFitsWithNumber
<1>3. CASE SerializePriority
  <2>1. UNCHANGED <<beyond, taken, message>> /\ phase = "serialize"
        /\ out' = IF message.priority # 0 THEN Insert(out, "int", message.priority) ELSE out
    BY <1>3 DEF SerializePriority
  <2>2. CASE message.priority = 0
    BY <2>1, <2>2 DEF LastFits
  <2>3. CASE message.priority # 0
    <3>1. Valid("int", message.priority)
      BY <2>1, ValuesAssumption DEF BufferInv, Steady, Valid
    <3> QED BY <2>1, <2>3, <3>1, LastFitsWithNumber
  <2> QED BY <2>2, <2>3
<1>4. CASE SendOnConnection \/ PostFails \/ PassInSharedMemory
  <2>1. out' = ClearBuffer(out) /\ beyond' = beyond
    BY <1>4 DEF SendOnConnection, PostFails, PassInSharedMemory
  <2>2. Cleared(out, out')
    BY <2>1, BuffersAre, ClearIs
  <2> QED BY <2>1, <2>2, LastFitsInEmpty
<1>5. CASE RecreateMessage \/ Deserialize \/ DeserializePriority \/ ReadRest \/ NextMessage
  <2>1. out' = out /\ beyond' = beyond /\ phase \in {"recreate", "read", "done"}
    BY <1>5 DEF RecreateMessage, Deserialize, DeserializePriority, ReadRest, NextMessage
  <2>2. out.insert = 0
    BY <2>1 DEF BufferInv, Steady
  <2> QED BY <2>1, <2>2, LastFitsInEmpty
<1> QED BY <1>1, <1>2, <1>3, <1>4, <1>5, LastFitsSerialized DEF BufferNext

(* What was accepted last is the greatest of the accepted.                 *)
LEMMA LastFitsIsSmall == ASSUME BufferInv, LastFits PROVE OverrunIsSmall
<1> DEFINE S == {0} \cup {k \in DOMAIN taken : taken[k] # Refused}
           last == Max(S)
           type == IF last = 0 THEN "short" ELSE Layout[message.id][last]
<1>1. \A i \in DOMAIN out.mem : i >= out.max + Overrun => out.mem[i] = beyond
  <2>1. DOMAIN out.mem = 0 .. Arena - 1
    BY BuffersAre DEF BufferType
  <2> QED BY <2>1 DEF LastFits
<1>2. ASSUME out.insert > out.max
      PROVE  /\ type \in {"string", "address"}
             /\ type = "string" => out.insert = out.max + 1
             /\ taken[last] = out.insert
  <2>1. PICK k \in DOMAIN taken :
               /\ taken[k] = out.insert
               /\ \A j \in DOMAIN taken : j > k => taken[j] = Refused
               /\ Layout[message.id][k] \in {"string", "address"}
               /\ Layout[message.id][k] = "string" => out.insert = out.max + 1
    BY <1>2 DEF LastFits
  <2>2. taken[k] # Refused
    <3>1. out.insert \in Nat /\ out.max \in Nat
      BY BuffersAre
    <3>2. out.insert # 0
      BY <1>2, <3>1
    <3> QED BY <2>1, <3>2 DEF Refused
  <2>3. DOMAIN taken = 1 .. Len(taken) /\ Len(taken) \in Nat
    <3>1. taken \in Seq(Nat)
      BY DEF BufferInv, BufferTypeOK
    <3> QED BY <3>1
  <2>4. k \in S /\ S \subseteq Nat /\ k > 0
    BY <2>2, <2>3
  <2>5. \A j \in S : k >= j
    BY <2>1, <2>3, <2>4
  <2>6. last = k
    <3> HIDE DEF S
    <3>1. \A j \in S : (\A m \in S : j >= m) => j = k
      BY <2>4, <2>5
    <3> QED BY <2>4, <2>5, <3>1 DEF Max
  <2> HIDE DEF last
  <2> QED BY <2>1, <2>4, <2>6
<1> HIDE DEF S
<1> QED BY <1>1, <1>2 DEF OverrunIsSmall, S

(* Whatever is inserted, at most five bytes are written behind the end of a  *)
(* buffer, and only by the string or the address that was accepted last      *)
(* (MessageBuffer.cpp:277-628).                                              *)
THEOREM OverrunStaysSmall == BufferSpec => []OverrunIsSmall
<1> DEFINE I == BufferInv /\ LastFits
<1>1. BufferInit => I
  BY InvStarts, LastFitsAtFirst
<1>2. I /\ [BufferNext]_bufferVars => I'
  BY BufferInvKeeps, LastFitsKeeps
<1>3. I => OverrunIsSmall
  BY LastFitsIsSmall
<1> QED BY <1>1, <1>2, <1>3, PTL DEF BufferSpec

-----------------------------------------------------------------------------
(* What was inserted is read back.                                          *)

(* A value is read at place i of a buffer, and what is read ends at j.     *)
AnnouncedAt(d, type, i) ==
    CASE type = "string"  -> At(d, i)
      [] type = "address" -> ReadNumber(d, i, ShortSize)
      [] OTHER            -> Width(type)

Reads(d, type, v, i, j) ==
    /\ IF type = "address" THEN ReadAddress(d, i) = [value |-> v, next |-> j]
       ELSE Read(d, i, type) = [value |-> v, next |-> j]
    /\ i + AnnouncedAt(d, type, i) <= j

(* The bytes from i to j are those of a value, wherever they are copied.   *)
Stored(d, type, v, i, j) ==
    /\ i \in Nat /\ j \in Nat /\ i < j /\ j <= Arena
    /\ \A e \in BufferType :
           (/\ BigEndian(e) = BigEndian(d)
            /\ \A x \in i .. j - 1 : e.mem[x] = d.mem[x]) => Reads(e, type, v, i, j)

(* The bytes of an insertion, in every buffer with the same bytes.         *)
LEMMA Carried ==
    ASSUME NEW b \in BufferType, NEW bytes \in Seq(0 .. Byte - 1), NEW c, WritesBytes(b, c, bytes),
           NEW d, Grows(c, d), d.insert <= Arena, NEW lo \in Nat, lo <= b.insert,
           NEW e \in BufferType, \A x \in lo .. d.insert - 1 : e.mem[x] = d.mem[x]
    PROVE  Contains(e, b.insert, bytes)
<1>1. /\ b.insert \in Nat /\ c.insert \in Nat /\ d.insert \in Nat /\ Len(bytes) \in Nat
      /\ Arena \in Nat
  BY SizesAssumption DEF WritesBytes, Grows, SameBuffer, BufferType
<1>2. c.insert = b.insert + Len(bytes) /\ d.insert >= c.insert
  BY DEF WritesBytes, Grows
<1> SUFFICES ASSUME NEW k \in 1 .. Len(bytes) PROVE At(e, b.insert + k - 1) = bytes[k]
  BY DEF Contains
<1> DEFINE x == b.insert + k - 1
<1>3. /\ x \in 0 .. Arena - 1 /\ x \in b.insert .. c.insert - 1 /\ x \in lo .. d.insert - 1
      /\ x \notin c.insert .. d.insert - 1 /\ x - b.insert + 1 = k /\ x \in Nat /\ x < Arena
  <2> DEFINE p == b.insert
             q == c.insert
             r == d.insert
             m == Len(bytes)
  <2>1. /\ p \in Nat /\ q \in Nat /\ r \in Nat /\ m \in Nat /\ q = p + m /\ r >= q
        /\ lo \in Nat /\ lo <= p /\ r <= Arena /\ Arena \in Nat /\ k \in 1 .. m
    BY <1>1, <1>2
  <2> HIDE DEF p, q, r, m
  <2>2. /\ p + k - 1 \in 0 .. Arena - 1 /\ p + k - 1 \in p .. q - 1 /\ p + k - 1 \in lo .. r - 1
        /\ p + k - 1 \notin q .. r - 1 /\ (p + k - 1) - p + 1 = k /\ p + k - 1 \in Nat
        /\ p + k - 1 < Arena
    BY <2>1
  <2> QED BY <2>2 DEF p, q, r, m
<1> HIDE DEF x
<1>4. c.mem[x] = bytes[k]
  BY <1>3 DEF WritesBytes
<1>5. d.mem[x] = c.mem[x]
  BY <1>3 DEF Grows
<1>6. At(e, x) = e.mem[x]
  BY <1>3, AtIs
<1>7. e.mem[x] = d.mem[x]
  BY <1>3
<1> QED BY <1>4, <1>5, <1>6, <1>7 DEF x

(* A string that does not wrap.                                            *)
LEMMA ShortStrings ==
    ASSUME NEW v, OfType("string", v), ~ (Len(v) + 1 >= Byte)
    PROVE  Len(v) + 1 < Byte
<1>1. v \in Seq(1 .. Byte - 1)
  BY DEF OfType, NumberTypes
<1>2. Len(v) \in Nat
  BY <1>1
<1> QED BY <1>2, ByteAssumption

(* A number, a boolean or a string.                                        *)
LEMMA SimpleIsStored ==
    ASSUME NEW b \in BufferType, NEW type \in Simple, NEW v, OfType(type, v),
           ~ Wraps(type, v), NEW c, WritesBytes(b, c, Bytes(b, type, v)), c.insert <= Arena
    PROVE  Stored(c, type, v, b.insert, c.insert)
<1> DEFINE bytes == Bytes(b, type, v)
           i == b.insert
           j == c.insert
<1>1. /\ bytes \in Seq(0 .. Byte - 1) /\ Len(bytes) = Counted(type, v) + Uncounted(type)
      /\ Counted(type, v) \in Nat /\ Len(bytes) > 0 /\ Len(bytes) \in Nat
  BY BytesAre DEF Uncounted
<1>2. i \in Nat /\ j = i + Len(bytes) /\ Grows(b, c)
  BY DEF BufferType, WritesBytes
<1>3. Grows(c, c) /\ c \in BufferType /\ BigEndian(c) = BigEndian(b)
  BY <1>2 DEF Grows, SameBuffer, BufferType, BigEndian
<1>4. type = "string" => Len(v) + 1 < Byte
  <2>1. type = "string" => ~ (Len(v) + 1 >= Byte)
    BY DEF Wraps
  <2> QED BY <2>1, ShortStrings
<1>5. WritesBytes(b, c, bytes)
  OBVIOUS
<1>6. type # "address"
  BY DEF Simple
<1> HIDE DEF bytes
<1>7. ASSUME NEW e \in BufferType, BigEndian(e) = BigEndian(c),
             \A x \in i .. j - 1 : e.mem[x] = c.mem[x]
      PROVE  Reads(e, type, v, i, j)
  <2>1. Contains(e, i, bytes)
    BY <1>1, <1>2, <1>3, <1>5, <1>7, Carried
  <2>2. Read(e, i, type) = [value |-> v, next |-> i + Len(bytes)]
    <3>1. BigEndian(b) = BigEndian(e) /\ i \in Nat
      BY <1>2, <1>3, <1>7
    <3>2. Contains(e, i, Bytes(b, type, v))
      BY <2>1 DEF bytes
    <3> HIDE DEF i, j
    <3>3. Read(e, i, type) = [value |-> v, next |-> i + Len(Bytes(b, type, v))]
      BY <1>4, <3>1, <3>2, BytesBack
    <3> QED BY <3>3 DEF bytes
  <2>3. i + AnnouncedAt(e, type, i) <= j
    <3>1. CASE type = "string"
      <4>1. AnnouncedAt(e, type, i) = At(e, i)
        BY <3>1 DEF AnnouncedAt
      <4>2. Read(e, i, "string").next = i + 1 + At(e, i)
        BY DEF Read
      <4>3. At(e, i) \in Nat
        <5>1. i \in Nat
          BY <1>2
        <5> HIDE DEF i
        <5>2. At(e, i) \in 0 .. Byte - 1
          BY <5>1, AtIs
        <5> QED BY <5>2, ByteAssumption
      <4> QED BY <1>1, <1>2, <2>2, <3>1, <4>1, <4>2, <4>3
    <3>2. CASE type # "string"
      <4>1. AnnouncedAt(e, type, i) = Width(type) /\ Counted(type, v) = Width(type)
        BY <1>6, <3>2 DEF AnnouncedAt, Counted
      <4> QED BY <1>1, <1>2, <3>2, <4>1 DEF Uncounted
    <3> QED BY <3>1, <3>2
  <2> QED BY <1>2, <1>6, <2>2, <2>3 DEF Reads
<1>8. i \in Nat /\ j \in Nat /\ i < j /\ j <= Arena
  BY <1>1, <1>2
<1> QED BY <1>7, <1>8 DEF Stored

(* The total size of an address is not more than it takes.                 *)
LEMMA SizeIsRead ==
    ASSUME NEW b \in BufferType, NEW v, IsAddress(v), NEW e \in BufferType,
           BigEndian(e) = BigEndian(b), NEW i \in Nat, Contains(e, i, SizeBytes(b, v))
    PROVE  ReadNumber(e, i, ShortSize) \in Nat /\ ReadNumber(e, i, ShortSize) <= TotalSize(v)
<1>1. TotalSize(v) \in Nat
  BY TotalSizeIs
<1>2. ReadNumber(e, i, ShortSize) \in Nat
  BY NumbersAreRead DEF ShortSize
<1>3. CASE b.host = "big"
  <2>1. SizeBytes(b, v) = <<0, 0>>
    BY <1>3 DEF SizeBytes
  <2>2. At(e, i + 1 - 1) = 0 /\ At(e, i + 2 - 1) = 0
    BY <2>1 DEF Contains
  <2>3. At(e, i + 0) = 0 /\ At(e, i + 1) = 0
    BY <2>2
  <2>4. ReadNumber(e, i, 2) = 0
    BY <2>3, ReadNumberIs, ByteAssumption
  <2> QED BY <1>1, <2>4 DEF ShortSize
<1>4. CASE b.host # "big"
  <2>1. SizeBytes(b, v) = Number(b, TotalSize(v), 2)
    BY <1>4 DEF SizeBytes, ShortSize
  <2>2. Len(Number(b, TotalSize(v), 2)) = 2
    BY <1>1, BytesOfNumber
  <2>3. \A k \in 1 .. 2 : At(e, i + k - 1) = Number(b, TotalSize(v), 2)[k]
    BY <2>1, <2>2 DEF Contains
  <2>4. ReadNumber(e, i, 2) <= TotalSize(v)
    BY <1>1, <2>3, NumberBack
  <2> QED BY <1>2, <2>4 DEF ShortSize
<1> QED BY <1>3, <1>4

(* The fields of an address.                                               *)
LEMMA PartsAreValid ==
    ASSUME NEW v, IsAddress(v), ~ Wraps("address", v),
           NEW k \in 1 .. Len(AddressFields(v.location))
    PROVE  /\ AddressFields(v.location)[k] \in Simple
           /\ OfType(AddressFields(v.location)[k], v.parts[k])
           /\ AddressFields(v.location)[k] = "string" => Len(v.parts[k]) + 1 < Byte
<1>1. AddressFields(v.location)[k] \in Simple /\ DOMAIN AddressFields(v.location) =
          1 .. Len(AddressFields(v.location))
  BY FieldsAre
<1>2. DOMAIN v.parts = DOMAIN AddressFields(v.location)
  BY DEF IsAddress
<1>3. k \in DOMAIN v.parts
  BY <1>1, <1>2
<1>4. OfType(AddressFields(v.location)[k], v.parts[k])
  BY <1>3 DEF IsAddress
<1>5. AddressFields(v.location)[k] = "string" => ~ (Len(v.parts[k]) + 1 >= Byte)
  BY <1>3 DEF Wraps
<1>6. AddressFields(v.location)[k] = "string" => Len(v.parts[k]) + 1 < Byte
  BY <1>4, <1>5, ShortStrings
<1> QED BY <1>1, <1>4, <1>6

(* An address.                                                             *)
LEMMA AddressIsStored ==
    ASSUME NEW b \in BufferType, NEW v, IsAddress(v), ~ Wraps("address", v),
           AddressFields(v.location) # <<>>, InsertAddress(b, v).insert <= Arena
    PROVE  Stored(InsertAddress(b, v), "address", v, b.insert, InsertAddress(b, v).insert)
<1> DEFINE types == AddressFields(v.location)
           n == Len(types)
           first == Write(b, SizeBytes(b, v))
           c == InsertAddress(b, v)
           i == b.insert
           j == c.insert
           location == Number(b, v.location, IntSize)
<1>1. /\ Grows(b, c) /\ c.insert > b.insert + TotalSize(v) /\ TotalSize(v) \in Nat
      /\ i \in Nat /\ j \in Nat /\ Arena \in Nat /\ c \in BufferType
      /\ BigEndian(c) = BigEndian(b)
  <2>1. Grows(b, c) /\ c.insert > b.insert + TotalSize(v)
    BY AddressGrows
  <2> HIDE DEF c
  <2> QED BY <2>1, TotalSizeIs, SizesAssumption DEF Grows, SameBuffer, BufferType, BigEndian
<1>2. PICK w : /\ c = w[n]
               /\ WritesBytes(b, first, SizeBytes(b, v))
               /\ WritesBytes(first, w[0], location)
               /\ \A k \in 1 .. n : WritesBytes(w[k - 1], w[k], Bytes(b, types[k], v.parts[k]))
               /\ \A l, k \in 0 .. n : l <= k => Grows(w[l], w[k])
               /\ \A k \in 0 .. n : w[k] \in BufferType
  BY AddressIsWritten
<1>3. n \in {1, 7} /\ n \in Nat /\ DOMAIN types = 1 .. n /\ \A k \in 1 .. n : types[k] \in Simple
  BY FieldsAre
<1>4. v.location \in Nat /\ Shifted(v.location, 4) = 0
  BY DEF IsAddress, OfType, NumberTypes, Width, IntSize
<1>5. /\ location \in Seq(0 .. Byte - 1) /\ Len(location) = 4
      /\ SizeBytes(b, v) \in Seq(0 .. Byte - 1) /\ Len(SizeBytes(b, v)) = 2
  BY <1>4, SizeBytesAre, BytesOfNumber DEF IntSize
<1>6. first \in BufferType /\ first.insert = i + 2 /\ w[0].insert = (i + 2) + 4
  <2>1. first \in BufferType /\ first.insert = b.insert + Len(SizeBytes(b, v))
    BY <1>2 DEF WritesBytes, Grows, SameBuffer
  <2>2. w[0].insert = first.insert + Len(location)
    BY <1>2 DEF WritesBytes
  <2> QED BY <1>5, <2>1, <2>2
<1> HIDE DEF types, n, first, c, location
<1>7. \A k \in 0 .. n : Grows(w[k], c)
  BY <1>2, <1>3
<1>8. ASSUME NEW e \in BufferType, BigEndian(e) = BigEndian(c),
             \A x \in i .. j - 1 : e.mem[x] = c.mem[x]
      PROVE  Reads(e, "address", v, i, j)
  <2>1. Contains(e, i, SizeBytes(b, v))
    <3>1. Grows(first, c)
      <4>1. Grows(first, w[0]) /\ Grows(w[0], c)
        BY <1>2, <1>3, <1>7 DEF WritesBytes
      <4> QED BY <1>6, <4>1, GrowsAgain
    <3>2. WritesBytes(b, first, SizeBytes(b, v)) /\ c.insert <= Arena
      BY <1>2 DEF c
    <3>3. i \in Nat /\ i <= b.insert
      BY <1>1
    <3> DEFINE bytes == SizeBytes(b, v)
    <3>4. bytes \in Seq(0 .. Byte - 1) /\ WritesBytes(b, first, bytes)
      BY <1>5, <3>2
    <3> HIDE DEF bytes
    <3>5. Contains(e, b.insert, bytes)
      BY <1>8, <3>1, <3>2, <3>3, <3>4, Carried
    <3> QED BY <3>5 DEF bytes
  <2>2. Contains(e, i + 2, location)
    <3>1. WritesBytes(first, w[0], location) /\ Grows(w[0], c) /\ c.insert <= Arena
      BY <1>2, <1>3, <1>7 DEF c
    <3>2. i <= first.insert
      BY <1>1, <1>6
    <3>3. Contains(e, first.insert, location)
      BY <1>1, <1>5, <1>6, <1>8, <3>1, <3>2, Carried
    <3> QED BY <1>6, <3>3
  <2>3. ReadNumber(e, i + ShortSize, IntSize) = v.location
    <3> DEFINE l == i + 2
    <3>1. l \in Nat /\ Contains(e, l, Number(b, v.location, 4))
      BY <1>1, <2>2 DEF location, IntSize
    <3> HIDE DEF l, i, j
    <3>2. Len(Number(b, v.location, 4)) = 4
      BY <1>4, BytesOfNumber
    <3>3. \A k \in 1 .. 4 : At(e, l + k - 1) = Number(b, v.location, 4)[k]
      BY <3>1, <3>2 DEF Contains
    <3>4. BigEndian(b) = BigEndian(e)
      BY <1>1, <1>8
    <3>5. ReadNumber(e, l, 4) = v.location
      BY <1>4, <3>1, <3>3, <3>4, NumberBack
    <3> QED BY <3>5 DEF l, ShortSize, IntSize
  <2>4. PICK end : /\ end[0] = (i + ShortSize) + IntSize
                   /\ \A k \in 1 .. n : end[k] = Read(e, end[k - 1], types[k]).next
                   /\ ReadAddress(e, i) =
                         [value |-> [location |-> v.location,
                                     parts |-> [k \in DOMAIN types |->
                                                  Read(e, end[k - 1], types[k]).value]],
                          next |-> end[n]]
    <3>1. Followed(e, i, v.location)
      <4> HIDE DEF i
      <4> QED BY <2>3, AddressIsRead
    <3> QED BY <3>1 DEF Followed, types, n
  <2>5. ASSUME NEW k \in 1 .. n, end[k - 1] = w[k - 1].insert
        PROVE  Read(e, end[k - 1], types[k]) = [value |-> v.parts[k], next |-> w[k].insert]
    <3> DEFINE bytes == Bytes(b, types[k], v.parts[k])
               l == w[k - 1].insert
    <3>1. k - 1 \in 0 .. n /\ k \in 0 .. n /\ 0 \in 0 .. n /\ 0 <= k - 1
      BY <1>3
    <3>2. w[k - 1] \in BufferType /\ WritesBytes(w[k - 1], w[k], bytes) /\ Grows(w[k], c)
          /\ Grows(w[0], w[k - 1])
      BY <1>2, <1>7, <3>1
    <3>3. l \in Nat /\ i <= l
      <4>1. w[k - 1].insert >= w[0].insert
        BY <3>2 DEF Grows
      <4>2. w[k - 1].insert \in Nat
        BY <3>2 DEF BufferType
      <4> QED BY <1>1, <1>6, <4>1, <4>2
    <3>4. /\ types[k] \in Simple /\ OfType(types[k], v.parts[k])
          /\ types[k] = "string" => Len(v.parts[k]) + 1 < Byte
      BY PartsAreValid DEF types, n
    <3>5. bytes \in Seq(0 .. Byte - 1)
      BY <3>4, BytesAre
    <3>6. c.insert <= Arena
      BY DEF c
    <3>7. Contains(e, l, bytes)
      <4> HIDE DEF bytes
      <4> QED BY <1>1, <1>8, <3>2, <3>3, <3>5, <3>6, Carried
    <3>8. BigEndian(b) = BigEndian(e)
      BY <1>1, <1>8
    <3>9. w[k].insert = l + Len(bytes)
      BY <3>2 DEF WritesBytes
    <3> HIDE DEF l
    <3>10. Read(e, l, types[k]) = [value |-> v.parts[k], next |-> l + Len(bytes)]
      <4> DEFINE t == types[k]
                 p == v.parts[k]
      <4>1. /\ t \in Simple /\ OfType(t, p) /\ Contains(e, l, Bytes(b, t, p)) /\ l \in Nat
            /\ t = "string" => Len(p) + 1 < Byte
        BY <3>3, <3>4, <3>7
      <4> HIDE DEF t, p
      <4>2. Read(e, l, t) = [value |-> p, next |-> l + Len(Bytes(b, t, p))]
        BY <3>8, <4>1, BytesBack
      <4> QED BY <4>2 DEF t, p
    <3>11. l = end[k - 1]
      BY <2>5 DEF l
    <3> HIDE DEF bytes
    <3> QED BY <3>9, <3>10, <3>11
  <2>6. \A k \in 0 .. n : end[k] = w[k].insert
    <3> DEFINE S == {k \in Nat : k <= n => end[k] = w[k].insert}
    <3>1. 0 \in S
      BY <1>6, <2>4 DEF ShortSize, IntSize
    <3>2. ASSUME NEW k \in Nat, k \in S PROVE k + 1 \in S
      <4>1. CASE k + 1 <= n
        <5>1. k + 1 \in 1 .. n /\ (k + 1) - 1 = k /\ k <= n
          BY <1>3, <4>1
        <5>2. end[k] = w[k].insert
          BY <3>2, <5>1
        <5> DEFINE m == k + 1
        <5>3. m \in 1 .. n /\ m - 1 = k /\ end[m - 1] = w[m - 1].insert
          BY <5>1, <5>2
        <5> HIDE DEF m
        <5>4. Read(e, end[m - 1], types[m]).next = w[m].insert
          <6>1. Read(e, end[m - 1], types[m]) = [value |-> v.parts[m], next |-> w[m].insert]
            BY <2>5, <5>3
          <6> QED BY <6>1
        <5>5. end[m] = w[m].insert
          BY <2>4, <5>3, <5>4
        <5> QED BY <5>5 DEF m
      <4>2. CASE ~ (k + 1 <= n)
        BY <4>2
      <4> QED BY <4>1, <4>2
    <3> HIDE DEF S
    <3>3. Nat \subseteq S
      BY <3>1, <3>2, SetInduction
    <3> QED BY <1>3, <3>3 DEF S
  <2>7. ASSUME NEW k \in DOMAIN types PROVE Read(e, end[k - 1], types[k]).value = v.parts[k]
    <3>1. k \in 1 .. n /\ k - 1 \in 0 .. n
      BY <1>3
    <3>2. end[k - 1] = w[k - 1].insert
      BY <2>6, <3>1
    <3>3. Read(e, end[k - 1], types[k]) = [value |-> v.parts[k], next |-> w[k].insert]
      BY <2>5, <3>1, <3>2
    <3> QED BY <3>3
  <2>8. [k \in DOMAIN types |-> Read(e, end[k - 1], types[k]).value] = v.parts
    <3>1. v.parts = [k \in DOMAIN types |-> v.parts[k]]
      BY DEF IsAddress, types
    <3>2. [k \in DOMAIN types |-> Read(e, end[k - 1], types[k]).value]
              = [k \in DOMAIN types |-> v.parts[k]]
      BY <2>7
    <3> QED BY <3>1, <3>2
  <2>9. end[n] = j
    <3>1. end[n] = w[n].insert
      BY <1>3, <2>6
    <3> QED BY <1>2, <3>1
  <2>10. ReadAddress(e, i) = [value |-> v, next |-> j]
    <3>1. v = [location |-> v.location, parts |-> v.parts]
      BY DEF IsAddress
    <3>2. ReadAddress(e, i) = [value |-> [location |-> v.location, parts |-> v.parts],
                               next |-> end[n]]
      BY <2>4, <2>8
    <3> QED BY <2>9, <3>1, <3>2
  <2>11. i + AnnouncedAt(e, "address", i) <= j
    <3> DEFINE size == ReadNumber(e, i, ShortSize)
    <3>1. BigEndian(e) = BigEndian(b)
      BY <1>1, <1>8
    <3>2. i \in Nat
      BY <1>1
    <3> HIDE DEF i, j
    <3>3. size \in Nat /\ size <= TotalSize(v)
      BY <2>1, <3>1, <3>2, SizeIsRead
    <3>4. AnnouncedAt(e, "address", i) = size
      BY DEF AnnouncedAt
    <3> HIDE DEF size
    <3>5. j > i + TotalSize(v) /\ j \in Nat /\ TotalSize(v) \in Nat
      BY <1>1 DEF i, j
    <3> QED BY <3>2, <3>3, <3>4, <3>5
  <2> HIDE DEF i, j
  <2> QED BY <2>10, <2>11 DEF Reads
<1>9. i \in Nat /\ j \in Nat /\ i < j /\ j <= Arena
  <2>1. j <= Arena
    BY DEF c
  <2> QED BY <1>1, <2>1
<1>10. Stored(c, "address", v, i, j)
  <2> HIDE DEF i, j
  <2> QED BY <1>8, <1>9 DEF Stored
<1> QED BY <1>10 DEF c

(* What is inserted can be read where it was inserted.                     *)
LEMMA InsertStores ==
    ASSUME NEW b \in BufferType, NEW type \in Types, NEW v, Valid(type, v), ~ Wraps(type, v),
           NEW c, c = Insert(b, type, v), c # b, c.insert <= Arena
    PROVE  Stored(c, type, v, b.insert, c.insert) /\ Grows(b, c)
<1>1. /\ Grows(b, c)
      /\ type = "address" => AddressFields(v.location) # <<>> /\ c = InsertAddress(b, v)
      /\ type # "address" => WritesBytes(b, c, Bytes(b, type, v))
  BY InsertIs
<1>2. CASE type = "address"
  BY <1>1, <1>2, AddressIsStored DEF Valid
<1>3. CASE type # "address"
  <2>1. type \in Simple /\ OfType(type, v)
    BY <1>3 DEF Valid, Simple
  <2> QED BY <1>1, <1>3, <2>1, SimpleIsStored
<1> QED BY <1>1, <1>2, <1>3

(* What is stored stays so in a buffer that has the bytes.                 *)
LEMMA StoredIsKept ==
    ASSUME NEW c, NEW d, NEW type, NEW v, NEW i, NEW j, Stored(c, type, v, i, j),
           BigEndian(d) = BigEndian(c), \A x \in i .. j - 1 : d.mem[x] = c.mem[x]
    PROVE  Stored(d, type, v, i, j)
<1>1. ASSUME NEW e \in BufferType, BigEndian(e) = BigEndian(d),
             \A x \in i .. j - 1 : e.mem[x] = d.mem[x]
      PROVE  Reads(e, type, v, i, j)
  <2>1. BigEndian(e) = BigEndian(c) /\ \A x \in i .. j - 1 : e.mem[x] = c.mem[x]
    BY <1>1
  <2> QED BY <2>1 DEF Stored
<1> QED BY <1>1 DEF Stored

(* An insertion leaves what was stored before it.                          *)
LEMMA StoredBefore ==
    ASSUME NEW b \in BufferType, NEW c, Grows(b, c), NEW type, NEW v, NEW i, NEW j,
           Stored(b, type, v, i, j), j <= b.insert
    PROVE  Stored(c, type, v, i, j)
<1>1. i \in Nat /\ j \in Nat /\ j <= Arena /\ b.insert \in Nat /\ Arena \in Nat
  BY SizesAssumption DEF Stored, BufferType
<1>2. BigEndian(c) = BigEndian(b)
  BY DEF Grows, SameBuffer, BigEndian
<1>3. ASSUME NEW x \in i .. j - 1 PROVE c.mem[x] = b.mem[x]
  <2>1. x \in 0 .. Arena - 1 /\ x \notin b.insert .. c.insert - 1
    BY <1>1
  <2> QED BY <2>1 DEF Grows
<1> QED BY <1>2, <1>3, StoredIsKept

(* What is stored at the pointer of a buffer is extracted.                 *)
LEMMA ExtractStored ==
    ASSUME NEW d \in BufferType, NEW type \in Types, NEW v, NEW j,
           Stored(d, type, v, d.deserialize, j), j <= d.insert, j <= d.max
    PROVE  Extract(d, type) = [value |-> Get(v), next |-> j]
<1> DEFINE i == d.deserialize
<1>1. i \in Nat /\ j \in Nat /\ i < j /\ d.insert \in Nat /\ d.max \in Nat
  BY DEF Stored, BufferType
<1>2. Reads(d, type, v, i, j)
  BY DEF Stored
<1>3. Announced(d, type) = AnnouncedAt(d, type, i)
  BY DEF Announced, AnnouncedAt
<1>4. AnnouncedAt(d, type, i) \in Nat
  <2>1. CASE type = "string"
    <3>1. At(d, i) \in 0 .. Byte - 1
      BY <1>1, AtIs
    <3> QED BY <2>1, <3>1, ByteAssumption DEF AnnouncedAt
  <2>2. CASE type = "address"
    BY <1>1, <2>2, NumbersAreRead DEF AnnouncedAt, ShortSize
  <2>3. CASE type # "string" /\ type # "address"
    BY <2>3 DEF AnnouncedAt, Width, IntSize, ShortSize
  <2> QED BY <2>1, <2>2, <2>3
<1>5. ~ (AreContentsProcessed(d) \/ d.deserialize + Announced(d, type) > d.max)
  <2>1. i + AnnouncedAt(d, type, i) <= j
    BY <1>2 DEF Reads
  <2>2. i # d.insert
    BY <1>1
  <2> QED BY <1>1, <1>3, <1>4, <2>1, <2>2 DEF AreContentsProcessed
<1>6. CASE type = "address"
  <2>1. ReadAddress(d, i) = [value |-> v, next |-> j]
    BY <1>2, <1>6 DEF Reads
  <2> QED BY <1>5, <1>6, <2>1 DEF Extract
<1>7. CASE type # "address"
  <2>1. Read(d, i, type) = [value |-> v, next |-> j]
    BY <1>2, <1>7 DEF Reads
  <2> QED BY <1>5, <1>7, <2>1 DEF Extract
<1> QED BY <1>6, <1>7

-----------------------------------------------------------------------------
(* What was accepted arrives.                                               *)

\* Where the message id and the first k fields end.
EndOf(k) == IF k = 0 THEN ShortSize ELSE taken[k]

StoredField(d, k) ==
    Stored(d, Layout[message.id][k], message.fields[k], EndOf(k - 1), taken[k])

\* What the priority takes, and that a buffer ends with it.
Rest == IF message.priority = 0 THEN 0 ELSE IntSize

StoredRest(d, n) ==
    /\ d.insert = EndOf(n) + Rest
    /\ message.priority # 0 => Stored(d, "int", message.priority, EndOf(n), EndOf(n) + IntSize)

Sending == phase \in {"serialize", "send"}
Receiving ==
    phase \in {"recreate", "read", "done"} /\ fromStart /\ ShortSize <= out.max /\ OrdersAgree

\* What the buffer of the pool holds.
IdWritten ==
    (Sending /\ ShortSize <= out.max) =>
        Stored(out, "short", message.id, 0, ShortSize) /\ ShortSize <= out.insert
FieldsWritten ==
    \A k \in DOMAIN taken :
        (Sending /\ Inserted(k)) => StoredField(out, k) /\ taken[k] <= out.insert
EndWritten ==
    (phase = "serialize" /\ Inserted(Len(taken))) => out.insert = EndOf(Len(taken))
PriorityWritten ==
    (phase = "send" /\ Inserted(Len(taken)) /\ EndOf(Len(taken)) + Rest <= out.max) =>
        StoredRest(out, Len(taken))

\* What the buffer of the mailbox holds of it.
IdArrived ==
    Receiving =>
        /\ ShortSize <= in.insert
        /\ phase = "recreate" => Stored(in, "short", message.id, 0, ShortSize)
        /\ phase # "recreate" => id = message.id
FieldsStored ==
    \A k \in DOMAIN taken :
        (Receiving /\ Inserted(k) /\ taken[k] <= MaxLength) =>
            StoredField(in, k) /\ taken[k] <= in.insert
FieldIsNext ==
    (Receiving /\ phase = "read" /\ Inserted(Len(got)) /\ EndOf(Len(got)) <= MaxLength) =>
        in.deserialize = EndOf(Len(got))
PriorityStored ==
    (/\ Receiving /\ phase # "done" /\ transport = "connection" /\ Inserted(Len(taken))
     /\ EndOf(Len(taken)) + Rest <= Min({out.max, MaxLength})) => StoredRest(in, Len(taken))

ArrivalInv ==
    /\ IdWritten /\ FieldsWritten /\ EndWritten /\ PriorityWritten
    /\ IdArrived /\ FieldsStored /\ FieldIsNext /\ PriorityStored
    /\ AcceptedArrive

(* The fields of the message so far.                                       *)
LEMMA FieldsSoFar ==
    ASSUME BufferInv
    PROVE  /\ taken \in Seq(Nat) /\ Len(taken) \in Nat /\ DOMAIN taken = 1 .. Len(taken)
           /\ Len(message.fields) = Len(taken) /\ message.id \in DOMAIN Layout
           /\ Len(taken) <= Len(Layout[message.id]) /\ Len(Layout[message.id]) \in Nat
           /\ \A k \in DOMAIN taken : /\ Layout[message.id][k] \in Types /\ taken[k] \in Nat
                                      /\ Valid(Layout[message.id][k], message.fields[k])
           /\ Len(got) \in Nat /\ DOMAIN got = 1 .. Len(got) /\ IsSequence(got)
<1>1. /\ taken \in Seq(Nat) /\ message.id \in DOMAIN Layout
      /\ Len(taken) <= Len(Layout[message.id]) /\ IsSequence(got)
  BY DEF BufferInv, BufferTypeOK
<1>2. Len(taken) \in Nat /\ DOMAIN taken = 1 .. Len(taken) /\ \A k \in DOMAIN taken : taken[k] \in Nat
  BY <1>1
<1>3. Len(message.fields) = Len(taken)
      /\ \A k \in DOMAIN taken : Valid(Layout[message.id][k], message.fields[k])
  BY DEF BufferInv, Steady
<1>4. Len(Layout[message.id]) \in Nat
      /\ \A k \in 1 .. Len(Layout[message.id]) : Layout[message.id][k] \in Types
  BY <1>1, LayoutsAre
<1>5. \A k \in DOMAIN taken : Layout[message.id][k] \in Types
  BY <1>1, <1>2, <1>4
<1>6. Len(got) \in Nat /\ DOMAIN got = 1 .. Len(got)
  BY <1>1 DEF IsSequence
<1> QED BY <1>1, <1>2, <1>3, <1>4, <1>5, <1>6

(* Places in the buffer of the pool are numbers.                           *)
LEMMA EndsAre ==
    ASSUME BufferInv, NEW k \in 0 .. Len(taken)
    PROVE  EndOf(k) \in Nat
<1>1. Len(taken) \in Nat /\ DOMAIN taken = 1 .. Len(taken) /\ \A l \in DOMAIN taken : taken[l] \in Nat
  BY FieldsSoFar
<1>2. CASE k = 0
  BY <1>2 DEF EndOf, ShortSize
<1>3. CASE k # 0
  BY <1>1, <1>3 DEF EndOf
<1> QED BY <1>2, <1>3

(* A number for which there is room is inserted.                           *)
LEMMA NumberFits ==
    ASSUME NEW b \in BufferType, NEW type \in {"short", "int"}, NEW v, OfType(type, v),
           b.insert + Width(type) <= b.max, b.max <= Arena
    PROVE  LET c == Insert(b, type, v) IN
           /\ Grows(b, c) /\ c.insert = b.insert + Width(type) /\ c \in BufferType
           /\ Stored(c, type, v, b.insert, b.insert + Width(type))
<1>1. type \in Simple /\ type # "address" /\ type # "string"
  BY DEF Simple, Types, NumberTypes
<1>2. b.insert \in Nat /\ b.max \in Nat /\ Arena \in Nat
  BY SizesAssumption DEF BufferType
<1>3. Counted(type, v) = Width(type) /\ Width(type) \in {2, 4}
  BY <1>1 DEF Counted, Width, ShortSize, IntSize
<1>4. /\ Bytes(b, type, v) \in Seq(0 .. Byte - 1)
      /\ Len(Bytes(b, type, v)) = Counted(type, v) + Uncounted(type)
  BY <1>1, BytesAre
<1>5. Len(Bytes(b, type, v)) = Width(type)
  BY <1>1, <1>3, <1>4 DEF Uncounted
<1>6. Insert(b, type, v) = Write(b, Bytes(b, type, v))
  BY <1>1, <1>2, <1>3 DEF Insert
<1> DEFINE c == Insert(b, type, v)
<1>7. WritesBytes(b, c, Bytes(b, type, v))
  <2>1. WritesBytes(b, Write(b, Bytes(b, type, v)), Bytes(b, type, v))
    BY <1>4, WriteIs
  <2> QED BY <1>6, <2>1
<1> HIDE DEF c
<1>8. c.insert = b.insert + Width(type) /\ Grows(b, c) /\ c \in BufferType
  BY <1>5, <1>7 DEF WritesBytes, Grows, SameBuffer
<1>9. ~ Wraps(type, v)
  BY <1>1 DEF Wraps
<1>10. Stored(c, type, v, b.insert, c.insert)
  <2>1. c.insert <= Arena
    BY <1>2, <1>3, <1>8
  <2> QED BY <1>1, <1>7, <1>9, <2>1, SimpleIsStored
<1> QED BY <1>8, <1>10 DEF c

(* Nothing is inserted or read at first.                                   *)
LEMMA ArrivalAtFirst == ASSUME BufferInit PROVE ArrivalInv
<1>1. phase = "idle" /\ taken = <<>> /\ got = <<>>
  BY DEF BufferInit
<1>2. DOMAIN taken = {} /\ DOMAIN got = {}
  BY <1>1
<1>3. ~ Sending /\ ~ Receiving /\ phase = "idle"
  BY <1>1 DEF Sending, Receiving
<1> HIDE DEF Sending, Receiving
<1>4. IdWritten /\ FieldsWritten /\ EndWritten /\ PriorityWritten
  BY <1>2, <1>3 DEF IdWritten, FieldsWritten, EndWritten, PriorityWritten
<1>5. IdArrived /\ FieldsStored /\ FieldIsNext /\ PriorityStored
  BY <1>2, <1>3 DEF IdArrived, FieldsStored, FieldIsNext, PriorityStored
<1>6. AcceptedArrive
  BY <1>2, <1>3 DEF AcceptedArrive, FieldsArrive, PriorityArrives
<1> QED BY <1>4, <1>5, <1>6 DEF ArrivalInv

(* The message id is inserted.                                             *)
LEMMA ArrivalPosted == ASSUME BufferInv, ArrivalInv, PostMessage PROVE ArrivalInv'
<1>1. PICK i \in DOMAIN Layout, p \in Priorities :
         /\ message' = [id |-> i, fields |-> <<>>, priority |-> p]
         /\ out' = Insert(out, "short", i)
  BY DEF PostMessage
<1>2. /\ phase = "idle" /\ phase' = "serialize"
      /\ UNCHANGED <<transport, beyond, taken, in, stream, fromStart, id, got, priority>>
  BY DEF PostMessage
<1>3. taken = <<>> /\ out.insert = 0
  BY <1>2 DEF BufferInv, Steady
<1>4. taken' = <<>> /\ DOMAIN taken' = {} /\ Len(taken') = 0
  BY <1>2, <1>3
<1>5. OfType("short", i) /\ Valid("short", i) /\ "short" \in Types
  BY LayoutAssumption DEF Valid, Types, NumberTypes
<1>6. out'.max = out.max
  BY <1>1, <1>5, OutIsInserted
<1>7. ASSUME ShortSize <= out'.max
      PROVE  Stored(out', "short", i, 0, ShortSize) /\ out'.insert = ShortSize
  <2>1. out.insert + Width("short") <= out.max /\ out.max <= Arena /\ Width("short") = ShortSize
    <3>1. Width("short") = ShortSize
      BY DEF Width
    <3>2. out.max <= Arena
      BY BuffersAre, ByteAssumption DEF Overrun, IntSize
    <3> QED BY <1>3, <1>6, <1>7, <3>1, <3>2 DEF ShortSize
  <2>2. /\ out'.insert = out.insert + Width("short")
        /\ Stored(out', "short", i, out.insert, out.insert + Width("short"))
    BY <1>1, <1>5, <2>1, BuffersAre, NumberFits
  <2>3. out.insert + Width("short") = ShortSize
    BY <1>3, <2>1 DEF ShortSize
  <2> QED BY <1>3, <2>2, <2>3
<1>8. IdWritten'
  <2>1. message'.id = i
    BY <1>1
  <2> QED BY <1>7, <2>1 DEF IdWritten, ShortSize
<1>9. EndWritten'
  BY <1>4, <1>7 DEF EndWritten, Inserted, EndOf
<1>10. FieldsWritten' /\ PriorityWritten'
  BY <1>2, <1>4 DEF FieldsWritten, PriorityWritten
<1>11. ~ Receiving' /\ phase' = "serialize"
  BY <1>2 DEF Receiving
<1>12. IdArrived' /\ FieldsStored' /\ FieldIsNext' /\ PriorityStored'
  <2> HIDE DEF Receiving
  <2> QED BY <1>11 DEF IdArrived, FieldsStored, FieldIsNext, PriorityStored
<1>13. AcceptedArrive'
  <2>1. got' = <<>>
    BY <1>2 DEF BufferInv, Steady
  <2>2. DOMAIN got' = {}
    BY <2>1
  <2> QED BY <1>11, <2>2 DEF AcceptedArrive, FieldsArrive, PriorityArrives
<1> QED BY <1>8, <1>9, <1>10, <1>12, <1>13 DEF ArrivalInv

(* The next field is inserted.                                             *)
LEMMA ArrivalSerialized == ASSUME BufferInv, ArrivalInv, Serialize PROVE ArrivalInv'
<1>0. PICK n : n = Len(taken)
  OBVIOUS
<1> DEFINE type == Layout[message.id][n + 1]
<1>1. PICK v \in Values(type) :
         /\ message' = [message EXCEPT !.fields = Append(@, v)]
         /\ out' = Insert(out, type, v)
         /\ taken' = Append(taken, IF out' = out THEN Refused ELSE out'.insert)
  BY <1>0 DEF Serialize
<1>2. /\ phase = "serialize" /\ phase' = phase /\ n < Len(Layout[message.id])
      /\ UNCHANGED <<transport, beyond, in, stream, fromStart, id, got, priority>>
  BY <1>0 DEF Serialize
<1>3. /\ message.id \in DOMAIN Layout /\ IsSequence(message.fields)
      /\ message = [id |-> message.id, fields |-> message.fields, priority |-> message.priority]
      /\ taken \in Seq(Nat) /\ n \in Nat /\ Len(message.fields) = n /\ DOMAIN taken = 1 .. n
  <2>1. /\ IsSequence(message.fields)
        /\ message = [id |-> message.id, fields |-> message.fields, priority |-> message.priority]
    BY DEF BufferInv, BufferTypeOK
  <2> QED BY <1>0, <2>1, FieldsSoFar
<1>4. type \in Types /\ Valid(type, v)
  <2>1. n + 1 \in 1 .. Len(Layout[message.id])
    BY <1>2, <1>3, LayoutsAre
  <2> QED BY <1>3, <2>1, LayoutsAre, ValuesAssumption
<1>5. /\ message'.id = message.id /\ message'.fields = Append(message.fields, v)
  BY <1>1, <1>3
<1>6. /\ message'.fields[n + 1] = v
      /\ \A k \in 1 .. n : message'.fields[k] = message.fields[k]
  BY <1>3, <1>5, AppendIs
<1> DEFINE x == IF out' = out THEN Refused ELSE out'.insert
<1>7. /\ out' \in BufferType /\ Grows(out, out') /\ out'.insert <= Arena /\ out'.max = out.max
      /\ out'.insert >= out.insert /\ out'.insert \in Nat
      /\ out \in BufferType /\ out.insert \in Nat
  <2>1. /\ out' \in BufferType /\ Grows(out, out') /\ out'.insert <= out'.max + Overrun
        /\ out'.max = out.max /\ out'.insert >= out.insert
    BY <1>1, <1>4, OutIsInserted
  <2>2. out'.insert \in Nat
    BY <2>1 DEF BufferType
  <2>3. out \in BufferType /\ out.insert \in Nat /\ out.max + Overrun <= Arena
    BY BuffersAre, ByteAssumption DEF Overrun, IntSize
  <2>4. out.max \in Nat /\ Arena \in Nat
    BY BuffersAre
  <2> QED BY <2>1, <2>2, <2>3, <2>4 DEF Overrun
<1>8. x \in Nat /\ x = (IF out' = out THEN Refused ELSE out'.insert)
  BY <1>7 DEF Refused
<1>9. taken' = Append(taken, x)
  BY <1>1
<1> HIDE DEF x
<1>10. /\ DOMAIN taken' = 1 .. n + 1 /\ taken'[n + 1] = x /\ Len(taken') = n + 1
       /\ \A k \in 1 .. n : taken'[k] = taken[k]
  BY <1>3, <1>8, <1>9
<1> HIDE DEF type
<1>11. \A k \in 0 .. n : EndOf(k)' = EndOf(k)
  BY <1>3, <1>10 DEF EndOf
<1>12. ASSUME NEW k \in 0 .. n, Inserted(k)' PROVE Inserted(k)
  <2>1. ShortSize <= out.max /\ k <= Len(taken)
    BY <1>0, <1>3, <1>7, <1>12 DEF Inserted
  <2>2. ASSUME NEW i \in 1 .. k
        PROVE  taken[i] # Refused /\ ~ Wraps(Layout[message.id][i], message.fields[i])
    <3>1. i \in 1 .. n
      BY <1>3
    <3>2. taken'[i] # Refused /\ ~ Wraps(Layout[message'.id][i], message'.fields[i])
      BY <1>12 DEF Inserted
    <3> QED BY <1>5, <1>6, <1>10, <3>1, <3>2
  <2> QED BY <2>1, <2>2 DEF Inserted
<1>13. ASSUME Inserted(n + 1)'
       PROVE  /\ out' # out /\ x = out'.insert /\ Inserted(n)
              /\ Stored(out', type, v, EndOf(n), out'.insert)
  <2>1. n + 1 \in 1 .. n + 1 /\ n \in 0 .. n
    BY <1>3
  <2>2. taken'[n + 1] # Refused /\ ~ Wraps(Layout[message'.id][n + 1], message'.fields[n + 1])
    <3>1. \A i \in 1 .. n + 1 : taken'[i] # Refused /\ ~ Wraps(Layout[message'.id][i], message'.fields[i])
      BY <1>13 DEF Inserted
    <3> QED BY <2>1, <3>1
  <2>3. out' # out /\ x = out'.insert
    BY <1>8, <1>10, <2>2
  <2>4. Inserted(n)'
    <3>1. \A i \in 1 .. n : i \in 1 .. n + 1
      BY <1>3
    <3>2. ShortSize <= out'.max /\ n <= Len(taken')
      BY <1>3, <1>10, <1>13 DEF Inserted
    <3> QED BY <1>13, <3>1, <3>2 DEF Inserted
  <2>5. Inserted(n)
    BY <1>12, <2>1, <2>4
  <2>6. out.insert = EndOf(n)
    BY <1>0, <1>2, <2>5 DEF ArrivalInv, EndWritten
  <2>7. ~ Wraps(type, v)
    BY <1>5, <1>6, <2>2 DEF type
  <2>8. Stored(out', type, v, out.insert, out'.insert)
    BY <1>1, <1>4, <1>7, <2>3, <2>7, InsertStores
  <2> QED BY <2>3, <2>5, <2>6, <2>8
<1>14. IdWritten'
  <2> SUFFICES ASSUME ShortSize <= out'.max
               PROVE  Stored(out', "short", message.id, 0, ShortSize) /\ ShortSize <= out'.insert
    BY <1>5 DEF IdWritten
  <2>1. Stored(out, "short", message.id, 0, ShortSize) /\ ShortSize <= out.insert
    BY <1>2, <1>7 DEF ArrivalInv, IdWritten, Sending
  <2> QED BY <1>7, <2>1, StoredBefore DEF ShortSize
<1>15. FieldsWritten'
  <2> SUFFICES ASSUME NEW k \in DOMAIN taken', Inserted(k)'
               PROVE  /\ Stored(out', Layout[message'.id][k], message'.fields[k], EndOf(k - 1)', taken'[k])
                      /\ taken'[k] <= out'.insert
    BY DEF FieldsWritten, StoredField
  <2>1. CASE k \in 1 .. n
    <3>1. k \in 0 .. n /\ k - 1 \in 0 .. n
      BY <1>3, <2>1
    <3>2. Inserted(k)
      BY <1>12, <3>1
    <3>3. StoredField(out, k) /\ taken[k] <= out.insert
      BY <1>2, <1>3, <2>1, <3>2 DEF ArrivalInv, FieldsWritten, Sending
    <3>4. Stored(out', Layout[message.id][k], message.fields[k], EndOf(k - 1), taken[k])
      BY <1>7, <3>3, StoredBefore DEF StoredField
    <3>5. taken[k] <= out'.insert
      <4>1. taken[k] \in Nat
        BY <1>3, <2>1
      <4> QED BY <1>7, <3>3, <4>1
    <3> QED BY <1>5, <1>6, <1>10, <1>11, <2>1, <3>1, <3>4, <3>5
  <2>2. CASE k = n + 1
    <3>1. /\ x = out'.insert /\ Stored(out', type, v, EndOf(n), out'.insert)
      BY <1>13, <2>2
    <3>2. EndOf(k - 1)' = EndOf(n)
      <4>1. k - 1 = n /\ n \in 0 .. n
        BY <1>3, <2>2
      <4> QED BY <1>11, <4>1
    <3>3. taken'[k] = out'.insert /\ out'.insert <= out'.insert
      BY <1>7, <1>10, <2>2, <3>1
    <3> QED BY <1>5, <1>6, <2>2, <3>1, <3>2, <3>3 DEF type
  <2> QED BY <1>3, <1>10, <2>1, <2>2
<1>16. EndWritten'
  <2> SUFFICES ASSUME Inserted(n + 1)' PROVE out'.insert = EndOf(n + 1)'
    BY <1>10 DEF EndWritten
  <2>1. EndOf(n + 1)' = taken'[n + 1]
    BY <1>3 DEF EndOf
  <2> QED BY <1>10, <1>13, <2>1
<1>17. PriorityWritten'
  BY <1>2 DEF PriorityWritten
<1>18. ~ Receiving' /\ phase' = "serialize"
  BY <1>2 DEF Receiving
<1>19. IdArrived' /\ FieldsStored' /\ FieldIsNext' /\ PriorityStored'
  <2> HIDE DEF Receiving
  <2> QED BY <1>18 DEF IdArrived, FieldsStored, FieldIsNext, PriorityStored
<1>20. AcceptedArrive'
  <2>1. got' = <<>>
    BY <1>2 DEF BufferInv, Steady
  <2>2. DOMAIN got' = {}
    BY <2>1
  <2> QED BY <1>18, <2>2 DEF AcceptedArrive, FieldsArrive, PriorityArrives
<1> QED BY <1>14, <1>15, <1>16, <1>17, <1>19, <1>20 DEF ArrivalInv

(* The message and its fields stay.                                        *)
LEMMA SameMessage ==
    ASSUME UNCHANGED <<message, taken>>, out'.max = out.max, NEW k
    PROVE  Inserted(k)' <=> Inserted(k)
  BY DEF Inserted

(* The priority is inserted, unless it is 0.                               *)
LEMMA ArrivalPrioritized == ASSUME BufferInv, ArrivalInv, SerializePriority PROVE ArrivalInv'
<1>0. PICK n : n = Len(taken)
  OBVIOUS
<1>1. /\ phase = "serialize" /\ phase' = "send"
      /\ out' = IF message.priority # 0 THEN Insert(out, "int", message.priority) ELSE out
      /\ UNCHANGED <<transport, beyond, message, taken, in, stream, fromStart, id, got, priority>>
  BY DEF SerializePriority
<1>2. message.priority # 0 => OfType("int", message.priority) /\ Valid("int", message.priority)
  BY <1>1, ValuesAssumption DEF BufferInv, Steady, Valid
<1>3. /\ out' \in BufferType /\ Grows(out, out') /\ out'.max = out.max
      /\ out'.insert >= out.insert /\ out'.insert \in Nat
      /\ out \in BufferType /\ out.insert \in Nat
  <2>1. out \in BufferType /\ out.insert \in Nat
    BY BuffersAre
  <2>2. CASE message.priority = 0
    <3>1. Grows(out, out)
      BY <2>1 DEF Grows, SameBuffer
    <3> QED BY <1>1, <2>1, <2>2, <3>1
  <2>3. CASE message.priority # 0
    <3>1. "int" \in Types
      BY DEF Types, NumberTypes
    <3>2. /\ out' \in BufferType /\ Grows(out, out') /\ out'.max = out.max
          /\ out'.insert >= out.insert
      BY <1>1, <1>2, <2>3, <3>1, OutIsInserted
    <3> QED BY <2>1, <3>2 DEF BufferType
  <2> QED BY <2>2, <2>3
<1>4. n \in Nat /\ DOMAIN taken = 1 .. n /\ EndOf(n) \in Nat
      /\ \A k \in DOMAIN taken : taken[k] \in Nat
  BY <1>0, FieldsSoFar, EndsAre
<1>5. \A k : Inserted(k)' <=> Inserted(k)
  BY <1>1, <1>3, SameMessage
<1>6. IdWritten'
  <2> SUFFICES ASSUME ShortSize <= out.max
               PROVE  Stored(out', "short", message.id, 0, ShortSize) /\ ShortSize <= out'.insert
    BY <1>1, <1>3 DEF IdWritten
  <2>1. Stored(out, "short", message.id, 0, ShortSize) /\ ShortSize <= out.insert
    BY <1>1 DEF ArrivalInv, IdWritten, Sending
  <2> QED BY <1>3, <2>1, StoredBefore DEF ShortSize
<1>7. FieldsWritten'
  <2> SUFFICES ASSUME NEW k \in DOMAIN taken, Inserted(k)
               PROVE  /\ Stored(out', Layout[message.id][k], message.fields[k], EndOf(k - 1), taken[k])
                      /\ taken[k] <= out'.insert
    BY <1>1, <1>5 DEF FieldsWritten, StoredField, EndOf
  <2>1. StoredField(out, k) /\ taken[k] <= out.insert
    BY <1>1 DEF ArrivalInv, FieldsWritten, Sending
  <2>2. Stored(out', Layout[message.id][k], message.fields[k], EndOf(k - 1), taken[k])
    BY <1>3, <2>1, StoredBefore DEF StoredField
  <2> QED BY <1>3, <1>4, <2>1, <2>2
<1>8. EndWritten'
  BY <1>1 DEF EndWritten
<1>9. PriorityWritten'
  <2> DEFINE e == EndOf(n)
             p == message.priority
  <2> SUFFICES ASSUME Inserted(n), e + Rest <= out.max
               PROVE  /\ out'.insert = e + Rest
                      /\ p # 0 => Stored(out', "int", p, e, e + IntSize)
    <3> HIDE DEF Rest
    <3>1. Rest' = Rest
      BY <1>1 DEF Rest
    <3>2. EndOf(n)' = EndOf(n)
      BY <1>1 DEF EndOf
    <3> QED BY <1>0, <1>1, <1>3, <1>5, <3>1, <3>2 DEF PriorityWritten, StoredRest
  <2>1. out.insert = e
    BY <1>0, <1>1 DEF ArrivalInv, EndWritten
  <2>2. CASE p = 0
    BY <1>1, <1>4, <2>1, <2>2 DEF Rest
  <2>3. CASE p # 0
    <3>1. Rest = IntSize /\ Width("int") = IntSize
      BY <2>3 DEF Rest, Width
    <3>2. out.max <= Arena
      <4>1. /\ out.max \in Nat /\ Arena \in Nat
            /\ out.max + Overrun + 3 * Byte + 6 * IntSize <= Arena
        BY BuffersAre
      <4> QED BY <4>1, ByteAssumption DEF Overrun, IntSize
    <3>3. /\ out'.insert = out.insert + Width("int")
          /\ Stored(out', "int", p, out.insert, out.insert + Width("int"))
      <4> HIDE DEF p, e
      <4>1. out' = Insert(out, "int", p) /\ OfType("int", p)
        BY <1>1, <1>2, <2>3 DEF p
      <4>2. out.insert + Width("int") <= out.max
        BY <2>1, <3>1 DEF e
      <4> QED BY <1>3, <3>2, <4>1, <4>2, NumberFits
    <3> QED BY <2>1, <3>1, <3>3
  <2> QED BY <2>2, <2>3
<1>10. ~ Receiving' /\ phase' = "send"
  BY <1>1 DEF Receiving
<1>11. IdArrived' /\ FieldsStored' /\ FieldIsNext' /\ PriorityStored'
  <2> HIDE DEF Receiving
  <2> QED BY <1>10 DEF IdArrived, FieldsStored, FieldIsNext, PriorityStored
<1>12. AcceptedArrive'
  <2>1. got' = <<>>
    BY <1>1 DEF BufferInv, Steady
  <2>2. DOMAIN got' = {}
    BY <2>1
  <2> QED BY <1>10, <2>2 DEF AcceptedArrive, FieldsArrive, PriorityArrives
<1> QED BY <1>6, <1>7, <1>8, <1>9, <1>11, <1>12 DEF ArrivalInv

(* What arrives of the buffer of the pool is stored in that of the mailbox. *)
LEMMA Transfer ==
    ASSUME BufferInv, NEW type, NEW v, NEW i, NEW j, Stored(out, type, v, i, j),
           j <= out.insert, j <= MaxLength, NEW d, d.mem = ReceivedBytes(out.insert),
           BigEndian(d) = BigEndian(out)
    PROVE  Stored(d, type, v, i, j)
<1>1. i \in Nat /\ j \in Nat /\ j <= Arena
  BY DEF Stored
<1>2. out.insert \in Nat /\ MaxLength \in Nat /\ Arena \in Nat
  BY BuffersAre
<1>3. ASSUME NEW x \in i .. j - 1 PROVE d.mem[x] = out.mem[x]
  <2>1. x \in 0 .. Arena - 1 /\ x < out.insert /\ x < MaxLength
    BY <1>1, <1>2
  <2>2. ReceivedBytes(out.insert)[x] = out.mem[x]
    BY <1>2, <2>1, ReceivedIs
  <2> QED BY <2>2
<1> QED BY <1>3, StoredIsKept

(* The message arrives in the buffer of the mailbox.                       *)
LEMMA ArrivalReceived ==
    ASSUME BufferInv, ArrivalInv, SendOnConnection \/ PassInSharedMemory
    PROVE  ArrivalInv'
<1>1. /\ phase = "send" /\ phase' = "recreate"
      /\ UNCHANGED <<transport, beyond, message, taken, fromStart, id, got, priority>>
      /\ out' = ClearBuffer(out)
  BY DEF SendOnConnection, PassInSharedMemory
<1>2. PICK n \in Nat : n = out.insert
  BY BuffersAre
<1> DEFINE m == IF n <= MaxLength THEN n ELSE MaxLength
<1>3. /\ in' \in BufferType /\ in'.mem = ReceivedBytes(out.insert)
      /\ in'.network = in.network /\ in'.host = in.host /\ in'.deserialize = in.deserialize
      /\ in'.insert \in {n, m}
      /\ transport = "connection" => in'.insert = m
  <2>1. in \in BufferType /\ MaxLength \in Nat
    BY BuffersAre
  <2>2. ReceivedBytes(n) \in [0 .. Arena - 1 -> 0 .. Byte - 1] /\ Min({n, MaxLength}) = m
    BY ReceivedIs
  <2>3. m \in Nat
    BY <2>1
  <2> HIDE DEF m
  <2>4. CASE SendOnConnection
    <3>1. in' = [in EXCEPT !.mem = ReceivedBytes(n), !.insert = m]
      BY <1>2, <2>2, <2>4 DEF SendOnConnection
    <3>2. Holding(in', ReceivedBytes(n), m, in.max)
      BY <2>1, <2>2, <2>3, <3>1, ReceivingIs
    <3> QED BY <1>2, <3>2 DEF Holding
  <2>5. CASE PassInSharedMemory
    <3>1. in' = [in EXCEPT !.mem = ReceivedBytes(n), !.insert = n, !.max = n]
          /\ transport # "connection"
      BY <1>2, <2>5 DEF PassInSharedMemory
    <3>2. Holding(in', ReceivedBytes(n), n, n)
      BY <2>1, <2>2, <3>1, ReceivingIs
    <3> QED BY <1>2, <3>1, <3>2 DEF Holding
  <2> QED BY <2>4, <2>5
<1>4. out'.max = out.max /\ out'.network = out.network /\ out'.host = out.host
  <2>1. Cleared(out, out')
    BY <1>1, BuffersAre, ClearIs
  <2> QED BY <2>1 DEF Cleared
<1>5. BigEndian(in') = BigEndian(in) /\ BigEndian(out') = BigEndian(out)
  BY <1>3, <1>4 DEF BigEndian
<1>6. OrdersAgree' => BigEndian(in') = BigEndian(out)
  BY <1>5 DEF OrdersAgree
<1>7. \A k : Inserted(k)' <=> Inserted(k)
  BY <1>1, <1>4, SameMessage
<1>8. MaxLength \in Nat /\ ShortSize <= MaxLength
  BY SizesAssumption
<1>9. ASSUME NEW j \in Nat, j <= out.insert, j <= MaxLength PROVE j <= in'.insert
  BY <1>2, <1>3, <1>8, <1>9
<1> HIDE DEF m
<1>10. IdWritten' /\ FieldsWritten' /\ EndWritten' /\ PriorityWritten'
  <2>1. ~ Sending' /\ phase' = "recreate"
    BY <1>1 DEF Sending
  <2> HIDE DEF Sending
  <2> QED BY <2>1 DEF IdWritten, FieldsWritten, EndWritten, PriorityWritten
<1>11. IdArrived'
  <2> SUFFICES ASSUME Receiving'
               PROVE  ShortSize <= in'.insert /\ Stored(in', "short", message.id, 0, ShortSize)
    BY <1>1 DEF IdArrived
  <2>1. ShortSize <= out.max /\ OrdersAgree'
    BY <1>4 DEF Receiving
  <2>2. Stored(out, "short", message.id, 0, ShortSize) /\ ShortSize <= out.insert
    BY <1>1, <2>1 DEF ArrivalInv, IdWritten, Sending
  <2>3. Stored(in', "short", message.id, 0, ShortSize)
    BY <1>3, <1>6, <1>8, <2>1, <2>2, Transfer
  <2>4. ShortSize <= in'.insert
    BY <1>8, <1>9, <2>2 DEF ShortSize
  <2> QED BY <2>3, <2>4
<1>12. FieldsStored'
  <2> SUFFICES ASSUME NEW k \in DOMAIN taken, Receiving', Inserted(k), taken[k] <= MaxLength
               PROVE  /\ Stored(in', Layout[message.id][k], message.fields[k], EndOf(k - 1), taken[k])
                      /\ taken[k] <= in'.insert
    BY <1>1, <1>7 DEF FieldsStored, StoredField, EndOf
  <2>1. StoredField(out, k) /\ taken[k] <= out.insert
    BY <1>1 DEF ArrivalInv, FieldsWritten, Sending
  <2>2. OrdersAgree'
    BY DEF Receiving
  <2>3. Stored(in', Layout[message.id][k], message.fields[k], EndOf(k - 1), taken[k])
    BY <1>3, <1>6, <2>1, <2>2, Transfer DEF StoredField
  <2>4. taken[k] \in Nat
    BY FieldsSoFar
  <2> QED BY <1>9, <2>1, <2>3, <2>4
<1>13. FieldIsNext'
  BY <1>1 DEF FieldIsNext
<1>14. PriorityStored'
  <2>0. PICK l : l = Len(taken)
    OBVIOUS
  <2> DEFINE e == EndOf(l)
             p == message.priority
             r == Rest
  <2> SUFFICES ASSUME Receiving', transport = "connection", Inserted(l),
                      e + r <= Min({out.max, MaxLength})
               PROVE  /\ in'.insert = e + r
                      /\ p # 0 => Stored(in', "int", p, e, e + IntSize)
    <3>1. Rest' = Rest
      BY <1>1 DEF Rest
    <3>2. EndOf(l)' = EndOf(l)
      BY <1>1 DEF EndOf
    <3> HIDE DEF Receiving
    <3> QED BY <1>1, <1>4, <1>7, <2>0, <3>1, <3>2 DEF PriorityStored, StoredRest
  <2>1. e \in Nat /\ r \in Nat /\ out.max \in Nat /\ (p # 0 => r = IntSize)
    <3>1. l \in 0 .. Len(taken)
      BY <2>0, FieldsSoFar
    <3>2. e \in Nat
      BY <3>1, EndsAre
    <3> QED BY <3>2, BuffersAre DEF Rest, IntSize
  <2> HIDE DEF e, r, p
  <2>2. e + r <= out.max /\ e + r <= MaxLength
    <3>1. Min({out.max, MaxLength}) = IF out.max <= MaxLength THEN out.max ELSE MaxLength
      BY <2>1, ReceivedIs
    <3> QED BY <1>8, <2>1, <3>1
  <2>3. StoredRest(out, l)
    BY <1>1, <2>0, <2>2 DEF ArrivalInv, PriorityWritten, e, r
  <2>4. out.insert = e + r /\ (p # 0 => Stored(out, "int", p, e, e + IntSize))
    BY <2>3 DEF StoredRest, e, r, p
  <2>5. in'.insert = e + r
    BY <1>2, <1>3, <2>2, <2>4 DEF m
  <2>6. ASSUME p # 0 PROVE Stored(in', "int", p, e, e + IntSize)
    <3>1. OrdersAgree'
      BY DEF Receiving
    <3>2. e + IntSize <= out.insert /\ e + IntSize <= MaxLength
      BY <2>1, <2>2, <2>4, <2>6 DEF IntSize
    <3> QED BY <1>3, <1>6, <2>4, <2>6, <3>1, <3>2, Transfer
  <2> QED BY <2>5, <2>6
<1>15. AcceptedArrive'
  <2>1. got' = <<>>
    BY <1>1 DEF BufferInv, Steady
  <2>2. DOMAIN got' = {}
    BY <2>1
  <2> QED BY <1>1, <2>2 DEF AcceptedArrive, FieldsArrive, PriorityArrives
<1> QED BY <1>10, <1>11, <1>12, <1>13, <1>14, <1>15 DEF ArrivalInv

(* Nothing was inserted, and nothing is sent.                              *)
LEMMA ArrivalFailed == ASSUME BufferInv, ArrivalInv, PostFails PROVE ArrivalInv'
<1>1. /\ phase = "send" /\ phase' = "done" /\ out.insert = 0
      /\ out' = ClearBuffer(out)
      /\ UNCHANGED <<transport, beyond, message, taken, in, stream, fromStart, id, got, priority>>
  BY DEF PostFails
<1>2. out'.max = out.max
  <2>1. Cleared(out, out')
    BY <1>1, BuffersAre, ClearIs
  <2> QED BY <2>1 DEF Cleared
<1>3. ~ (ShortSize <= out.max)
  <2>1. ShortSize <= out.max => ShortSize <= out.insert
    BY <1>1 DEF ArrivalInv, IdWritten, Sending
  <2> QED BY <1>1, <2>1 DEF ShortSize
<1>4. ~ Receiving' /\ (\A k : ~ Inserted(k)') /\ phase' = "done"
  BY <1>1, <1>2, <1>3 DEF Receiving, Inserted
<1>5. IdWritten' /\ FieldsWritten' /\ EndWritten' /\ PriorityWritten'
  <2>1. ~ Sending' /\ phase' = "done"
    BY <1>1 DEF Sending
  <2> HIDE DEF Sending, Receiving
  <2> QED BY <2>1 DEF IdWritten, FieldsWritten, EndWritten, PriorityWritten
<1>6. IdArrived' /\ FieldsStored' /\ FieldIsNext' /\ PriorityStored'
  <2> HIDE DEF Receiving
  <2> QED BY <1>4 DEF IdArrived, FieldsStored, FieldIsNext, PriorityStored
<1>7. AcceptedArrive'
  BY <1>4 DEF AcceptedArrive, FieldsArrive, PriorityArrives
<1> QED BY <1>5, <1>6, <1>7 DEF ArrivalInv

(* A field is where the one before it ends, and it reached the mailbox.    *)
LEMMA FieldIsRead ==
    ASSUME BufferInv, ArrivalInv, phase = "read", fromStart, OrdersAgree, NEW k \in Nat,
           Len(got) = k, Inserted(k + 1), taken[k + 1] <= MaxLength
    PROVE  Extract(in, Layout[id][k + 1]) =
               [value |-> Get(message.fields[k + 1]), next |-> taken[k + 1]]
<1> DEFINE l == k + 1
           type == Layout[message.id][l]
<1>1. Receiving /\ id = message.id
  <2>1. Receiving
    BY DEF Receiving, Inserted
  <2> HIDE DEF Receiving
  <2> QED BY <2>1 DEF ArrivalInv, IdArrived
<1>2. l \in DOMAIN taken /\ l - 1 = k /\ l \in 1 .. Len(taken) /\ k \in 0 .. Len(taken)
  <2>1. l <= Len(taken) /\ Len(taken) \in Nat /\ DOMAIN taken = 1 .. Len(taken)
    BY FieldsSoFar DEF Inserted
  <2> QED BY <2>1
<1>3. Inserted(k)
  <2>1. \A i \in 1 .. k : i \in 1 .. l
    OBVIOUS
  <2>2. k <= Len(taken)
    BY <1>2, FieldsSoFar
  <2> QED BY <2>1, <2>2 DEF Inserted
<1> HIDE DEF l
<1>4. StoredField(in, l) /\ taken[l] <= in.insert
  <2>1. Inserted(l) /\ taken[l] <= MaxLength
    BY DEF l
  <2> HIDE DEF Receiving
  <2> QED BY <1>1, <1>2, <2>1 DEF ArrivalInv, FieldsStored
<1>5. Stored(in, type, message.fields[l], EndOf(k), taken[l])
  BY <1>2, <1>4 DEF StoredField
<1>6. EndOf(k) < taken[l] /\ taken[l] \in Nat /\ EndOf(k) \in Nat /\ MaxLength \in Nat
  BY <1>2, <1>5, FieldsSoFar, BuffersAre DEF Stored
<1>7. EndOf(k) <= MaxLength
  BY <1>6 DEF l
<1>8. in.deserialize = EndOf(k)
  <2> HIDE DEF Receiving
  <2> QED BY <1>1, <1>3, <1>7 DEF ArrivalInv, FieldIsNext
<1>9. in \in BufferType /\ in.insert \in Nat /\ in.max \in Nat /\ in.insert <= in.max
  BY BuffersAre
<1>10. taken[l] <= in.max
  BY <1>4, <1>6, <1>9
<1>11. type \in Types
  BY <1>2, FieldsSoFar
<1> HIDE DEF type
<1>12. Extract(in, type) = [value |-> Get(message.fields[l]), next |-> taken[l]]
  <2> DEFINE v == message.fields[l]
             j == taken[l]
  <2>1. Stored(in, type, v, in.deserialize, j) /\ j <= in.insert /\ j <= in.max
    BY <1>4, <1>5, <1>8, <1>10
  <2> HIDE DEF v, j
  <2>2. Extract(in, type) = [value |-> Get(v), next |-> j]
    BY <1>9, <1>11, <2>1, ExtractStored
  <2> QED BY <2>2 DEF v, j
<1> QED BY <1>1, <1>12 DEF type, l

(* A deserialization leaves what is stored in the buffer.                  *)
LEMMA StoredStays ==
    ASSUME NEW type, NEW v, NEW i, NEW j, Stored(in, type, v, i, j),
           NEW next, Moved(in, in', next)
    PROVE  Stored(in', type, v, i, j)
<1>1. in'.mem = in.mem /\ BigEndian(in') = BigEndian(in)
  BY DEF Moved, BigEndian
<1> QED BY <1>1, StoredIsKept

(* What a deserialization leaves of the invariant, whatever it reads.      *)
LEMMA ArrivalWhileReading ==
    ASSUME BufferInv, ArrivalInv, NEW next, Moved(in, in', next),
           UNCHANGED <<transport, message, taken, out, fromStart>>,
           phase \in {"recreate", "read"}, phase' \in {"read", "done"}
    PROVE  /\ IdWritten' /\ FieldsWritten' /\ EndWritten' /\ PriorityWritten'
           /\ FieldsStored' /\ PriorityStored'
           /\ Receiving' <=> Receiving
           /\ OrdersAgree' <=> OrdersAgree
           /\ \A k : Inserted(k)' <=> Inserted(k)
           /\ \A k : EndOf(k)' = EndOf(k)
           /\ in'.insert = in.insert
<1>1. /\ in'.mem = in.mem /\ in'.insert = in.insert /\ in'.max = in.max
      /\ BigEndian(in') = BigEndian(in)
  BY DEF Moved, BigEndian
<1>2. OrdersAgree' <=> OrdersAgree
  BY <1>1 DEF OrdersAgree
<1>3. Receiving' <=> Receiving
  BY <1>2 DEF Receiving
<1>4. \A k : Inserted(k)' <=> Inserted(k)
  BY SameMessage
<1>5. \A k : EndOf(k)' = EndOf(k)
  BY DEF EndOf
<1>6. Rest' = Rest
  BY DEF Rest
<1>7. ~ Sending' /\ phase' # "serialize" /\ phase' # "send"
  BY DEF Sending
<1>8. IdWritten' /\ FieldsWritten' /\ EndWritten' /\ PriorityWritten'
  <2> HIDE DEF Sending
  <2> QED BY <1>7 DEF IdWritten, FieldsWritten, EndWritten, PriorityWritten
<1> HIDE DEF Receiving, Sending
<1>9. FieldsStored'
  <2> SUFFICES ASSUME NEW k \in DOMAIN taken, Receiving, Inserted(k), taken[k] <= MaxLength
               PROVE  /\ Stored(in', Layout[message.id][k], message.fields[k], EndOf(k - 1), taken[k])
                      /\ taken[k] <= in'.insert
    BY <1>3, <1>4, <1>5 DEF FieldsStored, StoredField
  <2>1. StoredField(in, k) /\ taken[k] <= in.insert
    BY DEF ArrivalInv, FieldsStored
  <2> QED BY <1>1, <2>1, StoredStays DEF StoredField
<1>10. PriorityStored'
  <2>0. PICK l : l = Len(taken)
    OBVIOUS
  <2> SUFFICES ASSUME Receiving, phase # "done", transport = "connection", Inserted(l),
                      EndOf(l) + Rest <= Min({out.max, MaxLength})
               PROVE  /\ in'.insert = EndOf(l) + Rest
                      /\ message.priority # 0 =>
                             Stored(in', "int", message.priority, EndOf(l), EndOf(l) + IntSize)
    BY <1>3, <1>4, <1>5, <1>6, <2>0 DEF PriorityStored, StoredRest
  <2>1. StoredRest(in, l)
    BY <2>0 DEF ArrivalInv, PriorityStored
  <2> QED BY <1>1, <2>1, StoredStays DEF StoredRest
<1> QED BY <1>1, <1>2, <1>3, <1>4, <1>5, <1>8, <1>9, <1>10

(* The message id is read.                                                 *)
LEMMA ArrivalRecreated == ASSUME BufferInv, ArrivalInv, RecreateMessage PROVE ArrivalInv'
<1> DEFINE r == Extract(in, "short")
<1>1. /\ phase = "recreate" /\ phase' \in {"read", "done"}
      /\ phase' = "done" => id' \notin Registered
      /\ id' = IF r.value.ok THEN r.value.value ELSE 0
      /\ in' = [in EXCEPT !.deserialize = r.next]
      /\ UNCHANGED <<transport, beyond, message, taken, out, stream, fromStart, got, priority>>
  BY DEF RecreateMessage
<1>2. Moved(in, in', r.next) /\ "short" \in Types
  <2>1. "short" \in Types
    BY DEF Types, NumberTypes
  <2> QED BY <1>1, <2>1, ReadingKeeps
<1> HIDE DEF r
<1>3. /\ IdWritten' /\ FieldsWritten' /\ EndWritten' /\ PriorityWritten'
      /\ FieldsStored' /\ PriorityStored'
      /\ Receiving' <=> Receiving
      /\ \A k : Inserted(k)' <=> Inserted(k)
      /\ in'.insert = in.insert
  BY <1>1, <1>2, ArrivalWhileReading
<1>4. ASSUME Receiving
      PROVE  r = [value |-> Get(message.id), next |-> ShortSize] /\ ShortSize <= in.insert
  <2>1. ShortSize <= in.insert /\ Stored(in, "short", message.id, 0, ShortSize)
    <3> HIDE DEF Receiving
    <3> QED BY <1>1, <1>4 DEF ArrivalInv, IdArrived
  <2>2. in.deserialize = 0
    BY <1>1 DEF BufferInv, Steady
  <2>3. in \in BufferType /\ ShortSize <= in.max
    BY <2>1, BuffersAre DEF ShortSize
  <2> QED BY <1>2, <2>1, <2>2, <2>3, ExtractStored DEF r
<1>5. IdArrived'
  <2> SUFFICES ASSUME Receiving PROVE ShortSize <= in'.insert /\ id' = message.id
    <3> HIDE DEF Receiving
    <3> QED BY <1>1, <1>3 DEF IdArrived
  <2> HIDE DEF Receiving
  <2> QED BY <1>1, <1>3, <1>4 DEF Get
<1>6. got = <<>> /\ Len(got) = 0 /\ DOMAIN got = {}
  BY <1>1 DEF BufferInv, Steady
<1>7. FieldIsNext'
  <2> SUFFICES ASSUME Receiving PROVE in'.deserialize = ShortSize
    <3>1. Len(got') = 0
      BY <1>1, <1>6
    <3> HIDE DEF Receiving
    <3> QED BY <1>3, <3>1 DEF FieldIsNext, EndOf
  <2>1. in'.deserialize = r.next
    BY <1>2 DEF Moved
  <2> QED BY <1>4, <2>1
<1>8. AcceptedArrive'
  <2>1. DOMAIN got' = {}
    BY <1>1, <1>6
  <2> QED BY <1>1, <2>1 DEF AcceptedArrive, FieldsArrive, PriorityArrives
<1> QED BY <1>3, <1>5, <1>7, <1>8 DEF ArrivalInv

(* A field is read.                                                        *)
LEMMA ArrivalDeserialized == ASSUME BufferInv, ArrivalInv, Deserialize PROVE ArrivalInv'
<1>0. PICK n : n = Len(got)
  OBVIOUS
<1> DEFINE type == Layout[id][n + 1]
           r == Extract(in, type)
<1>1. /\ phase = "read" /\ phase' = "read" /\ n < Len(Layout[id])
      /\ got' = Append(got, r.value)
      /\ in' = [in EXCEPT !.deserialize = r.next]
      /\ UNCHANGED <<transport, beyond, message, taken, out, stream, fromStart, id, priority>>
  BY <1>0 DEF Deserialize
<1>2. n \in Nat /\ DOMAIN got = 1 .. n /\ IsSequence(got) /\ id \in Registered
  BY <1>0, <1>1, FieldsSoFar DEF BufferInv, Steady
<1>3. type \in Types
  <2>1. n + 1 \in 1 .. Len(Layout[id])
    BY <1>1, <1>2, LayoutsAre, LayoutAssumption
  <2> QED BY <1>2, <2>1, LayoutsAre, LayoutAssumption
<1>4. Moved(in, in', r.next)
  BY <1>1, <1>3, ReadingKeeps
<1>5. /\ DOMAIN got' = 1 .. n + 1 /\ Len(got') = n + 1 /\ got'[n + 1] = r.value
      /\ \A k \in 1 .. n : got'[k] = got[k]
  <2> HIDE DEF r
  <2> QED BY <1>0, <1>1, <1>2, AppendIs
<1>6. /\ IdWritten' /\ FieldsWritten' /\ EndWritten' /\ PriorityWritten'
      /\ FieldsStored' /\ PriorityStored'
      /\ Receiving' <=> Receiving
      /\ OrdersAgree' <=> OrdersAgree
      /\ \A k : Inserted(k)' <=> Inserted(k)
      /\ \A k : EndOf(k)' = EndOf(k)
      /\ in'.insert = in.insert
  <2> HIDE DEF r
  <2> QED BY <1>1, <1>4, ArrivalWhileReading
<1>7. ASSUME fromStart, OrdersAgree, Inserted(n + 1), taken[n + 1] <= MaxLength
      PROVE  r = [value |-> Get(message.fields[n + 1]), next |-> taken[n + 1]]
  BY <1>0, <1>1, <1>2, <1>7, FieldIsRead
<1> HIDE DEF r, type
<1>8. IdArrived'
  <2> HIDE DEF Receiving
  <2> QED BY <1>1, <1>6 DEF ArrivalInv, IdArrived
<1>9. FieldIsNext'
  <2> SUFFICES ASSUME Receiving, Inserted(n + 1), EndOf(n + 1) <= MaxLength
               PROVE  in'.deserialize = EndOf(n + 1)
    <3> HIDE DEF Receiving
    <3> QED BY <1>5, <1>6 DEF FieldIsNext
  <2>1. EndOf(n + 1) = taken[n + 1]
    BY <1>2 DEF EndOf
  <2>2. r.next = taken[n + 1]
    BY <1>7, <2>1 DEF Receiving
  <2> QED BY <1>4, <2>1, <2>2 DEF Moved
<1>10. FieldsArrive'
  <2> SUFFICES ASSUME NEW k \in 1 .. n + 1, fromStart, Inserted(k), taken[k] <= MaxLength,
                      OrdersAgree
               PROVE  got'[k] = Get(message.fields[k])
    BY <1>1, <1>5, <1>6 DEF FieldsArrive
  <2>1. CASE k \in 1 .. n
    BY <1>2, <1>5, <2>1 DEF ArrivalInv, AcceptedArrive, FieldsArrive
  <2>2. CASE k = n + 1
    BY <1>5, <1>7, <2>2
  <2> QED BY <1>2, <2>1, <2>2
<1>11. AcceptedArrive'
  BY <1>1, <1>10 DEF AcceptedArrive, PriorityArrives
<1> QED BY <1>6, <1>8, <1>9, <1>11 DEF ArrivalInv

(* What is left is the priority.                                           *)
LEMMA ArrivalDone == ASSUME BufferInv, ArrivalInv, DeserializePriority PROVE ArrivalInv'
<1>0. PICK n : n = Len(taken)
  OBVIOUS
<1> DEFINE r == Extract(in, "int")
<1>1. /\ phase = "read" /\ phase' = "done" /\ Len(got) = Len(Layout[id])
      /\ IF transport = "connection" /\ ~ AreContentsProcessed(in)
         THEN /\ priority' = IF r.value.ok THEN r.value.value ELSE 0
              /\ in' = [in EXCEPT !.deserialize = r.next]
         ELSE UNCHANGED <<priority, in>>
      /\ UNCHANGED <<transport, beyond, message, taken, out, stream, fromStart, id, got>>
  BY DEF DeserializePriority
<1>2. in \in BufferType /\ in.deserialize \in Nat
  BY BuffersAre DEF BufferType
<1>3. \E next : Moved(in, in', next)
  <2>1. CASE in' = in
    <3>1. Moved(in, in', in.deserialize)
      BY <1>2, <2>1 DEF Moved
    <3> QED BY <3>1
  <2>2. CASE in' = [in EXCEPT !.deserialize = r.next]
    <3>1. "int" \in Types
      BY DEF Types, NumberTypes
    <3>2. Moved(in, in', r.next)
      BY <2>2, <3>1, ReadingKeeps
    <3> QED BY <3>2
  <2> QED BY <1>1, <2>1, <2>2
<1> HIDE DEF r
<1>4. /\ IdWritten' /\ FieldsWritten' /\ EndWritten' /\ PriorityWritten'
      /\ FieldsStored' /\ PriorityStored'
      /\ Receiving' <=> Receiving
      /\ OrdersAgree' <=> OrdersAgree
      /\ \A k : Inserted(k)' <=> Inserted(k)
      /\ \A k : EndOf(k)' = EndOf(k)
      /\ in'.insert = in.insert
  BY <1>1, <1>3, ArrivalWhileReading
<1>5. IdArrived'
  <2> HIDE DEF Receiving
  <2> QED BY <1>1, <1>4 DEF ArrivalInv, IdArrived
<1>6. FieldIsNext'
  BY <1>1 DEF FieldIsNext
<1>7. FieldsArrive'
  BY <1>1, <1>4 DEF ArrivalInv, AcceptedArrive, FieldsArrive
<1>8. PriorityArrives'
  <2> DEFINE e == EndOf(n)
             p == message.priority
  <2>0. Len(message.fields) = n /\ n \in Nat
    BY <1>0, FieldsSoFar
  <2> SUFFICES ASSUME fromStart, transport = "connection", OrdersAgree, id \in Registered, Inserted(n),
                      e + Rest <= Min({out.max, MaxLength})
               PROVE  in'.deserialize = in.insert /\ priority' = p
    <3> SUFFICES ASSUME fromStart, transport = "connection", OrdersAgree, id \in Registered, Inserted(n),
                        (IF taken = <<>> THEN ShortSize ELSE taken[Len(taken)])
                            + (IF p # 0 THEN IntSize ELSE 0) <= Min({out.max, MaxLength})
                 PROVE  in'.deserialize = in.insert /\ priority' = p
      BY <1>1, <1>4, <2>0 DEF PriorityArrives, AreContentsProcessed
    <3>1. (IF taken = <<>> THEN ShortSize ELSE taken[Len(taken)]) = e
      <4>1. taken = <<>> <=> n = 0
        BY <1>0, FieldsSoFar
      <4> QED BY <1>0, <4>1 DEF EndOf
    <3>2. (IF p # 0 THEN IntSize ELSE 0) = Rest
      BY DEF Rest
    <3> QED BY <3>1, <3>2
  <2>1. Receiving
    BY <1>1 DEF Receiving, Inserted
  <2> HIDE DEF Receiving
  <2>2. id = message.id
    BY <1>1, <2>1 DEF ArrivalInv, IdArrived
  <2>3. Len(got) = n
    BY <1>0, <1>1, <2>2 DEF BufferInv, Steady
  <2>4. e \in Nat /\ Rest \in Nat /\ e <= MaxLength /\ e + Rest <= MaxLength /\ MaxLength \in Nat
    <3>1. n \in 0 .. Len(taken)
      BY <1>0, <2>0
    <3>2. e \in Nat
      BY <3>1, EndsAre
    <3>3. Rest \in Nat
      BY DEF Rest, IntSize
    <3>4. out.max \in Nat /\ MaxLength \in Nat
      BY BuffersAre
    <3>5. Min({out.max, MaxLength}) = IF out.max <= MaxLength THEN out.max ELSE MaxLength
      BY <3>4, ReceivedIs
    <3> HIDE DEF e
    <3> QED BY <3>2, <3>3, <3>4, <3>5
  <2>5. in.deserialize = e
    BY <1>1, <2>1, <2>3, <2>4 DEF ArrivalInv, FieldIsNext
  <2>6. StoredRest(in, n)
    BY <1>0, <1>1, <2>1 DEF ArrivalInv, PriorityStored
  <2> HIDE DEF e, p
  <2>7. in.insert = e + Rest /\ (p # 0 => Stored(in, "int", p, e, e + IntSize))
    BY <2>6 DEF StoredRest, e, p
  <2>8. CASE p = 0
    <3>1. AreContentsProcessed(in)
      BY <2>4, <2>5, <2>7, <2>8 DEF AreContentsProcessed, Rest, p
    <3>2. priority = 0
      BY <1>1 DEF BufferInv, Steady
    <3> QED BY <1>1, <2>8, <3>1, <3>2 DEF AreContentsProcessed
  <2>9. CASE p # 0
    <3>1. Rest = IntSize
      BY <2>9 DEF Rest, p
    <3>2. ~ AreContentsProcessed(in)
      BY <2>4, <2>5, <2>7, <3>1 DEF AreContentsProcessed, IntSize
    <3>3. r = [value |-> Get(p), next |-> e + IntSize]
      <4>1. "int" \in Types
        BY DEF Types, NumberTypes
      <4>2. in.max = MaxLength
        BY DEF BufferInv, Steady
      <4>3. e + IntSize <= in.insert /\ e + IntSize <= in.max
        BY <2>4, <2>7, <3>1, <4>2 DEF IntSize
      <4> QED BY <1>2, <2>5, <2>7, <2>9, <4>1, <4>3, ExtractStored DEF r
    <3>4. priority' = p /\ in' = [in EXCEPT !.deserialize = r.next]
      BY <1>1, <3>2, <3>3 DEF Get
    <3>5. in'.deserialize = e + IntSize
      <4>1. e + IntSize \in Nat
        BY <2>4 DEF IntSize
      <4>2. in' = [in EXCEPT !.deserialize = e + IntSize]
        BY <3>3, <3>4
      <4>3. Moved(in, in', e + IntSize)
        BY <1>2, <4>1, <4>2, MoveIs
      <4> QED BY <4>3 DEF Moved
    <3> QED BY <2>7, <3>1, <3>4, <3>5
  <2> QED BY <2>8, <2>9
<1> QED BY <1>4, <1>5, <1>6, <1>7, <1>8 DEF ArrivalInv, AcceptedArrive

(* The next message.                                                       *)
LEMMA ArrivalNext == ASSUME BufferInv, ArrivalInv, NextMessage PROVE ArrivalInv'
<1>1. phase' = "idle" /\ taken' = <<>> /\ got' = <<>>
  BY DEF NextMessage
<1>2. DOMAIN taken' = {} /\ DOMAIN got' = {} /\ ~ Sending' /\ ~ Receiving'
  BY <1>1 DEF Sending, Receiving
<1> HIDE DEF Sending, Receiving
<1>3. IdWritten' /\ FieldsWritten' /\ EndWritten' /\ PriorityWritten'
  BY <1>1, <1>2 DEF IdWritten, FieldsWritten, EndWritten, PriorityWritten
<1>4. IdArrived' /\ FieldsStored' /\ FieldIsNext' /\ PriorityStored'
  BY <1>1, <1>2 DEF IdArrived, FieldsStored, FieldIsNext, PriorityStored
<1>5. AcceptedArrive'
  BY <1>1, <1>2 DEF AcceptedArrive, FieldsArrive, PriorityArrives
<1> QED BY <1>3, <1>4, <1>5 DEF ArrivalInv

(* What is left of a message is read.                                      *)
LEMMA ArrivalRest == ASSUME BufferInv, ArrivalInv, ReadRest PROVE ArrivalInv'
<1>1. phase' = "recreate" /\ got' = <<>> /\ fromStart' = FALSE
  BY DEF ReadRest
<1>2. DOMAIN got' = {} /\ ~ Sending' /\ ~ Receiving'
  BY <1>1 DEF Sending, Receiving
<1> HIDE DEF Sending, Receiving
<1>3. IdWritten' /\ FieldsWritten' /\ EndWritten' /\ PriorityWritten'
  BY <1>1, <1>2 DEF IdWritten, FieldsWritten, EndWritten, PriorityWritten
<1>4. IdArrived' /\ FieldsStored' /\ FieldIsNext' /\ PriorityStored'
  BY <1>1, <1>2 DEF IdArrived, FieldsStored, FieldIsNext, PriorityStored
<1>5. AcceptedArrive'
  BY <1>1, <1>2 DEF AcceptedArrive, FieldsArrive, PriorityArrives
<1> QED BY <1>3, <1>4, <1>5 DEF ArrivalInv

(* Nothing happens.                                                        *)
LEMMA ArrivalStutters == ASSUME ArrivalInv, UNCHANGED bufferVars PROVE ArrivalInv'
<1> USE DEF bufferVars
<1>1. IdWritten' /\ FieldsWritten' /\ EndWritten' /\ PriorityWritten'
  BY DEF ArrivalInv, IdWritten, FieldsWritten, EndWritten, PriorityWritten, Sending, Inserted,
         EndOf, Rest, StoredField, StoredRest
<1>2. IdArrived' /\ FieldsStored' /\ FieldIsNext' /\ PriorityStored'
  BY DEF ArrivalInv, IdArrived, FieldsStored, FieldIsNext, PriorityStored, Receiving, Inserted,
         EndOf, Rest, StoredField, StoredRest, OrdersAgree
<1>3. AcceptedArrive'
  BY DEF ArrivalInv, AcceptedArrive, FieldsArrive, PriorityArrives, Inserted, OrdersAgree
<1> QED BY <1>1, <1>2, <1>3 DEF ArrivalInv

(* Every step keeps what was accepted.                                     *)
LEMMA ArrivalKeeps == ASSUME BufferInv, ArrivalInv, [BufferNext]_bufferVars PROVE ArrivalInv'
  BY ArrivalStutters, ArrivalPosted, ArrivalSerialized, ArrivalPrioritized, ArrivalReceived,
     ArrivalFailed, ArrivalRecreated, ArrivalDeserialized, ArrivalDone, ArrivalRest, ArrivalNext
     DEF BufferNext

(* Every field up to which all were inserted is read as it was written, from *)
(* hosts of any byte order, and the priority behind them                     *)
(* (MessageBuffer.cpp:277-1000, DistributedMailbox.cpp).                     *)
THEOREM WhatIsAcceptedArrives == BufferSpec => []AcceptedArrive
<1> DEFINE I == BufferInv /\ ArrivalInv
<1>1. BufferInit => I
  BY InvStarts, ArrivalAtFirst
<1>2. I /\ [BufferNext]_bufferVars => I'
  BY BufferInvKeeps, ArrivalKeeps
<1>3. I => AcceptedArrive
  BY DEF ArrivalInv
<1> QED BY <1>1, <1>2, <1>3, PTL DEF BufferSpec

=============================================================================
