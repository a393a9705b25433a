---------------------------- MODULE MessageBuffer ----------------------------
(***************************************************************************)
(* The buffer a message is serialized into and recreated from              *)
(* (msgmgr/MessageBuffer.cpp), and the two ways it travels: over a         *)
(* connection (DistributedMailboxProxy.cpp, DistributedMailbox.cpp) and    *)
(* through shared memory (LocalSMMailboxProxy.cpp, LocalSMMailbox.cpp).    *)
(*                                                                         *)
(* A message is its id, the fields its class serializes, and its priority. *)
(* Memory is bytes; a character of a string is a byte other than 0.  The   *)
(* bytes beyond the end of a buffer belong to somebody else: they have one *)
(* value, any, until the buffer is overrun.  The conversion of an internet *)
(* address to a string and back is ACE's, and the string stands for it.    *)
(* One message is under way at a time, and one read returns all of it that *)
(* is there, up to the room of the mailbox's buffer; the next read returns *)
(* what is left.  DistributedTransport has the connection where a read     *)
(* returns less or more.                                                   *)
(***************************************************************************)
EXTENDS Integers, Sequences, FiniteSetsExt

CONSTANTS
    Byte,          \* the number of values of an unsigned char
    MaxLength,     \* MAX_MESSAGE_LENGTH
    Sizes,         \* the sizes a buffer of the pool may have
    Layout,        \* of each message id: the types of the fields
    Registered,    \* the message ids the receiving process can recreate
    Values(_),     \* the values of a type
    Priorities,
    Arena          \* bound: the bytes of memory from the start of a buffer

IntSize == 4
ShortSize == 2
Overrun == 5       \* the most that an insertion writes past the end
LocalMailboxLocation == 1
Locations == 2 .. 4        \* shared memory, distributed and group
NumberTypes == {"int", "short", "char"}
Types == NumberTypes \cup {"string", "bool", "address"}

VARIABLES
    transport,     \* how the message travels
    beyond,        \* the value of the bytes beyond the buffers
    phase,
    message,       \* the message that is posted: its id, its priority, and
                   \* the values of its fields that were serialized so far
    taken,         \* of each field so far: where it ends in the buffer, or Refused
    out,           \* the buffer of the pool that the proxy reserved
    in,            \* the buffer of the mailbox
    stream,        \* the bytes of the message that are still in the connection
    fromStart,     \* what is in the buffer begins with the message
    id,            \* the message id that was read
    got,           \* the fields that were read, Unset the ones that were not
    priority       \* the priority that was read

bufferVars == <<transport, beyond, phase, message, taken, out, in, stream, fromStart, id,
                got, priority>>

Refused == 0
Unset == [ok |-> FALSE]
Get(v) == [ok |-> TRUE, value |-> v]

\* A buffer of max bytes on a host, filled with zeros.
Buffer(max, network, host) ==
    [mem |-> [i \in 0 .. Arena - 1 |-> IF i < max THEN 0 ELSE beyond],
     max |-> max, insert |-> 0, deserialize |-> 0,
     network |-> network, host |-> host]

BufferType ==
    [mem : [0 .. Arena - 1 -> 0 .. Byte - 1], max : Nat, insert : Nat, deserialize : Nat,
     network : BOOLEAN, host : {"big", "little"}]

IsSequence(s) == Len(s) \in Nat /\ s = [k \in 1 .. Len(s) |-> s[k]]

BufferTypeOK ==
    /\ transport \in {"connection", "shared_memory"}
    /\ beyond \in {0, 1}
    /\ phase \in {"idle", "serialize", "send", "recreate", "read", "done"}
    /\ message = [id |-> message.id, fields |-> message.fields, priority |-> message.priority]
    /\ message.id \in DOMAIN Layout /\ IsSequence(message.fields)
    /\ \A b \in {out, in} :
           /\ b \in BufferType
           /\ b.insert <= b.max + Overrun
           /\ b.deserialize <= Arena
    /\ taken \in Seq(Nat) /\ Len(taken) <= Len(Layout[message.id])
    /\ stream \in Seq(0 .. Byte - 1) /\ fromStart \in BOOLEAN
    /\ IsSequence(got)
    /\ id \in Registered => Len(got) <= Len(Layout[id])

--------------------------------------------------------------------------------
(* What is written.                                                        *)

\* v without its last k bytes.
Shifted(v, k) ==
    LET rest[j \in 0 .. k] == IF j = 0 THEN v ELSE rest[j - 1] \div Byte
    IN  rest[k]

\* Both ends of an int or a short: in network order when the buffer converts.
BigEndian(b) == b.network \/ b.host = "big"

Number(b, v, size) ==
    [i \in 1 .. size |-> Shifted(v, IF BigEndian(b) THEN size - i ELSE i - 1) % Byte]

Width(type) == CASE type = "int" -> IntSize [] type = "short" -> ShortSize [] OTHER -> 1

\* strLength: the characters and the 0 behind them, counted in an unsigned char.
Length(s) == (Len(s) + 1) % Byte

Bytes(b, type, v) ==
    CASE type = "string" -> [i \in 1 .. Length(v) + 1 |->
                                IF i = 1 THEN Length(v) ELSE Append(v, 0)[i - 1]]
      [] type = "bool"   -> <<IF v THEN 1 ELSE 0>>
      [] OTHER           -> Number(b, v, Width(type))

\* What the test of the room counts for a value: a string without its length byte.
Counted(type, v) == IF type = "string" THEN Length(v) ELSE Width(type)

AddressFields(location) ==
    CASE location = LocalMailboxLocation -> <<"string">>
      [] location \in Locations ->
             <<"string", "string", "int", "int", "int", "int", "string">>
      [] OTHER -> <<>>

\* The values that a variable of a type can have.
OfType(type, v) ==
    CASE type = "string"        -> v \in Seq(1 .. Byte - 1)
      [] type = "bool"          -> v \in BOOLEAN
      [] type \in NumberTypes  -> v \in Nat /\ Shifted(v, Width(type)) = 0
IsAddress(v) ==
    /\ v = [location |-> v.location, parts |-> v.parts]
    /\ OfType("int", v.location)
    /\ v.parts = [k \in DOMAIN AddressFields(v.location) |-> v.parts[k]]
    /\ \A k \in DOMAIN v.parts : OfType(AddressFields(v.location)[k], v.parts[k])
Valid(type, v) == IF type = "address" THEN IsAddress(v) ELSE OfType(type, v)

\* mutated: the room of the last field is not asked for
TotalSizeOfAllButOne(v) ==
    LET types == AddressFields(v.location)
        size[k \in 0 .. Len(types)] ==
            IF k = 0 THEN IntSize ELSE size[k - 1] + Counted(types[k], v.parts[k])
    IN  size[Len(types) - 1]
\* totalSize: the location and the fields, without its own two bytes.
TotalSize(v) ==
    LET types == AddressFields(v.location)
        size[k \in 0 .. Len(types)] ==
            IF k = 0 THEN IntSize ELSE size[k - 1] + Counted(types[k], v.parts[k])
    IN  size[Len(types)]

\* The total size is converted into an int, whose first two bytes are written:
\* on a big endian host they are 0.
SizeBytes(b, v) == IF b.host = "big" THEN <<0, 0>> ELSE Number(b, TotalSize(v), ShortSize)

Write(b, bytes) ==
    [b EXCEPT
        !.mem = [i \in DOMAIN @ |-> IF i - b.insert \in 0 .. Len(bytes) - 1
                                    THEN bytes[i - b.insert + 1] ELSE @[i]],
        !.insert = @ + Len(bytes)]

InsertAddress(b, v) ==
    LET types == AddressFields(v.location)
        written[k \in 0 .. Len(types)] ==
            IF k = 0 THEN Write(Write(b, SizeBytes(b, v)), Number(b, v.location, IntSize))
            ELSE Write(written[k - 1], Bytes(b, types[k], v.parts[k]))
    IN  written[Len(types)]

\* operator<<: a value for which there is no room is left out, and nobody is told.
Insert(b, type, v) ==
    LET room == IF type = "address" THEN TotalSize(v) ELSE Counted(type, v) IN
    IF \/ type = "address" /\ AddressFields(v.location) = <<>>
       \/ b.insert + room > b.max
    THEN b
    ELSE IF type = "address" THEN InsertAddress(b, v) ELSE Write(b, Bytes(b, type, v))

--------------------------------------------------------------------------------
(* What is read.                                                           *)

At(b, i) == IF i \in DOMAIN b.mem THEN b.mem[i] ELSE 0

\* mutated: the number is not converted back
ReadNumberOfHost(b, i, size) ==
    LET n[k \in 0 .. size] ==
            IF k = 0 THEN 0
            ELSE n[k - 1] * Byte + At(b, i + (IF b.host = "big" THEN k - 1 ELSE size - k))
    IN  n[size]
\* A number at a place, from network order when the buffer converts.
ReadNumber(b, i, size) ==
    LET n[k \in 0 .. size] ==
            IF k = 0 THEN 0
            ELSE n[k - 1] * Byte + At(b, i + (IF BigEndian(b) THEN k - 1 ELSE size - k))
    IN  n[size]

\* The characters up to the first 0, wherever that is.
ReadString(b, i) ==
    LET end == Min({k \in i .. i + Arena : At(b, k) = 0}) IN
    [k \in 1 .. end - i |-> At(b, i + k - 1)]

\* The value at a place and the place behind it: of a string, as its length says.
Read(b, i, type) ==
    IF type = "string" THEN [value |-> ReadString(b, i + 1), next |-> i + 1 + At(b, i)]
    ELSE LET n == ReadNumber(b, i, Width(type)) IN
         [value |-> IF type = "bool" THEN n # 0 ELSE n, next |-> i + Width(type)]

ReadAddress(b, i) ==
    LET location == ReadNumber(b, i + ShortSize, IntSize)
        types == AddressFields(location)
        end[k \in 0 .. Len(types)] ==
            IF k = 0 THEN (i + ShortSize) + IntSize ELSE Read(b, end[k - 1], types[k]).next
    IN  [value |-> [location |-> location,
                    parts |-> [k \in DOMAIN types |-> Read(b, end[k - 1], types[k]).value]],
         next |-> end[Len(types)]]

\* What the test of the contents counts: the length and the total size of the message.
Announced(b, type) ==
    CASE type = "string"  -> At(b, b.deserialize)
      [] type = "address" -> ReadNumber(b, b.deserialize, ShortSize)
      [] OTHER            -> Width(type)

AreContentsProcessed(b) == b.deserialize = b.insert

\* operator>>: [value, next]; at the end nothing is read and the variable is left alone.
Extract(b, type) ==
    IF AreContentsProcessed(b) \/ b.deserialize + Announced(b, type) > b.max
    THEN [value |-> Unset, next |-> b.deserialize]
    ELSE LET r == IF type = "address" THEN ReadAddress(b, b.deserialize)
                  ELSE Read(b, b.deserialize, type)
         IN  [value |-> Get(r.value), next |-> r.next]

\* mutated: the contents are kept
ResetPointers(b) == [b EXCEPT !.insert = 0, !.deserialize = 0]
ClearBuffer(b) ==
    [b EXCEPT !.mem = [i \in DOMAIN @ |-> IF i < b.max THEN 0 ELSE @[i]],
              !.insert = 0, !.deserialize = 0]

ASSUME ByteAssumption == Byte \in Nat \ {0, 1}
ASSUME SizesAssumption ==
    /\ Sizes \subseteq Nat /\ MaxLength \in Nat /\ ShortSize <= MaxLength
    /\ Arena \in Nat
    /\ \A size \in Sizes \cup {MaxLength} : size + Overrun + 3 * Byte + 6 * IntSize <= Arena
ASSUME LayoutAssumption ==
    /\ DOMAIN Layout # {} /\ Registered \subseteq DOMAIN Layout
    /\ \A i \in DOMAIN Layout : OfType("short", i) /\ Layout[i] \in Seq(Types)
ASSUME ValuesAssumption ==
    /\ \A type \in Types : \A v \in Values(type) : Valid(type, v)
    /\ \A p \in Priorities : OfType("int", p)

--------------------------------------------------------------------------------
(* The two processes.                                                      *)

NoMessage == [id |-> CHOOSE i \in DOMAIN Layout : TRUE, fields |-> <<>>, priority |-> 0]

\* The pool is found by the address of an initializer on the stack of the
\* constructor, and grows by what is there then: the size of a buffer and its
\* conversion are those of any proxy, or anything.  In shared memory both
\* processes have one host.
BufferInit ==
    /\ transport \in {"connection", "shared_memory"}
    /\ beyond \in {0, 1}
    /\ \E size \in Sizes, converts \in BOOLEAN, from \in {"big", "little"}, to \in {"big", "little"} :
           /\ transport = "shared_memory" => from = to
           /\ out = Buffer(size, converts, from)
           /\ in = Buffer(MaxLength, transport = "connection", to)
    /\ phase = "idle"
    /\ message = NoMessage
    /\ taken = <<>>
    /\ stream = <<>> /\ fromStart = TRUE
    /\ id = 0
    /\ got = <<>>
    /\ priority = 0

\* post: reserves a buffer and inserts the message id.
PostMessage ==
    /\ phase = "idle"
    /\ \E i \in DOMAIN Layout, p \in Priorities :
           /\ message' = [id |-> i, fields |-> <<>>, priority |-> p]
           /\ out' = Insert(out, "short", i)
    /\ phase' = "serialize"
    /\ UNCHANGED <<transport, beyond, taken, in, stream, fromStart, id, got, priority>>

\* serialize of the class of the message: one field after the other.
Serialize ==
    /\ phase = "serialize" /\ Len(taken) < Len(Layout[message.id])
    /\ LET type == Layout[message.id][Len(taken) + 1] IN
       \E v \in Values(type) :
           /\ message' = [message EXCEPT !.fields = Append(@, v)]
           /\ out' = Insert(out, type, v)
           /\ taken' = Append(taken, IF out' = out THEN Refused ELSE out'.insert)
    /\ UNCHANGED <<transport, beyond, phase, in, stream, fromStart, id, got, priority>>

SerializePriority ==
    /\ phase = "serialize" /\ Len(taken) = Len(Layout[message.id])
    /\ out' = IF message.priority # 0 THEN Insert(out, "int", message.priority) ELSE out
    /\ phase' = "send"
    /\ UNCHANGED <<transport, beyond, message, taken, in, stream, fromStart, id, got, priority>>

\* The bytes of the message as the receiver's memory has them.
ReceivedBytes(n) ==
    [i \in 0 .. Arena - 1 |-> IF i < Min({n, MaxLength}) THEN out.mem[i] ELSE in.mem[i]]

\* send_n, and recv of a mailbox that reads MAX_MESSAGE_LENGTH bytes at most: the
\* others stay in the connection.
SendOnConnection ==
    /\ phase = "send" /\ transport = "connection" /\ out.insert > 0
    /\ in' = [in EXCEPT !.mem = ReceivedBytes(out.insert), !.insert = Min({out.insert, MaxLength})]
    /\ stream' = [k \in 1 .. out.insert - MaxLength |-> out.mem[MaxLength + k - 1]]
    /\ out' = ClearBuffer(out)
    /\ phase' = "recreate"
    /\ UNCHANGED <<transport, beyond, message, taken, fromStart, id, got, priority>>

\* send_n of no bytes returns 0, which is taken for a lost connection.
PostFails ==
    /\ phase = "send" /\ transport = "connection" /\ out.insert = 0
    /\ out' = ClearBuffer(out)
    /\ phase' = "done"
    /\ UNCHANGED <<transport, beyond, message, taken, in, stream, fromStart, id, got, priority>>

\* The copy into shared memory and out of it, and assignBuffer: the mailbox's
\* buffer is as long as the message.
PassInSharedMemory ==
    /\ phase = "send" /\ transport = "shared_memory"
    /\ in' = [in EXCEPT !.mem = ReceivedBytes(out.insert), !.insert = out.insert, !.max = out.insert]
    /\ out' = ClearBuffer(out)
    /\ phase' = "recreate"
    /\ UNCHANGED <<transport, beyond, message, taken, stream, fromStart, id, got, priority>>

\* recreateMessageFromBuffer: reads the message id, 0 before.
RecreateMessage ==
    /\ phase = "recreate"
    /\ LET r == Extract(in, "short") IN
       /\ id' = IF r.value.ok THEN r.value.value ELSE 0
       /\ in' = [in EXCEPT !.deserialize = r.next]
    /\ phase' = IF id' \in Registered THEN "read" ELSE "done"
    /\ UNCHANGED <<transport, beyond, message, taken, out, stream, fromStart, got, priority>>

\* deserialize of the class of the message.
Deserialize ==
    /\ phase = "read" /\ Len(got) < Len(Layout[id])
    /\ LET r == Extract(in, Layout[id][Len(got) + 1]) IN
       /\ got' = Append(got, r.value)
       /\ in' = [in EXCEPT !.deserialize = r.next]
    /\ UNCHANGED <<transport, beyond, phase, message, taken, out, stream, fromStart, id,
                   priority>>

\* handle_input: what is left is the priority.  A mailbox in shared memory takes
\* the priority from the LocalSMBuffer, where no proxy stores one.
DeserializePriority ==
    /\ phase = "read" /\ Len(got) = Len(Layout[id])
    /\ IF transport = "connection" /\ ~ AreContentsProcessed(in)
       THEN LET r == Extract(in, "int") IN
            /\ priority' = IF r.value.ok THEN r.value.value ELSE 0
            /\ in' = [in EXCEPT !.deserialize = r.next]
       ELSE UNCHANGED <<priority, in>>
    /\ phase' = "done"
    /\ UNCHANGED <<transport, beyond, message, taken, out, stream, fromStart, id, got>>

\* handle_input clears the buffer, and is called again for the bytes that are
\* left: they are read as another message.
ReadRest ==
    /\ phase = "done" /\ stream # <<>>
    /\ LET n == Min({Len(stream), MaxLength}) IN
       /\ in' = Write(ClearBuffer(in), SubSeq(stream, 1, n))
       /\ stream' = SubSeq(stream, n + 1, Len(stream))
    /\ fromStart' = FALSE
    /\ phase' = "recreate"
    /\ id' = 0
    /\ got' = <<>>
    /\ priority' = 0
    /\ UNCHANGED <<transport, beyond, message, taken, out>>

\* The mailbox clears its buffer for the next message.
NextMessage ==
    /\ phase = "done" /\ stream = <<>>
    /\ in' = [ClearBuffer(in) EXCEPT !.max = MaxLength,
                 !.mem = [i \in DOMAIN @ |-> IF transport = "connection" \/ i >= MaxLength
                                             THEN @[i] ELSE 0]]
    /\ phase' = "idle"
    /\ message' = NoMessage
    /\ taken' = <<>>
    /\ fromStart' = TRUE
    /\ id' = 0
    /\ got' = <<>>
    /\ priority' = 0
    /\ UNCHANGED <<transport, beyond, out, stream>>

BufferNext ==
    \/ PostMessage
    \/ Serialize
    \/ SerializePriority
    \/ SendOnConnection
    \/ PostFails
    \/ PassInSharedMemory
    \/ RecreateMessage
    \/ Deserialize
    \/ DeserializePriority
    \/ ReadRest
    \/ NextMessage

BufferSpec == BufferInit /\ [][BufferNext]_bufferVars

--------------------------------------------------------------------------------
(* Properties.                                                             *)

Wraps(type, v) ==
    \/ type = "string" /\ Len(v) + 1 >= Byte
    \/ /\ type = "address"
       /\ \E k \in DOMAIN v.parts :
              AddressFields(v.location)[k] = "string" /\ Len(v.parts[k]) + 1 >= Byte

\* The message id and the first k fields were all inserted, none of them with
\* a string too long for its length byte.
Inserted(k) ==
    /\ ShortSize <= out.max
    /\ k <= Len(taken)
    /\ \A i \in 1 .. k :
           taken[i] # Refused /\ ~ Wraps(Layout[message.id][i], message.fields[i])

\* Both buffers have the bytes of a number in one order.
OrdersAgree == BigEndian(out) = BigEndian(in)

\* Whatever the values and the room, an insertion writes at most five bytes past
\* the end of its buffer, and only strings (one byte, the length they do not
\* count) and addresses (the two bytes of the total size and a length byte for
\* each string) write there at all: the test of the room in operator<<.
OverrunIsSmall ==
    LET last == Max({0} \cup {k \in DOMAIN taken : taken[k] # Refused})
        type == IF last = 0 THEN "short" ELSE Layout[message.id][last]
    IN  /\ \A i \in DOMAIN out.mem : i >= out.max + Overrun => out.mem[i] = beyond
        /\ out.insert > out.max =>
               /\ type \in {"string", "address"}
               /\ type = "string" => out.insert = out.max + 1
               /\ phase = "serialize" \/ taken[last] = out.insert

\* A field is recreated as it was serialized if all fields up to it were
\* inserted and came with the first read of the message, whatever happened to
\* later ones, on hosts of any byte order, and whatever messages the two buffers
\* held before.
FieldsArrive ==
    \A k \in DOMAIN got :
        (fromStart /\ Inserted(k) /\ taken[k] <= MaxLength /\ OrdersAgree)
            => got[k] = Get(message.fields[k])

\* A message of which nothing was refused ends where its bytes end, and has the
\* priority it was posted with, when it came over a connection.
PriorityArrives ==
    (/\ phase = "done" /\ fromStart /\ transport = "connection" /\ OrdersAgree
     /\ id \in Registered
     /\ Inserted(Len(message.fields))
     /\ \E end \in {IF taken = <<>> THEN ShortSize ELSE taken[Len(taken)]} :
            end + (IF message.priority # 0 THEN IntSize ELSE 0) <= Min({out.max, MaxLength}))
        => AreContentsProcessed(in) /\ priority = message.priority

\* What an extraction finds behind the bytes of its message is zeros, and never
\* the bytes of an earlier message: clearBuffer on both sides.
NoStaleByte ==
    /\ \A i \in out.insert .. out.max - 1 : out.mem[i] = 0
    /\ \A i \in in.insert .. in.max - 1 : in.mem[i] = 0

\* What was accepted arrives: the fields, and the priority behind them.
AcceptedArrive ==
    /\ FieldsArrive
    /\ PriorityArrives

\* Between two messages both buffers are empty, and so is the mailbox's while a
\* message is serialized; only shared memory changes its size.  The fields that
\* were serialized are those of the message.
Steady ==
    /\ out.max \in Sizes /\ out.deserialize = 0
    /\ in.max + 3 * Byte + 6 * IntSize <= Arena /\ in.insert <= in.max
    /\ transport = "connection" => in.max = MaxLength
    /\ phase \in {"idle", "serialize", "send"} =>
           /\ in.insert = 0 /\ in.deserialize = 0 /\ in.max = MaxLength
           /\ got = <<>> /\ priority = 0 /\ stream = <<>> /\ fromStart
    /\ stream # <<>> => transport = "connection"
    /\ phase \in {"idle", "recreate", "read", "done"} => out.insert = 0
    /\ phase = "recreate" => got = <<>> /\ priority = 0 /\ in.deserialize = 0
    /\ phase = "read" => id \in Registered /\ priority = 0
    /\ IF phase = "idle" THEN taken = <<>> ELSE message.priority \in Priorities
    /\ phase \notin {"idle", "serialize"} => Len(taken) = Len(Layout[message.id])
    /\ Len(message.fields) = Len(taken)
    /\ \A k \in DOMAIN taken : Valid(Layout[message.id][k], message.fields[k])

\* No byte of an earlier message is left, and the state has its types: the
\* inductive invariant.
BufferInv ==
    /\ BufferTypeOK
    /\ NoStaleByte
    /\ Steady
===============================================================================
