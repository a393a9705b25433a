--------------------------- MODULE MCMessageBuffer ---------------------------
(***************************************************************************)
(* A byte of eight values, so that a string of seven characters has the    *)
(* length 0 and one of eight the length 1.  The bytes of the id 9 are the  *)
(* same in both orders.  Of the sizes, some are overrun by one, three and  *)
(* five bytes, and the last is longer than the receiver's buffer.          *)
(***************************************************************************)
EXTENDS MessageBuffer, TLC

MCLayout == 1 :> <<"address", "bool", "string">>
         @@ 9 :> <<"string", "short", "string">>
         @@ 3 :> <<"char", "int">>

Characters(n) == [i \in 1 .. n |-> 1 + (i % 3)]
Address(location, name) ==
    [location |-> location,
     parts |-> IF location = LocalMailboxLocation THEN <<name>>
               ELSE IF location \in Locations
               THEN <<name, Characters(1), 1, 0, 9, 2, Characters(3)>> ELSE <<>>]

MCValues(type) ==
    CASE type = "string"  -> {Characters(n) : n \in {0, 2, Byte - 2, Byte - 1, Byte}}
      [] type = "bool"    -> BOOLEAN
      [] type = "int"     -> {9}
      [] type = "short"   -> {10}
      [] type = "char"    -> {1, Byte - 1}
      [] type = "address" -> {Address(0, <<>>), Address(1, Characters(2)),
                              Address(3, Characters(2)), Address(3, Characters(Byte - 1))}
===============================================================================
