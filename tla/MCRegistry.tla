----------------------------- MODULE MCRegistry -----------------------------
(* The registry with three threads, mailboxes, a name and two remote       *)
(* addresses that are one key of the map; threads, mailboxes and the two   *)
(* addresses are interchangeable.                                          *)
EXTENDS MailboxRegistry, TLC

CONSTANTS t1, t2, t3, m1, m2, m3, m4, host1, host2

MCKey == [a \in Addresses |-> IF a \in Remotes THEN "remote" ELSE a]

Symmetry == Permutations({t1, t2, t3}) \cup Permutations({m1, m2, m3, m4})
            \cup Permutations({host1, host2})
=============================================================================
