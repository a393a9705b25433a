--------------------------- MODULE MCLocalMailbox ---------------------------
(* A mailbox with two producers and two readers of one handle.             *)
EXTENDS LocalMailbox

CONSTANTS p1, p2, c1, c2, low1, low2, urgent

(* Two ordinary messages and one of a higher priority.                     *)
MCPriority == [m \in {low1, low2, urgent} |-> IF m = urgent THEN 1 ELSE 0]
=============================================================================
