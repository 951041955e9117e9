--------------------------- MODULE MCHostSession ---------------------------
(* An instance of HostSession for TLC, in three scenes: a send, its replay  *)
(* and a delete of the same account; a link request, two listings and a     *)
(* read that share lanes; two finishes of one group beside a send.          *)
EXTENDS HostSession

CONSTANTS s, again, d, l, c, r, fin1, fin2, a

MCFrame == {s, again, d, l, c, r, fin1, fin2}

MCScenes == {{s, again, d}, {l, c, r}, {fin1, fin2, s}}

MCId == [f \in MCFrame |-> IF f = again THEN s ELSE f]

MCKind == [f \in MCFrame |->
    CASE f \in {s, again} -> "send" [] f = d -> "delete" [] f = l -> "link"
      [] f = c -> "list" [] f = r -> "read" [] OTHER -> "finish"]

MCAccount == [f \in MCFrame |-> IF f \in {s, again, d, r} THEN a ELSE None]

One == [x \in {"control", "read", "send"} |-> 1]
=============================================================================
