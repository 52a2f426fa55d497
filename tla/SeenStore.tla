------------------------------ MODULE SeenStore ------------------------------
(***************************************************************************)
(* What instances.json promises: one observation per URL, each replaced    *)
(* whole and alone, and none ever forgotten, as long as checks do not      *)
(* overlap (`alone`).  Of checks that do, it promises nothing.             *)
(***************************************************************************)
CONSTANTS Url, Seen, None

VARIABLES seen, alone

Init == seen = [u \in Url |-> None]

Record(u, o) == seen' = [seen EXCEPT ![u] = o]

Next == alone => \E u \in Url, o \in Seen : Record(u, o)

Spec == Init /\ [][Next]_seen
=============================================================================
