------------------------------- MODULE Connect -------------------------------
(***************************************************************************)
(* `docbrain connect <source>`: start an OAuth dance, print the link, and  *)
(* poll the server until it has written a new grant (handle_connect,       *)
(* connection_of and connect_wait_state of crates/docbrain-cli/src/main.rs). *)
(*                                                                         *)
(* Time is counted in polls of CONNECT_POLL.  The server and the browser   *)
(* are the environment: when a grant was written is a number that grows    *)
(* with every grant (`refreshed_at` moves when a dance completes or a      *)
(* refresh replaces the token).                                            *)
(***************************************************************************)
EXTENDS Integers

CONSTANTS
  CONNECT_WAIT,        \* how long the command waits, in polls
  STATE_TTL,           \* how long the link it printed stays valid
  MaxWritten,          \* bound: grants ever written
  Slowest,             \* bound: how late an answer may come, in polls
  Faults,              \* what may go wrong: "request", "refresh"
  None

ConstantsOK ==
  /\ CONNECT_WAIT \in Nat \ {0} /\ STATE_TTL \in Nat \ {0}
  /\ MaxWritten \in Nat \ {0} /\ Slowest \in Nat
  /\ Faults \subseteq {"request", "refresh"}
  /\ None \notin Nat

Status == {"not_connected", "active", "needs_reconnect"}
Connection == [status : Status \cup {None}, written_at : 1 .. MaxWritten \cup {None}]
Unreachable == [status |-> None, written_at |-> None]

VARIABLES
  reports,   \* does this server say when a grant was written?
  grant,     \* the grant behind the source
  danced,    \* has the dance of this link completed?
  time,      \* since the server issued the link
  at,        \* how far the command is
  before,    \* the connection before the dance
  deadline,
  misled,    \* did `before` miss a grant, or was one refreshed since? (history)
  code       \* the exit status

vars == <<reports, grant, danced, time, at, before, deadline, misled, code>>

Init ==
  /\ reports = FALSE
  /\ grant = [status |-> "not_connected", written |-> 0]
  /\ danced = FALSE
  /\ time = 0
  /\ at = "off"
  /\ before = Unreachable
  /\ deadline = 0
  /\ misled = FALSE
  /\ code = None

----------------------------------------------------------------------------
(* Mutant of connection_of: a grant that was never written has a time.     *)
connection_of_any ==
  {[status |-> grant.status, written_at |-> IF reports THEN grant.written ELSE None]}
  \cup (IF "request" \in Faults THEN {Unreachable} ELSE {})

(* What one request for the connection may come back with: a request that  *)
(* fails, or is refused, looks like a source nobody has ever connected.    *)
connection_of ==
  {[status |-> grant.status,
    written_at |-> IF reports /\ grant.written > 0 THEN grant.written ELSE None]}
  \cup (IF "request" \in Faults THEN {Unreachable} ELSE {})

(* Mutant of connect_wait_state: it waits for a state, not for the event.  *)
connect_wait_state_active(then, now) ==
  IF now.written_at = None THEN "unknowable"
  ELSE IF now.status = "active" THEN "connected" ELSE "pending"

connect_wait_state(then, now) ==
  IF now.written_at = None THEN "unknowable"
  ELSE IF now.written_at # then.written_at /\ now.status = "active" THEN "connected"
  ELSE "pending"

(* Which server answers is not the command's choice, nor what is there.    *)
Start ==
  /\ at = "off"
  /\ reports' \in BOOLEAN
  /\ grant' \in {g \in [status : Status, written : 0 .. 1] :
                  g.written = 0 <=> g.status = "not_connected"}
  /\ at' = "started"
  /\ UNCHANGED <<danced, time, before, deadline, misled, code>>

(* Captured before the dance, so that a new grant can be told from the old. *)
CaptureBefore ==
  /\ at = "started"
  /\ before' \in connection_of
  /\ misled' = (before' = Unreachable)
  /\ at' = "captured"
  /\ UNCHANGED <<reports, grant, danced, time, deadline, code>>

(* The server issues the link; its answer may be slow.                     *)
InitLink ==
  /\ at = "captured"
  /\ time' \in 0 .. Slowest
  /\ deadline' = time' + CONNECT_WAIT
  /\ at' = "waiting"
  /\ UNCHANGED <<reports, grant, danced, before, misled, code>>

Refused ==
  /\ at = "captured"
  /\ at' = "refused" /\ code' = 1
  /\ UNCHANGED <<reports, grant, danced, time, before, deadline, misled>>

(* One turn of the loop: sleep, ask, decide.  The answer may be slow.      *)
Poll ==
  /\ at = "waiting" /\ time < deadline
  /\ time' \in time + 1 .. time + 1 + Slowest
  /\ \E now \in connection_of :
       LET state == connect_wait_state(before, now)
       IN  IF state = "pending" THEN UNCHANGED <<at, code>> ELSE at' = state /\ code' = 0
  /\ UNCHANGED <<reports, grant, danced, before, deadline, misled>>

(* Mutant of TimeOut: the deadline itself is neither before nor after.      *)
TimeOutPast ==
  /\ at = "waiting" /\ time > deadline
  /\ at' = "timed_out" /\ code' = 1
  /\ UNCHANGED <<reports, grant, danced, time, before, deadline, misled>>

TimeOut ==
  /\ at = "waiting" /\ time >= deadline
  /\ at' = "timed_out" /\ code' = 1
  /\ UNCHANGED <<reports, grant, danced, time, before, deadline, misled>>

----------------------------------------------------------------------------
LinkValid == at \in {"waiting", "unknowable", "timed_out"} /\ time < STATE_TTL

Write(status) ==
  /\ grant.written < MaxWritten
  /\ grant' = [status |-> status, written |-> grant.written + 1]

(* The reader finishes in the browser, once; the scopes granted may not do. *)
Dance ==
  /\ LinkValid /\ ~danced
  /\ \E status \in {"active", "needs_reconnect"} : Write(status)
  /\ danced' = TRUE
  /\ UNCHANGED <<reports, time, at, before, deadline, misled, code>>

Refresh ==
  /\ at # "off" /\ "refresh" \in Faults
  /\ grant.status = "active"
  /\ Write("active")
  /\ misled' = (misled \/ at # "started")
  /\ UNCHANGED <<reports, danced, time, at, before, deadline, code>>

(* A grant stops working somewhere else.                                   *)
Revoke ==
  /\ at # "off" /\ grant.status = "active"
  /\ grant' = [grant EXCEPT !.status = "needs_reconnect"]
  /\ UNCHANGED <<reports, danced, time, at, before, deadline, misled, code>>

Ended == {"connected", "unknowable", "timed_out", "refused"}

Work == CaptureBefore \/ InitLink \/ Refused \/ Poll \/ TimeOut

Command == Start \/ Work

Next == Command \/ Dance \/ Refresh \/ Revoke

(* The command is a loop of its own: nothing keeps it from its next poll.  *)
Spec == Init /\ [][Next]_vars /\ WF_vars(Command)

----------------------------------------------------------------------------
TypeOK ==
  /\ reports \in BOOLEAN /\ danced \in BOOLEAN
  /\ grant \in [status : Status, written : 0 .. MaxWritten]
  /\ time \in 0 .. CONNECT_WAIT + 2 * Slowest
  /\ at \in {"off", "started", "captured", "waiting"} \cup Ended
  /\ before \in Connection
  /\ deadline \in 0 .. CONNECT_WAIT + Slowest
  /\ misled \in BOOLEAN
  /\ code \in {None, 0, 1}

(* Success is never reported for a dance nobody did, whatever state the    *)
(* old grant was in, unless the request before the dance failed or the     *)
(* server refreshed a grant during the wait; and the command never times   *)
(* out on a link the reader could still follow: "the authorize link has    *)
(* expired too" (connect_wait_state, CONNECT_WAIT).  Where it does not     *)
(* wait at all is UnknowableIsUnreported's.                                *)
WaitIsHonest ==
  /\ at = "connected" => danced \/ misled
  /\ at = "timed_out" => time >= STATE_TTL

(* "An older server, or one that does not report when a grant was written": *)
(* the wait is only given up where the signal can never arrive.            *)
UnknowableIsUnreported == at = "unknowable" => ~reports
=============================================================================
