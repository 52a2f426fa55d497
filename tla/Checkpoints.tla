----------------------------- MODULE Checkpoints -----------------------------
(***************************************************************************)
(* The checkpoint chain of docbrain-evidence/src/checkpoint.rs, one step   *)
(* per line of checkpoints.jsonl.                                          *)
(*                                                                         *)
(* A checkpoint states the journal's head and record count at a position.  *)
(* Checkpoints are chained by cp_prev from genesis, ascend strictly, and   *)
(* each is signed by the key that the verified key chain gives its own     *)
(* position.  Clocks that do not advance are noted, never refused.  From a *)
(* verified chain range_bounds takes the two ends of an export.            *)
(*                                                                         *)
(* As in ChainWalk and KeyChain a behaviour is one file.  The key chain    *)
(* enters as the function key_at_position, which never changes while the   *)
(* checkpoints are read.                                                   *)
(***************************************************************************)
EXTENDS Integers, Sequences, SequenceTypes, Digest

CONSTANTS
  Key,      \* the Ed25519 key pairs
  MaxU64,   \* the largest position
  JournalHead,  \* the journal heads a checkpoint may state
  Count,    \* and the record counts
  Time,     \* instants, a set of integers
  Forged    \* a cp_prev that is no computed head

Position == 0 .. MaxU64

ASSUME CheckpointsAssumption ==
  /\ MaxU64 \in Nat
  /\ Time \subseteq Int

VARIABLES
  authority,    \* key_at_position, for every position
  checkpoints,  \* the checkpoints verified
  anomalies,    \* clock_anomalies: adjacent checkpoints whose clock stood or ran back
  cp_head,      \* the running head of the checkpoint chain
  cp_lines,     \* the lines accepted (history)
  outcome       \* "reading", "ok", or the CpError

vars == <<authority, checkpoints, anomalies, cp_head, cp_lines, outcome>>

CpError == {"Empty", "Malformed", "PositionNotIncreasing", "CpLinkMismatch",
            "UnauthorizedSigner", "SignatureInvalid", "InvalidTimestamp"}

(* The lines a file may hold next.  at_form tells whether `at` parses.     *)
CheckpointLine ==
  [position : Position, head : JournalHead, count : Count,
   at : Time, at_form : {"rfc3339", "other"}, keyid : Key,
   cp_prev : {cp_head, GENESIS_PREV, Forged}, signer : Key,
   envelope : {"checkpoint", "other"}]

Checkpoint == [position : Position, head : JournalHead, count : Count, at : Time]

ClockAnomaly ==
  [position : Position, at : Time, previous_position : Position, previous_at : Time]

Init ==
  /\ authority \in [Position -> Key]
  /\ checkpoints = << >>
  /\ anomalies = << >>
  /\ cp_head = GENESIS_PREV
  /\ cp_lines = << >>
  /\ outcome = "reading"

Reject(error) ==
  /\ outcome = "reading"
  /\ outcome' = error
  /\ UNCHANGED <<authority, checkpoints, anomalies, cp_head, cp_lines>>

NoLine ==
  /\ checkpoints = << >>
  /\ Reject("Empty")

ParseFailure == Reject("Malformed")

Previous == checkpoints[Len(checkpoints)]

(* The checks on a line, in the code's order.                              *)

(* Mutant of Increasing: a second checkpoint at the same position passes.  *)
NotBackwards(line) == checkpoints # << >> => line.position >= Previous.position

Increasing(line) == checkpoints # << >> => line.position > Previous.position

NotIncreasing(line) ==
  /\ ~Increasing(line)
  /\ Reject("PositionNotIncreasing")

LinkMismatch(line) ==
  /\ Increasing(line)
  /\ line.cp_prev # cp_head
  /\ Reject("CpLinkMismatch")

Linked(line) == Increasing(line) /\ line.cp_prev = cp_head

DeclaresAuthority(line) == line.keyid = authority[line.position]

ForeignKeyid(line) ==
  /\ Linked(line)
  /\ ~DeclaresAuthority(line)
  /\ Reject("UnauthorizedSigner")

OtherEnvelope(line) ==
  /\ Linked(line)
  /\ DeclaresAuthority(line)
  /\ line.envelope # "checkpoint"
  /\ Reject("Malformed")

(* Mutant of SignatureValid: the signature is checked under any chain key. *)
SignatureOfSomeKey(line) == line.signer \in {authority[p] : p \in Position}

SignatureValid(line) == line.signer = authority[line.position]

BadSignature(line) ==
  /\ Linked(line)
  /\ DeclaresAuthority(line)
  /\ line.envelope = "checkpoint"
  /\ ~SignatureValid(line)
  /\ Reject("SignatureInvalid")

Signed(line) ==
  /\ Linked(line)
  /\ DeclaresAuthority(line)
  /\ line.envelope = "checkpoint"
  /\ SignatureValid(line)

BadTimestamp(line) ==
  /\ Signed(line)
  /\ line.at_form # "rfc3339"
  /\ Reject("InvalidTimestamp")

(* Mutant of Anomaly: two equal instants are taken for an advancing clock. *)
AnomalyStrict(line) ==
  IF checkpoints # << >> /\ line.at < Previous.at
    THEN << [position |-> line.position, at |-> line.at,
             previous_position |-> Previous.position, previous_at |-> Previous.at] >>
    ELSE << >>

Anomaly(line) ==
  IF checkpoints # << >> /\ line.at <= Previous.at
    THEN << [position |-> line.position, at |-> line.at,
             previous_position |-> Previous.position, previous_at |-> Previous.at] >>
    ELSE << >>

(* What is kept of a line.                                                 *)
Verified(line) ==
  [position |-> line.position, head |-> line.head, count |-> line.count, at |-> line.at]

(* Mutant of Accept: the chain head is not moved on.                       *)
AcceptUnchained(line) ==
  /\ outcome = "reading"
  /\ Signed(line)
  /\ line.at_form = "rfc3339"
  /\ anomalies' = anomalies \o Anomaly(line)
  /\ checkpoints' = Append(checkpoints, Verified(line))
  /\ cp_lines' = Append(cp_lines, line)
  /\ UNCHANGED <<authority, cp_head, outcome>>

(* Mutant of Accept: a checkpoint whose clock does not advance is noted    *)
(* as an anomaly instead of being kept.                                    *)
AcceptAdvancing(line) ==
  /\ outcome = "reading"
  /\ Signed(line)
  /\ line.at_form = "rfc3339"
  /\ anomalies' = anomalies \o Anomaly(line)
  /\ checkpoints' = IF Anomaly(line) = << >>
                      THEN Append(checkpoints, Verified(line))
                      ELSE checkpoints
  /\ cp_head' = HeadAfter(cp_head, line)
  /\ cp_lines' = Append(cp_lines, line)
  /\ UNCHANGED <<authority, outcome>>

Accept(line) ==
  /\ outcome = "reading"
  /\ Signed(line)
  /\ line.at_form = "rfc3339"
  /\ anomalies' = anomalies \o Anomaly(line)
  /\ checkpoints' = Append(checkpoints, Verified(line))
  /\ cp_head' = HeadAfter(cp_head, line)
  /\ cp_lines' = Append(cp_lines, line)
  /\ UNCHANGED <<authority, outcome>>

Finish ==
  /\ checkpoints # << >>
  /\ outcome = "reading"
  /\ outcome' = "ok"
  /\ UNCHANGED <<authority, checkpoints, anomalies, cp_head, cp_lines>>

Read(line) ==
  \/ NotIncreasing(line)
  \/ LinkMismatch(line)
  \/ ForeignKeyid(line)
  \/ OtherEnvelope(line)
  \/ BadSignature(line)
  \/ BadTimestamp(line)
  \/ Accept(line)

EndOfFile == NoLine \/ Finish

Next ==
  \/ EndOfFile
  \/ ParseFailure
  \/ \E line \in CheckpointLine : Read(line)

Spec == Init /\ [][Next]_vars

-----------------------------------------------------------------------------
(* The boundaries of an export: both must be checkpoints.                  *)
IsBoundary(p) == \E i \in 1 .. Len(checkpoints) : checkpoints[i].position = p

checkpoint_at(p) ==
  checkpoints[CHOOSE i \in 1 .. Len(checkpoints) : checkpoints[i].position = p]

range_bounds(start, end) ==
  IF IsBoundary(start) /\ IsBoundary(end)
    THEN [start_position |-> start, start_head |-> checkpoint_at(start).head,
          end_position |-> end, end_head |-> checkpoint_at(end).head,
          end_count |-> checkpoint_at(end).count]
    ELSE "NotABoundary"

-----------------------------------------------------------------------------
(* Types of the reader's state; a checkpoint per line.                     *)
TypeOK ==
  /\ authority \in [Position -> Key]
  /\ checkpoints \in Seq(Checkpoint)
  /\ anomalies \in Seq(ClockAnomaly)
  /\ IsSequence(cp_lines)
  /\ Len(cp_lines) = Len(checkpoints)
  /\ outcome \in {"reading", "ok"} \cup CpError

(* Positions ascend strictly, so a boundary names one checkpoint, and the  *)
(* head range_bounds trusts for it is the only one the file states.        *)
BoundaryUnambiguous ==
  \A i, j \in 1 .. Len(checkpoints) :
    /\ i < j => checkpoints[i].position < checkpoints[j].position
    /\ checkpoint_at(checkpoints[i].position) = checkpoints[i]

(* A checkpoint carries the authority of its own position and no other:    *)
(* the key valid there both signed it and is the one it names.             *)
SignedAtOwnPosition ==
  \A i \in 1 .. Len(checkpoints) :
    /\ cp_lines[i].position = checkpoints[i].position
    /\ cp_lines[i].head = checkpoints[i].head
    /\ cp_lines[i].signer = authority[checkpoints[i].position]
    /\ cp_lines[i].keyid = cp_lines[i].signer

(* A line names the head of all the lines before it, so none of them can   *)
(* be dropped, exchanged or taken from another file.                       *)
ChainedFromGenesis ==
  \A i \in 1 .. Len(cp_lines) :
    cp_lines[i].cp_prev =
      (IF i = 1 THEN GENESIS_PREV
       ELSE HeadAfter(cp_lines[i - 1].cp_prev, cp_lines[i - 1]))

(* The anomalies noted are exactly the adjacent checkpoints whose clock    *)
(* does not advance; none means the clock ascends over the whole chain.    *)
ClockReported ==
  /\ {anomalies[i].position : i \in 1 .. Len(anomalies)} =
       {checkpoints[i].position : i \in
          {k \in 2 .. Len(checkpoints) : checkpoints[k].at <= checkpoints[k - 1].at}}
  /\ anomalies = << >> =>
       \A i, j \in 1 .. Len(checkpoints) : i < j => checkpoints[i].at < checkpoints[j].at
=============================================================================
