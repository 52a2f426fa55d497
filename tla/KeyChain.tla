------------------------------ MODULE KeyChain ------------------------------
(***************************************************************************)
(* The key sub-chain of docbrain-evidence/src/keys.rs, one step per line.  *)
(*                                                                         *)
(* verify_key_chain reads trust/keys.jsonl from the genesis record on.     *)
(* Genesis declares the first signing key and, if it likes, a recovery     *)
(* key.  A rotation, signed by the key it replaces, declares the next      *)
(* signing key; a compromise, signed by the recovery key, seals the        *)
(* journal.  The first line that breaks a rule ends the reading.  What     *)
(* remains is the authority on signatures: key_at_position and             *)
(* classify_compromise.                                                    *)
(*                                                                         *)
(* As in ChainWalk every line a file could hold next is offered, so that a *)
(* behaviour is one file.  A signature is the key that made it.            *)
(***************************************************************************)
EXTENDS Integers, Sequences, SequenceTypes, Digest

CONSTANTS
  Key,       \* the Ed25519 key pairs there are
  MaxU64,    \* the largest position
  None,      \* no recovery key
  Forged     \* a key_prev that is no computed head

Position == 0 .. MaxU64

ASSUME KeyChainAssumption ==
  /\ MaxU64 \in Nat
  /\ None \notin Key

VARIABLES
  events,         \* who becomes the signing key, and from which position on
  recovery,       \* the recovery key genesis declares, or None
  compromise,     \* << >>, or the record that sealed the journal as << r >>
  last_position,  \* of the last line accepted
  head,           \* of the key chain
  lines,          \* the lines accepted (history)
  outcome         \* "reading", "ok", or the KeyChainError

vars == <<events, recovery, compromise, last_position, head, lines, outcome>>

KeyChainError ==
  {"Malformed", "MissingGenesis", "GenesisPositionMismatch", "GenesisNotSelfSigned",
   "DuplicateGenesis", "UnknownKind", "PositionNotIncreasing", "KeyLinkMismatch",
   "UnauthorizedRotation", "UnauthorizedControlRecord", "InvalidCompromiseTime",
   "JournalSealed"}

SigningKeyEvent == [position : Position, key : Key]

CompromiseRecord == [position : Position, compromised_key : Key]

(* The lines a file may hold next.  `envelope` tells a well-formed          *)
(* key-record envelope from one of another payload type or wire form.      *)
DeclaredPrev == {head, GENESIS_PREV, Forged}

Envelope == {"keyrecord", "other"}

GenesisLine ==
  [kind : {"genesis"}, position : Position, key_prev : DeclaredPrev, key : Key,
   recovery : Key \cup {None}, signer : Key, envelope : Envelope]

RotationLine ==
  [kind : {"rotation"}, position : Position, key_prev : DeclaredPrev, key : Key,
   signer : Key, envelope : Envelope]

CompromiseLine ==
  [kind : {"compromise"}, position : Position, key_prev : DeclaredPrev, key : Key,
   time : {"rfc3339", "other"}, signer : Key, envelope : Envelope]

Init ==
  /\ events = << >>
  /\ recovery = None
  /\ compromise = << >>
  /\ last_position = 0
  /\ head = GENESIS_PREV
  /\ lines = << >>
  /\ outcome = "reading"

Reject(error) ==
  /\ outcome = "reading"
  /\ outcome' = error
  /\ UNCHANGED <<events, recovery, compromise, last_position, head, lines>>

(* Mutant of Extend: the position remembered is the next one.              *)
ExtendPast(line) ==
  /\ outcome = "reading"
  /\ last_position' = line.position + 1
  /\ head' = HeadAfter(head, line)
  /\ lines' = Append(lines, line)
  /\ UNCHANGED outcome

(* Every accepted line becomes part of the chain the next one must name.   *)
Extend(line) ==
  /\ outcome = "reading"
  /\ last_position' = line.position
  /\ head' = HeadAfter(head, line)
  /\ lines' = Append(lines, line)
  /\ UNCHANGED outcome

AtGenesis == lines = << >>

Sealed == compromise # << >>

-----------------------------------------------------------------------------
(* The first line: genesis at 0, unlinked, signed by the key it declares.  *)

NoGenesis ==                      \* an empty file, or another kind of record
  /\ AtGenesis
  /\ Reject("MissingGenesis")

GenesisElsewhere(line) ==
  /\ AtGenesis
  /\ line.position # 0
  /\ Reject("GenesisPositionMismatch")

GenesisLinked(line) ==
  /\ AtGenesis
  /\ line.position = 0
  /\ line.key_prev # GENESIS_PREV
  /\ Reject("KeyLinkMismatch")

GenesisEnvelope(line) ==
  /\ AtGenesis
  /\ line.position = 0
  /\ line.key_prev = GENESIS_PREV
  /\ line.envelope # "keyrecord"
  /\ Reject("Malformed")

SelfSigned(line) == line.signer = line.key

GenesisForeign(line) ==
  /\ AtGenesis
  /\ line.position = 0
  /\ line.key_prev = GENESIS_PREV
  /\ line.envelope = "keyrecord"
  /\ ~SelfSigned(line)
  /\ Reject("GenesisNotSelfSigned")

Genesis(line) ==
  /\ AtGenesis
  /\ line.position = 0
  /\ line.key_prev = GENESIS_PREV
  /\ line.envelope = "keyrecord"
  /\ SelfSigned(line)
  /\ events' = << [position |-> 0, key |-> line.key] >>
  /\ recovery' = line.recovery
  /\ UNCHANGED compromise
  /\ Extend(line)

-----------------------------------------------------------------------------
(* The lines after it.  Nothing follows a compromise record: such a line   *)
(* is not even parsed.                                                     *)

AfterSeal ==
  /\ ~AtGenesis
  /\ Sealed
  /\ Reject("JournalSealed")

Readable == ~AtGenesis /\ ~Sealed

ParseFailure ==
  /\ AtGenesis \/ Readable
  /\ Reject("Malformed")

SecondGenesis ==
  /\ Readable
  /\ Reject("DuplicateGenesis")

OtherKind ==
  /\ Readable
  /\ Reject("UnknownKind")

(* Mutant of Increasing: a rotation may share its predecessor's position.  *)
NotDecreasing(line) == line.position >= last_position

Increasing(line) == line.position > last_position

NotIncreasing(line) ==
  /\ Readable
  /\ ~Increasing(line)
  /\ Reject("PositionNotIncreasing")

LinkMismatch(line) ==
  /\ Readable
  /\ Increasing(line)
  /\ line.key_prev # head
  /\ Reject("KeyLinkMismatch")

Chained(line) ==
  /\ Readable
  /\ Increasing(line)
  /\ line.key_prev = head

(* The key authoritative right before this line.                           *)
CurrentKey == events[Len(events)].key

(* Mutant of SignedByPredecessor: any key that ever signed will do.        *)
SignedByAnyKey(line) == \E i \in 1 .. Len(events) : line.signer = events[i].key

SignedByPredecessor(line) == line.signer = CurrentKey

RotationEnvelope(line) ==
  /\ Chained(line)
  /\ line.envelope # "keyrecord"
  /\ Reject("Malformed")

ForeignRotation(line) ==
  /\ Chained(line)
  /\ line.envelope = "keyrecord"
  /\ ~SignedByPredecessor(line)
  /\ Reject("UnauthorizedRotation")

Rotate(line) ==
  /\ Chained(line)
  /\ line.envelope = "keyrecord"
  /\ SignedByPredecessor(line)
  /\ events' = Append(events, [position |-> line.position, key |-> line.key])
  /\ UNCHANGED <<recovery, compromise>>
  /\ Extend(line)

(* Mutant of SignedByRecovery: it is enough that a recovery key exists.    *)
RecoveryDeclared(line) == recovery # None

SignedByRecovery(line) == line.signer = recovery

NoRecoveryKey(line) ==
  /\ Chained(line)
  /\ recovery = None
  /\ Reject("UnauthorizedControlRecord")

CompromiseEnvelope(line) ==
  /\ Chained(line)
  /\ recovery # None
  /\ line.envelope # "keyrecord"
  /\ Reject("Malformed")

ForeignCompromise(line) ==
  /\ Chained(line)
  /\ recovery # None
  /\ line.envelope = "keyrecord"
  /\ ~SignedByRecovery(line)
  /\ Reject("UnauthorizedControlRecord")

CompromiseTime(line) ==
  /\ Chained(line)
  /\ recovery # None
  /\ line.envelope = "keyrecord"
  /\ SignedByRecovery(line)
  /\ line.time # "rfc3339"
  /\ Reject("InvalidCompromiseTime")

Compromise(line) ==
  /\ Chained(line)
  /\ recovery # None
  /\ line.envelope = "keyrecord"
  /\ SignedByRecovery(line)
  /\ line.time = "rfc3339"
  /\ compromise' = << [position |-> line.position, compromised_key |-> line.key] >>
  /\ UNCHANGED <<events, recovery>>
  /\ Extend(line)

Finish ==
  /\ ~AtGenesis
  /\ outcome = "reading"
  /\ outcome' = "ok"
  /\ UNCHANGED <<events, recovery, compromise, last_position, head, lines>>

ReadGenesis(line) ==
  \/ GenesisElsewhere(line)
  \/ GenesisLinked(line)
  \/ GenesisEnvelope(line)
  \/ GenesisForeign(line)
  \/ Genesis(line)

ReadRotation(line) ==
  \/ NotIncreasing(line)
  \/ LinkMismatch(line)
  \/ RotationEnvelope(line)
  \/ ForeignRotation(line)
  \/ Rotate(line)

ReadCompromise(line) ==
  \/ NotIncreasing(line)
  \/ LinkMismatch(line)
  \/ NoRecoveryKey(line)
  \/ CompromiseEnvelope(line)
  \/ ForeignCompromise(line)
  \/ CompromiseTime(line)
  \/ Compromise(line)

(* A line that parses, by the kind it declares.                            *)
ReadLine(line) ==
  \/ AfterSeal
  \/ line.kind = "genesis" /\ (ReadGenesis(line) \/ SecondGenesis)
  \/ line.kind = "rotation" /\ (ReadRotation(line) \/ NoGenesis)
  \/ line.kind = "compromise" /\ (ReadCompromise(line) \/ NoGenesis)

Unreadable == AfterSeal \/ ParseFailure

EndOfFile == NoGenesis \/ Finish

Next ==
  \/ Unreadable
  \/ OtherKind
  \/ EndOfFile
  \/ \E line \in GenesisLine : ReadLine(line)
  \/ \E line \in RotationLine : ReadLine(line)
  \/ \E line \in CompromiseLine : ReadLine(line)

Spec == Init /\ [][Next]_vars

-----------------------------------------------------------------------------
(* The signing key of a position: scanning the events from the last one    *)
(* back, the first that is declared at or before it.                       *)
Authoritative(i, p) ==
  /\ events[i].position <= p
  /\ \A j \in i + 1 .. Len(events) : events[j].position > p

key_at_position(p) ==
  events[CHOOSE i \in 1 .. Len(events) : Authoritative(i, p)].key

(* Mutant of classify_compromise: the record at the position is let off.   *)
classify_after(p, key, anchored_before_claim) ==
  IF ~Sealed THEN "NotAffected"
  ELSE IF key # compromise[1].compromised_key THEN "NotAffected"
  ELSE IF p > compromise[1].position THEN "TamperedPostPosition"
  ELSE IF anchored_before_claim THEN "ValidPreClaim"
  ELSE "IndeterminateWindow"

(* How a compromise affects a record signed by `key` at position p.        *)
classify_compromise(p, key, anchored_before_claim) ==
  IF ~Sealed THEN "NotAffected"
  ELSE IF key # compromise[1].compromised_key THEN "NotAffected"
  ELSE IF p >= compromise[1].position THEN "TamperedPostPosition"
  ELSE IF anchored_before_claim THEN "ValidPreClaim"
  ELSE "IndeterminateWindow"

-----------------------------------------------------------------------------
(* Types of the reader's state.                                            *)
TypeOK ==
  /\ events \in Seq(SigningKeyEvent)
  /\ recovery \in Key \cup {None}
  /\ compromise = << >> \/ \E c \in CompromiseRecord : compromise = <<c>>
  /\ last_position \in Position
  /\ IsSequence(lines)
  /\ outcome \in {"reading", "ok"} \cup KeyChainError
  /\ (lines = << >>) <=> (events = << >>)

(* Chain of custody: authority over the journal comes from the genesis key *)
(* alone.  Line i declares event i (the seal apart) and is signed by the   *)
(* key of event i - 1, genesis by itself, the seal by the recovery key;    *)
(* and line i names the head of everything before it.                      *)
ChainOfCustody ==
  /\ Len(lines) = Len(events) + (IF Sealed THEN 1 ELSE 0)
  /\ \A i \in 1 .. Len(events) :
       /\ lines[i].position = events[i].position
       /\ lines[i].key = events[i].key
       /\ lines[i].signer = (IF i = 1 THEN events[1].key ELSE events[i - 1].key)
  /\ \A i \in 1 .. Len(lines) :
       lines[i].key_prev = (IF i = 1 THEN GENESIS_PREV
                            ELSE HeadAfter(lines[i - 1].key_prev, lines[i - 1]))
  /\ Sealed => /\ recovery # None
               /\ lines[Len(lines)].signer = recovery
               /\ lines[Len(lines)].position = compromise[1].position

(* Positions ascend strictly from genesis at 0, the seal's being the last. *)
EventsAscend ==
  /\ events # << >> => events[1].position = 0
  /\ \A i, j \in 1 .. Len(events) : i < j => events[i].position < events[j].position
  /\ Sealed => \A i \in 1 .. Len(events) : events[i].position < compromise[1].position

(* From the seal on, one key is authoritative, and only its records can be *)
(* post-compromise: a key that was rotated away before is not found at any *)
(* later position.                                                         *)
SealedAuthority ==
  Sealed => \A p \in Position : p >= compromise[1].position =>
    /\ key_at_position(p) = CurrentKey
    /\ \A b \in BOOLEAN :
         classify_compromise(p, key_at_position(p), b) =
           IF CurrentKey = compromise[1].compromised_key
             THEN "TamperedPostPosition" ELSE "NotAffected"

(* Reading on never changes who signed for a position already covered: a   *)
(* later rotation or seal takes effect strictly after the last line.       *)
AuthorityStable ==
  [][~AtGenesis => \A p \in Position :
       p <= last_position => key_at_position(p)' = key_at_position(p)]_vars
=============================================================================
