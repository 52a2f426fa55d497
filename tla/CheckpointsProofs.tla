-------------------------- MODULE CheckpointsProofs --------------------------
(***************************************************************************)
(* Theorems about the checkpoint chain, for any keys, heads, counts and    *)
(* instants, any authority over positions and any lines.                   *)
(***************************************************************************)
EXTENDS Checkpoints, TLAPS

(* The empty sequence, and what appending to a sequence of elements        *)
(* without a common type does: it keeps what was there and adds one.       *)
LEMMA EmptyIsSequence == IsSequence(<< >>) /\ Len(<< >>) = 0
  BY DEF IsSequence

LEMMA AppendFacts ==
  ASSUME NEW s, NEW e, IsSequence(s)
  PROVE  /\ IsSequence(Append(s, e))
         /\ Len(s) \in Nat
         /\ Len(Append(s, e)) = Len(s) + 1
         /\ \A i \in 1 .. Len(s) : Append(s, e)[i] = s[i]
         /\ Append(s, e)[Len(s) + 1] = e
<1> DEFINE longer == Append(s, e)
<1>1. s \in Seq(Elements(s) \cup {e})
  BY DEF IsSequence
<1>2. /\ longer \in Seq(Elements(s) \cup {e})
      /\ DOMAIN s = 1 .. Len(s) /\ Len(s) \in Nat /\ DOMAIN longer = 1 .. Len(s) + 1
      /\ \A i \in 1 .. Len(s) : longer[i] = s[i]
      /\ longer[Len(s) + 1] = e
  BY <1>1
<1>3. Elements(longer) = Elements(s) \cup {e}
  BY <1>2 DEF Elements
<1>4. QED
  BY <1>1, <1>2, <1>3 DEF IsSequence

(* The head the reader holds is that of the last line.                     *)
RunningHead ==
  cp_head = (IF cp_lines = << >> THEN GENESIS_PREV
             ELSE HeadAfter(cp_lines[Len(cp_lines)].cp_prev, cp_lines[Len(cp_lines)]))

Ascending ==
  \A i, j \in 1 .. Len(checkpoints) :
    i < j => checkpoints[i].position < checkpoints[j].position

Inv == TypeOK /\ Ascending /\ SignedAtOwnPosition /\ ChainedFromGenesis /\ RunningHead

(* Every step but one leaves what was read alone.                          *)
LEMMA StepShape ==
  ASSUME [Next]_vars, outcome \in {"reading", "ok"} \cup CpError
  PROVE  \/ /\ UNCHANGED <<authority, checkpoints, anomalies, cp_head, cp_lines>>
            /\ outcome' \in {"reading", "ok"} \cup CpError
         \/ \E line \in CheckpointLine : Accept(line)
<1> DEFINE Quiet == /\ UNCHANGED <<authority, checkpoints, anomalies, cp_head, cp_lines>>
                    /\ outcome' \in {"reading", "ok"} \cup CpError
<1>0. \A e \in CpError : Reject(e) => Quiet
  BY DEF Reject
<1>1. CASE UNCHANGED vars
  BY <1>1 DEF vars
<1>2. CASE EndOfFile \/ ParseFailure
  BY <1>0, <1>2 DEF EndOfFile, NoLine, ParseFailure, Finish, CpError
<1>3. ASSUME NEW line \in CheckpointLine, Read(line)
      PROVE  Quiet \/ Accept(line)
  BY <1>0, <1>3 DEF Read, NotIncreasing, LinkMismatch, ForeignKeyid, OtherEnvelope,
                    BadSignature, BadTimestamp, CpError
<1>4. QED
  BY <1>1, <1>2, <1>3 DEF Next

LEMMA InitInv == Init => Inv
<1> SUFFICES ASSUME Init PROVE Inv
  OBVIOUS
<1>1. /\ IsSequence(cp_lines) /\ Len(cp_lines) = 0 /\ Len(checkpoints) = 0
      /\ checkpoints \in Seq(Checkpoint) /\ anomalies \in Seq(ClockAnomaly)
  BY EmptyIsSequence DEF Init
<1>2. TypeOK
  BY <1>1 DEF Init, TypeOK
<1>3. Ascending /\ SignedAtOwnPosition /\ ChainedFromGenesis /\ RunningHead
  BY <1>1 DEF Init, Ascending, SignedAtOwnPosition, ChainedFromGenesis, RunningHead
<1>4. QED
  BY <1>2, <1>3 DEF Inv

LEMMA QuietInv ==
  ASSUME Inv, UNCHANGED <<authority, checkpoints, anomalies, cp_head, cp_lines>>,
         outcome' \in {"reading", "ok"} \cup CpError
  PROVE  Inv'
<1>1. TypeOK'
  BY DEF Inv, TypeOK
<1>2. Ascending' /\ SignedAtOwnPosition' /\ ChainedFromGenesis' /\ RunningHead'
  BY DEF Inv, Ascending, SignedAtOwnPosition, ChainedFromGenesis, RunningHead
<1>3. QED
  BY <1>1, <1>2 DEF Inv

(* What is kept of an accepted line, and what is noted about its clock.    *)
LEMMA AcceptShape ==
  ASSUME TypeOK, NEW line \in CheckpointLine, Accept(line)
  PROVE  LET n == Len(checkpoints)
         IN  /\ n \in Nat /\ Len(cp_lines) = n
             /\ checkpoints \in Seq(Checkpoint)
             /\ checkpoints' \in Seq(Checkpoint) /\ Len(checkpoints') = n + 1
             /\ \A i \in 1 .. n : checkpoints'[i] = checkpoints[i]
             /\ checkpoints'[n + 1] = Verified(line)
             /\ IsSequence(cp_lines') /\ Len(cp_lines') = n + 1 /\ cp_lines' # << >>
             /\ \A i \in 1 .. n : cp_lines'[i] = cp_lines[i]
             /\ cp_lines'[n + 1] = line
             /\ anomalies' \in Seq(ClockAnomaly)
             /\ cp_head' = HeadAfter(line.cp_prev, line) /\ line.cp_prev = cp_head
             /\ authority' = authority /\ outcome' = outcome
<1> DEFINE n == Len(checkpoints)
<1>1. /\ checkpoints \in Seq(Checkpoint) /\ anomalies \in Seq(ClockAnomaly)
      /\ IsSequence(cp_lines) /\ Len(cp_lines) = n /\ n \in Nat
  BY DEF TypeOK
<1>2. /\ line.position \in Position /\ line.head \in JournalHead /\ line.count \in Count
      /\ line.at \in Time
  BY DEF CheckpointLine
<1>3. Verified(line) \in Checkpoint
  BY <1>2 DEF Verified, Checkpoint
<1>4. Anomaly(line) \in Seq(ClockAnomaly)
  <2>1. CASE checkpoints # << >> /\ line.at <= Previous.at
    <3> DEFINE a == [position |-> line.position, at |-> line.at,
                     previous_position |-> Previous.position, previous_at |-> Previous.at]
    <3>1. Previous \in Checkpoint
      BY <2>1, <1>1 DEF Previous
    <3>2. a \in ClockAnomaly
      BY <3>1, <1>2 DEF ClockAnomaly, Checkpoint
    <3>3. Anomaly(line) = <<a>>
      BY <2>1 DEF Anomaly
    <3> HIDE DEF a
    <3>4. QED
      BY <3>2, <3>3
  <2>2. CASE ~(checkpoints # << >> /\ line.at <= Previous.at)
    <3>1. Anomaly(line) = << >>
      BY <2>2 DEF Anomaly
    <3>2. QED
      BY <3>1
  <2>3. QED
    BY <2>1, <2>2
<1>5. /\ anomalies' = anomalies \o Anomaly(line)
      /\ checkpoints' = Append(checkpoints, Verified(line))
      /\ cp_lines' = Append(cp_lines, line)
      /\ cp_head' = HeadAfter(cp_head, line) /\ line.cp_prev = cp_head
      /\ authority' = authority /\ outcome' = outcome
  BY DEF Accept, Signed, Linked
<1>6. anomalies' \in Seq(ClockAnomaly)
  BY <1>1, <1>4, <1>5
<1>7. /\ checkpoints' \in Seq(Checkpoint) /\ Len(checkpoints') = n + 1
      /\ \A i \in 1 .. n : checkpoints'[i] = checkpoints[i]
      /\ checkpoints'[n + 1] = Verified(line)
  BY <1>1, <1>3, <1>5
<1>8. /\ IsSequence(cp_lines') /\ Len(cp_lines') = n + 1
      /\ \A i \in 1 .. n : cp_lines'[i] = cp_lines[i]
      /\ cp_lines'[n + 1] = line
  BY <1>1, <1>5, AppendFacts
<1>9. cp_lines' # << >>
  BY <1>1, <1>8, EmptyIsSequence
<1>10. cp_head' = HeadAfter(line.cp_prev, line)
  BY <1>5
<1>11. QED
  BY <1>1, <1>5, <1>6, <1>7, <1>8, <1>9, <1>10

(* An accepted line lies after all that were kept.                         *)
LEMMA AcceptLater ==
  ASSUME Inv, NEW line \in CheckpointLine, Accept(line), NEW i \in 1 .. Len(checkpoints)
  PROVE  checkpoints[i].position < line.position
<1> DEFINE n == Len(checkpoints)
<1>1. checkpoints \in Seq(Checkpoint) /\ n \in Nat /\ i \in 1 .. n /\ n \in 1 .. n
  BY DEF Inv, TypeOK
<1>2. checkpoints[i] \in Checkpoint /\ checkpoints[n] \in Checkpoint
  BY <1>1
<1>3. /\ checkpoints[i].position \in Int /\ checkpoints[n].position \in Int
      /\ line.position \in Int
  BY <1>2, CheckpointsAssumption DEF Checkpoint, CheckpointLine, Position
<1>4. checkpoints # << >>
  BY <1>1
<1>5. checkpoints[n].position < line.position
  BY <1>3, <1>4 DEF Accept, Signed, Linked, Increasing, Previous
<1>6. i = n \/ checkpoints[i].position < checkpoints[n].position
  BY <1>1 DEF Inv, Ascending
<1>7. QED
  BY <1>3, <1>5, <1>6

LEMMA AcceptInv ==
  ASSUME Inv, NEW line \in CheckpointLine, Accept(line)
  PROVE  Inv'
<1> DEFINE n == Len(checkpoints)
<1>1. /\ n \in Nat /\ Len(cp_lines) = n
      /\ checkpoints \in Seq(Checkpoint)
      /\ checkpoints' \in Seq(Checkpoint) /\ Len(checkpoints') = n + 1
      /\ \A i \in 1 .. n : checkpoints'[i] = checkpoints[i]
      /\ checkpoints'[n + 1] = Verified(line)
      /\ IsSequence(cp_lines') /\ Len(cp_lines') = n + 1 /\ cp_lines' # << >>
      /\ \A i \in 1 .. n : cp_lines'[i] = cp_lines[i]
      /\ cp_lines'[n + 1] = line
      /\ anomalies' \in Seq(ClockAnomaly)
      /\ cp_head' = HeadAfter(line.cp_prev, line) /\ line.cp_prev = cp_head
      /\ authority' = authority /\ outcome' = outcome
  BY AcceptShape DEF Inv
<1>2. \A i \in 1 .. n : checkpoints[i].position < line.position
  BY AcceptLater
<1> HIDE DEF n
<1>3. Verified(line).position = line.position /\ Verified(line).head = line.head
  BY DEF Verified
<1>4. TypeOK'
  BY <1>1 DEF Inv, TypeOK
<1>5. Ascending'
  <2>1. ASSUME NEW i \in 1 .. n + 1, NEW j \in 1 .. n + 1, i < j
        PROVE  checkpoints'[i].position < checkpoints'[j].position
    <3>1. i \in 1 .. n
      BY <1>1, <2>1
    <3>2. CASE j = n + 1
      BY <3>1, <3>2, <1>1, <1>2, <1>3
    <3>3. CASE j \in 1 .. n
      BY <2>1, <3>1, <3>3, <1>1 DEF Inv, Ascending, n
    <3>4. QED
      BY <3>2, <3>3, <1>1
  <2>2. QED
    BY <2>1, <1>1 DEF Ascending
<1>6. SignedAtOwnPosition'
  <2>1. ASSUME NEW i \in 1 .. n + 1
        PROVE  /\ cp_lines'[i].position = checkpoints'[i].position
               /\ cp_lines'[i].head = checkpoints'[i].head
               /\ cp_lines'[i].signer = authority[checkpoints'[i].position]
               /\ cp_lines'[i].keyid = cp_lines'[i].signer
    <3>1. CASE i = n + 1
      <4>1. line.signer = authority[line.position] /\ line.keyid = line.signer
        BY DEF Accept, Signed, SignatureValid, DeclaresAuthority
      <4>2. QED
        BY <3>1, <4>1, <1>1, <1>3
    <3>2. CASE i \in 1 .. n
      BY <3>2, <1>1 DEF Inv, SignedAtOwnPosition, n
    <3>3. QED
      BY <3>1, <3>2, <1>1
  <2>2. QED
    BY <2>1, <1>1 DEF SignedAtOwnPosition
<1>7. ChainedFromGenesis'
  <2>1. ASSUME NEW i \in 1 .. n + 1
        PROVE  cp_lines'[i].cp_prev =
                 (IF i = 1 THEN GENESIS_PREV
                  ELSE HeadAfter(cp_lines'[i - 1].cp_prev, cp_lines'[i - 1]))
    <3>1. CASE i = n + 1 /\ n = 0
      <4>1. cp_lines = << >>
        BY <3>1, <1>1 DEF Inv, TypeOK, IsSequence
      <4>2. line.cp_prev = GENESIS_PREV
        BY <4>1, <1>1 DEF Inv, RunningHead
      <4>3. QED
        BY <3>1, <4>2, <1>1
    <3>2. CASE i = n + 1 /\ n # 0
      <4>1. cp_lines # << >>
        BY <3>2, <1>1, EmptyIsSequence
      <4>2. line.cp_prev = HeadAfter(cp_lines[n].cp_prev, cp_lines[n])
        BY <4>1, <1>1 DEF Inv, RunningHead
      <4>3. n \in 1 .. n /\ i # 1 /\ i - 1 = n
        BY <3>2, <1>1
      <4>4. cp_lines'[i] = line /\ cp_lines'[i - 1] = cp_lines[n]
        BY <3>2, <4>3, <1>1
      <4>5. QED
        BY <4>2, <4>3, <4>4
    <3>3. CASE i \in 1 .. n
      <4>1. cp_lines[i].cp_prev = (IF i = 1 THEN GENESIS_PREV
                                   ELSE HeadAfter(cp_lines[i - 1].cp_prev, cp_lines[i - 1]))
        BY <3>3, <1>1 DEF Inv, ChainedFromGenesis
      <4>2. cp_lines'[i] = cp_lines[i] /\ (i # 1 => cp_lines'[i - 1] = cp_lines[i - 1])
        BY <3>3, <1>1
      <4>3. QED
        BY <4>1, <4>2
    <3>4. QED
      BY <3>1, <3>2, <3>3, <1>1
  <2>2. QED
    BY <2>1, <1>1 DEF ChainedFromGenesis
<1>8. RunningHead'
  BY <1>1 DEF RunningHead
<1>9. QED
  BY <1>4, <1>5, <1>6, <1>7, <1>8 DEF Inv

LEMMA NextInv == Inv /\ [Next]_vars => Inv'
<1> SUFFICES ASSUME Inv, [Next]_vars PROVE Inv'
  OBVIOUS
<1>1. outcome \in {"reading", "ok"} \cup CpError
  BY DEF Inv, TypeOK
<1>2. QED
  BY <1>1, StepShape, QuietInv, AcceptInv

(* The reader's state keeps its types, a checkpoint per line.              *)
THEOREM CheckpointTypes == Spec => []TypeOK
<1>1. Inv => TypeOK
  BY DEF Inv
<1>2. QED
  BY <1>1, InitInv, NextInv, PTL DEF Spec

(* A boundary names one checkpoint: the positions ascend.                  *)
LEMMA AscendingUnambiguous ==
  ASSUME Inv
  PROVE  BoundaryUnambiguous
<1> SUFFICES ASSUME NEW i \in 1 .. Len(checkpoints)
             PROVE  checkpoint_at(checkpoints[i].position) = checkpoints[i]
  BY DEF Inv, Ascending, BoundaryUnambiguous
<1> DEFINE j == CHOOSE k \in 1 .. Len(checkpoints) :
                  checkpoints[k].position = checkpoints[i].position
<1>1. j \in 1 .. Len(checkpoints) /\ checkpoints[j].position = checkpoints[i].position
  OBVIOUS
<1>2. checkpoint_at(checkpoints[i].position) = checkpoints[j]
  BY DEF checkpoint_at
<1> HIDE DEF j
<1>3. Len(checkpoints) \in Nat /\ checkpoints[i] \in Checkpoint
  BY DEF Inv, TypeOK
<1>4. checkpoints[i].position \in Int
  BY <1>3, CheckpointsAssumption DEF Checkpoint, Position
<1>5. ~(i < j) /\ ~(j < i)
  BY <1>1, <1>4 DEF Inv, Ascending
<1>6. i = j
  BY <1>1, <1>3, <1>5
<1>7. QED
  BY <1>2, <1>6

(* The head and the count range_bounds trusts are the only ones stated.    *)
THEOREM CheckpointsUnambiguous == Spec => []BoundaryUnambiguous
<1>1. QED
  BY AscendingUnambiguous, InitInv, NextInv, PTL DEF Spec

(* A checkpoint is signed with the authority of its own position.          *)
THEOREM CheckpointsSigned == Spec => []SignedAtOwnPosition
<1>1. Inv => SignedAtOwnPosition
  BY DEF Inv
<1>2. QED
  BY <1>1, InitInv, NextInv, PTL DEF Spec

(* Every line names the head of all the lines before it.                   *)
THEOREM CheckpointsChained == Spec => []ChainedFromGenesis
<1>1. Inv => ChainedFromGenesis
  BY DEF Inv
<1>2. QED
  BY <1>1, InitInv, NextInv, PTL DEF Spec

-----------------------------------------------------------------------------
(* The two sides of ClockReported, before and after a line.                *)
NotedPositions == {anomalies[i].position : i \in 1 .. Len(anomalies)}

Stood == {k \in 2 .. Len(checkpoints) : checkpoints[k].at <= checkpoints[k - 1].at}

StoodPositions == {checkpoints[i].position : i \in Stood}

LEMMA ClockAccept ==
  ASSUME Inv, ClockReported, NEW line \in CheckpointLine, Accept(line)
  PROVE  ClockReported'
<1> DEFINE n == Len(checkpoints)
           m == Len(anomalies)
<1>1. /\ n \in Nat
      /\ checkpoints \in Seq(Checkpoint) /\ Len(checkpoints') = n + 1
      /\ \A i \in 1 .. n : checkpoints'[i] = checkpoints[i]
      /\ checkpoints'[n + 1] = Verified(line)
  BY AcceptShape DEF Inv
<1>2. anomalies \in Seq(ClockAnomaly) /\ m \in Nat /\ anomalies' = anomalies \o Anomaly(line)
  BY DEF Inv, TypeOK, Accept
<1>3. Verified(line).position = line.position /\ Verified(line).at = line.at
  BY DEF Verified
<1>4. line.at \in Int /\ \A i \in 1 .. n : checkpoints[i].at \in Int
  <2>1. \A i \in 1 .. n : checkpoints[i] \in Checkpoint
    BY <1>1
  <2>2. QED
    BY <2>1, CheckpointsAssumption DEF CheckpointLine, Checkpoint
<1>5. NotedPositions = StoodPositions
  BY DEF ClockReported, NotedPositions, StoodPositions, Stood
<1>6. anomalies = << >> =>
        \A i, j \in 1 .. n : i < j => checkpoints[i].at < checkpoints[j].at
  BY DEF ClockReported
<1>7. checkpoints # << >> <=> n # 0
  BY <1>1
<1> HIDE DEF n, m
<1>8. Stood' \ {n + 1} = Stood
  <2>1. ASSUME NEW k \in 2 .. n
        PROVE  checkpoints'[k] = checkpoints[k] /\ checkpoints'[k - 1] = checkpoints[k - 1]
    BY <1>1
  <2>2. 2 .. Len(checkpoints') = 2 .. n + 1 /\ n + 1 \notin 2 .. n
        /\ \A k \in 2 .. n + 1 : k # n + 1 => k \in 2 .. n
    BY <1>1
  <2>3. QED
    BY <2>1, <2>2, <1>1 DEF Stood, n
<1>9. \A k \in Stood : checkpoints'[k] = checkpoints[k]
  BY <1>1 DEF Stood, n
<1>10. CASE n # 0 /\ line.at <= checkpoints[n].at
  <2> DEFINE a == [position |-> line.position, at |-> line.at,
                   previous_position |-> Previous.position, previous_at |-> Previous.at]
  <2>1. Anomaly(line) = <<a>> /\ a.position = line.position
    BY <1>7, <1>10 DEF Anomaly, Previous, n
  <2>2. a \in ClockAnomaly
    <3>1. Previous \in Checkpoint
      BY <1>1, <1>10 DEF Previous, n
    <3>2. QED
      BY <3>1 DEF ClockAnomaly, Checkpoint, CheckpointLine
  <2> HIDE DEF a
  <2>3. /\ Len(anomalies') = m + 1 /\ anomalies'[m + 1] = a
        /\ \A i \in 1 .. m : anomalies'[i] = anomalies[i]
    BY <1>2, <2>1, <2>2 DEF m
  <2>4. NotedPositions' = NotedPositions \cup {line.position}
    <3>1. 1 .. m + 1 = (1 .. m) \cup {m + 1}
      BY <1>2 DEF m
    <3>2. QED
      BY <2>1, <2>3, <3>1 DEF NotedPositions, m
  <2>5. n + 1 \in Stood'
    BY <1>1, <1>3, <1>10 DEF Stood
  <2>6. Stood' = Stood \cup {n + 1}
    BY <1>8, <2>5
  <2>7. StoodPositions' = StoodPositions \cup {line.position}
    BY <1>1, <1>3, <1>9, <2>6 DEF StoodPositions
  <2>8. anomalies' # << >>
    BY <1>2, <2>1, <2>2
  <2>9. QED
    BY <1>5, <2>4, <2>7, <2>8 DEF ClockReported, NotedPositions, StoodPositions, Stood
<1>11. CASE ~(n # 0 /\ line.at <= checkpoints[n].at)
  <2>1. anomalies' = anomalies
    <3>1. Anomaly(line) = << >>
      BY <1>7, <1>11 DEF Anomaly, Previous, n
    <3>2. QED
      BY <1>2, <3>1
  <2>2. n + 1 \notin Stood'
    BY <1>1, <1>3, <1>11 DEF Stood
  <2>3. Stood' = Stood
    BY <1>8, <2>2
  <2>4. StoodPositions' = StoodPositions
    BY <1>9, <2>3 DEF StoodPositions
  <2>5. NotedPositions' = NotedPositions
    BY <2>1 DEF NotedPositions
  <2>6. ASSUME anomalies = << >>, NEW i \in 1 .. n + 1, NEW j \in 1 .. n + 1, i < j
        PROVE  checkpoints'[i].at < checkpoints'[j].at
    <3>1. i \in 1 .. n /\ n # 0 /\ n \in 1 .. n
      BY <1>1, <2>6
    <3>2. CASE j = n + 1
      <4>1. checkpoints[n].at < line.at
        BY <1>4, <1>11, <3>1
      <4>2. i = n \/ checkpoints[i].at < checkpoints[n].at
        BY <1>1, <1>6, <2>6, <3>1
      <4>3. checkpoints[i].at < line.at
        BY <1>4, <3>1, <4>1, <4>2
      <4>4. QED
        BY <1>1, <1>3, <3>1, <3>2, <4>3
    <3>3. CASE j \in 1 .. n
      BY <1>1, <1>6, <2>6, <3>1, <3>3
    <3>4. QED
      BY <1>1, <3>2, <3>3
  <2>7. QED
    BY <1>1, <1>5, <2>1, <2>4, <2>5, <2>6
    DEF ClockReported, NotedPositions, StoodPositions, Stood
<1>12. QED
  BY <1>10, <1>11

(* Exactly the clocks that stand or run back are reported.                 *)
THEOREM CheckpointsClockReported == Spec => []ClockReported
<1>1. Init => Inv /\ ClockReported
  <2>1. ASSUME Init PROVE ClockReported
    BY <2>1, EmptyIsSequence DEF Init, ClockReported
  <2>2. QED
    BY <2>1, InitInv
<1>2. Inv /\ ClockReported /\ [Next]_vars => Inv' /\ ClockReported'
  <2> SUFFICES ASSUME Inv, ClockReported, [Next]_vars PROVE ClockReported'
    BY NextInv
  <2>1. CASE UNCHANGED <<authority, checkpoints, anomalies, cp_head, cp_lines>>
    BY <2>1 DEF ClockReported
  <2>2. CASE \E line \in CheckpointLine : Accept(line)
    BY <2>2, ClockAccept
  <2>3. QED
    BY <2>1, <2>2, StepShape DEF Inv, TypeOK
<1>3. QED
  BY <1>1, <1>2, PTL DEF Spec
=============================================================================
