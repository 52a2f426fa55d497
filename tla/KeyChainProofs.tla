---------------------------- MODULE KeyChainProofs ----------------------------
(***************************************************************************)
(* Theorems about the key sub-chain, for any set of keys, any largest      *)
(* position and any lines.                                                 *)
(***************************************************************************)
EXTENDS KeyChain, TLAPS

(* The empty sequence, and what appending to a sequence of elements        *)
(* without a common type does: it keeps what was there and adds one.       *)
LEMMA EmptyIsSequence == IsSequence(<< >>) /\ Len(<< >>) = 0
  BY DEF IsSequence

LEMMA AppendFacts ==
  ASSUME NEW s, NEW e, IsSequence(s)
  PROVE  /\ IsSequence(Append(s, e))
         /\ Len(s) \in Nat
         /\ Len(Append(s, e)) = Len(s) + 1
         /\ \A i \in 1 .. Len(s) : Append(s, e)[i] = s[i]
         /\ Append(s, e)[Len(s) + 1] = e
<1> DEFINE longer == Append(s, e)
<1>1. s \in Seq(Elements(s) \cup {e})
  BY DEF IsSequence
<1>2. /\ longer \in Seq(Elements(s) \cup {e})
      /\ DOMAIN s = 1 .. Len(s) /\ Len(s) \in Nat /\ DOMAIN longer = 1 .. Len(s) + 1
      /\ \A i \in 1 .. Len(s) : longer[i] = s[i]
      /\ longer[Len(s) + 1] = e
  BY <1>1
<1>3. Elements(longer) = Elements(s) \cup {e}
  BY <1>2 DEF Elements
<1>4. QED
  BY <1>1, <1>2, <1>3 DEF IsSequence

(* What the reader remembers between lines is about the last line.         *)
LastLine ==
  /\ AtGenesis => head = GENESIS_PREV
  /\ ~AtGenesis =>
       /\ last_position = lines[Len(lines)].position
       /\ head = HeadAfter(lines[Len(lines)].key_prev, lines[Len(lines)])

(* Genesis is at 0, so every position has an authoritative event.          *)
Covered ==
  ~AtGenesis => \A p \in Position : \E i \in 1 .. Len(events) : Authoritative(i, p)

Inv == TypeOK /\ ChainOfCustody /\ EventsAscend /\ LastLine /\ Covered

(* Every step but three leaves the chain alone.                            *)
LEMMA StepShape ==
  ASSUME [Next]_vars, outcome \in {"reading", "ok"} \cup KeyChainError
  PROVE  \/ /\ UNCHANGED <<events, recovery, compromise, last_position, head, lines>>
            /\ outcome' \in {"reading", "ok"} \cup KeyChainError
         \/ \E line \in GenesisLine : Genesis(line)
         \/ \E line \in RotationLine : Rotate(line)
         \/ \E line \in CompromiseLine : Compromise(line)
<1> DEFINE Quiet == /\ UNCHANGED <<events, recovery, compromise, last_position, head, lines>>
                    /\ outcome' \in {"reading", "ok"} \cup KeyChainError
<1>0. \A e \in KeyChainError : Reject(e) => Quiet
  BY DEF Reject
<1>1. CASE UNCHANGED vars
  BY <1>1 DEF vars
<1>2. CASE Unreadable \/ OtherKind \/ EndOfFile \/ AfterSeal \/ SecondGenesis \/ NoGenesis
  BY <1>0, <1>2 DEF Unreadable, AfterSeal, ParseFailure, OtherKind, EndOfFile, NoGenesis,
                    SecondGenesis, Finish, KeyChainError, Reject
<1>3. ASSUME NEW line \in GenesisLine, ReadGenesis(line)
      PROVE  Quiet \/ Genesis(line)
  BY <1>0, <1>3 DEF ReadGenesis, GenesisElsewhere, GenesisLinked, GenesisEnvelope,
                    GenesisForeign, KeyChainError
<1>4. ASSUME NEW line \in RotationLine, ReadRotation(line)
      PROVE  Quiet \/ Rotate(line)
  BY <1>0, <1>4 DEF ReadRotation, NotIncreasing, LinkMismatch, RotationEnvelope,
                    ForeignRotation, KeyChainError
<1>5. ASSUME NEW line \in CompromiseLine, ReadCompromise(line)
      PROVE  Quiet \/ Compromise(line)
  BY <1>0, <1>5 DEF ReadCompromise, NotIncreasing, LinkMismatch, NoRecoveryKey,
                    CompromiseEnvelope, ForeignCompromise, CompromiseTime, KeyChainError
<1>6. /\ \A line \in GenesisLine : line.kind = "genesis"
      /\ \A line \in RotationLine : line.kind = "rotation"
      /\ \A line \in CompromiseLine : line.kind = "compromise"
  BY DEF GenesisLine, RotationLine, CompromiseLine
<1>7. CASE \E line \in GenesisLine : ReadLine(line)
  BY <1>2, <1>3, <1>6, <1>7 DEF ReadLine
<1>8. CASE \E line \in RotationLine : ReadLine(line)
  BY <1>2, <1>4, <1>6, <1>8 DEF ReadLine
<1>9. CASE \E line \in CompromiseLine : ReadLine(line)
  BY <1>2, <1>5, <1>6, <1>9 DEF ReadLine
<1>10. QED
  BY <1>1, <1>2, <1>7, <1>8, <1>9 DEF Next

LEMMA InitInv == Init => Inv
<1> SUFFICES ASSUME Init PROVE Inv
  OBVIOUS
<1>1. IsSequence(lines) /\ Len(lines) = 0 /\ Len(events) = 0 /\ events \in Seq(SigningKeyEvent)
  BY EmptyIsSequence DEF Init
<1>2. TypeOK
  BY <1>1, KeyChainAssumption DEF Init, TypeOK, Position
<1>3. ChainOfCustody /\ EventsAscend /\ LastLine /\ Covered
  BY <1>1 DEF Init, ChainOfCustody, EventsAscend, LastLine, Covered, AtGenesis, Sealed
<1>4. QED
  BY <1>2, <1>3 DEF Inv

LEMMA QuietInv ==
  ASSUME Inv, UNCHANGED <<events, recovery, compromise, last_position, head, lines>>,
         outcome' \in {"reading", "ok"} \cup KeyChainError
  PROVE  Inv'
<1>1. TypeOK'
  BY DEF Inv, TypeOK
<1>2. ChainOfCustody' /\ EventsAscend' /\ LastLine' /\ Covered'
  BY DEF Inv, ChainOfCustody, EventsAscend, LastLine, Covered, Authoritative, AtGenesis, Sealed
<1>3. QED
  BY <1>1, <1>2 DEF Inv

(* What accepting a line does to the lines and to what is remembered.      *)
LEMMA ExtendShape ==
  ASSUME TypeOK, NEW line, line.key_prev = head, Extend(line)
  PROVE  /\ Len(lines) \in Nat
         /\ IsSequence(lines') /\ Len(lines') = Len(lines) + 1
         /\ \A i \in 1 .. Len(lines) : lines'[i] = lines[i]
         /\ lines'[Len(lines) + 1] = line
         /\ lines' # << >>
         /\ last_position' = line.position
         /\ outcome' = outcome
         /\ LastLine'
<1>1. IsSequence(lines) /\ lines' = Append(lines, line)
  BY DEF TypeOK, Extend
<1>2. /\ Len(lines) \in Nat
      /\ IsSequence(lines') /\ Len(lines') = Len(lines) + 1
      /\ \A i \in 1 .. Len(lines) : lines'[i] = lines[i]
      /\ lines'[Len(lines) + 1] = line
  BY <1>1, AppendFacts
<1>3. lines' # << >>
  BY <1>2, EmptyIsSequence
<1>4. /\ last_position' = line.position /\ outcome' = outcome
      /\ head' = HeadAfter(line.key_prev, line)
  BY DEF Extend
<1>5. LastLine'
  BY <1>2, <1>3, <1>4 DEF LastLine, AtGenesis
<1>6. QED
  BY <1>2, <1>3, <1>4, <1>5

(* Between genesis and the seal, line i is event i.                        *)
LEMMA ReadableShape ==
  ASSUME Inv, Readable
  PROVE  /\ Len(events) \in Nat \ {0}
         /\ Len(lines) = Len(events)
         /\ compromise = << >>
         /\ last_position = events[Len(events)].position
         /\ \A i \in 1 .. Len(events) :
              events[i].position \in Position /\ events[i].position <= last_position
<1>1. events \in Seq(SigningKeyEvent) /\ events # << >>
  BY DEF Inv, TypeOK, Readable, AtGenesis
<1>2. Len(events) \in Nat \ {0}
  BY <1>1
<1>3. Len(lines) = Len(events) /\ compromise = << >>
  BY <1>2 DEF Inv, ChainOfCustody, Readable, Sealed
<1>4. last_position = events[Len(events)].position
  BY <1>2, <1>3 DEF Inv, LastLine, ChainOfCustody, Readable
<1>5. \A i \in 1 .. Len(events) : events[i].position \in Position
  <2>1. \A i \in 1 .. Len(events) : events[i] \in SigningKeyEvent
    BY <1>1
  <2>2. QED
    BY <2>1 DEF SigningKeyEvent
<1>6. \A i \in 1 .. Len(events) : events[i].position <= last_position
  BY <1>2, <1>4, <1>5, KeyChainAssumption DEF Inv, EventsAscend, Position
<1>7. QED
  BY <1>2, <1>3, <1>4, <1>5, <1>6

-----------------------------------------------------------------------------
LEMMA GenesisInv ==
  ASSUME Inv, NEW line \in GenesisLine, Genesis(line)
  PROVE  Inv'
<1> DEFINE e == [position |-> 0, key |-> line.key]
<1>1. /\ line.position = 0 /\ line.key_prev = GENESIS_PREV /\ line.signer = line.key
      /\ lines = << >> /\ events' = <<e>> /\ recovery' = line.recovery
      /\ compromise' = compromise /\ Extend(line)
  BY DEF Genesis, AtGenesis, SelfSigned
<1>2. line.key \in Key /\ line.recovery \in Key \cup {None}
  BY DEF GenesisLine
<1>3. events = << >> /\ Len(lines) = 0 /\ Len(events) = 0
  BY <1>1, EmptyIsSequence DEF Inv, TypeOK
<1>4. compromise = << >>
  BY <1>3 DEF Inv, ChainOfCustody, Sealed
<1>5. 0 \in Position
  BY KeyChainAssumption DEF Position
<1>6. e \in SigningKeyEvent
  BY <1>2, <1>5 DEF SigningKeyEvent
<1> HIDE DEF e
<1>7. events' \in Seq(SigningKeyEvent) /\ Len(events') = 1 /\ events'[1] = e /\ events' # << >>
  BY <1>1, <1>6
<1>8. e.position = 0 /\ e.key = line.key
  BY DEF e
<1>9. head = GENESIS_PREV
  BY <1>1 DEF Inv, LastLine, AtGenesis
<1>10. /\ IsSequence(lines') /\ Len(lines') = 1 /\ lines'[1] = line /\ lines' # << >>
       /\ last_position' = 0 /\ outcome' = outcome /\ LastLine'
  BY <1>1, <1>3, <1>9, ExtendShape DEF Inv
<1>11. TypeOK'
  BY <1>1, <1>2, <1>4, <1>5, <1>7, <1>10 DEF Inv, TypeOK
<1>12. ChainOfCustody'
  BY <1>1, <1>4, <1>7, <1>8, <1>10 DEF ChainOfCustody, Sealed
<1>13. EventsAscend'
  BY <1>1, <1>4, <1>7, <1>8 DEF EventsAscend, Sealed
<1>14. Covered'
  BY <1>7, <1>8, KeyChainAssumption DEF Covered, Authoritative, Position
<1>15. QED
  BY <1>10, <1>11, <1>12, <1>13, <1>14 DEF Inv

LEMMA RotateInv ==
  ASSUME Inv, NEW line \in RotationLine, Rotate(line)
  PROVE  Inv'
<1> DEFINE n == Len(events)
           e == [position |-> line.position, key |-> line.key]
<1>1. /\ Readable /\ line.position > last_position /\ line.key_prev = head
      /\ line.signer = events[n].key /\ events' = Append(events, e)
      /\ recovery' = recovery /\ compromise' = compromise /\ Extend(line)
  BY DEF Rotate, Chained, Increasing, SignedByPredecessor, CurrentKey
<1>2. /\ n \in Nat \ {0} /\ Len(lines) = n /\ compromise = << >>
      /\ \A i \in 1 .. n : events[i].position \in Position /\ events[i].position <= last_position
  BY <1>1, ReadableShape
<1>3. /\ IsSequence(lines') /\ Len(lines') = n + 1
      /\ \A i \in 1 .. n : lines'[i] = lines[i]
      /\ lines'[n + 1] = line /\ lines' # << >>
      /\ last_position' = line.position /\ outcome' = outcome /\ LastLine'
  BY <1>1, <1>2, ExtendShape DEF Inv
<1>4. line.position \in Position /\ line.key \in Key
  BY DEF RotationLine
<1>5. e \in SigningKeyEvent /\ e.position = line.position /\ e.key = line.key
  BY <1>4 DEF SigningKeyEvent
<1>6. events \in Seq(SigningKeyEvent)
  BY DEF Inv, TypeOK
<1> HIDE DEF e
<1>7. /\ events' \in Seq(SigningKeyEvent) /\ Len(events') = n + 1
      /\ \A i \in 1 .. n : events'[i] = events[i]
      /\ events'[n + 1] = e /\ events' # << >>
  BY <1>1, <1>5, <1>6
<1> HIDE DEF n
<1>8. TypeOK'
  BY <1>1, <1>2, <1>3, <1>4, <1>7 DEF Inv, TypeOK
<1>9. ~Sealed'
  BY <1>1, <1>2 DEF Sealed
<1>10. ChainOfCustody'
  <2>1. ASSUME NEW i \in 1 .. n + 1
        PROVE  /\ lines'[i].position = events'[i].position
               /\ lines'[i].key = events'[i].key
               /\ lines'[i].signer = (IF i = 1 THEN events'[1].key ELSE events'[i - 1].key)
               /\ lines'[i].key_prev = (IF i = 1 THEN GENESIS_PREV
                                        ELSE HeadAfter(lines'[i - 1].key_prev, lines'[i - 1]))
    <3>1. CASE i = n + 1
      <4>1. head = HeadAfter(lines[n].key_prev, lines[n])
        BY <1>1, <1>2 DEF Inv, LastLine, Readable
      <4>2. i # 1 /\ i - 1 = n /\ n \in 1 .. n
        BY <3>1, <1>2
      <4>3. /\ lines'[i] = line /\ events'[i] = e
            /\ lines'[i - 1] = lines[n] /\ events'[i - 1] = events[n]
        BY <3>1, <4>2, <1>3, <1>7
      <4>4. QED
        BY <4>1, <4>2, <4>3, <1>1, <1>5
    <3>2. CASE i \in 1 .. n
      <4>1. /\ lines[i].position = events[i].position
            /\ lines[i].key = events[i].key
            /\ lines[i].signer = (IF i = 1 THEN events[1].key ELSE events[i - 1].key)
            /\ lines[i].key_prev = (IF i = 1 THEN GENESIS_PREV
                                    ELSE HeadAfter(lines[i - 1].key_prev, lines[i - 1]))
        BY <3>2, <1>2 DEF Inv, ChainOfCustody, n
      <4>2. /\ lines'[i] = lines[i] /\ events'[i] = events[i] /\ events'[1] = events[1]
            /\ i # 1 => lines'[i - 1] = lines[i - 1] /\ events'[i - 1] = events[i - 1]
        BY <3>2, <1>2, <1>3, <1>7
      <4>3. QED
        BY <4>1, <4>2
    <3>3. QED
      BY <3>1, <3>2, <1>2
  <2>2. Len(lines') = Len(events') + (IF Sealed' THEN 1 ELSE 0)
    BY <1>2, <1>3, <1>7, <1>9
  <2>3. Len(lines') = n + 1 /\ Len(events') = n + 1
    BY <1>3, <1>7
  <2>4. QED
    BY <2>1, <2>2, <2>3, <1>9 DEF ChainOfCustody
<1>11. EventsAscend'
  <2>1. /\ events[1].position = 0
        /\ \A i, j \in 1 .. n : i < j => events[i].position < events[j].position
    BY <1>1 DEF Inv, EventsAscend, TypeOK, Readable, AtGenesis, n
  <2>2. events'[1].position = 0
    BY <2>1, <1>2, <1>7
  <2>3. ASSUME NEW i \in 1 .. n + 1, NEW j \in 1 .. n + 1, i < j
        PROVE  events'[i].position < events'[j].position
    <3>1. CASE j = n + 1
      <4>1. i \in 1 .. n
        BY <2>3, <3>1, <1>2
      <4>2. /\ events[i].position \in Int /\ last_position \in Int /\ line.position \in Int
            /\ events[i].position <= last_position
        BY <4>1, <1>2, <1>4, KeyChainAssumption DEF Inv, TypeOK, Position
      <4>3. events[i].position < line.position
        BY <4>2, <1>1
      <4>4. QED
        BY <4>1, <4>3, <3>1, <1>5, <1>7
    <3>2. CASE j \in 1 .. n
      BY <2>1, <2>3, <3>2, <1>2, <1>7
    <3>3. QED
      BY <3>1, <3>2, <1>2
  <2>4. QED
    BY <2>2, <2>3, <1>7, <1>9 DEF EventsAscend
<1>12. Covered'
  <2> SUFFICES ASSUME NEW p \in Position
               PROVE  \E i \in 1 .. n + 1 : Authoritative(i, p)'
    BY <1>7 DEF Covered
  <2>1. CASE line.position <= p
    BY <2>1, <1>2, <1>5, <1>7 DEF Authoritative
  <2>2. CASE ~(line.position <= p)
    <3>1. PICK i \in 1 .. n : Authoritative(i, p)
      BY <1>1 DEF Inv, Covered, Readable, n
    <3>2. /\ events'[i].position <= p
          /\ \A j \in i + 1 .. n : events'[j].position > p
      BY <3>1, <1>2, <1>7 DEF Authoritative, n
    <3>3. events'[n + 1].position > p
      BY <2>2, <1>4, <1>5, <1>7, KeyChainAssumption DEF Position
    <3>4. \A j \in i + 1 .. n + 1 : j \in i + 1 .. n \/ j = n + 1
      BY <1>2
    <3>5. Authoritative(i, p)'
      BY <3>2, <3>3, <3>4, <1>7 DEF Authoritative
    <3>6. QED
      BY <3>5, <1>2
  <2>3. QED
    BY <2>1, <2>2
<1>13. QED
  BY <1>3, <1>8, <1>10, <1>11, <1>12 DEF Inv

LEMMA CompromiseInv ==
  ASSUME Inv, NEW line \in CompromiseLine, Compromise(line)
  PROVE  Inv'
<1> DEFINE n == Len(events)
           c == [position |-> line.position, compromised_key |-> line.key]
<1>1. /\ Readable /\ line.position > last_position /\ line.key_prev = head
      /\ recovery # None /\ line.signer = recovery
      /\ compromise' = <<c>> /\ events' = events /\ recovery' = recovery /\ Extend(line)
  BY DEF Compromise, Chained, Increasing, SignedByRecovery
<1>2. /\ n \in Nat \ {0} /\ Len(lines) = n /\ compromise = << >>
      /\ \A i \in 1 .. n : events[i].position \in Position /\ events[i].position <= last_position
  BY <1>1, ReadableShape
<1>3. /\ IsSequence(lines') /\ Len(lines') = n + 1
      /\ \A i \in 1 .. n : lines'[i] = lines[i]
      /\ lines'[n + 1] = line /\ lines' # << >>
      /\ last_position' = line.position /\ outcome' = outcome /\ LastLine'
  BY <1>1, <1>2, ExtendShape DEF Inv
<1>4. line.position \in Position /\ line.key \in Key
  BY DEF CompromiseLine
<1>5. c \in CompromiseRecord /\ c.position = line.position
  BY <1>4 DEF CompromiseRecord
<1> HIDE DEF c
<1>6. Sealed' /\ compromise'[1] = c
  BY <1>1 DEF Sealed
<1> HIDE DEF n
<1>7. TypeOK'
  BY <1>1, <1>3, <1>4, <1>5 DEF Inv, TypeOK, Readable, AtGenesis
<1>8. ChainOfCustody'
  <2>1. ASSUME NEW i \in 1 .. n
        PROVE  /\ lines'[i].position = events'[i].position
               /\ lines'[i].key = events'[i].key
               /\ lines'[i].signer = (IF i = 1 THEN events'[1].key ELSE events'[i - 1].key)
    BY <1>1, <1>2, <1>3 DEF Inv, ChainOfCustody, n
  <2>2. ASSUME NEW i \in 1 .. n + 1
        PROVE  lines'[i].key_prev = (IF i = 1 THEN GENESIS_PREV
                                     ELSE HeadAfter(lines'[i - 1].key_prev, lines'[i - 1]))
    <3>1. CASE i = n + 1
      <4>1. head = HeadAfter(lines[n].key_prev, lines[n])
        BY <1>1, <1>2 DEF Inv, LastLine, Readable
      <4>2. i # 1 /\ i - 1 = n /\ n \in 1 .. n
        BY <3>1, <1>2
      <4>3. lines'[i] = line /\ lines'[i - 1] = lines[n]
        BY <3>1, <4>2, <1>3
      <4>4. QED
        BY <4>1, <4>2, <4>3, <1>1
    <3>2. CASE i \in 1 .. n
      <4>1. lines[i].key_prev = (IF i = 1 THEN GENESIS_PREV
                                 ELSE HeadAfter(lines[i - 1].key_prev, lines[i - 1]))
        BY <3>2, <1>2 DEF Inv, ChainOfCustody
      <4>2. lines'[i] = lines[i] /\ (i # 1 => lines'[i - 1] = lines[i - 1])
        BY <3>2, <1>2, <1>3
      <4>3. QED
        BY <4>1, <4>2
    <3>3. QED
      BY <3>1, <3>2, <1>2
  <2>3. Len(events') = n /\ lines'[Len(lines')] = line
    BY <1>1, <1>3 DEF n
  <2>4. QED
    BY <2>1, <2>2, <2>3, <1>1, <1>2, <1>3, <1>5, <1>6 DEF ChainOfCustody
<1>9. EventsAscend'
  <2>1. /\ events # << >> => events[1].position = 0
        /\ \A i, j \in 1 .. n : i < j => events[i].position < events[j].position
    BY DEF Inv, EventsAscend, n
  <2>2. ASSUME NEW i \in 1 .. n
        PROVE  events[i].position < line.position
    <3>1. /\ events[i].position \in Int /\ last_position \in Int /\ line.position \in Int
          /\ events[i].position <= last_position
      BY <1>2, <1>4, KeyChainAssumption DEF Inv, TypeOK, Position
    <3>2. QED
      BY <3>1, <1>1
  <2>3. QED
    BY <2>1, <2>2, <1>1, <1>5, <1>6 DEF EventsAscend, n
<1>10. Covered'
  BY <1>1 DEF Inv, Covered, Authoritative, Readable
<1>11. QED
  BY <1>3, <1>7, <1>8, <1>9, <1>10 DEF Inv

LEMMA NextInv == Inv /\ [Next]_vars => Inv'
<1> SUFFICES ASSUME Inv, [Next]_vars PROVE Inv'
  OBVIOUS
<1>1. outcome \in {"reading", "ok"} \cup KeyChainError
  BY DEF Inv, TypeOK
<1>2. QED
  BY <1>1, StepShape, QuietInv, GenesisInv, RotateInv, CompromiseInv

(* The reader's state keeps its types.                                     *)
THEOREM KeyTypes == Spec => []TypeOK
<1>1. Inv => TypeOK
  BY DEF Inv
<1>2. QED
  BY <1>1, InitInv, NextInv, PTL DEF Spec

(* Authority over the journal comes from the genesis key alone, link by    *)
(* link, and the seal from the recovery key that genesis declared.         *)
THEOREM KeyChainOfCustody == Spec => []ChainOfCustody
<1>1. Inv => ChainOfCustody
  BY DEF Inv
<1>2. QED
  BY <1>1, InitInv, NextInv, PTL DEF Spec

(* Positions ascend strictly from genesis at 0 to the seal.                *)
THEOREM KeyEventsAscend == Spec => []EventsAscend
<1>1. Inv => EventsAscend
  BY DEF Inv
<1>2. QED
  BY <1>1, InitInv, NextInv, PTL DEF Spec

-----------------------------------------------------------------------------
(* At most one event is authoritative for a position: whichever is chosen  *)
(* is that one.  Stated of any sequence, for use before and after a step.  *)
LEMMA OneAuthority ==
  ASSUME NEW es \in Seq(SigningKeyEvent), NEW p \in Position, NEW i \in 1 .. Len(es),
         es[i].position <= p, \A k \in i + 1 .. Len(es) : es[k].position > p
  PROVE  es[CHOOSE j \in 1 .. Len(es) :
              /\ es[j].position <= p
              /\ \A k \in j + 1 .. Len(es) : es[k].position > p] = es[i]
<1> DEFINE j == CHOOSE m \in 1 .. Len(es) :
                  /\ es[m].position <= p
                  /\ \A k \in m + 1 .. Len(es) : es[k].position > p
<1>1. /\ j \in 1 .. Len(es)
      /\ es[j].position <= p
      /\ \A k \in j + 1 .. Len(es) : es[k].position > p
  OBVIOUS
<1> HIDE DEF j
<1>2. es[i] \in SigningKeyEvent /\ es[j] \in SigningKeyEvent /\ Len(es) \in Nat
  BY <1>1
<1>3. es[i].position \in Int /\ es[j].position \in Int /\ p \in Int
  BY <1>2, KeyChainAssumption DEF SigningKeyEvent, Position
<1>4. ~(i < j) /\ ~(j < i)
  BY <1>1, <1>2, <1>3
<1>5. i = j
  BY <1>1, <1>2, <1>4
<1>6. QED
  BY <1>5 DEF j

LEMMA KeyAtPosition ==
  ASSUME Inv, NEW p \in Position, NEW i \in 1 .. Len(events), Authoritative(i, p)
  PROVE  key_at_position(p) = events[i].key
<1>1. events \in Seq(SigningKeyEvent)
  BY DEF Inv, TypeOK
<1>2. QED
  BY <1>1, OneAuthority DEF key_at_position, Authoritative

(* From the seal on the last key is the authority.                         *)
LEMMA SealedAuthorityInv == Inv => SealedAuthority
<1> SUFFICES ASSUME Inv, Sealed, NEW p \in Position, p >= compromise[1].position
             PROVE  /\ key_at_position(p) = CurrentKey
                    /\ \A b \in BOOLEAN :
                         classify_compromise(p, key_at_position(p), b) =
                           IF CurrentKey = compromise[1].compromised_key
                             THEN "TamperedPostPosition" ELSE "NotAffected"
  BY DEF SealedAuthority
<1> DEFINE n == Len(events)
<1>1. events \in Seq(SigningKeyEvent) /\ IsSequence(lines)
  BY DEF Inv, TypeOK
<1>2. n \in Nat \ {0}
  <2>1. Len(lines) = n + 1 /\ n \in Nat
    BY <1>1 DEF Inv, ChainOfCustody
  <2>2. lines # << >>
    BY <2>1, EmptyIsSequence
  <2>3. events # << >>
    BY <2>2 DEF Inv, TypeOK
  <2>4. QED
    BY <2>3, <1>1
<1>3. events[n] \in SigningKeyEvent /\ events[n].position < compromise[1].position
  BY <1>1, <1>2 DEF Inv, EventsAscend
<1>4. /\ events[n].position \in Int /\ p \in Int /\ compromise[1].position \in Int
  <2>1. PICK c \in CompromiseRecord : compromise = <<c>>
    BY DEF Inv, TypeOK, Sealed
  <2>2. compromise[1] \in CompromiseRecord
    BY <2>1
  <2>3. QED
    BY <1>3, <2>2, KeyChainAssumption DEF SigningKeyEvent, CompromiseRecord, Position
<1>5. n \in 1 .. n /\ Authoritative(n, p)
  BY <1>2, <1>3, <1>4 DEF Authoritative
<1>6. key_at_position(p) = CurrentKey
  BY <1>5, KeyAtPosition DEF CurrentKey
<1>7. QED
  BY <1>6 DEF classify_compromise

(* A journal sealed for a compromise has one authority from there on.      *)
THEOREM KeySealedAuthority == Spec => []SealedAuthority
<1>1. QED
  BY SealedAuthorityInv, InitInv, NextInv, PTL DEF Spec

(* A step leaves the authority on every covered position where it was.     *)
LEMMA StableStep ==
  ASSUME Inv, Inv', [Next]_vars, ~AtGenesis, NEW p \in Position, p <= last_position
  PROVE  key_at_position(p)' = key_at_position(p)
<1>1. CASE events' = events
  BY <1>1 DEF key_at_position, Authoritative
<1>2. ASSUME NEW line \in RotationLine, Rotate(line)
      PROVE  key_at_position(p)' = key_at_position(p)
  <2> DEFINE n == Len(events)
             e == [position |-> line.position, key |-> line.key]
  <2>1. Readable /\ line.position > last_position /\ events' = Append(events, e)
    BY <1>2 DEF Rotate, Chained, Increasing
  <2>2. events \in Seq(SigningKeyEvent) /\ n \in Nat
    BY DEF Inv, TypeOK
  <2>3. line.position \in Position /\ e \in SigningKeyEvent /\ e.position = line.position
    BY DEF RotationLine, SigningKeyEvent
  <2> HIDE DEF e
  <2>4. /\ Len(events') = n + 1 /\ events'[n + 1] = e
        /\ \A i \in 1 .. n : events'[i] = events[i]
    BY <2>1, <2>2, <2>3
  <2>5. PICK i \in 1 .. n : Authoritative(i, p)
    BY DEF Inv, Covered
  <2>6. /\ events'[i].position <= p
        /\ \A j \in i + 1 .. n : events'[j].position > p
    BY <2>4, <2>5 DEF Authoritative
  <2>7. events'[n + 1].position > p
    BY <2>1, <2>3, <2>4, KeyChainAssumption DEF Inv, TypeOK, Position
  <2>8. \A j \in i + 1 .. n + 1 : j \in i + 1 .. n \/ j = n + 1
    BY <2>2
  <2>9. i \in 1 .. Len(events') /\ Authoritative(i, p)'
    BY <2>2, <2>4, <2>6, <2>7, <2>8 DEF Authoritative
  <2>10. key_at_position(p)' = events'[i].key
    <3>1. events' \in Seq(SigningKeyEvent)
      BY DEF Inv, TypeOK
    <3>2. QED
      BY <2>9, <3>1, OneAuthority DEF key_at_position, Authoritative
  <2>11. QED
    BY <2>4, <2>5, <2>10, KeyAtPosition
<1>3. CASE \E line \in GenesisLine : Genesis(line)
  BY <1>3 DEF Genesis
<1>4. CASE \E line \in CompromiseLine : Compromise(line)
  BY <1>1, <1>4 DEF Compromise
<1>5. QED
  BY <1>1, <1>2, <1>3, <1>4, StepShape DEF Inv, TypeOK

(* Reading on never changes who signed for a position already covered.     *)
THEOREM KeyAuthorityStable == Spec => AuthorityStable
<1>1. Inv /\ Inv' /\ [Next]_vars =>
        [~AtGenesis => \A p \in Position :
           p <= last_position => key_at_position(p)' = key_at_position(p)]_vars
  BY StableStep
<1>2. QED
  BY <1>1, InitInv, NextInv, PTL DEF Spec, AuthorityStable
=============================================================================
