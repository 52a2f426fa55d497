------------------------ MODULE EvidencePipelineProofs ------------------------
(***************************************************************************)
(* What holds of every export and its verification, for every bound of     *)
(* EvidencePipeline.                                                       *)
(*                                                                         *)
(* The proofs go forward along the verification: what each stage has read  *)
(* (KeyInv, CheckpointInv, WalkInv) and what each check behind it rules    *)
(* out of a run without a finding that blocks (FilesInv, FindingsInv).     *)
(* At the verdict the checks are held against the bundle as it was built   *)
(* (BuiltInv), and that against the recipe.                                *)
(*                                                                         *)
(* The other way round, an export whose recipe is honest is followed line  *)
(* by line through the same stages: no reader refuses a line of it, no     *)
(* check has anything to find (OnCourse, HonestInv).                       *)
(***************************************************************************)
EXTENDS EvidencePipeline, SequenceTypes, FiniteSetTheorems, WellFoundedInduction,
        NaturalsInduction, TLAPS

-----------------------------------------------------------------------------
(* Sequences.                                                              *)

(* A set of naturals that is not empty has a least element.                *)
LEMMA Lowest ==
  ASSUME NEW T \in SUBSET Nat, T # {}
  PROVE  \E p \in T : \A q \in T : p <= q
<1>1. PICK p \in T : \A q \in T : <<q, p>> \notin OpToRel(<, Nat)
  BY NatLessThanWellFounded, WFMin
<1>2. ASSUME NEW q \in T PROVE ~(q < p)
  <2>1. <<q, p>> \in Nat \X Nat /\ <<q, p>> \notin OpToRel(<, Nat)
    BY <1>1
  <2> QED
    BY <2>1 DEF OpToRel
<1> QED
  BY <1>2

LEMMA EmptyIsSequence == IsSequence(<< >>) /\ Len(<< >>) = 0 /\ Elements(<< >>) = {}
  BY DEF IsSequence, Elements

LEMMA OneIsSequence ==
  ASSUME NEW e PROVE IsSequence(<<e>>) /\ Elements(<<e>>) = {e}
<1>1. <<e>> \in Seq({e}) /\ DOMAIN <<e>> = {1} /\ <<e>>[1] = e
  OBVIOUS
<1>2. Elements(<<e>>) = {e}
  BY <1>1 DEF Elements
<1> QED
  BY <1>1, <1>2 DEF IsSequence

LEMMA SequenceDomain ==
  ASSUME NEW s, IsSequence(s)
  PROVE  Len(s) \in Nat /\ DOMAIN s = 1 .. Len(s) /\ s = [i \in 1 .. Len(s) |-> s[i]]
BY DEF IsSequence

LEMMA ComprehensionIsSequence ==
  ASSUME NEW n \in Nat, NEW s, DOMAIN s = 1 .. n, s = [i \in 1 .. n |-> s[i]]
  PROVE  IsSequence(s) /\ Len(s) = n
<1>1. \A i \in 1 .. n : s[i] \in Elements(s)
  BY DEF Elements
<1>2. s \in [1 .. n -> Elements(s)]
  BY <1>1, Zenon
<1> QED
  BY <1>2 DEF IsSequence

LEMMA AppendFacts ==
  ASSUME NEW s, NEW e, IsSequence(s)
  PROVE  /\ IsSequence(Append(s, e))
         /\ Len(s) \in Nat
         /\ Len(Append(s, e)) = Len(s) + 1
         /\ \A i \in 1 .. Len(s) : Append(s, e)[i] = s[i]
         /\ Append(s, e)[Len(s) + 1] = e
<1> DEFINE longer == Append(s, e)
<1>1. s \in Seq(Elements(s) \cup {e})
  BY DEF IsSequence
<1>2. /\ longer \in Seq(Elements(s) \cup {e})
      /\ DOMAIN s = 1 .. Len(s) /\ Len(s) \in Nat /\ DOMAIN longer = 1 .. Len(s) + 1
      /\ \A i \in 1 .. Len(s) : longer[i] = s[i]
      /\ longer[Len(s) + 1] = e
  BY <1>1
<1>3. Elements(longer) = Elements(s) \cup {e}
  BY <1>2 DEF Elements
<1>4. QED
  BY <1>1, <1>2, <1>3 DEF IsSequence

LEMMA Joined ==
  ASSUME NEW s, NEW t, IsSequence(s), IsSequence(t)
  PROVE  IsSequence(s \o t) /\ Elements(s \o t) = Elements(s) \cup Elements(t)
<1> DEFINE T == Elements(s) \cup Elements(t)
           both == s \o t
<1>1. s \in Seq(T) /\ t \in Seq(T)
  BY DEF IsSequence
<1> HIDE DEF T
<1>2. both \in Seq(T) /\ Len(both) = Len(s) + Len(t) /\ Len(s) \in Nat /\ Len(t) \in Nat
      /\ DOMAIN s = 1 .. Len(s) /\ DOMAIN t = 1 .. Len(t) /\ DOMAIN both = 1 .. Len(s) + Len(t)
  BY <1>1
<1>3. \A i \in 1 .. Len(s) : both[i] = s[i]
  BY <1>1
<1>4. \A i \in 1 .. Len(t) : both[Len(s) + i] = t[i]
  BY <1>1
<1>5. \A i \in 1 .. Len(s) + Len(t) : i \in 1 .. Len(s) \/ i - Len(s) \in 1 .. Len(t)
  BY <1>2
<1>6. \A i \in DOMAIN both : both[i] \in T
  BY <1>2
<1>7. Elements(s) \subseteq Elements(both)
  BY <1>2, <1>3 DEF Elements
<1>8. Elements(t) \subseteq Elements(both)
  <2> SUFFICES ASSUME NEW i \in 1 .. Len(t) PROVE t[i] \in Elements(both)
    BY <1>2 DEF Elements
  <2>1. Len(s) + i \in DOMAIN both /\ both[Len(s) + i] = t[i]
    BY <1>2, <1>4
  <2> QED
    BY <2>1 DEF Elements
<1>9. Elements(both) = T
  <2>1. Elements(both) \subseteq T
    BY <1>6 DEF Elements
  <2> QED
    BY <2>1, <1>7, <1>8 DEF T
<1> QED
  BY <1>2, <1>9 DEF IsSequence, T

(* The recursion of FlattenSeq has a solution.                             *)
Flattening(seqs, n, f) ==
  f = [i \in 1 .. n |-> IF i = 1 THEN seqs[i] ELSE f[i - 1] \o seqs[i]]

LEMMA FlatteningExists ==
  ASSUME NEW seqs, NEW n \in Nat
  PROVE  \E f : Flattening(seqs, n, f)
<1> SUFFICES ASSUME {m \in Nat : ~(\E f : Flattening(seqs, m, f))} # {}
             PROVE  FALSE
  OBVIOUS
<1>1. PICK m \in {k \in Nat : ~(\E f : Flattening(seqs, k, f))} :
        \A q \in {k \in Nat : ~(\E f : Flattening(seqs, k, f))} : m <= q
  BY Lowest
<1>2. m # 0
  <2> DEFINE f == [i \in 1 .. 0 |-> seqs[i]]
  <2>1. Flattening(seqs, 0, f)
    BY DEF Flattening
  <2> QED
    BY <1>1, <2>1
<1>3. m - 1 \in Nat /\ ~(m <= m - 1)
  BY <1>1, <1>2
<1>4. PICK g : Flattening(seqs, m - 1, g)
  BY <1>1, <1>3
<1> DEFINE last == IF m = 1 THEN seqs[m] ELSE g[m - 1] \o seqs[m]
           f == [i \in 1 .. m |-> IF i = m THEN last ELSE g[i]]
<1>5. ASSUME NEW i \in 1 .. m
      PROVE  f[i] = IF i = 1 THEN seqs[i] ELSE f[i - 1] \o seqs[i]
  <2>1. CASE i = m
    <3>1. i # 1 => i - 1 \in 1 .. m /\ i - 1 # m
      BY <1>1, <2>1
    <3> QED
      BY <2>1, <3>1
  <2>2. CASE i # m
    <3>1. i \in 1 .. m - 1 /\ (i # 1 => i - 1 \in 1 .. m /\ i - 1 # m)
      BY <1>1, <2>2
    <3>2. g[i] = IF i = 1 THEN seqs[i] ELSE g[i - 1] \o seqs[i]
      BY <1>4, <3>1, Zenon DEF Flattening
    <3> QED
      BY <2>2, <3>1, <3>2
  <2> QED
    BY <2>1, <2>2
<1>6. Flattening(seqs, m, f)
  <2>1. f = [i \in 1 .. m |-> f[i]]
    OBVIOUS
  <2> HIDE DEF f
  <2> QED
    BY <1>5, <2>1, Zenon DEF Flattening
<1> QED
  BY <1>1, <1>6

LEMMA Flattened ==
  ASSUME NEW seqs, IsSequence(seqs), \A i \in DOMAIN seqs : IsSequence(seqs[i])
  PROVE  /\ IsSequence(FlattenSeq(seqs))
         /\ Elements(FlattenSeq(seqs)) = UNION {Elements(seqs[i]) : i \in DOMAIN seqs}
<1> DEFINE n == Len(seqs)
           f == CHOOSE g : g = [i \in 1 .. n |-> IF i = 1 THEN seqs[i] ELSE g[i - 1] \o seqs[i]]
           Upto(k) == UNION {Elements(seqs[i]) : i \in 1 .. k}
           bad == {k \in 1 .. n : ~(IsSequence(f[k]) /\ Elements(f[k]) = Upto(k))}
<1>1. n \in Nat /\ DOMAIN seqs = 1 .. n
  BY SequenceDomain
<1>2. CASE n = 0
  <2>1. seqs = << >>
    BY <1>1, <1>2, SequenceDomain
  <2>2. FlattenSeq(seqs) = << >> /\ DOMAIN seqs = {}
    BY <1>2, <2>1, <1>1 DEF FlattenSeq
  <2> QED
    BY <2>2, EmptyIsSequence
<1>3. CASE n # 0
  <2>1. FlattenSeq(seqs) = f[n]
    BY <1>3 DEF FlattenSeq
  <2>2. f = [i \in 1 .. n |-> IF i = 1 THEN seqs[i] ELSE f[i - 1] \o seqs[i]]
    <3>1. \E g : g = [i \in 1 .. n |-> IF i = 1 THEN seqs[i] ELSE g[i - 1] \o seqs[i]]
      BY <1>1, FlatteningExists DEF Flattening
    <3> QED
      BY <3>1, Zenon
  <2> HIDE DEF f, n
  <2>3. f[1] = seqs[1]
    BY <2>2, <1>1, <1>3
  <2>4. \A i \in 1 .. n : i # 1 => f[i] = f[i - 1] \o seqs[i]
    BY <2>2, Zenon
  <2>5. bad = {}
    <3> SUFFICES ASSUME bad # {} PROVE FALSE
      OBVIOUS
    <3>1. bad \in SUBSET Nat
      BY <1>1
    <3>2. PICK k \in bad : \A q \in bad : k <= q
      BY <3>1, Lowest
    <3>3. k \in 1 .. n
      BY <3>2
    <3>4. CASE k = 1
      <4>1. Upto(1) = Elements(seqs[1])
        OBVIOUS
      <4>2. IsSequence(seqs[1])
        BY <3>3, <3>4, <1>1
      <4> QED
        BY <2>3, <3>2, <3>4, <4>1, <4>2
    <3>5. CASE k # 1
      <4>1. k - 1 \in 1 .. n /\ ~(k <= k - 1)
        BY <3>3, <3>5, <1>1
      <4>2. IsSequence(f[k - 1]) /\ Elements(f[k - 1]) = Upto(k - 1)
        BY <4>1, <3>2
      <4>3. f[k] = f[k - 1] \o seqs[k] /\ IsSequence(seqs[k])
        BY <2>4, <3>3, <3>5, <1>1
      <4>4. IsSequence(f[k]) /\ Elements(f[k]) = Upto(k - 1) \cup Elements(seqs[k])
        BY <4>2, <4>3, Joined
      <4>5. 1 .. k = (1 .. k - 1) \cup {k}
        BY <3>3, <1>1
      <4>6. Upto(k) = Upto(k - 1) \cup Elements(seqs[k])
        BY <4>5
      <4> QED
        BY <4>4, <4>6, <3>2
    <3> QED
      BY <3>4, <3>5
  <2>6. n \in 1 .. n
    BY <1>1, <1>3
  <2> QED
    BY <2>1, <2>5, <2>6, <1>1
<1> QED
  BY <1>2, <1>3

-----------------------------------------------------------------------------
(* Verdicts without a finding that blocks.                                 *)

(* A sequence of findings none of which stands in the way of VALID.        *)
Clear(s) == \A f \in Elements(s) : f.row \in Informational

LEMMA ClassifyClear ==
  ASSUME NEW s, IsSequence(s)
  PROVE  classify(s).verdict = "VALID" <=> Clear(s)
<1> DEFINE mapped == [i \in DOMAIN s |-> Mapped(s[i])]
           tampered == {i \in DOMAIN mapped : is_blocking_tampered(mapped[i].row)}
           unverifiable == {i \in DOMAIN mapped : is_blocking_cannot_verify(mapped[i].row)}
<1>1. classify(s).verdict = "VALID" <=> tampered = {} /\ unverifiable = {}
  BY DEF classify
<1>2. ASSUME NEW f
      PROVE  /\ is_blocking_tampered(Mapped(f).row) => f.row \notin Informational
             /\ is_blocking_cannot_verify(Mapped(f).row) => f.row \notin Informational
             /\ f.row \notin Informational =>
                  \/ is_blocking_tampered(Mapped(f).row)
                  \/ is_blocking_cannot_verify(Mapped(f).row)
  BY DEF Mapped, is_blocking_tampered, is_blocking_cannot_verify, Informational, Finding
<1>3. \A i \in DOMAIN s : mapped[i] = Mapped(s[i])
  OBVIOUS
<1>4. DOMAIN mapped = DOMAIN s
  OBVIOUS
<1>5. tampered = {} /\ unverifiable = {} <=> \A i \in DOMAIN s : s[i].row \in Informational
  BY <1>2, <1>3, <1>4
<1> QED
  BY <1>1, <1>5 DEF Clear, Elements

LEMMA ClearJoined ==
  ASSUME NEW s, NEW t, IsSequence(s), IsSequence(t)
  PROVE  IsSequence(s \o t) /\ (Clear(s \o t) <=> Clear(s) /\ Clear(t))
<1>1. IsSequence(s \o t) /\ Elements(s \o t) = Elements(s) \cup Elements(t)
  BY Joined
<1> QED
  BY <1>1 DEF Clear

LEMMA ClearOne ==
  ASSUME NEW row, NEW position
  PROVE  /\ IsSequence(<< Finding(row, position) >>)
         /\ Clear(<< Finding(row, position) >>) <=> row \in Informational
<1>1. Elements(<< Finding(row, position) >>) = {Finding(row, position)}
  BY OneIsSequence
<1> QED
  BY <1>1, OneIsSequence DEF Clear, Finding

LEMMA ClearNone == IsSequence(<< >>) /\ Clear(<< >>)
BY EmptyIsSequence DEF Clear

LEMMA ClearFlattened ==
  ASSUME NEW seqs, IsSequence(seqs), \A i \in DOMAIN seqs : IsSequence(seqs[i])
  PROVE  /\ IsSequence(FlattenSeq(seqs))
         /\ Clear(FlattenSeq(seqs)) <=> \A i \in DOMAIN seqs : Clear(seqs[i])
BY Flattened DEF Clear

(* A phase that ends early never ends with VALID.                          *)
LEMMA TerminalIsNotValid ==
  ASSUME NEW row, NEW position, row \notin Informational, Terminal(Finding(row, position))
  PROVE  stage' = "done" /\ report'.verdict # "VALID"
<1>1. classify(<< Finding(row, position) >>).verdict # "VALID"
  BY ClassifyClear, ClearOne
<1> QED
  BY <1>1 DEF Terminal

-----------------------------------------------------------------------------
(* What the key chain has read.                                            *)

KeyFile == Bytes(KeysFile)

(* What a line must be to be accepted after those before it.               *)
KeyLineOK(i) ==
  /\ Parses(KeysFile, i)
  /\ KeyFile[i].envelope = "keyrecord"
  /\ i = 1 =>
       /\ KeyFile[1].kind = "genesis"
       /\ KeyFile[1].position = 0 /\ KeyFile[1].key_prev = GENESIS_PREV
       /\ KeyFile[1].signer = KeyFile[1].key
  /\ i # 1 =>
       /\ KeyFile[i].kind \in {"rotation", "compromise"}
       /\ KeyFile[i - 1].kind # "compromise"
       /\ KeyFile[i].position > KeyFile[i - 1].position
       /\ KeyFile[i].key_prev = HeadAfter(KeyFile[i - 1].key_prev, KeyFile[i - 1])
       /\ KeyFile[i].kind = "rotation" => KeyFile[i].signer = KeyFile[i - 1].key
       /\ KeyFile[i].kind = "compromise" =>
            /\ KeyFile[1].recovery # NoKey
            /\ KeyFile[i].signer = KeyFile[1].recovery
            /\ KeyFile[i].time = "rfc3339"

KeyEvent(i) == [position |-> KeyFile[i].position, key |-> KeyFile[i].key]

KeySeal(i) ==
  IF KeyFile[i].kind = "compromise"
    THEN << [position |-> KeyFile[i].position, compromised_key |-> KeyFile[i].key] >>
    ELSE << >>

(* What the key chain remembers is what its file holds as far as it has    *)
(* been read.                                                              *)
KeyMemory(n) ==
  /\ n = 0 => /\ k_compromise = << >> /\ k_recovery = NoKey /\ k_position = 0
              /\ k_head = GENESIS_PREV /\ Len(k_events) = 0
  /\ n # 0 => /\ k_recovery = KeyFile[1].recovery
              /\ k_position = KeyFile[n].position
              /\ k_head = HeadAfter(KeyFile[n].key_prev, KeyFile[n])
              /\ k_compromise = KeySeal(n)
              /\ Len(k_events) = IF KeyFile[n].kind = "compromise" THEN n - 1 ELSE n

KeyInv ==
  /\ IsSequence(k_lines) /\ IsSequence(k_events)
  /\ \A i \in 1 .. Len(k_lines) : i \in DOMAIN KeyFile /\ k_lines[i] = KeyFile[i] /\ KeyLineOK(i)
  /\ KeyMemory(Len(k_lines))
  /\ \A i \in 1 .. Len(k_events) : k_events[i] = KeyEvent(i)
  /\ k_outcome \in {"reading", "ok"} \cup Keys!KeyChainError

LEMMA KeyReadLine ==
  ASSUME NEW line, Keys!ReadLine(line)
  PROVE  \/ \E e \in Keys!KeyChainError : Keys!Reject(e)
         \/ line.kind = "genesis" /\ Keys!Genesis(line)
         \/ line.kind = "rotation" /\ Keys!Rotate(line)
         \/ line.kind = "compromise" /\ Keys!Compromise(line)
<1>1. Keys!AfterSeal => Keys!Reject("JournalSealed")
  BY DEF Keys!AfterSeal
<1>2. Keys!NoGenesis => Keys!Reject("MissingGenesis")
  BY DEF Keys!NoGenesis
<1>3. Keys!ReadGenesis(line) \/ Keys!SecondGenesis =>
        (\E e \in Keys!KeyChainError : Keys!Reject(e)) \/ Keys!Genesis(line)
  BY DEF Keys!ReadGenesis, Keys!SecondGenesis, Keys!GenesisElsewhere, Keys!GenesisLinked,
         Keys!GenesisEnvelope, Keys!GenesisForeign, Keys!KeyChainError
<1>4. Keys!ReadRotation(line) =>
        (\E e \in Keys!KeyChainError : Keys!Reject(e)) \/ Keys!Rotate(line)
  BY DEF Keys!ReadRotation, Keys!NotIncreasing, Keys!LinkMismatch, Keys!RotationEnvelope,
         Keys!ForeignRotation, Keys!KeyChainError
<1>5. Keys!ReadCompromise(line) =>
        (\E e \in Keys!KeyChainError : Keys!Reject(e)) \/ Keys!Compromise(line)
  BY DEF Keys!ReadCompromise, Keys!NotIncreasing, Keys!LinkMismatch, Keys!NoRecoveryKey,
         Keys!CompromiseEnvelope, Keys!ForeignCompromise, Keys!CompromiseTime, Keys!KeyChainError
<1>6. {"JournalSealed", "MissingGenesis"} \subseteq Keys!KeyChainError
  BY DEF Keys!KeyChainError
<1> QED
  BY <1>1, <1>2, <1>3, <1>4, <1>5, <1>6 DEF Keys!ReadLine

(* A line that is taken: what follows for the sequence of lines.           *)
LEMMA KeyExtends ==
  ASSUME KeyInv, IsSequence(KeyFile), KeyLineLeft, KeyLineParses, Keys!Extend(KeyLine),
         KeyLineOK(Len(k_lines) + 1), UNCHANGED bundle
  PROVE  LET n == Len(k_lines) + 1
         IN  /\ Len(k_lines) \in Nat /\ n \in DOMAIN KeyFile /\ n # 0
             /\ IsSequence(k_lines') /\ Len(k_lines') = n
             /\ \A i \in 1 .. n : /\ i \in DOMAIN KeyFile' /\ k_lines'[i] = KeyFile'[i]
                                  /\ KeyLineOK(i)'
             /\ k_position' = KeyFile[n].position
             /\ k_outcome' = "reading"
<1> DEFINE n == Len(k_lines) + 1
<1>1. k_lines' = Append(k_lines, KeyFile[n]) /\ k_position' = KeyFile[n].position
      /\ k_outcome = "reading" /\ k_outcome' = k_outcome
  BY DEF Keys!Extend, KeyLine, KeyFile
<1>2. /\ IsSequence(k_lines') /\ Len(k_lines) \in Nat /\ Len(k_lines') = n
      /\ \A i \in 1 .. Len(k_lines) : k_lines'[i] = k_lines[i]
      /\ k_lines'[n] = KeyFile[n]
  BY <1>1, AppendFacts DEF KeyInv
<1>3. n \in DOMAIN KeyFile
  BY <1>2, SequenceDomain DEF KeyLineLeft, KeyFile
<1>4. KeyFile' = KeyFile /\ \A i : KeyLineOK(i)' <=> KeyLineOK(i)
  BY DEF KeyFile, KeyLineOK, Bytes, Parses, Flipped
<1>5. \A i \in 1 .. n : i \in 1 .. Len(k_lines) \/ i = n
  BY <1>2
<1>6. \A i \in 1 .. n : i \in DOMAIN KeyFile /\ k_lines'[i] = KeyFile[i] /\ KeyLineOK(i)
  BY <1>2, <1>3, <1>5 DEF KeyInv
<1> QED
  BY <1>1, <1>2, <1>3, <1>4, <1>6

(* The instance's names for the hashes.                                    *)
LEMMA KeyDigest ==
  /\ Keys!GENESIS_PREV = GENESIS_PREV
  /\ \A h, line : Keys!HeadAfter(h, line) = HeadAfter(h, line)
BY DEF Keys!GENESIS_PREV, GENESIS_PREV, Keys!HeadAfter, HeadAfter, Keys!head_hash, head_hash,
       Keys!leaf_hash, leaf_hash

(* What taking a line of each kind means.                                  *)
LEMMA GenesisTaken ==
  ASSUME NEW line, Keys!Genesis(line)
  PROVE  /\ k_lines = << >> /\ line.position = 0 /\ line.key_prev = GENESIS_PREV
         /\ line.envelope = "keyrecord" /\ line.signer = line.key
         /\ k_events' = << [position |-> 0, key |-> line.key] >>
         /\ k_recovery' = line.recovery /\ k_compromise' = k_compromise
         /\ Keys!Extend(line) /\ k_head' = HeadAfter(k_head, line)
BY KeyDigest DEF Keys!Genesis, Keys!AtGenesis, Keys!SelfSigned, Keys!Extend

LEMMA RotationTaken ==
  ASSUME NEW line, Keys!Rotate(line)
  PROVE  /\ k_lines # << >> /\ k_compromise = << >> /\ line.position > k_position
         /\ line.key_prev = k_head /\ line.envelope = "keyrecord"
         /\ line.signer = k_events[Len(k_events)].key
         /\ k_events' = Append(k_events, [position |-> line.position, key |-> line.key])
         /\ k_recovery' = k_recovery /\ k_compromise' = k_compromise
         /\ Keys!Extend(line) /\ k_head' = HeadAfter(k_head, line)
BY KeyDigest DEF Keys!Rotate, Keys!Chained, Keys!Readable, Keys!AtGenesis, Keys!Sealed, Keys!Increasing,
       Keys!SignedByPredecessor, Keys!CurrentKey, Keys!Extend

LEMMA CompromiseTaken ==
  ASSUME NEW line, Keys!Compromise(line)
  PROVE  /\ k_lines # << >> /\ k_compromise = << >> /\ line.position > k_position
         /\ line.key_prev = k_head /\ line.envelope = "keyrecord"
         /\ k_recovery # NoKey /\ line.signer = k_recovery /\ line.time = "rfc3339"
         /\ k_events' = k_events /\ k_recovery' = k_recovery
         /\ k_compromise' = << [position |-> line.position, compromised_key |-> line.key] >>
         /\ Keys!Extend(line) /\ k_head' = HeadAfter(k_head, line)
BY KeyDigest DEF Keys!Compromise, Keys!Chained, Keys!Readable, Keys!AtGenesis, Keys!Sealed,
       Keys!Increasing, Keys!SignedByRecovery, Keys!Extend

LEMMA KeyReads ==
  ASSUME KeyInv, IsSequence(KeyFile), ReadKeyLine
  PROVE  KeyInv'
<1>0. UNCHANGED bundle
  BY DEF ReadKeyLine
<1>1. /\ KeyFile' = KeyFile /\ \A i : (KeyLineOK(i)' <=> KeyLineOK(i))
      /\ \A i : KeyEvent(i)' = KeyEvent(i) /\ KeySeal(i)' = KeySeal(i)
  BY <1>0 DEF KeyFile, KeyLineOK, Bytes, Parses, Flipped, KeyEvent, KeySeal
<1>2. ASSUME UNCHANGED <<k_events, k_recovery, k_compromise, k_position, k_head, k_lines>>,
             k_outcome' \in {"reading", "ok"} \cup Keys!KeyChainError
      PROVE  KeyInv'
  <2>1. \A n : KeyMemory(n)' <=> KeyMemory(n)
    BY <1>1, <1>2 DEF KeyMemory
  <2> QED
    BY <1>1, <1>2, <2>1 DEF KeyInv
<1>3. ASSUME NEW e \in Keys!KeyChainError, Keys!Reject(e) PROVE KeyInv'
  BY <1>2, <1>3 DEF Keys!Reject
<1>4. CASE Keys!EndOfFile
  <2>1. Keys!Finish => KeyInv'
    BY <1>2 DEF Keys!Finish
  <2>2. Keys!NoGenesis => Keys!Reject("MissingGenesis")
    BY DEF Keys!NoGenesis
  <2> QED
    BY <1>3, <1>4, <2>1, <2>2 DEF Keys!EndOfFile, Keys!KeyChainError
<1>5. CASE Keys!Unreadable
  BY <1>3, <1>5 DEF Keys!Unreadable, Keys!AfterSeal, Keys!ParseFailure, Keys!KeyChainError
<1>6. ASSUME KeyLineLeft, KeyLineParses, Keys!ReadLine(KeyLine) PROVE KeyInv'
  <2> DEFINE m == Len(k_lines)
             n == Len(k_lines) + 1
  <2>1. /\ m \in Nat /\ n \in Nat \ {0} /\ n - 1 = m
        /\ KeyLine = KeyFile[n] /\ Parses(KeysFile, n)
        /\ (k_lines = << >> <=> m = 0)
    <3>1. m \in Nat /\ (k_lines = << >> <=> m = 0)
      BY SequenceDomain, EmptyIsSequence DEF KeyInv
    <3> QED
      BY <1>6, <3>1 DEF KeyLine, KeyFile, KeyLineParses
  <2>2. ASSUME KeyLine.kind = "genesis", Keys!Genesis(KeyLine) PROVE KeyInv'
    <3>1. /\ m = 0 /\ n = 1 /\ KeyFile[1].position = 0 /\ KeyFile[1].key_prev = GENESIS_PREV
          /\ KeyFile[1].envelope = "keyrecord" /\ KeyFile[1].signer = KeyFile[1].key
          /\ k_events' = << KeyEvent(1) >> /\ k_recovery' = KeyFile[1].recovery
          /\ k_compromise' = k_compromise /\ Keys!Extend(KeyLine)
          /\ k_head' = HeadAfter(k_head, KeyFile[1])
      <4>1. /\ k_lines = << >> /\ KeyLine.position = 0 /\ KeyLine.key_prev = GENESIS_PREV
            /\ KeyLine.envelope = "keyrecord" /\ KeyLine.signer = KeyLine.key
            /\ k_events' = << [position |-> 0, key |-> KeyLine.key] >>
            /\ k_recovery' = KeyLine.recovery /\ k_compromise' = k_compromise
            /\ Keys!Extend(KeyLine) /\ k_head' = HeadAfter(k_head, KeyLine)
        BY <2>2, GenesisTaken
      <4>2. m = 0 /\ n = 1 /\ KeyLine = KeyFile[1]
        BY <2>1, <4>1
      <4> QED
        BY <4>1, <4>2 DEF KeyEvent
    <3>2. KeyLineOK(n)
      BY <2>1, <2>2, <3>1 DEF KeyLineOK
    <3>3. k_head = GENESIS_PREV /\ k_compromise = << >>
      BY <3>1 DEF KeyInv, KeyMemory
    <3>4. /\ IsSequence(k_lines') /\ Len(k_lines') = 1
          /\ \A i \in 1 .. 1 : /\ i \in DOMAIN KeyFile' /\ k_lines'[i] = KeyFile'[i]
                               /\ KeyLineOK(i)'
          /\ k_position' = KeyFile[1].position /\ k_outcome' = "reading"
      BY <1>0, <1>6, <3>1, <3>2, KeyExtends
    <3>5. IsSequence(k_events') /\ Len(k_events') = 1 /\ k_events'[1] = KeyEvent(1)
      BY <3>1, OneIsSequence
    <3>6. KeySeal(1) = << >> /\ KeyFile[1].kind # "compromise"
      BY <2>1, <2>2, <3>1 DEF KeySeal
    <3>7. KeyMemory(1)'
      BY <1>1, <3>1, <3>3, <3>4, <3>5, <3>6 DEF KeyMemory
    <3> QED
      BY <1>1, <3>4, <3>5, <3>7 DEF KeyInv
  <2>3. ASSUME KeyLine.kind = "rotation", Keys!Rotate(KeyLine) PROVE KeyInv'
    <3>1. /\ m # 0 /\ k_compromise = << >> /\ KeyFile[n].position > k_position
          /\ KeyFile[n].key_prev = k_head /\ KeyFile[n].envelope = "keyrecord"
          /\ KeyFile[n].signer = k_events[Len(k_events)].key
          /\ k_events' = Append(k_events, KeyEvent(n)) /\ k_recovery' = k_recovery
          /\ k_compromise' = k_compromise /\ Keys!Extend(KeyLine)
          /\ k_head' = HeadAfter(k_head, KeyFile[n])
      BY <2>1, <2>3, RotationTaken DEF KeyEvent
    <3>2. /\ KeyFile[m].kind # "compromise" /\ Len(k_events) = m
          /\ k_position = KeyFile[m].position
          /\ k_head = HeadAfter(KeyFile[m].key_prev, KeyFile[m])
          /\ k_recovery = KeyFile[1].recovery
      <4>1. KeyMemory(m)
        BY DEF KeyInv
      <4> QED
        BY <3>1, <4>1 DEF KeyMemory, KeySeal
    <3>3. k_events[m].key = KeyFile[m].key
      <4>1. m \in 1 .. Len(k_events)
        BY <2>1, <3>1, <3>2
      <4>2. k_events[m] = KeyEvent(m)
        BY <4>1 DEF KeyInv
      <4> QED
        BY <4>2 DEF KeyEvent
    <3>4. KeyLineOK(n)
      BY <2>1, <2>3, <3>1, <3>2, <3>3 DEF KeyLineOK
    <3>5. /\ IsSequence(k_lines') /\ Len(k_lines') = n
          /\ \A i \in 1 .. n : /\ i \in DOMAIN KeyFile' /\ k_lines'[i] = KeyFile'[i]
                               /\ KeyLineOK(i)'
          /\ k_position' = KeyFile[n].position /\ k_outcome' = "reading"
      BY <1>0, <1>6, <3>1, <3>4, KeyExtends
    <3>6. /\ IsSequence(k_events') /\ Len(k_events') = n
          /\ \A i \in 1 .. m : k_events'[i] = k_events[i]
          /\ k_events'[n] = KeyEvent(n)
      BY <3>1, <3>2, AppendFacts DEF KeyInv
    <3>7. \A i \in 1 .. n : k_events'[i] = KeyEvent(i)
      <4>1. \A i \in 1 .. n : i \in 1 .. m \/ i = n
        BY <2>1
      <4> QED
        BY <3>2, <3>6, <4>1 DEF KeyInv
    <3>8. KeySeal(n) = << >> /\ KeyFile[n].kind # "compromise"
      BY <2>1, <2>3 DEF KeySeal
    <3>9. KeyMemory(Len(k_lines))'
      <4>1. n # 0 /\ k_recovery' = KeyFile'[1].recovery /\ k_position' = KeyFile'[n].position
        BY <1>1, <2>1, <3>1, <3>2, <3>5
      <4>2. k_head' = HeadAfter(KeyFile'[n].key_prev, KeyFile'[n])
        BY <1>1, <3>1
      <4>3. k_compromise' = KeySeal(Len(k_lines))'
        BY <1>1, <3>1, <3>5, <3>8 DEF KeySeal
      <4>4. Len(k_events') = IF KeyFile'[n].kind = "compromise" THEN n - 1 ELSE n
        BY <1>1, <3>6, <3>8
      <4>5. Len(k_lines') = n
        BY <3>5
      <4> HIDE DEF n
      <4> QED
        BY <4>1, <4>2, <4>3, <4>4, <4>5 DEF KeyMemory
    <3>10. \A i \in 1 .. Len(k_events') : k_events'[i] = KeyEvent(i)'
      BY <1>1, <3>6, <3>7
    <3> HIDE DEF n
    <3> QED
      BY <3>5, <3>6, <3>9, <3>10 DEF KeyInv
  <2>4. ASSUME KeyLine.kind = "compromise", Keys!Compromise(KeyLine) PROVE KeyInv'
    <3>1. /\ m # 0 /\ k_compromise = << >> /\ KeyFile[n].position > k_position
          /\ KeyFile[n].key_prev = k_head /\ KeyFile[n].envelope = "keyrecord"
          /\ k_recovery # NoKey /\ KeyFile[n].signer = k_recovery /\ KeyFile[n].time = "rfc3339"
          /\ k_events' = k_events /\ k_recovery' = k_recovery
          /\ k_compromise' = << [position |-> KeyFile[n].position,
                                 compromised_key |-> KeyFile[n].key] >>
          /\ Keys!Extend(KeyLine)
          /\ k_head' = HeadAfter(k_head, KeyFile[n])
      BY <2>1, <2>4, CompromiseTaken
    <3>2. /\ KeyFile[m].kind # "compromise" /\ Len(k_events) = m
          /\ k_position = KeyFile[m].position
          /\ k_head = HeadAfter(KeyFile[m].key_prev, KeyFile[m])
          /\ k_recovery = KeyFile[1].recovery
      <4>1. KeyMemory(m)
        BY DEF KeyInv
      <4> QED
        BY <3>1, <4>1 DEF KeyMemory, KeySeal
    <3>3. KeyLineOK(n)
      BY <2>1, <2>4, <3>1, <3>2 DEF KeyLineOK
    <3>4. /\ IsSequence(k_lines') /\ Len(k_lines') = n
          /\ \A i \in 1 .. n : /\ i \in DOMAIN KeyFile' /\ k_lines'[i] = KeyFile'[i]
                               /\ KeyLineOK(i)'
          /\ k_position' = KeyFile[n].position /\ k_outcome' = "reading"
      BY <1>0, <1>6, <3>1, <3>3, KeyExtends
    <3>5. k_compromise' = KeySeal(n) /\ KeyFile[n].kind = "compromise"
      BY <2>1, <2>4, <3>1 DEF KeySeal
    <3>6. KeyMemory(Len(k_lines))'
      <4>1. n # 0 /\ k_recovery' = KeyFile'[1].recovery /\ k_position' = KeyFile'[n].position
        BY <1>1, <2>1, <3>1, <3>2, <3>4
      <4>2. k_head' = HeadAfter(KeyFile'[n].key_prev, KeyFile'[n])
        BY <1>1, <3>1
      <4>3. k_compromise' = KeySeal(Len(k_lines))'
        BY <1>1, <3>4, <3>5 DEF KeySeal
      <4>4. Len(k_events') = IF KeyFile'[n].kind = "compromise" THEN n - 1 ELSE n
        BY <1>1, <2>1, <3>1, <3>2, <3>5
      <4>5. Len(k_lines') = n
        BY <3>4
      <4> HIDE DEF n
      <4> QED
        BY <4>1, <4>2, <4>3, <4>4, <4>5 DEF KeyMemory
    <3>7. \A i \in 1 .. Len(k_events') : k_events'[i] = KeyEvent(i)'
      BY <1>1, <3>1 DEF KeyInv
    <3>8. IsSequence(k_events')
      BY <3>1 DEF KeyInv
    <3> HIDE DEF n
    <3> QED
      BY <3>4, <3>6, <3>7, <3>8 DEF KeyInv
  <2> QED
    BY <1>3, <1>6, <2>2, <2>3, <2>4, KeyReadLine
<1> QED
  BY <1>4, <1>5, <1>6 DEF ReadKeyLine

-----------------------------------------------------------------------------
(* The stages, and what is behind each.                                    *)

(* The stages from which on a check is behind the verification.            *)
AfterContent == {"informational", "verdict"}
AfterClosure == {"content"} \cup AfterContent
AfterErasures == {"closure"} \cup AfterClosure
AfterCompromise == {"erasures"} \cup AfterErasures
AfterWalk == {"compromise"} \cup AfterCompromise
AfterRecords == {"walk"} \cup AfterWalk
AfterCheckpoints == {"records"} \cup AfterRecords
AfterMembers == {"checkpoints"} \cup AfterCheckpoints
AfterManifest == {"members"} \cup AfterMembers
AfterKeys == {"manifest"} \cup AfterManifest
AfterContainer == {"keys"} \cup AfterKeys

(* A VALID bundle has passed them all.                                     *)
Passed(stages) == stage \in stages \/ Valid

CheckpointFile == Bytes(CheckpointsFile)

(* Every file of lines is one.                                             *)
Typed ==
  /\ Has(KeysFile) => IsSequence(KeyFile)
  /\ IsSequence(epoch) /\ IsSequence(closure)
  /\ Has(CheckpointsFile) => IsSequence(CheckpointFile)
  /\ IsFiniteSet(DOMAIN bundle.members)

(* What each check finds out, when it finds nothing to report.             *)
ContainerOK == ~bundle.duplicate /\ Has(KeysFile)
KeysOK == k_outcome = "ok"
ManifestOK == Has(ManifestFile) /\ ~Flipped(ManifestFile)
MembersOK ==
  AtFault = {} /\ DOMAIN manifest.members \cup {CheckpointsFile} \subseteq DOMAIN bundle.members
(* The records whose envelopes hold.                                      *)
Faultless == {i \in DOMAIN epoch : FaultRow(epoch[i]) = 0}

RecordsOK == \A i \in DOMAIN epoch : FaultRow(epoch[i]) = 0 /\ position_correct(epoch[i])
CountOK == manifest.records = Len(epoch)
CompromiseOK ==
  \A i \in DOMAIN epoch :
    Keys!classify_compromise(epoch[i].position, epoch[i].body.keyid,
                             anchored_before_claim(epoch[i].position))
      \in {"NotAffected", "ValidPreClaim"}
ContentOK ==
  /\ \A i \in DOMAIN epoch :
       epoch[i].body.content_hash # NoContent =>
         IF Absent(epoch[i]) THEN epoch[i].position \in erasure_targets
         ELSE ContentMatches(epoch[i]) /\ epoch[i].position \notin erasure_targets
  /\ manifest.withheld_erased = actual_withheld

(* The files and what was read of them do not change any more.             *)
LEMMA FilesStay ==
  ASSUME UNCHANGED <<bundle, keyVars, checkpointVars>>
  PROVE  /\ KeyFile' = KeyFile /\ CheckpointFile' = CheckpointFile
         /\ epoch' = epoch /\ closure' = closure /\ manifest' = manifest /\ bounds' = bounds
         /\ ContainerOK' <=> ContainerOK
         /\ KeysOK' <=> KeysOK
         /\ ManifestOK' <=> ManifestOK
         /\ MembersOK' <=> MembersOK
         /\ Bounded' <=> Bounded
<1>1. /\ \A m : (Has(m)' <=> Has(m)) /\ Bytes(m)' = Bytes(m) /\ (Flipped(m)' <=> Flipped(m))
      /\ KeyFile' = KeyFile /\ CheckpointFile' = CheckpointFile
      /\ epoch' = epoch /\ closure' = closure /\ manifest' = manifest
  BY DEF Has, Bytes, Flipped, KeyFile, CheckpointFile, epoch, closure, manifest
<1>2. k_outcome' = k_outcome /\ c_checkpoints' = c_checkpoints
  BY DEF keyVars, checkpointVars
<1>3. bounds' = bounds /\ (Bounded' <=> Bounded)
  BY <1>1, <1>2 DEF bounds, Bounded, CPs!range_bounds, CPs!IsBoundary, CPs!checkpoint_at
<1>4. AtFault' = AtFault
  BY <1>1 DEF AtFault, Sound, Listed
<1>5. (ContainerOK' <=> ContainerOK) /\ (ManifestOK' <=> ManifestOK)
  BY <1>1 DEF ContainerOK, ManifestOK
<1>6. MembersOK' <=> MembersOK
  BY <1>1, <1>4 DEF MembersOK
<1> QED
  BY <1>1, <1>2, <1>3, <1>5, <1>6 DEF KeysOK

LEMMA ReadingsStay ==
  ASSUME UNCHANGED <<bundle, keyVars, checkpointVars>>
  PROVE  /\ \A line : FaultRow(line)' = FaultRow(line)
         /\ \A line : position_correct(line)' <=> position_correct(line)
         /\ Faultless' = Faultless
         /\ RecordsOK' <=> RecordsOK
         /\ CountOK' <=> CountOK
         /\ CompromiseOK' <=> CompromiseOK
         /\ \A line : (Absent(line)' <=> Absent(line)) /\ (ContentMatches(line)' <=> ContentMatches(line))
<1>1. epoch' = epoch /\ manifest' = manifest
  BY FilesStay
<1>2. k_events' = k_events /\ k_compromise' = k_compromise /\ c_checkpoints' = c_checkpoints
  BY DEF keyVars, checkpointVars
<1>3. \A line : FaultRow(line)' = FaultRow(line)
  BY <1>2 DEF FaultRow, SigningKeys
<1>4. \A line : position_correct(line)' <=> position_correct(line)
  BY <1>2 DEF position_correct, key_at_position, Keys!key_at_position, Keys!Authoritative
<1>5. \A p : anchored_before_claim(p)' <=> anchored_before_claim(p)
  BY <1>2 DEF anchored_before_claim
<1>6. \A p, key, b : Keys!classify_compromise(p, key, b)' = Keys!classify_compromise(p, key, b)
  BY <1>2 DEF Keys!classify_compromise, Keys!Sealed
<1>7. CompromiseOK' <=> CompromiseOK
  BY <1>1, <1>5, <1>6 DEF CompromiseOK
<1>8. \A line : (Absent(line)' <=> Absent(line)) /\ (ContentMatches(line)' <=> ContentMatches(line))
  BY DEF Absent, Has, ContentMatches, Bytes, Flipped
<1> QED
  BY <1>1, <1>3, <1>4, <1>7, <1>8 DEF RecordsOK, CountOK, Faultless

-----------------------------------------------------------------------------
(* What the checkpoints and the walk have read.                            *)

(* The key chain is done when its file is.                                 *)
KeysDone == k_outcome = "ok" => ~KeyLineLeft /\ k_lines # << >>

LEMMA KeysEnd ==
  ASSUME KeysDone, ReadKeyLine
  PROVE  KeysDone'
<1>1. k_outcome = "reading" /\ bundle' = bundle
  BY DEF ReadKeyLine
<1>2. ASSUME Keys!EndOfFile, ~KeyLineLeft PROVE KeysDone'
  <2>1. CASE Keys!NoGenesis
    BY <2>1 DEF Keys!NoGenesis, Keys!Reject, KeysDone
  <2>2. CASE Keys!Finish
    BY <1>1, <1>2, <2>2 DEF Keys!Finish, Keys!AtGenesis, KeysDone, KeyLineLeft, Bytes
  <2> QED
    BY <1>2, <2>1, <2>2 DEF Keys!EndOfFile
<1>3. ASSUME Keys!Unreadable PROVE KeysDone'
  BY <1>3 DEF Keys!Unreadable, Keys!AfterSeal, Keys!ParseFailure, Keys!Reject, KeysDone
<1>4. ASSUME Keys!ReadLine(KeyLine) PROVE KeysDone'
  <2>1. ASSUME NEW e \in Keys!KeyChainError, Keys!Reject(e) PROVE KeysDone'
    BY <2>1 DEF Keys!Reject, Keys!KeyChainError, KeysDone
  <2>2. Keys!Extend(KeyLine) => KeysDone'
    BY DEF Keys!Extend, KeysDone
  <2>3. Keys!Genesis(KeyLine) \/ Keys!Rotate(KeyLine) \/ Keys!Compromise(KeyLine) =>
          Keys!Extend(KeyLine)
    BY DEF Keys!Genesis, Keys!Rotate, Keys!Compromise
  <2> QED
    BY <1>4, <2>1, <2>2, <2>3, KeyReadLine
<1> QED
  BY <1>2, <1>3, <1>4 DEF ReadKeyLine

(* What is kept of the checkpoints is what their file says.                *)
CheckpointInv ==
  /\ IsSequence(c_checkpoints) /\ IsSequence(c_lines) /\ IsSequence(c_anomalies)
  /\ Len(c_lines) = Len(c_checkpoints)
  /\ c_outcome \in {"reading", "ok"} \cup CPs!CpError
  /\ \A i \in 1 .. Len(c_checkpoints) :
       /\ i \in DOMAIN CheckpointFile
       /\ c_checkpoints[i].position = CheckpointFile[i].position
       /\ c_checkpoints[i].head = CheckpointFile[i].head

LEMMA AnomalySequence == ASSUME NEW line PROVE IsSequence(CPs!Anomaly(line))
<1> DEFINE a == [position |-> line.position, at |-> line.at,
                 previous_position |-> CPs!Previous.position, previous_at |-> CPs!Previous.at]
<1>1. CPs!Anomaly(line) \in {<< >>, << a >>}
  BY DEF CPs!Anomaly
<1> HIDE DEF a
<1>2. IsSequence(<< a >>) /\ IsSequence(<< >>)
  BY OneIsSequence, EmptyIsSequence
<1> QED
  BY <1>1, <1>2

LEMMA CheckpointRead ==
  ASSUME NEW line, CPs!Read(line)
  PROVE  \/ UNCHANGED <<c_checkpoints, c_anomalies, c_lines>> /\ c_outcome' \in CPs!CpError
         \/ /\ c_outcome' = "reading"
            /\ c_checkpoints' = Append(c_checkpoints, CPs!Verified(line))
            /\ c_lines' = Append(c_lines, line)
            /\ c_anomalies' = c_anomalies \o CPs!Anomaly(line)
BY DEF CPs!Read, CPs!NotIncreasing, CPs!LinkMismatch, CPs!ForeignKeyid, CPs!OtherEnvelope,
       CPs!BadSignature, CPs!BadTimestamp, CPs!Reject, CPs!Accept, CPs!CpError

LEMMA CheckpointsStay ==
  ASSUME CheckpointInv, UNCHANGED <<bundle, c_checkpoints, c_anomalies, c_lines>>,
         c_outcome' \in {"reading", "ok"} \cup CPs!CpError
  PROVE  CheckpointInv'
BY DEF CheckpointInv, CheckpointFile, Bytes

LEMMA CheckpointReads ==
  ASSUME CheckpointInv, IsSequence(CheckpointFile), ReadCheckpointLine
  PROVE  CheckpointInv'
<1>1. bundle' = bundle /\ CheckpointFile' = CheckpointFile
  BY DEF ReadCheckpointLine, CheckpointFile, Bytes
<1>2. CASE /\ UNCHANGED <<c_checkpoints, c_anomalies, c_lines>>
           /\ c_outcome' \in {"reading", "ok"} \cup CPs!CpError
  BY <1>1, <1>2, CheckpointsStay
<1>3. CASE /\ CheckpointLineLeft
           /\ c_outcome' = "reading"
           /\ c_checkpoints' = Append(c_checkpoints, CPs!Verified(CheckpointLine))
           /\ c_lines' = Append(c_lines, CheckpointLine)
           /\ c_anomalies' = c_anomalies \o CPs!Anomaly(CheckpointLine)
  <2> DEFINE n == Len(c_checkpoints) + 1
             verified == CPs!Verified(CheckpointLine)
  <2>1. /\ IsSequence(c_checkpoints') /\ IsSequence(c_lines')
        /\ Len(c_checkpoints) \in Nat /\ Len(c_checkpoints') = n /\ Len(c_lines') = n
        /\ \A i \in 1 .. Len(c_checkpoints) : c_checkpoints'[i] = c_checkpoints[i]
        /\ c_checkpoints'[n] = verified
    BY <1>3, AppendFacts DEF CheckpointInv
  <2>2. IsSequence(c_anomalies')
    BY <1>3, AnomalySequence, Joined DEF CheckpointInv
  <2>3. n \in DOMAIN CheckpointFile /\ CheckpointLine = CheckpointFile[n]
    BY <1>3, <2>1, SequenceDomain DEF CheckpointLineLeft, CheckpointLine, CheckpointFile, CheckpointInv
  <2>4. verified.position = CheckpointFile[n].position /\ verified.head = CheckpointFile[n].head
    BY <2>3 DEF CPs!Verified
  <2>5. \A i \in 1 .. n : i \in 1 .. Len(c_checkpoints) \/ i = n
    BY <2>1
  <2> HIDE DEF verified
  <2>6. ASSUME NEW i \in 1 .. n
        PROVE  /\ i \in DOMAIN CheckpointFile'
               /\ c_checkpoints'[i].position = CheckpointFile'[i].position
               /\ c_checkpoints'[i].head = CheckpointFile'[i].head
    <3>1. CASE i = n
      BY <1>1, <2>1, <2>3, <2>4, <3>1
    <3>2. CASE i \in 1 .. Len(c_checkpoints)
      BY <1>1, <2>1, <3>2 DEF CheckpointInv
    <3> QED
      BY <2>5, <3>1, <3>2
  <2> QED
    BY <1>3, <2>1, <2>2, <2>6 DEF CheckpointInv
<1>4. CPs!EndOfFile => /\ UNCHANGED <<c_checkpoints, c_anomalies, c_lines>>
                       /\ c_outcome' \in {"reading", "ok"} \cup CPs!CpError
  BY DEF CPs!EndOfFile, CPs!NoLine, CPs!Finish, CPs!Reject, CPs!CpError
<1> QED
  BY <1>2, <1>3, <1>4, CheckpointRead DEF ReadCheckpointLine

(* The walk: every line read continues the head of those before it, from   *)
(* the head of the checkpoint the range starts at.                         *)
HeadBefore(i) ==
  IF i = 1 THEN bounds.start_head ELSE HeadAfter(epoch[i - 1].prev_head, epoch[i - 1])

WalkInv ==
  /\ "epoch" \in DOMAIN w_lines /\ "epoch" \in DOMAIN w_head /\ "epoch" \in DOMAIN w_outcome
  /\ IsSequence(w_lines["epoch"])
  /\ \A i \in 1 .. Len(w_lines["epoch"]) :
       i \in DOMAIN epoch /\ epoch[i].prev_head = HeadBefore(i)
  /\ w_head["epoch"] = HeadBefore(Len(w_lines["epoch"]) + 1)
  /\ w_outcome["epoch"] = "ok" => Len(w_lines["epoch"]) = Len(epoch)

LEMMA WalkDigest == \A h, line : Records!HeadAfter(h, line) = HeadAfter(h, line)
BY DEF Records!HeadAfter, HeadAfter, Records!head_hash, head_hash, Records!leaf_hash, leaf_hash

LEMMA WalkStays ==
  ASSUME WalkInv, UNCHANGED <<bundle, checkpointVars, keyVars, w_lines, w_head, w_outcome>>
  PROVE  WalkInv'
<1>1. epoch' = epoch /\ bounds' = bounds
  BY FilesStay
<1>2. \A i : HeadBefore(i)' = HeadBefore(i)
  BY <1>1 DEF HeadBefore
<1> QED
  BY <1>1, <1>2 DEF WalkInv

LEMMA WalkRead ==
  ASSUME NEW line, Records!ReadLine("epoch", line)
  PROVE  \/ \E e \in Records!ChainError : Records!Reject("epoch", e)
         \/ /\ line.prev_head = w_head["epoch"]
            /\ w_outcome' = w_outcome /\ w_outcome["epoch"] = "walking"
            /\ w_lines' = [w_lines EXCEPT !["epoch"] = Append(@, line)]
            /\ w_head' = [w_head EXCEPT !["epoch"] = HeadAfter(w_head["epoch"], line)]
<1>1. Records!Overflow("epoch") \/ Records!Duplicate("epoch", line) \/ Records!Gap("epoch", line)
        \/ Records!LinkMismatch("epoch", line) =>
        \E e \in Records!ChainError : Records!Reject("epoch", e)
  BY DEF Records!Overflow, Records!Duplicate, Records!Gap, Records!LinkMismatch, Records!ChainError
<1>2. Records!Accept("epoch", line) =>
        /\ line.prev_head = w_head["epoch"]
        /\ w_outcome' = w_outcome /\ w_outcome["epoch"] = "walking"
        /\ w_lines' = [w_lines EXCEPT !["epoch"] = Append(@, line)]
        /\ w_head' = [w_head EXCEPT !["epoch"] = HeadAfter(w_head["epoch"], line)]
  BY WalkDigest DEF Records!Accept, Records!Linked
<1> QED
  BY <1>1, <1>2 DEF Records!ReadLine, Records!Read

LEMMA WalkReads ==
  ASSUME WalkInv, IsSequence(epoch), WalkRecord
  PROVE  WalkInv'
<1>1. epoch' = epoch /\ \A i : HeadBefore(i)' = HeadBefore(i)
  BY FilesStay DEF WalkRecord, FilesUnchanged, HeadBefore
<1> DEFINE read == w_lines["epoch"]
<1>2. Len(read) \in Nat /\ DOMAIN epoch = 1 .. Len(epoch) /\ Len(epoch) \in Nat
  BY SequenceDomain DEF WalkInv
<1>3. ASSUME NEW o, w_outcome' = [w_outcome EXCEPT !["epoch"] = o],
             UNCHANGED <<w_lines, w_head>>, o = "ok" => Len(read) = Len(epoch)
      PROVE  WalkInv'
  <2>1. "epoch" \in DOMAIN w_outcome' /\ w_outcome'["epoch"] = o
    BY <1>3 DEF WalkInv
  <2> QED
    BY <1>1, <1>3, <2>1 DEF WalkInv
<1>4. CASE Len(read) < Len(epoch)
  <2>1. Records!ReadLine("epoch", WalkLine)
    BY <1>4 DEF WalkRecord
  <2>2. CASE \E e \in Records!ChainError : Records!Reject("epoch", e)
    <3>1. PICK e \in Records!ChainError : Records!Reject("epoch", e)
      BY <2>2
    <3>2. e # "ok" /\ w_outcome' = [w_outcome EXCEPT !["epoch"] = e] /\ UNCHANGED <<w_lines, w_head>>
      BY <3>1 DEF Records!Reject, Records!ChainError
    <3> QED
      BY <1>3, <3>2
  <2>3. CASE /\ WalkLine.prev_head = w_head["epoch"]
             /\ w_outcome' = w_outcome /\ w_outcome["epoch"] = "walking"
             /\ w_lines' = [w_lines EXCEPT !["epoch"] = Append(@, WalkLine)]
             /\ w_head' = [w_head EXCEPT !["epoch"] = HeadAfter(w_head["epoch"], WalkLine)]
    <3> DEFINE n == Len(read) + 1
    <3>1. n \in Nat \ {0} /\ n \in DOMAIN epoch /\ WalkLine = epoch[n] /\ n + 1 # 1 /\ (n + 1) - 1 = n
      BY <1>2, <1>4 DEF WalkLine
    <3>2. /\ "epoch" \in DOMAIN w_lines' /\ "epoch" \in DOMAIN w_head' /\ "epoch" \in DOMAIN w_outcome'
          /\ w_lines'["epoch"] = Append(read, epoch[n])
          /\ w_head'["epoch"] = HeadAfter(w_head["epoch"], epoch[n])
          /\ w_outcome'["epoch"] # "ok"
      BY <2>3, <3>1 DEF WalkInv
    <3>3. /\ IsSequence(w_lines'["epoch"]) /\ Len(w_lines'["epoch"]) = n
      BY <3>2, AppendFacts DEF WalkInv
    <3>4. epoch[n].prev_head = HeadBefore(n) /\ w_head["epoch"] = epoch[n].prev_head
      BY <2>3, <3>1 DEF WalkInv
    <3>5. w_head'["epoch"] = HeadBefore(n + 1)
      BY <3>1, <3>2, <3>4 DEF HeadBefore
    <3>6. \A i \in 1 .. n : i \in 1 .. Len(read) \/ i = n
      BY <1>2
    <3>7. \A i \in 1 .. n : i \in DOMAIN epoch /\ epoch[i].prev_head = HeadBefore(i)
      BY <3>1, <3>4, <3>6 DEF WalkInv
    <3>8. w_head'["epoch"] = HeadBefore(Len(w_lines["epoch"]) + 1)'
      BY <1>1, <3>3, <3>5 DEF HeadBefore
    <3> QED
      BY <1>1, <3>2, <3>3, <3>7, <3>8 DEF WalkInv
  <2> QED
    BY <2>1, <2>2, <2>3, WalkRead
<1>5. CASE ~(Len(read) < Len(epoch))
  <2>1. Records!Finish("epoch")
    BY <1>5 DEF WalkRecord
  <2>2. Len(read) <= Len(epoch)
    <3>1. CASE Len(read) = 0
      BY <1>2, <3>1
    <3>2. CASE Len(read) # 0
      <4>1. Len(read) \in 1 .. Len(read)
        BY <1>2, <3>2
      <4> QED
        BY <1>2, <4>1 DEF WalkInv
    <3> QED
      BY <3>1, <3>2
  <2>3. w_outcome' = [w_outcome EXCEPT !["epoch"] = "ok"] /\ UNCHANGED <<w_lines, w_head>>
    BY <2>1 DEF Records!Finish
  <2>4. Len(read) = Len(epoch)
    BY <1>2, <1>5, <2>2
  <2> HIDE DEF read
  <2> QED
    BY <1>3, <2>3, <2>4
<1> QED
  BY <1>4, <1>5

-----------------------------------------------------------------------------
(* The invariant of the verification.                                      *)

(* Nothing has been read while the recipe is still written.                *)
Unread ==
  /\ k_events = << >> /\ k_recovery = NoKey /\ k_compromise = << >> /\ k_position = 0
  /\ k_head = GENESIS_PREV /\ k_lines = << >> /\ k_outcome = "reading"
  /\ c_checkpoints = << >> /\ c_anomalies = << >> /\ c_lines = << >> /\ c_outcome = "reading"

ReadingInv == KeyInv /\ KeysDone /\ CheckpointInv /\ IsSequence(findings)

FilesInv ==
  /\ Passed(AfterContainer) => ContainerOK
  /\ Passed(AfterKeys) => KeysOK
  /\ Passed(AfterManifest) => ManifestOK
  /\ Passed(AfterMembers) => MembersOK
  /\ Passed(AfterCheckpoints) => Bounded

(* Findings that do not stand in the way of VALID mean that the checks     *)
(* made so far found nothing.                                              *)
FindingsInv ==
  /\ Passed(AfterCheckpoints) => WalkInv
  /\ Passed(AfterRecords) => record_infos = Faultless
  /\ Passed(AfterErasures) => TargetsIn(epoch, Erasures) \subseteq erasure_targets
  /\ Clear(findings) =>
       /\ Passed(AfterRecords) => RecordsOK
       /\ Passed(AfterWalk) => w_outcome["epoch"] = "ok" /\ CountOK
       /\ Passed(AfterCompromise) => CompromiseOK
       /\ Passed(AfterContent) => ContentOK

PhaseInv ==
  /\ stage = "recipe" => Unread
  /\ ReadingInv /\ FilesInv /\ FindingsInv
  /\ Valid => Clear(findings)

After == {AfterContainer, AfterKeys, AfterManifest, AfterMembers, AfterCheckpoints, AfterRecords,
          AfterWalk, AfterCompromise, AfterErasures, AfterClosure, AfterContent}

(* Behind the last stage there is nothing but the verdict.                 *)
LEMMA EndedInv ==
  ASSUME ReadingInv', stage' = "done", report'.verdict # "VALID"
  PROVE  PhaseInv'
<1>1. ~Valid'
  BY DEF Valid
<1>2. \A s \in After : "done" \notin s
  BY DEF After, AfterContainer, AfterKeys, AfterManifest, AfterMembers, AfterCheckpoints,
         AfterRecords, AfterWalk, AfterCompromise, AfterErasures, AfterClosure, AfterContent
<1>3. \A s \in After : ~(Passed(s)')
  BY <1>1, <1>2 DEF Passed
<1>4. FilesInv' /\ FindingsInv'
  <2>1. ~(Passed(AfterContainer)') /\ ~(Passed(AfterKeys)') /\ ~(Passed(AfterManifest)')
          /\ ~(Passed(AfterMembers)') /\ ~(Passed(AfterCheckpoints)') /\ ~(Passed(AfterRecords)')
          /\ ~(Passed(AfterWalk)') /\ ~(Passed(AfterCompromise)') /\ ~(Passed(AfterErasures)')
          /\ ~(Passed(AfterContent)')
    BY <1>3 DEF After
  <2> QED
    BY <2>1 DEF FilesInv, FindingsInv
<1> QED
  BY <1>1, <1>4 DEF PhaseInv

LEMMA KeysStay ==
  ASSUME KeyInv, KeysDone, UNCHANGED <<bundle, keyVars>>
  PROVE  KeyInv' /\ KeysDone'
<1>1. /\ KeyFile' = KeyFile /\ \A i : (KeyLineOK(i)' <=> KeyLineOK(i))
      /\ \A i : KeyEvent(i)' = KeyEvent(i) /\ KeySeal(i)' = KeySeal(i)
  BY DEF KeyFile, KeyLineOK, Bytes, Parses, Flipped, KeyEvent, KeySeal
<1>2. UNCHANGED <<k_events, k_recovery, k_compromise, k_position, k_head, k_lines, k_outcome>>
  BY DEF keyVars
<1>3. \A n : KeyMemory(n)' <=> KeyMemory(n)
  BY <1>1, <1>2 DEF KeyMemory
<1>4. KeyInv'
  BY <1>1, <1>2, <1>3 DEF KeyInv
<1>5. KeysDone'
  BY <1>2 DEF KeysDone, KeyLineLeft, Bytes
<1> QED
  BY <1>4, <1>5

(* A phase that ends early leaves what was read as it was.                 *)
LEMMA TerminalInv ==
  ASSUME ReadingInv, NEW row, NEW position, row \notin Informational,
         Terminal(Finding(row, position)), KeyInv', KeysDone', CheckpointInv'
  PROVE  PhaseInv'
<1>1. findings' = << Finding(row, position) >>
  BY DEF Terminal
<1>2. IsSequence(findings')
  BY <1>1, OneIsSequence
<1>3. stage' = "done" /\ report'.verdict # "VALID"
  BY TerminalIsNotValid
<1> QED
  BY <1>2, <1>3, EndedInv DEF ReadingInv

LEMMA GatheredClear ==
  ASSUME NEW lines, IsSequence(lines), NEW seqs, seqs = [i \in DOMAIN lines |-> seqs[i]],
         \A i \in DOMAIN lines : IsSequence(seqs[i])
  PROVE  /\ IsSequence(FlattenSeq(seqs))
         /\ Clear(FlattenSeq(seqs)) <=> \A i \in DOMAIN lines : Clear(seqs[i])
<1>1. Len(lines) \in Nat /\ DOMAIN lines = 1 .. Len(lines)
  BY SequenceDomain
<1>2. DOMAIN seqs = 1 .. Len(lines) /\ seqs = [i \in 1 .. Len(lines) |-> seqs[i]]
  BY <1>1
<1>3. IsSequence(seqs)
  BY <1>1, <1>2, ComprehensionIsSequence
<1> QED
  BY <1>1, <1>2, <1>3, ClearFlattened

(* What a step of phase B leaves as it is.                                 *)
LEMMA StepKeeps ==
  ASSUME PhaseInv, NEW from, NEW to, NEW more, Step(from, to, more), IsSequence(more)
  PROVE  /\ ReadingInv' /\ stage = from /\ stage' = to
         /\ Clear(findings') <=> Clear(findings) /\ Clear(more)
         /\ UNCHANGED <<bundle, keyVars, checkpointVars>>
<1>1. stage = from /\ stage' = to /\ findings' = findings \o more
      /\ UNCHANGED <<bundle, keyVars, checkpointVars>>
  BY DEF Step, Found, FilesUnchanged
<1>2. KeyInv' /\ KeysDone'
  BY <1>1, KeysStay DEF PhaseInv, ReadingInv
<1>3. CheckpointInv'
  BY <1>1, CheckpointsStay DEF PhaseInv, ReadingInv, CheckpointInv, checkpointVars
<1>4. IsSequence(findings') /\ (Clear(findings') <=> Clear(findings) /\ Clear(more))
  BY <1>1, ClearJoined DEF PhaseInv, ReadingInv
<1> QED
  BY <1>1, <1>2, <1>3, <1>4 DEF ReadingInv

-----------------------------------------------------------------------------
(* Its steps, up to the checkpoints.                                       *)

LEMMA OpenContainerInv ==
  ASSUME PhaseInv, OpenContainer
  PROVE  PhaseInv'
<1>1. UNCHANGED <<bundle, keyVars, checkpointVars>> /\ stage = "container"
  BY DEF OpenContainer, Terminal, goto
<1>2. KeyInv' /\ KeysDone' /\ CheckpointInv'
  BY <1>1, KeysStay, CheckpointsStay DEF PhaseInv, ReadingInv, CheckpointInv, checkpointVars
<1>3. CASE Terminal(Finding(21, 0))
  BY <1>2, <1>3, TerminalInv DEF PhaseInv, Informational
<1>4. CASE goto("keys") /\ UNCHANGED resultVars /\ ~bundle.duplicate /\ Has(KeysFile)
  <2>1. ReadingInv'
    BY <1>2, <1>4 DEF ReadingInv, PhaseInv, resultVars
  <2>2. ContainerOK'
    BY <1>1, <1>4, FilesStay DEF ContainerOK
  <2>3. stage' = "keys" /\ ~Valid'
    BY <1>4 DEF goto, Valid, Done
  <2> QED
    BY <2>1, <2>2, <2>3 DEF PhaseInv, FilesInv, FindingsInv, Passed, AfterContainer, AfterKeys,
       AfterManifest, AfterMembers, AfterCheckpoints, AfterRecords, AfterWalk, AfterCompromise,
       AfterErasures, AfterClosure, AfterContent
<1> QED
  BY <1>3, <1>4 DEF OpenContainer

LEMMA ReadKeyLineInv ==
  ASSUME PhaseInv, Typed, ReadKeyLine
  PROVE  PhaseInv'
<1>1. UNCHANGED <<bundle, stage, resultVars, checkpointVars>> /\ stage = "keys"
  BY DEF ReadKeyLine
<1>2. ContainerOK
  BY <1>1 DEF PhaseInv, FilesInv, Passed, AfterContainer
<1>3. KeyInv' /\ KeysDone'
  BY <1>2, KeyReads, KeysEnd DEF PhaseInv, ReadingInv, ContainerOK, Typed
<1>4. CheckpointInv'
  BY <1>1, CheckpointsStay DEF PhaseInv, ReadingInv, CheckpointInv, checkpointVars
<1>5. ReadingInv'
  BY <1>1, <1>3, <1>4 DEF ReadingInv, PhaseInv, resultVars
<1>6. ContainerOK'
  BY <1>1, <1>2 DEF ContainerOK, Has
<1>7. stage' = "keys" /\ ~Valid'
  BY <1>1 DEF Valid, Done
<1> QED
  BY <1>5, <1>6, <1>7 DEF PhaseInv, FilesInv, FindingsInv, Passed, AfterContainer, AfterKeys,
     AfterManifest, AfterMembers, AfterCheckpoints, AfterRecords, AfterWalk, AfterCompromise,
     AfterErasures, AfterClosure, AfterContent

LEMMA KeysReadInv ==
  ASSUME PhaseInv, KeysRead
  PROVE  PhaseInv'
<1>1. UNCHANGED <<bundle, keyVars, checkpointVars>> /\ stage = "keys" /\ k_outcome # "reading"
  BY DEF KeysRead, Terminal
<1>2. KeyInv' /\ KeysDone' /\ CheckpointInv'
  BY <1>1, KeysStay, CheckpointsStay DEF PhaseInv, ReadingInv, CheckpointInv, checkpointVars
<1>3. CASE k_outcome # "ok"
  <2>1. k_outcome \in Keys!KeyChainError
    BY <1>1, <1>3 DEF PhaseInv, ReadingInv, KeyInv
  <2>2. key_chain_error_row(k_outcome) \notin Informational
    BY <2>1 DEF key_chain_error_row, Keys!KeyChainError, Informational
  <2>3. Terminal(Finding(key_chain_error_row(k_outcome), 0))
    BY <1>3 DEF KeysRead
  <2> QED
    BY <1>2, <2>2, <2>3, TerminalInv DEF PhaseInv
<1>4. CASE k_outcome = "ok"
  <2>1. goto("manifest") /\ UNCHANGED resultVars
    BY <1>4 DEF KeysRead
  <2>2. ReadingInv'
    BY <1>2, <2>1 DEF ReadingInv, PhaseInv, resultVars
  <2>3. ContainerOK' /\ KeysOK'
    BY <1>1, <1>4, FilesStay DEF KeysOK, PhaseInv, FilesInv, Passed, AfterContainer
  <2>4. stage' = "manifest" /\ ~Valid'
    BY <2>1 DEF goto, Valid, Done
  <2> QED
    BY <2>2, <2>3, <2>4 DEF PhaseInv, FilesInv, FindingsInv, Passed, AfterContainer, AfterKeys,
       AfterManifest, AfterMembers, AfterCheckpoints, AfterRecords, AfterWalk, AfterCompromise,
       AfterErasures, AfterClosure, AfterContent
<1> QED
  BY <1>3, <1>4

LEMMA VerifyManifestInv ==
  ASSUME PhaseInv, VerifyManifest
  PROVE  PhaseInv'
<1>1. UNCHANGED <<bundle, keyVars, checkpointVars>> /\ stage = "manifest"
  BY DEF VerifyManifest, Terminal
<1>2. KeyInv' /\ KeysDone' /\ CheckpointInv'
  BY <1>1, KeysStay, CheckpointsStay DEF PhaseInv, ReadingInv, CheckpointInv, checkpointVars
<1>3. ASSUME NEW row \in {11, 21, 22}, Terminal(Finding(row, 0)) PROVE PhaseInv'
  <2>1. row \notin Informational
    BY DEF Informational
  <2> QED
    BY <1>2, <1>3, <2>1, TerminalInv DEF PhaseInv
<1>4. CASE goto("members") /\ UNCHANGED resultVars /\ ManifestOK
  <2>1. ReadingInv'
    BY <1>2, <1>4 DEF ReadingInv, PhaseInv, resultVars
  <2>2. ContainerOK' /\ KeysOK' /\ ManifestOK'
    BY <1>1, <1>4, FilesStay DEF PhaseInv, FilesInv, Passed, AfterContainer, AfterKeys
  <2>3. stage' = "members" /\ ~Valid'
    BY <1>4 DEF goto, Valid, Done
  <2> QED
    BY <2>1, <2>2, <2>3 DEF PhaseInv, FilesInv, FindingsInv, Passed, AfterContainer, AfterKeys,
       AfterManifest, AfterMembers, AfterCheckpoints, AfterRecords, AfterWalk, AfterCompromise,
       AfterErasures, AfterClosure, AfterContent
<1> QED
  BY <1>3, <1>4 DEF VerifyManifest, ManifestOK

LEMMA VerifyMembersInv ==
  ASSUME PhaseInv, VerifyMembers
  PROVE  PhaseInv'
<1>1. UNCHANGED <<bundle, keyVars>> /\ stage = "members"
      /\ UNCHANGED <<c_checkpoints, c_anomalies, c_lines, c_outcome>>
  BY DEF VerifyMembers, Terminal
<1>2. KeyInv' /\ KeysDone' /\ CheckpointInv'
  BY <1>1, KeysStay, CheckpointsStay DEF PhaseInv, ReadingInv, CheckpointInv
<1>3. ASSUME NEW row \in {12, 21}, Terminal(Finding(row, 0)) PROVE PhaseInv'
  <2>1. row \notin Informational
    BY DEF Informational
  <2> QED
    BY <1>2, <1>3, <2>1, TerminalInv DEF PhaseInv
<1>4. CASE goto("checkpoints") /\ UNCHANGED resultVars /\ MembersOK
  <2>1. ReadingInv'
    BY <1>2, <1>4 DEF ReadingInv, PhaseInv, resultVars
  <2>2. /\ \A m : (Has(m)' <=> Has(m)) /\ Bytes(m)' = Bytes(m) /\ (Flipped(m)' <=> Flipped(m))
        /\ manifest' = manifest /\ k_outcome' = k_outcome
    BY <1>1 DEF Has, Bytes, Flipped, manifest, keyVars
  <2>3. ContainerOK' /\ KeysOK' /\ ManifestOK'
    BY <1>1, <2>2 DEF PhaseInv, FilesInv, Passed, AfterContainer, AfterKeys, AfterManifest,
       ContainerOK, KeysOK, ManifestOK
  <2>4. AtFault' = AtFault
    BY <1>1, <2>2 DEF AtFault, Sound, Listed
  <2>5. MembersOK'
    BY <1>1, <1>4, <2>2, <2>4 DEF MembersOK
  <2>6. stage' = "checkpoints" /\ ~Valid'
    BY <1>4 DEF goto, Valid, Done
  <2> QED
    BY <2>1, <2>3, <2>5, <2>6 DEF PhaseInv, FilesInv, FindingsInv, Passed, AfterContainer,
       AfterKeys, AfterManifest, AfterMembers, AfterCheckpoints, AfterRecords, AfterWalk,
       AfterCompromise, AfterErasures, AfterClosure, AfterContent
<1>5. CASE AtFault # {}
  <2>1. Terminal(Finding(IF Listed(FirstAtFault) THEN 12 ELSE 21, 0))
    BY <1>5 DEF VerifyMembers
  <2> QED
    BY <1>3, <2>1
<1>6. CASE AtFault = {} /\ ~MembersOK
  BY <1>3, <1>6 DEF VerifyMembers, MembersOK
<1>7. CASE MembersOK
  BY <1>4, <1>7 DEF VerifyMembers, MembersOK
<1> QED
  BY <1>5, <1>6, <1>7 DEF MembersOK

LEMMA ReadCheckpointLineInv ==
  ASSUME PhaseInv, Typed, ReadCheckpointLine
  PROVE  PhaseInv'
<1>1. UNCHANGED <<bundle, stage, resultVars, keyVars>> /\ stage = "checkpoints"
  BY DEF ReadCheckpointLine
<1>2. ContainerOK /\ KeysOK /\ ManifestOK /\ MembersOK
  BY <1>1 DEF PhaseInv, FilesInv, Passed, AfterContainer, AfterKeys, AfterManifest, AfterMembers
<1>3. KeyInv' /\ KeysDone'
  BY <1>1, KeysStay DEF PhaseInv, ReadingInv
<1>4. CheckpointInv'
  BY <1>2, CheckpointReads DEF PhaseInv, ReadingInv, MembersOK, Typed, Has
<1>5. ReadingInv'
  BY <1>1, <1>3, <1>4 DEF ReadingInv, PhaseInv, resultVars
<1>6. /\ \A m : (Has(m)' <=> Has(m)) /\ Bytes(m)' = Bytes(m) /\ (Flipped(m)' <=> Flipped(m))
      /\ manifest' = manifest /\ k_outcome' = k_outcome
  BY <1>1 DEF Has, Bytes, Flipped, manifest, keyVars
<1>7. AtFault' = AtFault
  BY <1>1, <1>6 DEF AtFault, Sound, Listed
<1>8. ContainerOK' /\ KeysOK' /\ ManifestOK' /\ MembersOK'
  BY <1>1, <1>2, <1>6, <1>7 DEF ContainerOK, KeysOK, ManifestOK, MembersOK
<1>9. stage' = "checkpoints" /\ ~Valid'
  BY <1>1 DEF Valid, Done
<1> QED
  BY <1>5, <1>8, <1>9 DEF PhaseInv, FilesInv, FindingsInv, Passed, AfterContainer,
     AfterKeys, AfterManifest, AfterMembers, AfterCheckpoints, AfterRecords, AfterWalk,
     AfterCompromise, AfterErasures, AfterClosure, AfterContent

LEMMA CheckpointsReadInv ==
  ASSUME PhaseInv, CheckpointsRead
  PROVE  PhaseInv'
<1>1. UNCHANGED <<bundle, keyVars, checkpointVars>> /\ stage = "checkpoints" /\ c_outcome # "reading"
  BY DEF CheckpointsRead, Terminal
<1>2. KeyInv' /\ KeysDone' /\ CheckpointInv'
  BY <1>1, KeysStay, CheckpointsStay DEF PhaseInv, ReadingInv, CheckpointInv, checkpointVars
<1>3. ASSUME NEW row \in {4, 10, 22}, Terminal(Finding(row, 0)) PROVE PhaseInv'
  <2>1. row \notin Informational
    BY DEF Informational
  <2> QED
    BY <1>2, <1>3, <2>1, TerminalInv DEF PhaseInv
<1>4. CASE c_outcome # "ok" \/ ~Bounded
  <2>1. c_outcome \in CPs!CpError \cup {"reading", "ok"}
    BY DEF PhaseInv, ReadingInv, CheckpointInv
  <2>2. \A e \in CPs!CpError \cup {"NotABoundary"} : cp_error_row(e) \in {4, 10, 22}
    BY DEF cp_error_row, CPs!CpError
  <2> QED
    BY <1>1, <1>3, <1>4, <2>1, <2>2 DEF CheckpointsRead
<1>5. CASE c_outcome = "ok" /\ Bounded
  <2>1. /\ stage' = "records" /\ findings' = findings \o ScopeFindings /\ report' = report
        /\ w_lines' = [w \in {"epoch"} |-> << >>] /\ w_outcome' = [w \in {"epoch"} |-> "walking"]
        /\ w_head' = [w \in {"epoch"} |-> bounds.start_head]
    BY <1>5 DEF CheckpointsRead, goto, Found
  <2>2. IsSequence(ScopeFindings)
    BY EmptyIsSequence, OneIsSequence DEF ScopeFindings
  <2>3. ReadingInv'
    BY <1>2, <2>1, <2>2, ClearJoined DEF ReadingInv, PhaseInv
  <2>4. ContainerOK' /\ KeysOK' /\ ManifestOK' /\ MembersOK' /\ Bounded'
    BY <1>1, <1>5, FilesStay DEF PhaseInv, FilesInv, Passed, AfterContainer, AfterKeys,
       AfterManifest, AfterMembers
  <2>5. WalkInv'
    <3>1. bounds' = bounds
      BY <1>1, FilesStay
    <3>2. /\ "epoch" \in DOMAIN w_lines' /\ "epoch" \in DOMAIN w_head' /\ "epoch" \in DOMAIN w_outcome'
          /\ w_lines'["epoch"] = << >> /\ w_head'["epoch"] = bounds' .start_head
          /\ w_outcome'["epoch"] = "walking"
      BY <2>1, <3>1
    <3>3. IsSequence(w_lines'["epoch"]) /\ Len(w_lines'["epoch"]) = 0
      BY <3>2, EmptyIsSequence
    <3>4. w_head'["epoch"] = HeadBefore(Len(w_lines["epoch"]) + 1)'
      BY <3>2, <3>3 DEF HeadBefore
    <3> QED
      BY <3>2, <3>3, <3>4 DEF WalkInv
  <2>6. stage' = "records" /\ ~Valid'
    BY <2>1 DEF Valid, Done
  <2> QED
    BY <2>3, <2>4, <2>5, <2>6 DEF PhaseInv, FilesInv, FindingsInv, Passed, AfterContainer,
       AfterKeys, AfterManifest, AfterMembers, AfterCheckpoints, AfterRecords, AfterWalk,
       AfterCompromise, AfterErasures, AfterClosure, AfterContent
<1> QED
  BY <1>4, <1>5

-----------------------------------------------------------------------------
(* The walk of the records.                                                *)

(* The checks behind the walk's first step stay passed.                    *)
LEMMA FilesInvStays ==
  ASSUME FilesInv, stage \in AfterCheckpoints, UNCHANGED <<bundle, keyVars, checkpointVars>>
  PROVE  FilesInv'
<1>1. ContainerOK /\ KeysOK /\ ManifestOK /\ MembersOK /\ Bounded
  BY DEF FilesInv, Passed, AfterContainer, AfterKeys, AfterManifest, AfterMembers
<1>2. ContainerOK' /\ KeysOK' /\ ManifestOK' /\ MembersOK' /\ Bounded'
  BY <1>1, FilesStay
<1> QED
  BY <1>2 DEF FilesInv

LEMMA RecordFindingsClear ==
  ASSUME NEW line
  PROVE  /\ IsSequence(RecordFindings(line))
         /\ Clear(RecordFindings(line)) => FaultRow(line) = 0 /\ position_correct(line)
<1>1. FaultRow(line) \in {0, 2, 16, 17, 22}
  BY DEF FaultRow
<1>2. CASE FaultRow(line) # 0
  <2>1. RecordFindings(line) = << Finding(FaultRow(line), FaultPosition(line)) >>
    BY <1>2 DEF RecordFindings
  <2>2. FaultRow(line) \notin Informational
    BY <1>1, <1>2 DEF Informational
  <2> QED
    BY <2>1, <2>2, ClearOne
<1>3. CASE FaultRow(line) = 0 /\ ~position_correct(line)
  <2>1. RecordFindings(line) = << Finding(3, line.position) >>
    BY <1>3 DEF RecordFindings
  <2>2. 3 \notin Informational
    BY DEF Informational
  <2> QED
    BY <2>1, <2>2, ClearOne
<1>4. CASE FaultRow(line) = 0 /\ position_correct(line)
  BY <1>4, EmptyIsSequence DEF RecordFindings
<1> QED
  BY <1>2, <1>3, <1>4

LEMMA AnalyzeRecordsInv ==
  ASSUME PhaseInv, Typed, AnalyzeRecords
  PROVE  PhaseInv'
<1> DEFINE seqs == [i \in DOMAIN epoch |->
                      IF i \in DOMAIN epoch THEN RecordFindings(epoch[i]) ELSE << >>]
<1>1. Gathered(epoch, DOMAIN epoch, RecordFindings) = FlattenSeq(seqs)
  BY DEF Gathered
<1>2. /\ IsSequence(FlattenSeq(seqs))
      /\ Clear(FlattenSeq(seqs)) <=> \A i \in DOMAIN epoch : Clear(seqs[i])
  <2>1. \A i \in DOMAIN epoch : IsSequence(seqs[i])
    BY RecordFindingsClear
  <2>2. seqs = [i \in DOMAIN epoch |-> seqs[i]]
    OBVIOUS
  <2> HIDE DEF seqs
  <2> QED
    BY <2>1, <2>2, GatheredClear DEF Typed
<1>3. Clear(FlattenSeq(seqs)) => RecordsOK
  BY <1>2, RecordFindingsClear DEF RecordsOK
<1>4. Step("records", "walk", FlattenSeq(seqs))
  BY <1>1 DEF AnalyzeRecords
<1> HIDE DEF seqs
<1>5. /\ ReadingInv' /\ stage = "records" /\ stage' = "walk"
      /\ Clear(findings') => Clear(FlattenSeq(seqs))
      /\ UNCHANGED <<bundle, keyVars, checkpointVars>>
  BY <1>2, <1>4, StepKeeps
<1>6. FilesInv'
  BY <1>5, FilesInvStays DEF PhaseInv, AfterCheckpoints
<1>7. WalkInv'
  BY <1>5, WalkStays DEF PhaseInv, FindingsInv, Passed, AfterCheckpoints, AnalyzeRecords, walkVars
<1>8. record_infos' = Faultless'
  BY <1>5, ReadingsStay DEF AnalyzeRecords, Faultless
<1>9. Clear(findings') => RecordsOK'
  BY <1>3, <1>5, ReadingsStay
<1>10. ~Valid'
  BY <1>5 DEF Valid, Done
<1> QED
  BY <1>5, <1>6, <1>7, <1>8, <1>9, <1>10 DEF PhaseInv, FindingsInv, Passed, AfterCheckpoints,
     AfterRecords, AfterWalk, AfterCompromise, AfterErasures, AfterClosure, AfterContent

(* What has been found so far stays so.                                    *)
LEMMA RecordsStay ==
  ASSUME PhaseInv, stage \in AfterRecords, UNCHANGED <<bundle, keyVars, checkpointVars, record_infos>>
  PROVE  /\ record_infos' = Faultless'
         /\ Clear(findings) => RecordsOK'
<1>1. record_infos = Faultless
  BY DEF PhaseInv, FindingsInv, Passed
<1> QED
  BY <1>1, FilesStay, ReadingsStay DEF PhaseInv, FindingsInv, Passed

LEMMA WalkRecordInv ==
  ASSUME PhaseInv, Typed, WalkRecord
  PROVE  PhaseInv'
<1>1. /\ stage = "walk" /\ stage' = "walk" /\ UNCHANGED resultVars
      /\ UNCHANGED <<bundle, keyVars, checkpointVars>>
  BY DEF WalkRecord, FilesUnchanged
<1>2. KeyInv' /\ KeysDone' /\ CheckpointInv'
  BY <1>1, KeysStay, CheckpointsStay DEF PhaseInv, ReadingInv, CheckpointInv, checkpointVars
<1>3. ReadingInv'
  BY <1>1, <1>2 DEF ReadingInv, PhaseInv, resultVars
<1>4. FilesInv'
  BY <1>1, FilesInvStays DEF PhaseInv, AfterCheckpoints, AfterRecords
<1>5. WalkInv'
  BY <1>1, WalkReads DEF PhaseInv, FindingsInv, Passed, AfterCheckpoints, AfterRecords, Typed
<1>6. /\ record_infos' = Faultless'
      /\ Clear(findings) => RecordsOK'
  BY <1>1, RecordsStay DEF AfterRecords, resultVars
<1>7. ~Valid' /\ findings' = findings
  BY <1>1 DEF Valid, Done, resultVars
<1> QED
  BY <1>1, <1>3, <1>4, <1>5, <1>6, <1>7 DEF PhaseInv, FindingsInv, Passed, AfterCheckpoints,
     AfterRecords, AfterWalk, AfterCompromise, AfterErasures, AfterClosure, AfterContent

LEMMA RecordsWalkedInv ==
  ASSUME PhaseInv, Typed, RecordsWalked
  PROVE  PhaseInv'
<1> DEFINE chain == IF w_outcome["epoch"] = "ok" /\ LandsOnEnd THEN << >> ELSE << Finding(4, 0) >>
           count == IF manifest.records = Len(epoch) THEN << >> ELSE << Finding(10, 0) >>
<1>1. /\ IsSequence(chain) /\ (Clear(chain) => w_outcome["epoch"] = "ok")
      /\ IsSequence(count) /\ (Clear(count) => CountOK)
  <2>1. 4 \notin Informational /\ 10 \notin Informational
    BY DEF Informational
  <2> QED
    BY <2>1, ClearOne, EmptyIsSequence DEF CountOK
<1>2. IsSequence(chain \o count) /\ (Clear(chain \o count) => Clear(chain) /\ Clear(count))
  BY <1>1, ClearJoined
<1>3. Step("walk", "compromise", chain \o count)
  BY DEF RecordsWalked, ChainFindings
<1> HIDE DEF chain, count
<1>4. /\ ReadingInv' /\ stage = "walk" /\ stage' = "compromise"
      /\ Clear(findings') => Clear(findings) /\ Clear(chain) /\ Clear(count)
      /\ UNCHANGED <<bundle, keyVars, checkpointVars>>
  BY <1>2, <1>3, StepKeeps
<1>5. UNCHANGED <<record_infos, walkVars>>
  BY DEF RecordsWalked
<1>6. FilesInv'
  BY <1>4, FilesInvStays DEF PhaseInv, AfterCheckpoints, AfterRecords
<1>7. WalkInv'
  BY <1>4, <1>5, WalkStays DEF PhaseInv, FindingsInv, Passed, AfterCheckpoints, AfterRecords, walkVars
<1>8. /\ record_infos' = Faultless'
      /\ Clear(findings) => RecordsOK'
  BY <1>4, <1>5, RecordsStay DEF AfterRecords
<1>9. Clear(findings') => w_outcome'["epoch"] = "ok" /\ CountOK'
  BY <1>1, <1>4, <1>5, ReadingsStay DEF walkVars
<1>10. ~Valid'
  BY <1>4 DEF Valid, Done
<1> QED
  BY <1>4, <1>6, <1>7, <1>8, <1>9, <1>10 DEF PhaseInv, FindingsInv, Passed, AfterCheckpoints,
     AfterRecords, AfterWalk, AfterCompromise, AfterErasures, AfterClosure, AfterContent

LEMMA CompromiseFindingsClear ==
  ASSUME NEW line
  PROVE  /\ IsSequence(CompromiseFindings(line))
         /\ Clear(CompromiseFindings(line)) /\ position_correct(line) =>
              Keys!classify_compromise(line.position, line.body.keyid,
                                       anchored_before_claim(line.position))
                \in {"NotAffected", "ValidPreClaim"}
<1> DEFINE c == Keys!classify_compromise(line.position, line.body.keyid,
                                         anchored_before_claim(line.position))
<1>1. 7 \notin Informational /\ 9 \notin Informational
  BY DEF Informational
<1>2. CompromiseFindings(line) =
        IF ~position_correct(line) THEN << >>
        ELSE CASE c = "NotAffected" -> << >>
               [] c = "ValidPreClaim" -> << Finding(8, line.position) >>
               [] c = "TamperedPostPosition" -> << Finding(7, line.position) >>
               [] OTHER -> << Finding(9, line.position) >>
  BY DEF CompromiseFindings
<1> HIDE DEF c
<1>3. CompromiseFindings(line) \in {<< >>, << Finding(8, line.position) >>,
        << Finding(7, line.position) >>, << Finding(9, line.position) >>}
  BY <1>2
<1>4. IsSequence(CompromiseFindings(line))
  BY <1>3, OneIsSequence, EmptyIsSequence
<1>5. ASSUME position_correct(line), c \notin {"NotAffected", "ValidPreClaim"}
      PROVE  ~Clear(CompromiseFindings(line))
  <2>1. CompromiseFindings(line) \in {<< Finding(7, line.position) >>, << Finding(9, line.position) >>}
    BY <1>2, <1>5
  <2> QED
    BY <1>1, <2>1, ClearOne
<1> QED
  BY <1>4, <1>5 DEF c

-----------------------------------------------------------------------------
(* Compromise, erasures and content.                                       *)

LEMMA ClassifyCompromiseInv ==
  ASSUME PhaseInv, Typed, ClassifyCompromise
  PROVE  PhaseInv'
<1> DEFINE seqs == [i \in DOMAIN epoch |->
                      IF i \in record_infos THEN CompromiseFindings(epoch[i]) ELSE << >>]
<1>1. Gathered(epoch, record_infos, CompromiseFindings) = FlattenSeq(seqs)
  BY DEF Gathered
<1>2. /\ IsSequence(FlattenSeq(seqs))
      /\ Clear(FlattenSeq(seqs)) <=> \A i \in DOMAIN epoch : Clear(seqs[i])
  <2>1. \A i \in DOMAIN epoch : IsSequence(seqs[i])
    BY CompromiseFindingsClear, EmptyIsSequence
  <2>2. seqs = [i \in DOMAIN epoch |-> seqs[i]]
    OBVIOUS
  <2> HIDE DEF seqs
  <2> QED
    BY <2>1, <2>2, GatheredClear DEF Typed
<1>3. Step("compromise", "erasures", FlattenSeq(seqs))
  BY <1>1 DEF ClassifyCompromise
<1>4. record_infos = Faultless /\ (Clear(findings) => RecordsOK)
  BY <1>3 DEF PhaseInv, FindingsInv, Passed, Step, AfterRecords, AfterWalk
<1>5. Clear(FlattenSeq(seqs)) /\ RecordsOK => CompromiseOK
  <2> SUFFICES ASSUME Clear(FlattenSeq(seqs)), RecordsOK, NEW i \in DOMAIN epoch
               PROVE  Keys!classify_compromise(epoch[i].position, epoch[i].body.keyid,
                                               anchored_before_claim(epoch[i].position))
                        \in {"NotAffected", "ValidPreClaim"}
    BY DEF CompromiseOK
  <2>1. i \in record_infos /\ position_correct(epoch[i])
    BY <1>4 DEF RecordsOK, Faultless
  <2>2. seqs[i] = CompromiseFindings(epoch[i]) /\ Clear(seqs[i])
    BY <1>2, <2>1
  <2> HIDE DEF seqs
  <2> QED
    BY <2>1, <2>2, CompromiseFindingsClear
<1> HIDE DEF seqs
<1>6. /\ ReadingInv' /\ stage = "compromise" /\ stage' = "erasures"
      /\ Clear(findings') => Clear(findings) /\ Clear(FlattenSeq(seqs))
      /\ UNCHANGED <<bundle, keyVars, checkpointVars>>
  BY <1>2, <1>3, StepKeeps
<1>7. UNCHANGED <<record_infos, walkVars>>
  BY DEF ClassifyCompromise
<1>8. FilesInv'
  BY <1>6, FilesInvStays DEF PhaseInv, AfterCheckpoints, AfterRecords, AfterWalk
<1>9. WalkInv'
  BY <1>6, <1>7, WalkStays DEF PhaseInv, FindingsInv, Passed, AfterCheckpoints, AfterRecords,
     AfterWalk, walkVars
<1>10. record_infos' = Faultless' /\ (Clear(findings) => RecordsOK')
  BY <1>6, <1>7, RecordsStay DEF AfterRecords, AfterWalk
<1>11. Clear(findings') => w_outcome'["epoch"] = "ok" /\ CountOK' /\ CompromiseOK'
  BY <1>4, <1>5, <1>6, <1>7, ReadingsStay DEF walkVars, PhaseInv, FindingsInv, Passed, AfterWalk
<1>12. ~Valid'
  BY <1>6 DEF Valid, Done
<1> QED
  BY <1>6, <1>8, <1>9, <1>10, <1>11, <1>12 DEF PhaseInv, FindingsInv, Passed, AfterCheckpoints,
     AfterRecords, AfterWalk, AfterCompromise, AfterErasures, AfterClosure, AfterContent

(* From the classification on.                                             *)
LEMMA CompromiseStays ==
  ASSUME PhaseInv, stage \in AfterCompromise,
         UNCHANGED <<bundle, keyVars, checkpointVars, record_infos, walkVars>>
  PROVE  /\ FilesInv' /\ WalkInv' /\ record_infos' = Faultless'
         /\ Clear(findings) =>
              RecordsOK' /\ w_outcome'["epoch"] = "ok" /\ CountOK' /\ CompromiseOK'
<1>1. FilesInv'
  BY FilesInvStays DEF PhaseInv, AfterCheckpoints, AfterRecords, AfterWalk
<1>2. WalkInv'
  BY WalkStays DEF PhaseInv, FindingsInv, Passed, AfterCheckpoints, AfterRecords, AfterWalk, walkVars
<1>3. record_infos' = Faultless' /\ (Clear(findings) => RecordsOK')
  BY RecordsStay DEF AfterRecords, AfterWalk
<1>4. Clear(findings) => w_outcome'["epoch"] = "ok" /\ CountOK' /\ CompromiseOK'
  BY ReadingsStay DEF walkVars, PhaseInv, FindingsInv, Passed, AfterWalk
<1> QED
  BY <1>1, <1>2, <1>3, <1>4

LEMMA CollectErasuresInv ==
  ASSUME PhaseInv, Typed, CollectErasures
  PROVE  PhaseInv'
<1> DEFINE seqs == [i \in DOMAIN epoch |->
                      IF i \in Erasures THEN ErasureFindings(epoch[i]) ELSE << >>]
<1>1. Gathered(epoch, Erasures, ErasureFindings) = FlattenSeq(seqs)
  BY DEF Gathered
<1>2. IsSequence(FlattenSeq(seqs))
  <2>1. \A i \in DOMAIN epoch : IsSequence(seqs[i])
    BY OneIsSequence, EmptyIsSequence DEF ErasureFindings
  <2>2. seqs = [i \in DOMAIN epoch |-> seqs[i]]
    OBVIOUS
  <2> HIDE DEF seqs
  <2> QED
    BY <2>1, <2>2, GatheredClear DEF Typed
<1>3. Step("erasures", "closure", FlattenSeq(seqs))
  BY <1>1 DEF CollectErasures
<1> HIDE DEF seqs
<1>4. /\ ReadingInv' /\ stage = "erasures" /\ stage' = "closure"
      /\ Clear(findings') => Clear(findings)
      /\ UNCHANGED <<bundle, keyVars, checkpointVars>>
  BY <1>2, <1>3, StepKeeps
<1>5. UNCHANGED <<record_infos, walkVars>> /\ erasure_targets' = TargetsIn(epoch, Erasures)
  BY DEF CollectErasures
<1>6. /\ FilesInv' /\ WalkInv' /\ record_infos' = Faultless'
      /\ Clear(findings) => RecordsOK' /\ w_outcome'["epoch"] = "ok" /\ CountOK' /\ CompromiseOK'
  BY <1>4, <1>5, CompromiseStays DEF AfterCompromise
<1>7. TargetsIn(epoch, Erasures)' = erasure_targets'
  BY <1>4, <1>5, FilesStay DEF TargetsIn, Erasures, in_range_positions
<1>8. ~Valid'
  BY <1>4 DEF Valid, Done
<1> QED
  BY <1>4, <1>6, <1>7, <1>8 DEF PhaseInv, FindingsInv, Passed, AfterCheckpoints,
     AfterRecords, AfterWalk, AfterCompromise, AfterErasures, AfterClosure, AfterContent

LEMMA CollectClosureInv ==
  ASSUME PhaseInv, Typed, CollectClosure
  PROVE  PhaseInv'
<1> DEFINE seqs == [i \in DOMAIN closure |->
                      IF i \in DOMAIN closure THEN ClosureFindings(closure[i]) ELSE << >>]
           count == IF manifest.closure = Len(closure) THEN << >> ELSE << Finding(10, 0) >>
<1>1. Gathered(closure, DOMAIN closure, ClosureFindings) = FlattenSeq(seqs)
  BY DEF Gathered
<1>2. IsSequence(FlattenSeq(seqs))
  <2>1. \A i \in DOMAIN closure : IsSequence(seqs[i])
    <3> SUFFICES ASSUME NEW i \in DOMAIN closure PROVE IsSequence(ClosureFindings(closure[i]))
      OBVIOUS
    <3>1. IsSequence(RecordFindings(closure[i]))
      BY RecordFindingsClear
    <3> DEFINE rest == IF \/ FaultRow(closure[i]) # 0
                          \/ /\ ClosureAdmits(closure[i])
                             /\ closure[i].body.target \in in_range_positions
                         THEN << >> ELSE << Finding(22, closure[i].position) >>
    <3>2. IsSequence(rest)
      BY OneIsSequence, EmptyIsSequence
    <3>3. ClosureFindings(closure[i]) = RecordFindings(closure[i]) \o rest
      BY DEF ClosureFindings
    <3> HIDE DEF rest
    <3> QED
      BY <3>1, <3>2, <3>3, Joined
  <2>2. seqs = [i \in DOMAIN closure |-> seqs[i]]
    OBVIOUS
  <2> HIDE DEF seqs
  <2> QED
    BY <2>1, <2>2, GatheredClear DEF Typed
<1>3. IsSequence(count)
  BY OneIsSequence, EmptyIsSequence
<1>4. Step("closure", "content", FlattenSeq(seqs) \o count)
  BY <1>1 DEF CollectClosure
<1> HIDE DEF seqs, count
<1>5. /\ ReadingInv' /\ stage = "closure" /\ stage' = "content"
      /\ Clear(findings') => Clear(findings)
      /\ UNCHANGED <<bundle, keyVars, checkpointVars>>
  BY <1>2, <1>3, <1>4, Joined, StepKeeps
<1>6. UNCHANGED <<record_infos, walkVars>> /\ erasure_targets \subseteq erasure_targets'
  BY DEF CollectClosure
<1>7. /\ FilesInv' /\ WalkInv' /\ record_infos' = Faultless'
      /\ Clear(findings) => RecordsOK' /\ w_outcome'["epoch"] = "ok" /\ CountOK' /\ CompromiseOK'
  BY <1>5, <1>6, CompromiseStays DEF AfterCompromise, AfterErasures
<1>8. TargetsIn(epoch, Erasures)' \subseteq erasure_targets'
  <2>1. TargetsIn(epoch, Erasures)' = TargetsIn(epoch, Erasures)
    BY <1>5, <1>6, FilesStay DEF TargetsIn, Erasures, in_range_positions
  <2>2. TargetsIn(epoch, Erasures) \subseteq erasure_targets
    BY <1>5 DEF PhaseInv, FindingsInv, Passed, AfterErasures
  <2> QED
    BY <1>6, <2>1, <2>2
<1>9. ~Valid'
  BY <1>5 DEF Valid, Done
<1> QED
  BY <1>5, <1>7, <1>8, <1>9 DEF PhaseInv, FindingsInv, Passed, AfterCheckpoints,
     AfterRecords, AfterWalk, AfterCompromise, AfterErasures, AfterClosure, AfterContent

LEMMA ContentFindingsClear ==
  ASSUME NEW line
  PROVE  /\ IsSequence(ContentFindings(line))
         /\ Clear(ContentFindings(line)) =>
              IF Absent(line) THEN line.position \in erasure_targets
              ELSE ContentMatches(line) /\ line.position \notin erasure_targets
<1>1. 12 \notin Informational /\ 14 \notin Informational /\ 15 \notin Informational
  BY DEF Informational
<1>2. CASE Absent(line)
  BY <1>1, <1>2, ClearOne DEF ContentFindings, Erased
<1>3. CASE ~Absent(line)
  BY <1>1, <1>3, ClearOne, EmptyIsSequence DEF ContentFindings, Erased
<1> QED
  BY <1>2, <1>3

LEMMA ExamineContentInv ==
  ASSUME PhaseInv, Typed, ExamineContent
  PROVE  PhaseInv'
<1> DEFINE seqs == [i \in DOMAIN epoch |->
                      IF i \in WithContent THEN ContentFindings(epoch[i]) ELSE << >>]
           count == IF manifest.withheld_erased = actual_withheld THEN << >> ELSE << Finding(10, 0) >>
<1>1. Gathered(epoch, WithContent, ContentFindings) = FlattenSeq(seqs)
  BY DEF Gathered
<1>2. /\ IsSequence(FlattenSeq(seqs))
      /\ Clear(FlattenSeq(seqs)) <=> \A i \in DOMAIN epoch : Clear(seqs[i])
  <2>1. \A i \in DOMAIN epoch : IsSequence(seqs[i])
    BY ContentFindingsClear, EmptyIsSequence
  <2>2. seqs = [i \in DOMAIN epoch |-> seqs[i]]
    OBVIOUS
  <2> HIDE DEF seqs
  <2> QED
    BY <2>1, <2>2, GatheredClear DEF Typed
<1>3. /\ IsSequence(count) /\ (Clear(count) => manifest.withheld_erased = actual_withheld)
  <2>1. 10 \notin Informational
    BY DEF Informational
  <2> QED
    BY <2>1, ClearOne, EmptyIsSequence
<1>4. Step("content", "informational", FlattenSeq(seqs) \o count)
  BY <1>1 DEF ExamineContent
<1>5. record_infos = Faultless /\ (Clear(findings) => RecordsOK)
  BY <1>4 DEF PhaseInv, FindingsInv, Passed, Step, AfterRecords, AfterWalk, AfterCompromise,
     AfterErasures, AfterClosure
<1>6. Clear(FlattenSeq(seqs)) /\ Clear(count) /\ RecordsOK => ContentOK
  <2> SUFFICES ASSUME Clear(FlattenSeq(seqs)), RecordsOK, NEW i \in DOMAIN epoch,
                      epoch[i].body.content_hash # NoContent
               PROVE  IF Absent(epoch[i]) THEN epoch[i].position \in erasure_targets
                      ELSE ContentMatches(epoch[i]) /\ epoch[i].position \notin erasure_targets
    BY <1>3 DEF ContentOK
  <2>1. i \in WithContent
    BY <1>5 DEF RecordsOK, Faultless, WithContent
  <2>2. seqs[i] = ContentFindings(epoch[i]) /\ Clear(seqs[i])
    BY <1>2, <2>1
  <2> HIDE DEF seqs
  <2> QED
    BY <2>2, ContentFindingsClear
<1> HIDE DEF seqs, count
<1>7. IsSequence(FlattenSeq(seqs) \o count)
      /\ (Clear(FlattenSeq(seqs) \o count) <=> Clear(FlattenSeq(seqs)) /\ Clear(count))
  BY <1>2, <1>3, ClearJoined
<1>8. /\ ReadingInv' /\ stage = "content" /\ stage' = "informational"
      /\ Clear(findings') => Clear(findings) /\ Clear(FlattenSeq(seqs)) /\ Clear(count)
      /\ UNCHANGED <<bundle, keyVars, checkpointVars>>
  BY <1>4, <1>7, StepKeeps
<1>9. UNCHANGED <<record_infos, erasure_targets, walkVars>>
  BY DEF ExamineContent
<1>10. /\ FilesInv' /\ WalkInv' /\ record_infos' = Faultless'
       /\ Clear(findings) => RecordsOK' /\ w_outcome'["epoch"] = "ok" /\ CountOK' /\ CompromiseOK'
  BY <1>8, <1>9, CompromiseStays DEF AfterCompromise, AfterErasures, AfterClosure
<1>11. /\ TargetsIn(epoch, Erasures)' = TargetsIn(epoch, Erasures)
       /\ TargetsIn(epoch, Erasures) \subseteq erasure_targets
  BY <1>8, <1>9, FilesStay DEF TargetsIn, Erasures, in_range_positions, PhaseInv, FindingsInv,
     Passed, AfterErasures, AfterClosure
<1>12. ContentOK' <=> ContentOK
  BY <1>8, <1>9, FilesStay, ReadingsStay DEF ContentOK, actual_withheld, WithContent, Erased
<1>13. ~Valid'
  BY <1>8 DEF Valid, Done
<1> QED
  BY <1>5, <1>6, <1>8, <1>9, <1>10, <1>11, <1>12, <1>13 DEF PhaseInv, FindingsInv, Passed,
     AfterCheckpoints, AfterRecords, AfterWalk, AfterCompromise, AfterErasures, AfterClosure,
     AfterContent

-----------------------------------------------------------------------------
(* The end of the verification, and its beginning.                         *)

LEMMA UnreadInv ==
  ASSUME Unread
  PROVE  KeyInv /\ KeysDone /\ CheckpointInv
<1>1. KeyInv
  BY EmptyIsSequence DEF Unread, KeyInv, KeyMemory
<1>2. KeysDone
  BY DEF Unread, KeysDone
<1>3. CheckpointInv
  BY EmptyIsSequence DEF Unread, CheckpointInv
<1> QED
  BY <1>1, <1>2, <1>3

(* Before the container is opened nothing is claimed of it.                *)
LEMMA UnopenedInv ==
  ASSUME Unread, stage \in {"recipe", "container"}, IsSequence(findings)
  PROVE  PhaseInv
<1>1. ~Valid
  BY DEF Valid, Done
<1>2. ReadingInv
  BY UnreadInv DEF ReadingInv
<1> QED
  BY <1>1, <1>2 DEF PhaseInv, FilesInv, FindingsInv, Passed, AfterContainer, AfterKeys,
     AfterManifest, AfterMembers, AfterCheckpoints, AfterRecords, AfterWalk, AfterCompromise,
     AfterErasures, AfterClosure, AfterContent

LEMMA PhaseInit ==
  ASSUME Init
  PROVE  PhaseInv
<1>1. Unread /\ findings = << >>
  BY DEF Init, InitVerify, Unread
<1> QED
  BY <1>1, EmptyIsSequence, UnopenedInv DEF Init

LEMMA BuildInv ==
  ASSUME PhaseInv, Build
  PROVE  PhaseInv'
<1>1. Unread /\ IsSequence(findings)
  BY DEF Build, PhaseInv, ReadingInv
<1>2. UNCHANGED <<keyVars, checkpointVars, findings>> /\ stage' = "container"
  BY DEF Build, resultVars
<1>3. Unread' /\ IsSequence(findings')
  BY <1>1, <1>2 DEF Unread, keyVars, checkpointVars
<1>4. ASSUME Unread', (stage \in {"recipe", "container"})', IsSequence(findings)' PROVE PhaseInv'
  <2>1. ~Valid'
    BY <1>4 DEF Valid, Done
  <2>2. ReadingInv'
    <3>1. KeyInv'
      BY <1>4, EmptyIsSequence DEF Unread, KeyInv, KeyMemory
    <3>2. KeysDone'
      BY <1>4 DEF Unread, KeysDone
    <3>3. CheckpointInv'
      BY <1>4, EmptyIsSequence DEF Unread, CheckpointInv
    <3> QED
      BY <1>4, <3>1, <3>2, <3>3 DEF ReadingInv
  <2> QED
    BY <1>4, <2>1, <2>2 DEF PhaseInv, FilesInv, FindingsInv, Passed, AfterContainer, AfterKeys,
       AfterManifest, AfterMembers, AfterCheckpoints, AfterRecords, AfterWalk, AfterCompromise,
       AfterErasures, AfterClosure, AfterContent
<1> QED
  BY <1>2, <1>3, <1>4

(* What the checks have found once the content has been examined.          *)
LEMMA ContentStays ==
  ASSUME PhaseInv, stage \in AfterContent,
         UNCHANGED <<bundle, keyVars, checkpointVars, record_infos, erasure_targets, walkVars>>
  PROVE  /\ FilesInv' /\ WalkInv' /\ record_infos' = Faultless'
         /\ TargetsIn(epoch, Erasures)' \subseteq erasure_targets'
         /\ Clear(findings) =>
              /\ RecordsOK' /\ w_outcome'["epoch"] = "ok" /\ CountOK' /\ CompromiseOK'
              /\ ContentOK'
<1>1. /\ FilesInv' /\ WalkInv' /\ record_infos' = Faultless'
      /\ Clear(findings) => RecordsOK' /\ w_outcome'["epoch"] = "ok" /\ CountOK' /\ CompromiseOK'
  BY CompromiseStays DEF AfterCompromise, AfterErasures, AfterClosure
<1>2. TargetsIn(epoch, Erasures)' \subseteq erasure_targets'
  BY FilesStay DEF TargetsIn, Erasures, in_range_positions, PhaseInv, FindingsInv,
     Passed, AfterErasures, AfterClosure
<1>3. ContentOK' <=> ContentOK
  BY FilesStay, ReadingsStay DEF ContentOK, actual_withheld, WithContent, Erased
<1> QED
  BY <1>1, <1>2, <1>3 DEF PhaseInv, FindingsInv, Passed

LEMMA AnchorFindingsSequence ==
  ASSUME NEW a PROVE IsSequence(AnchorFindings(a))
BY OneIsSequence, EmptyIsSequence DEF AnchorFindings

LEMMA ClockFindingsSequence ==
  ASSUME CheckpointInv PROVE IsSequence(ClockFindings)
<1>1. Len(c_anomalies) \in Nat
  BY SequenceDomain DEF CheckpointInv
<1> QED
  BY <1>1, ComprehensionIsSequence DEF ClockFindings

LEMMA AnchorsSequence ==
  ASSUME Typed PROVE IsSequence(anchors)
<1>1. IsFiniteSet({m \in DOMAIN bundle.members : m[1] = 1})
  BY FS_Subset DEF Typed
<1>2. AnchorCount \in Nat
  BY <1>1, FS_CardinalityType DEF AnchorCount
<1> QED
  BY <1>2, ComprehensionIsSequence DEF anchors

LEMMA InformInv ==
  ASSUME PhaseInv, Typed, Inform
  PROVE  PhaseInv'
<1> DEFINE seqs == [i \in DOMAIN anchors |->
                      IF i \in DOMAIN anchors THEN AnchorFindings(anchors[i]) ELSE << >>]
           empty == IF manifest.records = 0 THEN << Finding(25, 0) >> ELSE << >>
<1>1. Gathered(anchors, DOMAIN anchors, AnchorFindings) = FlattenSeq(seqs)
  BY DEF Gathered
<1>2. IsSequence(FlattenSeq(seqs))
  <2>1. \A i \in DOMAIN anchors : IsSequence(seqs[i])
    BY AnchorFindingsSequence
  <2>2. seqs = [i \in DOMAIN anchors |-> seqs[i]]
    OBVIOUS
  <2> HIDE DEF seqs
  <2> QED
    BY <2>1, <2>2, GatheredClear, AnchorsSequence
<1>3. IsSequence(empty)
  BY OneIsSequence, EmptyIsSequence
<1>4. Step("informational", "verdict", ClockFindings \o FlattenSeq(seqs) \o empty)
  BY <1>1 DEF Inform
<1> HIDE DEF seqs, empty
<1>5. IsSequence(ClockFindings \o FlattenSeq(seqs) \o empty)
  BY <1>2, <1>3, ClockFindingsSequence, Joined DEF PhaseInv, ReadingInv
<1>6. /\ ReadingInv' /\ stage = "informational" /\ stage' = "verdict"
      /\ Clear(findings') => Clear(findings)
      /\ UNCHANGED <<bundle, keyVars, checkpointVars>>
  BY <1>4, <1>5, StepKeeps
<1>7. UNCHANGED <<record_infos, erasure_targets, walkVars>>
  BY DEF Inform
<1>8. /\ FilesInv' /\ WalkInv' /\ record_infos' = Faultless'
      /\ TargetsIn(epoch, Erasures)' \subseteq erasure_targets'
      /\ Clear(findings) =>
           /\ RecordsOK' /\ w_outcome'["epoch"] = "ok" /\ CountOK' /\ CompromiseOK'
           /\ ContentOK'
  BY <1>6, <1>7, ContentStays DEF AfterContent
<1>9. ~Valid'
  BY <1>6 DEF Valid, Done
<1> QED
  BY <1>6, <1>8, <1>9 DEF PhaseInv, FindingsInv

LEMMA ConcludeInv ==
  ASSUME PhaseInv, Conclude
  PROVE  PhaseInv'
<1>1. Step("verdict", "done", << >>) /\ UNCHANGED <<record_infos, erasure_targets, walkVars>>
      /\ report' = classify(findings)
  BY DEF Conclude
<1>2. /\ ReadingInv' /\ stage = "verdict" /\ stage' = "done"
      /\ Clear(findings') <=> Clear(findings)
      /\ UNCHANGED <<bundle, keyVars, checkpointVars>>
  BY <1>1, StepKeeps, ClearNone
<1>3. /\ FilesInv' /\ WalkInv' /\ record_infos' = Faultless'
      /\ TargetsIn(epoch, Erasures)' \subseteq erasure_targets'
      /\ Clear(findings) =>
           /\ RecordsOK' /\ w_outcome'["epoch"] = "ok" /\ CountOK' /\ CompromiseOK'
           /\ ContentOK'
  BY <1>1, <1>2, ContentStays DEF AfterContent
<1>4. Valid' => Clear(findings')
  BY <1>1, <1>2, ClassifyClear DEF Valid, Done, PhaseInv, ReadingInv
<1> QED
  BY <1>2, <1>3, <1>4 DEF PhaseInv, FindingsInv

LEMMA PhaseStays ==
  ASSUME PhaseInv, UNCHANGED verifyVars
  PROVE  PhaseInv'
<1>1. UNCHANGED <<stage, bundle, findings, report, record_infos, erasure_targets, withheld, tier>>
      /\ UNCHANGED <<keyVars, checkpointVars, walkVars>>
  BY DEF verifyVars, resultVars
<1>2. KeyInv' /\ KeysDone' /\ CheckpointInv'
  BY <1>1, KeysStay, CheckpointsStay DEF PhaseInv, ReadingInv, CheckpointInv, checkpointVars
<1>3. ReadingInv' /\ (Unread' <=> Unread)
  BY <1>1, <1>2 DEF ReadingInv, PhaseInv, Unread, keyVars, checkpointVars
<1>4. (Valid' <=> Valid) /\ \A s : (Passed(s)' <=> Passed(s))
  BY <1>1 DEF Valid, Done, Passed
<1>5. FilesInv'
  BY <1>1, <1>4, FilesStay DEF PhaseInv, FilesInv
<1>6. WalkInv => WalkInv'
  BY <1>1, WalkStays DEF walkVars
<1>7. TargetsIn(epoch, Erasures)' = TargetsIn(epoch, Erasures)
  BY <1>1, FilesStay DEF TargetsIn, Erasures, in_range_positions
<1>8. ContentOK' <=> ContentOK
  BY <1>1, FilesStay, ReadingsStay DEF ContentOK, actual_withheld, WithContent, Erased
<1>9. w_outcome' = w_outcome
  BY <1>1 DEF walkVars
<1>10. FindingsInv'
  BY <1>1, <1>4, <1>6, <1>7, <1>8, <1>9, ReadingsStay DEF PhaseInv, FindingsInv
<1> QED
  BY <1>1, <1>3, <1>4, <1>5, <1>10 DEF PhaseInv

LEMMA PhaseStep ==
  ASSUME PhaseInv, stage # "recipe" => Typed, [Next]_vars
  PROVE  PhaseInv'
<1>1. CASE Write
  BY <1>1, PhaseStays DEF Write
<1>2. CASE Build
  BY <1>2, BuildInv
<1>3. CASE UNCHANGED vars
  BY <1>3, PhaseStays DEF vars
<1>4. CASE Verify
  <2>1. Typed
    BY <1>4 DEF Verify, OpenContainer, ReadKeyLine, KeysRead, VerifyManifest, VerifyMembers,
       ReadCheckpointLine, CheckpointsRead, AnalyzeRecords, WalkRecord, RecordsWalked,
       ClassifyCompromise, CollectErasures, CollectClosure, ExamineContent, Inform, Conclude, Step
  <2> QED
    BY <1>4, <2>1, OpenContainerInv, ReadKeyLineInv, KeysReadInv, VerifyManifestInv,
       VerifyMembersInv, ReadCheckpointLineInv, CheckpointsReadInv, AnalyzeRecordsInv,
       WalkRecordInv, RecordsWalkedInv, ClassifyCompromiseInv, CollectErasuresInv,
       CollectClosureInv, ExamineContentInv, InformInv, ConcludeInv DEF Verify
<1> QED
  BY <1>1, <1>2, <1>3, <1>4 DEF Next

-----------------------------------------------------------------------------
(* What can be written.                                                    *)

(* The recipes that can be written.                                        *)
Recipe ==
  [recovery : BOOLEAN, rotations : Seq(Nat), compromise : Nat, content : Seq(BOOLEAN),
   erase : [1 .. MaxRecords -> {"none", "erase", "closure", "drop", "keep"}],
   anchors : Seq(AnchorOffered), window : Nat, zero : BOOLEAN,
   times : {<< >>} \cup ClockOffered, hooks : SUBSET HookOffered]

RecipeInv == recipe \in Recipe /\ N(recipe) <= MaxRecords

BuiltInv == stage # "recipe" => CanBuild(recipe) /\ bundle = build(recipe)

LEMMA RecipeInit == ASSUME Init PROVE RecipeInv
BY BuilderAssumption DEF Init, InitRecipe, NewRecipe, RecipeInv, Recipe, N

LEMMA RecipeWritten ==
  ASSUME RecipeInv, Call
  PROVE  RecipeInv'
<1> USE DEF RecipeInv, Recipe, N
<1>1. CASE with_recovery_key
  BY <1>1 DEF with_recovery_key
<1>2. ASSUME NEW p \in RotationAt, with_rotation(p) PROVE RecipeInv'
  <2>1. Append(recipe.rotations, p) \in Seq(Nat)
    BY <1>2, BuilderAssumption
  <2> QED
    BY <1>2, <2>1 DEF with_rotation
<1>3. ASSUME NEW p \in CompromiseAt, with_compromise(p) PROVE RecipeInv'
  BY <1>3, BuilderAssumption DEF with_compromise
<1>4. ASSUME NEW c \in BOOLEAN, add_record(c) PROVE RecipeInv'
  <2>1. /\ Append(recipe.content, c) \in Seq(BOOLEAN)
        /\ Len(Append(recipe.content, c)) = Len(recipe.content) + 1
        /\ Len(recipe.content) \in Nat
    BY <1>4
  <2>2. Len(recipe.content) + 1 <= MaxRecords
    BY <1>4, <2>1, BuilderAssumption DEF add_record
  <2> DEFINE longer == Append(recipe.content, c)
  <2>3. recipe' = [recipe EXCEPT !.content = longer]
    BY <1>4 DEF add_record
  <2> HIDE DEF longer
  <2>4. recipe' \in Recipe /\ recipe'.content = longer
    BY <2>1, <2>3 DEF longer
  <2> QED
    BY <2>1, <2>2, <2>4 DEF longer
<1>5. ASSUME NEW p \in 1 .. MaxRecords, NEW mode \in EraseMode, erase(p, mode) PROVE RecipeInv'
  <2> DEFINE erased == [recipe.erase EXCEPT ![p] = mode]
  <2>1. erased \in [1 .. MaxRecords -> {"none", "erase", "closure", "drop", "keep"}]
    BY <1>5, BuilderAssumption
  <2>2. recipe' = [recipe EXCEPT !.erase = erased]
    BY <1>5 DEF erase
  <2> HIDE DEF erased
  <2> QED
    BY <2>1, <2>2
<1>6. ASSUME NEW a \in AnchorOffered, with_anchor(a) PROVE RecipeInv'
  <2>1. Append(recipe.anchors, a) \in Seq(AnchorOffered)
    BY <1>6
  <2> QED
    BY <1>6, <2>1 DEF with_anchor
<1>7. CASE zero_records
  BY <1>7 DEF zero_records
<1>8. ASSUME NEW times \in ClockOffered, with_checkpoint_times(times) PROVE RecipeInv'
  BY <1>8 DEF with_checkpoint_times
<1>9. ASSUME NEW p \in WindowAt, export_window_start(p) PROVE RecipeInv'
  BY <1>9, BuilderAssumption DEF export_window_start
<1>10. ASSUME NEW h \in HookOffered, Hook(h) PROVE RecipeInv'
  <2> DEFINE hooks == {g \in recipe.hooks : ~Replaces(h, g)} \cup {h}
  <2>1. recipe' = [recipe EXCEPT !.hooks = hooks]
    BY <1>10 DEF Hook
  <2>2. hooks \in SUBSET HookOffered
    OBVIOUS
  <2> HIDE DEF hooks
  <2> QED
    BY <2>1, <2>2
<1> QED
  BY <1>1, <1>2, <1>3, <1>4, <1>5, <1>6, <1>7, <1>8, <1>9, <1>10 DEF Call

(* The files as lengths and lines.                                         *)
LEMMA TargetsLength ==
  ASSUME RecipeInv, NEW modes
  PROVE  /\ IsFiniteSet(Targeted(recipe, modes)) /\ Len(Targets(recipe, modes)) \in Nat
         /\ Len(Targets(recipe, modes)) = Cardinality(Targeted(recipe, modes))
<1>1. N(recipe) \in Nat
  BY DEF RecipeInv, Recipe, N
<1>2. IsFiniteSet(1 .. N(recipe))
  BY <1>1, FS_Interval
<1>3. IsFiniteSet(Targeted(recipe, modes))
  BY <1>2, FS_Subset DEF Targeted
<1>4. Cardinality(Targeted(recipe, modes)) \in Nat
  BY <1>3, FS_CardinalityType
<1>5. IsSequence(Targets(recipe, modes)) /\
        Len(Targets(recipe, modes)) = Cardinality(Targeted(recipe, modes))
  BY <1>4, ComprehensionIsSequence DEF Targets
<1> QED
  BY <1>3, <1>4, <1>5

LEMMA JournalLengthType ==
  ASSUME RecipeInv
  PROVE  JournalLength(recipe) \in Nat /\ N(recipe) \in Nat /\ N(recipe) <= JournalLength(recipe)
<1>1. N(recipe) \in Nat
  BY DEF RecipeInv, Recipe, N
<1>2. Len(InRange(recipe)) \in Nat
  BY TargetsLength DEF InRange
<1> QED
  BY <1>1, <1>2 DEF JournalLength

(* The journal's lines, whatever the heads are.                            *)
JournalHead(r) ==
  CHOOSE f : f = [i \in 0 .. JournalLength(r) |->
                    IF i = 0 THEN GENESIS_PREV
                    ELSE HeadAfter(f[i - 1], BeforeTamper(Entry(r, i, f[i - 1])))]

LEMMA JournalLines ==
  ASSUME NEW r, JournalLength(r) \in Nat
  PROVE  /\ Journal(r) = [i \in 1 .. JournalLength(r) |->
                            [line |-> Entry(r, i, JournalHead(r)[i - 1]), after |-> JournalHead(r)[i]]]
         /\ IsSequence(Journal(r)) /\ Len(Journal(r)) = JournalLength(r)
<1>1. Journal(r) = [i \in 1 .. JournalLength(r) |->
                     [line |-> Entry(r, i, JournalHead(r)[i - 1]), after |-> JournalHead(r)[i]]]
  BY Zenon DEF Journal, Chained, JournalHead
<1> QED
  BY <1>1, ComprehensionIsSequence

-----------------------------------------------------------------------------
(* What is built.                                                          *)

(* Every file the builder writes is a sequence of lines.                   *)
LEMMA LinesSequence ==
  ASSUME NEW chain, IsSequence(chain)
  PROVE  /\ IsSequence(LinesOf(chain)) /\ Len(LinesOf(chain)) = Len(chain)
         /\ \A i \in 1 .. Len(chain) : LinesOf(chain)[i] = chain[i].line
<1>1. Len(chain) \in Nat
  BY SequenceDomain
<1> QED
  BY <1>1, ComprehensionIsSequence DEF LinesOf

LEMMA EpochFacts ==
  ASSUME RecipeInv, CanBuild(recipe)
  PROVE  LET lines == EpochLines(recipe, Journal(recipe))
         IN  /\ IsSequence(lines)
             /\ Len(lines) = JournalLength(recipe) - recipe.window
             /\ \A i \in 1 .. Len(lines) :
                  lines[i] = Entry(recipe, recipe.window + i,
                                   JournalHead(recipe)[recipe.window + i - 1])
<1> DEFINE all == LinesOf(Journal(recipe))
           n == JournalLength(recipe)
           w == recipe.window
           lines == SubSeq(all, w + 1, n)
<1>1. n \in Nat /\ w \in Nat /\ w <= n
  BY JournalLengthType DEF RecipeInv, Recipe, CanBuild
<1>2. /\ IsSequence(all) /\ Len(all) = n
      /\ \A i \in 1 .. n : all[i] = Entry(recipe, i, JournalHead(recipe)[i - 1])
  BY <1>1, JournalLines, LinesSequence
<1>3. EpochLines(recipe, Journal(recipe)) = lines
  BY <1>1, JournalLines DEF EpochLines
<1> HIDE DEF all, n, w
<1>4. all \in Seq(Elements(all))
  BY <1>2 DEF IsSequence
<1>5. lines = [i \in 1 .. n - w |-> all[w + i]]
  BY <1>1, <1>2, <1>4
<1>6. n - w \in Nat /\ \A i \in 1 .. n - w : w + i \in 1 .. n
  BY <1>1
<1> HIDE DEF lines
<1>7. IsSequence(lines) /\ Len(lines) = n - w
  BY <1>5, <1>6, ComprehensionIsSequence
<1>8. \A i \in 1 .. n - w : lines[i] = Entry(recipe, w + i, JournalHead(recipe)[w + i - 1])
  BY <1>1, <1>2, <1>5, <1>6
<1> QED
  BY <1>3, <1>7, <1>8 DEF n, w

LEMMA KeyFacts ==
  ASSUME RecipeInv
  PROVE  LET lines == KeyLines(recipe)
         IN  /\ IsSequence(lines)
             /\ Len(lines) = KeyRecords(recipe) /\ KeyRecords(recipe) \in Nat
             /\ \A i \in 1 .. KeyRecords(recipe) :
                  \E prev : lines[i] = KeyRecord(recipe, i, prev)
<1> DEFINE n == KeyRecords(recipe)
           head == CHOOSE f : f = [i \in 0 .. n |->
                     IF i = 0 THEN GENESIS_PREV
                     ELSE HeadAfter(f[i - 1], AsIs(KeyRecord(recipe, i, f[i - 1])))]
           chain == [i \in 1 .. n |-> [line |-> KeyRecord(recipe, i, head[i - 1]), after |-> head[i]]]
<1>1. KeyLines(recipe) = LinesOf(chain)
  BY Zenon DEF KeyLines, Chained
<1>2. n \in Nat
  BY DEF RecipeInv, Recipe, KeyRecords
<1> HIDE DEF n, head
<1>3. IsSequence(chain) /\ Len(chain) = n
  BY <1>2, ComprehensionIsSequence
<1>4. \A i \in 1 .. n : chain[i].line = KeyRecord(recipe, i, head[i - 1])
  OBVIOUS
<1> HIDE DEF chain
<1> QED
  BY <1>1, <1>2, <1>3, <1>4, LinesSequence DEF n

LEMMA CheckpointFacts ==
  ASSUME NEW r
  PROVE  LET lines == CheckpointLines(r, Journal(r))
         IN  /\ IsSequence(lines) /\ Len(lines) \in {1, 2}
             /\ lines[1].position = r.window /\ lines[1].head = HeadAt(Journal(r), r.window)
             /\ Len(lines) = 2 =>
                  lines[2].position = End(r) /\ lines[2].head = HeadAt(Journal(r), End(r))
             /\ Len(lines) = 1 => End(r) = 0
<1> DEFINE journal == Journal(r)
           Line(i, prev) ==
             IF i = 1 THEN CheckpointAt(r, journal, r.window, StartTime(r), prev)
                      ELSE CheckpointAt(r, journal, End(r), EndTime(r), prev)
           n == IF End(r) = 0 THEN 1 ELSE 2
           head == CHOOSE f : f = [i \in 0 .. n |->
                     IF i = 0 THEN GENESIS_PREV
                     ELSE HeadAfter(f[i - 1], AsIs(Line(i, f[i - 1])))]
           chain == [i \in 1 .. n |-> [line |-> Line(i, head[i - 1]), after |-> head[i]]]
<1>1. CheckpointLines(r, journal) = LinesOf(chain)
  BY Zenon DEF CheckpointLines, Chained
<1>2. n \in {1, 2} /\ n \in Nat /\ (n = 1 => End(r) = 0)
  OBVIOUS
<1> HIDE DEF n, head, journal
<1>3. IsSequence(chain) /\ Len(chain) = n
  <2> HIDE DEF Line
  <2> QED
    BY <1>2, ComprehensionIsSequence
<1>4. /\ chain[1].line = CheckpointAt(r, journal, r.window, StartTime(r), head[0])
      /\ n = 2 => chain[2].line = CheckpointAt(r, journal, End(r), EndTime(r), head[1])
  BY <1>2
<1>5. \A p, t, prev : /\ CheckpointAt(r, journal, p, t, prev).position = p
                      /\ CheckpointAt(r, journal, p, t, prev).head = HeadAt(journal, p)
  BY DEF CheckpointAt
<1> HIDE DEF chain, Line
<1>6. /\ IsSequence(LinesOf(chain)) /\ Len(LinesOf(chain)) = n
      /\ LinesOf(chain)[1] = chain[1].line /\ (n = 2 => LinesOf(chain)[2] = chain[2].line)
  BY <1>2, <1>3, LinesSequence
<1> QED
  BY <1>1, <1>2, <1>4, <1>5, <1>6 DEF journal

LEMMA ClosureSequence ==
  ASSUME RecipeInv
  PROVE  IsSequence(ClosureLines(recipe, Journal(recipe)))
<1> DEFINE r == recipe
           journal == Journal(r)
           erased == Targets(r, {"closure"})
           dangling == IF Hooked(r, "dangling_closure_erasure_target") THEN 1 ELSE 0
           Natural(i) == Len(journal) + i
           Placed(i) == IF Hooked(r, "closure_record_position_override")
                            THEN Argument(r, "closure_record_position_override")
                            ELSE Natural(i)
           Line(i, prev) ==
             IF i <= Len(erased)
               THEN [Erasure(r, Placed(i), prev, erased[i]) EXCEPT
                       !.body.kind = IF Hooked(r, "closure_record_wrong_kind")
                                       THEN "note" ELSE @,
                       !.body.intact = ~Hooked(r, "tamper_closure_record")]
               ELSE Erasure(r, Natural(i), prev, Argument(r, "dangling_closure_erasure_target"))
           n == Len(erased) + dangling
           h == LastHead(GENESIS_PREV, journal)
           head == CHOOSE f : f = [i \in 0 .. n |->
                     IF i = 0 THEN h
                     ELSE HeadAfter(f[i - 1], AsIs(Line(i, f[i - 1])))]
           chain == [i \in 1 .. n |-> [line |-> Line(i, head[i - 1]), after |-> head[i]]]
<1>1. ClosureLines(r, journal) = LinesOf(chain)
  BY Zenon DEF ClosureLines, Chained
<1>2. n \in Nat
  BY TargetsLength
<1> HIDE DEF n, head, Line
<1>3. IsSequence(chain)
  BY <1>2, ComprehensionIsSequence
<1> HIDE DEF chain
<1> QED
  BY <1>1, <1>3, LinesSequence

-----------------------------------------------------------------------------
(* The container, and the invariant of the whole.                          *)

(* The container of a recipe.                                              *)
LEMMA NamesFinite ==
  ASSUME RecipeInv
  PROVE  IsFiniteSet(MemberNames(recipe))
<1> DEFINE held == {q \in 1 .. N(recipe) : HasContent(recipe, q)}
           content == [q \in held |-> Content(q)]
           contents == {Content(p) : p \in held}
           anchor == [i \in 1 .. Len(recipe.anchors) |-> AnchorFile(i)]
           anchored == {AnchorFile(i) : i \in 1 .. Len(recipe.anchors)}
<1>1. N(recipe) \in Nat /\ Len(recipe.anchors) \in Nat
  BY DEF RecipeInv, Recipe, N
<1>2. IsFiniteSet(held) /\ IsFiniteSet(1 .. Len(recipe.anchors))
  <2>1. IsFiniteSet(1 .. N(recipe)) /\ IsFiniteSet(1 .. Len(recipe.anchors))
    BY <1>1, FS_Interval
  <2>2. held \in SUBSET (1 .. N(recipe))
    OBVIOUS
  <2> HIDE DEF held
  <2> QED
    BY <2>1, <2>2, FS_Subset
<1>3. content \in Surjection(held, contents)
  BY DEF Surjection
<1>4. anchor \in Surjection(1 .. Len(recipe.anchors), anchored)
  BY DEF Surjection
<1>5. IsFiniteSet(contents) /\ IsFiniteSet(anchored)
  BY <1>2, <1>3, <1>4, FS_Surjection
<1> HIDE DEF contents, anchored
<1>6. IsFiniteSet({CheckpointsFile, ClosureFile, EpochFile, KeysFile})
  <2>1. IsFiniteSet({KeysFile})
    BY FS_Singleton
  <2>2. IsFiniteSet({KeysFile} \cup {EpochFile})
    BY <2>1, FS_AddElement
  <2>3. IsFiniteSet({KeysFile} \cup {EpochFile} \cup {ClosureFile})
    BY <2>2, FS_AddElement
  <2>4. IsFiniteSet({KeysFile} \cup {EpochFile} \cup {ClosureFile} \cup {CheckpointsFile})
    BY <2>3, FS_AddElement
  <2>5. {CheckpointsFile, ClosureFile, EpochFile, KeysFile} =
          {KeysFile} \cup {EpochFile} \cup {ClosureFile} \cup {CheckpointsFile}
    OBVIOUS
  <2> QED
    BY <2>4, <2>5
<1>7. IsFiniteSet(IF Hooked(recipe, "unlisted_container_member") THEN {Extra} ELSE {})
  BY FS_Singleton, FS_EmptySet
<1> DEFINE files == {CheckpointsFile, ClosureFile, EpochFile, KeysFile}
           extra == IF Hooked(recipe, "unlisted_container_member") THEN {Extra} ELSE {}
<1>8. MemberNames(recipe) = files \cup contents \cup anchored \cup extra
  BY DEF MemberNames, contents, anchored
<1> HIDE DEF files, extra
<1>9. IsFiniteSet(files \cup contents)
  BY <1>5, <1>6, FS_Union DEF files
<1>10. IsFiniteSet(files \cup contents \cup anchored)
  BY <1>5, <1>9, FS_Union
<1>11. IsFiniteSet(files \cup contents \cup anchored \cup extra)
  BY <1>7, <1>10, FS_Union DEF extra
<1> QED
  BY <1>8, <1>11

LEMMA NamesDiffer ==
  /\ \A p : Content(p) \notin {CheckpointsFile, ClosureFile, EpochFile, KeysFile, Extra, ManifestFile}
  /\ \A i : AnchorFile(i) \notin {CheckpointsFile, ClosureFile, EpochFile, KeysFile, Extra, ManifestFile}
  /\ \A p, i : Content(p) # AnchorFile(i)
  /\ \A p, q : Content(p) = Content(q) => p = q
  /\ CheckpointsFile \notin {ClosureFile, EpochFile, KeysFile, Extra, ManifestFile}
  /\ ClosureFile \notin {EpochFile, KeysFile, Extra, ManifestFile}
  /\ EpochFile \notin {KeysFile, Extra, ManifestFile}
  /\ KeysFile \notin {Extra, ManifestFile}
  /\ Extra # ManifestFile
BY DEF Content, CheckpointsFile, ClosureFile, EpochFile, KeysFile, Extra, ManifestFile, AnchorFile

LEMMA BytesOf ==
  ASSUME NEW r, NEW journal
  PROVE  /\ MemberBytes(r, journal, CheckpointsFile) = CheckpointLines(r, journal)
         /\ MemberBytes(r, journal, ClosureFile) = ClosureLines(r, journal)
         /\ MemberBytes(r, journal, EpochFile) = EpochLines(r, journal)
         /\ MemberBytes(r, journal, KeysFile) = KeyLines(r)
         /\ \A p : MemberBytes(r, journal, Content(p)) = ContentBytes(p)
<1>1. \A p : Content(p)[1] = 3 /\ Content(p)[2] = p
  BY DEF Content
<1>2. /\ CheckpointsFile[1] \notin {1, 3} /\ ClosureFile[1] \notin {1, 3}
      /\ EpochFile[1] \notin {1, 3} /\ KeysFile[1] \notin {1, 3}
  BY DEF CheckpointsFile, ClosureFile, EpochFile, KeysFile
<1>3. MemberBytes(r, journal, CheckpointsFile) = CheckpointLines(r, journal)
  BY <1>2, NamesDiffer DEF MemberBytes
<1>4. MemberBytes(r, journal, ClosureFile) = ClosureLines(r, journal)
  BY <1>2, NamesDiffer DEF MemberBytes
<1>5. MemberBytes(r, journal, EpochFile) = EpochLines(r, journal)
  BY <1>2, NamesDiffer DEF MemberBytes
<1>6. MemberBytes(r, journal, KeysFile) = KeyLines(r)
  BY <1>2, NamesDiffer DEF MemberBytes
<1>7. ASSUME NEW p PROVE MemberBytes(r, journal, Content(p)) = ContentBytes(p)
  BY <1>1, NamesDiffer DEF MemberBytes
<1> QED
  BY <1>3, <1>4, <1>5, <1>6, <1>7

(* What is written under a name, if it is written.                         *)
LEMMA BuiltMembers ==
  ASSUME NEW r, bundle = build(r)
  PROVE  /\ DOMAIN bundle.members \subseteq MemberNames(r) \cup {ManifestFile}
         /\ \A m \in DOMAIN bundle.members \ {ManifestFile} :
              bundle.members[m].bytes = MemberBytes(r, Journal(r), m)
         /\ \A m \in DOMAIN bundle.members \ {ManifestFile} : bundle.members[m] # Phantom
         /\ Has(ManifestFile) =>
              manifest = Manifest(r, Journal(r), Contents(r, Journal(r)))
<1> DEFINE whole == Whole(r, Journal(r), Contents(r, Journal(r)))
           out(m) == /\ <<"missing_container_member", m[1], m[2]>> \in r.hooks
                     /\ ~Hooked(r, "duplicate_member")
           names == {n \in DOMAIN whole : ~out(n)}
<1>1. bundle.members = [m \in names |-> [whole[m] EXCEPT
                          !.flipped = (<<"tamper_member", m[1], m[2]>> \in r.hooks)]]
  BY DEF build, BuildFrom, Written
<1>2. DOMAIN bundle.members = names /\ names \subseteq DOMAIN whole
  BY <1>1
<1>3. DOMAIN Contents(r, Journal(r)) = MemberNames(r)
  BY DEF Contents
<1>4. DOMAIN whole = MemberNames(r) \cup {ManifestFile}
  BY <1>3 DEF Whole
<1>5. \A m \in DOMAIN whole : m # ManifestFile => whole[m] = Member(MemberBytes(r, Journal(r), m))
  BY <1>3, <1>4 DEF Whole, Contents
<1>6. whole[ManifestFile] = Member(Manifest(r, Journal(r), Contents(r, Journal(r))))
  BY <1>3 DEF Whole
<1> HIDE DEF names, whole, out
<1>7. \A m \in names : whole[m] = Member(whole[m].bytes) => bundle.members[m].bytes = whole[m].bytes
  BY <1>1 DEF Member
<1>8. \A b : Member(b).bytes = b
  BY DEF Member
<1>9. \A m \in DOMAIN bundle.members \ {ManifestFile} :
              bundle.members[m].bytes = MemberBytes(r, Journal(r), m)
  BY <1>2, <1>5, <1>7, <1>8
<1>10. Has(ManifestFile) => manifest = Manifest(r, Journal(r), Contents(r, Journal(r)))
  BY <1>2, <1>6, <1>7, <1>8 DEF Has, manifest, Bytes
<1>11. ASSUME NEW m \in DOMAIN bundle.members \ {ManifestFile}
       PROVE  bundle.members[m] # Phantom
  <2>1. \A b : DOMAIN Member(b) = {"bytes", "flipped"}
    BY DEF Member
  <2>2. DOMAIN whole[m] = {"bytes", "flipped"}
    BY <1>2, <1>5, <2>1
  <2>3. DOMAIN bundle.members[m] = {"bytes", "flipped"}
    BY <1>1, <1>2, <2>2
  <2>4. DOMAIN Phantom = {"written"}
    BY DEF Phantom
  <2> QED
    BY <2>3, <2>4
<1> QED
  BY <1>2, <1>4, <1>9, <1>10, <1>11

LEMMA BuiltTyped ==
  ASSUME RecipeInv, CanBuild(recipe), bundle = build(recipe)
  PROVE  Typed
<1> DEFINE J == Journal(recipe)
<1>1. /\ DOMAIN bundle.members \subseteq MemberNames(recipe) \cup {ManifestFile}
      /\ \A m \in DOMAIN bundle.members \ {ManifestFile} :
              bundle.members[m].bytes = MemberBytes(recipe, J, m)
  BY BuiltMembers
<1>2. Has(KeysFile) => IsSequence(KeyFile)
  BY <1>1, KeyFacts, BytesOf, NamesDiffer DEF Has, KeyFile, Bytes
<1>3. IsSequence(epoch)
  BY <1>1, EpochFacts, EmptyIsSequence, BytesOf, NamesDiffer DEF Has, epoch, Bytes
<1>4. IsSequence(closure)
  BY <1>1, ClosureSequence, EmptyIsSequence, BytesOf, NamesDiffer DEF Has, closure, Bytes
<1>5. Has(CheckpointsFile) => IsSequence(CheckpointFile)
  BY <1>1, CheckpointFacts, BytesOf, NamesDiffer DEF Has, CheckpointFile, Bytes
<1>6. IsFiniteSet(DOMAIN bundle.members)
  BY <1>1, NamesFinite, FS_AddElement, FS_Subset
<1> QED
  BY <1>2, <1>3, <1>4, <1>5, <1>6 DEF Typed

(* The inductive invariant of the pipeline.                                *)
PipelineInv == RecipeInv /\ BuiltInv /\ PhaseInv

LEMMA PipelineStep ==
  ASSUME PipelineInv, [Next]_vars
  PROVE  PipelineInv'
<1>1. stage # "recipe" => Typed
  BY BuiltTyped DEF PipelineInv, BuiltInv
<1>2. PhaseInv'
  BY <1>1, PhaseStep DEF PipelineInv
<1>3. RecipeInv' /\ BuiltInv'
  <2>1. CASE Write
    BY <2>1, RecipeWritten DEF Write, PipelineInv, BuiltInv, verifyVars
  <2>2. CASE Build
    <3>1. recipe' = recipe /\ bundle' = build(recipe) /\ CanBuild(recipe)
      BY <2>2 DEF Build
    <3> QED
      BY <3>1 DEF PipelineInv, RecipeInv, BuiltInv
  <2>3. CASE UNCHANGED vars
    BY <2>3 DEF vars, verifyVars, PipelineInv, RecipeInv, BuiltInv
  <2>4. CASE Verify /\ UNCHANGED recipe
    <3>1. bundle' = bundle /\ stage # "recipe"
      BY <2>4 DEF Verify, OpenContainer, ReadKeyLine, KeysRead, VerifyManifest, VerifyMembers,
       ReadCheckpointLine, CheckpointsRead, AnalyzeRecords, WalkRecord, RecordsWalked,
       ClassifyCompromise, CollectErasures, CollectClosure, ExamineContent, Inform, Conclude, Step,
       Terminal, FilesUnchanged
    <3> QED
      BY <2>4, <3>1 DEF PipelineInv, RecipeInv, BuiltInv
  <2> QED
    BY <2>1, <2>2, <2>3, <2>4 DEF Next
<1> QED
  BY <1>2, <1>3 DEF PipelineInv

(* The inductive invariant of an export and its verification: the recipe   *)
(* can be written, the bundle is what build makes of it, and every check   *)
(* the verifier has behind it, of a run without a finding that blocks,     *)
(* found what it looks for (verify.rs, Phases A and B).                    *)
THEOREM PipelineInvariant == Spec => []PipelineInv
<1>1. Init => PipelineInv
  BY RecipeInit, PhaseInit DEF PipelineInv, BuiltInv, Init
<1> QED
  BY <1>1, PipelineStep, PTL DEF Spec

-----------------------------------------------------------------------------
(* What a VALID verdict rests on.                                          *)

(* Everything a VALID verdict rests on.                                    *)
LEMMA ValidFacts ==
  ASSUME PipelineInv, Valid
  PROVE  /\ RecipeInv /\ CanBuild(recipe) /\ bundle = build(recipe) /\ Typed
         /\ ContainerOK /\ KeysOK /\ ManifestOK /\ MembersOK /\ Bounded
         /\ KeyInv /\ KeysDone /\ CheckpointInv /\ WalkInv
         /\ record_infos = Faultless /\ TargetsIn(epoch, Erasures) \subseteq erasure_targets
         /\ RecordsOK /\ w_outcome["epoch"] = "ok" /\ CountOK /\ CompromiseOK /\ ContentOK
<1>1. Clear(findings) /\ stage # "recipe"
  BY DEF PipelineInv, PhaseInv, Valid, Done
<1>2. RecipeInv /\ CanBuild(recipe) /\ bundle = build(recipe)
  BY <1>1 DEF PipelineInv, BuiltInv
<1> QED
  BY <1>1, <1>2, BuiltTyped DEF PipelineInv, PhaseInv, ReadingInv, FilesInv, FindingsInv, Passed

(* A VALID bundle has no member with the phantom's hash.                   *)
LEMMA NoneMissing ==
  ASSUME PipelineInv, Valid
  PROVE  Missing(recipe) \cap DOMAIN manifest.members \subseteq {ManifestFile}
<1> SUFFICES ASSUME NEW m \in Missing(recipe), m \in DOMAIN manifest.members, m # ManifestFile
             PROVE  FALSE
  OBVIOUS
<1>1. manifest = Manifest(recipe, Journal(recipe), Contents(recipe, Journal(recipe)))
  BY ValidFacts, BuiltMembers DEF ManifestOK
<1>2. manifest.members[m] = Phantom
  BY <1>1 DEF Manifest, Declared
<1>3. m \in DOMAIN bundle.members /\ Sound(m)
  BY ValidFacts DEF MembersOK, AtFault
<1>4. bundle.members[m] # Phantom
  BY <1>3, ValidFacts, BuiltMembers
<1> QED
  BY <1>2, <1>3, <1>4 DEF Sound

(* A VALID bundle holds what the manifest lists, as it was built.          *)
LEMMA ValidMembers ==
  ASSUME PipelineInv, Valid
  PROVE  /\ DOMAIN bundle.members = (MemberNames(recipe) \ {Extra}) \cup {ManifestFile}
         /\ \A m \in MemberNames(recipe) \ {Extra} :
              bundle.members[m] = Member(MemberBytes(recipe, Journal(recipe), m))
         /\ manifest = Manifest(recipe, Journal(recipe), Contents(recipe, Journal(recipe)))
<1> DEFINE contents == Contents(recipe, Journal(recipe))
<1>1. manifest = Manifest(recipe, Journal(recipe), contents)
  BY ValidFacts, BuiltMembers DEF ManifestOK
<1>2. DOMAIN contents = MemberNames(recipe)
  BY DEF Contents
<1>3. \A m \in MemberNames(recipe) : contents[m] = Member(MemberBytes(recipe, Journal(recipe), m))
  BY DEF Contents
<1>4. manifest.members = Declared(recipe, contents)
  BY <1>1 DEF Manifest
<1>5. ManifestFile \notin MemberNames(recipe)
  BY NamesDiffer DEF MemberNames
<1> HIDE DEF contents
<1>6. /\ DOMAIN manifest.members \ {ManifestFile} = MemberNames(recipe) \ {Extra}
      /\ \A m \in MemberNames(recipe) \ {Extra} : manifest.members[m] = contents[m]
  <2>1. DOMAIN manifest.members =
          (MemberNames(recipe) \cup Missing(recipe)) \ (MemberNames(recipe) \cap {Extra})
    BY <1>2, <1>4 DEF Declared
  <2>2. \A m \in DOMAIN manifest.members :
          manifest.members[m] = IF m \in Missing(recipe) THEN Phantom ELSE contents[m]
    BY <1>2, <1>4 DEF Declared
  <2> QED
    BY <1>5, <2>1, <2>2, NoneMissing
<1>7. DOMAIN manifest.members \subseteq DOMAIN bundle.members /\ ManifestFile \in DOMAIN bundle.members
  BY ValidFacts DEF MembersOK, ManifestOK, Has
<1>8. \A m \in DOMAIN bundle.members \ {ManifestFile} :
         m \in DOMAIN manifest.members /\ bundle.members[m] = manifest.members[m]
  BY ValidFacts DEF MembersOK, AtFault, Sound, Listed
<1> QED
  BY <1>1, <1>3, <1>5, <1>6, <1>7, <1>8, Zenon DEF contents

LEMMA ValidFiles ==
  ASSUME PipelineInv, Valid
  PROVE  /\ KeyFile = KeyLines(recipe)
         /\ epoch = EpochLines(recipe, Journal(recipe))
         /\ CheckpointFile = CheckpointLines(recipe, Journal(recipe))
<1>1. {KeysFile, EpochFile, CheckpointsFile} \subseteq MemberNames(recipe) \ {Extra}
  BY NamesDiffer DEF MemberNames
<1>2. \A b : Member(b).bytes = b
  BY DEF Member
<1>3. \A m \in {KeysFile, EpochFile, CheckpointsFile} :
        Has(m) /\ Bytes(m) = MemberBytes(recipe, Journal(recipe), m)
  BY <1>1, <1>2, ValidMembers DEF Has, Bytes
<1> QED
  BY <1>3, BytesOf DEF KeyFile, epoch, CheckpointFile

(* The record lines by their positions.                                    *)
LEMMA EntryFacts ==
  ASSUME NEW r, NEW i, NEW prev
  PROVE  /\ Entry(r, i, prev).position = i
         /\ i <= N(r) =>
              /\ Entry(r, i, prev).body.keyid = RecordSigner(r, i)
              /\ Entry(r, i, prev).body.content_hash = ContentHash(r, i)
         /\ ~(i <= N(r)) =>
              /\ Entry(r, i, prev).body.keyid = signer_for_position(r, i)
              /\ Entry(r, i, prev).body.kind = "erasure"
              /\ Entry(r, i, prev).body.content_hash = NoContent
BY DEF Entry, Record, Honest, Erasure, RecordLine

(* The keys the records were signed with are the keys the chain gives.     *)
LEMMA KeysOfRecipe ==
  ASSUME RecipeInv, KeyInv, KeysDone, KeysOK, KeyFile = KeyLines(recipe)
  PROVE  LET turns == Len(recipe.rotations)
         IN  /\ turns \in Nat /\ Len(k_events) = turns + 1
             /\ k_events[1] = [position |-> 0, key |-> GenesisSeed]
             /\ \A i \in 1 .. turns :
                  k_events[i + 1] = [position |-> recipe.rotations[i], key |-> RotationKey(i)]
             /\ recipe.compromise # 0 =>
                  k_compromise = << [position |-> recipe.compromise,
                                     compromised_key |-> signer_for_position(recipe, recipe.compromise - 1)] >>
<1> DEFINE turns == Len(recipe.rotations)
           n == KeyRecords(recipe)
<1>1. /\ turns \in Nat /\ n \in Nat /\ n = turns + 1 + (IF recipe.compromise = 0 THEN 0 ELSE 1)
      /\ recipe.compromise \in Nat
  BY DEF RecipeInv, Recipe, KeyRecords
<1>2. /\ IsSequence(KeyFile) /\ Len(KeyFile) = n
      /\ \A i \in 1 .. n : \E prev : KeyFile[i] = KeyRecord(recipe, i, prev)
  BY KeyFacts
<1> HIDE DEF n, turns
<1>3. /\ KeyFile[1].kind = "genesis" /\ KeyFile[1].position = 0 /\ KeyFile[1].key = GenesisSeed
  <2>1. 1 \in 1 .. n
    BY <1>1
  <2>2. PICK prev : KeyFile[1] = KeyRecord(recipe, 1, prev)
    BY <1>2, <2>1
  <2> QED
    BY <2>2 DEF KeyRecord, Genesis
<1>4. ASSUME NEW i \in 1 .. turns
      PROVE  /\ KeyFile[i + 1].kind = "rotation"
             /\ KeyFile[i + 1].position = recipe.rotations[i] /\ KeyFile[i + 1].key = RotationKey(i)
  <2>1. i + 1 \in 1 .. n /\ i + 1 # 1 /\ i + 1 <= turns + 1 /\ (i + 1) - 1 = i
    BY <1>1
  <2>2. PICK prev : KeyFile[i + 1] = KeyRecord(recipe, i + 1, prev)
    BY <1>2, <2>1
  <2>3. KeyFile[i + 1] = Rotation(recipe, i, prev)
    BY <2>1, <2>2 DEF KeyRecord, turns
  <2> QED
    BY <2>3 DEF Rotation
<1>5. ASSUME recipe.compromise # 0
      PROVE  /\ KeyFile[n].kind = "compromise" /\ KeyFile[n].position = recipe.compromise
             /\ KeyFile[n].key = signer_for_position(recipe, recipe.compromise - 1)
  <2>1. n = turns + 2 /\ n \in 1 .. n /\ n # 1 /\ ~(n <= turns + 1)
    BY <1>1, <1>5
  <2>2. PICK prev : KeyFile[n] = KeyRecord(recipe, n, prev)
    BY <1>2, <2>1
  <2>3. KeyFile[n] = Compromise(recipe, prev)
    BY <2>1, <2>2 DEF KeyRecord, turns
  <2> QED
    BY <2>3 DEF Compromise
<1>6. Len(k_lines) = n
  <2>1. Len(k_lines) \in Nat /\ DOMAIN KeyFile = 1 .. n
    BY <1>2, SequenceDomain DEF KeyInv
  <2>2. \A i \in 1 .. Len(k_lines) : i \in DOMAIN KeyFile
    BY DEF KeyInv
  <2>3. ~(Len(k_lines) < n)
    BY <1>2 DEF KeysDone, KeysOK, KeyLineLeft, KeyFile
  <2>4. Len(k_lines) # 0 => Len(k_lines) \in 1 .. Len(k_lines)
    BY <2>1
  <2> QED
    BY <1>1, <2>1, <2>2, <2>3, <2>4
<1>7. n # 0 /\ n \in 1 .. n
  BY <1>1
<1>8. /\ k_compromise = KeySeal(n)
      /\ Len(k_events) = IF KeyFile[n].kind = "compromise" THEN n - 1 ELSE n
  BY <1>6, <1>7 DEF KeyInv, KeyMemory
<1>9. recipe.compromise = 0 => KeyFile[n].kind # "compromise"
  <2> SUFFICES ASSUME recipe.compromise = 0 PROVE KeyFile[n].kind # "compromise"
    OBVIOUS
  <2>1. n = 1 \/ (n - 1 \in 1 .. turns /\ (n - 1) + 1 = n)
    BY <1>1
  <2> QED
    BY <1>3, <1>4, <2>1
<1>10. Len(k_events) = turns + 1
  BY <1>1, <1>5, <1>8, <1>9
<1>11. \A i \in 1 .. turns + 1 : k_events[i] = KeyEvent(i)
  BY <1>10 DEF KeyInv
<1>12. k_events[1] = [position |-> 0, key |-> GenesisSeed]
  BY <1>1, <1>3, <1>11 DEF KeyEvent
<1>13. \A i \in 1 .. turns :
         k_events[i + 1] = [position |-> recipe.rotations[i], key |-> RotationKey(i)]
  BY <1>1, <1>4, <1>11 DEF KeyEvent
<1>14. recipe.compromise # 0 =>
         k_compromise = << [position |-> recipe.compromise,
                            compromised_key |-> signer_for_position(recipe, recipe.compromise - 1)] >>
  BY <1>5, <1>8 DEF KeySeal
<1> QED
  BY <1>1, <1>10, <1>12, <1>13, <1>14 DEF turns

-----------------------------------------------------------------------------
(* A compromise is contained.                                              *)

LEMMA MaxOf ==
  ASSUME NEW n \in Nat, NEW S \in SUBSET (1 .. n), S # {}
  PROVE  Max(S) \in S /\ \A y \in S : y <= Max(S)
<1> DEFINE U == {n - x : x \in S}
<1>0. \A x \in S : x \in 1 .. n /\ n - x \in Nat
  OBVIOUS
<1>1. U \in SUBSET Nat /\ U # {}
  <2>1. \A u \in U : u \in Nat
    BY <1>0
  <2>2. U # {}
    OBVIOUS
  <2> HIDE DEF U
  <2> QED
    BY <2>1, <2>2
<1>2. PICK u \in U : \A v \in U : u <= v
  <2> HIDE DEF U
  <2> QED
    BY <1>1, Lowest
<1>3. PICK x \in S : u = n - x
  BY <1>2
<1>4. \A y \in S : x >= y
  <2> SUFFICES ASSUME NEW y \in S PROVE x >= y
    OBVIOUS
  <2>1. n - y \in U
    OBVIOUS
  <2>2. u <= n - y
    BY <1>2, <2>1
  <2> QED
    BY <1>3, <2>2
<1>5. Max(S) \in S /\ \A y \in S : Max(S) >= y
  BY <1>3, <1>4 DEF Max
<1>6. \A y \in S : y \in Int
  BY <1>0
<1> QED
  BY <1>5, <1>6

LEMMA MinOf ==
  ASSUME NEW n \in Nat, NEW S \in SUBSET (1 .. n), S # {}
  PROVE  Min(S) \in S
<1>0. \A x \in S : x \in Nat
  OBVIOUS
<1>1. S \in SUBSET Nat
  BY <1>0
<1>2. PICK x \in S : \A y \in S : x <= y
  BY <1>1, Lowest
<1> QED
  BY <1>2 DEF Min

LEMMA SignerOfRecipe ==
  ASSUME RecipeInv, KeyInv, KeysDone, KeysOK, KeyFile = KeyLines(recipe), NEW p \in Nat
  PROVE  /\ key_at_position(p) = signer_for_position(recipe, p)
         /\ signer_for_position(recipe, p) \in SigningKeys
<1> DEFINE turns == Len(recipe.rotations)
           declared == {i \in 1 .. turns : recipe.rotations[i] <= p}
           m == IF declared = {} THEN 1 ELSE 1 + Max(declared)
           chosen == CHOOSE i \in 1 .. Len(k_events) : Keys!Authoritative(i, p)
<1>1. /\ turns \in Nat /\ \A i \in 1 .. turns : recipe.rotations[i] \in Nat
  BY DEF RecipeInv, Recipe
<1>2. /\ Len(k_events) = turns + 1
      /\ k_events[1].position = 0 /\ k_events[1].key = GenesisSeed
      /\ \A i \in 1 .. turns : /\ k_events[i + 1].position = recipe.rotations[i]
                               /\ k_events[i + 1].key = RotationKey(i)
  <2>1. /\ Len(k_events) = turns + 1
        /\ k_events[1] = [position |-> 0, key |-> GenesisSeed]
        /\ \A i \in 1 .. turns :
             k_events[i + 1] = [position |-> recipe.rotations[i], key |-> RotationKey(i)]
    BY KeysOfRecipe
  <2>2. \A a, b : [position |-> a, key |-> b].position = a /\ [position |-> a, key |-> b].key = b
    OBVIOUS
  <2> HIDE DEF turns
  <2>3. k_events[1].position = 0 /\ k_events[1].key = GenesisSeed
    BY <2>1, <2>2
  <2>4. ASSUME NEW i \in 1 .. turns
        PROVE  /\ k_events[i + 1].position = recipe.rotations[i]
               /\ k_events[i + 1].key = RotationKey(i)
    <3>1. k_events[i + 1] = [position |-> recipe.rotations[i], key |-> RotationKey(i)]
      BY <2>1
    <3> QED
      BY <3>1
  <2> QED
    BY <2>1, <2>3, <2>4
<1>3. signer_for_position(recipe, p) = m
  BY Zenon DEF signer_for_position, GenesisSeed
<1>4. declared # {} => Max(declared) \in declared /\ \A y \in declared : y <= Max(declared)
  <2> HIDE DEF turns
  <2>1. declared \in SUBSET (1 .. turns)
    OBVIOUS
  <2> HIDE DEF declared
  <2> QED
    BY <1>1, <2>1, MaxOf
<1> HIDE DEF turns
<1>5. m \in 1 .. turns + 1 /\ (m # 1 => m - 1 \in declared) /\ \A y \in declared : y + 1 <= m
  <2>1. CASE declared = {}
    BY <1>1, <2>1
  <2>2. CASE declared # {}
    <3>1. m = 1 + Max(declared) /\ Max(declared) \in 1 .. turns
      BY <1>4, <2>2
    <3>2. m \in 1 .. turns + 1 /\ m - 1 = Max(declared)
      BY <1>1, <3>1
    <3>3. ASSUME NEW y \in declared PROVE y + 1 <= m
      <4>1. y <= Max(declared) /\ y \in 1 .. turns
        BY <1>4, <2>2
      <4> QED
        BY <1>1, <3>1, <4>1
    <3> QED
      BY <1>4, <2>2, <3>2, <3>3
  <2> QED
    BY <2>1, <2>2
<1> HIDE DEF m
<1>6. \A i \in 1 .. turns + 1 : i # 1 => i - 1 \in 1 .. turns /\ (i - 1) + 1 = i
  BY <1>1
<1>7. \A i \in 1 .. turns + 1 : i # 1 => /\ k_events[i].position = recipe.rotations[i - 1]
                                         /\ k_events[i].key = i
  BY <1>2, <1>6 DEF RotationKey
<1>8. \A i \in 1 .. turns + 1 : k_events[i].key = i /\ k_events[i].position \in Nat
  BY <1>1, <1>2, <1>6, <1>7 DEF GenesisSeed
<1>9. Keys!Authoritative(m, p)
  <2>1. k_events[m].position <= p
    <3>1. CASE m = 1
      BY <1>2, <3>1
    <3>2. CASE m # 1
      BY <1>5, <1>7, <3>2
    <3> QED
      BY <3>1, <3>2
  <2>2. ASSUME NEW j \in m + 1 .. turns + 1 PROVE k_events[j].position > p
    <3>1. j \in 1 .. turns + 1 /\ j # 1 /\ j - 1 \in 1 .. turns /\ ~(j <= m)
      BY <1>1, <1>5
    <3>2. j - 1 \notin declared
      <4>1. j - 1 \in declared => (j - 1) + 1 <= m
        BY <1>5
      <4> QED
        BY <3>1, <4>1
    <3>3. ~(recipe.rotations[j - 1] <= p)
      BY <3>1, <3>2
    <3>4. k_events[j].position = recipe.rotations[j - 1] /\ recipe.rotations[j - 1] \in Nat
      BY <1>1, <1>7, <3>1
    <3> QED
      BY <3>3, <3>4
  <2> QED
    BY <1>2, <2>1, <2>2 DEF Keys!Authoritative
<1>10. chosen \in 1 .. turns + 1 /\ Keys!Authoritative(chosen, p)
  BY <1>2, <1>5, <1>9
<1> HIDE DEF chosen
<1>11. chosen = m
  <2>1. ASSUME NEW i \in 1 .. turns + 1, NEW j \in 1 .. turns + 1, i < j,
               Keys!Authoritative(i, p), Keys!Authoritative(j, p)
        PROVE  FALSE
    <3>1. j \in i + 1 .. turns + 1
      BY <1>1, <2>1
    <3>2. k_events[j].position > p /\ k_events[j].position <= p
      BY <1>2, <2>1, <3>1 DEF Keys!Authoritative
    <3> QED
      BY <1>8, <3>2
  <2> QED
    BY <1>1, <1>5, <1>9, <1>10, <2>1
<1>12. key_at_position(p) = k_events[chosen].key
  BY DEF key_at_position, Keys!key_at_position, chosen
<1>13. signer_for_position(recipe, p) \in SigningKeys
  BY <1>2, <1>3, <1>5, <1>8 DEF SigningKeys
<1> QED
  BY <1>3, <1>5, <1>8, <1>11, <1>12, <1>13

LEMMA SignerAgrees ==
  ASSUME PipelineInv, Valid, NEW p \in Nat
  PROVE  key_at_position(p) = signer_for_position(recipe, p)
BY ValidFacts, ValidFiles, SignerOfRecipe

(* The lines of the epoch, one per journal position of the window.         *)
LEMMA EpochLine ==
  ASSUME PipelineInv, Valid, NEW p \in recipe.window + 1 .. Total
  PROVE  /\ p - recipe.window \in DOMAIN epoch
         /\ epoch[p - recipe.window] = Entry(recipe, p, JournalHead(recipe)[p - 1])
         /\ p \in Nat /\ recipe.window \in Nat /\ Total \in Nat
<1>1. recipe.window \in Nat /\ Total \in Nat
  BY ValidFacts, JournalLengthType DEF RecipeInv, Recipe, Total
<1>2. /\ IsSequence(epoch) /\ Len(epoch) = Total - recipe.window
      /\ \A i \in 1 .. Len(epoch) :
           epoch[i] = Entry(recipe, recipe.window + i, JournalHead(recipe)[recipe.window + i - 1])
  BY ValidFacts, ValidFiles, EpochFacts DEF Total
<1> DEFINE i == p - recipe.window
<1>3. i \in 1 .. Len(epoch) /\ recipe.window + i = p /\ recipe.window + i - 1 = p - 1
  <2>1. Len(epoch) = Total - recipe.window
    BY <1>2
  <2>2. \A a, b \in Nat : \A q \in a + 1 .. b :
          q - a \in 1 .. b - a /\ a + (q - a) = q /\ a + (q - a) - 1 = q - 1
    OBVIOUS
  <2> QED
    BY <1>1, <2>1, <2>2
<1>4. DOMAIN epoch = 1 .. Len(epoch)
  BY <1>2, SequenceDomain
<1>5. p \in Nat
  BY <1>1
<1> QED
  BY <1>1, <1>2, <1>3, <1>4, <1>5

LEMMA EpochKey ==
  ASSUME PipelineInv, Valid, NEW p \in recipe.window + 1 .. Total
  PROVE  LET line == epoch[p - recipe.window]
         IN  line.position = p /\ line.body.keyid = signer_for_position(recipe, p)
<1> DEFINE line == epoch[p - recipe.window]
<1>1. line.position = p
  BY EpochLine, EntryFacts
<1>2. key_at_position(line.position) = line.body.keyid
  BY EpochLine, ValidFacts DEF RecordsOK, position_correct
<1> HIDE DEF line
<1>3. key_at_position(p) = signer_for_position(recipe, p)
  BY EpochLine, SignerAgrees
<1> QED
  BY <1>1, <1>2, <1>3 DEF line

LEMMA CoveredBy ==
  ASSUME PipelineInv, Valid, NEW p, anchored_before_claim(p)
  PROVE  \E t \in Trusted \cap CheckpointPositions : t >= p
<1> DEFINE covering == {i \in 1 .. Len(c_checkpoints) : c_checkpoints[i].position >= p}
           i == Min(covering)
<1>1. covering # {} /\ c_checkpoints[i].position \in Trusted
  BY DEF anchored_before_claim
<1>2. Len(c_checkpoints) \in Nat
  BY ValidFacts, SequenceDomain DEF CheckpointInv
<1>3. covering \in SUBSET (1 .. Len(c_checkpoints))
  OBVIOUS
<1>4. i \in covering
  <2> HIDE DEF covering
  <2> QED
    BY <1>1, <1>2, <1>3, MinOf
<1> HIDE DEF i
<1>5. i \in 1 .. Len(c_checkpoints) /\ c_checkpoints[i].position >= p
  BY <1>4
<1>6. i \in DOMAIN CheckpointFile /\ c_checkpoints[i].position = CheckpointFile[i].position
  BY <1>5, ValidFacts DEF CheckpointInv
<1>7. /\ IsSequence(CheckpointFile) /\ Len(CheckpointFile) \in {1, 2}
      /\ CheckpointFile[1].position = recipe.window
      /\ Len(CheckpointFile) = 2 => CheckpointFile[2].position = End(recipe)
  BY ValidFiles, CheckpointFacts
<1>8. i \in {1, 2} /\ (i = 2 => Len(CheckpointFile) = 2)
  BY <1>6, <1>7, SequenceDomain
<1>9. CheckpointFile[i].position \in CheckpointPositions
  BY <1>7, <1>8 DEF CheckpointPositions
<1> QED
  BY <1>1, <1>5, <1>6, <1>9 DEF i

(* A compromise reaches every record of the compromised key.               *)
LEMMA ValidIsContained ==
  ASSUME PipelineInv
  PROVE  CompromiseContained
<1> SUFFICES ASSUME Valid, recipe.compromise # 0, NEW p \in recipe.window + 1 .. Total,
                    signer_for_position(recipe, p) =
                      signer_for_position(recipe, recipe.compromise - 1)
             PROVE  p < recipe.compromise /\ \E t \in Trusted \cap CheckpointPositions : t >= p
  BY DEF CompromiseContained
<1> DEFINE line == epoch[p - recipe.window]
           compromised == signer_for_position(recipe, recipe.compromise - 1)
<1>1. line.position = p /\ line.body.keyid = compromised
  BY EpochKey
<1>2. k_compromise = << [position |-> recipe.compromise, compromised_key |-> compromised] >>
  BY KeysOfRecipe, ValidFacts, ValidFiles
<1>3. p - recipe.window \in DOMAIN epoch /\ p \in Nat
  BY EpochLine
<1>4. Keys!classify_compromise(p, compromised, anchored_before_claim(p))
        \in {"NotAffected", "ValidPreClaim"}
  <2>1. Keys!classify_compromise(line.position, line.body.keyid, anchored_before_claim(line.position))
          \in {"NotAffected", "ValidPreClaim"}
    BY <1>3, ValidFacts DEF CompromiseOK
  <2> HIDE DEF line, compromised
  <2> QED
    BY <1>1, <2>1
<1> HIDE DEF line, compromised
<1>5. Keys!classify_compromise(p, compromised, anchored_before_claim(p)) =
        IF p >= recipe.compromise THEN "TamperedPostPosition"
        ELSE IF anchored_before_claim(p) THEN "ValidPreClaim" ELSE "IndeterminateWindow"
  BY <1>2 DEF Keys!classify_compromise, Keys!Sealed
<1>6. ~(p >= recipe.compromise) /\ anchored_before_claim(p)
  BY <1>4, <1>5
<1>7. recipe.compromise \in Nat
  BY ValidFacts DEF RecipeInv, Recipe
<1>8. p < recipe.compromise
  BY <1>3, <1>6, <1>7
<1> QED
  BY <1>6, <1>8, CoveredBy

(* No record of a compromised key passes in a VALID bundle at or after the *)
(* seal, nor before it without a trusted witness of a checkpoint that      *)
(* covers it (KeyChain::classify_compromise, verify.rs B4).                *)
THEOREM ContainedAlways == Spec => []CompromiseContained
BY PipelineInvariant, ValidIsContained, PTL

-----------------------------------------------------------------------------
(* The heads of the journal.                                               *)

(* The lines of the checkpoint file.                                       *)
CheckpointRecord(r, i, prev) ==
  IF i = 1 THEN CheckpointAt(r, Journal(r), r.window, StartTime(r), prev)
           ELSE CheckpointAt(r, Journal(r), End(r), EndTime(r), prev)

(* The head after line i of a file, when the head before it is h.          *)
Extended(file, r, i, h) ==
  CASE file = "journal" -> HeadAfter(h, BeforeTamper(Entry(r, i, h)))
    [] file = "keys"    -> HeadAfter(h, AsIs(KeyRecord(r, i, h)))
    [] file = "checkpoints" -> HeadAfter(h, AsIs(CheckpointRecord(r, i, h)))

(* The recursion of a file's heads has a solution.                         *)
Heads(file, r, n, f) ==
  f = [i \in 0 .. n |-> IF i = 0 THEN GENESIS_PREV ELSE Extended(file, r, i, f[i - 1])]

LEMMA HeadsExist ==
  ASSUME NEW file, NEW r, NEW n \in Nat
  PROVE  \E f : Heads(file, r, n, f)
<1> DEFINE Next_(i, h) == Extended(file, r, i, h)
<1> SUFFICES ASSUME {m \in Nat : ~(\E f : Heads(file, r, m, f))} # {}
             PROVE  FALSE
  OBVIOUS
<1>1. PICK m \in {k \in Nat : ~(\E f : Heads(file, r, k, f))} :
        \A q \in {k \in Nat : ~(\E f : Heads(file, r, k, f))} : m <= q
  BY Lowest
<1>2. m # 0
  <2> DEFINE f == [i \in 0 .. 0 |-> GENESIS_PREV]
  <2>1. \A i \in 0 .. 0 : i = 0
    OBVIOUS
  <2>2. f = [i \in 0 .. 0 |-> IF i = 0 THEN GENESIS_PREV ELSE Next_(i, f[i - 1])]
    <3> HIDE DEF Next_
    <3> QED
      BY <2>1
  <2>3. Heads(file, r, 0, f)
    BY <2>2, Zenon DEF Heads
  <2> QED
    BY <1>1, <2>3
<1>3. m \in Nat /\ m - 1 \in Nat /\ ~(m <= m - 1)
  BY <1>1, <1>2
<1>4. PICK g : Heads(file, r, m - 1, g)
  BY <1>1, <1>3
<1> DEFINE f == [i \in 0 .. m |-> IF i = m THEN Next_(m, g[m - 1]) ELSE g[i]]
<1>5. \A i \in 0 .. m - 1 : g[i] = IF i = 0 THEN GENESIS_PREV ELSE Next_(i, g[i - 1])
  BY <1>4, Zenon DEF Heads
<1> HIDE DEF Next_
<1>6. ASSUME NEW i \in 0 .. m
      PROVE  f[i] = IF i = 0 THEN GENESIS_PREV ELSE Next_(i, f[i - 1])
  <2>1. CASE i = m
    <3>1. i # 0 /\ i - 1 \in 0 .. m /\ i - 1 # m
      BY <1>2, <1>3, <2>1
    <3> QED
      BY <2>1, <3>1
  <2>2. CASE i # m
    <3>1. i \in 0 .. m - 1 /\ (i # 0 => i - 1 \in 0 .. m /\ i - 1 # m)
      BY <1>3, <2>2
    <3> QED
      BY <1>5, <2>2, <3>1
  <2> QED
    BY <2>1, <2>2
<1>7. Heads(file, r, m, f)
  <2>1. f = [i \in 0 .. m |-> f[i]]
    OBVIOUS
  <2> HIDE DEF f
  <2>2. f = [i \in 0 .. m |-> IF i = 0 THEN GENESIS_PREV ELSE Next_(i, f[i - 1])]
    BY <1>6, <2>1, Zenon
  <2> QED
    BY <2>2, Zenon DEF Heads, Next_
<1> QED
  BY <1>1, <1>7

LEMMA HeadsSolved ==
  ASSUME NEW file, NEW r, NEW n \in Nat, NEW f, Heads(file, r, n, f)
  PROVE  f[0] = GENESIS_PREV /\ \A i \in 1 .. n : f[i] = Extended(file, r, i, f[i - 1])
<1>1. 0 \in 0 .. n /\ \A i \in 1 .. n : i \in 0 .. n /\ i # 0
  OBVIOUS
<1>2. \A i \in 0 .. n : f[i] = IF i = 0 THEN GENESIS_PREV ELSE Extended(file, r, i, f[i - 1])
  BY Zenon DEF Heads
<1> QED
  BY <1>1, <1>2

LEMMA JournalHeads ==
  ASSUME NEW r, JournalLength(r) \in Nat
  PROVE  /\ JournalHead(r)[0] = GENESIS_PREV
         /\ \A i \in 1 .. JournalLength(r) :
              JournalHead(r)[i] = HeadAfter(JournalHead(r)[i - 1],
                                            BeforeTamper(Entry(r, i, JournalHead(r)[i - 1])))
<1> DEFINE n == JournalLength(r)
           head == JournalHead(r)
           Ahead(i, h) == HeadAfter(h, BeforeTamper(Entry(r, i, h)))
           Solves(f) == f = [i \in 0 .. n |-> IF i = 0 THEN GENESIS_PREV ELSE Ahead(i, f[i - 1])]
<1>1. \A i, h : Extended("journal", r, i, h) = Ahead(i, h)
  BY DEF Extended
<1>2. \E f : Heads("journal", r, n, f)
  BY HeadsExist
<1>3. head = CHOOSE f : Solves(f)
  BY Zenon DEF JournalHead
<1> HIDE DEF head, n, Ahead
<1>4. ASSUME NEW f PROVE Heads("journal", r, n, f) <=> Solves(f)
  <2>1. [i \in 0 .. n |-> IF i = 0 THEN GENESIS_PREV ELSE Extended("journal", r, i, f[i - 1])] =
        [i \in 0 .. n |-> IF i = 0 THEN GENESIS_PREV ELSE Ahead(i, f[i - 1])]
    BY <1>1, Zenon
  <2> QED
    BY <2>1, Zenon DEF Heads
<1> HIDE DEF Solves
<1>5. Heads("journal", r, n, head)
  BY <1>2, <1>3, <1>4, Zenon
<1>6. n \in Nat
  BY DEF n
<1>7. head[0] = GENESIS_PREV
      /\ \A i \in 1 .. n : head[i] = Extended("journal", r, i, head[i - 1])
  BY <1>5, <1>6, HeadsSolved
<1>8. \A i \in 1 .. n : head[i] = Ahead(i, head[i - 1])
  BY <1>1, <1>7
<1> QED
  BY <1>7, <1>8 DEF head, n, Ahead

(* Recipes with the same entries have the same journal.                    *)
LEMMA SameJournal ==
  ASSUME NEW r, NEW s, JournalLength(r) \in Nat, JournalLength(s) = JournalLength(r),
         \A i \in 1 .. JournalLength(r) : \A prev : Entry(s, i, prev) = Entry(r, i, prev)
  PROVE  Journal(s) = Journal(r)
<1> DEFINE n == JournalLength(r)
           Next_(i, h) == HeadAfter(h, BeforeTamper(Entry(r, i, h)))
           Other(i, h) == HeadAfter(h, BeforeTamper(Entry(s, i, h)))
           Solves(f) == f = [i \in 0 .. n |-> IF i = 0 THEN GENESIS_PREV ELSE Next_(i, f[i - 1])]
           Fits(f) == f = [i \in 0 .. n |-> IF i = 0 THEN GENESIS_PREV ELSE Other(i, f[i - 1])]
<1>1. \A i \in 1 .. n : \A h : Other(i, h) = Next_(i, h)
  OBVIOUS
<1>2. \A i \in 0 .. n : i # 0 => i \in 1 .. n
  OBVIOUS
<1>3. ASSUME NEW f PROVE Fits(f) <=> Solves(f)
  <2>1. [i \in 0 .. n |-> IF i = 0 THEN GENESIS_PREV ELSE Next_(i, f[i - 1])] =
        [i \in 0 .. n |-> IF i = 0 THEN GENESIS_PREV ELSE Other(i, f[i - 1])]
    <3> HIDE DEF n, Next_, Other
    <3> QED
      BY <1>1, <1>2, Zenon
  <2> HIDE DEF Next_, Other
  <2> QED
    BY <2>1, Zenon DEF Solves, Fits
<1>4. JournalHead(r) = (CHOOSE f : Solves(f)) /\ JournalHead(s) = (CHOOSE f : Fits(f))
  BY Zenon DEF JournalHead
<1>5. JournalHead(s) = JournalHead(r)
  <2> HIDE DEF Solves, Fits
  <2> QED
    BY <1>3, <1>4, Zenon
<1> DEFINE head == JournalHead(r)
<1>6. \A i \in 1 .. n : Entry(s, i, head[i - 1]) = Entry(r, i, head[i - 1])
  OBVIOUS
<1> HIDE DEF head
<1>7. [i \in 1 .. n |-> [line |-> Entry(s, i, head[i - 1]), after |-> head[i]]] =
      [i \in 1 .. n |-> [line |-> Entry(r, i, head[i - 1]), after |-> head[i]]]
  <2> HIDE DEF n
  <2> QED
    BY <1>6, Zenon
<1> QED
  BY <1>5, <1>7, JournalLines DEF head

-----------------------------------------------------------------------------
(* The recipe without its hooks.                                           *)

(* The unhooked recipe is the recipe but for hooks on the window.          *)
LEMMA UnhookedRecipe ==
  ASSUME RecipeInv
  PROVE  /\ Unhooked.recovery = recipe.recovery /\ Unhooked.rotations = recipe.rotations
         /\ Unhooked.compromise = recipe.compromise /\ Unhooked.content = recipe.content
         /\ Unhooked.erase = recipe.erase /\ Unhooked.window = recipe.window
         /\ Unhooked.hooks =
              {h \in recipe.hooks :
                 \/ h[1] \in {"dangling_erasure_target", "dangling_closure_erasure_target"}
                 \/ h[1] \in RecordHook /\ h[2] <= recipe.window}
BY DEF RecipeInv, Recipe, Unhooked

LEMMA HooksLeft ==
  ASSUME RecipeInv
  PROVE  /\ \A name \in RecordHook, p \in Nat :
              /\ p <= recipe.window => (HookedAt(Unhooked, name, p) <=> HookedAt(recipe, name, p))
              /\ ~(p <= recipe.window) => ~HookedAt(Unhooked, name, p)
         /\ \A p : ~HookedAt(Unhooked, "corrupt_rotation_signer", p)
         /\ ~Hooked(Unhooked, "corrupt_compromise_signer")
         /\ Hooked(Unhooked, "dangling_erasure_target") <=> Hooked(recipe, "dangling_erasure_target")
<1> DEFINE H == recipe.hooks
           w == recipe.window
           K == {h \in H :
                  \/ h[1] \in {"dangling_erasure_target", "dangling_closure_erasure_target"}
                  \/ h[1] \in RecordHook /\ h[2] <= w}
<1>1. Unhooked.hooks = K
  BY UnhookedRecipe
<1>2. ~("dangling_erasure_target" \in RecordHook) /\ ~("dangling_closure_erasure_target" \in RecordHook)
      /\ ~("corrupt_rotation_signer" \in RecordHook) /\ ~("corrupt_compromise_signer" \in RecordHook)
  BY DEF RecordHook
<1> HIDE DEF w, H
<1>3. ASSUME NEW name \in RecordHook, NEW p \in Nat
      PROVE  /\ p <= w => ((\E h \in K : h[1] = name /\ h[2] = p) <=> (\E h \in H : h[1] = name /\ h[2] = p))
             /\ ~(p <= w) => ~(\E h \in K : h[1] = name /\ h[2] = p)
  BY <1>2
<1>4. /\ \A p : ~(\E h \in K : h[1] = "corrupt_rotation_signer" /\ h[2] = p)
      /\ ~(\E h \in K : h[1] = "corrupt_compromise_signer")
      /\ (\E h \in K : h[1] = "dangling_erasure_target") <=> (\E h \in H : h[1] = "dangling_erasure_target")
  BY <1>2
<1> HIDE DEF K
<1>5. /\ \A name, p : HookedAt(Unhooked, name, p) <=> \E h \in K : h[1] = name /\ h[2] = p
      /\ \A name, p : HookedAt(recipe, name, p) <=> \E h \in H : h[1] = name /\ h[2] = p
  BY <1>1 DEF HookedAt, H
<1>6. /\ \A name : Hooked(Unhooked, name) <=> \E h \in K : h[1] = name
      /\ \A name : Hooked(recipe, name) <=> \E h \in H : h[1] = name
  BY <1>1 DEF Hooked, H
<1>7. \A name \in RecordHook, p \in Nat :
        /\ p <= w => (HookedAt(Unhooked, name, p) <=> HookedAt(recipe, name, p))
        /\ ~(p <= w) => ~HookedAt(Unhooked, name, p)
  BY <1>3, <1>5
<1> QED
  BY <1>4, <1>5, <1>6, <1>7 DEF w

LEMMA ArgumentsLeft ==
  ASSUME RecipeInv
  PROVE  /\ Argument(Unhooked, "dangling_erasure_target") = Argument(recipe, "dangling_erasure_target")
         /\ \A p \in Nat : p <= recipe.window =>
              SecondArgument(Unhooked, "forge_position", p) = SecondArgument(recipe, "forge_position", p)
<1> DEFINE H == recipe.hooks
           w == recipe.window
           K == {h \in H :
                  \/ h[1] \in {"dangling_erasure_target", "dangling_closure_erasure_target"}
                  \/ h[1] \in RecordHook /\ h[2] <= w}
<1>1. Unhooked.hooks = K
  BY UnhookedRecipe
<1>2. "forge_position" \in RecordHook
  BY DEF RecordHook
<1> HIDE DEF w, H
<1>3. \A h : h \in K /\ h[1] = "dangling_erasure_target" <=> h \in H /\ h[1] = "dangling_erasure_target"
  OBVIOUS
<1>4. ASSUME NEW p \in Nat, p <= w, NEW h
      PROVE  h \in K /\ h[1] = "forge_position" /\ h[2] = p <=> h \in H /\ h[1] = "forge_position" /\ h[2] = p
  BY <1>2, <1>4
<1> HIDE DEF K
<1>5. (CHOOSE h \in K : h[1] = "dangling_erasure_target") = (CHOOSE h \in H : h[1] = "dangling_erasure_target")
  BY <1>3, Zenon
<1>6. ASSUME NEW p \in Nat, p <= w
      PROVE  (CHOOSE h \in K : h[1] = "forge_position" /\ h[2] = p) =
             (CHOOSE h \in H : h[1] = "forge_position" /\ h[2] = p)
  BY <1>4, <1>6, Zenon
<1> QED
  BY <1>1, <1>5, <1>6, Zenon DEF Argument, SecondArgument, w, H

(* The hooks leave the shape of the journal as it is.                      *)
LEMMA ShapeLeft ==
  ASSUME RecipeInv
  PROVE  /\ N(Unhooked) = N(recipe) /\ InRange(Unhooked) = InRange(recipe)
         /\ JournalLength(Unhooked) = JournalLength(recipe)
         /\ \A p : signer_for_position(Unhooked, p) = signer_for_position(recipe, p)
         /\ \A p : ContentHash(Unhooked, p) = ContentHash(recipe, p)
<1>1. N(Unhooked) = N(recipe)
  BY UnhookedRecipe DEF N
<1>2. Targeted(Unhooked, {"erase", "keep"}) = Targeted(recipe, {"erase", "keep"})
  BY <1>1, UnhookedRecipe, Zenon DEF Targeted
<1>3. InRange(Unhooked) = InRange(recipe)
  <2> DEFINE T == Targeted(recipe, {"erase", "keep"})
             U == Targeted(Unhooked, {"erase", "keep"})
  <2>1. InRange(recipe) = [i \in 1 .. Cardinality(T) |->
                             CHOOSE p \in T : Cardinality({q \in T : q <= p}) = i]
    BY Zenon DEF InRange, Targets
  <2>2. InRange(Unhooked) = [i \in 1 .. Cardinality(U) |->
                               CHOOSE p \in U : Cardinality({q \in U : q <= p}) = i]
    BY Zenon DEF InRange, Targets
  <2>3. U = T
    BY <1>2
  <2> HIDE DEF T, U
  <2> QED
    BY <2>1, <2>2, <2>3
<1>4. JournalLength(Unhooked) = JournalLength(recipe)
  BY <1>1, <1>3, HooksLeft, Zenon DEF JournalLength
<1>5. \A p : signer_for_position(Unhooked, p) = signer_for_position(recipe, p)
  BY UnhookedRecipe, Zenon DEF signer_for_position
<1>6. \A p : ContentHash(Unhooked, p) = ContentHash(recipe, p)
  BY UnhookedRecipe, Zenon DEF ContentHash
<1> QED
  BY <1>1, <1>3, <1>4, <1>5, <1>6

-----------------------------------------------------------------------------
(* What the hooks of a record would show.                                  *)

(* The walk ties every line of the epoch to the head before it.            *)
LEMMA EpochWalked ==
  ASSUME PipelineInv, Valid, NEW i \in DOMAIN epoch
  PROVE  epoch[i].prev_head = HeadBefore(i)
<1>1. WalkInv /\ w_outcome["epoch"] = "ok" /\ IsSequence(epoch)
  BY ValidFacts DEF Typed
<1>2. i \in 1 .. Len(epoch)
  BY <1>1, SequenceDomain
<1> QED
  BY <1>1, <1>2 DEF WalkInv

(* The range starts at the head of the window's checkpoint, which is that  *)
(* of the journal there.                                                   *)
LEMMA RangeStart ==
  ASSUME PipelineInv, Valid
  PROVE  bounds.start_head = HeadAt(Journal(recipe), recipe.window)
<1> DEFINE w == recipe.window
           k == CHOOSE i \in 1 .. Len(c_checkpoints) : c_checkpoints[i].position = w
<1>1. manifest.range[1] = w
  BY ValidMembers DEF Manifest
<1>2. \E i \in 1 .. Len(c_checkpoints) : c_checkpoints[i].position = w
  BY <1>1, ValidFacts DEF Bounded, CPs!IsBoundary
<1>3. k \in 1 .. Len(c_checkpoints) /\ c_checkpoints[k].position = w
  BY <1>2
<1>4. bounds.start_head = c_checkpoints[k].head
  <2>1. Bounded
    BY ValidFacts
  <2>2. bounds = CPs!range_bounds(manifest.range[1], manifest.range[2])
    BY DEF bounds
  <2>3. bounds.start_head = CPs!checkpoint_at(manifest.range[1]).head
    BY <2>1, <2>2 DEF Bounded, CPs!range_bounds
  <2> QED
    BY <1>1, <2>3 DEF CPs!checkpoint_at
<1> HIDE DEF k
<1>5. /\ k \in DOMAIN CheckpointFile
      /\ CheckpointFile[k].position = w /\ c_checkpoints[k].head = CheckpointFile[k].head
  BY <1>3, ValidFacts DEF CheckpointInv
<1>6. /\ IsSequence(CheckpointFile) /\ Len(CheckpointFile) \in {1, 2}
      /\ CheckpointFile[1].position = w /\ CheckpointFile[1].head = HeadAt(Journal(recipe), w)
      /\ Len(CheckpointFile) = 2 =>
           /\ CheckpointFile[2].position = End(recipe)
           /\ CheckpointFile[2].head = HeadAt(Journal(recipe), End(recipe))
  BY ValidFiles, CheckpointFacts
<1>7. k \in {1, 2} /\ (k = 2 => Len(CheckpointFile) = 2)
  BY <1>5, <1>6, SequenceDomain
<1> QED
  BY <1>4, <1>5, <1>6, <1>7

(* A head is the genesis value or a head hash, never a forged one.         *)
LEMMA HeadBeforeForm ==
  ASSUME PipelineInv, Valid, NEW i \in DOMAIN epoch, NEW prev
  PROVE  HeadBefore(i) # <<"bogus", prev>>
<1> DEFINE w == recipe.window
<1>1. \A h, line : HeadAfter(h, line) # <<"bogus", prev>>
  BY DEF HeadAfter, head_hash
<1>2. GENESIS_PREV # <<"bogus", prev>>
  BY DEF GENESIS_PREV
<1>3. CASE i # 1
  BY <1>1, <1>3 DEF HeadBefore
<1>4. CASE i = 1
  <2>1. HeadBefore(i) = HeadAt(Journal(recipe), w)
    BY <1>4, RangeStart DEF HeadBefore
  <2>2. CASE w = 0
    BY <1>2, <2>1, <2>2 DEF HeadAt
  <2>3. CASE w # 0
    <3>1. JournalLength(recipe) \in Nat /\ w \in 1 .. JournalLength(recipe)
      BY <2>3, ValidFacts, JournalLengthType DEF RecipeInv, Recipe, CanBuild
    <3>2. HeadAt(Journal(recipe), w) = JournalHead(recipe)[w]
      <4>1. Journal(recipe)[w].after = JournalHead(recipe)[w]
        BY <3>1, JournalLines
      <4> QED
        BY <2>3, <4>1 DEF HeadAt
    <3>3. \E h, line : JournalHead(recipe)[w] = HeadAfter(h, line)
      BY <3>1, JournalHeads
    <3> QED
      BY <1>1, <2>1, <3>2, <3>3
  <2> QED
    BY <2>2, <2>3
<1> QED
  BY <1>3, <1>4

(* A record as its hooks make it.                                          *)
LEMMA RecordForm ==
  ASSUME NEW r, NEW p, NEW prev
  PROVE  Record(r, p, prev) =
           [position |-> p,
            prev_head |-> IF HookedAt(r, "forge_prev_head", p) THEN <<"bogus", prev>> ELSE prev,
            body |->
              [kind |-> "note", target |-> 0, content_hash |-> ContentHash(r, p),
               payload_type |-> IF HookedAt(r, "wrong_payload_type_record", p)
                                  THEN "checkpoint" ELSE "record",
               keyid |-> RecordSigner(r, p), signer |-> RecordSigner(r, p),
               form |-> IF HookedAt(r, "multi_sig_record", p) THEN "multi" ELSE "single",
               intact |-> ~HookedAt(r, "tamper_record", p)]]
<1> DEFINE line == Record(r, p, prev)
           declared == IF HookedAt(r, "forge_prev_head", p) THEN <<"bogus", prev>> ELSE prev
           honest == Honest(r, p, declared)
<1>1. line = [honest EXCEPT
                !.body.keyid = RecordSigner(r, p),
                !.body.signer = RecordSigner(r, p),
                !.body.payload_type =
                   IF HookedAt(r, "wrong_payload_type_record", p) THEN "checkpoint" ELSE @,
                !.body.form = IF HookedAt(r, "multi_sig_record", p) THEN "multi" ELSE @,
                !.body.intact = ~HookedAt(r, "tamper_record", p)]
  BY Zenon DEF Record
<1>2. honest = RecordLine(p, declared, "note", 0, ContentHash(r, p),
                          signer_for_position(r, p), signer_for_position(r, p))
  BY Zenon DEF Honest
<1> HIDE DEF line, declared, honest
<1>3. /\ honest = [position |-> p, prev_head |-> declared, body |-> honest.body]
      /\ honest.body = [kind |-> "note", target |-> 0, content_hash |-> ContentHash(r, p),
                        payload_type |-> "record", keyid |-> signer_for_position(r, p),
                        signer |-> signer_for_position(r, p), form |-> "single", intact |-> TRUE]
  BY <1>2 DEF RecordLine
<1>4. line.body =
        [honest.body EXCEPT
           !.keyid = RecordSigner(r, p),
           !.signer = RecordSigner(r, p),
           !.payload_type =
              IF HookedAt(r, "wrong_payload_type_record", p) THEN "checkpoint" ELSE @,
           !.form = IF HookedAt(r, "multi_sig_record", p) THEN "multi" ELSE @,
           !.intact = ~HookedAt(r, "tamper_record", p)]
  BY <1>1, <1>3
<1>5. line = [position |-> p, prev_head |-> declared, body |-> line.body]
  <2>1. DOMAIN line = DOMAIN honest /\ line.position = p /\ line.prev_head = declared
    BY <1>1, <1>3
  <2>2. DOMAIN honest = {"position", "prev_head", "body"} /\ line = [x \in DOMAIN line |-> line[x]]
    BY <1>1, <1>3
  <2> QED
    BY <2>1, <2>2
<1> DEFINE type == IF HookedAt(r, "wrong_payload_type_record", p) THEN "checkpoint" ELSE "record"
           form == IF HookedAt(r, "multi_sig_record", p) THEN "multi" ELSE "single"
           intact == ~HookedAt(r, "tamper_record", p)
           signer == RecordSigner(r, p)
<1>6. line.body = [honest.body EXCEPT !.keyid = signer, !.signer = signer,
                     !.payload_type = type, !.form = form, !.intact = intact]
  BY <1>3, <1>4
<1> HIDE DEF type, form, intact, signer
<1>7. line.body = [kind |-> "note", target |-> 0, content_hash |-> ContentHash(r, p),
                   payload_type |-> type, keyid |-> signer, signer |-> signer,
                   form |-> form, intact |-> intact]
  <2> DEFINE own == signer_for_position(r, p)
             Body(t, k, s, f, i) ==
               [kind |-> "note", target |-> 0, content_hash |-> ContentHash(r, p),
                payload_type |-> t, keyid |-> k, signer |-> s, form |-> f, intact |-> i]
             b0 == honest.body
             b1 == [b0 EXCEPT !.keyid = signer]
             b2 == [b1 EXCEPT !.signer = signer]
             b3 == [b2 EXCEPT !.payload_type = type]
             b4 == [b3 EXCEPT !.form = form]
  <2>1. b0 = Body("record", own, own, "single", TRUE)
    BY <1>3
  <2>2. b1 = [b0 EXCEPT !.keyid = signer]
    OBVIOUS
  <2>3. b2 = [b1 EXCEPT !.signer = signer]
    OBVIOUS
  <2>4. b3 = [b2 EXCEPT !.payload_type = type]
    OBVIOUS
  <2>5. b4 = [b3 EXCEPT !.form = form]
    OBVIOUS
  <2>6. line.body = [b4 EXCEPT !.intact = intact]
    BY <1>6
  <2> HIDE DEF own, b0, b1, b2, b3, b4
  <2>7. b1 = Body("record", signer, own, "single", TRUE)
    BY <2>1, <2>2
  <2>8. b2 = Body("record", signer, signer, "single", TRUE)
    BY <2>3, <2>7
  <2>9. b3 = Body(type, signer, signer, "single", TRUE)
    BY <2>4, <2>8
  <2>10. b4 = Body(type, signer, signer, form, TRUE)
    BY <2>5, <2>9
  <2> QED
    BY <2>6, <2>10
<1> QED
  BY <1>5, <1>7, Zenon DEF line, declared, type, form, intact, signer

(* What the checks of a record's envelope and link leave of its hooks.     *)
LEMMA RecordUnhooked ==
  ASSUME PipelineInv, Valid, NEW p \in recipe.window + 1 .. Total, p <= N(recipe)
  PROVE  /\ ~HookedAt(recipe, "forge_prev_head", p)
         /\ ~HookedAt(recipe, "wrong_payload_type_record", p)
         /\ ~HookedAt(recipe, "multi_sig_record", p)
         /\ ~HookedAt(recipe, "tamper_record", p)
         /\ RecordSigner(recipe, p) = signer_for_position(recipe, p)
<1> DEFINE i == p - recipe.window
           prev == JournalHead(recipe)[p - 1]
           line == Record(recipe, p, prev)
<1>1. i \in DOMAIN epoch /\ epoch[i] = line
  BY EpochLine DEF Entry
<1>2. /\ line.prev_head = IF HookedAt(recipe, "forge_prev_head", p) THEN <<"bogus", prev>> ELSE prev
      /\ line.body.payload_type = IF HookedAt(recipe, "wrong_payload_type_record", p)
                                    THEN "checkpoint" ELSE "record"
      /\ line.body.form = IF HookedAt(recipe, "multi_sig_record", p) THEN "multi" ELSE "single"
      /\ line.body.intact = ~HookedAt(recipe, "tamper_record", p)
      /\ line.body.keyid = RecordSigner(recipe, p)
  <2> HIDE DEF prev
  <2> QED
    BY RecordForm
<1>3. line.prev_head = HeadBefore(i)
  BY <1>1, EpochWalked
<1>4. ~HookedAt(recipe, "forge_prev_head", p)
  BY <1>1, <1>2, <1>3, HeadBeforeForm
<1>5. FaultRow(line) = 0 /\ line.body.keyid = signer_for_position(recipe, p)
  BY <1>1, EpochKey, ValidFacts DEF RecordsOK
<1> HIDE DEF line
<1>6. line.body.form # "multi" /\ line.body.payload_type = "record" /\ line.body.intact
  BY <1>5 DEF FaultRow
<1> QED
  BY <1>2, <1>4, <1>5, <1>6

(* Hooks that do not tell two recipes apart make the same record.          *)
LEMMA SameRecord ==
  ASSUME NEW r, NEW s, NEW p,
         HookedAt(s, "forge_prev_head", p) <=> HookedAt(r, "forge_prev_head", p),
         HookedAt(s, "wrong_payload_type_record", p) <=> HookedAt(r, "wrong_payload_type_record", p),
         HookedAt(s, "multi_sig_record", p) <=> HookedAt(r, "multi_sig_record", p),
         HookedAt(s, "tamper_record", p) <=> HookedAt(r, "tamper_record", p),
         RecordSigner(s, p) = RecordSigner(r, p),
         ContentHash(s, p) = ContentHash(r, p)
  PROVE  \A prev : Record(s, p, prev) = Record(r, p, prev)
<1> SUFFICES ASSUME NEW prev PROVE Record(s, p, prev) = Record(r, p, prev)
  OBVIOUS
<1> DEFINE Prev(t) == IF HookedAt(t, "forge_prev_head", p) THEN <<"bogus", prev>> ELSE prev
           Type(t) == IF HookedAt(t, "wrong_payload_type_record", p) THEN "checkpoint" ELSE "record"
           Form(t) == IF HookedAt(t, "multi_sig_record", p) THEN "multi" ELSE "single"
           Intact(t) == ~HookedAt(t, "tamper_record", p)
           Body(t) == [kind |-> "note", target |-> 0, content_hash |-> ContentHash(t, p),
                       payload_type |-> Type(t), keyid |-> RecordSigner(t, p),
                       signer |-> RecordSigner(t, p), form |-> Form(t), intact |-> Intact(t)]
<1>1. /\ Record(r, p, prev) = [position |-> p, prev_head |-> Prev(r), body |-> Body(r)]
      /\ Record(s, p, prev) = [position |-> p, prev_head |-> Prev(s), body |-> Body(s)]
  BY RecordForm
<1>2. /\ Prev(s) = Prev(r) /\ Type(s) = Type(r) /\ Form(s) = Form(r)
      /\ Intact(s) = Intact(r)
  OBVIOUS
<1> HIDE DEF Prev, Type, Form, Intact
<1>3. Body(s) = Body(r)
  BY <1>2
<1> QED
  BY <1>1, <1>2, <1>3

(* Without its hooks the recipe has the same records: of the window since  *)
(* their hooks would have shown, before it since they are left.            *)
LEMMA RecordsLeft ==
  ASSUME PipelineInv, Valid, NEW p \in 1 .. Total, p <= N(recipe)
  PROVE  \A prev : Record(Unhooked, p, prev) = Record(recipe, p, prev)
<1>1. RecipeInv /\ Total \in Nat /\ p \in Nat /\ recipe.window \in Nat
  BY ValidFacts, JournalLengthType DEF RecipeInv, Recipe, Total
<1>2. ContentHash(Unhooked, p) = ContentHash(recipe, p)
  BY <1>1, ShapeLeft
<1>3. /\ "unknown_key_record" \in RecordHook /\ "forge_position" \in RecordHook
      /\ RecordHook = {"tamper_record", "forge_prev_head", "forge_position",
                       "unknown_key_record", "multi_sig_record", "wrong_payload_type_record"}
  BY DEF RecordHook
<1>4. \A q : signer_for_position(Unhooked, q) = signer_for_position(recipe, q)
  BY <1>1, ShapeLeft
<1>5. CASE p <= recipe.window
  <2>1. \A name \in RecordHook : HookedAt(Unhooked, name, p) <=> HookedAt(recipe, name, p)
    BY <1>1, <1>5, HooksLeft
  <2>2. SecondArgument(Unhooked, "forge_position", p) = SecondArgument(recipe, "forge_position", p)
    BY <1>1, <1>5, ArgumentsLeft
  <2>3. RecordSigner(Unhooked, p) = RecordSigner(recipe, p)
    BY <1>3, <1>4, <2>1, <2>2 DEF RecordSigner
  <2> QED
    BY <1>2, <1>3, <2>1, <2>3, SameRecord
<1>6. CASE ~(p <= recipe.window)
  <2>1. p \in recipe.window + 1 .. Total
    BY <1>1, <1>6
  <2>2. \A name \in RecordHook : ~HookedAt(Unhooked, name, p)
    BY <1>1, <1>6, HooksLeft
  <2>3. RecordSigner(Unhooked, p) = RecordSigner(recipe, p)
    BY <1>3, <1>4, <2>1, <2>2, RecordUnhooked DEF RecordSigner
  <2> QED
    BY <1>2, <1>3, <2>1, <2>2, <2>3, RecordUnhooked, SameRecord
<1> QED
  BY <1>5, <1>6

-----------------------------------------------------------------------------
(* The journal and the keys are those of the export without hooks.         *)

(* The journal of a VALID bundle is that of the export without its hooks.  *)
LEMMA JournalLeft ==
  ASSUME PipelineInv, Valid
  PROVE  Journal(Unhooked) = Journal(recipe)
<1>1. RecipeInv /\ Total \in Nat /\ JournalLength(recipe) = Total
  BY ValidFacts, JournalLengthType DEF Total
<1>2. /\ N(Unhooked) = N(recipe) /\ InRange(Unhooked) = InRange(recipe)
      /\ JournalLength(Unhooked) = JournalLength(recipe)
      /\ \A p : signer_for_position(Unhooked, p) = signer_for_position(recipe, p)
  BY <1>1, ShapeLeft
<1>3. Argument(Unhooked, "dangling_erasure_target") = Argument(recipe, "dangling_erasure_target")
  BY <1>1, ArgumentsLeft
<1>4. \A p, prev, target : Erasure(Unhooked, p, prev, target) = Erasure(recipe, p, prev, target)
  BY <1>2 DEF Erasure
<1>5. ASSUME NEW i \in 1 .. Total, NEW prev
      PROVE  Entry(Unhooked, i, prev) = Entry(recipe, i, prev)
  <2>1. i <= N(recipe) => Record(Unhooked, i, prev) = Record(recipe, i, prev)
    BY RecordsLeft
  <2> QED
    BY <1>2, <1>3, <1>4, <2>1 DEF Entry
<1> QED
  BY <1>1, <1>2, <1>5, SameJournal

LEMMA EpochLeft ==
  ASSUME PipelineInv, Valid
  PROVE  /\ EpochLines(Unhooked, Journal(Unhooked)) = EpochLines(recipe, Journal(recipe))
         /\ WindowLength(Unhooked) = WindowLength(recipe)
<1>1. RecipeInv
  BY ValidFacts
<1>2. Unhooked.window = recipe.window /\ JournalLength(Unhooked) = JournalLength(recipe)
  BY <1>1, UnhookedRecipe, ShapeLeft
<1> QED
  BY <1>2, JournalLeft DEF EpochLines, WindowLength

(* The key file of a VALID bundle was read to its end.                     *)
LEMMA KeysAccepted ==
  ASSUME PipelineInv, Valid, NEW i \in 1 .. KeyRecords(recipe)
  PROVE  i \in Nat /\ KeyLineOK(i)
<1> DEFINE n == KeyRecords(recipe)
<1>1. IsSequence(KeyFile) /\ Len(KeyFile) = n /\ n \in Nat
  BY ValidFacts, ValidFiles, KeyFacts
<1>2. KeyInv /\ ~KeyLineLeft
  BY ValidFacts DEF KeysDone, KeysOK
<1>3. Len(k_lines) \in Nat
  BY <1>2, SequenceDomain DEF KeyInv
<1>4. ~(Len(k_lines) < n)
  BY <1>1, <1>2 DEF KeyLineLeft, KeyFile
<1>5. i \in 1 .. Len(k_lines)
  BY <1>1, <1>3, <1>4
<1> QED
  BY <1>2, <1>5 DEF KeyInv

(* The signers of the key records are those they have without hooks: each  *)
(* is the key the line before it declared, or the recovery key.            *)
LEMMA KeyRecordsLeft ==
  ASSUME PipelineInv, Valid, NEW i \in 1 .. KeyRecords(recipe)
  PROVE  \A prev : KeyRecord(Unhooked, i, prev) = KeyRecord(recipe, i, prev)
<1> DEFINE turns == Len(recipe.rotations)
           n == KeyRecords(recipe)
<1>1. /\ RecipeInv /\ turns \in Nat /\ n \in Nat
      /\ n = turns + 1 + (IF recipe.compromise = 0 THEN 0 ELSE 1)
      /\ IsSequence(KeyFile) /\ Len(KeyFile) = n
      /\ \A j \in 1 .. n : \E prev : KeyFile[j] = KeyRecord(recipe, j, prev)
  BY ValidFacts, ValidFiles, KeyFacts DEF RecipeInv, Recipe, KeyRecords
<1>2. i \in Nat /\ i \in 1 .. n /\ KeyLineOK(i)
  BY KeysAccepted
<1>3. /\ Unhooked.recovery = recipe.recovery /\ Unhooked.rotations = recipe.rotations
      /\ Unhooked.compromise = recipe.compromise
      /\ \A p : signer_for_position(Unhooked, p) = signer_for_position(recipe, p)
      /\ \A p : ~HookedAt(Unhooked, "corrupt_rotation_signer", p)
      /\ ~Hooked(Unhooked, "corrupt_compromise_signer")
  BY <1>1, UnhookedRecipe, HooksLeft, ShapeLeft
<1>4. CASE i = 1
  <2>1. \A prev : Genesis(Unhooked, prev) = Genesis(recipe, prev)
    BY <1>3 DEF Genesis
  <2> QED
    BY <1>4, <2>1 DEF KeyRecord
<1>5. CASE i # 1 /\ i <= turns + 1
  <2>1. i - 1 \in 1 .. n /\ i - 1 \in 1 .. turns
    <3> HIDE DEF turns, n
    <3> QED
      BY <1>1, <1>2, <1>5
  <2>2. PICK prev : KeyFile[i] = KeyRecord(recipe, i, prev)
    BY <1>1
  <2>3. KeyFile[i] = Rotation(recipe, i - 1, prev)
    BY <1>5, <2>2 DEF KeyRecord
  <2>4. /\ KeyFile[i].kind = "rotation"
        /\ KeyFile[i].signer =
             IF HookedAt(recipe, "corrupt_rotation_signer", recipe.rotations[i - 1])
               THEN ImpostorSeeds.rotation
             ELSE IF i - 1 = 1 THEN GenesisSeed ELSE RotationKey(i - 1 - 1)
    BY <2>3 DEF Rotation
  <2>5. KeyFile[i].signer = KeyFile[i - 1].key
    BY <1>2, <1>5, <2>4 DEF KeyLineOK
  <2>6. KeyFile[i - 1].key = IF i - 1 = 1 THEN GenesisSeed ELSE RotationKey(i - 1 - 1)
    <3>1. PICK before : KeyFile[i - 1] = KeyRecord(recipe, i - 1, before)
      BY <1>1, <2>1
    <3>2. CASE i - 1 = 1
      BY <3>1, <3>2 DEF KeyRecord, Genesis
    <3>3. CASE i - 1 # 1
      <4>1. KeyFile[i - 1] = Rotation(recipe, i - 1 - 1, before)
        BY <1>1, <1>5, <2>1, <3>1, <3>3 DEF KeyRecord
      <4> QED
        BY <3>3, <4>1 DEF Rotation
    <3> QED
      BY <3>2, <3>3
  <2> DEFINE signer(r) ==
               IF HookedAt(r, "corrupt_rotation_signer", r.rotations[i - 1])
                 THEN ImpostorSeeds.rotation
               ELSE IF i - 1 = 1 THEN GenesisSeed ELSE RotationKey(i - 1 - 1)
  <2>7. signer(Unhooked) = signer(recipe)
    BY <1>3, <2>4, <2>5, <2>6
  <2>8. \A r, before : Rotation(r, i - 1, before) =
          [kind |-> "rotation", position |-> r.rotations[i - 1], key_prev |-> before,
           key |-> RotationKey(i - 1), signer |-> signer(r), envelope |-> "keyrecord"]
    BY Zenon DEF Rotation
  <2> HIDE DEF signer
  <2>9. \A before : Rotation(Unhooked, i - 1, before) = Rotation(recipe, i - 1, before)
    BY <1>3, <2>7, <2>8
  <2> QED
    BY <1>3, <1>5, <2>9 DEF KeyRecord
<1>6. CASE ~(i <= turns + 1)
  <2>1. i # 1 /\ 1 \in 1 .. n
    <3> HIDE DEF turns, n
    <3> QED
      BY <1>1, <1>2, <1>6
  <2>2. PICK prev : KeyFile[i] = KeyRecord(recipe, i, prev)
    BY <1>1
  <2>3. KeyFile[i] = Compromise(recipe, prev)
    BY <1>6, <2>1, <2>2 DEF KeyRecord
  <2>4. /\ KeyFile[i].kind = "compromise"
        /\ KeyFile[i].signer = IF Hooked(recipe, "corrupt_compromise_signer")
                                 THEN ImpostorSeeds.compromise ELSE RecoverySeed
    BY <2>3 DEF Compromise
  <2>5. KeyFile[1].recovery # NoKey /\ KeyFile[i].signer = KeyFile[1].recovery
    BY <1>2, <2>1, <2>4 DEF KeyLineOK
  <2>6. KeyFile[1].recovery \in {RecoverySeed, 0}
    <3>1. PICK before : KeyFile[1] = KeyRecord(recipe, 1, before)
      BY <1>1, <2>1
    <3> QED
      BY <3>1 DEF KeyRecord, Genesis
  <2>7. KeyFile[i].signer = RecoverySeed
    BY <2>5, <2>6 DEF NoKey
  <2> DEFINE signer(r) == IF Hooked(r, "corrupt_compromise_signer")
                            THEN ImpostorSeeds.compromise ELSE RecoverySeed
  <2>8. signer(Unhooked) = signer(recipe)
    BY <1>3, <2>4, <2>7
  <2>9. \A r, before : Compromise(r, before) =
          [kind |-> "compromise", position |-> r.compromise, key_prev |-> before,
           key |-> signer_for_position(r, r.compromise - 1), time |-> "rfc3339",
           signer |-> signer(r), envelope |-> "keyrecord"]
    BY Zenon DEF Compromise
  <2> HIDE DEF signer
  <2>10. \A before : Compromise(Unhooked, before) = Compromise(recipe, before)
    BY <1>3, <2>8, <2>9
  <2> QED
    BY <1>3, <1>6, <2>1, <2>10 DEF KeyRecord
<1> QED
  BY <1>4, <1>5, <1>6

LEMMA KeysLeft ==
  ASSUME PipelineInv, Valid
  PROVE  KeyLines(Unhooked) = KeyLines(recipe)
<1> DEFINE n == KeyRecords(recipe)
           Ahead(r, i, h) == HeadAfter(h, AsIs(KeyRecord(r, i, h)))
           Solves(r, f) == f = [i \in 0 .. n |-> IF i = 0 THEN GENESIS_PREV ELSE Ahead(r, i, f[i - 1])]
           head(r) == CHOOSE f : Solves(r, f)
           chain(r) == [i \in 1 .. n |->
                          [line |-> KeyRecord(r, i, head(r)[i - 1]), after |-> head(r)[i]]]
<1>1. KeyRecords(Unhooked) = n
  BY ValidFacts, UnhookedRecipe DEF KeyRecords
<1>2. KeyLines(recipe) = LinesOf(chain(recipe))
  BY Zenon DEF KeyLines, Chained
<1>3. KeyLines(Unhooked) = LinesOf(chain(Unhooked))
  <2> DEFINE m == KeyRecords(Unhooked)
             own == CHOOSE f : f = [i \in 0 .. m |-> IF i = 0 THEN GENESIS_PREV
                                                     ELSE Ahead(Unhooked, i, f[i - 1])]
  <2>1. KeyLines(Unhooked) =
          LinesOf([i \in 1 .. m |->
                     [line |-> KeyRecord(Unhooked, i, own[i - 1]), after |-> own[i]]])
    BY Zenon DEF KeyLines, Chained
  <2>2. m = n
    BY <1>1
  <2> HIDE DEF m, n, Ahead
  <2> QED
    BY <2>1, <2>2
<1>4. \A i \in 1 .. n : \A h : KeyRecord(Unhooked, i, h) = KeyRecord(recipe, i, h)
  BY KeyRecordsLeft
<1>5. n \in Nat
  BY ValidFacts, KeyFacts
<1> HIDE DEF n
<1>6. \A i \in 0 .. n : i # 0 => i \in 1 .. n
  BY <1>5
<1>7. \A i \in 1 .. n : \A h : Ahead(Unhooked, i, h) = Ahead(recipe, i, h)
  BY <1>4
<1>8. ASSUME NEW f PROVE Solves(Unhooked, f) <=> Solves(recipe, f)
  <2>1. [i \in 0 .. n |-> IF i = 0 THEN GENESIS_PREV ELSE Ahead(recipe, i, f[i - 1])] =
        [i \in 0 .. n |-> IF i = 0 THEN GENESIS_PREV ELSE Ahead(Unhooked, i, f[i - 1])]
    <3> HIDE DEF Ahead
    <3> QED
      BY <1>6, <1>7, Zenon
  <2> QED
    BY <2>1, Zenon
<1> HIDE DEF Solves
<1>9. head(Unhooked) = head(recipe)
  BY <1>8, Zenon
<1> HIDE DEF head
<1>10. chain(Unhooked) = chain(recipe)
  BY <1>4, <1>9, Zenon
<1> QED
  BY <1>2, <1>3, <1>10

(* The content a bundle holds is what the builder left in it.              *)
LEMMA ContentHeld ==
  ASSUME PipelineInv, Valid, NEW p \in 1 .. N(recipe)
  PROVE  /\ Content(p) \in DOMAIN bundle.members <=> HasContent(recipe, p)
         /\ HasContent(recipe, p) => bundle.members[Content(p)] = Member(ContentBytes(p))
<1>1. Content(p) \in MemberNames(recipe) <=> HasContent(recipe, p)
  BY NamesDiffer DEF MemberNames
<1>2. Content(p) # Extra /\ Content(p) # ManifestFile
  BY NamesDiffer
<1> QED
  BY <1>1, <1>2, ValidMembers, BytesOf

(* A record of the window stands in the epoch at its place.                *)
LEMMA ContentLine ==
  ASSUME PipelineInv, Valid, NEW i \in DOMAIN epoch
  PROVE  /\ epoch[i].position = recipe.window + i
         /\ recipe.window + i \in recipe.window + 1 .. Total
         /\ epoch[i].body.content_hash # NoContent <=>
              recipe.window + i \in 1 .. N(recipe) /\ recipe.content[recipe.window + i]
<1> DEFINE w == recipe.window
           p == w + i
<1>1. w \in Nat /\ Total \in Nat /\ N(recipe) \in Nat
  BY ValidFacts, JournalLengthType DEF RecipeInv, Recipe, Total
<1>2. IsSequence(epoch) /\ Len(epoch) = Total - w
  BY ValidFacts, ValidFiles, EpochFacts DEF Total
<1>3. i \in 1 .. Total - w
  BY <1>2, SequenceDomain
<1> HIDE DEF w
<1>4. i \in Nat /\ p \in w + 1 .. Total /\ p - w = i /\ (p <= N(recipe) <=> p \in 1 .. N(recipe))
  BY <1>1, <1>3
<1>5. epoch[i] = Entry(recipe, p, JournalHead(recipe)[p - 1])
  BY <1>4, EpochLine DEF w
<1> HIDE DEF p
<1>6. /\ epoch[i].position = p
      /\ epoch[i].body.content_hash = IF p <= N(recipe) THEN ContentHash(recipe, p) ELSE NoContent
  BY <1>5, EntryFacts
<1>7. ContentHash(recipe, p) # NoContent <=> recipe.content[p]
  <2>1. content_hash(Salt(p), p) # NoContent
    BY DEF content_hash, NoContent
  <2> QED
    BY <2>1 DEF ContentHash
<1> QED
  BY <1>4, <1>6, <1>7 DEF p, w

-----------------------------------------------------------------------------
(* Content is missing only where it was erased.                            *)

(* Every targeted record is named among the targets, at its rank.          *)
LEMMA TargetNamed ==
  ASSUME RecipeInv, NEW modes, NEW p \in Targeted(recipe, modes)
  PROVE  \E k \in 1 .. Len(Targets(recipe, modes)) : Targets(recipe, modes)[k] = p
<1> DEFINE T == Targeted(recipe, modes)
           upto(q) == {x \in T : x <= q}
           k == Cardinality(upto(p))
           n == Cardinality(T)
<1>1. IsFiniteSet(T) /\ n \in Nat /\ Len(Targets(recipe, modes)) = n
  BY TargetsLength, FS_CardinalityType
<1>2. \A q \in T : q \in Nat
  BY DEF Targeted
<1>3. Targets(recipe, modes) = [i \in 1 .. n |-> CHOOSE q \in T : Cardinality(upto(q)) = i]
  BY Zenon DEF Targets
<1>4. p \in T
  OBVIOUS
<1> HIDE DEF T
<1>5. \A q : upto(q) \in SUBSET T /\ IsFiniteSet(upto(q)) /\ Cardinality(upto(q)) \in Nat
              /\ Cardinality(upto(q)) <= n
  BY <1>1, FS_Subset, FS_CardinalityType
<1>6. k # 0
  <2>1. p \in upto(p)
    BY <1>2, <1>4
  <2> QED
    BY <1>5, <2>1, FS_EmptySet
<1>7. k \in 1 .. n
  BY <1>1, <1>5, <1>6
<1>8. ASSUME NEW x \in T, NEW y \in T, x < y
      PROVE  Cardinality(upto(x)) # Cardinality(upto(y))
  <2>1. upto(x) \in SUBSET upto(y)
    BY <1>2, <1>8
  <2>2. y \in upto(y) /\ y \notin upto(x)
    BY <1>2, <1>8
  <2> HIDE DEF upto
  <2>3. upto(x) # upto(y)
    BY <2>2
  <2> QED
    BY <1>5, <2>1, <2>3, FS_Subset
<1>9. ASSUME NEW q \in T, Cardinality(upto(q)) = k PROVE q = p
  <2>1. q < p \/ p < q \/ q = p
    BY <1>2, <1>4
  <2> HIDE DEF upto
  <2> QED
    BY <1>4, <1>8, <1>9, <2>1
<1>10. (CHOOSE q \in T : Cardinality(upto(q)) = k) = p
  <2> HIDE DEF upto
  <2> QED
    BY <1>4, <1>9
<1>11. Targets(recipe, modes)[k] = p
  <2> HIDE DEF upto, k
  <2> QED
    BY <1>3, <1>7, <1>10
<1> QED
  BY <1>1, <1>7, <1>11

(* A record of the window that an erase call without closure targets is    *)
(* erased by a record of the window.                                       *)
LEMMA ErasureInRange ==
  ASSUME PipelineInv, Valid, NEW p \in InWindow, recipe.content[p],
         recipe.erase[p] \in {"erase", "keep"}
  PROVE  p \in erasure_targets
<1> DEFINE w == recipe.window
           r == recipe
<1>1. /\ w \in Nat /\ Total \in Nat /\ N(r) \in Nat /\ N(r) <= Total
      /\ p \in Nat /\ p \in 1 .. N(r) /\ p > w
  BY ValidFacts, JournalLengthType DEF RecipeInv, Recipe, Total, InWindow
<1>2. p \in Targeted(r, {"erase", "keep"})
  BY <1>1 DEF Targeted
<1>3. PICK k \in 1 .. Len(InRange(r)) : InRange(r)[k] = p
  BY <1>2, ValidFacts, TargetNamed DEF InRange
<1>4. Len(InRange(r)) \in Nat /\ N(r) + Len(InRange(r)) <= Total
  <2>1. Len(InRange(r)) \in Nat
    BY ValidFacts, TargetsLength DEF InRange
  <2> QED
    BY <1>1, <2>1 DEF Total, JournalLength
<1> DEFINE q == N(r) + k
           i == q - w
<1>5. /\ q \in w + 1 .. Total /\ p \in w + 1 .. Total
      /\ ~(q <= N(r)) /\ q <= N(r) + Len(InRange(r)) /\ q - N(r) = k
  BY <1>1, <1>3, <1>4
<1>6. i \in DOMAIN epoch /\ epoch[i] = Entry(r, q, JournalHead(r)[q - 1])
  BY <1>5, EpochLine
<1>7. epoch[i] = Erasure(r, q, JournalHead(r)[q - 1], p)
  <2> HIDE DEF q, i
  <2> QED
    BY <1>3, <1>5, <1>6 DEF Entry
<1>8. epoch[i].body.kind = "erasure" /\ epoch[i].body.target = p
  <2> HIDE DEF q, i
  <2> QED
    BY <1>7 DEF Erasure, RecordLine
<1> HIDE DEF q, i
<1>9. record_infos = DOMAIN epoch
  BY ValidFacts DEF RecordsOK, Faultless
<1>10. p - w \in DOMAIN epoch /\ epoch[p - w].position = p
  BY <1>5, EpochLine, EpochKey
<1>11. i \in Erasures
  BY <1>6, <1>8, <1>9 DEF Erasures
<1>12. p \in in_range_positions
  BY <1>9, <1>10 DEF in_range_positions
<1>13. p \in TargetsIn(epoch, Erasures)
  BY <1>8, <1>11, <1>12 DEF TargetsIn
<1> QED
  BY <1>13, ValidFacts

(* Content that is there was not erased.                                   *)
LEMMA PresentContent ==
  ASSUME PipelineInv, Valid, NEW p \in InWindow, recipe.content[p],
         Content(p) \in DOMAIN bundle.members
  PROVE  bundle.members[Content(p)] = Member(ContentBytes(p)) /\ recipe.erase[p] = "none"
<1> DEFINE i == p - recipe.window
<1>1. p \in 1 .. N(recipe) /\ p \in recipe.window + 1 .. Total
  BY ValidFacts, JournalLengthType DEF RecipeInv, Recipe, Total, InWindow
<1>2. HasContent(recipe, p) /\ bundle.members[Content(p)] = Member(ContentBytes(p))
  BY <1>1, ContentHeld
<1>3. recipe.erase[p] \in {"none", "keep"}
  BY <1>2 DEF HasContent
<1>4. i \in DOMAIN epoch /\ epoch[i].position = p /\ recipe.window + i = p
  BY <1>1, EpochLine, EpochKey
<1>5. epoch[i].body.content_hash # NoContent
  BY <1>1, <1>4, ContentLine
<1> HIDE DEF i
<1>6. ~Absent(epoch[i])
  BY <1>4 DEF Absent, Has
<1>7. p \notin erasure_targets
  BY <1>4, <1>5, <1>6, ValidFacts DEF ContentOK
<1>8. recipe.erase[p] # "keep"
  BY <1>7, ErasureInRange
<1> QED
  BY <1>2, <1>3, <1>8

(* What is missing of the window's content is as much as was withheld for  *)
(* an erasure, and what was withheld for one is missing.                   *)
LEMMA MissingContent ==
  ASSUME PipelineInv, Valid
  PROVE  {p \in InWindow : recipe.content[p] /\ Content(p) \notin DOMAIN bundle.members}
           = WithheldPositions
<1> DEFINE w == recipe.window
           missing == {p \in InWindow : recipe.content[p] /\ Content(p) \notin DOMAIN bundle.members}
           absent == {i \in WithContent : Absent(epoch[i]) /\ Erased(epoch[i])}
           place == [i \in absent |-> w + i]
<1>1. w \in Nat /\ Total \in Nat /\ N(recipe) \in Nat /\ N(recipe) <= Total
  BY ValidFacts, JournalLengthType DEF RecipeInv, Recipe, Total
<1>2. record_infos = DOMAIN epoch /\ IsSequence(epoch)
  BY ValidFacts DEF RecordsOK, Faultless, Typed
<1>3. \A i \in absent : i \in DOMAIN epoch /\ i \in Nat
  BY <1>2, SequenceDomain DEF WithContent
<1>4. IsFiniteSet(absent)
  <2>1. absent \in SUBSET (1 .. Len(epoch)) /\ Len(epoch) \in Nat
    BY <1>2, <1>3, SequenceDomain
  <2>2. IsFiniteSet(1 .. Len(epoch))
    BY <2>1, FS_Interval
  <2> HIDE DEF absent
  <2> QED
    BY <2>1, <2>2, FS_Subset
<1>5. ASSUME NEW i \in absent PROVE w + i \in missing
  <2>1. /\ epoch[i].position = w + i /\ w + i \in w + 1 .. Total
        /\ w + i \in 1 .. N(recipe) /\ recipe.content[w + i]
    BY <1>2, <1>3, ContentLine DEF WithContent
  <2>2. Content(w + i) \notin DOMAIN bundle.members
    BY <2>1 DEF Absent, Has
  <2>3. w + i \in InWindow
    BY <1>1, <2>1 DEF InWindow
  <2> QED
    BY <2>1, <2>2, <2>3
<1>6. ASSUME NEW p \in missing PROVE \E i \in absent : place[i] = p
  <2> DEFINE i == p - w
  <2>1. p \in w + 1 .. Total /\ p \in 1 .. N(recipe) /\ recipe.content[p]
    BY <1>1 DEF InWindow
  <2>2. i \in DOMAIN epoch /\ epoch[i].position = p /\ w + i = p
    BY <2>1, EpochLine, EpochKey
  <2>3. epoch[i].body.content_hash # NoContent
    BY <2>1, <2>2, ContentLine
  <2>4. Absent(epoch[i])
    BY <2>2 DEF Absent, Has
  <2> HIDE DEF i
  <2>5. Erased(epoch[i])
    BY <2>2, <2>3, <2>4, ValidFacts DEF ContentOK, Erased
  <2>6. i \in absent
    BY <1>2, <2>2, <2>3, <2>4, <2>5 DEF WithContent
  <2> QED
    BY <2>2, <2>6
<1>7. WithheldPositions \subseteq missing
  <2> SUFFICES ASSUME NEW p \in WithheldPositions PROVE p \in missing
    OBVIOUS
  <2>1. /\ p \in InWindow /\ p \in 1 .. N(recipe) /\ recipe.content[p]
        /\ recipe.erase[p] \in {"erase", "closure"}
    BY DEF WithheldPositions, InWindow
  <2>2. ~HasContent(recipe, p)
    BY <2>1 DEF HasContent
  <2> QED
    BY <2>1, <2>2, ContentHeld
<1>8. Cardinality(WithheldPositions) = Cardinality(absent)
  <2>1. manifest.withheld_erased = Withheld(recipe)
    BY ValidMembers DEF Manifest
  <2>2. manifest.withheld_erased = Cardinality(absent)
    BY ValidFacts DEF ContentOK, actual_withheld
  <2>3. WithheldPositions = {p \in 1 .. N(recipe) :
           recipe.content[p] /\ recipe.erase[p] \in {"erase", "closure"} /\ p > recipe.window}
    BY DEF WithheldPositions, InWindow
  <2>4. Withheld(recipe) = Cardinality(WithheldPositions)
    BY <2>3 DEF Withheld
  <2> QED
    BY <2>1, <2>2, <2>4
<1> HIDE DEF absent, missing
<1>9. place \in Surjection(absent, missing)
  BY <1>5, <1>6 DEF Surjection
<1> HIDE DEF place
<1>10. /\ IsFiniteSet(missing) /\ Cardinality(missing) <= Cardinality(absent)
       /\ Cardinality(absent) \in Nat /\ Cardinality(missing) \in Nat
  BY <1>4, <1>9, FS_Surjection, FS_CardinalityType
<1>11. Cardinality(WithheldPositions) <= Cardinality(missing)
  BY <1>7, <1>10, FS_Subset
<1>12. Cardinality(missing) = Cardinality(WithheldPositions)
  BY <1>8, <1>10, <1>11
<1>13. missing = WithheldPositions
  BY <1>7, <1>10, <1>12, FS_Subset
<1> QED
  BY <1>13 DEF missing

(* A VALID bundle is the journal's, but for hooks the verifier admits.     *)
LEMMA ValidIsJournal ==
  ASSUME PipelineInv
  PROVE  ValidIsUnaltered
<1> SUFFICES ASSUME Valid PROVE ValidIsUnaltered
  BY DEF ValidIsUnaltered
<1>1. {EpochFile, KeysFile} \subseteq MemberNames(recipe) \ {Extra}
  BY NamesDiffer DEF MemberNames
<1>2. /\ bundle.members[EpochFile] = Member(EpochLines(recipe, Journal(recipe)))
      /\ bundle.members[KeysFile] = Member(KeyLines(recipe))
  BY <1>1, ValidMembers, BytesOf
<1>3. bundle.members[ManifestFile].bytes.records = WindowLength(recipe)
  <2>1. manifest.records = Len(epoch)
    BY ValidFacts DEF CountOK
  <2>2. Len(epoch) = WindowLength(recipe)
    BY ValidFacts, ValidFiles, EpochFacts DEF WindowLength
  <2> QED
    BY <2>1, <2>2 DEF manifest, Bytes
<1>4. ASSUME NEW p \in InWindow, recipe.content[p]
      PROVE  IF Content(p) \in DOMAIN bundle.members
               THEN /\ bundle.members[Content(p)] = Member(ContentBytes(p))
                    /\ recipe.erase[p] = "none"
               ELSE p \in WithheldPositions
  <2>1. CASE Content(p) \in DOMAIN bundle.members
    BY <1>4, <2>1, PresentContent
  <2>2. CASE Content(p) \notin DOMAIN bundle.members
    BY <1>4, <2>2, MissingContent
  <2> QED
    BY <2>1, <2>2
<1> QED
  BY <1>2, <1>3, <1>4, EpochLeft, KeysLeft DEF ValidIsUnaltered

(* Whatever hooks a recipe queues, in any number, VALID is said only of a  *)
(* bundle that holds the journal's window, the keys and the count of the   *)
(* export without them, and whose content is missing only where it was     *)
(* erased (verify_bundle of verify.rs against build of builder.rs).        *)
THEOREM UnalteredAlways == Spec => []ValidIsUnaltered
BY PipelineInvariant, ValidIsJournal, PTL

-----------------------------------------------------------------------------
(* An honest export.                                                       *)

(* Honest but for what becomes of content: it may be dropped, or kept in   *)
(* spite of its erasure, as often as may be.                               *)
HonestButContent ==
  /\ recipe.hooks = {}
  /\ RotationsAscend
  /\ recipe.compromise = 0
  /\ recipe.zero => Total = 0
  /\ recipe.window = 0 \/ recipe.window < Total
  /\ \A p \in ClosureTargets : p > recipe.window

(* The bundle is that of such a recipe.                                    *)
Exported ==
  /\ RecipeInv /\ HonestButContent
  /\ CanBuild(recipe) /\ bundle = build(recipe)

LEMMA NoHooks ==
  ASSUME Exported
  PROVE  /\ recipe.hooks = {} /\ recipe.compromise = 0
         /\ \A p \in 1 .. N(recipe) :
              recipe.erase[p] \in {"none", "erase", "closure", "drop", "keep"}
<1>1. MaxRecords \in Nat /\ N(recipe) \in Nat /\ N(recipe) <= MaxRecords
  BY BuilderAssumption, JournalLengthType DEF Exported, RecipeInv
<1>2. \A p \in 1 .. N(recipe) : p \in 1 .. MaxRecords
  BY <1>1
<1> QED
  BY <1>2 DEF Exported, HonestButContent, RecipeInv, Recipe

LEMMA NoneHooked ==
  ASSUME Exported
  PROVE  /\ \A name : ~Hooked(recipe, name) /\ Lie(recipe, name) = 0
         /\ \A name, p : ~HookedAt(recipe, name, p)
BY NoHooks DEF Hooked, HookedAt, Lie

(* Every member is as it was built, and listed as it is.                   *)
LEMMA HonestMembers ==
  ASSUME Exported
  PROVE  /\ ContainerOK /\ ManifestOK /\ MembersOK
         /\ DOMAIN bundle.members = MemberNames(recipe) \cup {ManifestFile}
         /\ \A m \in MemberNames(recipe) :
              bundle.members[m] = Member(MemberBytes(recipe, Journal(recipe), m))
         /\ manifest = Manifest(recipe, Journal(recipe), Contents(recipe, Journal(recipe)))
<1> DEFINE contents == Contents(recipe, Journal(recipe))
           whole == Whole(recipe, Journal(recipe), contents)
           lists == Manifest(recipe, Journal(recipe), contents)
           names == MemberNames(recipe)
<1>1. DOMAIN contents = names /\ \A m \in names : contents[m] = Member(MemberBytes(recipe, Journal(recipe), m))
  BY DEF Contents
<1>2. /\ DOMAIN whole = names \cup {ManifestFile}
      /\ \A m \in names : m # ManifestFile => whole[m] = contents[m]
      /\ whole[ManifestFile] = Member(lists)
  BY <1>1 DEF Whole
<1>3. ~bundle.duplicate /\ bundle.members = [m \in DOMAIN whole |-> [whole[m] EXCEPT !.flipped = FALSE]]
  <2> DEFINE twice == \E m \in DOMAIN whole : <<"duplicate_member", m[1], m[2]>> \in recipe.hooks
             out(m) == /\ <<"missing_container_member", m[1], m[2]>> \in recipe.hooks
                       /\ ~Hooked(recipe, "duplicate_member")
             kept == {n \in DOMAIN whole : ~out(n)}
             flips(m) == <<"tamper_member", m[1], m[2]>> \in recipe.hooks
  <2>0. bundle = build(recipe)
    BY DEF Exported
  <2>1. bundle.members = [m \in kept |-> [whole[m] EXCEPT !.flipped = flips(m)]]
    BY <2>0 DEF build, BuildFrom, Written
  <2>2. bundle.duplicate = twice
    BY <2>0 DEF build, BuildFrom, Written
  <2>3. ~twice /\ kept = DOMAIN whole /\ \A m : flips(m) = FALSE
    <3>1. recipe.hooks = {}
      BY NoHooks
    <3>2. ~twice /\ \A m : flips(m) = FALSE /\ ~out(m)
      BY <3>1
    <3> HIDE DEF whole
    <3> QED
      BY <3>1, <3>2
  <2> HIDE DEF twice, out, kept, flips, whole
  <2> QED
    BY <2>1, <2>2, <2>3
<1>4. ASSUME NEW b
      PROVE  /\ [Member(b) EXCEPT !.flipped = FALSE] = Member(b)
             /\ Member(b).bytes = b /\ Member(b).flipped = FALSE
  <2> DEFINE f == Member(b)
  <2>1. f = [bytes |-> b, flipped |-> FALSE]
    BY DEF Member
  <2> HIDE DEF f
  <2>2. f.bytes = b /\ f.flipped = FALSE
    BY <2>1
  <2>3. [f EXCEPT !.flipped = FALSE] = f
    BY <2>1, <2>2
  <2> QED
    BY <2>2, <2>3 DEF f
<1>5. Extra \notin names /\ ManifestFile \notin names /\ CheckpointsFile \in names /\ KeysFile \in names
  BY NoneHooked, NamesDiffer DEF MemberNames
<1>6. lists.members = [m \in names |-> contents[m]]
  <2>1. Missing(recipe) = {}
    BY NoHooks DEF Missing
  <2>2. lists.members = Declared(recipe, contents)
    BY DEF Manifest
  <2> HIDE DEF lists, contents
  <2> QED
    BY <1>1, <1>5, <2>1, <2>2 DEF Declared
<1> HIDE DEF contents, whole, lists, names
<1>7. /\ DOMAIN bundle.members = names \cup {ManifestFile}
      /\ \A m \in names : bundle.members[m] = contents[m]
      /\ bundle.members[ManifestFile] = Member(lists)
  <2>1. ASSUME NEW m \in names PROVE bundle.members[m] = contents[m]
    <3>1. whole[m] = contents[m] /\ m \in DOMAIN whole
      BY <1>2, <1>5
    <3>2. bundle.members[m] = [contents[m] EXCEPT !.flipped = FALSE]
      BY <1>3, <3>1
    <3>3. contents[m] = Member(MemberBytes(recipe, Journal(recipe), m))
      BY <1>1
    <3> QED
      BY <1>4, <3>2, <3>3
  <2>2. bundle.members[ManifestFile] = Member(lists)
    <3>1. bundle.members[ManifestFile] = [Member(lists) EXCEPT !.flipped = FALSE]
      BY <1>2, <1>3
    <3> QED
      BY <1>4, <3>1
  <2> QED
    BY <1>2, <1>3, <2>1, <2>2
<1>8. manifest = lists /\ ManifestOK
  BY <1>4, <1>7 DEF manifest, Bytes, ManifestOK, Has, Flipped
<1>9. ContainerOK
  BY <1>3, <1>5, <1>7 DEF ContainerOK, Has
<1>10. MembersOK
  <2>1. AtFault = {}
    BY <1>6, <1>7, <1>8 DEF AtFault, Sound, Listed
  <2> QED
    BY <1>5, <1>6, <1>7, <1>8, <2>1 DEF MembersOK
<1> QED
  BY <1>1, <1>7, <1>8, <1>9, <1>10 DEF names, contents, lists

LEMMA HonestFiles ==
  ASSUME Exported
  PROVE  /\ KeyFile = KeyLines(recipe) /\ ~Flipped(KeysFile)
         /\ epoch = EpochLines(recipe, Journal(recipe))
         /\ closure = ClosureLines(recipe, Journal(recipe))
         /\ CheckpointFile = CheckpointLines(recipe, Journal(recipe))
<1>1. {KeysFile, EpochFile, ClosureFile, CheckpointsFile} \subseteq MemberNames(recipe)
  BY DEF MemberNames
<1>2. \A b : Member(b).bytes = b /\ Member(b).flipped = FALSE
  BY DEF Member
<1>3. \A m \in {KeysFile, EpochFile, ClosureFile, CheckpointsFile} :
        Has(m) /\ Bytes(m) = MemberBytes(recipe, Journal(recipe), m) /\ ~Flipped(m)
  BY <1>1, <1>2, HonestMembers DEF Has, Bytes, Flipped
<1> QED
  BY <1>3, BytesOf DEF KeyFile, epoch, closure, CheckpointFile

(* The sizes of an honest export.                                          *)
LEMMA HonestSizes ==
  ASSUME Exported
  PROVE  /\ Total \in Nat /\ N(recipe) \in Nat /\ recipe.window \in Nat
         /\ Total = N(recipe) + Len(InRange(recipe)) /\ Len(InRange(recipe)) \in Nat
         /\ Total < MaxPosition /\ MaxPosition \in Nat
         /\ End(recipe) = Total
         /\ recipe.window <= Total /\ (Total # 0 => recipe.window < Total)
<1>1. Total \in Nat /\ N(recipe) \in Nat /\ recipe.window \in Nat
  BY JournalLengthType DEF Exported, RecipeInv, Recipe, Total
<1>2. Total = N(recipe) + Len(InRange(recipe)) /\ Len(InRange(recipe)) \in Nat
  <2>1. Len(InRange(recipe)) \in Nat
    BY TargetsLength DEF InRange, Exported
  <2>2. Total = N(recipe) + Len(InRange(recipe)) + 0
    BY NoneHooked DEF Total, JournalLength
  <2> QED
    BY <1>1, <2>1, <2>2
<1>3. Len(InRange(recipe)) <= N(recipe)
  <2> DEFINE modes == {"erase", "keep"}
  <2>1. Len(InRange(recipe)) = Cardinality(Targeted(recipe, modes))
    BY TargetsLength DEF InRange, Exported
  <2>2. Targeted(recipe, modes) \in SUBSET (1 .. N(recipe))
    BY DEF Targeted
  <2>3. IsFiniteSet(1 .. N(recipe)) /\ Cardinality(1 .. N(recipe)) = N(recipe)
    BY <1>1, FS_Interval
  <2>4. Cardinality(Targeted(recipe, modes)) <= Cardinality(1 .. N(recipe))
    BY <2>2, <2>3, FS_Subset
  <2> QED
    BY <2>1, <2>3, <2>4
<1>4. Total < MaxPosition /\ MaxPosition \in Nat
  <2>1. N(recipe) <= MaxRecords /\ MaxRecords \in Nat /\ MaxPosition \in Nat /\ 2 * MaxRecords < MaxPosition
    BY BuilderAssumption, PipelineAssumption DEF Exported, RecipeInv
  <2> QED
    BY <1>1, <1>2, <1>3, <2>1
<1>5. End(recipe) = Total
  BY DEF End, Exported, HonestButContent, Total
<1>6. recipe.window <= Total
  BY DEF Exported, CanBuild, Total
<1>7. Total # 0 => recipe.window < Total
  BY <1>1 DEF Exported, HonestButContent
<1> QED
  BY <1>1, <1>2, <1>4, <1>5, <1>6, <1>7

-----------------------------------------------------------------------------
(* The lines of an honest export.                                          *)

(* The key lines, chained.                                                 *)
LEMMA KeyHeads ==
  ASSUME Exported
  PROVE  \E head :
           /\ Heads("keys", recipe, KeyRecords(recipe), head)
           /\ \A i \in 1 .. KeyRecords(recipe) : KeyFile[i] = KeyRecord(recipe, i, head[i - 1])
<1> DEFINE n == KeyRecords(recipe)
           Solves(f) == f = [i \in 0 .. n |->
                               IF i = 0 THEN GENESIS_PREV
                               ELSE HeadAfter(f[i - 1], AsIs(KeyRecord(recipe, i, f[i - 1])))]
           head == CHOOSE f : Solves(f)
           chain == [i \in 1 .. n |-> [line |-> KeyRecord(recipe, i, head[i - 1]), after |-> head[i]]]
<1>1. KeyFile = LinesOf(chain)
  <2>1. KeyLines(recipe) = LinesOf(chain)
    BY Zenon DEF KeyLines, Chained
  <2> HIDE DEF chain
  <2> QED
    BY <2>1, HonestFiles
<1>2. n \in Nat
  BY DEF Exported, RecipeInv, Recipe, KeyRecords
<1>3. ASSUME NEW f PROVE Heads("keys", recipe, n, f) <=> Solves(f)
  <2>1. [i \in 0 .. n |-> IF i = 0 THEN GENESIS_PREV ELSE Extended("keys", recipe, i, f[i - 1])] =
        [i \in 0 .. n |-> IF i = 0 THEN GENESIS_PREV
                          ELSE HeadAfter(f[i - 1], AsIs(KeyRecord(recipe, i, f[i - 1])))]
    <3>1. \A i, h : Extended("keys", recipe, i, h) = HeadAfter(h, AsIs(KeyRecord(recipe, i, h)))
      BY DEF Extended
    <3> HIDE DEF n
    <3> QED
      BY <3>1, Zenon
  <2> QED
    BY <2>1, Zenon DEF Heads
<1>4. \E f : Heads("keys", recipe, n, f)
  BY <1>2, HeadsExist
<1> HIDE DEF Solves, n
<1>5. Heads("keys", recipe, n, head)
  BY <1>3, <1>4, Zenon
<1> HIDE DEF head
<1>6. IsSequence(chain) /\ Len(chain) = n
  BY <1>2, ComprehensionIsSequence
<1>7. \A i \in 1 .. n : chain[i].line = KeyRecord(recipe, i, head[i - 1])
  OBVIOUS
<1> HIDE DEF chain
<1>8. \A i \in 1 .. n : KeyFile[i] = KeyRecord(recipe, i, head[i - 1])
  BY <1>1, <1>6, <1>7, LinesSequence
<1> QED
  BY <1>5, <1>8 DEF n

LEMMA RotationFields ==
  ASSUME NEW r, NEW i, NEW prev
  PROVE  /\ Rotation(r, i, prev).kind = "rotation" /\ Rotation(r, i, prev).envelope = "keyrecord"
         /\ Rotation(r, i, prev).position = r.rotations[i]
         /\ Rotation(r, i, prev).key_prev = prev /\ Rotation(r, i, prev).key = RotationKey(i)
         /\ ~HookedAt(r, "corrupt_rotation_signer", r.rotations[i]) =>
              Rotation(r, i, prev).signer = IF i = 1 THEN GenesisSeed ELSE RotationKey(i - 1)
<1> DEFINE signer == IF HookedAt(r, "corrupt_rotation_signer", r.rotations[i])
                       THEN ImpostorSeeds.rotation
                     ELSE IF i = 1 THEN GenesisSeed ELSE RotationKey(i - 1)
<1>1. Rotation(r, i, prev) =
        [kind |-> "rotation", position |-> r.rotations[i], key_prev |-> prev,
         key |-> RotationKey(i), signer |-> signer, envelope |-> "keyrecord"]
  BY Zenon DEF Rotation
<1>2. ~HookedAt(r, "corrupt_rotation_signer", r.rotations[i]) =>
        signer = IF i = 1 THEN GenesisSeed ELSE RotationKey(i - 1)
  OBVIOUS
<1> HIDE DEF signer
<1> QED
  BY <1>1, <1>2

(* Every key line is one that the reader takes.                            *)
LEMMA HonestKeys ==
  ASSUME Exported
  PROVE  /\ IsSequence(KeyFile) /\ Len(KeyFile) \in Nat \ {0}
         /\ KeyFile[1].kind = "genesis"
         /\ \A i \in 1 .. Len(KeyFile) :
              KeyLineOK(i) /\ (i # 1 => KeyFile[i].kind = "rotation")
<1> DEFINE turns == Len(recipe.rotations)
           n == KeyRecords(recipe)
<1>1. /\ turns \in Nat /\ n = turns + 1 /\ recipe.hooks = {}
      /\ \A i \in 1 .. turns : recipe.rotations[i] \in Nat
  BY NoHooks DEF Exported, RecipeInv, Recipe, KeyRecords
<1>2. IsSequence(KeyFile) /\ Len(KeyFile) = n
  BY KeyFacts, HonestFiles DEF Exported
<1>3. PICK head : /\ Heads("keys", recipe, n, head)
                  /\ \A i \in 1 .. n : KeyFile[i] = KeyRecord(recipe, i, head[i - 1])
  BY KeyHeads
<1>0. n \in Nat
  BY <1>1
<1> HIDE DEF n
<1>4. /\ head[0] = GENESIS_PREV
      /\ \A i \in 1 .. n : head[i] = Extended("keys", recipe, i, head[i - 1])
  BY <1>3, <1>0, HeadsSolved
<1>5. \A i \in 1 .. n : head[i] = HeadAfter(head[i - 1], KeyFile[i])
  BY <1>3, <1>4 DEF Extended, AsIs
<1>6. KeyFile[1] = Genesis(recipe, GENESIS_PREV)
  <2>1. 1 \in 1 .. n
    BY <1>1
  <2> QED
    BY <1>3, <1>4, <2>1 DEF KeyRecord
<1>7. ASSUME NEW i \in 1 .. n, i # 1
      PROVE  /\ KeyFile[i] = Rotation(recipe, i - 1, head[i - 1])
             /\ i - 1 \in 1 .. turns /\ i - 1 \in 1 .. n
  <2>1. i <= turns + 1 /\ i - 1 \in 1 .. turns /\ i - 1 \in 1 .. n
    <3> HIDE DEF turns
    <3> QED
      BY <1>1, <1>7
  <2> QED
    BY <1>3, <1>7, <2>1 DEF KeyRecord
<1>8. \A i \in 1 .. n : KeyFile[i].key_prev = head[i - 1]
  <2>1. KeyFile[1].key_prev = head[1 - 1]
    BY <1>4, <1>6 DEF Genesis
  <2>2. ASSUME NEW i \in 1 .. n, i # 1 PROVE KeyFile[i].key_prev = head[i - 1]
    BY <1>7, <2>2, RotationFields
  <2> QED
    BY <2>1, <2>2
<1>9. \A i \in 1 .. n : KeyFile[i].key = IF i = 1 THEN GenesisSeed ELSE RotationKey(i - 1)
  <2>1. KeyFile[1].key = GenesisSeed
    BY <1>6 DEF Genesis
  <2>2. ASSUME NEW i \in 1 .. n, i # 1 PROVE KeyFile[i].key = RotationKey(i - 1)
    BY <1>7, <2>2, RotationFields
  <2> QED
    BY <2>1, <2>2
<1>10. \A i \in 1 .. n : Parses(KeysFile, i)
  BY HonestFiles DEF Parses
<1>11. KeyLineOK(1)
  <2>1. Parses(KeysFile, 1)
    BY <1>1, <1>10
  <2> QED
    BY <1>6, <2>1 DEF KeyLineOK, Genesis
<1>12. ASSUME NEW i \in 1 .. n, i # 1
       PROVE  KeyLineOK(i) /\ KeyFile[i].kind = "rotation"
  <2>1. /\ i - 1 \in 1 .. n /\ i - 1 \in 1 .. turns
        /\ KeyFile[i].kind = "rotation" /\ KeyFile[i].envelope = "keyrecord"
        /\ KeyFile[i].position = recipe.rotations[i - 1]
        /\ KeyFile[i].signer = IF i - 1 = 1 THEN GenesisSeed ELSE RotationKey(i - 1 - 1)
    <3>1. ~HookedAt(recipe, "corrupt_rotation_signer", recipe.rotations[i - 1])
      BY NoneHooked
    <3> QED
      BY <1>7, <1>12, <3>1, RotationFields
  <2>2. KeyFile[i].signer = KeyFile[i - 1].key
    BY <1>9, <2>1
  <2>3. KeyFile[i].key_prev = HeadAfter(KeyFile[i - 1].key_prev, KeyFile[i - 1])
    BY <1>5, <1>8, <2>1
  <2>4. KeyFile[i].position > KeyFile[i - 1].position /\ KeyFile[i - 1].kind # "compromise"
    <3>1. CASE i - 1 = 1
      <4>1. KeyFile[i - 1].position = 0 /\ KeyFile[i - 1].kind = "genesis"
        BY <1>6, <3>1 DEF Genesis
      <4>2. recipe.rotations[i - 1] > 0
        BY <2>1 DEF Exported, HonestButContent, RotationsAscend
      <4> QED
        BY <2>1, <4>1, <4>2
    <3>2. CASE i - 1 # 1
      <4>1. /\ KeyFile[i - 1].kind = "rotation" /\ i - 1 - 1 \in 1 .. turns
            /\ KeyFile[i - 1].position = recipe.rotations[i - 1 - 1]
        BY <1>7, <2>1, <3>2, RotationFields
      <4>2. i - 1 - 1 < i - 1
        BY <1>1
      <4>3. recipe.rotations[i - 1 - 1] < recipe.rotations[i - 1]
        BY <2>1, <4>1, <4>2 DEF Exported, HonestButContent, RotationsAscend
      <4> QED
        BY <1>1, <2>1, <4>1, <4>3
    <3> QED
      BY <3>1, <3>2
  <2> QED
    BY <1>10, <1>12, <2>1, <2>2, <2>3, <2>4 DEF KeyLineOK
<1>13. n \in Nat \ {0} /\ KeyFile[1].kind = "genesis"
  BY <1>1, <1>6 DEF Genesis
<1> QED
  BY <1>2, <1>11, <1>12, <1>13

(* The heads of the journal as the checkpoints state them.                 *)
LEMMA HonestHeads ==
  ASSUME Exported, NEW p \in 0 .. Total
  PROVE  HeadAt(Journal(recipe), p) = JournalHead(recipe)[p]
<1>1. Total \in Nat /\ Total = JournalLength(recipe)
  BY HonestSizes DEF Total
<1>2. CASE p = 0
  BY <1>1, <1>2, JournalHeads DEF HeadAt
<1>3. CASE p # 0
  <2>1. p \in 1 .. JournalLength(recipe)
    BY <1>1, <1>3
  <2>2. Journal(recipe)[p].after = JournalHead(recipe)[p]
    BY <1>1, <2>1, JournalLines
  <2> QED
    BY <1>3, <2>2 DEF HeadAt
<1> QED
  BY <1>2, <1>3

(* The positions of the checkpoints.                                       *)
CheckpointPosition(i) == IF i = 1 THEN recipe.window ELSE Total

LEMMA HonestCheckpoints ==
  ASSUME Exported
  PROVE  /\ IsSequence(CheckpointFile)
         /\ Len(CheckpointFile) = IF Total = 0 THEN 1 ELSE 2
         /\ \A i \in 1 .. Len(CheckpointFile) :
              LET p == CheckpointPosition(i)
              IN  /\ CheckpointFile[i].position = p
                  /\ CheckpointFile[i].head = HeadAt(Journal(recipe), p)
                  /\ CheckpointFile[i].count = p
                  /\ CheckpointFile[i].at_form = "rfc3339"
                  /\ CheckpointFile[i].envelope = "checkpoint"
                  /\ CheckpointFile[i].keyid = signer_for_position(recipe, p)
                  /\ CheckpointFile[i].signer = signer_for_position(recipe, p)
                  /\ CheckpointFile[i].cp_prev =
                       IF i = 1 THEN GENESIS_PREV
                       ELSE HeadAfter(CheckpointFile[i - 1].cp_prev, CheckpointFile[i - 1])
<1> DEFINE journal == Journal(recipe)
           Line(i, prev) ==
             IF i = 1 THEN CheckpointAt(recipe, journal, recipe.window, StartTime(recipe), prev)
                      ELSE CheckpointAt(recipe, journal, End(recipe), EndTime(recipe), prev)
           n == IF End(recipe) = 0 THEN 1 ELSE 2
           Solves(f) == f = [i \in 0 .. n |->
                               IF i = 0 THEN GENESIS_PREV
                               ELSE HeadAfter(f[i - 1], AsIs(Line(i, f[i - 1])))]
           head == CHOOSE f : Solves(f)
           chain == [i \in 1 .. n |-> [line |-> Line(i, head[i - 1]), after |-> head[i]]]
<1>1. CheckpointFile = LinesOf(chain)
  <2>1. CheckpointLines(recipe, journal) = LinesOf(chain)
    BY Zenon DEF CheckpointLines, Chained
  <2> HIDE DEF chain
  <2> QED
    BY <2>1, HonestFiles
<1>2. n \in Nat /\ n \in {1, 2} /\ n = IF Total = 0 THEN 1 ELSE 2
  BY HonestSizes
<1>3. \A i, h : Extended("checkpoints", recipe, i, h) = HeadAfter(h, AsIs(Line(i, h)))
  BY DEF Extended, CheckpointRecord
<1> HIDE DEF n, Line
<1>4. ASSUME NEW f PROVE Heads("checkpoints", recipe, n, f) <=> Solves(f)
  <2>1. [i \in 0 .. n |-> IF i = 0 THEN GENESIS_PREV
                          ELSE Extended("checkpoints", recipe, i, f[i - 1])] =
        [i \in 0 .. n |-> IF i = 0 THEN GENESIS_PREV
                          ELSE HeadAfter(f[i - 1], AsIs(Line(i, f[i - 1])))]
    BY <1>3, Zenon
  <2> QED
    BY <2>1, Zenon DEF Heads
<1>5. \E f : Heads("checkpoints", recipe, n, f)
  BY <1>2, HeadsExist
<1> HIDE DEF Solves
<1>6. Heads("checkpoints", recipe, n, head)
  BY <1>4, <1>5, Zenon
<1> HIDE DEF head
<1>7. /\ head[0] = GENESIS_PREV
      /\ \A i \in 1 .. n : head[i] = Extended("checkpoints", recipe, i, head[i - 1])
  BY <1>2, <1>6, HeadsSolved
<1>8. IsSequence(chain) /\ Len(chain) = n
  BY <1>2, ComprehensionIsSequence
<1>9. \A i \in 1 .. n : chain[i].line = Line(i, head[i - 1])
  OBVIOUS
<1> HIDE DEF chain
<1>10. /\ IsSequence(CheckpointFile) /\ Len(CheckpointFile) = n
       /\ \A i \in 1 .. n : CheckpointFile[i] = Line(i, head[i - 1])
  BY <1>1, <1>8, <1>9, LinesSequence
<1>11. \A i \in 1 .. n : head[i] = HeadAfter(head[i - 1], CheckpointFile[i])
  BY <1>3, <1>7, <1>10 DEF AsIs
<1>12. ASSUME NEW i \in 1 .. n
       PROVE  LET p == CheckpointPosition(i)
              IN  /\ CheckpointFile[i].position = p
                  /\ CheckpointFile[i].head = HeadAt(Journal(recipe), p)
                  /\ CheckpointFile[i].count = p
                  /\ CheckpointFile[i].at_form = "rfc3339"
                  /\ CheckpointFile[i].envelope = "checkpoint"
                  /\ CheckpointFile[i].keyid = signer_for_position(recipe, p)
                  /\ CheckpointFile[i].signer = signer_for_position(recipe, p)
                  /\ CheckpointFile[i].cp_prev = head[i - 1]
  <2> DEFINE at == IF i = 1 THEN StartTime(recipe) ELSE EndTime(recipe)
  <2>1. End(recipe) = Total
    BY HonestSizes
  <2>2. CheckpointFile[i] = CheckpointAt(recipe, journal, CheckpointPosition(i), at, head[i - 1])
    BY <1>10, <2>1 DEF Line, CheckpointPosition
  <2> HIDE DEF at, journal
  <2> QED
    BY <2>2 DEF CheckpointAt, journal
<1>13. ASSUME NEW i \in 1 .. n
       PROVE  head[i - 1] = IF i = 1 THEN GENESIS_PREV
                            ELSE HeadAfter(CheckpointFile[i - 1].cp_prev, CheckpointFile[i - 1])
  <2>1. CASE i = 1
    BY <1>7, <2>1
  <2>2. CASE i # 1
    <3>1. i - 1 \in 1 .. n
      BY <1>2, <2>2
    <3> QED
      BY <1>11, <1>12, <2>2, <3>1
  <2> QED
    BY <2>1, <2>2
<1> HIDE DEF journal
<1> QED
  BY <1>2, <1>10, <1>12, <1>13

-----------------------------------------------------------------------------
(* The records of an honest export, each at its place.                     *)

(* A line whose envelope holds and whose key is that of its position.      *)
WellSigned(line, p) ==
  /\ line.position = p
  /\ line.body.form = "single" /\ line.body.payload_type = "record" /\ line.body.intact = TRUE
  /\ line.body.keyid = signer_for_position(recipe, p)
  /\ line.body.signer = signer_for_position(recipe, p)

LEMMA ErasureForm ==
  ASSUME NEW p, NEW prev, NEW target
  PROVE  LET line == Erasure(recipe, p, prev, target)
         IN  /\ WellSigned(line, p) /\ line.prev_head = prev
             /\ line.body.kind = "erasure" /\ line.body.target = target
             /\ line.body.content_hash = NoContent
BY DEF Erasure, RecordLine, WellSigned

LEMMA HonestRecord ==
  ASSUME Exported, NEW p, NEW prev
  PROVE  LET line == Record(recipe, p, prev)
         IN  /\ WellSigned(line, p) /\ line.prev_head = prev
             /\ line.body.kind = "note"
             /\ line.body.content_hash = ContentHash(recipe, p)
<1> DEFINE line == Record(recipe, p, prev)
           signer == signer_for_position(recipe, p)
           prior == IF HookedAt(recipe, "forge_prev_head", p) THEN <<"bogus", prev>> ELSE prev
           type == IF HookedAt(recipe, "wrong_payload_type_record", p) THEN "checkpoint" ELSE "record"
           form == IF HookedAt(recipe, "multi_sig_record", p) THEN "multi" ELSE "single"
           intact == ~HookedAt(recipe, "tamper_record", p)
           hash == ContentHash(recipe, p)
           key == RecordSigner(recipe, p)
<1>1. line = [position |-> p, prev_head |-> prior,
              body |-> [kind |-> "note", target |-> 0, content_hash |-> hash,
                        payload_type |-> type, keyid |-> key, signer |-> key,
                        form |-> form, intact |-> intact]]
  BY RecordForm
<1>2. /\ prior = prev /\ type = "record" /\ form = "single" /\ intact = TRUE
      /\ key = signer
  BY NoneHooked DEF RecordSigner
<1> HIDE DEF line, signer, prior, type, form, intact, key, hash
<1>3. /\ line.position = p /\ line.prev_head = prior
      /\ line.body = [kind |-> "note", target |-> 0, content_hash |-> hash,
                      payload_type |-> type, keyid |-> key, signer |-> key,
                      form |-> form, intact |-> intact]
  BY <1>1
<1>4. /\ line.body.form = form /\ line.body.payload_type = type /\ line.body.intact = intact
      /\ line.body.keyid = key /\ line.body.signer = key
      /\ line.body.kind = "note" /\ line.body.content_hash = hash
  BY <1>3
<1> QED
  BY <1>2, <1>3, <1>4 DEF WellSigned, line, signer, hash

(* A line that was signed and not touched is what is hashed.               *)
LEMMA Untampered ==
  ASSUME NEW line, NEW body, line.body = body, body.intact = TRUE,
         body = [x \in DOMAIN body |-> body[x]],
         line = [position |-> line.position, prev_head |-> line.prev_head, body |-> body]
  PROVE  BeforeTamper(line) = line
<1> DEFINE before == BeforeTamper(line)
<1>1. before = [line EXCEPT !.body.intact = TRUE]
  BY DEF BeforeTamper
<1>2. [body EXCEPT !.intact = TRUE] = body
  OBVIOUS
<1>3. before = [line EXCEPT !.body = [body EXCEPT !.intact = TRUE]]
  BY <1>1
<1> HIDE DEF before
<1>4. before = [line EXCEPT !.body = body]
  BY <1>2, <1>3
<1>5. before = line
  BY <1>4
<1> QED
  BY <1>5 DEF before

LEMMA HonestEntry ==
  ASSUME Exported, NEW p \in 1 .. Total, NEW prev
  PROVE  LET line == Entry(recipe, p, prev)
         IN  /\ WellSigned(line, p) /\ line.prev_head = prev
             /\ BeforeTamper(line) = line
             /\ p <= N(recipe) =>
                  line.body.kind = "note" /\ line.body.content_hash = ContentHash(recipe, p)
             /\ ~(p <= N(recipe)) =>
                  /\ line.body.kind = "erasure" /\ line.body.content_hash = NoContent
                  /\ p - N(recipe) \in 1 .. Len(InRange(recipe))
                  /\ line.body.target = InRange(recipe)[p - N(recipe)]
<1> DEFINE line == Entry(recipe, p, prev)
           k == p - N(recipe)
<1>1. /\ N(recipe) \in Nat /\ Len(InRange(recipe)) \in Nat
      /\ Total = N(recipe) + Len(InRange(recipe))
  BY HonestSizes
<1>2. CASE p <= N(recipe)
  <2>1. line = Record(recipe, p, prev)
    BY <1>2 DEF Entry
  <2>2. WellSigned(line, p) /\ line.prev_head = prev /\ line.body.kind = "note"
        /\ line.body.content_hash = ContentHash(recipe, p)
    BY <2>1, HonestRecord
  <2>3. BeforeTamper(line) = line
    <3> DEFINE prior == IF HookedAt(recipe, "forge_prev_head", p) THEN <<"bogus", prev>> ELSE prev
               type == IF HookedAt(recipe, "wrong_payload_type_record", p)
                         THEN "checkpoint" ELSE "record"
               form == IF HookedAt(recipe, "multi_sig_record", p) THEN "multi" ELSE "single"
               intact == ~HookedAt(recipe, "tamper_record", p)
               hash == ContentHash(recipe, p)
               key == RecordSigner(recipe, p)
               body == [kind |-> "note", target |-> 0, content_hash |-> hash,
                        payload_type |-> type, keyid |-> key, signer |-> key,
                        form |-> form, intact |-> intact]
    <3>1. line = [position |-> p, prev_head |-> prior, body |-> body]
      BY <2>1, RecordForm
    <3>2. body = [x \in DOMAIN body |-> body[x]]
      <4> HIDE DEF type, form, intact, hash, key
      <4> QED
        OBVIOUS
    <3> HIDE DEF body, prior, line
    <3>3. line.body = body /\ line.position = p /\ line.prev_head = prior
      BY <3>1
    <3>4. body.intact = TRUE
      BY <2>2, <3>3 DEF WellSigned, line
    <3> QED
      BY <3>1, <3>2, <3>3, <3>4, Untampered
  <2> HIDE DEF line
  <2> QED
    BY <1>2, <2>2, <2>3 DEF line
<1>3. CASE ~(p <= N(recipe))
  <2>1. k \in 1 .. Len(InRange(recipe)) /\ p <= N(recipe) + Len(InRange(recipe))
    BY <1>1, <1>3
  <2>2. line = Erasure(recipe, p, prev, InRange(recipe)[k])
    <3> HIDE DEF k
    <3>1. k = p - N(recipe)
      BY DEF k
    <3> QED
      BY <1>3, <2>1, <3>1 DEF Entry
  <2> DEFINE target == InRange(recipe)[k]
             signer == signer_for_position(recipe, p)
             body == [kind |-> "erasure", target |-> target, content_hash |-> NoContent,
                      payload_type |-> "record", keyid |-> signer, signer |-> signer,
                      form |-> "single", intact |-> TRUE]
  <2>3. WellSigned(line, p) /\ line.prev_head = prev /\ line.body.kind = "erasure"
        /\ line.body.target = target /\ line.body.content_hash = NoContent
    BY <2>2, ErasureForm
  <2> HIDE DEF target, line
  <2>4. BeforeTamper(line) = line
    <3>1. line = [position |-> p, prev_head |-> prev, body |-> body]
      BY <2>2 DEF Erasure, RecordLine, target, line
    <3>2. body = [x \in DOMAIN body |-> body[x]] /\ body.intact = TRUE
      <4> HIDE DEF signer
      <4> QED
        OBVIOUS
    <3> HIDE DEF body
    <3>3. line.body = body /\ line.position = p /\ line.prev_head = prev
      BY <3>1
    <3> QED
      BY <3>1, <3>2, <3>3, Untampered
  <2> QED
    BY <1>3, <2>1, <2>3, <2>4 DEF target, line
<1> QED
  BY <1>2, <1>3

LEMMA HonestEpoch ==
  ASSUME Exported
  PROVE  /\ IsSequence(epoch) /\ Len(epoch) = Total - recipe.window /\ Len(epoch) \in Nat
         /\ DOMAIN epoch = 1 .. Len(epoch)
         /\ \A i \in DOMAIN epoch :
              LET p == recipe.window + i
              IN  /\ p \in 1 .. Total /\ i \in Nat
                  /\ epoch[i] = Entry(recipe, p, JournalHead(recipe)[p - 1])
                  /\ JournalHead(recipe)[p] = HeadAfter(JournalHead(recipe)[p - 1], epoch[i])
<1> DEFINE w == recipe.window
<1>1. w \in Nat /\ Total \in Nat /\ w <= Total /\ Total = JournalLength(recipe)
  BY HonestSizes DEF Total
<1>2. /\ IsSequence(epoch) /\ Len(epoch) = Total - w
      /\ \A i \in 1 .. Len(epoch) :
           epoch[i] = Entry(recipe, w + i, JournalHead(recipe)[w + i - 1])
  BY HonestFiles, EpochFacts DEF Total, Exported
<1>3. DOMAIN epoch = 1 .. Len(epoch) /\ Len(epoch) \in Nat
  BY <1>2, SequenceDomain
<1> HIDE DEF w
<1>4. ASSUME NEW i \in DOMAIN epoch PROVE w + i \in 1 .. Total /\ i \in Nat
  <2>1. \A a, b \in Nat : \A j \in 1 .. b - a : a + j \in 1 .. b /\ j \in Nat
    OBVIOUS
  <2> QED
    BY <1>1, <1>2, <1>3, <2>1
<1>5. ASSUME NEW i \in DOMAIN epoch
      PROVE  epoch[i] = Entry(recipe, w + i, JournalHead(recipe)[(w + i) - 1])
  <2>1. w + i - 1 = (w + i) - 1
    BY <1>1, <1>4
  <2> QED
    BY <1>2, <1>3, <2>1
<1>6. ASSUME NEW p \in 1 .. Total
      PROVE  JournalHead(recipe)[p] =
               HeadAfter(JournalHead(recipe)[p - 1], Entry(recipe, p, JournalHead(recipe)[p - 1]))
  <2> DEFINE prev == JournalHead(recipe)[p - 1]
  <2>1. JournalHead(recipe)[p] = HeadAfter(prev, BeforeTamper(Entry(recipe, p, prev)))
    BY <1>1, <1>6, JournalHeads
  <2>2. BeforeTamper(Entry(recipe, p, prev)) = Entry(recipe, p, prev)
    BY <1>6, HonestEntry
  <2> QED
    BY <2>1, <2>2
<1>7. ASSUME NEW i \in DOMAIN epoch
      PROVE  LET p == w + i
             IN  /\ p \in 1 .. Total /\ i \in Nat
                 /\ epoch[i] = Entry(recipe, p, JournalHead(recipe)[p - 1])
                 /\ JournalHead(recipe)[p] = HeadAfter(JournalHead(recipe)[p - 1], epoch[i])
  <2> DEFINE p == w + i
  <2>1. p \in 1 .. Total /\ i \in Nat
    BY <1>4
  <2>2. epoch[i] = Entry(recipe, p, JournalHead(recipe)[p - 1])
    BY <1>5, Zenon
  <2> HIDE DEF p
  <2>3. JournalHead(recipe)[p] = HeadAfter(JournalHead(recipe)[p - 1], epoch[i])
    BY <1>6, <2>1, <2>2
  <2> QED
    BY <2>1, <2>2, <2>3 DEF p
<1> QED
  BY <1>2, <1>3, <1>7 DEF w

-----------------------------------------------------------------------------
(* The closure lines of an honest export.                                  *)

(* The targets of the erase calls are the records erased.                  *)
LEMMA TargetsAre ==
  ASSUME RecipeInv, NEW modes
  PROVE  {Targets(recipe, modes)[k] : k \in 1 .. Len(Targets(recipe, modes))} = Targeted(recipe, modes)
<1> DEFINE T == Targeted(recipe, modes)
           upto(q) == {x \in T : x <= q}
           n == Cardinality(T)
           targets == Targets(recipe, modes)
<1>1. IsFiniteSet(T) /\ n \in Nat /\ Len(targets) = n
  BY TargetsLength, FS_CardinalityType
<1>2. targets = [i \in 1 .. n |-> CHOOSE q \in T : Cardinality(upto(q)) = i]
  BY Zenon DEF Targets
<1>3. \A q \in T : q \in Nat
  BY DEF Targeted
<1>4. \A p \in T : \E k \in 1 .. n : targets[k] = p
  BY <1>1, TargetNamed
<1> DEFINE K == {k \in 1 .. n : targets[k] \in T}
<1>5. IsFiniteSet(1 .. n) /\ Cardinality(1 .. n) = n
  BY <1>1, FS_Interval
<1> HIDE DEF T, targets
<1>6. K \in SUBSET (1 .. n) /\ IsFiniteSet(K) /\ Cardinality(K) <= n /\ Cardinality(K) \in Nat
  <2>1. K \in SUBSET (1 .. n)
    OBVIOUS
  <2> HIDE DEF K
  <2> QED
    BY <1>5, <2>1, FS_Subset, FS_CardinalityType
<1> DEFINE named == [k \in K |-> targets[k]]
<1>7. named \in Surjection(K, T)
  BY <1>4 DEF Surjection
<1> HIDE DEF named
<1>8. n <= Cardinality(K)
  <2> HIDE DEF K
  <2> QED
    BY <1>6, <1>7, FS_Surjection
<1>9. K = 1 .. n
  <2> HIDE DEF K
  <2>1. Cardinality(K) = Cardinality(1 .. n)
    BY <1>1, <1>5, <1>6, <1>8
  <2> QED
    BY <1>5, <1>6, <2>1, FS_Subset
<1>10. {targets[k] : k \in 1 .. n} = T
  BY <1>4, <1>9
<1> QED
  BY <1>1, <1>10 DEF T, targets

(* The erasures of an honest export that went to closure.jsonl.            *)
LEMMA HonestClosure ==
  ASSUME Exported
  PROVE  LET erased == Targets(recipe, {"closure"})
         IN  /\ IsSequence(closure) /\ Len(closure) = Len(erased) /\ DOMAIN closure = 1 .. Len(erased)
             /\ \A i \in DOMAIN closure :
                  /\ i \in Nat \ {0} /\ WellSigned(closure[i], Total + i)
                  /\ closure[i].body.kind = "erasure" /\ closure[i].body.target = erased[i]
<1> DEFINE r == recipe
           journal == Journal(r)
           erased == Targets(r, {"closure"})
           dangling == IF Hooked(r, "dangling_closure_erasure_target") THEN 1 ELSE 0
           Natural(i) == Len(journal) + i
           Placed(i) == IF Hooked(r, "closure_record_position_override")
                            THEN Argument(r, "closure_record_position_override")
                            ELSE Natural(i)
           Line(i, prev) ==
             IF i <= Len(erased)
               THEN [Erasure(r, Placed(i), prev, erased[i]) EXCEPT
                       !.body.kind = IF Hooked(r, "closure_record_wrong_kind")
                                       THEN "note" ELSE @,
                       !.body.intact = ~Hooked(r, "tamper_closure_record")]
               ELSE Erasure(r, Natural(i), prev, Argument(r, "dangling_closure_erasure_target"))
           n == Len(erased) + dangling
           h == LastHead(GENESIS_PREV, journal)
           head == CHOOSE f : f = [i \in 0 .. n |->
                     IF i = 0 THEN h
                     ELSE HeadAfter(f[i - 1], AsIs(Line(i, f[i - 1])))]
           chain == [i \in 1 .. n |-> [line |-> Line(i, head[i - 1]), after |-> head[i]]]
<1>1. closure = LinesOf(chain)
  <2>1. ClosureLines(r, journal) = LinesOf(chain)
    BY Zenon DEF ClosureLines, Chained
  <2> HIDE DEF chain
  <2> QED
    BY <2>1, HonestFiles
<1>2. Len(erased) \in Nat /\ n = Len(erased)
  BY TargetsLength, NoneHooked DEF Exported
<1>3. Len(journal) = Total
  BY HonestSizes, JournalLines DEF Total
<1>4. ASSUME NEW i \in 1 .. n, NEW prev
      PROVE  /\ WellSigned(Line(i, prev), Total + i)
             /\ Line(i, prev).body.kind = "erasure" /\ Line(i, prev).body.target = erased[i]
  <2> DEFINE base == Erasure(r, Placed(i), prev, erased[i])
             b0 == base.body
             b1 == [b0 EXCEPT !.kind = IF Hooked(r, "closure_record_wrong_kind")
                                         THEN "note" ELSE @]
             line == Line(i, prev)
  <2>1. i <= Len(erased)
    BY <1>2
  <2>2. line = [base EXCEPT
                  !.body.kind = IF Hooked(r, "closure_record_wrong_kind") THEN "note" ELSE @,
                  !.body.intact = ~Hooked(r, "tamper_closure_record")]
    BY <2>1, Zenon
  <2>3. ~Hooked(r, "closure_record_wrong_kind") /\ ~Hooked(r, "tamper_closure_record")
        /\ Placed(i) = Total + i
    BY <1>3, NoneHooked
  <2>4. WellSigned(base, Total + i) /\ b0.kind = "erasure" /\ b0.target = erased[i]
    <3> DEFINE p == Placed(i)
    <3>1. base = Erasure(recipe, p, prev, erased[i])
      OBVIOUS
    <3> HIDE DEF p, base, erased
    <3>2. WellSigned(base, p) /\ base.body.kind = "erasure" /\ base.body.target = erased[i]
      BY <3>1, ErasureForm
    <3> QED
      BY <2>3, <3>2 DEF p
  <2>5. /\ DOMAIN base = {"position", "prev_head", "body"}
        /\ DOMAIN b0 = {"kind", "target", "content_hash", "payload_type", "keyid", "signer",
                        "form", "intact"}
    <3> HIDE DEF Placed, erased
    <3> QED
      BY DEF Erasure, RecordLine
  <2> HIDE DEF base, line, erased, Placed, Line, n
  <2>6. line.position = base.position /\ line.body = [b1 EXCEPT !.intact = ~Hooked(r, "tamper_closure_record")]
    <3> HIDE DEF b0
    <3> QED
      BY <2>2, <2>5 DEF b0
  <2>7. b1 = [b0 EXCEPT !.kind = "erasure"]
    BY <2>3, <2>4
  <2> HIDE DEF b0, b1
  <2>8. line.body = [b1 EXCEPT !.intact = TRUE]
    BY <2>3, <2>6
  <2>9. /\ line.body.kind = "erasure" /\ line.body.target = b0.target
        /\ line.body.form = b0.form /\ line.body.payload_type = b0.payload_type
        /\ line.body.keyid = b0.keyid /\ line.body.signer = b0.signer /\ line.body.intact = TRUE
    <3>1. DOMAIN b1 = DOMAIN b0
      BY <2>7
    <3> QED
      BY <2>5, <2>7, <2>8, <3>1
  <2> QED
    BY <2>4, <2>6, <2>9 DEF WellSigned, b0, line
<1> HIDE DEF Line, head
<1>5. n \in Nat
  BY <1>2
<1> HIDE DEF n
<1>6. IsSequence(chain) /\ Len(chain) = n /\ \A i \in 1 .. n : chain[i].line = Line(i, head[i - 1])
  <2>1. \A i \in 1 .. n : chain[i].line = Line(i, head[i - 1])
    OBVIOUS
  <2> QED
    BY <1>5, <2>1, ComprehensionIsSequence
<1> HIDE DEF chain
<1>7. /\ IsSequence(closure) /\ Len(closure) = n
      /\ \A i \in 1 .. n : closure[i] = Line(i, head[i - 1])
  BY <1>1, <1>6, LinesSequence
<1>8. DOMAIN closure = 1 .. n /\ \A i \in 1 .. n : i \in Nat \ {0}
  BY <1>7, SequenceDomain
<1> QED
  BY <1>2, <1>4, <1>7, <1>8

-----------------------------------------------------------------------------
(* The verification of an honest export: where it is on its way to VALID.  *)

(* No reader has refused a line.                                           *)
KeysOnCourse == k_outcome \in {"reading", "ok"}

CheckpointsOnCourse ==
  /\ c_outcome \in {"reading", "ok"}
  /\ c_outcome = "ok" => Len(c_lines) = Len(CheckpointFile)
  /\ c_head = IF Len(c_lines) = 0 THEN GENESIS_PREV
              ELSE HeadAfter(CheckpointFile[Len(c_lines)].cp_prev, CheckpointFile[Len(c_lines)])
  /\ \A i \in 1 .. Len(c_checkpoints) : c_checkpoints[i] = CPs!Verified(CheckpointFile[i])

AuthorityOnCourse == c_authority = [p \in Position |-> key_at_position(p)]

(* Where the walker is after n records.                                    *)
Reached(n) == [position |-> recipe.window + n,
               head |-> HeadAt(Journal(recipe), recipe.window + n)]

WalkOnCourse ==
  LET reached == Reached(Len(w_lines["epoch"]))
  IN  /\ "epoch" \in DOMAIN w_position /\ "epoch" \in DOMAIN w_heads
      /\ IsSequence(w_heads["epoch"])
      /\ w_outcome["epoch"] \in {"walking", "ok"}
      /\ w_position["epoch"] = reached.position /\ w_head["epoch"] = reached.head
      /\ Records!WalkChain("epoch") = reached

(* What the erasures of the range target, and those of the closure too.    *)
ErasedInWindow ==
  {p \in InWindow : recipe.content[p] /\ recipe.erase[p] \in {"erase", "keep"}}

TargetsInWindow ==
  {p \in InWindow : recipe.content[p] /\ recipe.erase[p] \in {"erase", "closure", "keep"}}

(* What is to be said of the content.                                      *)
DroppedPositions == {p \in InWindow : recipe.content[p] /\ recipe.erase[p] = "drop"}
KeptPositions == {p \in InWindow : recipe.content[p] /\ recipe.erase[p] = "keep"}

OfContent ==
  {Finding(13, p) : p \in WithheldPositions}
    \cup {Finding(14, p) : p \in DroppedPositions}
    \cup {Finding(15, p) : p \in KeptPositions}

(* The rows of anchors, clocks and a range without records.                *)
Aside == {18, 19, 23, 24, 25}

(* That has been said, and nothing else but remarks.                       *)
Told ==
  /\ {f \in Elements(findings) : f.row \notin Aside} = OfContent
  /\ withheld = Cardinality(WithheldPositions)

(* What the verifier has behind it, each at the stage it is done with.     *)
OnCourse ==
  /\ KeysOnCourse /\ CheckpointsOnCourse
  /\ Passed(AfterMembers) => AuthorityOnCourse
  /\ Passed(AfterCheckpoints) => WalkOnCourse
  /\ stage = "closure" => erasure_targets = ErasedInWindow
  /\ Passed(AfterClosure) => erasure_targets = TargetsInWindow
  /\ IF stage \in AfterContent \/ Done THEN Told ELSE Elements(findings) = {}
  /\ Done => report = classify(findings)

(* Only content is erased.                                                 *)
ContentErased ==
  \A p \in 1 .. MaxRecords :
    recipe.erase[p] # "none" => p \in 1 .. N(recipe) /\ recipe.content[p]

(* The inductive invariant of an honest export: from the build on, it is   *)
(* on its course.                                                          *)
HonestInv ==
  /\ IsFiniteSet(recipe.hooks) /\ ContentErased
  /\ stage = "recipe" => findings = << >> /\ c_head = GENESIS_PREV
  /\ stage # "recipe" /\ HonestButContent => OnCourse

-----------------------------------------------------------------------------
(* No honest line is refused.                                              *)

LEMMA Unsealed ==
  ASSUME Exported, KeyInv
  PROVE  k_compromise = << >>
<1> DEFINE n == Len(k_lines)
<1>1. n \in Nat
  BY SequenceDomain DEF KeyInv
<1>2. CASE n = 0
  BY <1>2 DEF KeyInv, KeyMemory
<1>3. CASE n # 0
  <2>1. n \in DOMAIN KeyFile
    BY <1>1, <1>3 DEF KeyInv
  <2>2. n \in 1 .. Len(KeyFile)
    BY <2>1, HonestKeys, SequenceDomain
  <2>3. KeyFile[n].kind # "compromise"
    BY <2>2, HonestKeys
  <2> QED
    BY <1>3, <2>3 DEF KeyInv, KeyMemory, KeySeal
<1> QED
  BY <1>2, <1>3

LEMMA KeyLineTaken ==
  ASSUME Exported, KeyInv, ReadKeyLine
  PROVE  k_outcome' \in {"reading", "ok"}
<1> DEFINE m == Len(k_lines)
           n == Len(k_lines) + 1
<1>1. /\ m \in Nat /\ n \in Nat \ {0} /\ n - 1 = m
      /\ (k_lines = << >> <=> m = 0)
  <2>1. m \in Nat /\ (k_lines = << >> <=> m = 0)
    BY SequenceDomain, EmptyIsSequence DEF KeyInv
  <2> QED
    BY <2>1
<1>2. k_outcome = "reading" /\ k_compromise = << >>
  BY Unsealed DEF ReadKeyLine
<1>3. CASE ~KeyLineLeft /\ Keys!EndOfFile
  <2>1. m # 0
    BY <1>1, <1>3, HonestKeys DEF KeyLineLeft, KeyFile
  <2>2. Keys!Finish
    BY <1>1, <1>3, <2>1 DEF Keys!EndOfFile, Keys!NoGenesis, Keys!AtGenesis
  <2> QED
    BY <2>2 DEF Keys!Finish
<1>4. ASSUME KeyLineLeft
      PROVE  /\ n \in 1 .. Len(KeyFile) /\ KeyLine = KeyFile[n]
             /\ KeyLineOK(n) /\ KeyLineParses
             /\ n = 1 => KeyLine.kind = "genesis"
             /\ n # 1 => KeyLine.kind = "rotation"
  <2>1. n \in 1 .. Len(KeyFile) /\ KeyLine = KeyFile[n]
    BY <1>1, <1>4, HonestKeys DEF KeyLineLeft, KeyFile, KeyLine
  <2> QED
    BY <2>1, HonestKeys DEF KeyLineParses, KeyLineOK
<1>5. CASE KeyLineLeft /\ KeyLineParses /\ Keys!ReadLine(KeyLine)
  <2>1. ~Keys!AfterSeal
    BY <1>2 DEF Keys!AfterSeal, Keys!Sealed
  <2>2. CASE n = 1
    <3>1. k_lines = << >> /\ KeyLine.kind = "genesis"
      BY <1>1, <1>4, <1>5, <2>2
    <3>2. /\ KeyLine.position = 0 /\ KeyLine.key_prev = GENESIS_PREV
          /\ KeyLine.envelope = "keyrecord" /\ KeyLine.signer = KeyLine.key
      BY <1>4, <1>5, <2>2 DEF KeyLineOK
    <3>3. Keys!ReadGenesis(KeyLine)
      BY <1>5, <2>1, <3>1 DEF Keys!ReadLine, Keys!SecondGenesis, Keys!Readable, Keys!AtGenesis
    <3>4. Keys!Genesis(KeyLine)
      BY <3>2, <3>3, KeyDigest DEF Keys!ReadGenesis, Keys!GenesisElsewhere, Keys!GenesisLinked,
         Keys!GenesisEnvelope, Keys!GenesisForeign, Keys!SelfSigned
    <3> QED
      BY <1>2, <3>4 DEF Keys!Genesis, Keys!Extend
  <2>3. CASE n # 1
    <3>1. k_lines # << >> /\ KeyLine.kind = "rotation" /\ m # 0 /\ m \in 1 .. Len(k_lines)
      BY <1>1, <1>4, <1>5, <2>3
    <3>2. /\ KeyLine.position > KeyFile[m].position
          /\ KeyLine.key_prev = HeadAfter(KeyFile[m].key_prev, KeyFile[m])
          /\ KeyLine.envelope = "keyrecord" /\ KeyLine.signer = KeyFile[m].key
          /\ KeyFile[m].kind # "compromise"
      BY <1>1, <1>4, <1>5, <2>3, <3>1 DEF KeyLineOK
    <3>3. /\ k_position = KeyFile[m].position
          /\ k_head = HeadAfter(KeyFile[m].key_prev, KeyFile[m])
          /\ Len(k_events) = m
      BY <3>1, <3>2 DEF KeyInv, KeyMemory
    <3>4. k_events[Len(k_events)].key = KeyFile[m].key
      <4>1. m \in 1 .. Len(k_events)
        BY <3>1, <3>3
      <4>2. k_events[m] = KeyEvent(m)
        BY <4>1 DEF KeyInv
      <4> QED
        BY <3>3, <4>2 DEF KeyEvent
    <3>5. Keys!ReadRotation(KeyLine)
      BY <1>5, <2>1, <3>1 DEF Keys!ReadLine, Keys!NoGenesis, Keys!AtGenesis
    <3>6. Keys!Rotate(KeyLine)
      BY <3>2, <3>3, <3>4, <3>5 DEF Keys!ReadRotation, Keys!NotIncreasing, Keys!LinkMismatch,
         Keys!RotationEnvelope, Keys!ForeignRotation, Keys!Increasing, Keys!SignedByPredecessor,
         Keys!CurrentKey
    <3> QED
      BY <1>2, <3>6 DEF Keys!Rotate, Keys!Extend
  <2> QED
    BY <2>2, <2>3
<1> QED
  BY <1>3, <1>4, <1>5 DEF ReadKeyLine

LEMMA CheckpointDigest ==
  /\ CPs!GENESIS_PREV = GENESIS_PREV
  /\ \A h, line : CPs!HeadAfter(h, line) = HeadAfter(h, line)
BY DEF CPs!GENESIS_PREV, GENESIS_PREV, CPs!HeadAfter, HeadAfter, CPs!head_hash, head_hash,
       CPs!leaf_hash, leaf_hash

LEMMA CheckpointTaken ==
  ASSUME Exported, PhaseInv, KeysOK, CheckpointsOnCourse, AuthorityOnCourse, ReadCheckpointLine
  PROVE  CheckpointsOnCourse'
<1> DEFINE m == Len(c_lines)
           n == Len(c_lines) + 1
<1>1. /\ m \in Nat /\ n \in Nat \ {0} /\ n - 1 = m /\ Len(c_checkpoints) = m
      /\ (c_checkpoints = << >> <=> m = 0) /\ m <= Len(CheckpointFile)
      /\ Len(CheckpointFile) \in {1, 2}
  <2>1. m \in Nat /\ Len(c_checkpoints) = m /\ (c_checkpoints = << >> <=> m = 0)
    BY SequenceDomain, EmptyIsSequence DEF PhaseInv, ReadingInv, CheckpointInv
  <2>2. Len(CheckpointFile) \in {1, 2} /\ DOMAIN CheckpointFile = 1 .. Len(CheckpointFile)
    BY HonestCheckpoints, SequenceDomain
  <2>3. m # 0 => m \in DOMAIN CheckpointFile
    BY <2>1 DEF PhaseInv, ReadingInv, CheckpointInv
  <2> QED
    BY <2>1, <2>2, <2>3
<1>2. c_outcome = "reading" /\ bundle' = bundle /\ CheckpointFile' = CheckpointFile
  BY DEF ReadCheckpointLine, CheckpointFile, Bytes
<1>3. CASE ~CheckpointLineLeft /\ CPs!EndOfFile
  <2>1. m # 0 /\ m = Len(CheckpointFile)
    BY <1>1, <1>3 DEF CheckpointLineLeft, CheckpointFile
  <2>2. CPs!Finish
    BY <1>1, <1>3, <2>1 DEF CPs!EndOfFile, CPs!NoLine
  <2> QED
    BY <1>2, <2>1, <2>2 DEF CPs!Finish, CheckpointsOnCourse, CPs!Verified
<1>4. CASE CheckpointLineLeft /\ CPs!Read(CheckpointLine)
  <2> DEFINE line == CheckpointFile[n]
             p == CheckpointPosition(n)
  <2>1. n \in 1 .. Len(CheckpointFile) /\ CheckpointLine = line
    BY <1>1, <1>4 DEF CheckpointLineLeft, CheckpointLine, CheckpointFile
  <2>2. /\ line.position = p /\ line.at_form = "rfc3339" /\ line.envelope = "checkpoint"
        /\ line.keyid = signer_for_position(recipe, p)
        /\ line.signer = signer_for_position(recipe, p)
        /\ line.cp_prev = IF n = 1 THEN GENESIS_PREV
                          ELSE HeadAfter(CheckpointFile[m].cp_prev, CheckpointFile[m])
    BY <1>1, <2>1, HonestCheckpoints
  <2>3. p \in Nat /\ p \in Position
    BY HonestSizes DEF CheckpointPosition, Position
  <2>4. c_authority[p] = signer_for_position(recipe, p)
    <3>1. key_at_position(p) = signer_for_position(recipe, p)
      BY <2>3, SignerOfRecipe, HonestFiles DEF Exported, PhaseInv, ReadingInv
    <3> QED
      BY <2>3, <3>1 DEF AuthorityOnCourse
  <2>5. CPs!Increasing(line)
    <3>1. CASE m = 0
      BY <1>1, <3>1 DEF CPs!Increasing
    <3>2. CASE m # 0
      <4>1. m = 1 /\ n = 2 /\ Len(CheckpointFile) = 2
        BY <1>1, <2>1, <3>2
      <4>2. Total # 0 /\ recipe.window < Total
        BY <4>1, HonestCheckpoints, HonestSizes
      <4>3. CPs!Previous.position = recipe.window
        <5>1. CPs!Previous = CPs!Verified(CheckpointFile[1])
          BY <1>1, <4>1 DEF CPs!Previous, CheckpointsOnCourse
        <5>2. CheckpointFile[1].position = recipe.window
          BY <1>1, HonestCheckpoints DEF CheckpointPosition
        <5> QED
          BY <5>1, <5>2 DEF CPs!Verified
      <4>4. line.position = Total
        BY <2>2, <4>1 DEF CheckpointPosition
      <4> QED
        BY <4>2, <4>3, <4>4, HonestSizes DEF CPs!Increasing
    <3> QED
      BY <3>1, <3>2
  <2>6. line.cp_prev = c_head
    BY <1>1, <2>2 DEF CheckpointsOnCourse
  <2>7. CPs!Accept(line)
    BY <1>4, <2>1, <2>2, <2>4, <2>5, <2>6 DEF CPs!Read, CPs!NotIncreasing, CPs!LinkMismatch,
       CPs!ForeignKeyid, CPs!OtherEnvelope, CPs!BadSignature, CPs!BadTimestamp, CPs!Linked,
       CPs!DeclaresAuthority, CPs!SignatureValid, CPs!Signed
  <2>8. /\ c_outcome' = "reading"
        /\ c_head' = HeadAfter(c_head, line)
        /\ c_lines' = Append(c_lines, line)
        /\ c_checkpoints' = Append(c_checkpoints, CPs!Verified(line))
    BY <1>2, <2>7, CheckpointDigest DEF CPs!Accept
  <2>9. /\ Len(c_lines') = n /\ Len(c_checkpoints') = n
        /\ \A i \in 1 .. m : c_checkpoints'[i] = c_checkpoints[i]
        /\ c_checkpoints'[n] = CPs!Verified(line)
    BY <1>1, <2>8, AppendFacts DEF PhaseInv, ReadingInv, CheckpointInv
  <2>10. \A i \in 1 .. n : i \in 1 .. m \/ i = n
    BY <1>1
  <2>11. \A i \in 1 .. n : c_checkpoints'[i] = CPs!Verified(CheckpointFile[i])
    BY <1>1, <2>9, <2>10 DEF CheckpointsOnCourse
  <2>12. c_head' = HeadAfter(line.cp_prev, line)
    BY <2>6, <2>8
  <2>13. \A x : CPs!Verified(x)' = CPs!Verified(x)
    BY DEF CPs!Verified
  <2> QED
    BY <1>1, <1>2, <2>8, <2>9, <2>11, <2>12, <2>13 DEF CheckpointsOnCourse
<1> QED
  BY <1>3, <1>4 DEF ReadCheckpointLine

(* What the manifest of an honest export says.                             *)
LEMMA HonestManifest ==
  ASSUME Exported
  PROVE  /\ manifest.range[1] = recipe.window /\ manifest.range[2] = Total
         /\ manifest.records = Total - recipe.window
         /\ manifest.closure = Len(closure)
         /\ manifest.withheld_erased = Withheld(recipe)
         /\ manifest.export_checkpoint.position = Total
         /\ manifest.export_checkpoint.head = HeadAt(Journal(recipe), Total)
         /\ manifest.export_checkpoint.count = Total
         /\ manifest.signer = signer_for_position(recipe, Total) /\ manifest.intact = TRUE
<1> DEFINE journal == Journal(recipe)
           contents == Contents(recipe, journal)
           lists == Manifest(recipe, journal, contents)
<1>1. manifest = lists
  BY HonestMembers
<1>2. /\ \A name : ~Hooked(recipe, name) /\ Lie(recipe, name) = 0
      /\ End(recipe) = Total /\ Total \in Nat /\ recipe.window \in Nat
  BY NoneHooked, HonestSizes
<1>3. Len(contents[ClosureFile].bytes) = Len(closure)
  <2>1. contents[ClosureFile] = Member(ClosureLines(recipe, journal))
    BY BytesOf DEF Contents, MemberNames
  <2> QED
    BY <2>1, HonestFiles DEF Member
<1>4. ExportPosition(recipe) = Total /\ \A h : ExportHead(recipe, h) = h
  BY <1>2 DEF ExportPosition, ExportHead
<1>5. WindowLength(recipe) = Total - recipe.window
  BY DEF WindowLength, Total
<1>6. Len(closure) \in Nat
  BY HonestClosure, SequenceDomain
<1> HIDE DEF journal, contents
<1>7. /\ lists.range = << recipe.window, Total >>
      /\ lists.records = Total - recipe.window + 0
      /\ lists.closure = Len(closure) + 0
      /\ lists.withheld_erased = Withheld(recipe)
      /\ lists.export_checkpoint = [position |-> Total, head |-> HeadAt(journal, Total), count |-> Total]
      /\ lists.signer = signer_for_position(recipe, Total) /\ lists.intact = TRUE
  BY <1>2, <1>3, <1>4, <1>5 DEF Manifest
<1> HIDE DEF lists
<1> QED
  BY <1>1, <1>2, <1>6, <1>7 DEF journal

(* The range taken from the checkpoints is that of the recipe.             *)
LEMMA HonestBounds ==
  ASSUME Exported, CheckpointsOnCourse, PhaseInv, Bounded
  PROVE  /\ bounds.start_position = recipe.window
         /\ bounds.start_head = HeadAt(Journal(recipe), recipe.window)
         /\ bounds.end_position = Total
         /\ bounds.end_head = HeadAt(Journal(recipe), Total)
         /\ bounds.end_count = Total
<1>1. ASSUME NEW p, CPs!IsBoundary(p)
      PROVE  /\ CPs!checkpoint_at(p).head = HeadAt(Journal(recipe), p)
             /\ CPs!checkpoint_at(p).count = p
  <2> DEFINE i == CHOOSE i \in 1 .. Len(c_checkpoints) : c_checkpoints[i].position = p
  <2>1. i \in 1 .. Len(c_checkpoints) /\ c_checkpoints[i].position = p
    BY <1>1 DEF CPs!IsBoundary
  <2>2. CPs!checkpoint_at(p) = c_checkpoints[i]
    BY DEF CPs!checkpoint_at
  <2> HIDE DEF i
  <2>3. c_checkpoints[i] = CPs!Verified(CheckpointFile[i]) /\ i \in DOMAIN CheckpointFile
    BY <2>1 DEF CheckpointsOnCourse, PhaseInv, ReadingInv, CheckpointInv
  <2>4. i \in 1 .. Len(CheckpointFile)
    BY <2>3, HonestCheckpoints, SequenceDomain
  <2> DEFINE line == CheckpointFile[i]
             q == CheckpointPosition(i)
  <2>5. line.position = q /\ line.head = HeadAt(Journal(recipe), q) /\ line.count = q
    BY <2>4, HonestCheckpoints
  <2>6. CPs!Verified(line).position = q /\ CPs!Verified(line).head = HeadAt(Journal(recipe), q)
        /\ CPs!Verified(line).count = q
    BY <2>5 DEF CPs!Verified
  <2>7. q = p
    BY <2>1, <2>3, <2>6
  <2> QED
    BY <2>2, <2>3, <2>6, <2>7
<1>2. CPs!IsBoundary(recipe.window) /\ CPs!IsBoundary(Total)
  BY HonestManifest DEF Bounded
<1>3. bounds = [start_position |-> recipe.window, start_head |-> CPs!checkpoint_at(recipe.window).head,
                end_position |-> Total, end_head |-> CPs!checkpoint_at(Total).head,
                end_count |-> CPs!checkpoint_at(Total).count]
  BY <1>2, HonestManifest DEF bounds, CPs!range_bounds
<1> QED
  BY <1>1, <1>2, <1>3

(* The checkpoints read are those of the range.                            *)
LEMMA HonestBounded ==
  ASSUME Exported, CheckpointsOnCourse, PhaseInv, c_outcome = "ok"
  PROVE  Bounded
<1>1. Len(c_checkpoints) = Len(CheckpointFile)
  BY DEF CheckpointsOnCourse, PhaseInv, ReadingInv, CheckpointInv
<1>2. Len(CheckpointFile) = IF Total = 0 THEN 1 ELSE 2
  BY HonestCheckpoints
<1>3. \A i \in 1 .. Len(CheckpointFile) : c_checkpoints[i].position = CheckpointPosition(i)
  BY <1>1, HonestCheckpoints DEF PhaseInv, ReadingInv, CheckpointInv
<1>4. CPs!IsBoundary(recipe.window)
  <2>1. 1 \in 1 .. Len(CheckpointFile)
    BY <1>2
  <2> QED
    BY <1>1, <1>3, <2>1 DEF CPs!IsBoundary, CheckpointPosition
<1>5. CPs!IsBoundary(Total)
  <2>1. CASE Total = 0
    BY <1>4, <2>1, HonestSizes
  <2>2. CASE Total # 0
    <3>1. 2 \in 1 .. Len(CheckpointFile)
      BY <1>2, <2>2
    <3>2. c_checkpoints[2].position = Total
      BY <1>3, <3>1 DEF CheckpointPosition
    <3> QED
      BY <1>1, <3>1, <3>2 DEF CPs!IsBoundary
  <2> QED
    BY <2>1, <2>2
<1> QED
  BY <1>4, <1>5, HonestManifest DEF Bounded

-----------------------------------------------------------------------------
(* Step by step: phase A.                                                  *)

Early == {"container", "keys", "manifest", "members", "checkpoints"}

(* An early step that finds nothing and goes on.                           *)
LEMMA EarlyCourse ==
  ASSUME OnCourse, stage \in Early, stage' \in Early, findings' = findings,
         KeysOnCourse', CheckpointsOnCourse', stage' = "checkpoints" => AuthorityOnCourse'
  PROVE  OnCourse'
<1>1. Elements(findings) = {}
  BY DEF OnCourse, Passed, Valid, Done, Early, AfterContent
<1>2. /\ stage' # "done" /\ stage' # "closure" /\ stage' \notin AfterCheckpoints
      /\ stage' \notin AfterClosure /\ stage' \notin AfterContent
      /\ (stage' \in AfterMembers => stage' = "checkpoints")
  BY DEF Early, AfterMembers, AfterCheckpoints, AfterRecords, AfterWalk, AfterCompromise,
         AfterErasures, AfterClosure, AfterContent
<1>3. Elements(findings)' = {}
  BY <1>1 DEF Elements
<1> QED
  BY <1>2, <1>3 DEF OnCourse, Passed, Valid, Done

(* Nothing read, nothing changed.                                          *)
LEMMA ReadersStay ==
  ASSUME UNCHANGED <<recipe, bundle, keyVars, checkpointVars>>
  PROVE  /\ KeysOnCourse => KeysOnCourse'
         /\ CheckpointsOnCourse => CheckpointsOnCourse'
         /\ AuthorityOnCourse => AuthorityOnCourse'
         /\ UNCHANGED walkVars => (WalkOnCourse => WalkOnCourse')
<1>1. KeysOnCourse => KeysOnCourse'
  BY DEF KeysOnCourse, keyVars
<1>2. CheckpointsOnCourse => CheckpointsOnCourse'
  BY DEF CheckpointsOnCourse, checkpointVars, CheckpointFile, Bytes, CPs!Verified
<1>3. \A p : key_at_position(p)' = key_at_position(p)
  BY DEF keyVars, key_at_position, Keys!key_at_position, Keys!Authoritative
<1>4. AuthorityOnCourse => AuthorityOnCourse'
  BY <1>3 DEF AuthorityOnCourse, checkpointVars
<1>5. UNCHANGED walkVars => (WalkOnCourse => WalkOnCourse')
  BY DEF WalkOnCourse, Reached, walkVars, Records!WalkChain
<1> QED
  BY <1>1, <1>2, <1>4, <1>5

LEMMA OpenContainerCourse ==
  ASSUME Exported, OnCourse, OpenContainer, UNCHANGED recipe
  PROVE  OnCourse'
<1>1. ContainerOK
  BY HonestMembers
<1>2. stage = "container" /\ stage' = "keys" /\ findings' = findings
      /\ UNCHANGED <<recipe, bundle, keyVars, checkpointVars>>
  BY <1>1 DEF OpenContainer, ContainerOK, goto, resultVars
<1> QED
  BY <1>2, ReadersStay, EarlyCourse DEF OnCourse, Early

LEMMA ReadKeyLineCourse ==
  ASSUME Exported, PhaseInv, OnCourse, ReadKeyLine, UNCHANGED recipe
  PROVE  OnCourse'
<1>1. KeysOnCourse'
  BY KeyLineTaken DEF KeysOnCourse, PhaseInv, ReadingInv
<1>2. stage = "keys" /\ stage' = stage /\ findings' = findings
      /\ UNCHANGED <<bundle, checkpointVars>>
  BY DEF ReadKeyLine, resultVars
<1>3. CheckpointsOnCourse'
  BY <1>2 DEF OnCourse, CheckpointsOnCourse, checkpointVars, CheckpointFile, Bytes, CPs!Verified
<1> QED
  BY <1>1, <1>2, <1>3, EarlyCourse DEF Early

LEMMA KeysReadCourse ==
  ASSUME OnCourse, KeysRead, UNCHANGED recipe
  PROVE  OnCourse'
<1>1. k_outcome = "ok"
  BY DEF KeysRead, OnCourse, KeysOnCourse
<1>2. stage = "keys" /\ stage' = "manifest" /\ findings' = findings
      /\ UNCHANGED <<recipe, bundle, keyVars, checkpointVars>>
  BY <1>1 DEF KeysRead, goto, resultVars
<1> QED
  BY <1>2, ReadersStay, EarlyCourse DEF OnCourse, Early

LEMMA VerifyManifestCourse ==
  ASSUME Exported, PhaseInv, OnCourse, VerifyManifest, UNCHANGED recipe
  PROVE  OnCourse'
<1>1. stage = "manifest" /\ KeysOK
  BY DEF VerifyManifest, PhaseInv, FilesInv, Passed, AfterKeys
<1>2. ManifestSigned
  <2>1. key_at_position(Total) = signer_for_position(recipe, Total)
    BY <1>1, HonestFiles, HonestSizes, SignerOfRecipe DEF Exported, PhaseInv, ReadingInv
  <2> QED
    BY <2>1, HonestManifest DEF ManifestSigned
<1>3. ManifestOK
  BY HonestMembers
<1>4. stage' = "members" /\ findings' = findings
      /\ UNCHANGED <<recipe, bundle, keyVars, checkpointVars>>
  BY <1>2, <1>3 DEF VerifyManifest, ManifestOK, goto, resultVars
<1> QED
  BY <1>1, <1>4, ReadersStay, EarlyCourse DEF OnCourse, Early

LEMMA VerifyMembersCourse ==
  ASSUME Exported, OnCourse, VerifyMembers, UNCHANGED recipe
  PROVE  OnCourse'
<1>1. MembersOK
  BY HonestMembers
<1>2. /\ stage = "members" /\ stage' = "checkpoints" /\ findings' = findings
      /\ bundle' = bundle /\ UNCHANGED keyVars
      /\ c_authority' = [p \in Position |-> key_at_position(p)]
      /\ UNCHANGED <<c_checkpoints, c_anomalies, c_head, c_lines, c_outcome>>
  BY <1>1 DEF VerifyMembers, MembersOK, goto, resultVars
<1>3. \A p : key_at_position(p)' = key_at_position(p)
  BY <1>2 DEF keyVars, key_at_position, Keys!key_at_position, Keys!Authoritative
<1>4. AuthorityOnCourse'
  BY <1>2, <1>3 DEF AuthorityOnCourse
<1>5. KeysOnCourse' /\ CheckpointsOnCourse'
  BY <1>2 DEF OnCourse, KeysOnCourse, keyVars, CheckpointsOnCourse, CheckpointFile, Bytes, CPs!Verified
<1> QED
  BY <1>2, <1>4, <1>5, EarlyCourse DEF Early

LEMMA ReadCheckpointLineCourse ==
  ASSUME Exported, PhaseInv, OnCourse, ReadCheckpointLine, UNCHANGED recipe
  PROVE  OnCourse'
<1>1. /\ stage = "checkpoints" /\ stage' = stage /\ findings' = findings
      /\ bundle' = bundle /\ UNCHANGED keyVars
  BY DEF ReadCheckpointLine, resultVars
<1>2. KeysOK /\ AuthorityOnCourse /\ CheckpointsOnCourse
  BY <1>1 DEF PhaseInv, FilesInv, OnCourse, Passed, AfterKeys, AfterManifest, AfterMembers
<1>3. CheckpointsOnCourse'
  BY <1>2, CheckpointTaken
<1>4. \A p : key_at_position(p)' = key_at_position(p)
  BY <1>1 DEF keyVars, key_at_position, Keys!key_at_position, Keys!Authoritative
<1>5. c_authority' = c_authority
  BY DEF ReadCheckpointLine, CPs!EndOfFile, CPs!NoLine, CPs!Finish, CPs!Read, CPs!NotIncreasing,
     CPs!LinkMismatch, CPs!ForeignKeyid, CPs!OtherEnvelope, CPs!BadSignature, CPs!BadTimestamp,
     CPs!Reject, CPs!Accept
<1>6. AuthorityOnCourse' /\ KeysOnCourse'
  BY <1>1, <1>2, <1>4, <1>5 DEF AuthorityOnCourse, OnCourse, KeysOnCourse, keyVars
<1> QED
  BY <1>1, <1>3, <1>6, EarlyCourse DEF Early

-----------------------------------------------------------------------------
(* Step by step: phase B, where nothing is found.                          *)

Late == {"records", "walk", "compromise", "erasures", "closure"}

(* Once the keys are read, a well-signed line raises no finding.           *)
LEMMA WellSignedLine ==
  ASSUME Exported, PhaseInv, KeysOK, NEW line, NEW p \in Nat, WellSigned(line, p)
  PROVE  /\ FaultRow(line) = 0 /\ position_correct(line)
         /\ RecordFindings(line) = << >>
<1>1. /\ key_at_position(p) = signer_for_position(recipe, p)
      /\ signer_for_position(recipe, p) \in SigningKeys
  BY HonestFiles, SignerOfRecipe DEF Exported, PhaseInv, ReadingInv
<1>2. FaultRow(line) = 0
  BY <1>1 DEF FaultRow, WellSigned
<1>3. position_correct(line)
  BY <1>1 DEF position_correct, WellSigned
<1> QED
  BY <1>2, <1>3 DEF RecordFindings

(* The records of the range, as the verifier knows them.                   *)
LEMMA HonestRecords ==
  ASSUME Exported, PhaseInv, KeysOK
  PROVE  /\ \A i \in DOMAIN epoch :
              /\ epoch[i].position = recipe.window + i
              /\ FaultRow(epoch[i]) = 0 /\ position_correct(epoch[i])
              /\ RecordFindings(epoch[i]) = << >>
         /\ Faultless = DOMAIN epoch
<1>1. ASSUME NEW i \in DOMAIN epoch
      PROVE  /\ epoch[i].position = recipe.window + i
             /\ FaultRow(epoch[i]) = 0 /\ position_correct(epoch[i])
             /\ RecordFindings(epoch[i]) = << >>
  <2> DEFINE p == recipe.window + i
  <2>1. p \in 1 .. Total /\ epoch[i] = Entry(recipe, p, JournalHead(recipe)[p - 1])
    BY HonestEpoch
  <2>2. p \in Nat
    BY <2>1, HonestSizes
  <2> HIDE DEF p
  <2>3. WellSigned(epoch[i], p)
    BY <2>1, HonestEntry
  <2>4. epoch[i].position = p
    BY <2>3 DEF WellSigned
  <2> QED
    BY <2>2, <2>3, <2>4, WellSignedLine DEF p
<1> QED
  BY <1>1 DEF Faultless

(* Nothing comes of lines that give nothing.                               *)
LEMMA GatheredNothing ==
  ASSUME NEW lines, IsSequence(lines), NEW seqs, seqs = [i \in DOMAIN lines |-> seqs[i]],
         \A i \in DOMAIN lines : seqs[i] = << >>
  PROVE  IsSequence(FlattenSeq(seqs)) /\ Elements(FlattenSeq(seqs)) = {}
<1>1. Len(lines) \in Nat /\ DOMAIN lines = 1 .. Len(lines)
  BY SequenceDomain
<1>2. DOMAIN seqs = 1 .. Len(lines) /\ seqs = [i \in 1 .. Len(lines) |-> seqs[i]]
  BY <1>1
<1>3. IsSequence(seqs)
  BY <1>1, <1>2, ComprehensionIsSequence
<1>4. \A i \in DOMAIN seqs : IsSequence(seqs[i]) /\ Elements(seqs[i]) = {}
  BY <1>1, <1>2, EmptyIsSequence
<1> QED
  BY <1>3, <1>4, Flattened

(* A late step that finds nothing.                                         *)
LEMMA QuietStep ==
  ASSUME PhaseInv, OnCourse, NEW from \in Late, NEW to \in (Late \cup {"content"}), NEW more,
         Step(from, to, more), IsSequence(more), Elements(more) = {},
         UNCHANGED <<recipe, walkVars>>,
         to = "closure" => erasure_targets' = ErasedInWindow,
         to = "content" => erasure_targets' = TargetsInWindow
  PROVE  OnCourse'
<1>1. stage = from /\ stage' = to /\ findings' = findings \o more
      /\ UNCHANGED <<bundle, keyVars, checkpointVars>>
  BY DEF Step, Found, FilesUnchanged
<1>2. /\ from \in AfterMembers /\ from \in AfterCheckpoints /\ from \notin AfterContent
      /\ to \in AfterCheckpoints /\ to \notin AfterContent
      /\ from # "done" /\ to # "done"
      /\ to \in AfterClosure => to = "content"
  BY DEF Late, AfterMembers, AfterCheckpoints, AfterRecords, AfterWalk, AfterCompromise,
         AfterErasures, AfterClosure, AfterContent
<1>3. AuthorityOnCourse /\ WalkOnCourse /\ Elements(findings) = {}
      /\ KeysOnCourse /\ CheckpointsOnCourse
  BY <1>1, <1>2 DEF OnCourse, Passed, Valid, Done
<1>4. KeysOnCourse' /\ CheckpointsOnCourse' /\ AuthorityOnCourse' /\ WalkOnCourse'
  BY <1>1, <1>3, ReadersStay
<1>5. Elements(findings)' = {}
  <2>1. Elements(findings \o more) = {}
    BY <1>3, Joined DEF PhaseInv, ReadingInv
  <2> QED
    BY <1>1, <2>1 DEF Elements
<1>6. ErasedInWindow' = ErasedInWindow /\ TargetsInWindow' = TargetsInWindow
  BY DEF ErasedInWindow, TargetsInWindow, InWindow
<1> QED
  BY <1>1, <1>2, <1>4, <1>5, <1>6 DEF OnCourse, Passed, Valid, Done

LEMMA CheckpointsReadCourse ==
  ASSUME Exported, PhaseInv, OnCourse, CheckpointsRead, UNCHANGED recipe
  PROVE  OnCourse'
<1>1. stage = "checkpoints" /\ c_outcome = "ok" /\ CheckpointsOnCourse
  BY DEF CheckpointsRead, OnCourse, CheckpointsOnCourse
<1>2. Bounded
  BY <1>1, HonestBounded
<1>3. ScopeFindings = << >>
  BY <1>1, <1>2, HonestBounds, HonestManifest DEF ScopeFindings
<1>4. /\ stage' = "records" /\ findings' = findings \o << >>
      /\ w_start' = [w \in {"epoch"} |->
                       [position |-> bounds.start_position, head |-> bounds.start_head]]
      /\ w_position' = [w \in {"epoch"} |-> bounds.start_position]
      /\ w_head' = [w \in {"epoch"} |-> bounds.start_head]
      /\ w_heads' = [w \in {"epoch"} |-> << >>]
      /\ w_lines' = [w \in {"epoch"} |-> << >>]
      /\ w_outcome' = [w \in {"epoch"} |-> "walking"]
      /\ UNCHANGED <<bundle, keyVars, checkpointVars>>
  BY <1>1, <1>2, <1>3 DEF CheckpointsRead, goto, Found
<1>5. stage \in AfterMembers /\ stage \notin AfterContent /\ stage # "done"
  BY <1>1 DEF AfterMembers, AfterCheckpoints, AfterRecords, AfterWalk, AfterCompromise,
         AfterErasures, AfterClosure, AfterContent
<1>6. AuthorityOnCourse /\ KeysOnCourse /\ Elements(findings) = {}
  BY <1>5 DEF OnCourse, Passed, Valid, Done
<1>7. KeysOnCourse' /\ CheckpointsOnCourse' /\ AuthorityOnCourse'
  BY <1>1, <1>4, <1>6, ReadersStay
<1>8. Elements(findings)' = {}
  <2>1. Elements(findings \o << >>) = {}
    BY <1>6, EmptyIsSequence, Joined DEF PhaseInv, ReadingInv
  <2> QED
    BY <1>4, <2>1 DEF Elements
<1>9. WalkOnCourse'
  <2> DEFINE start == Reached(0)
  <2>1. bounds.start_position = recipe.window /\ bounds.start_head = HeadAt(Journal(recipe), recipe.window)
    BY <1>1, <1>2, HonestBounds
  <2>2. recipe.window + 0 = recipe.window
    BY HonestSizes
  <2>3. start = [position |-> bounds.start_position, head |-> bounds.start_head]
    BY <2>1, <2>2 DEF Reached
  <2>4. start.position = bounds.start_position /\ start.head = bounds.start_head
    BY <2>3
  <2> HIDE DEF start
  <2>5. /\ w_start'["epoch"] = start /\ w_position'["epoch"] = start.position
        /\ w_head'["epoch"] = start.head /\ w_heads'["epoch"] = << >>
        /\ w_lines'["epoch"] = << >> /\ w_outcome'["epoch"] = "walking"
        /\ "epoch" \in DOMAIN w_position' /\ "epoch" \in DOMAIN w_heads'
    BY <1>4, <2>3, <2>4
  <2>6. Reached(Len(w_lines["epoch"]))' = start
    BY <2>5, EmptyIsSequence DEF Reached, start
  <2>7. Records!WalkChain("epoch")' = start
    BY <2>5 DEF Records!WalkChain
  <2> QED
    BY <2>5, <2>6, <2>7, EmptyIsSequence DEF WalkOnCourse
<1>10. /\ "records" \notin AfterClosure /\ "records" \notin AfterContent
  BY DEF AfterClosure, AfterContent
<1> QED
  BY <1>4, <1>7, <1>8, <1>9, <1>10 DEF OnCourse, Passed, Valid, Done

LEMMA AnalyzeRecordsCourse ==
  ASSUME Exported, PhaseInv, OnCourse, AnalyzeRecords, UNCHANGED recipe
  PROVE  OnCourse'
<1> DEFINE seqs == [i \in DOMAIN epoch |->
                      IF i \in DOMAIN epoch THEN RecordFindings(epoch[i]) ELSE << >>]
<1>1. Gathered(epoch, DOMAIN epoch, RecordFindings) = FlattenSeq(seqs)
  BY DEF Gathered
<1>2. Step("records", "walk", FlattenSeq(seqs)) /\ UNCHANGED walkVars
  BY <1>1 DEF AnalyzeRecords
<1>3. KeysOK
  BY <1>2 DEF Step, PhaseInv, FilesInv, Passed, AfterKeys, AfterManifest, AfterMembers, AfterCheckpoints
<1>4. IsSequence(FlattenSeq(seqs)) /\ Elements(FlattenSeq(seqs)) = {}
  <2>1. \A i \in DOMAIN epoch : seqs[i] = << >>
    BY <1>3, HonestRecords
  <2>2. seqs = [i \in DOMAIN epoch |-> seqs[i]]
    OBVIOUS
  <2> HIDE DEF seqs
  <2> QED
    BY <2>1, <2>2, HonestEpoch, GatheredNothing
<1> HIDE DEF seqs
<1> QED
  BY <1>2, <1>4, QuietStep DEF Late

(* The walker accepts the next record of an honest epoch.                  *)
LEMMA RecordTaken ==
  ASSUME Exported, WalkInv, WalkOnCourse, w_outcome["epoch"] = "walking",
         Len(w_lines["epoch"]) < Len(epoch), Records!ReadLine("epoch", WalkLine)
  PROVE  LET n == Len(w_lines["epoch"]) + 1
         IN  /\ n \in Nat /\ Reached(n).position = recipe.window + n
             /\ Records!Accept("epoch", WalkLine)
             /\ WalkLine.position = Reached(n).position
             /\ HeadAfter(w_head["epoch"], WalkLine) = Reached(n).head
<1> DEFINE m == Len(w_lines["epoch"])
           n == m + 1
           p == recipe.window + n
<1>1. /\ m \in Nat /\ n \in Nat /\ recipe.window \in Nat /\ Total \in Nat
      /\ p \in Nat /\ p - 1 = recipe.window + m
  <2>1. m \in Nat /\ recipe.window \in Nat /\ Total \in Nat
    BY HonestSizes, SequenceDomain DEF WalkInv
  <2> QED
    BY <2>1
<1>2. n \in DOMAIN epoch /\ WalkLine = epoch[n]
  BY <1>1, HonestEpoch DEF WalkLine
<1>3. /\ p \in 1 .. Total
      /\ epoch[n] = Entry(recipe, p, JournalHead(recipe)[p - 1])
      /\ JournalHead(recipe)[p] = HeadAfter(JournalHead(recipe)[p - 1], epoch[n])
  BY <1>2, HonestEpoch
<1>4. epoch[n].position = p /\ epoch[n].prev_head = JournalHead(recipe)[p - 1]
  <2> DEFINE prev == JournalHead(recipe)[p - 1]
             line == Entry(recipe, p, prev)
  <2>1. p \in 1 .. Total /\ epoch[n] = line
    BY <1>3
  <2> HIDE DEF p, prev
  <2>2. WellSigned(line, p) /\ line.prev_head = prev
    BY <2>1, HonestEntry
  <2>3. line.position = p
    BY <2>2 DEF WellSigned
  <2> QED
    BY <2>1, <2>2, <2>3 DEF prev
<1>5. HeadAt(Journal(recipe), p) = JournalHead(recipe)[p]
      /\ HeadAt(Journal(recipe), p - 1) = JournalHead(recipe)[p - 1]
  <2>1. p \in 0 .. Total /\ p - 1 \in 0 .. Total
    BY <1>1, <1>3
  <2> QED
    BY <2>1, HonestHeads
<1>6. /\ w_position["epoch"] = p - 1 /\ w_head["epoch"] = JournalHead(recipe)[p - 1]
  BY <1>1, <1>5 DEF WalkOnCourse, Reached
<1>7. Reached(n).position = p /\ Reached(n).head = JournalHead(recipe)[p]
  BY <1>5 DEF Reached
<1>8. p - 1 < MaxPosition /\ (p - 1) + 1 = p
  BY <1>1, <1>3, HonestSizes
<1> HIDE DEF p, n
<1>9. Records!Accept("epoch", WalkLine)
  <2>1. Records!HasSuccessor("epoch") /\ Records!Expected("epoch") = p
    BY <1>6, <1>8 DEF Records!HasSuccessor, Records!Expected
  <2> QED
    BY <1>2, <1>4, <1>6, <2>1 DEF Records!ReadLine, Records!Overflow, Records!Read, Records!Duplicate,
       Records!Gap, Records!LinkMismatch, Records!Continues
<1>10. HeadAfter(w_head["epoch"], WalkLine) = Reached(n).head
  BY <1>2, <1>3, <1>6, <1>7
<1>11. WalkLine.position = Reached(n).position
  BY <1>2, <1>4, <1>7
<1> QED
  BY <1>1, <1>7, <1>9, <1>10, <1>11 DEF n, p

LEMMA WalkRecordWalk ==
  ASSUME Exported, WalkInv, WalkOnCourse, WalkRecord, UNCHANGED recipe
  PROVE  WalkOnCourse'
<1> DEFINE m == Len(w_lines["epoch"])
<1>1. \A n : Reached(n)' = Reached(n)
  BY DEF Reached
<1>2. w_outcome["epoch"] = "walking"
  BY DEF WalkRecord
<1>3. CASE m < Len(epoch)
  <2> DEFINE n == m + 1
             next == HeadAfter(w_head["epoch"], WalkLine)
             pair == [position |-> WalkLine.position, head |-> next]
  <2>1. /\ n \in Nat /\ Reached(n).position = recipe.window + n
        /\ Records!Accept("epoch", WalkLine)
        /\ WalkLine.position = Reached(n).position /\ next = Reached(n).head
    BY <1>2, <1>3, RecordTaken DEF WalkRecord
  <2>2. pair = Reached(n)
    BY <2>1 DEF Reached
  <2>3. /\ w_position' = [w_position EXCEPT !["epoch"] = WalkLine.position]
        /\ w_head' = [w_head EXCEPT !["epoch"] = next]
        /\ w_heads' = [w_heads EXCEPT !["epoch"] = Append(@, pair)]
        /\ w_lines' = [w_lines EXCEPT !["epoch"] = Append(@, WalkLine)]
        /\ w_outcome' = w_outcome
    BY <2>1, WalkDigest DEF Records!Accept
  <2> HIDE DEF pair, next
  <2>4. /\ "epoch" \in DOMAIN w_position' /\ "epoch" \in DOMAIN w_heads'
        /\ w_position'["epoch"] = WalkLine.position /\ w_head'["epoch"] = next
        /\ w_heads'["epoch"] = Append(w_heads["epoch"], pair)
        /\ w_lines'["epoch"] = Append(w_lines["epoch"], WalkLine)
    BY <2>3 DEF WalkOnCourse, WalkInv
  <2>5. Len(w_lines'["epoch"]) = n
    BY <2>4, AppendFacts DEF WalkInv
  <2> DEFINE hs == w_heads["epoch"]
             hs2 == w_heads'["epoch"]
  <2>6. IsSequence(hs2) /\ Len(hs2) = Len(hs) + 1 /\ hs2[Len(hs) + 1] = pair /\ Len(hs) \in Nat
    BY <2>4, AppendFacts DEF WalkOnCourse
  <2>7. hs2 # << >>
    BY <2>6, EmptyIsSequence
  <2>8. Records!WalkChain("epoch")' = pair
    BY <2>6, <2>7 DEF Records!WalkChain
  <2> QED
    BY <1>1, <1>2, <2>1, <2>2, <2>3, <2>4, <2>5, <2>6, <2>8 DEF WalkOnCourse
<1>4. CASE ~(m < Len(epoch))
  <2>1. Records!Finish("epoch")
    BY <1>4 DEF WalkRecord
  <2>2. /\ w_outcome' = [w_outcome EXCEPT !["epoch"] = "ok"]
        /\ UNCHANGED <<w_start, w_position, w_head, w_heads, w_lines>>
    BY <2>1 DEF Records!Finish
  <2>3. w_outcome'["epoch"] = "ok"
    BY <2>2 DEF WalkInv
  <2>4. Records!WalkChain("epoch")' = Records!WalkChain("epoch")
    BY <2>2 DEF Records!WalkChain
  <2> QED
    BY <1>1, <2>2, <2>3, <2>4 DEF WalkOnCourse
<1> QED
  BY <1>3, <1>4

LEMMA WalkRecordCourse ==
  ASSUME Exported, PhaseInv, OnCourse, WalkRecord, UNCHANGED recipe
  PROVE  OnCourse'
<1>1. stage = "walk" /\ stage' = stage /\ findings' = findings
      /\ UNCHANGED <<bundle, keyVars, checkpointVars>>
  BY DEF WalkRecord, FilesUnchanged, resultVars
<1>2. /\ stage \in AfterMembers /\ stage \in AfterCheckpoints /\ stage \notin AfterContent
      /\ stage \notin AfterClosure /\ stage # "done" /\ stage # "closure"
  BY <1>1 DEF AfterMembers, AfterCheckpoints, AfterRecords, AfterWalk, AfterCompromise,
         AfterErasures, AfterClosure, AfterContent
<1>3. AuthorityOnCourse /\ WalkOnCourse /\ Elements(findings) = {} /\ WalkInv
      /\ KeysOnCourse /\ CheckpointsOnCourse
  BY <1>2 DEF OnCourse, Passed, Valid, Done, PhaseInv, FindingsInv
<1>4. KeysOnCourse' /\ CheckpointsOnCourse' /\ AuthorityOnCourse'
  BY <1>1, <1>3, ReadersStay
<1>5. WalkOnCourse'
  BY <1>3, WalkRecordWalk
<1>6. Elements(findings)' = {}
  BY <1>1, <1>3 DEF Elements
<1> QED
  BY <1>1, <1>2, <1>4, <1>5, <1>6 DEF OnCourse, Passed, Valid, Done

(* The walk ends where the range does, after as many records as declared.  *)
LEMMA RecordsWalkedCourse ==
  ASSUME Exported, PhaseInv, OnCourse, RecordsWalked, UNCHANGED recipe
  PROVE  OnCourse'
<1>1. stage = "walk" /\ Step("walk", "compromise", ChainFindings) /\ UNCHANGED walkVars
      /\ w_outcome["epoch"] # "walking"
  BY DEF RecordsWalked
<1>2. WalkInv /\ WalkOnCourse /\ CheckpointsOnCourse /\ Bounded
  BY <1>1 DEF OnCourse, PhaseInv, FindingsInv, FilesInv, Passed, AfterCheckpoints, AfterRecords
<1>3. w_outcome["epoch"] = "ok" /\ Len(w_lines["epoch"]) = Len(epoch)
  BY <1>1, <1>2 DEF WalkOnCourse, WalkInv
<1>4. Len(epoch) = Total - recipe.window /\ recipe.window + Len(epoch) = Total
  BY HonestEpoch, HonestSizes
<1>5. Records!WalkChain("epoch") = Reached(Len(epoch))
  BY <1>2, <1>3 DEF WalkOnCourse
<1>6. Reached(Len(epoch)).position = Total /\ Reached(Len(epoch)).head = HeadAt(Journal(recipe), Total)
  BY <1>4 DEF Reached
<1>7. LandsOnEnd
  BY <1>2, <1>5, <1>6, HonestBounds DEF LandsOnEnd
<1>8. ChainFindings = << >> \o << >>
  BY <1>3, <1>4, <1>7, HonestManifest DEF ChainFindings
<1>9. IsSequence(ChainFindings) /\ Elements(ChainFindings) = {}
  BY <1>8, EmptyIsSequence, Joined
<1> QED
  BY <1>1, <1>9, QuietStep DEF Late

LEMMA ClassifyCompromiseCourse ==
  ASSUME Exported, PhaseInv, OnCourse, ClassifyCompromise, UNCHANGED recipe
  PROVE  OnCourse'
<1> DEFINE seqs == [i \in DOMAIN epoch |->
                      IF i \in record_infos THEN CompromiseFindings(epoch[i]) ELSE << >>]
<1>1. Gathered(epoch, record_infos, CompromiseFindings) = FlattenSeq(seqs)
  BY DEF Gathered
<1>2. Step("compromise", "erasures", FlattenSeq(seqs)) /\ UNCHANGED walkVars
  BY <1>1 DEF ClassifyCompromise
<1>3. k_compromise = << >>
  BY Unsealed DEF PhaseInv, ReadingInv
<1>4. \A line : CompromiseFindings(line) = << >>
  BY <1>3 DEF CompromiseFindings, Keys!classify_compromise, Keys!Sealed
<1>5. IsSequence(FlattenSeq(seqs)) /\ Elements(FlattenSeq(seqs)) = {}
  <2>1. \A i \in DOMAIN epoch : seqs[i] = << >>
    BY <1>4
  <2>2. seqs = [i \in DOMAIN epoch |-> seqs[i]]
    OBVIOUS
  <2> HIDE DEF seqs
  <2> QED
    BY <2>1, <2>2, HonestEpoch, GatheredNothing
<1> HIDE DEF seqs
<1> QED
  BY <1>2, <1>5, QuietStep DEF Late

(* The range as the verifier sees it: the records after the window's start.*)
LEMMA HonestRange ==
  ASSUME Exported, PhaseInv, KeysOK, record_infos = Faultless
  PROVE  /\ record_infos = DOMAIN epoch
         /\ in_range_positions = recipe.window + 1 .. Total
<1>1. record_infos = DOMAIN epoch /\ \A i \in DOMAIN epoch : epoch[i].position = recipe.window + i
  BY HonestRecords
<1>2. in_range_positions = {recipe.window + i : i \in 1 .. Len(epoch)}
  BY <1>1, HonestEpoch DEF in_range_positions
<1>3. /\ recipe.window \in Nat /\ Total \in Nat /\ Len(epoch) = Total - recipe.window
      /\ Len(epoch) \in Nat
  BY HonestSizes, HonestEpoch
<1>4. \A w, t \in Nat : {w + i : i \in 1 .. t - w} = w + 1 .. t
  <2> SUFFICES ASSUME NEW w \in Nat, NEW t \in Nat
               PROVE  {w + i : i \in 1 .. t - w} = w + 1 .. t
    OBVIOUS
  <2>1. \A p \in w + 1 .. t : p - w \in 1 .. t - w /\ w + (p - w) = p
    OBVIOUS
  <2>2. \A i \in 1 .. t - w : w + i \in w + 1 .. t
    OBVIOUS
  <2> QED
    BY <2>1, <2>2
<1> QED
  BY <1>1, <1>2, <1>3, <1>4

(* The erasures of the range are the journal's erasure records in it, and  *)
(* they target what was erased by a call of erase.                         *)
LEMMA HonestErasure ==
  ASSUME Exported, NEW i \in DOMAIN epoch
  PROVE  LET p == recipe.window + i
             t == epoch[i].body.target
         IN  /\ epoch[i].body.kind = "erasure" <=> ~(p <= N(recipe))
             /\ epoch[i].body.kind = "erasure" =>
                  /\ t = InRange(recipe)[p - N(recipe)]
                  /\ t \in 1 .. N(recipe) /\ recipe.content[t]
                  /\ recipe.erase[t] \in {"erase", "keep"}
<1> DEFINE p == recipe.window + i
           prev == JournalHead(recipe)[p - 1]
           line == Entry(recipe, p, prev)
           k == p - N(recipe)
           t == epoch[i].body.target
<1>1. p \in 1 .. Total /\ epoch[i] = line
  BY HonestEpoch
<1> HIDE DEF p, prev
<1>2. /\ p <= N(recipe) => line.body.kind = "note"
      /\ ~(p <= N(recipe)) =>
           /\ line.body.kind = "erasure" /\ k \in 1 .. Len(InRange(recipe))
           /\ line.body.target = InRange(recipe)[k]
  BY <1>1, HonestEntry
<1>3. ASSUME ~(p <= N(recipe))
      PROVE  t \in 1 .. N(recipe) /\ recipe.content[t] /\ recipe.erase[t] \in {"erase", "keep"}
  <2>1. t = InRange(recipe)[k] /\ k \in 1 .. Len(InRange(recipe))
    BY <1>1, <1>2, <1>3
  <2>2. t \in Targeted(recipe, {"erase", "keep"})
    BY <2>1, TargetsAre DEF InRange, Exported
  <2> QED
    BY <2>2 DEF Targeted
<1> QED
  BY <1>1, <1>2, <1>3 DEF p

LEMMA CollectErasuresCourse ==
  ASSUME Exported, PhaseInv, OnCourse, CollectErasures, UNCHANGED recipe
  PROVE  OnCourse'
<1> DEFINE seqs == [i \in DOMAIN epoch |->
                      IF i \in Erasures THEN ErasureFindings(epoch[i]) ELSE << >>]
           w == recipe.window
<1>1. Gathered(epoch, Erasures, ErasureFindings) = FlattenSeq(seqs)
  BY DEF Gathered
<1>2. /\ Step("erasures", "closure", FlattenSeq(seqs)) /\ UNCHANGED walkVars
      /\ erasure_targets' = TargetsIn(epoch, Erasures)
  BY <1>1 DEF CollectErasures
<1>3. KeysOK /\ Bounded /\ record_infos = Faultless /\ CheckpointsOnCourse
  BY <1>2 DEF Step, OnCourse, PhaseInv, FilesInv, FindingsInv, Passed, AfterKeys, AfterManifest, AfterMembers,
     AfterCheckpoints, AfterRecords, AfterWalk, AfterCompromise
<1>4. record_infos = DOMAIN epoch /\ in_range_positions = w + 1 .. Total
      /\ bounds.start_position = w
  BY <1>3, HonestRange, HonestBounds
<1>5. /\ w \in Nat /\ Total \in Nat /\ N(recipe) \in Nat
      /\ Len(InRange(recipe)) \in Nat /\ Total = N(recipe) + Len(InRange(recipe))
      /\ Len(epoch) = Total - w /\ DOMAIN epoch = 1 .. Len(epoch)
  BY HonestSizes, HonestEpoch
<1> HIDE DEF w
<1>6. ASSUME NEW t \in 1 .. N(recipe)
      PROVE  t \in in_range_positions <=> ~(t <= w)
  BY <1>4, <1>5
<1>7. IsSequence(FlattenSeq(seqs)) /\ Elements(FlattenSeq(seqs)) = {}
  <2>1. ASSUME NEW i \in DOMAIN epoch PROVE seqs[i] = << >>
    <3>1. CASE i \in Erasures
      <4> DEFINE t == epoch[i].body.target
      <4>1. epoch[i].body.kind = "erasure"
        BY <3>1 DEF Erasures
      <4>2. t \in 1 .. N(recipe)
        BY <4>1, HonestErasure
      <4>3. t # 0
        BY <1>5, <4>2
      <4>4. t \in in_range_positions \/ BeforeWindow(t)
        BY <1>4, <1>6, <4>2, <4>3 DEF BeforeWindow
      <4> QED
        BY <3>1, <4>4 DEF ErasureFindings
    <3> QED
      BY <3>1
  <2>2. seqs = [i \in DOMAIN epoch |-> seqs[i]]
    OBVIOUS
  <2> HIDE DEF seqs
  <2> QED
    BY <2>1, <2>2, HonestEpoch, GatheredNothing
<1> HIDE DEF seqs
<1>8. TargetsIn(epoch, Erasures) \subseteq ErasedInWindow
  <2> SUFFICES ASSUME NEW i \in Erasures, epoch[i].body.target \in in_range_positions
               PROVE  epoch[i].body.target \in ErasedInWindow
    BY DEF TargetsIn
  <2> DEFINE t == epoch[i].body.target
  <2>1. i \in DOMAIN epoch /\ epoch[i].body.kind = "erasure"
    BY <1>4 DEF Erasures
  <2>2. t \in 1 .. N(recipe) /\ recipe.content[t] /\ recipe.erase[t] \in {"erase", "keep"}
    BY <2>1, HonestErasure
  <2>3. t > w
    BY <1>5, <1>6, <2>2
  <2> HIDE DEF t
  <2>4. t \in ErasedInWindow
    BY <2>2, <2>3 DEF ErasedInWindow, InWindow, w
  <2> QED
    BY <2>4 DEF t
<1>9. ASSUME NEW t \in ErasedInWindow PROVE t \in TargetsIn(epoch, Erasures)
  <2>1. t \in 1 .. N(recipe) /\ t > w /\ recipe.content[t] /\ recipe.erase[t] \in {"erase", "keep"}
    BY DEF ErasedInWindow, InWindow, w
  <2>2. t \in Targeted(recipe, {"erase", "keep"})
    BY <2>1 DEF Targeted
  <2>3. PICK k \in 1 .. Len(InRange(recipe)) : InRange(recipe)[k] = t
    BY <2>2, TargetNamed DEF InRange, Exported
  <2> DEFINE i == (N(recipe) + k) - w
  <2>4. i \in 1 .. Len(epoch) /\ w + i = N(recipe) + k /\ (w + i) - N(recipe) = k
        /\ ~(w + i <= N(recipe))
    BY <1>5, <2>1
  <2>5. i \in DOMAIN epoch
    BY <1>5, <2>4
  <2> HIDE DEF i
  <2>6. epoch[i].body.kind = "erasure" /\ epoch[i].body.target = InRange(recipe)[(w + i) - N(recipe)]
    BY <2>4, <2>5, HonestErasure DEF w
  <2>7. i \in Erasures /\ epoch[i].body.target = t
    BY <1>4, <2>3, <2>4, <2>5, <2>6 DEF Erasures
  <2>8. t \in in_range_positions
    BY <1>5, <1>6, <2>1
  <2> QED
    BY <2>7, <2>8 DEF TargetsIn
<1>10. erasure_targets' = ErasedInWindow
  BY <1>2, <1>8, <1>9
<1> QED
  BY <1>2, <1>7, <1>10, QuietStep DEF Late

LEMMA CollectClosureCourse ==
  ASSUME Exported, PhaseInv, OnCourse, CollectClosure, UNCHANGED recipe
  PROVE  OnCourse'
<1> DEFINE seqs == [i \in DOMAIN closure |->
                      IF i \in DOMAIN closure THEN ClosureFindings(closure[i]) ELSE << >>]
           count == IF manifest.closure = Len(closure) THEN << >> ELSE << Finding(10, 0) >>
           admitted == {i \in DOMAIN closure : ClosureAdmits(closure[i])}
           erased == Targets(recipe, {"closure"})
           w == recipe.window
<1>1. Gathered(closure, DOMAIN closure, ClosureFindings) = FlattenSeq(seqs)
  BY DEF Gathered
<1>2. /\ Step("closure", "content", FlattenSeq(seqs) \o count) /\ UNCHANGED walkVars
      /\ erasure_targets' = erasure_targets \cup TargetsIn(closure, admitted)
  BY <1>1 DEF CollectClosure
<1>3. KeysOK /\ Bounded /\ record_infos = Faultless /\ CheckpointsOnCourse
      /\ erasure_targets = ErasedInWindow
  BY <1>2 DEF Step, OnCourse, PhaseInv, FilesInv, FindingsInv, Passed, AfterKeys, AfterManifest, AfterMembers,
     AfterCheckpoints, AfterRecords, AfterWalk, AfterCompromise, AfterErasures
<1>4. /\ in_range_positions = w + 1 .. Total
      /\ bounds.start_position = w /\ bounds.end_position = Total
  BY <1>3, HonestRange, HonestBounds
<1>5. /\ w \in Nat /\ Total \in Nat /\ N(recipe) \in Nat /\ N(recipe) <= Total
  <2>1. /\ w \in Nat /\ Total \in Nat /\ N(recipe) \in Nat
        /\ Len(InRange(recipe)) \in Nat /\ Total = N(recipe) + Len(InRange(recipe))
    BY HonestSizes
  <2> QED
    BY <2>1
<1>6. /\ IsSequence(closure) /\ DOMAIN closure = 1 .. Len(erased)
      /\ \A i \in DOMAIN closure :
           /\ i \in Nat \ {0} /\ WellSigned(closure[i], Total + i)
           /\ closure[i].body.kind = "erasure" /\ closure[i].body.target = erased[i]
  BY HonestClosure
<1>7. {erased[i] : i \in 1 .. Len(erased)} = Targeted(recipe, {"closure"})
  BY TargetsAre DEF Exported
<1> HIDE DEF w, erased
<1>8. ASSUME NEW t \in Targeted(recipe, {"closure"})
      PROVE  t \in InWindow /\ recipe.content[t] /\ recipe.erase[t] = "closure"
             /\ t \in in_range_positions
  <2>1. t \in 1 .. N(recipe) /\ recipe.content[t] /\ recipe.erase[t] = "closure"
    BY DEF Targeted
  <2>2. t > w
    BY <2>1 DEF Exported, HonestButContent, ClosureTargets, w
  <2>3. t \in in_range_positions
    BY <1>4, <1>5, <2>1, <2>2
  <2> QED
    BY <2>1, <2>2, <2>3 DEF InWindow, w
<1>9. ASSUME NEW i \in DOMAIN closure
      PROVE  ClosureAdmits(closure[i]) /\ ClosureFindings(closure[i]) = << >>
  <2> DEFINE p == Total + i
  <2>1. p \in Nat /\ ~(p <= Total)
    BY <1>5, <1>6
  <2>2. WellSigned(closure[i], p)
    BY <1>6
  <2> HIDE DEF p
  <2>3. FaultRow(closure[i]) = 0 /\ RecordFindings(closure[i]) = << >>
    BY <1>3, <2>1, <2>2, WellSignedLine
  <2>4. ClosureAdmits(closure[i])
    BY <1>4, <1>6, <2>1, <2>2, <2>3 DEF ClosureAdmits, InExportedRange, WellSigned
  <2>5. closure[i].body.target \in in_range_positions
    BY <1>6, <1>7, <1>8
  <2>6. ClosureFindings(closure[i]) = << >> \o << >>
    BY <2>3, <2>4, <2>5 DEF ClosureFindings
  <2> QED
    BY <2>4, <2>6
<1>10. IsSequence(FlattenSeq(seqs)) /\ Elements(FlattenSeq(seqs)) = {}
  <2>1. \A i \in DOMAIN closure : seqs[i] = << >>
    BY <1>9
  <2>2. seqs = [i \in DOMAIN closure |-> seqs[i]]
    OBVIOUS
  <2> HIDE DEF seqs
  <2> QED
    BY <1>6, <2>1, <2>2, GatheredNothing
<1>11. count = << >>
  BY HonestManifest
<1> HIDE DEF seqs, count
<1>12. IsSequence(FlattenSeq(seqs) \o count) /\ Elements(FlattenSeq(seqs) \o count) = {}
  BY <1>10, <1>11, EmptyIsSequence, Joined
<1>13. TargetsIn(closure, admitted) = Targeted(recipe, {"closure"})
  <2>1. admitted = 1 .. Len(erased)
    BY <1>6, <1>9
  <2>2. {closure[i].body.target : i \in admitted} = {erased[i] : i \in 1 .. Len(erased)}
    BY <1>6, <2>1
  <2> HIDE DEF admitted
  <2> QED
    BY <1>7, <1>8, <2>2 DEF TargetsIn
<1>14. ErasedInWindow \cup Targeted(recipe, {"closure"}) = TargetsInWindow
  BY <1>8 DEF ErasedInWindow, TargetsInWindow, InWindow, Targeted
<1>15. erasure_targets' = TargetsInWindow
  BY <1>2, <1>3, <1>13, <1>14
<1> QED
  BY <1>2, <1>12, <1>15, QuietStep DEF Late

-----------------------------------------------------------------------------
(* The content of an honest export.                                        *)

(* A record of an honest epoch and its content.                            *)
LEMMA HonestContent ==
  ASSUME Exported, NEW i \in DOMAIN epoch
  PROVE  LET p == recipe.window + i
         IN  /\ epoch[i].position = p
             /\ epoch[i].body.content_hash # NoContent <=>
                  p \in 1 .. N(recipe) /\ recipe.content[p]
             /\ epoch[i].body.content_hash # NoContent =>
                  /\ p \in InWindow /\ recipe.erase[p] \in {"none", "erase", "closure", "drop", "keep"}
                  /\ Absent(epoch[i]) <=> recipe.erase[p] \notin {"none", "keep"}
                  /\ ~Absent(epoch[i]) => ContentMatches(epoch[i])
<1> DEFINE p == recipe.window + i
           prev == JournalHead(recipe)[p - 1]
           line == Entry(recipe, p, prev)
<1>1. /\ p \in 1 .. Total /\ epoch[i] = line /\ p > recipe.window
      /\ N(recipe) \in Nat /\ (p <= N(recipe) <=> p \in 1 .. N(recipe))
  <2>1. p \in 1 .. Total /\ epoch[i] = line /\ i \in 1 .. Len(epoch) /\ Len(epoch) \in Nat
    BY HonestEpoch
  <2>2. recipe.window \in Nat /\ Total \in Nat /\ N(recipe) \in Nat
    BY HonestSizes
  <2> QED
    BY <2>1, <2>2
<1> HIDE DEF p, prev
<1>2. /\ WellSigned(line, p)
      /\ p <= N(recipe) => line.body.content_hash = ContentHash(recipe, p)
      /\ ~(p <= N(recipe)) => line.body.content_hash = NoContent
  BY <1>1, HonestEntry
<1>3. content_hash(Salt(p), p) # NoContent
  BY DEF content_hash, NoContent
<1>4. epoch[i].position = p
  BY <1>1, <1>2 DEF WellSigned
<1>5. epoch[i].body.content_hash # NoContent <=> p \in 1 .. N(recipe) /\ recipe.content[p]
  BY <1>1, <1>2, <1>3 DEF ContentHash
<1>6. ASSUME epoch[i].body.content_hash # NoContent
      PROVE  /\ p \in InWindow /\ recipe.erase[p] \in {"none", "erase", "closure", "drop", "keep"}
             /\ Absent(epoch[i]) <=> recipe.erase[p] \notin {"none", "keep"}
             /\ ~Absent(epoch[i]) => ContentMatches(epoch[i])
  <2>1. p \in 1 .. N(recipe) /\ recipe.content[p] /\ p > recipe.window
    BY <1>1, <1>5, <1>6
  <2>2. p \in InWindow /\ recipe.erase[p] \in {"none", "erase", "closure", "drop", "keep"}
    BY <2>1, NoHooks DEF InWindow
  <2>3. Content(p) \in MemberNames(recipe) <=> HasContent(recipe, p)
    BY <2>1, NamesDiffer DEF MemberNames
  <2>4. Has(Content(p)) <=> HasContent(recipe, p)
    BY <2>3, HonestMembers, NamesDiffer DEF Has
  <2>5. HasContent(recipe, p) <=> recipe.erase[p] \in {"none", "keep"}
    BY <2>1, <2>2 DEF HasContent
  <2>6. Absent(epoch[i]) <=> recipe.erase[p] \notin {"none", "keep"}
    BY <1>4, <2>2, <2>4, <2>5 DEF Absent
  <2>7. ASSUME ~Absent(epoch[i]) PROVE ContentMatches(epoch[i])
    <3>1. Content(p) \in MemberNames(recipe)
      BY <1>4, <2>3, <2>4, <2>7 DEF Absent
    <3>2. bundle.members[Content(p)] = Member(ContentBytes(p))
      BY <3>1, HonestMembers, BytesOf
    <3>3. Bytes(Content(p)) = << Salt(p), p >> /\ ~Flipped(Content(p))
      BY <3>2 DEF Bytes, Flipped, Member, ContentBytes
    <3>4. epoch[i].body.content_hash = content_hash(Salt(p), p)
      BY <1>1, <1>2, <2>1 DEF ContentHash
    <3> QED
      BY <1>4, <3>3, <3>4 DEF ContentMatches
  <2> QED
    BY <2>2, <2>6, <2>7
<1> QED
  BY <1>4, <1>5, <1>6 DEF p

(* A record with content stands in the epoch at its place.                 *)
LEMMA RecordWithContent ==
  ASSUME Exported, NEW p \in InWindow, recipe.content[p]
  PROVE  LET i == p - recipe.window
         IN  /\ i \in DOMAIN epoch /\ recipe.window + i = p
             /\ epoch[i].body.content_hash # NoContent
<1> DEFINE w == recipe.window
           i == p - w
<1>1. p \in 1 .. N(recipe) /\ p > w /\ recipe.content[p]
  BY DEF InWindow
<1>2. /\ w \in Nat /\ N(recipe) \in Nat /\ Len(InRange(recipe)) \in Nat
      /\ Total = N(recipe) + Len(InRange(recipe)) /\ Total \in Nat
      /\ Len(epoch) = Total - w /\ DOMAIN epoch = 1 .. Len(epoch)
  BY HonestSizes, HonestEpoch
<1> HIDE DEF w
<1>3. i \in 1 .. Len(epoch) /\ w + i = p
  BY <1>1, <1>2
<1>4. i \in DOMAIN epoch
  BY <1>2, <1>3
<1> HIDE DEF i
<1>5. epoch[i].body.content_hash # NoContent
  BY <1>1, <1>3, <1>4, HonestContent DEF w
<1> QED
  BY <1>3, <1>4, <1>5 DEF i, w

(* Each withheld record is counted once.                                   *)
LEMMA HonestWithheld ==
  ASSUME Exported, record_infos = DOMAIN epoch, erasure_targets = TargetsInWindow
  PROVE  actual_withheld = Cardinality(WithheldPositions)
<1> DEFINE w == recipe.window
           absent == {i \in WithContent : Absent(epoch[i]) /\ Erased(epoch[i])}
           place == [i \in absent |-> w + i]
<1>1. /\ w \in Nat /\ Len(epoch) \in Nat /\ DOMAIN epoch = 1 .. Len(epoch)
  BY HonestSizes, HonestEpoch
<1>2. absent \in SUBSET (1 .. Len(epoch)) /\ IsFiniteSet(1 .. Len(epoch))
  BY <1>1, FS_Interval DEF WithContent
<1>3. ASSUME NEW i \in absent PROVE w + i \in WithheldPositions
  <2>1. i \in DOMAIN epoch /\ Erased(epoch[i])
    BY <1>1, <1>2
  <2> DEFINE p == w + i
  <2>2. epoch[i].position = p
    BY <2>1, HonestContent
  <2>3. epoch[i].body.content_hash # NoContent /\ Absent(epoch[i])
    BY DEF WithContent
  <2>4. recipe.erase[p] \notin {"none", "keep"}
    BY <2>1, <2>3, HonestContent
  <2>5. p \in TargetsInWindow
    BY <2>1, <2>2 DEF Erased
  <2> QED
    BY <2>4, <2>5 DEF TargetsInWindow, WithheldPositions
<1>4. ASSUME NEW p \in WithheldPositions PROVE \E i \in absent : place[i] = p
  <2> DEFINE i == p - w
  <2>1. i \in DOMAIN epoch /\ w + i = p /\ epoch[i].body.content_hash # NoContent
    BY RecordWithContent DEF WithheldPositions
  <2>2. recipe.erase[p] \in {"erase", "closure"} /\ p \in TargetsInWindow
    BY DEF WithheldPositions, TargetsInWindow
  <2> HIDE DEF i
  <2>3. Absent(epoch[i]) /\ epoch[i].position = p
    BY <2>1, <2>2, HonestContent
  <2>4. i \in absent
    BY <2>1, <2>2, <2>3 DEF WithContent, Erased
  <2>5. place[i] = p
    BY <2>1, <2>4
  <2> QED
    BY <2>4, <2>5
<1>5. \A i, j \in absent : i \in Nat /\ j \in Nat
  BY <1>1, <1>2
<1> HIDE DEF absent, w
<1>6. IsFiniteSet(absent)
  BY <1>2, FS_Subset
<1>7. \A i, j \in absent : w + i = w + j => i = j
  <2>1. \A a, b, c \in Nat : a + b = a + c => b = c
    OBVIOUS
  <2> QED
    BY <1>1, <1>5, <2>1
<1>8. place \in Bijection(absent, WithheldPositions)
  BY <1>3, <1>4, <1>7 DEF Bijection, Injection, Surjection, IsInjective
<1> HIDE DEF place
<1>9. ExistsBijection(absent, WithheldPositions)
  BY <1>8 DEF ExistsBijection
<1>10. Cardinality(WithheldPositions) = Cardinality(absent)
  BY <1>6, <1>9, FS_Bijection
<1> QED
  BY <1>10 DEF actual_withheld, absent

(* What is said of the content is what there is to say.                    *)
LEMMA HonestContentFindings ==
  ASSUME Exported, record_infos = DOMAIN epoch, erasure_targets = TargetsInWindow
  PROVE  LET said == Gathered(epoch, WithContent, ContentFindings)
         IN  IsSequence(said) /\ Elements(said) = OfContent
<1> DEFINE w == recipe.window
           seqs == [i \in DOMAIN epoch |->
                      IF i \in WithContent THEN ContentFindings(epoch[i]) ELSE << >>]
           OfPlace(p) == {f \in OfContent : f.position = p}
<1>1. Gathered(epoch, WithContent, ContentFindings) = FlattenSeq(seqs)
  BY DEF Gathered
<1>2. \A p : /\ p \in WithheldPositions \cup DroppedPositions \cup KeptPositions =>
                  p \in InWindow /\ recipe.content[p]
             /\ p \in WithheldPositions => OfPlace(p) = {Finding(13, p)}
             /\ p \in DroppedPositions => OfPlace(p) = {Finding(14, p)}
             /\ p \in KeptPositions => OfPlace(p) = {Finding(15, p)}
             /\ p \notin WithheldPositions \cup DroppedPositions \cup KeptPositions => OfPlace(p) = {}
  <2> SUFFICES ASSUME NEW p
               PROVE /\ p \in WithheldPositions \cup DroppedPositions \cup KeptPositions =>
                          p \in InWindow /\ recipe.content[p]
                     /\ p \in WithheldPositions => OfPlace(p) = {Finding(13, p)}
                     /\ p \in DroppedPositions => OfPlace(p) = {Finding(14, p)}
                     /\ p \in KeptPositions => OfPlace(p) = {Finding(15, p)}
                     /\ p \notin WithheldPositions \cup DroppedPositions \cup KeptPositions =>
                          OfPlace(p) = {}
    OBVIOUS
  <2>1. /\ p \in WithheldPositions => p \notin DroppedPositions /\ p \notin KeptPositions
        /\ p \in DroppedPositions => p \notin KeptPositions
    BY DEF WithheldPositions, DroppedPositions, KeptPositions
  <2>2. \A f : f \in OfPlace(p) <=>
                 \/ p \in WithheldPositions /\ f = Finding(13, p)
                 \/ p \in DroppedPositions /\ f = Finding(14, p)
                 \/ p \in KeptPositions /\ f = Finding(15, p)
    BY DEF OfContent, Finding
  <2>3. p \in WithheldPositions \cup DroppedPositions \cup KeptPositions =>
          p \in InWindow /\ recipe.content[p]
    BY DEF WithheldPositions, DroppedPositions, KeptPositions
  <2> HIDE DEF OfPlace
  <2> QED
    BY <2>1, <2>2, <2>3
<1>3. ASSUME NEW i \in DOMAIN epoch
      PROVE  IsSequence(seqs[i]) /\ Elements(seqs[i]) = OfPlace(w + i)
  <2> DEFINE p == w + i
  <2>1. CASE i \in WithContent
    <3>1. epoch[i].body.content_hash # NoContent /\ seqs[i] = ContentFindings(epoch[i])
      BY <2>1 DEF WithContent
    <3>2. /\ epoch[i].position = p /\ p \in InWindow /\ recipe.content[p]
          /\ recipe.erase[p] \in {"none", "erase", "closure", "drop", "keep"}
          /\ Absent(epoch[i]) <=> recipe.erase[p] \notin {"none", "keep"}
          /\ ~Absent(epoch[i]) => ContentMatches(epoch[i])
      BY <3>1, HonestContent
    <3> HIDE DEF p
    <3>3. /\ p \in WithheldPositions <=> recipe.erase[p] \in {"erase", "closure"}
          /\ p \in DroppedPositions <=> recipe.erase[p] = "drop"
          /\ p \in KeptPositions <=> recipe.erase[p] = "keep"
          /\ Erased(epoch[i]) <=> recipe.erase[p] \in {"erase", "closure", "keep"}
      BY <3>2 DEF WithheldPositions, DroppedPositions, KeptPositions, TargetsInWindow, Erased
    <3>4. ContentFindings(epoch[i]) =
            IF p \in WithheldPositions THEN << Finding(13, p) >>
            ELSE IF p \in DroppedPositions THEN << Finding(14, p) >>
            ELSE IF p \in KeptPositions THEN << Finding(15, p) >>
            ELSE << >>
      BY <3>2, <3>3 DEF ContentFindings
    <3> HIDE DEF seqs, OfPlace
    <3>5. /\ \A g : IsSequence(<< g >>) /\ Elements(<< g >>) = {g}
          /\ IsSequence(<< >>) /\ Elements(<< >>) = {}
      BY OneIsSequence, EmptyIsSequence
    <3>6. CASE p \in WithheldPositions
      <4>1. seqs[i] = << Finding(13, p) >> /\ OfPlace(p) = {Finding(13, p)}
        BY <1>2, <3>1, <3>4, <3>6
      <4> QED
        BY <3>5, <4>1 DEF p
    <3>7. CASE p \in DroppedPositions /\ p \notin WithheldPositions
      <4>1. seqs[i] = << Finding(14, p) >> /\ OfPlace(p) = {Finding(14, p)}
        BY <1>2, <3>1, <3>4, <3>7
      <4> QED
        BY <3>5, <4>1 DEF p
    <3>8. CASE p \in KeptPositions /\ p \notin WithheldPositions \cup DroppedPositions
      <4>1. seqs[i] = << Finding(15, p) >> /\ OfPlace(p) = {Finding(15, p)}
        BY <1>2, <3>1, <3>4, <3>8
      <4> QED
        BY <3>5, <4>1 DEF p
    <3>9. CASE p \notin WithheldPositions \cup DroppedPositions \cup KeptPositions
      <4>1. seqs[i] = << >> /\ OfPlace(p) = {}
        BY <1>2, <3>1, <3>4, <3>9
      <4> QED
        BY <3>5, <4>1 DEF p
    <3> QED
      BY <3>6, <3>7, <3>8, <3>9
  <2>2. CASE i \notin WithContent
    <3>1. seqs[i] = << >> /\ epoch[i].body.content_hash = NoContent
      BY <2>2 DEF WithContent
    <3>2. ~(p \in InWindow /\ recipe.content[p])
      BY <3>1, HonestContent DEF InWindow
    <3> HIDE DEF seqs, OfPlace, p
    <3> QED
      BY <1>2, <3>1, <3>2, EmptyIsSequence DEF p
  <2> QED
    BY <2>1, <2>2
<1>4. seqs = [i \in DOMAIN epoch |-> seqs[i]] /\ DOMAIN seqs = DOMAIN epoch
  OBVIOUS
<1> HIDE DEF seqs
<1>5. IsSequence(seqs)
  <2>1. Len(epoch) \in Nat /\ DOMAIN epoch = 1 .. Len(epoch)
    BY HonestEpoch
  <2> QED
    BY <1>4, <2>1, ComprehensionIsSequence
<1>6. /\ IsSequence(FlattenSeq(seqs))
      /\ Elements(FlattenSeq(seqs)) = UNION {Elements(seqs[i]) : i \in DOMAIN epoch}
  BY <1>3, <1>4, <1>5, Flattened
<1>7. \A f \in OfContent : \E i \in DOMAIN epoch : w + i = f.position
  <2>1. \A f \in OfContent : f.position \in InWindow /\ recipe.content[f.position]
    BY DEF OfContent, Finding, WithheldPositions, DroppedPositions, KeptPositions
  <2> QED
    BY <2>1, RecordWithContent
<1> HIDE DEF w
<1>8. UNION {Elements(seqs[i]) : i \in DOMAIN epoch} = OfContent
  <2>1. ASSUME NEW f \in UNION {Elements(seqs[i]) : i \in DOMAIN epoch}
        PROVE  f \in OfContent
    <3>1. PICK i \in DOMAIN epoch : f \in Elements(seqs[i])
      OBVIOUS
    <3> QED
      BY <1>3, <3>1
  <2>2. ASSUME NEW f \in OfContent
        PROVE  f \in UNION {Elements(seqs[i]) : i \in DOMAIN epoch}
    <3>1. PICK i \in DOMAIN epoch : w + i = f.position
      BY <1>7
    <3>2. f \in Elements(seqs[i])
      BY <1>3, <3>1
    <3> QED
      BY <3>2
  <2> QED
    BY <2>1, <2>2
<1> QED
  BY <1>1, <1>6, <1>8

-----------------------------------------------------------------------------
(* Step by step: to the verdict.                                           *)

(* Only of the recipe.                                                     *)
LEMMA OfContentStays ==
  ASSUME UNCHANGED recipe
  PROVE  /\ WithheldPositions' = WithheldPositions /\ OfContent' = OfContent
         /\ ErasedInWindow' = ErasedInWindow /\ TargetsInWindow' = TargetsInWindow
<1>1. InWindow' = InWindow
  BY DEF InWindow
<1>2. /\ WithheldPositions' = WithheldPositions /\ DroppedPositions' = DroppedPositions
      /\ KeptPositions' = KeptPositions
      /\ ErasedInWindow' = ErasedInWindow /\ TargetsInWindow' = TargetsInWindow
  BY <1>1 DEF WithheldPositions, DroppedPositions, KeptPositions, ErasedInWindow, TargetsInWindow
<1> QED
  BY <1>2 DEF OfContent

(* What is said besides leaves what was told of the content.               *)
LEMMA ToldStays ==
  ASSUME Told, IsSequence(findings), NEW more, IsSequence(more),
         \A f \in Elements(more) : f.row \in Aside,
         findings' = findings \o more, UNCHANGED <<recipe, withheld>>
  PROVE  Told'
<1>1. Elements(findings') = Elements(findings) \cup Elements(more)
  BY Joined
<1>2. {f \in Elements(findings') : f.row \notin Aside} = {f \in Elements(findings) : f.row \notin Aside}
  BY <1>1
<1>3. Elements(findings)' = Elements(findings')
  BY DEF Elements
<1>4. Aside' = Aside
  BY DEF Aside
<1> QED
  BY <1>2, <1>3, <1>4, OfContentStays DEF Told

LEMMA ExamineContentCourse ==
  ASSUME Exported, PhaseInv, OnCourse, ExamineContent, UNCHANGED recipe
  PROVE  OnCourse'
<1> DEFINE said == Gathered(epoch, WithContent, ContentFindings)
           count == IF manifest.withheld_erased = actual_withheld THEN << >> ELSE << Finding(10, 0) >>
<1>1. /\ Step("content", "informational", said \o count) /\ withheld' = actual_withheld
      /\ UNCHANGED <<erasure_targets, walkVars>>
  BY DEF ExamineContent
<1>2. /\ stage = "content" /\ stage' = "informational" /\ findings' = findings \o (said \o count)
      /\ UNCHANGED <<bundle, keyVars, checkpointVars>>
  BY <1>1 DEF Step, Found, FilesUnchanged
<1>3. /\ KeysOK /\ record_infos = Faultless /\ KeysOnCourse /\ CheckpointsOnCourse
      /\ AuthorityOnCourse /\ WalkOnCourse /\ erasure_targets = TargetsInWindow
      /\ Elements(findings) = {} /\ IsSequence(findings)
  BY <1>2 DEF OnCourse, PhaseInv, ReadingInv, FilesInv, FindingsInv, Passed, Valid, Done, AfterKeys,
     AfterManifest, AfterMembers, AfterCheckpoints, AfterRecords, AfterWalk, AfterCompromise,
     AfterErasures, AfterClosure, AfterContent
<1>4. record_infos = DOMAIN epoch
  BY <1>3, HonestRecords
<1>5. actual_withheld = Cardinality(WithheldPositions)
  BY <1>3, <1>4, HonestWithheld
<1>6. IsSequence(said) /\ Elements(said) = OfContent
  BY <1>3, <1>4, HonestContentFindings
<1>7. count = << >>
  <2>1. manifest.withheld_erased = Withheld(recipe)
    BY HonestManifest
  <2>2. WithheldPositions = {p \in 1 .. N(recipe) : recipe.content[p]
                               /\ recipe.erase[p] \in {"erase", "closure"} /\ p > recipe.window}
    BY DEF WithheldPositions, InWindow
  <2>3. Withheld(recipe) = Cardinality(WithheldPositions)
    BY <2>2 DEF Withheld
  <2> QED
    BY <1>5, <2>1, <2>3
<1> HIDE DEF said, count
<1>8. Elements(findings)' = OfContent
  <2>1. IsSequence(said \o count) /\ Elements(said \o count) = Elements(said) \cup {}
    BY <1>6, <1>7, EmptyIsSequence, Joined
  <2>2. Elements(findings') = Elements(findings) \cup Elements(said \o count)
    BY <1>2, <1>3, <2>1, Joined
  <2>3. Elements(findings') = OfContent
    BY <1>3, <1>6, <2>1, <2>2
  <2> QED
    BY <2>3 DEF Elements
<1>9. Told'
  <2>1. \A f \in OfContent : f.row \notin Aside
    BY DEF OfContent, Finding, Aside
  <2>2. Aside' = Aside
    BY DEF Aside
  <2> QED
    BY <1>1, <1>5, <1>8, <2>1, <2>2, OfContentStays DEF Told
<1>10. KeysOnCourse' /\ CheckpointsOnCourse' /\ AuthorityOnCourse' /\ WalkOnCourse'
  BY <1>1, <1>2, <1>3, ReadersStay
<1>11. stage' = "informational" /\ erasure_targets' = TargetsInWindow'
  BY <1>1, <1>2, <1>3, OfContentStays
<1> QED
  BY <1>9, <1>10, <1>11 DEF OnCourse, Passed, Valid, Done, AfterContent

LEMMA InformCourse ==
  ASSUME Exported, PhaseInv, Typed, OnCourse, Inform, UNCHANGED recipe
  PROVE  OnCourse'
<1> DEFINE seqs == [i \in DOMAIN anchors |->
                      IF i \in DOMAIN anchors THEN AnchorFindings(anchors[i]) ELSE << >>]
           empty == IF manifest.records = 0 THEN << Finding(25, 0) >> ELSE << >>
           Harmless(s) == \A f \in Elements(s) : f.row \in Aside
<1>1. Gathered(anchors, DOMAIN anchors, AnchorFindings) = FlattenSeq(seqs)
  BY DEF Gathered
<1>2. IsSequence(FlattenSeq(seqs)) /\ Harmless(FlattenSeq(seqs))
  <2>1. ASSUME NEW i \in DOMAIN anchors PROVE IsSequence(seqs[i]) /\ Harmless(seqs[i])
    <3>1. \A row \in {18, 19, 23} : \A p : Harmless(<< Finding(row, p) >>)
      BY OneIsSequence DEF Finding, Aside
    <3>2. Harmless(<< >>)
      BY EmptyIsSequence
    <3>3. seqs[i] = AnchorFindings(anchors[i])
      OBVIOUS
    <3> QED
      BY <3>1, <3>2, <3>3, AnchorFindingsSequence DEF AnchorFindings
  <2>2. seqs = [i \in DOMAIN anchors |-> seqs[i]] /\ DOMAIN seqs = DOMAIN anchors
    OBVIOUS
  <2>3. Len(anchors) \in Nat /\ DOMAIN anchors = 1 .. Len(anchors)
    BY AnchorsSequence, SequenceDomain
  <2> HIDE DEF seqs
  <2>4. IsSequence(seqs)
    BY <2>2, <2>3, ComprehensionIsSequence
  <2> QED
    BY <2>1, <2>2, <2>4, Flattened
<1>3. IsSequence(empty) /\ Harmless(empty)
  BY OneIsSequence, EmptyIsSequence DEF Finding, Aside
<1>4. IsSequence(ClockFindings) /\ Harmless(ClockFindings) /\ IsSequence(findings)
  <2>1. IsSequence(ClockFindings) /\ IsSequence(findings)
    BY ClockFindingsSequence DEF PhaseInv, ReadingInv
  <2> QED
    BY <2>1 DEF ClockFindings, Elements, Finding, Aside
<1>5. /\ Step("informational", "verdict", ClockFindings \o FlattenSeq(seqs) \o empty)
      /\ UNCHANGED <<erasure_targets, withheld, walkVars>>
  BY <1>1 DEF Inform
<1> HIDE DEF seqs, empty
<1>6. IsSequence(ClockFindings \o FlattenSeq(seqs) \o empty)
      /\ Harmless(ClockFindings \o FlattenSeq(seqs) \o empty)
  <2>1. IsSequence(ClockFindings \o FlattenSeq(seqs)) /\ Harmless(ClockFindings \o FlattenSeq(seqs))
    BY <1>2, <1>4, Joined
  <2> QED
    BY <1>3, <2>1, Joined
<1>7. /\ stage = "informational" /\ stage' = "verdict"
      /\ findings' = findings \o (ClockFindings \o FlattenSeq(seqs) \o empty)
      /\ UNCHANGED <<bundle, keyVars, checkpointVars>>
  BY <1>5 DEF Step, Found, FilesUnchanged
<1>8. /\ KeysOnCourse /\ CheckpointsOnCourse /\ AuthorityOnCourse /\ WalkOnCourse
      /\ erasure_targets = TargetsInWindow /\ Told
  BY <1>7 DEF OnCourse, Passed, AfterMembers, AfterCheckpoints, AfterRecords, AfterWalk,
     AfterCompromise, AfterErasures, AfterClosure, AfterContent
<1>9. Told'
  BY <1>4, <1>5, <1>6, <1>7, <1>8, ToldStays
<1>10. erasure_targets' = TargetsInWindow'
  BY <1>5, <1>8, OfContentStays
<1>11. KeysOnCourse' /\ CheckpointsOnCourse' /\ AuthorityOnCourse' /\ WalkOnCourse'
  BY <1>5, <1>7, <1>8, ReadersStay
<1> QED
  BY <1>7, <1>9, <1>10, <1>11 DEF OnCourse, Passed, Valid, Done, AfterContent

LEMMA ConcludeCourse ==
  ASSUME Exported, PhaseInv, OnCourse, Conclude, UNCHANGED recipe
  PROVE  OnCourse'
<1>1. /\ Step("verdict", "done", << >>) /\ report' = classify(findings)
      /\ UNCHANGED <<erasure_targets, withheld, walkVars>>
  BY DEF Conclude
<1>2. /\ stage = "verdict" /\ stage' = "done" /\ findings' = findings \o << >>
      /\ UNCHANGED <<bundle, keyVars, checkpointVars>>
  BY <1>1 DEF Step, Found, FilesUnchanged
<1>3. /\ KeysOnCourse /\ CheckpointsOnCourse /\ AuthorityOnCourse /\ WalkOnCourse
      /\ erasure_targets = TargetsInWindow /\ Told /\ IsSequence(findings)
  BY <1>2 DEF OnCourse, PhaseInv, ReadingInv, Passed, AfterMembers, AfterCheckpoints, AfterRecords,
     AfterWalk, AfterCompromise, AfterErasures, AfterClosure, AfterContent
<1>4. Told'
  BY <1>1, <1>2, <1>3, EmptyIsSequence, ToldStays
<1>5. findings' = findings
  <2>1. findings \in Seq(Elements(findings))
    BY <1>3 DEF IsSequence
  <2> HIDE DEF Elements
  <2> QED
    BY <1>2, <2>1
<1>6. classify(findings)' = classify(findings)
  BY <1>5 DEF classify, Mapped, is_blocking_tampered, is_blocking_cannot_verify, Finding, Min
<1>7. KeysOnCourse' /\ CheckpointsOnCourse' /\ AuthorityOnCourse' /\ WalkOnCourse'
  BY <1>1, <1>2, <1>3, ReadersStay
<1>8. erasure_targets' = TargetsInWindow' /\ report' = classify(findings)'
  BY <1>1, <1>3, <1>6, OfContentStays
<1> QED
  BY <1>2, <1>4, <1>7, <1>8 DEF OnCourse, Passed, Done

-----------------------------------------------------------------------------
(* The invariant holds.                                                    *)

(* Only ever one more hook is queued.                                      *)
LEMMA HooksFinite ==
  ASSUME RecipeInv, IsFiniteSet(recipe.hooks), Call
  PROVE  IsFiniteSet(recipe'.hooks)
<1> USE DEF RecipeInv, Recipe
<1>1. CASE with_recovery_key
  BY <1>1 DEF with_recovery_key
<1>2. ASSUME NEW p \in RotationAt, with_rotation(p) PROVE recipe'.hooks = recipe.hooks
  BY <1>2 DEF with_rotation
<1>3. ASSUME NEW p \in CompromiseAt, with_compromise(p) PROVE recipe'.hooks = recipe.hooks
  BY <1>3 DEF with_compromise
<1>4. ASSUME NEW c \in BOOLEAN, add_record(c) PROVE recipe'.hooks = recipe.hooks
  BY <1>4 DEF add_record
<1>5. ASSUME NEW p \in 1 .. MaxRecords, NEW mode \in EraseMode, erase(p, mode)
      PROVE  recipe'.hooks = recipe.hooks
  BY <1>5 DEF erase
<1>6. ASSUME NEW a \in AnchorOffered, with_anchor(a) PROVE recipe'.hooks = recipe.hooks
  BY <1>6 DEF with_anchor
<1>7. CASE zero_records
  BY <1>7 DEF zero_records
<1>8. ASSUME NEW times \in ClockOffered, with_checkpoint_times(times)
      PROVE  recipe'.hooks = recipe.hooks
  BY <1>8 DEF with_checkpoint_times
<1>9. ASSUME NEW p \in WindowAt, export_window_start(p) PROVE recipe'.hooks = recipe.hooks
  BY <1>9 DEF export_window_start
<1>10. ASSUME NEW h \in HookOffered, Hook(h) PROVE IsFiniteSet(recipe'.hooks)
  <2> DEFINE others == {g \in recipe.hooks : ~Replaces(h, g)}
             hooks == others \cup {h}
  <2>1. recipe' = [recipe EXCEPT !.hooks = hooks]
    BY <1>10 DEF Hook
  <2>2. IsFiniteSet(others)
    BY FS_Subset
  <2>3. IsFiniteSet(hooks)
    BY <2>2, FS_AddElement
  <2> HIDE DEF hooks
  <2>4. recipe'.hooks = hooks
    BY <2>1
  <2> QED
    BY <2>3, <2>4
<1> QED
  BY <1>1, <1>2, <1>3, <1>4, <1>5, <1>6, <1>7, <1>8, <1>9, <1>10 DEF Call

(* Built, the verification of an honest export starts on its course.       *)
LEMMA HonestBuild ==
  ASSUME PhaseInv, HonestInv, Build
  PROVE  OnCourse'
<1>1. Unread /\ findings = << >> /\ c_head = GENESIS_PREV
  BY DEF Build, PhaseInv, HonestInv
<1>2. stage' = "container" /\ UNCHANGED <<findings, keyVars, checkpointVars>>
  BY DEF Build, resultVars
<1>3. /\ k_outcome' = "reading" /\ c_outcome' = "reading" /\ c_lines' = << >>
      /\ c_checkpoints' = << >> /\ c_head' = GENESIS_PREV /\ findings' = << >>
  BY <1>1, <1>2 DEF Unread, keyVars, checkpointVars
<1>4. Len(<< >>) = 0
  OBVIOUS
<1>5. KeysOnCourse' /\ CheckpointsOnCourse'
  BY <1>3, <1>4 DEF KeysOnCourse, CheckpointsOnCourse
<1>6. Elements(findings)' = {}
  BY <1>3, EmptyIsSequence DEF Elements
<1> QED
  BY <1>2, <1>5, <1>6 DEF OnCourse, Passed, Valid, Done, AfterMembers, AfterCheckpoints, AfterRecords,
     AfterWalk, AfterCompromise, AfterErasures, AfterClosure, AfterContent

(* The course stays where nothing happens.                                 *)
LEMMA CourseStays ==
  ASSUME OnCourse, UNCHANGED vars
  PROVE  OnCourse'
<1>1. UNCHANGED <<recipe, stage, bundle, findings, report, erasure_targets, withheld>>
      /\ UNCHANGED <<keyVars, checkpointVars, walkVars>>
  BY DEF vars, verifyVars, resultVars
<1>2. /\ KeysOnCourse => KeysOnCourse'
      /\ CheckpointsOnCourse => CheckpointsOnCourse'
      /\ AuthorityOnCourse => AuthorityOnCourse'
      /\ WalkOnCourse => WalkOnCourse'
  BY <1>1, ReadersStay
<1>3. (Valid' <=> Valid) /\ (Done' <=> Done) /\ \A s : (Passed(s)' <=> Passed(s))
  BY <1>1 DEF Valid, Done, Passed
<1>4. ErasedInWindow' = ErasedInWindow /\ TargetsInWindow' = TargetsInWindow
  BY <1>1, OfContentStays
<1>5. Elements(findings)' = Elements(findings) /\ (Told' <=> Told)
  BY <1>1, OfContentStays DEF Told, Aside, Elements
<1>6. classify(findings)' = classify(findings)
  BY <1>1 DEF classify, Mapped, is_blocking_tampered, is_blocking_cannot_verify, Finding, Min
<1> QED
  BY <1>1, <1>2, <1>3, <1>4, <1>5, <1>6 DEF OnCourse, Passed

(* What is erased is content.                                              *)
LEMMA ErasedIsContent ==
  ASSUME RecipeInv, ContentErased, Call
  PROVE  ContentErased'
<1> USE DEF RecipeInv, Recipe, N
<1>1. ASSUME recipe'.erase = recipe.erase, recipe'.content = recipe.content PROVE ContentErased'
  BY <1>1 DEF ContentErased
<1>2. CASE with_recovery_key
  BY <1>1, <1>2 DEF with_recovery_key
<1>3. ASSUME NEW p \in RotationAt, with_rotation(p) PROVE ContentErased'
  BY <1>1, <1>3 DEF with_rotation
<1>4. ASSUME NEW p \in CompromiseAt, with_compromise(p) PROVE ContentErased'
  BY <1>1, <1>4 DEF with_compromise
<1>5. ASSUME NEW c \in BOOLEAN, add_record(c) PROVE ContentErased'
  <2> DEFINE longer == Append(recipe.content, c)
  <2>1. /\ Len(longer) = Len(recipe.content) + 1 /\ Len(recipe.content) \in Nat
        /\ \A p \in 1 .. Len(recipe.content) : longer[p] = recipe.content[p] /\ p \in 1 .. Len(longer)
    OBVIOUS
  <2>2. recipe' = [recipe EXCEPT !.content = longer]
    BY <1>5 DEF add_record
  <2> HIDE DEF longer
  <2>3. recipe'.content = longer /\ recipe'.erase = recipe.erase
    BY <2>2
  <2> QED
    BY <2>1, <2>3 DEF ContentErased
<1>6. ASSUME NEW p \in 1 .. MaxRecords, NEW mode \in EraseMode, erase(p, mode) PROVE ContentErased'
  <2> DEFINE erased == [recipe.erase EXCEPT ![p] = mode]
  <2>1. p \in 1 .. N(recipe) /\ recipe.content[p] /\ recipe' = [recipe EXCEPT !.erase = erased]
    BY <1>6 DEF erase
  <2>2. \A q \in 1 .. MaxRecords : q = p \/ erased[q] = recipe.erase[q]
    OBVIOUS
  <2> HIDE DEF erased
  <2>3. recipe'.erase = erased /\ recipe'.content = recipe.content
    BY <2>1
  <2> QED
    BY <2>1, <2>2, <2>3 DEF ContentErased
<1>7. ASSUME NEW a \in AnchorOffered, with_anchor(a) PROVE ContentErased'
  BY <1>1, <1>7 DEF with_anchor
<1>8. CASE zero_records
  BY <1>1, <1>8 DEF zero_records
<1>9. ASSUME NEW times \in ClockOffered, with_checkpoint_times(times) PROVE ContentErased'
  BY <1>1, <1>9 DEF with_checkpoint_times
<1>10. ASSUME NEW p \in WindowAt, export_window_start(p) PROVE ContentErased'
  BY <1>1, <1>10 DEF export_window_start
<1>11. ASSUME NEW h \in HookOffered, Hook(h) PROVE ContentErased'
  BY <1>1, <1>11 DEF Hook
<1> QED
  BY <1>2, <1>3, <1>4, <1>5, <1>6, <1>7, <1>8, <1>9, <1>10, <1>11 DEF Call

(* Once built, a bundle is not written again.                              *)
LEMMA NeverBack ==
  ASSUME Verify
  PROVE  stage # "recipe" /\ stage' # "recipe"
BY DEF Verify, OpenContainer, ReadKeyLine, KeysRead, VerifyManifest, VerifyMembers,
   ReadCheckpointLine, CheckpointsRead, AnalyzeRecords, WalkRecord, RecordsWalked,
   ClassifyCompromise, CollectErasures, CollectClosure, ExamineContent, Inform, Conclude, Step,
   Terminal, goto

LEMMA HonestStep ==
  ASSUME PipelineInv, HonestInv, [Next]_vars
  PROVE  HonestInv'
<1>1. CASE Write
  <2>1. /\ stage = "recipe" /\ stage' = "recipe" /\ findings' = findings /\ c_head' = c_head
    BY <1>1 DEF Write, verifyVars, resultVars, checkpointVars
  <2>2. IsFiniteSet(recipe'.hooks) /\ ContentErased'
    BY <1>1, HooksFinite, ErasedIsContent DEF Write, PipelineInv, HonestInv
  <2> QED
    BY <2>1, <2>2 DEF HonestInv
<1>2. ASSUME UNCHANGED recipe
      PROVE  /\ HonestButContent' <=> HonestButContent
             /\ IsFiniteSet(recipe'.hooks) /\ ContentErased'
  BY <1>2 DEF HonestButContent, RotationsAscend, Total, ClosureTargets, ContentErased, HonestInv
<1>3. CASE Build
  <2>1. stage' = "container" /\ recipe' = recipe
    BY <1>3 DEF Build
  <2> QED
    BY <1>2, <1>3, <2>1, HonestBuild DEF HonestInv, PipelineInv
<1>4. CASE UNCHANGED vars
  <2>1. recipe' = recipe /\ stage' = stage /\ findings' = findings /\ c_head' = c_head
    BY <1>4 DEF vars, verifyVars, resultVars, checkpointVars
  <2> QED
    BY <1>2, <1>4, <2>1, CourseStays DEF HonestInv
<1>5. CASE Verify /\ UNCHANGED recipe
  <2>1. stage # "recipe" /\ stage' # "recipe"
    BY <1>5, NeverBack
  <2>2. ASSUME HonestButContent PROVE OnCourse'
    <3>1. Exported /\ PhaseInv /\ OnCourse /\ Typed
      BY <2>1, <2>2, BuiltTyped DEF Exported, PipelineInv, BuiltInv, HonestInv
    <3> QED
      BY <1>5, <3>1, OpenContainerCourse, ReadKeyLineCourse, KeysReadCourse, VerifyManifestCourse,
         VerifyMembersCourse, ReadCheckpointLineCourse, CheckpointsReadCourse,
         AnalyzeRecordsCourse, WalkRecordCourse, RecordsWalkedCourse, ClassifyCompromiseCourse,
         CollectErasuresCourse, CollectClosureCourse, ExamineContentCourse, InformCourse,
         ConcludeCourse DEF Verify
  <2> QED
    BY <1>2, <1>5, <2>1, <2>2 DEF HonestInv
<1> QED
  BY <1>1, <1>3, <1>4, <1>5 DEF Next

LEMMA HonestInvariant == Spec => [](PipelineInv /\ HonestInv)
<1>1. Init => HonestInv
  <2> SUFFICES ASSUME Init PROVE HonestInv
    OBVIOUS
  <2>1. recipe.hooks = {} /\ \A p \in 1 .. MaxRecords : recipe.erase[p] = "none"
    BY DEF Init, InitRecipe, NewRecipe
  <2> QED
    BY <2>1, FS_EmptySet DEF Init, InitVerify, HonestInv, ContentErased
<1>2. PipelineInv /\ HonestInv /\ [Next]_vars => HonestInv'
  BY HonestStep
<1> QED
  BY <1>1, <1>2, PipelineInvariant, PTL DEF Spec

-----------------------------------------------------------------------------
(* What is said of an export that is honest but for its content.           *)

(* Of its content everything is said, and of nothing else anything that    *)
(* blocks.                                                                 *)
ContentIsAccounted ==
  Done /\ HonestButContent =>
    /\ report = classify(findings)
    /\ {f \in Elements(findings) : f.row \notin Aside} = OfContent
    /\ withheld = Cardinality(WithheldPositions)

(* However much content is dropped or kept, at once and beside honest      *)
(* erasures, each instance is reported at its position, no instance hides  *)
(* another, and no record, key, count or checkpoint is blamed for it       *)
(* (drop_erasure and keep_content_despite_erasure of builder.rs, Phase B5  *)
(* of verify.rs).                                                          *)
THEOREM AccountedAlways == Spec => []ContentIsAccounted
<1>1. PipelineInv /\ HonestInv => ContentIsAccounted
  BY DEF ContentIsAccounted, HonestInv, OnCourse, Done, Told
<1> QED
  BY <1>1, HonestInvariant, PTL

(* Deviations are the hooks and the content dropped or kept.               *)
LEMMA MutationsAre ==
  ASSUME RecipeInv, IsFiniteSet(recipe.hooks)
  PROVE  LET altered == {p \in 1 .. MaxRecords : recipe.erase[p] \in {"drop", "keep"}}
         IN  /\ Mutations(recipe) = 0 => recipe.hooks = {} /\ altered = {}
             /\ Mutations(recipe) = 1 /\ recipe.hooks = {} => \E p : altered = {p}
<1> DEFINE altered == {p \in 1 .. MaxRecords : recipe.erase[p] \in {"drop", "keep"}}
<1>1. IsFiniteSet(1 .. MaxRecords)
  <2>1. MaxRecords \in Nat
    BY BuilderAssumption
  <2> QED
    BY <2>1, FS_Interval
<1>2. IsFiniteSet(altered)
  BY <1>1, FS_Subset
<1>3. Mutations(recipe) = Cardinality(recipe.hooks) + Cardinality(altered)
  BY DEF Mutations
<1> HIDE DEF altered
<1>4. Cardinality(recipe.hooks) \in Nat /\ Cardinality(altered) \in Nat
  BY <1>2, FS_CardinalityType
<1>5. ASSUME Mutations(recipe) = 0 PROVE recipe.hooks = {} /\ altered = {}
  <2>1. Cardinality(recipe.hooks) = 0 /\ Cardinality(altered) = 0
    BY <1>3, <1>4, <1>5
  <2> QED
    BY <1>2, <2>1, FS_EmptySet
<1>6. ASSUME Mutations(recipe) = 1, recipe.hooks = {} PROVE \E p : altered = {p}
  <2>1. Cardinality(recipe.hooks) = 0
    BY <1>6, FS_EmptySet
  <2>2. Cardinality(altered) = 1
    BY <1>3, <1>4, <1>6, <2>1
  <2> QED
    BY <1>2, <2>2, FS_Singleton
<1> QED
  BY <1>5, <1>6 DEF altered

LEMMA RecordsBounded ==
  ASSUME RecipeInv
  PROVE  \A p \in InWindow : p \in 1 .. N(recipe) /\ p \in 1 .. MaxRecords
<1>1. N(recipe) \in Nat /\ N(recipe) <= MaxRecords /\ MaxRecords \in Nat
  BY BuilderAssumption DEF RecipeInv, Recipe, N
<1> QED
  BY <1>1 DEF InWindow

LEMMA HonestEnd ==
  ASSUME PipelineInv, HonestInv
  PROVE  HonestIsValid
<1> SUFFICES ASSUME Done, HonestRecipe
             PROVE  /\ report.verdict = "VALID"
                    /\ Rows(findings) \subseteq Informational
                    /\ {findings[i].position : i \in {k \in 1 .. Len(findings) : findings[k].row = 13}}
                         = WithheldPositions
                    /\ withheld = Cardinality(WithheldPositions)
  BY DEF HonestIsValid
<1>1. /\ recipe.hooks = {}
      /\ \A p \in 1 .. MaxRecords : recipe.erase[p] \notin {"drop", "keep"}
  BY MutationsAre DEF HonestRecipe, PipelineInv, HonestInv
<1>2. HonestButContent
  BY <1>1 DEF HonestButContent, HonestRecipe, ClosureTargets
<1>3. report = classify(findings) /\ Told
  BY <1>2 DEF HonestInv, OnCourse, Done
<1>4. OfContent = {Finding(13, p) : p \in WithheldPositions}
  <2>1. DroppedPositions = {} /\ KeptPositions = {}
    BY <1>1, RecordsBounded DEF DroppedPositions, KeptPositions, PipelineInv
  <2> QED
    BY <2>1 DEF OfContent
<1>5. \A p : Finding(13, p).row = 13 /\ Finding(13, p).position = p
  BY DEF Finding
<1>6. /\ \A f \in Elements(findings) : f.row \in Informational
      /\ {g \in Elements(findings) : g.row = 13} = {Finding(13, p) : p \in WithheldPositions}
  <2>1. \A f \in Elements(findings) : f.row \in Aside \/ f \in OfContent
    BY <1>3 DEF Told
  <2>2. \A f \in OfContent : f \in Elements(findings)
    BY <1>3 DEF Told
  <2>3. 13 \notin Aside /\ 13 \in Informational /\ Aside \subseteq Informational
    BY DEF Aside, Informational
  <2> QED
    BY <1>4, <1>5, <2>1, <2>2, <2>3
<1>7. IsSequence(findings) /\ DOMAIN findings = 1 .. Len(findings)
  BY SequenceDomain DEF PipelineInv, PhaseInv, ReadingInv
<1>8. Elements(findings) = {findings[i] : i \in 1 .. Len(findings)}
  BY <1>7 DEF Elements
<1>9. report.verdict = "VALID"
  BY <1>3, <1>6, <1>7, ClassifyClear DEF Clear
<1>10. Rows(findings) \subseteq Informational
  BY <1>6, <1>8 DEF Rows
<1>11. {findings[i].position : i \in {k \in 1 .. Len(findings) : findings[k].row = 13}} = WithheldPositions
  <2>1. {findings[i].position : i \in {k \in 1 .. Len(findings) : findings[k].row = 13}}
          = {f.position : f \in {g \in Elements(findings) : g.row = 13}}
    BY <1>8
  <2>2. \A f \in {Finding(13, p) : p \in WithheldPositions} : f.position \in WithheldPositions
    BY <1>5
  <2>3. \A p \in WithheldPositions :
          \E f \in {Finding(13, q) : q \in WithheldPositions} : f.position = p
    BY <1>5
  <2> QED
    BY <1>6, <2>1, <2>2, <2>3
<1> QED
  BY <1>3, <1>9, <1>10, <1>11 DEF Told

(* An honest export verifies, at every size: whatever the rotations, the   *)
(* window, the erasures, the anchors and the clocks its recipe calls for,  *)
(* verify_bundle ends with VALID, no finding that blocks, and exactly the  *)
(* withheld content named (builder.rs and verify.rs together).             *)
THEOREM HonestAlways == Spec => []HonestIsValid
BY HonestInvariant, HonestEnd, PTL

(* If a single finding blocks, it dominates.                               *)
LEMMA ClassifyOne ==
  ASSUME NEW s, IsSequence(s), NEW f \in Elements(s), f.row \in 1 .. 26 \ Informational,
         \A g \in Elements(s) : g.row \in Informational \/ g = f
  PROVE  classify(s).dominant = f
<1> DEFINE mapped == [i \in DOMAIN s |-> Mapped(s[i])]
           tampered == {i \in DOMAIN mapped : is_blocking_tampered(mapped[i].row)}
           unverifiable == {i \in DOMAIN mapped : is_blocking_cannot_verify(mapped[i].row)}
<1>1. /\ DOMAIN mapped = DOMAIN s /\ DOMAIN s = 1 .. Len(s) /\ Len(s) \in Nat
      /\ \A i \in DOMAIN s : mapped[i] = Mapped(s[i]) /\ s[i] \in Elements(s)
  BY SequenceDomain DEF Elements
<1>2. \A g \in Elements(s) :
        is_blocking_tampered(Mapped(g).row) \/ is_blocking_cannot_verify(Mapped(g).row) =>
          g = f /\ Mapped(g) = f
  BY DEF Mapped, is_blocking_tampered, is_blocking_cannot_verify, Informational
<1>3. PICK k \in DOMAIN s : s[k] = f
  BY DEF Elements
<1>4. k \in tampered \/ k \in unverifiable
  <2>1. Mapped(f) = f
    BY DEF Mapped
  <2>2. is_blocking_tampered(f.row) \/ is_blocking_cannot_verify(f.row)
    BY DEF is_blocking_tampered, is_blocking_cannot_verify, Informational
  <2> QED
    BY <1>1, <1>3, <2>1, <2>2
<1>5. \A i \in tampered \cup unverifiable : mapped[i] = f
  BY <1>1, <1>2
<1>6. tampered \in SUBSET (1 .. Len(s)) /\ unverifiable \in SUBSET (1 .. Len(s))
  BY <1>1
<1>7. classify(s).dominant =
        IF tampered # {} THEN mapped[Min(tampered)]
        ELSE IF unverifiable # {} THEN mapped[Min(unverifiable)]
        ELSE IF mapped = << >> THEN Finding(1, 0) ELSE mapped[1]
  BY DEF classify
<1> HIDE DEF mapped, tampered, unverifiable
<1>8. tampered # {} => Min(tampered) \in tampered
  BY <1>1, <1>6, MinOf
<1>9. unverifiable # {} => Min(unverifiable) \in unverifiable
  BY <1>1, <1>6, MinOf
<1> QED
  BY <1>4, <1>5, <1>7, <1>8, <1>9

LEMMA ErasureEnd ==
  ASSUME PipelineInv, HonestInv
  PROVE  ErasureIsReported
<1> SUFFICES ASSUME Done, recipe.hooks = {}, Mutations(recipe) = 1, RotationsAscend,
                    recipe.compromise = 0, ~recipe.zero,
                    recipe.window = 0 \/ recipe.window < Total,
                    \A q \in ClosureTargets : q > recipe.window,
                    NEW p \in InWindow, recipe.erase[p] \in {"drop", "keep"}
             PROVE  report.dominant = Finding(IF recipe.erase[p] = "drop" THEN 14 ELSE 15, p)
  BY DEF ErasureIsReported
<1> DEFINE f == Finding(IF recipe.erase[p] = "drop" THEN 14 ELSE 15, p)
<1>1. HonestButContent
  BY DEF HonestButContent
<1>2. report = classify(findings) /\ Told /\ IsSequence(findings)
  BY <1>1 DEF HonestInv, OnCourse, Done, PipelineInv, PhaseInv, ReadingInv
<1>3. p \in 1 .. MaxRecords /\ recipe.content[p]
  BY RecordsBounded DEF PipelineInv, HonestInv, ContentErased
<1>4. \A q \in 1 .. MaxRecords : recipe.erase[q] \in {"drop", "keep"} => q = p
  BY <1>3, MutationsAre DEF PipelineInv, HonestInv
<1>5. DroppedPositions \cup KeptPositions = {p}
  <2>1. \A q \in DroppedPositions \cup KeptPositions :
          q \in 1 .. MaxRecords /\ recipe.erase[q] \in {"drop", "keep"}
    BY RecordsBounded DEF DroppedPositions, KeptPositions, PipelineInv
  <2>2. p \in DroppedPositions \cup KeptPositions
    BY <1>3 DEF DroppedPositions, KeptPositions
  <2> QED
    BY <1>4, <2>1, <2>2
<1>6. f \in OfContent /\ \A g \in OfContent : g = f \/ g.row = 13
  <2>1. CASE recipe.erase[p] = "drop"
    <3>1. DroppedPositions = {p} /\ KeptPositions = {}
      BY <1>5, <2>1 DEF DroppedPositions, KeptPositions
    <3> QED
      BY <2>1, <3>1 DEF OfContent, Finding
  <2>2. CASE recipe.erase[p] = "keep"
    <3>1. DroppedPositions = {} /\ KeptPositions = {p}
      BY <1>5, <2>2 DEF DroppedPositions, KeptPositions
    <3> QED
      BY <2>2, <3>1 DEF OfContent, Finding
  <2> QED
    BY <2>1, <2>2
<1>7. f.row \in {14, 15}
  BY DEF Finding
<1> HIDE DEF f
<1>8. f \in Elements(findings) /\ \A g \in Elements(findings) : g.row \in Informational \/ g = f
  <2>1. Aside \subseteq Informational /\ 13 \in Informational
    BY DEF Aside, Informational
  <2> QED
    BY <1>2, <1>6, <2>1 DEF Told
<1>9. f.row \in 1 .. 26 \ Informational
  BY <1>7 DEF Informational
<1>10. classify(findings).dominant = f
  BY <1>2, <1>8, <1>9, ClassifyOne
<1> QED
  BY <1>2, <1>10 DEF f

(* A single dropped or kept piece of content decides the verdict, at every *)
(* size and beside any honest erasures: its own row, at its own position,  *)
(* is the dominant finding.                                                *)
THEOREM ErasureAlways == Spec => []ErasureIsReported
BY HonestInvariant, ErasureEnd, PTL
=============================================================================
