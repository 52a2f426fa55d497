--------------------------- MODULE ChainWalkProofs ---------------------------
(***************************************************************************)
(* Theorems about the record-chain walker, for any number of walks, any    *)
(* anchors and any lines.                                                  *)
(***************************************************************************)
EXTENDS ChainWalk, TLAPS

(* The empty sequence, and what appending to a sequence of elements        *)
(* without a common type does: it keeps what was there and adds one.       *)
LEMMA EmptyIsSequence == IsSequence(<< >>) /\ Len(<< >>) = 0
  BY DEF IsSequence

LEMMA AppendFacts ==
  ASSUME NEW s, NEW e, IsSequence(s)
  PROVE  /\ IsSequence(Append(s, e))
         /\ Len(s) \in Nat
         /\ Len(Append(s, e)) = Len(s) + 1
         /\ \A i \in 1 .. Len(s) : Append(s, e)[i] = s[i]
         /\ Append(s, e)[Len(s) + 1] = e
<1> DEFINE longer == Append(s, e)
<1>1. s \in Seq(Elements(s) \cup {e})
  BY DEF IsSequence
<1>2. /\ longer \in Seq(Elements(s) \cup {e})
      /\ DOMAIN s = 1 .. Len(s) /\ Len(s) \in Nat /\ DOMAIN longer = 1 .. Len(s) + 1
      /\ \A i \in 1 .. Len(s) : longer[i] = s[i]
      /\ longer[Len(s) + 1] = e
  BY <1>1
<1>3. Elements(longer) = Elements(s) \cup {e}
  BY <1>2 DEF Elements
<1>4. QED
  BY <1>1, <1>2, <1>3 DEF IsSequence

(* The pair the walker holds is the last one it has pushed (or the anchor).*)
RunningPair ==
  \A w \in Walk :
    /\ position[w] = start[w].position + Len(heads[w])
    /\ head[w] = HeadBefore(w, Len(heads[w]) + 1)

Inv == TypeOK /\ Contiguous /\ EveryLinkChecked /\ RunningPair

(* Heads are terms: equal heads have equal predecessors and equal lines.   *)
LEMMA HeadInjective ==
  ASSUME NEW h1, NEW l1, NEW h2, NEW l2, HeadAfter(h1, l1) = HeadAfter(h2, l2)
  PROVE  h1 = h2 /\ l1 = l2
  BY DEF HeadAfter, head_hash, leaf_hash

(* What a step that accepts a line does, action by action and walk by walk.*)
LEMMA StepShape ==
  ASSUME [Next]_vars
  PROVE  \/ UNCHANGED <<start, position, head, heads, lines>>
            /\ (TypeOK => outcome' \in [Walk -> {"walking", "ok"} \cup ChainError])
         \/ \E w \in Walk : \E line \in OfferedLine(w) : Accept(w, line)
<1>1. CASE UNCHANGED vars
  BY <1>1 DEF vars, TypeOK
<1>2. CASE Next
  <2> PICK w \in Walk : \/ ParseFailure(w)
                        \/ \E line \in OfferedLine(w) : ReadLine(w, line)
                        \/ Finish(w)
    BY <1>2 DEF Next
  <2>1. CASE \E e \in ChainError : Reject(w, e)
    BY <2>1 DEF Reject, TypeOK, ChainError
  <2>2. CASE Finish(w)
    BY <2>2 DEF Finish, TypeOK
  <2>3. CASE \E line \in OfferedLine(w) : Accept(w, line)
    BY <2>3
  <2>4. QED
    BY <2>1, <2>2, <2>3
    DEF ParseFailure, ReadLine, Overflow, Read, Duplicate, Gap, LinkMismatch, ChainError
<1>3. QED
  BY <1>1, <1>2

(* An accepted line extends one walk by one pair and leaves the rest alone. *)
LEMMA AcceptShape ==
  ASSUME Inv, NEW w \in Walk, NEW line \in OfferedLine(w), Accept(w, line)
  PROVE  LET n == Len(heads[w])
             h == HeadAfter(head[w], line)
         IN  /\ n \in Nat
             /\ line.position = start[w].position + n + 1
             /\ line.position \in Position
             /\ line.prev_head = head[w]
             /\ start' = start /\ outcome' = outcome
             /\ position' = [position EXCEPT ![w] = line.position]
             /\ head' = [head EXCEPT ![w] = h]
             /\ DOMAIN heads' = Walk /\ DOMAIN lines' = Walk
             /\ \A v \in Walk \ {w} : heads'[v] = heads[v] /\ lines'[v] = lines[v]
             /\ IsSequence(heads'[w]) /\ IsSequence(lines'[w])
             /\ Len(heads'[w]) = n + 1 /\ Len(lines'[w]) = n + 1
             /\ \A i \in 1 .. n : heads'[w][i] = heads[w][i] /\ lines'[w][i] = lines[w][i]
             /\ heads'[w][n + 1] = [position |-> line.position, head |-> h]
             /\ lines'[w][n + 1] = line
<1> DEFINE n == Len(heads[w])
           h == HeadAfter(head[w], line)
           pair == [position |-> line.position, head |-> h]
<1>1. IsSequence(heads[w]) /\ IsSequence(lines[w]) /\ Len(lines[w]) = n
  BY DEF Inv, TypeOK
<1>2. n \in Nat
  BY <1>1 DEF IsSequence
<1>3. /\ line.position = position[w] + 1
      /\ line.prev_head = head[w]
      /\ line.position \in Position
  BY DEF Accept, Continues, Linked, Expected, OfferedLine
<1>4. position[w] = start[w].position + n
  BY DEF Inv, RunningPair
<1>5. start[w].position \in Int
  BY AnchorAssumption, MaxU64Assumption DEF Inv, TypeOK, Position
<1>6. line.position = start[w].position + n + 1
  BY <1>2, <1>3, <1>4, <1>5
<1>7. /\ DOMAIN heads = Walk /\ DOMAIN lines = Walk
      /\ start' = start /\ outcome' = outcome
      /\ position' = [position EXCEPT ![w] = line.position]
      /\ head' = [head EXCEPT ![w] = h]
      /\ heads' = [heads EXCEPT ![w] = Append(heads[w], pair)]
      /\ lines' = [lines EXCEPT ![w] = Append(lines[w], line)]
  BY DEF Accept, Inv, TypeOK
<1>8. heads'[w] = Append(heads[w], pair) /\ lines'[w] = Append(lines[w], line)
  BY <1>7
<1>9. /\ IsSequence(heads'[w]) /\ Len(heads'[w]) = n + 1
      /\ \A i \in 1 .. n : heads'[w][i] = heads[w][i]
      /\ heads'[w][n + 1] = pair
  BY <1>1, <1>8, AppendFacts
<1>10. /\ IsSequence(lines'[w]) /\ Len(lines'[w]) = n + 1
       /\ \A i \in 1 .. n : lines'[w][i] = lines[w][i]
       /\ lines'[w][n + 1] = line
  BY <1>1, <1>8, AppendFacts
<1>11. \A v \in Walk \ {w} : heads'[v] = heads[v] /\ lines'[v] = lines[v]
  BY <1>7
<1>12. DOMAIN heads' = Walk /\ DOMAIN lines' = Walk
  BY <1>7
<1> HIDE DEF h
<1>13. QED
  BY <1>2, <1>3, <1>6, <1>7, <1>9, <1>10, <1>11, <1>12 DEF h

-----------------------------------------------------------------------------
LEMMA InitInv == Init => Inv
<1> SUFFICES ASSUME Init PROVE Inv
  OBVIOUS
<1>1. \A w \in Walk : start[w] \in Anchor /\ start[w].position \in Position
  BY AnchorAssumption DEF Init
<1>2. \A w \in Walk : /\ IsSequence(heads[w]) /\ Len(heads[w]) = 0
                      /\ IsSequence(lines[w]) /\ Len(lines[w]) = 0
  BY EmptyIsSequence DEF Init
<1>3. TypeOK
  BY <1>1, <1>2 DEF Init, TypeOK
<1>4. Contiguous /\ EveryLinkChecked
  BY <1>2 DEF Contiguous, EveryLinkChecked
<1>5. RunningPair
  <2> SUFFICES ASSUME NEW w \in Walk
               PROVE  /\ position[w] = start[w].position + Len(heads[w])
                      /\ head[w] = HeadBefore(w, Len(heads[w]) + 1)
    BY DEF RunningPair
  <2>1. start[w].position \in Int
    BY <1>1, MaxU64Assumption DEF Position
  <2>2. QED
    BY <2>1, <1>2 DEF Init, HeadBefore
<1>6. QED
  BY <1>3, <1>4, <1>5 DEF Inv

(* The steps that accept nothing leave every conjunct as it is.             *)
LEMMA QuietInv ==
  ASSUME Inv, UNCHANGED <<start, position, head, heads, lines>>,
         outcome' \in [Walk -> {"walking", "ok"} \cup ChainError]
  PROVE  Inv'
<1>1. TypeOK'
  BY DEF Inv, TypeOK
<1>2. Contiguous' /\ EveryLinkChecked' /\ RunningPair'
  BY DEF Inv, Contiguous, EveryLinkChecked, RunningPair, HeadBefore
<1>3. QED
  BY <1>1, <1>2 DEF Inv

LEMMA AcceptInv ==
  ASSUME Inv, NEW w \in Walk, NEW line \in OfferedLine(w), Accept(w, line)
  PROVE  Inv'
<1> DEFINE n == Len(heads[w])
           h == HeadAfter(head[w], line)
<1>1. /\ n \in Nat
      /\ line.position = start[w].position + n + 1
      /\ line.position \in Position
      /\ line.prev_head = head[w]
      /\ start' = start /\ outcome' = outcome
      /\ position' = [position EXCEPT ![w] = line.position]
      /\ head' = [head EXCEPT ![w] = h]
      /\ DOMAIN heads' = Walk /\ DOMAIN lines' = Walk
      /\ \A v \in Walk \ {w} : heads'[v] = heads[v] /\ lines'[v] = lines[v]
      /\ IsSequence(heads'[w]) /\ IsSequence(lines'[w])
      /\ Len(heads'[w]) = n + 1 /\ Len(lines'[w]) = n + 1
      /\ \A i \in 1 .. n : heads'[w][i] = heads[w][i] /\ lines'[w][i] = lines[w][i]
      /\ heads'[w][n + 1] = [position |-> line.position, head |-> h]
      /\ lines'[w][n + 1] = line
  BY AcceptShape
<1> HIDE DEF n, h
<1>2. start[w].position \in Int /\ MaxU64 \in Int
  BY AnchorAssumption, MaxU64Assumption DEF Inv, TypeOK, Position
<1>3. /\ position'[w] = line.position /\ head'[w] = h
      /\ \A v \in Walk \ {w} : position'[v] = position[v] /\ head'[v] = head[v]
  BY <1>1 DEF Inv, TypeOK
<1>4. head[w] = HeadBefore(w, n + 1)
  BY DEF Inv, RunningPair, n
<1>5. \A i \in 1 .. n + 1 : HeadBefore(w, i)' = HeadBefore(w, i)
  BY <1>1 DEF HeadBefore
<1>6. TypeOK'
  <2>1. \A v \in Walk : /\ IsSequence(heads'[v]) /\ IsSequence(lines'[v])
                        /\ Len(heads'[v]) = Len(lines'[v])
    BY <1>1 DEF Inv, TypeOK
  <2>2. /\ start' \in [Walk -> Anchor] /\ position' \in [Walk -> Position]
        /\ outcome' \in [Walk -> {"walking", "ok"} \cup ChainError]
        /\ DOMAIN head' = Walk
    BY <1>1 DEF Inv, TypeOK
  <2>3. QED
    BY <1>1, <2>1, <2>2 DEF TypeOK
<1>7. Contiguous'
  <2> SUFFICES ASSUME NEW v \in Walk, NEW i \in 1 .. Len(heads'[v])
               PROVE  /\ heads'[v][i].position = start'[v].position + i
                      /\ lines'[v][i].position = start'[v].position + i
                      /\ start'[v].position + i <= MaxU64
    BY DEF Contiguous
  <2>1. CASE v # w
    BY <2>1, <1>1 DEF Inv, Contiguous
  <2>2. CASE v = w /\ i \in 1 .. n
    BY <2>2, <1>1 DEF Inv, Contiguous, n
  <2>3. CASE v = w /\ i = n + 1
    BY <2>3, <1>1, <1>2 DEF Position
  <2>4. QED
    BY <2>1, <2>2, <2>3, <1>1
<1>8. EveryLinkChecked'
  <2> SUFFICES ASSUME NEW v \in Walk, NEW i \in 1 .. Len(heads'[v])
               PROVE  /\ lines'[v][i].prev_head = HeadBefore(v, i)'
                      /\ heads'[v][i].head = HeadAfter(HeadBefore(v, i)', lines'[v][i])
    BY DEF EveryLinkChecked
  <2>1. CASE v # w
    BY <2>1, <1>1 DEF Inv, EveryLinkChecked, HeadBefore
  <2>2. CASE v = w /\ i \in 1 .. n
    BY <2>2, <1>1, <1>5 DEF Inv, EveryLinkChecked, n
  <2>3. CASE v = w /\ i = n + 1
    BY <2>3, <1>1, <1>4, <1>5 DEF h
  <2>4. QED
    BY <2>1, <2>2, <2>3, <1>1
<1>9. RunningPair'
  <2> SUFFICES ASSUME NEW v \in Walk
               PROVE  /\ position'[v] = start'[v].position + Len(heads'[v])
                      /\ head'[v] = HeadBefore(v, Len(heads[v]) + 1)'
    BY DEF RunningPair
  <2>1. CASE v # w
    BY <2>1, <1>1, <1>3 DEF Inv, RunningPair, HeadBefore
  <2>2. CASE v = w
    <3> DEFINE s == start[w].position
    <3>a. line.position = s + n + 1 /\ n \in Int /\ s \in Int
      BY <1>1, <1>2
    <3>b. position'[w] = line.position /\ start'[w].position = s
      BY <1>1, <1>3
    <3>c. Len(heads'[w]) = n + 1
      BY <1>1
    <3> HIDE DEF s
    <3>1. Len(heads'[w]) = n + 1 /\ position'[w] = start'[w].position + (n + 1)
      BY <3>a, <3>b, <3>c
    <3>2. head'[w] = heads'[w][(n + 1 + 1) - 1].head /\ n + 1 + 1 # 1
      BY <1>1, <1>3
    <3>3. head'[w] = HeadBefore(w, Len(heads[w]) + 1)'
      BY <3>1, <3>2 DEF HeadBefore
    <3>4. QED
      BY <2>2, <3>1, <3>3
  <2>3. QED
    BY <2>1, <2>2
<1>10. QED
  BY <1>6, <1>7, <1>8, <1>9 DEF Inv

LEMMA NextInv == Inv /\ [Next]_vars => Inv'
<1> SUFFICES ASSUME Inv, [Next]_vars PROVE Inv'
  OBVIOUS
<1>1. CASE \E w \in Walk : \E line \in OfferedLine(w) : Accept(w, line)
  BY <1>1, AcceptInv
<1>2. CASE UNCHANGED <<start, position, head, heads, lines>>
  <2>1. outcome' \in [Walk -> {"walking", "ok"} \cup ChainError]
    BY <1>1, <1>2, StepShape, AcceptInv DEF Inv, TypeOK
  <2>2. QED
    BY <1>2, <2>1, QuietInv
<1>3. QED
  BY <1>1, <1>2, StepShape

(* The walker's state keeps its types.                                      *)
THEOREM WalkTypes == Spec => []TypeOK
<1>1. Inv => TypeOK
  BY DEF Inv
<1>2. QED
  BY <1>1, InitInv, NextInv, PTL DEF Spec

(* Strict continuity: no gap, no duplicate, no reordering, no u64 wrap.     *)
THEOREM WalkContiguous == Spec => []Contiguous
<1>1. Inv => Contiguous
  BY DEF Inv
<1>2. QED
  BY <1>1, InitInv, NextInv, PTL DEF Spec

(* Every link of an accepted chain is checked, never only the endpoints.    *)
THEOREM WalkEveryLinkChecked == Spec => []EveryLinkChecked
<1>1. Inv => EveryLinkChecked
  BY DEF Inv
<1>2. QED
  BY <1>1, InitInv, NextInv, PTL DEF Spec

-----------------------------------------------------------------------------
(* The line being accepted against an older pair of any walk: if they agree *)
(* on position and head, the walks agree on every line they both hold.      *)
LEMMA NewAgainstOld ==
  ASSUME Inv, SharedHistory, NEW w \in Walk, NEW u \in Walk, NEW line \in OfferedLine(w),
         NEW j \in 1 .. Len(heads[u]), Len(heads[w]) \in Nat,
         heads[u][j].position = start[w].position + Len(heads[w]) + 1,
         heads[u][j].head = HeadAfter(head[w], line)
  PROVE  /\ line = lines[u][j]
         /\ \A k \in 1 .. Len(heads[w]) :
              k < j => lines[w][Len(heads[w]) + 1 - k] = lines[u][j - k]
<1> DEFINE n == Len(heads[w])
<1>1. heads[u][j].head = HeadAfter(HeadBefore(u, j), lines[u][j])
  BY DEF Inv, EveryLinkChecked
<1>2. HeadAfter(head[w], line) = HeadAfter(HeadBefore(u, j), lines[u][j])
  BY <1>1
<1>3. head[w] = HeadBefore(u, j) /\ line = lines[u][j]
  BY ONLY <1>2, HeadInjective
<1>4. head[w] = HeadBefore(w, n + 1)
  BY DEF Inv, RunningPair
<1>5. ASSUME NEW k \in 1 .. n, k < j
      PROVE  lines[w][n + 1 - k] = lines[u][j - k]
  <2>0. n \in Nat /\ j \in Nat /\ k \in Nat /\ n >= 1 /\ j >= 2
    BY <1>5
  <2>0a. Len(heads[u]) \in Nat
    BY DEF Inv, TypeOK, IsSequence
  <2>1. n \in 1 .. Len(heads[w]) /\ j - 1 \in 1 .. Len(heads[u])
    BY <2>0, <2>0a
  <2>2. heads[w][n].head = head[w]
    BY <1>4, <2>0 DEF HeadBefore
  <2>3. heads[u][j - 1].head = HeadBefore(u, j)
    BY <2>0 DEF HeadBefore
  <2>4. /\ heads[w][n].position = start[w].position + n
        /\ heads[u][j - 1].position = start[u].position + (j - 1)
        /\ heads[u][j].position = start[u].position + j
    BY <2>1 DEF Inv, Contiguous
  <2>5. start[w].position \in Int /\ start[u].position \in Int
    BY AnchorAssumption, MaxU64Assumption DEF Inv, TypeOK, Position
  <2>6. heads[w][n].position = heads[u][j - 1].position
    <3> DEFINE a == start[w].position
               b == start[u].position
    <3>1. b + j = a + n + 1
      BY <2>4
    <3>2. a \in Int /\ b \in Int /\ n \in Int /\ j \in Int
      BY <2>0, <2>5
    <3> HIDE DEF a, b, n
    <3>3. a + n = b + (j - 1)
      BY <3>1, <3>2
    <3> USE DEF a, b, n
    <3>4. QED
      BY <2>4, <3>3
  <2>7. k - 1 \in 0 .. n - 1 /\ k - 1 < j - 1
    BY <2>0, <1>5
  <2>8. lines[w][n - (k - 1)] = lines[u][(j - 1) - (k - 1)]
    <3>1. heads[w][n].head = heads[u][j - 1].head
      BY <1>3, <2>2, <2>3
    <3>2. \A m \in 0 .. n - 1 : m < j - 1 => lines[w][n - m] = lines[u][(j - 1) - m]
      BY <2>1, <2>6, <3>1, Zenon DEF SharedHistory
    <3>3. QED
      BY <2>7, <3>2
  <2>9. n - (k - 1) = n + 1 - k /\ (j - 1) - (k - 1) = j - k
    BY <2>0
  <2>10. QED
    BY <2>8, <2>9
<1>6. QED
  BY <1>3, <1>5

LEMMA AcceptShared ==
  ASSUME Inv, SharedHistory, NEW w \in Walk, NEW line \in OfferedLine(w), Accept(w, line)
  PROVE  SharedHistory'
<1> DEFINE n == Len(heads[w])
           h == HeadAfter(head[w], line)
<1>1. /\ n \in Nat
      /\ line.position = start[w].position + n + 1
      /\ \A v \in Walk \ {w} : heads'[v] = heads[v] /\ lines'[v] = lines[v]
      /\ Len(heads'[w]) = n + 1
      /\ \A i \in 1 .. n : heads'[w][i] = heads[w][i] /\ lines'[w][i] = lines[w][i]
      /\ heads'[w][n + 1] = [position |-> line.position, head |-> h]
      /\ lines'[w][n + 1] = line
  BY AcceptShape
<1>2. /\ heads'[w][n + 1].position = start[w].position + n + 1
      /\ heads'[w][n + 1].head = h
  BY <1>1
<1> DEFINE Agree(v, i, u, j) ==
             /\ heads'[v][i].position = heads'[u][j].position
             /\ heads'[v][i].head = heads'[u][j].head
<1>3. ASSUME NEW u \in Walk, NEW j \in 1 .. Len(heads[u]), Agree(w, n + 1, u, j),
             NEW k \in 0 .. n, k < j
      PROVE  lines'[w][n + 1 - k] = lines'[u][j - k]
  <2>0. Len(heads[u]) \in Nat
    BY DEF Inv, TypeOK, IsSequence
  <2>1. heads'[u][j] = heads[u][j] /\ lines'[u][j - k] = lines[u][j - k]
    <3>1. j - k \in 1 .. Len(heads[u])
      BY <1>1, <1>3, <2>0
    <3>2. QED
      BY <1>1, <3>1
  <2>2. /\ heads[u][j].position = start[w].position + n + 1
        /\ heads[u][j].head = h
    BY <1>2, <1>3, <2>1
  <2>a. Len(heads[w]) \in Nat
    BY <1>1
  <2>3. /\ line = lines[u][j]
        /\ \A m \in 1 .. n : m < j => lines[w][n + 1 - m] = lines[u][j - m]
    BY <2>a, <2>2, NewAgainstOld
  <2>4. CASE k = 0
    BY <2>4, <1>1, <2>1, <2>3
  <2>5. CASE k \in 1 .. n
    <3>1. n + 1 - k \in 1 .. n
      BY <2>5, <1>1
    <3>2. lines'[w][n + 1 - k] = lines[w][n + 1 - k]
      BY <1>1, <3>1
    <3>3. QED
      BY <2>1, <2>3, <2>5, <3>2, <1>3
  <2>6. QED
    BY <2>4, <2>5, <1>1
<1>4. SUFFICES ASSUME NEW v \in Walk, NEW u \in Walk,
                      NEW i \in 1 .. Len(heads'[v]), NEW j \in 1 .. Len(heads'[u]),
                      Agree(v, i, u, j), NEW k \in 0 .. i - 1, k < j
               PROVE  lines'[v][i - k] = lines'[u][j - k]
  BY DEF SharedHistory
<1>5. \A x \in Walk : Len(heads[x]) \in Nat
  BY DEF Inv, TypeOK, IsSequence
<1>6. \A x \in Walk : \A y \in 1 .. Len(heads'[x]) :
         (x = w /\ y = n + 1) \/ y \in 1 .. Len(heads[x])
  BY <1>1
<1>7. CASE (v = w /\ i = n + 1) /\ (u = w /\ j = n + 1)
  BY <1>7
<1>8. CASE (v = w /\ i = n + 1) /\ j \in 1 .. Len(heads[u])
  <2>1. Agree(w, n + 1, u, j) /\ k \in 0 .. n /\ k < j
    BY <1>1, <1>4, <1>8
  <2>2. lines'[w][n + 1 - k] = lines'[u][j - k]
    BY <1>3, <1>8, <2>1, Zenon
  <2>3. QED
    BY <1>8, <2>2
<1>9. CASE i \in 1 .. Len(heads[v]) /\ (u = w /\ j = n + 1)
  <2>1. Agree(w, n + 1, v, i) /\ k \in 0 .. n /\ k < i
    BY <1>1, <1>4, <1>5, <1>9
  <2>2. lines'[w][n + 1 - k] = lines'[v][i - k]
    BY <1>3, <1>9, <2>1
  <2>3. QED
    BY <1>9, <2>2
<1>10. CASE i \in 1 .. Len(heads[v]) /\ j \in 1 .. Len(heads[u])
  <2>1. i - k \in 1 .. Len(heads[v]) /\ j - k \in 1 .. Len(heads[u])
    BY <1>4, <1>5, <1>10
  <2>2. \A x \in Walk : \A y \in 1 .. Len(heads[x]) :
           heads'[x][y] = heads[x][y] /\ lines'[x][y] = lines[x][y]
    BY <1>1
  <2>3. /\ heads[v][i].position = heads[u][j].position
        /\ heads[v][i].head = heads[u][j].head
    BY <1>4, <1>10, <2>2
  <2>5. lines[v][i - k] = lines[u][j - k]
    BY <1>4, <1>10, <2>3 DEF SharedHistory
  <2>6. QED
    BY <2>1, <2>2, <2>5
<1>11. QED
  BY <1>6, <1>7, <1>8, <1>9, <1>10

(* What `evidence verify --against` calls consistent: two bundles that      *)
(* agree on the head at a shared position hold the same lines at every      *)
(* earlier position both of them hold, whatever windows they export.        *)
THEOREM WalkSharedHistory == Spec => []SharedHistory
<1>1. Init => SharedHistory
  <2> SUFFICES ASSUME Init PROVE SharedHistory
    OBVIOUS
  <2>1. \A w \in Walk : Len(heads[w]) = 0
    BY EmptyIsSequence DEF Init
  <2>2. QED
    BY <2>1 DEF SharedHistory
<1>2. Inv /\ SharedHistory /\ [Next]_vars => SharedHistory'
  <2> SUFFICES ASSUME Inv, SharedHistory, [Next]_vars PROVE SharedHistory'
    OBVIOUS
  <2>1. CASE UNCHANGED <<start, position, head, heads, lines>>
    <3>1. heads' = heads /\ lines' = lines
      BY <2>1
    <3>2. SUFFICES ASSUME NEW v \in Walk, NEW w \in Walk,
                          NEW i \in 1 .. Len(heads'[v]), NEW j \in 1 .. Len(heads'[w]),
                          heads'[v][i].position = heads'[w][j].position,
                          heads'[v][i].head = heads'[w][j].head,
                          NEW k \in 0 .. i - 1, k < j
                   PROVE  lines'[v][i - k] = lines'[w][j - k]
      BY DEF SharedHistory
    <3>3. QED
      BY <3>1, <3>2 DEF SharedHistory
  <2>2. QED
    BY <2>1, StepShape, AcceptShared
<1>3. QED
  BY <1>1, <1>2, InitInv, NextInv, PTL DEF Spec
=============================================================================
