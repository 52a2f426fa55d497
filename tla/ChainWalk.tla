------------------------------ MODULE ChainWalk ------------------------------
(***************************************************************************)
(* The record-chain walker of docbrain-evidence/src/chain.rs, one step per *)
(* line.                                                                   *)
(*                                                                         *)
(* chain_heads starts from an anchor (position, head) and reads the lines  *)
(* of a bundle in order.  Each line declares a position and a prev_head;   *)
(* the walker accepts it only if both continue what it has computed itself *)
(* so far, and stops with an error at the first line that does not.        *)
(* walk_chain returns the last pair of the same walk.                      *)
(*                                                                         *)
(* The lines are not given beforehand: every line a bundle could hold next *)
(* is offered to the walker, so that one behaviour is one bundle.  Several *)
(* walks are kept side by side because what a head is worth shows when two *)
(* bundles are compared (`evidence verify --against`).                     *)
(***************************************************************************)
EXTENDS Integers, Sequences, SequenceTypes, Digest

CONSTANTS
  Walk,     \* the bundles that are walked
  MaxU64,   \* the largest u64: no position lies beyond it
  Anchor,   \* the (position, head) pairs a walk may start from
  Body,     \* what a line holds besides its position and its link
  Forged    \* a declared prev_head that is no computed head

Position == 0 .. MaxU64

ASSUME MaxU64Assumption == MaxU64 \in Nat

ASSUME AnchorAssumption == \A a \in Anchor : a.position \in Position

VARIABLES
  start,     \* the anchor of each walk
  position,  \* the position the walk has reached
  head,      \* the head it has computed
  heads,     \* the (position, head) pairs after every accepted line
  lines,     \* the lines accepted (history: chain_heads returns only heads)
  outcome    \* "walking", "ok", or the ChainError that ended the walk

vars == <<start, position, head, heads, lines, outcome>>

ChainError == {"Malformed", "PositionOverflow", "PositionDuplicate",
               "PositionGap", "LinkMismatch"}

(* The lines a bundle may hold where walk w reads: any position, and a     *)
(* link that is right, that repeats the start of the walk, or is made up.  *)
OfferedLine(w) ==
  [position : Position, prev_head : {head[w], start[w].head, Forged}, body : Body]

(* Mutant of Init: the anchor is returned among the heads.                 *)
InitWithAnchor ==
  /\ start \in [Walk -> Anchor]
  /\ position = [w \in Walk |-> start[w].position]
  /\ head = [w \in Walk |-> start[w].head]
  /\ heads = [w \in Walk |-> << start[w] >>]
  /\ lines = [w \in Walk |-> << >>]
  /\ outcome = [w \in Walk |-> "walking"]

Init ==
  /\ start \in [Walk -> Anchor]
  /\ position = [w \in Walk |-> start[w].position]
  /\ head = [w \in Walk |-> start[w].head]
  /\ heads = [w \in Walk |-> << >>]
  /\ lines = [w \in Walk |-> << >>]
  /\ outcome = [w \in Walk |-> "walking"]

Reject(w, error) ==
  /\ outcome[w] = "walking"
  /\ outcome' = [outcome EXCEPT ![w] = error]
  /\ UNCHANGED <<start, position, head, heads, lines>>

(* A line whose envelope or payload does not parse.                        *)
ParseFailure(w) == Reject(w, "Malformed")

(* position.checked_add(1) has no value at u64::MAX; a line was read.      *)
HasSuccessor(w) == position[w] < MaxU64

Expected(w) == position[w] + 1

Overflow(w) ==
  /\ ~HasSuccessor(w)
  /\ Reject(w, "PositionOverflow")

Duplicate(w, line) ==
  /\ HasSuccessor(w)
  /\ line.position # Expected(w)
  /\ line.position = position[w]
  /\ Reject(w, "PositionDuplicate")

Gap(w, line) ==
  /\ HasSuccessor(w)
  /\ line.position # Expected(w)
  /\ line.position # position[w]
  /\ Reject(w, "PositionGap")

(* Mutant of Continues: wrapping_add where the code has checked_add.       *)
ContinuesWrapping(w, line) == line.position = (position[w] + 1) % (MaxU64 + 1)

Continues(w, line) ==
  /\ HasSuccessor(w)
  /\ line.position = Expected(w)

LinkMismatch(w, line) ==
  /\ Continues(w, line)
  /\ line.prev_head # head[w]
  /\ Reject(w, "LinkMismatch")

(* Mutant of Linked: any link to a head of this walk's start is accepted.  *)
LinkedToStart(w, line) == line.prev_head \in {head[w], start[w].head}

Linked(w, line) == line.prev_head = head[w]

Accept(w, line) ==
  LET next == HeadAfter(head[w], line)
  IN  /\ outcome[w] = "walking"
      /\ Continues(w, line)
      /\ Linked(w, line)
      /\ position' = [position EXCEPT ![w] = line.position]
      /\ head' = [head EXCEPT ![w] = next]
      /\ heads' = [heads EXCEPT ![w] =
                     Append(@, [position |-> line.position, head |-> next])]
      /\ lines' = [lines EXCEPT ![w] = Append(@, line)]
      /\ UNCHANGED <<start, outcome>>

(* No line is left.                                                        *)
Finish(w) ==
  /\ outcome[w] = "walking"
  /\ outcome' = [outcome EXCEPT ![w] = "ok"]
  /\ UNCHANGED <<start, position, head, heads, lines>>

Read(w, line) ==
  \/ Duplicate(w, line)
  \/ Gap(w, line)
  \/ LinkMismatch(w, line)
  \/ Accept(w, line)

(* A line that is there to be read.                                        *)
ReadLine(w, line) == Overflow(w) \/ Read(w, line)

Next ==
  \E w \in Walk :
    \/ ParseFailure(w)
    \/ \E line \in OfferedLine(w) : ReadLine(w, line)
    \/ Finish(w)

Spec == Init /\ [][Next]_vars

-----------------------------------------------------------------------------
(* walk_chain's result for a finished walk: the last pair, or the anchor   *)
(* when there was no line.                                                 *)
WalkChain(w) ==
  IF heads[w] = << >> THEN start[w] ELSE heads[w][Len(heads[w])]

(* The head that line i of walk w continues.                               *)
HeadBefore(w, i) == IF i = 1 THEN start[w].head ELSE heads[w][i - 1].head

(* Types of the walker's state: one accepted line behind every head.       *)
TypeOK ==
  /\ start \in [Walk -> Anchor]
  /\ position \in [Walk -> Position]
  /\ outcome \in [Walk -> {"walking", "ok"} \cup ChainError]
  /\ DOMAIN head = Walk /\ DOMAIN heads = Walk /\ DOMAIN lines = Walk
  /\ \A w \in Walk : /\ IsSequence(heads[w])
                      /\ IsSequence(lines[w])
                      /\ Len(heads[w]) = Len(lines[w])

(* Strict continuity (chain.rs module comment: no gaps, no duplicates, no  *)
(* reordering, no wrap): the i-th accepted line is the record at           *)
(* start + i, and that position exists as a u64.                           *)
Contiguous ==
  \A w \in Walk : \A i \in 1 .. Len(heads[w]) :
    /\ heads[w][i].position = start[w].position + i
    /\ lines[w][i].position = start[w].position + i
    /\ start[w].position + i <= MaxU64

(* Every link is checked, never only the endpoints: each head is the hash  *)
(* of the line it follows and of the head before it, and that line         *)
(* declares the very same head as its predecessor.                         *)
EveryLinkChecked ==
  \A w \in Walk : \A i \in 1 .. Len(heads[w]) :
    /\ lines[w][i].prev_head = HeadBefore(w, i)
    /\ heads[w][i].head = HeadAfter(HeadBefore(w, i), lines[w][i])

(* The claim `--against` rests on (chain_heads' comment): two bundles that *)
(* agree on the head at a shared position hold the same lines at every     *)
(* position up to it that both of them hold.                               *)
SharedHistory ==
  \A v, w \in Walk :
    \A i \in 1 .. Len(heads[v]), j \in 1 .. Len(heads[w]) :
      /\ heads[v][i].position = heads[w][j].position
      /\ heads[v][i].head = heads[w][j].head
      => \A k \in 0 .. i - 1 : k < j => lines[v][i - k] = lines[w][j - k]
=============================================================================
