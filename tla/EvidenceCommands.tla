--------------------------- MODULE EvidenceCommands ---------------------------
(***************************************************************************)
(* `docbrain evidence verify | why | tables | export`: what the command    *)
(* line makes of a bundle and its verdict (handle_evidence and below in    *)
(* crates/docbrain-cli/src/main.rs; chain_heads_for_bundle in              *)
(* crates/docbrain-evidence/src/verify.rs).                                *)
(*                                                                         *)
(* How a verdict is reached is EvidencePipeline's matter: here a bundle    *)
(* carries its verdict, the journal it was exported from and the range     *)
(* [start, end] of it.  Hashes do not collide, so the head after position  *)
(* p is the first p records.                                               *)
(***************************************************************************)
EXTENDS Integers, Sequences, SequencesExt

CONSTANTS
  Genesis,       \* genesis signing keys: one per journal
  Record,        \* bodies: [kind, id, fragment_id]
  MaxLength,     \* bound on the length of a journal
  None

ConstantsOK == MaxLength \in Nat

VARIABLES
  ev,            \* how far the command is
  command,       \* [sub, selector, out]
  bundle, earlier,
  outcome,       \* of --against
  rendered,      \* records whose content was shown
  file,          \* what became of the file that `tables` and `export` write
  code           \* the exit status

vars == <<ev, command, bundle, earlier, outcome, rendered, file, code>>

Init ==
  /\ ev = "off"
  /\ command = None /\ bundle = None /\ earlier = None
  /\ outcome = None
  /\ rendered = {}
  /\ file = "untouched"
  /\ code = None

----------------------------------------------------------------------------
Journal == BoundedSeq(Record, MaxLength)

Valid ==
  {b \in [verdict : {"VALID"}, genesis : Genesis, journal : Journal,
          start : 0 .. MaxLength, end : 0 .. MaxLength] :
     b.start <= b.end /\ b.end <= Len(b.journal)}

NoBundle == [verdict |-> "CANNOT VERIFY", genesis |-> None, journal |-> <<>>, start |-> 0, end |-> 0]
Bundle == Valid \cup {NoBundle, [NoBundle EXCEPT !.verdict = "TAMPERED"]}

verdict_exit_code(verdict) ==
  CASE verdict = "VALID" -> 0 [] verdict = "TAMPERED" -> 1 [] OTHER -> 2
EXIT_CLI_ERROR == 3

(* Positions are counted from 1: the record at p is the last of the head   *)
(* after p.                                                                *)
read_records(b) == [p \in b.start + 1 .. b.end |-> b.journal[p]]

(* The head after every position of the range, its start anchor included.  *)
chain_heads_for_bundle(b) == [p \in b.start .. b.end |-> SubSeq(b.journal, 1, p)]

(* The anchor at 0 is the same for every journal, and is left out.         *)
Shared(a, b) == (DOMAIN a \cap DOMAIN b) \ {0}

Outcome(result, position) == [result |-> result, position |-> position]

Forks(a, b) == {p \in Shared(a, b) : a[p] # b[p]}

LowestOf(positions) == CHOOSE p \in positions : \A q \in positions : p <= q

(* Mutant of compare_against: heads are compared before identities.        *)
compare_against_any(this, that) ==
  LET a == chain_heads_for_bundle(this)
      b == chain_heads_for_bundle(that)
  IN  IF "VALID" \notin {this.verdict} \cap {that.verdict} THEN Outcome("skipped", None)
      ELSE IF Forks(a, b) # {} THEN Outcome("fork_detected", LowestOf(Forks(a, b)))
      ELSE IF this.genesis # that.genesis THEN Outcome("different_journals", None)
      ELSE IF Shared(a, b) = {} THEN Outcome("not_comparable", None)
      ELSE Outcome("consistent", None)

compare_against(this, that) ==
  LET a == chain_heads_for_bundle(this)
      b == chain_heads_for_bundle(that)
  IN  IF "VALID" \notin {this.verdict} \cap {that.verdict} THEN Outcome("skipped", None)
      ELSE IF this.genesis # that.genesis THEN Outcome("different_journals", None)
      ELSE IF Forks(a, b) # {} THEN Outcome("fork_detected", LowestOf(Forks(a, b)))
      ELSE IF Shared(a, b) = {} THEN Outcome("not_comparable", None)
      ELSE Outcome("consistent", None)

(* A selector that reads as a number is a position first, and an id after. *)
find_record(records, selector) ==
  LET named == {p \in DOMAIN records :
                  selector.id \in {records[p].id, records[p].fragment_id} \ {None}}
  IN  IF selector.position \in DOMAIN records THEN {selector.position}
      ELSE {p \in named : \A q \in named : p <= q}

premise_history_lines(id, records) ==
  {p \in DOMAIN records :
     records[p].kind \in {"transition", "retired"} /\ records[p].fragment_id = id}

(* The record, the first approval of its id, and its premises' history.    *)
render_why(primary, records) ==
  LET id == records[primary].id
      approvals == {p \in DOMAIN records : records[p].kind = "approved" /\ records[p].id = id}
  IN  {primary} \cup
      IF id = None THEN {}
      ELSE {p \in approvals : \A q \in approvals : p <= q} \cup premise_history_lines(id, records)

End(status) == ev' = "ended" /\ code' = status

----------------------------------------------------------------------------
Selector == [position : {0, 1}, id : {r.id : r \in Record}] \cup {None}

Start ==
  /\ ev = "off"
  /\ \/ \E sub \in {"verify", "tables", "export"} : command' = [sub |-> sub, selector |-> None]
     \/ command' \in [sub : {"why"}, selector : Selector \ {None}]
     \/ command' = [sub |-> "against", selector |-> None]
  /\ ev' = "reading"
  /\ UNCHANGED <<bundle, earlier, outcome, rendered, file, code>>

(* A missing or unreadable file is no verdict; each file is read once.     *)
Unreadable ==
  /\ ev = "reading" /\ command.sub # "export"
  /\ End(EXIT_CLI_ERROR)
  /\ UNCHANGED <<command, bundle, earlier, outcome, rendered, file>>

Read ==
  /\ ev = "reading" /\ command.sub # "export"
  /\ bundle' \in Bundle
  /\ earlier' \in IF command.sub = "against" THEN Bundle ELSE {None}
  /\ ev' = "verified"
  /\ UNCHANGED <<command, outcome, rendered, file, code>>

Verify ==
  /\ ev = "verified" /\ command.sub = "verify"
  /\ End(verdict_exit_code(bundle.verdict))
  /\ UNCHANGED <<command, bundle, earlier, outcome, rendered, file>>

(* A fork fails the run even where this bundle alone is VALID.             *)
Against ==
  /\ ev = "verified" /\ command.sub = "against"
  /\ outcome' = compare_against(bundle, earlier)
  /\ End(IF outcome'.result = "fork_detected" THEN verdict_exit_code("TAMPERED")
         ELSE verdict_exit_code(bundle.verdict))
  /\ UNCHANGED <<command, bundle, earlier, rendered, file>>

(* Content of a bundle that is not VALID is never shown, nor tabulated.    *)
Refuse ==
  /\ ev = "verified" /\ command.sub \in {"why", "tables"}
  /\ bundle.verdict # "VALID"
  /\ End(verdict_exit_code("CANNOT VERIFY"))
  /\ UNCHANGED <<command, bundle, earlier, outcome, rendered, file>>

Why ==
  /\ ev = "verified" /\ command.sub = "why" /\ bundle.verdict = "VALID"
  /\ LET records == read_records(bundle)
     IN  rendered' = UNION {render_why(p, records) : p \in find_record(records, command.selector)}
  /\ End(0)
  /\ UNCHANGED <<command, bundle, earlier, outcome, file>>

Tables ==
  /\ ev = "verified" /\ command.sub = "tables" /\ bundle.verdict = "VALID"
  /\ \/ rendered' = DOMAIN read_records(bundle) /\ file' = "written" /\ End(0)
     \/ UNCHANGED rendered /\ file' \in {"untouched", "torn"} /\ End(EXIT_CLI_ERROR)
  /\ UNCHANGED <<command, bundle, earlier, outcome>>

(* No key, two ranges at once, a range that is none, a refusal, or an      *)
(* answer that breaks off: nothing is written.  A write may break off too. *)
Export ==
  /\ ev = "reading" /\ command.sub = "export"
  /\ \/ file' = "written" /\ End(0)
     \/ file' \in {"untouched", "torn"} /\ End(1)
  /\ UNCHANGED <<command, bundle, earlier, outcome, rendered>>

Work == Unreadable \/ Read \/ Verify \/ Against \/ Refuse \/ Why \/ Tables \/ Export

Next == Start \/ Work

(* The request for an export is under no timeout of its own.               *)
Waiting == ev = "reading" /\ command.sub = "export"

Spec == Init /\ [][Next]_vars /\ WF_vars(Next)

----------------------------------------------------------------------------
TypeOK ==
  /\ ev \in {"off", "reading", "verified", "ended"}
  /\ command \in [sub : {"verify", "against", "why", "tables", "export"}, selector : Selector]
                 \cup {None}
  /\ bundle \in Bundle \cup {None} /\ earlier \in Bundle \cup {None}
  /\ outcome \in [result : {"consistent", "fork_detected", "not_comparable",
                            "different_journals", "skipped"},
                  position : 1 .. MaxLength \cup {None}] \cup {None}
  /\ rendered \subseteq 1 .. MaxLength
  /\ file \in {"untouched", "written", "torn"}
  /\ code \in {None} \cup 0 .. 3

(* FORK is an honest accusation: it is made of two VALID bundles of one    *)
(* journal that hold different records, and never of two exports of one    *)
(* history, however their ranges lie; `consistent` means that everything   *)
(* up to the last position both cover is the same; and only a fork turns   *)
(* the exit status of the verdict around (compare_against,                 *)
(* evidence_verify).                                                       *)
Grew(a, b) == IsPrefix(a.journal, b.journal) \/ IsPrefix(b.journal, a.journal)

ForkIsFork ==
  outcome # None =>
    /\ outcome.result = "fork_detected" =>
         /\ bundle.genesis = earlier.genesis /\ ~Grew(bundle, earlier)
         /\ \E p \in 1 .. outcome.position : bundle.journal[p] # earlier.journal[p]
         /\ code = 1
    /\ outcome.result = "consistent" =>
         /\ bundle.genesis = earlier.genesis
         /\ \E last \in 1 .. MaxLength :
              /\ last \in bundle.start .. bundle.end /\ last \in earlier.start .. earlier.end
              /\ SubSeq(bundle.journal, 1, last) = SubSeq(earlier.journal, 1, last)
              /\ last + 1 \notin bundle.start .. bundle.end \cap earlier.start .. earlier.end
    /\ outcome.result # "fork_detected" => code = verdict_exit_code(bundle.verdict)
=============================================================================
