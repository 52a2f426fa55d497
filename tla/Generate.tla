------------------------------ MODULE Generate ------------------------------
(***************************************************************************)
(* `docbrain generate`: read the material, ask the server for a draft, and *)
(* while its freshness critic flags claims the evidence contradicts, send  *)
(* the draft back, at most max_regen_rounds times (handle_generate and     *)
(* generate_once of crates/docbrain-cli/src/main.rs).                      *)
(*                                                                         *)
(* A draft is the set of contradicted claims it makes.  The critic finds   *)
(* them all when it runs; the answer of a server whose critic did not run  *)
(* carries no freshness, and neither does one with nothing to flag.        *)
(***************************************************************************)
EXTENDS Integers

CONSTANTS
  Claim,
  Cited,            \* the sorted evidence_cited of a flag on a claim
  MaxRounds,        \* bound on --max-regen-rounds
  Grounding,        \* states of the support critic's report
  None

VARIABLES
  gen,              \* how far the command is
  opts,             \* its options, as far as they matter after the checks
  disk,             \* the --out file: "absent", "theirs", "ours" or "torn"
  round,
  prior,            \* prior_keys of the last round that was sent
  artifact,
  answered,         \* the last artifact the server made, and how many (external)
  shipped,          \* the artifact whose document was emitted
  told,             \* what standard error said of it
  code              \* the exit status

vars == <<gen, opts, disk, round, prior, artifact, answered, shipped, told, code>>

Init ==
  /\ gen = "off"
  /\ opts = None
  /\ disk = "absent"
  /\ round = 1
  /\ prior = {}
  /\ artifact = None
  /\ answered = [artifact |-> None, count |-> 0]
  /\ shipped = None
  /\ told = None
  /\ code = None

----------------------------------------------------------------------------
(* The document is merged_markdown where there is one, else markdown.      *)
Artifact ==
  [claims : SUBSET Claim, freshness : (SUBSET Claim) \cup {None},
   grounding : Grounding, error : BOOLEAN]

ConstantsOK == MaxRounds \in Nat /\ None \notin Artifact

(* What the server may answer: flags are the claims of this very draft.    *)
Answers == {a \in Artifact : a.freshness \in {None, a.claims}}

(* An absent report reads as one without flags.                            *)
Flags(a) == IF a.freshness = None THEN {} ELSE a.freshness

(* Two flags on the same evidence are one.                                 *)
regen_flag_keys(flags) == {Cited[c] : c \in flags}

(* "A digit on a degraded pass would read as a real 0": no report, one     *)
(* that is degraded and one without a count all read as no number at all.  *)
render_trust_summary(verified) == IF verified THEN "number" ELSE "unavailable"

(* What standard error says of an artifact.                                *)
print_generate_summary(a) ==
  [unresolved |-> Flags(a), trust |-> render_trust_summary(a.grounding = "counted")]

End(status) == gen' = "ended" /\ code' = status

----------------------------------------------------------------------------
(* The --out guard comes before everything else, minutes before the write. *)
Start ==
  /\ gen = "off"
  /\ \E out, allow, force, attended \in BOOLEAN, max \in 0 .. MaxRounds,
        there \in {"absent", "theirs"} :
       /\ out \/ there = "absent"
       /\ opts' = [out |-> out, allow |-> allow, max |-> max]
       /\ disk' = there
       /\ IF out /\ there = "theirs" /\ ~force /\ attended
            THEN End(1)
            ELSE gen' = "reading" /\ UNCHANGED code
  /\ UNCHANGED <<round, prior, artifact, answered, shipped, told>>

(* A --source, --template or --target file, or stdin, that cannot be read; *)
(* or a thread or a pull request as the document to augment, and no source *)
(* (is_non_augmentable_source_url).                                        *)
Unusable ==
  /\ gen = "reading"
  /\ End(1)
  /\ UNCHANGED <<opts, disk, round, prior, artifact, answered, shipped, told>>

Send ==
  /\ gen = "reading"
  /\ gen' = "asking"
  /\ UNCHANGED <<opts, disk, round, prior, artifact, answered, shipped, told, code>>

(* A request may fail before the server has made anything, or after; what  *)
(* an earlier round received goes with it.                                 *)
RequestFails ==
  /\ gen \in {"asking", "resubmitted"}
  /\ \/ UNCHANGED answered
     \/ \E a \in Answers : answered' = [artifact |-> a, count |-> answered.count + 1]
  /\ End(1)
  /\ artifact' = None /\ prior' = {}
  /\ UNCHANGED <<opts, disk, round, shipped, told>>

Answered(a) ==
  /\ a \in Answers
  /\ answered' = [artifact |-> a, count |-> answered.count + 1]
  /\ UNCHANGED <<opts, disk, prior, shipped, told, code>>

FirstDraft ==
  /\ gen = "asking"
  /\ \E a \in Answers : Answered(a) /\ artifact' = a
  /\ gen' = "reviewing"
  /\ UNCHANGED round

(* One turn of the loop: nothing flagged, or no round left, ends it; else  *)
(* the draft goes back as the only source.                                 *)
Review ==
  /\ gen = "reviewing"
  /\ IF round <= opts.max /\ Flags(artifact) # {}
       THEN gen' = "resubmitted" /\ prior' = regen_flag_keys(Flags(artifact))
       ELSE gen' = "drafted" /\ UNCHANGED prior
  /\ UNCHANGED <<opts, disk, round, artifact, answered, shipped, told, code>>

(* Mutant of NextDraft: the plateau keeps the draft that came before.      *)
NextDraftKept ==
  /\ gen = "resubmitted"
  /\ \E a \in Answers :
       LET resolved_any == prior \ regen_flag_keys(Flags(a)) # {}
       IN  /\ Answered(a)
           /\ artifact' = IF resolved_any THEN a ELSE artifact
           /\ gen' = IF resolved_any THEN "reviewing" ELSE "drafted"
  /\ round' = round + 1

(* A round that clears no flag of the round before is the last.            *)
NextDraft ==
  /\ gen = "resubmitted"
  /\ \E a \in Answers :
       LET resolved_any == prior \ regen_flag_keys(Flags(a)) # {}
       IN  /\ Answered(a)
           /\ artifact' = a
           /\ gen' = IF resolved_any THEN "reviewing" ELSE "drafted"
  /\ round' = round + 1

(* The document is the only thing that goes to standard output, or to the  *)
(* --out file.                                                             *)
Emit ==
  /\ gen = "drafted"
  /\ shipped' = artifact
  /\ disk' = IF opts.out THEN "ours" ELSE disk
  /\ told' = print_generate_summary(artifact)
  /\ End(IF artifact.error /\ ~opts.allow THEN 2 ELSE 0)
  /\ UNCHANGED <<opts, round, prior, artifact, answered>>

WriteFails ==
  /\ gen = "drafted" /\ opts.out
  /\ disk' \in {disk, "torn"}
  /\ End(1)
  /\ UNCHANGED <<opts, round, prior, artifact, answered, shipped, told>>

Work ==
  \/ Unusable \/ Send \/ FirstDraft \/ RequestFails
  \/ Review \/ NextDraft \/ Emit \/ WriteFails

Command == Start \/ Work

(* Minutes pass between the guard and the write; anyone may use the name.  *)
Elsewhere ==
  /\ gen \in {"reading", "asking", "reviewing", "resubmitted", "drafted"}
  /\ opts.out /\ disk = "absent"
  /\ disk' = "theirs"
  /\ UNCHANGED <<gen, opts, round, prior, artifact, answered, shipped, told, code>>

Next == Command \/ Elsewhere

Spec == Init /\ [][Next]_vars /\ WF_vars(Command)

----------------------------------------------------------------------------
TypeOK ==
  /\ gen \in {"off", "reading", "asking", "reviewing", "resubmitted", "drafted", "ended"}
  /\ opts \in [out : BOOLEAN, allow : BOOLEAN, max : 0 .. MaxRounds]
              \cup {None}
  /\ disk \in {"absent", "theirs", "ours", "torn"}
  /\ round \in 1 .. MaxRounds + 1
  /\ prior \subseteq {Cited[c] : c \in Claim}
  /\ artifact \in Artifact \cup {None} /\ shipped \in Artifact \cup {None}
  /\ answered \in [artifact : Artifact \cup {None}, count : 0 .. MaxRounds + 1]
  /\ told \in [unresolved : SUBSET Claim, trust : {"number", "unavailable"}] \cup {None}
  /\ code \in {None, 0, 1, 2}

(* The document that ships is the last one the server made, standard error *)
(* and the exit status speak of that document, a number as its trust means *)
(* its own critic judged it whole, and a failed run ships nothing          *)
(* ("Shipping the latest draft with its remaining flags"; handle_generate).*)
LatestIsShipped ==
  /\ gen = "ended" =>
       /\ code = 1 <=> shipped = None
       /\ code = 1 => disk # "ours"
       /\ answered.count <= 1 + opts.max
  /\ shipped # None =>
       /\ shipped = answered.artifact
       /\ told.unresolved = Flags(answered.artifact)
       /\ told.trust = "number" => answered.artifact.grounding = "counted"
       /\ code = 2 <=> answered.artifact.error /\ ~opts.allow
=============================================================================
