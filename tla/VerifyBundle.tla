---------------------------- MODULE VerifyBundle ----------------------------
(***************************************************************************)
(* verify_bundle_with_witness of docbrain-evidence/src/verify.rs.          *)
(*                                                                         *)
(* Phase A opens the container and reads what everything else rests on:    *)
(* keys, manifest, member hashes, checkpoints, range.  The first failure   *)
(* ends it with a single finding.  Phase B examines records, chain,        *)
(* counts, compromise, erasures, content, clocks and anchors and gathers   *)
(* every finding.  classify then turns the findings into the verdict.      *)
(*                                                                         *)
(* The three readers are the modules KeyChain, Checkpoints and ChainWalk,  *)
(* driven with the lines the bundle holds.  Each step of the pipeline is   *)
(* an action and `stage` names the next one.                               *)
(***************************************************************************)
EXTENDS BundleFormat, Digest, Verdict, SequencesExt

CONSTANTS
  MaxPosition,  \* a bound on u64 no bundle comes near
  Trusted       \* trusted_witness_times: checkpoint positions that the operator
                \* knows to have existed before the claimed compromise time

Position == 0 .. MaxPosition

NoKey == 0

VARIABLES
  stage,         \* the pipeline's next step
  bundle,        \* the bytes under verification
  findings,      \* gathered so far
  report,        \* the verdict and the dominant finding, once there is one
  record_infos,  \* which records of the epoch analyze_record returns: those whose envelopes held
  erasure_targets,
  withheld,      \* actual_withheld
  tier,          \* the anchor tier
  k_events, k_recovery, k_compromise, k_position, k_head, k_lines, k_outcome,
  c_authority, c_checkpoints, c_anomalies, c_head, c_lines, c_outcome,
  w_start, w_position, w_head, w_heads, w_lines, w_outcome

keyVars == <<k_events, k_recovery, k_compromise, k_position, k_head, k_lines, k_outcome>>
checkpointVars == <<c_authority, c_checkpoints, c_anomalies, c_head, c_lines, c_outcome>>
walkVars == <<w_start, w_position, w_head, w_heads, w_lines, w_outcome>>
resultVars == <<findings, report, record_infos, erasure_targets, withheld, tier>>
verifyVars == <<stage, bundle, resultVars, keyVars, checkpointVars, walkVars>>

Keys == INSTANCE KeyChain WITH
  Key <- {}, MaxU64 <- MaxPosition, None <- NoKey, Forged <- << >>,
  events <- k_events, recovery <- k_recovery, compromise <- k_compromise,
  last_position <- k_position, head <- k_head, lines <- k_lines, outcome <- k_outcome

CPs == INSTANCE Checkpoints WITH
  Key <- {}, MaxU64 <- MaxPosition, JournalHead <- {}, Count <- {}, Time <- {},
  Forged <- << >>,
  authority <- c_authority, checkpoints <- c_checkpoints, anomalies <- c_anomalies,
  cp_head <- c_head, cp_lines <- c_lines, outcome <- c_outcome

Records == INSTANCE ChainWalk WITH
  Walk <- {"epoch"}, MaxU64 <- MaxPosition, Anchor <- {}, Body <- {}, Forged <- << >>,
  start <- w_start, position <- w_position, head <- w_head, heads <- w_heads,
  lines <- w_lines, outcome <- w_outcome

InitVerify ==
  /\ findings = << >>
  /\ report = [verdict |-> "none", dominant |-> Finding(0, 0)]
  /\ record_infos = {}
  /\ erasure_targets = {}
  /\ withheld = 0
  /\ tier = 0
  /\ k_events = << >> /\ k_recovery = NoKey /\ k_compromise = << >>
  /\ k_position = 0 /\ k_head = GENESIS_PREV /\ k_lines = << >> /\ k_outcome = "reading"
  /\ c_authority = << >> /\ c_checkpoints = << >> /\ c_anomalies = << >>
  /\ c_head = GENESIS_PREV /\ c_lines = << >> /\ c_outcome = "reading"
  /\ w_start = << >> /\ w_position = << >> /\ w_head = << >>
  /\ w_heads = << >> /\ w_lines = << >> /\ w_outcome = << >>

-----------------------------------------------------------------------------
(* Reading the container.                                                  *)

Has(m) == m \in DOMAIN bundle.members
Bytes(m) == bundle.members[m].bytes
Flipped(m) == bundle.members[m].flipped

manifest == Bytes(ManifestFile)

(* The n-th line of a file parses unless the file's last byte was flipped. *)
Parses(m, n) == ~(Flipped(m) /\ n = Len(Bytes(m)))

goto(next) == stage' = next

Terminal(finding) ==
  /\ findings' = <<finding>>
  /\ report' = classify(<<finding>>)
  /\ stage' = "done"
  /\ UNCHANGED <<bundle, record_infos, erasure_targets, withheld, tier>>

Found(more) == findings' = findings \o more

-----------------------------------------------------------------------------
(* Phase A.                                                                *)

OpenContainer ==
  /\ stage = "container"
  /\ IF bundle.duplicate THEN Terminal(Finding(21, 0))
     ELSE IF ~Has(KeysFile) THEN Terminal(Finding(21, 0))
     ELSE goto("keys") /\ UNCHANGED <<bundle, resultVars>>
  /\ UNCHANGED <<keyVars, checkpointVars, walkVars>>

(* The next line of trust/keys.jsonl, handed to the key chain.             *)
KeyLine == Bytes(KeysFile)[Len(k_lines) + 1]
KeyLineLeft == Len(k_lines) < Len(Bytes(KeysFile))
KeyLineParses == Parses(KeysFile, Len(k_lines) + 1)

ReadKeyLine ==
  /\ stage = "keys"
  /\ k_outcome = "reading"
  /\ \/ ~KeyLineLeft /\ Keys!EndOfFile
     \/ KeyLineLeft /\ ~KeyLineParses /\ Keys!Unreadable
     \/ KeyLineLeft /\ KeyLineParses /\ Keys!ReadLine(KeyLine)
  /\ UNCHANGED <<stage, bundle, resultVars, checkpointVars, walkVars>>

key_chain_error_row(error) ==
  CASE error \in {"Malformed", "MissingGenesis", "GenesisPositionMismatch",
                  "DuplicateGenesis", "UnknownKind", "InvalidCompromiseTime"} -> 22
    [] error = "GenesisNotSelfSigned" -> 2
    [] error \in {"PositionNotIncreasing", "KeyLinkMismatch"} -> 4
    [] error = "UnauthorizedRotation" -> 5
    [] error = "UnauthorizedControlRecord" -> 6
    [] error = "JournalSealed" -> 7

(* Mutant of KeysRead: a key chain that ended in an error goes nowhere.     *)
SoundlyKeyed ==
  /\ stage = "keys"
  /\ k_outcome = "ok"
  /\ goto("manifest")
  /\ UNCHANGED <<bundle, resultVars, keyVars, checkpointVars, walkVars>>

KeysRead ==
  /\ stage = "keys"
  /\ k_outcome # "reading"
  /\ IF k_outcome = "ok"
       THEN goto("manifest") /\ UNCHANGED <<bundle, resultVars>>
       ELSE Terminal(Finding(key_chain_error_row(k_outcome), 0))
  /\ UNCHANGED <<keyVars, checkpointVars, walkVars>>

key_at_position(p) == Keys!key_at_position(p)

(* The signer is looked up at the position the manifest itself claims,     *)
(* which is trusted only once the signature has held.                      *)
ManifestSigned ==
  manifest.intact /\ manifest.signer = key_at_position(manifest.export_checkpoint.position)

VerifyManifest ==
  /\ stage = "manifest"
  /\ IF ~Has(ManifestFile) THEN Terminal(Finding(21, 0))
     ELSE IF Flipped(ManifestFile) THEN Terminal(Finding(22, 0))
     ELSE IF ~ManifestSigned THEN Terminal(Finding(11, 0))
     ELSE goto("members") /\ UNCHANGED <<bundle, resultVars>>
  /\ UNCHANGED <<keyVars, checkpointVars, walkVars>>

(* Every member is listed and hashes to what is listed; then every listed  *)
(* member is there.  The first member at fault decides.                    *)
Listed(m) == m \in DOMAIN manifest.members
Sound(m) == Listed(m) /\ bundle.members[m] = manifest.members[m]

AtFault == {m \in DOMAIN bundle.members : m # ManifestFile /\ ~Sound(m)}

FirstAtFault == CHOOSE m \in AtFault : \A n \in AtFault : n = m \/ Before(m, n)

VerifyMembers ==
  /\ stage = "members"
  /\ IF AtFault # {}
       THEN Terminal(Finding(IF Listed(FirstAtFault) THEN 12 ELSE 21, 0))
     ELSE IF ~(DOMAIN manifest.members \cup {CheckpointsFile} \subseteq DOMAIN bundle.members)
       THEN Terminal(Finding(21, 0))
     ELSE goto("checkpoints") /\ UNCHANGED <<bundle, resultVars>>
  /\ c_authority' = [p \in Position |-> key_at_position(p)]
  /\ UNCHANGED <<keyVars, walkVars, c_checkpoints, c_anomalies, c_head, c_lines, c_outcome>>

CheckpointLine == Bytes(CheckpointsFile)[Len(c_lines) + 1]
CheckpointLineLeft == Len(c_lines) < Len(Bytes(CheckpointsFile))

ReadCheckpointLine ==
  /\ stage = "checkpoints"
  /\ c_outcome = "reading"
  /\ \/ ~CheckpointLineLeft /\ CPs!EndOfFile
     \/ CheckpointLineLeft /\ CPs!Read(CheckpointLine)
  /\ UNCHANGED <<stage, bundle, resultVars, keyVars, walkVars>>

cp_error_row(error) ==
  CASE error \in {"Empty", "Malformed", "InvalidTimestamp"} -> 22
    [] error \in {"CpLinkMismatch", "PositionNotIncreasing", "UnauthorizedSigner",
                  "SignatureInvalid"} -> 4
    [] error = "NotABoundary" -> 10

bounds == CPs!range_bounds(manifest.range[1], manifest.range[2])

Bounded == CPs!IsBoundary(manifest.range[1]) /\ CPs!IsBoundary(manifest.range[2])

(* The checkpoints are read: take the range, compare the manifest's export *)
(* checkpoint with it, and set the walker at its start.                    *)
ScopeFindings ==
  LET ecp == manifest.export_checkpoint
  IN  IF /\ ecp.position = bounds.end_position
         /\ ecp.head = bounds.end_head
         /\ ecp.count = bounds.end_count
        THEN << >> ELSE << Finding(10, 0) >>

CheckpointsRead ==
  /\ stage = "checkpoints"
  /\ c_outcome # "reading"
  /\ IF c_outcome # "ok"
       THEN Terminal(Finding(cp_error_row(c_outcome), 0)) /\ UNCHANGED walkVars
     ELSE IF ~Bounded
       THEN Terminal(Finding(cp_error_row("NotABoundary"), 0)) /\ UNCHANGED walkVars
     ELSE
       /\ goto("records")
       /\ Found(ScopeFindings)
       /\ w_start' = [w \in {"epoch"} |->
                        [position |-> bounds.start_position, head |-> bounds.start_head]]
       /\ w_position' = [w \in {"epoch"} |-> bounds.start_position]
       /\ w_head' = [w \in {"epoch"} |-> bounds.start_head]
       /\ w_heads' = [w \in {"epoch"} |-> << >>]
       /\ w_lines' = [w \in {"epoch"} |-> << >>]
       /\ w_outcome' = [w \in {"epoch"} |-> "walking"]
       /\ UNCHANGED <<bundle, report, record_infos, erasure_targets, withheld, tier>>
  /\ UNCHANGED <<keyVars, checkpointVars>>

-----------------------------------------------------------------------------
(* Phase B.  A step from one stage to the next that adds findings.         *)

FilesUnchanged == UNCHANGED <<bundle, keyVars, checkpointVars>>

Step(from, to, more) ==
  /\ stage = from
  /\ stage' = to
  /\ Found(more)
  /\ FilesUnchanged

epoch == IF Has(EpochFile) THEN Bytes(EpochFile) ELSE << >>
closure == IF Has(ClosureFile) THEN Bytes(ClosureFile) ELSE << >>

SigningKeys == {k_events[i].key : i \in 1 .. Len(k_events)}

(* analyze_record: the row of the first problem, or 0.                     *)
FaultRow(line) ==
  CASE line.body.form = "multi" -> 17
    [] line.body.form # "multi" /\ line.body.payload_type # "record" -> 22
    [] line.body.form # "multi" /\ line.body.payload_type = "record"
         /\ line.body.keyid \notin SigningKeys -> 16
    [] OTHER -> IF line.body.intact /\ line.body.signer = line.body.keyid THEN 0 ELSE 2

FaultPosition(line) == IF FaultRow(line) \in {2, 16} THEN line.position ELSE 0

(* Mutant of position_correct: any declared signing key will do.           *)
key_declared(line) == line.body.keyid \in SigningKeys

position_correct(line) == key_at_position(line.position) = line.body.keyid

RecordFindings(line) ==
  IF FaultRow(line) # 0 THEN << Finding(FaultRow(line), FaultPosition(line)) >>
  ELSE IF ~position_correct(line) THEN << Finding(3, line.position) >>
  ELSE << >>

(* What the kept lines of a file give, in the order of the file.           *)
Gathered(lines, kept, F(_)) ==
  FlattenSeq([i \in DOMAIN lines |-> IF i \in kept THEN F(lines[i]) ELSE << >>])

AnalyzeRecords ==
  /\ Step("records", "walk", Gathered(epoch, DOMAIN epoch, RecordFindings))
  /\ record_infos' = {i \in DOMAIN epoch : FaultRow(epoch[i]) = 0}
  /\ UNCHANGED <<report, erasure_targets, withheld, tier, walkVars>>

(* B2: the chain walker reads the epoch.                                   *)
WalkLine == epoch[Len(w_lines["epoch"]) + 1]

WalkRecord ==
  /\ stage = "walk"
  /\ w_outcome["epoch"] = "walking"
  /\ IF Len(w_lines["epoch"]) < Len(epoch)
       THEN Records!ReadLine("epoch", WalkLine)
       ELSE Records!Finish("epoch")
  /\ UNCHANGED <<stage, resultVars>>
  /\ FilesUnchanged

LandsOnEnd ==
  /\ Records!WalkChain("epoch").position = bounds.end_position
  /\ Records!WalkChain("epoch").head = bounds.end_head

(* Mutant of ChainFindings: the counts are not compared.                   *)
UncountedFindings ==
  IF w_outcome["epoch"] = "ok" /\ LandsOnEnd THEN << >> ELSE << Finding(4, 0) >>

(* B2's result and B3, the manifest's record count.                        *)
ChainFindings ==
  (IF w_outcome["epoch"] = "ok" /\ LandsOnEnd THEN << >> ELSE << Finding(4, 0) >>)
    \o (IF manifest.records = Len(epoch) THEN << >> ELSE << Finding(10, 0) >>)

RecordsWalked ==
  /\ stage = "walk"
  /\ w_outcome["epoch"] # "walking"
  /\ Step("walk", "compromise", ChainFindings)
  /\ UNCHANGED <<report, record_infos, erasure_targets, withheld, tier, walkVars>>

(* Mutant of anchored_before_claim: any trusted checkpoint will do.        *)
anchored_somewhere(p) ==
  \E i \in 1 .. Len(c_checkpoints) : c_checkpoints[i].position \in Trusted

(* B4: is the record's covering checkpoint known to predate the claim?     *)
anchored_before_claim(p) ==
  LET covering == {i \in 1 .. Len(c_checkpoints) : c_checkpoints[i].position >= p}
  IN  covering # {} /\ c_checkpoints[Min(covering)].position \in Trusted

CompromiseFindings(line) ==
  IF ~position_correct(line) THEN << >>
  ELSE
    CASE Keys!classify_compromise(line.position, line.body.keyid,
                                  anchored_before_claim(line.position))
           = "NotAffected" -> << >>
      [] Keys!classify_compromise(line.position, line.body.keyid,
                                  anchored_before_claim(line.position))
           = "ValidPreClaim" -> << Finding(8, line.position) >>
      [] Keys!classify_compromise(line.position, line.body.keyid,
                                  anchored_before_claim(line.position))
           = "TamperedPostPosition" -> << Finding(7, line.position) >>
      [] OTHER -> << Finding(9, line.position) >>

ClassifyCompromise ==
  /\ Step("compromise", "erasures", Gathered(epoch, record_infos, CompromiseFindings))
  /\ UNCHANGED <<report, record_infos, erasure_targets, withheld, tier, walkVars>>

(* B5: what the erasure records of the range target.                       *)
in_range_positions == {epoch[i].position : i \in record_infos}

Erasures == {i \in record_infos : epoch[i].body.kind = "erasure"}

(* Mutant of BeforeWindow: the record at the window's start is forgotten.  *)
WellBeforeWindow(target) == target # 0 /\ target < bounds.start_position

(* A target before the window is not this bundle's content.                *)
BeforeWindow(target) == target # 0 /\ target <= bounds.start_position

ErasureFindings(line) ==
  IF line.body.target \in in_range_positions \/ BeforeWindow(line.body.target)
    THEN << >> ELSE << Finding(22, line.position) >>

TargetsIn(lines, kept) == {lines[i].body.target : i \in kept} \cap in_range_positions

CollectErasures ==
  /\ Step("erasures", "closure", Gathered(epoch, Erasures, ErasureFindings))
  /\ erasure_targets' = TargetsIn(epoch, Erasures)
  /\ UNCHANGED <<report, record_infos, withheld, tier, walkVars>>

(* closure.jsonl: authenticated line by line, never chained.               *)
InExportedRange(p) == p > bounds.start_position /\ p <= bounds.end_position

ClosureAdmits(line) ==
  /\ FaultRow(line) = 0
  /\ line.body.kind = "erasure"
  /\ ~InExportedRange(line.position)

ClosureFindings(line) ==
  RecordFindings(line) \o
    (IF FaultRow(line) # 0 \/ (ClosureAdmits(line) /\ line.body.target \in in_range_positions)
       THEN << >> ELSE << Finding(22, line.position) >>)

CollectClosure ==
  /\ Step("closure", "content",
          Gathered(closure, DOMAIN closure, ClosureFindings)
            \o (IF manifest.closure = Len(closure) THEN << >> ELSE << Finding(10, 0) >>))
  /\ erasure_targets' =
       erasure_targets \cup TargetsIn(closure, {i \in DOMAIN closure : ClosureAdmits(closure[i])})
  /\ UNCHANGED <<report, record_infos, withheld, tier, walkVars>>

(* Content is present and hashes right, or is withheld for an erasure.     *)
WithContent == {i \in record_infos : epoch[i].body.content_hash # NoContent}

Absent(line) == ~Has(Content(line.position))
Erased(line) == line.position \in erasure_targets

ContentMatches(line) ==
  LET blob == Bytes(Content(line.position))
  IN  /\ ~Flipped(Content(line.position))
      /\ content_hash(blob[1], blob[2]) = line.body.content_hash

(* Mutant of ContentFindings: content that outlives its erasure is not     *)
(* noticed.                                                                *)
SurvivalUnnoticed(line) ==
  IF Absent(line) THEN << Finding(IF Erased(line) THEN 13 ELSE 14, line.position) >>
  ELSE IF ~ContentMatches(line) THEN << Finding(12, line.position) >>
  ELSE << >>

ContentFindings(line) ==
  IF Absent(line) THEN << Finding(IF Erased(line) THEN 13 ELSE 14, line.position) >>
  ELSE IF ~ContentMatches(line) THEN << Finding(12, line.position) >>
  ELSE IF Erased(line) THEN << Finding(15, line.position) >>
  ELSE << >>

actual_withheld == Cardinality({i \in WithContent : Absent(epoch[i]) /\ Erased(epoch[i])})

ExamineContent ==
  /\ Step("content", "informational",
          Gathered(epoch, WithContent, ContentFindings)
            \o (IF manifest.withheld_erased = actual_withheld
                  THEN << >> ELSE << Finding(10, 0) >>))
  /\ withheld' = actual_withheld
  /\ UNCHANGED <<report, record_infos, erasure_targets, tier, walkVars>>

(* B6 to B8: clocks, anchors, a range without records.                     *)
ClockFindings == [i \in 1 .. Len(c_anomalies) |-> Finding(24, c_anomalies[i].position)]

AnchorCount == Cardinality({m \in DOMAIN bundle.members : m[1] = 1})

anchors == [i \in 1 .. AnchorCount |-> Bytes(AnchorFile(i))]

AnchorFindings(a) ==
  IF a.form = "malformed" THEN << Finding(18, 0) >>
  ELSE IF ~CPs!IsBoundary(a.checkpoint_position) THEN << Finding(19, 0) >>
  ELSE IF a.tsa # 0 /\ CPs!checkpoint_at(a.checkpoint_position).at > a.tsa
    THEN << Finding(23, a.checkpoint_position) >>
  ELSE << >>

(* 1 for a witness file, 2 for a token; never more, for none is validated. *)
AnchorTier(a) ==
  IF a.form = "malformed" \/ ~CPs!IsBoundary(a.checkpoint_position) THEN 0
  ELSE IF a.kind = "witness" THEN 1 ELSE 2

Inform ==
  /\ Step("informational", "verdict",
          ClockFindings \o Gathered(anchors, DOMAIN anchors, AnchorFindings)
            \o (IF manifest.records = 0 THEN << Finding(25, 0) >> ELSE << >>))
  /\ tier' = Max({0} \cup {AnchorTier(anchors[i]) : i \in 1 .. Len(anchors)})
  /\ UNCHANGED <<report, record_infos, erasure_targets, withheld, walkVars>>

(* The one exit that can say VALID.                                        *)
Conclude ==
  /\ Step("verdict", "done", << >>)
  /\ report' = classify(findings)
  /\ UNCHANGED <<record_infos, erasure_targets, withheld, tier, walkVars>>

Verify ==
  \/ OpenContainer
  \/ ReadKeyLine
  \/ KeysRead
  \/ VerifyManifest
  \/ VerifyMembers
  \/ ReadCheckpointLine
  \/ CheckpointsRead
  \/ AnalyzeRecords
  \/ WalkRecord
  \/ RecordsWalked
  \/ ClassifyCompromise
  \/ CollectErasures
  \/ CollectClosure
  \/ ExamineContent
  \/ Inform
  \/ Conclude
=============================================================================
