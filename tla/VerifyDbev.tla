----------------------------- MODULE VerifyDbev -----------------------------
(***************************************************************************)
(* The independent verifier, tools/verify_dbev.py, which shares no code    *)
(* with the Rust crate: what verify_bundle reports of a bundle.            *)
(*                                                                         *)
(* A function that raises is modelled by what it gathered up to the line   *)
(* it stopped at and the variant it raised, "none" if it did not.  A       *)
(* finding keeps its row, and its position where the bundle is examined    *)
(* record by record.  The bundle is BundleFormat's, as for VerifyBundle.   *)
(***************************************************************************)
EXTENDS BundleFormat, Digest, SequencesExt

CONSTANTS
  MaxU64,                 \* 0xFFFF_FFFF_FFFF_FFFF
  trusted_witness_times   \* checkpoint positions witnessed before the claimed compromise

Finding(row, position) == [row |-> row, position |-> position]

(* The error of the first check that does not hold.                        *)
Raised(checks) ==
  LET failed == SelectSeq(checks, LAMBDA check : ~check[1])
  IN  IF failed = << >> THEN "none" ELSE failed[1][2]

(* Lines read in turn; the first that raises is the last one read.         *)
ReadAll(lines, start, Error(_, _), Extended(_, _)) ==
  LET Read(state, i) ==
        IF state.error # "none" THEN state
        ELSE IF Error(state, i) # "none" THEN [state EXCEPT !.error = Error(state, i)]
        ELSE Extended(state, lines[i])
  IN  FoldLeftDomain(Read, start, lines)

-----------------------------------------------------------------------------
(* trust/keys.jsonl.                                                       *)

NoRecoveryKey == 0

GenesisError(line, parses) ==
  Raised(<< <<parses, "Malformed">>,
            <<line.kind = "genesis", "MissingGenesis">>,
            <<line.position = 0, "GenesisPositionMismatch">>,
            <<line.key_prev = GENESIS_PREV, "KeyLinkMismatch">>,
            <<line.envelope = "keyrecord", "Malformed">>,
            <<line.signer = line.key, "GenesisNotSelfSigned">> >>)

current_signing_vk(keys) == keys.events[Len(keys.events)].key

(* A rotation is signed by the key before it, a compromise by the recovery *)
(* key, if there is one.                                                   *)
ControlErrors(keys, line) ==
  IF line.kind = "rotation"
    THEN << <<line.envelope = "keyrecord", "Malformed">>,
            <<line.signer = current_signing_vk(keys), "UnauthorizedRotation">> >>
    ELSE << <<keys.recovery_key # NoRecoveryKey, "UnauthorizedControlRecord">>,
            <<line.envelope = "keyrecord", "Malformed">>,
            <<line.signer = keys.recovery_key, "UnauthorizedControlRecord">>,
            <<line.time = "rfc3339", "InvalidCompromiseTime">> >>

KeyLineError(keys, line, parses) ==
  IF line.kind = "genesis"
    THEN Raised(<< <<keys.compromise = << >>, "JournalSealed">>,
                   <<parses, "Malformed">>, <<FALSE, "DuplicateGenesis">> >>)
    ELSE Raised(<< <<keys.compromise = << >>, "JournalSealed">>,
                   <<parses, "Malformed">>,
                   <<line.position > keys.last_position, "PositionNotIncreasing">>,
                   <<line.key_prev = keys.head, "KeyLinkMismatch">> >>
                  \o ControlErrors(keys, line))

WithKeyLine(keys, line) ==
  LET declared == << [position |-> line.position, key |-> line.key] >>
  IN  [keys EXCEPT
         !.events = IF line.kind = "compromise" THEN @ ELSE @ \o declared,
         !.recovery_key = IF line.kind = "genesis" THEN line.recovery ELSE @,
         !.compromise = IF line.kind = "compromise" THEN declared ELSE @,
         !.last_position = line.position,
         !.head = head_hash(@, leaf_hash(line))]

(* The last byte of a file belongs to its last line.                       *)
verify_key_chain(member) ==
  LET lines == member.bytes
      Parses(i) == ~(member.flipped /\ i = Len(lines))
      Error(keys, i) == IF i = 1 THEN GenesisError(lines[1], Parses(1))
                                 ELSE KeyLineError(keys, lines[i], Parses(i))
      start == [events |-> << >>, recovery_key |-> NoRecoveryKey, compromise |-> << >>,
                last_position |-> 0, head |-> GENESIS_PREV,
                error |-> IF lines = << >> THEN "MissingGenesis" ELSE "none"]
  IN  ReadAll(lines, start, Error, WithKeyLine)

all_signing_keys(keys) == {keys.events[i].key : i \in DOMAIN keys.events}

(* Mutant of key_at_position: the first event instead of the last.         *)
first_key(keys, position) == keys.events[1].key

(* From the front, as long as the events are not beyond the position.      *)
key_at_position(keys, position) ==
  LET reached == {i \in DOMAIN keys.events :
                    \A j \in 1 .. i : keys.events[j].position <= position}
  IN  keys.events[Max(reached)].key

classify_compromise(keys, record_position, record_keyid, anchored_before_claim) ==
  IF keys.compromise = << >> THEN "NotAffected"
  ELSE IF record_keyid # keys.compromise[1].key THEN "NotAffected"
  ELSE IF record_position >= keys.compromise[1].position THEN "TamperedPostPosition"
  ELSE IF anchored_before_claim THEN "ValidPreClaim"
  ELSE "IndeterminateWindow"

-----------------------------------------------------------------------------
(* Manifest and members.                                                   *)

ManifestError(reader, keys) ==
  IF ManifestFile \notin DOMAIN reader THEN "Missing"
  ELSE LET manifest == reader[ManifestFile].bytes
           vk == key_at_position(keys, manifest.export_checkpoint.position)
       IN  Raised(<< <<~reader[ManifestFile].flipped, "Malformed">>,
                     <<manifest.intact /\ manifest.signer = vk, "Signature">> >>)

(* Every member is listed with its hash, in the container's order; then    *)
(* every listed one is there.                                              *)
verify_members(reader, manifest) ==
  LET Error(name) ==
        IF name \notin DOMAIN manifest.members THEN "Unlisted"
        ELSE IF reader[name] # manifest.members[name] THEN "HashMismatch"
        ELSE "none"
      faulty == {name \in DOMAIN reader \ {ManifestFile} : Error(name) # "none"}
  IN  IF faulty # {}
        THEN Error(CHOOSE name \in faulty :
                     \A other \in faulty \ {name} : Before(name, other))
      ELSE IF DOMAIN manifest.members \subseteq DOMAIN reader THEN "none"
      ELSE "Missing"

-----------------------------------------------------------------------------
(* checkpoints.jsonl.                                                      *)

CheckpointError(chain, line, keys) ==
  LET expected_vk == key_at_position(keys, line.position)
  IN  Raised(<< <<\/ chain.checkpoints = << >>
                  \/ line.position > Last(chain.checkpoints).position,
                  "PositionNotIncreasing">>,
                <<line.cp_prev = chain.head, "CpLinkMismatch">>,
                <<line.keyid = expected_vk, "UnauthorizedSigner">>,
                <<line.envelope = "checkpoint", "Malformed">>,
                <<line.signer = expected_vk, "SignatureInvalid">>,
                <<line.at_form = "rfc3339", "InvalidTimestamp">> >>)

WithCheckpoint(chain, line) ==
  [chain EXCEPT
     !.checkpoints = Append(@, line),
     !.clock_anomalies =
        IF chain.checkpoints # << >> /\ line.at <= Last(chain.checkpoints).at
          THEN Append(@, line.position) ELSE @,
     !.head = head_hash(@, leaf_hash(line))]

verify_checkpoint_chain(lines, keys) ==
  LET Error(chain, i) == CheckpointError(chain, lines[i], keys)
      start == [checkpoints |-> << >>, clock_anomalies |-> << >>, head |-> GENESIS_PREV,
                error |-> IF lines = << >> THEN "Empty" ELSE "none"]
  IN  ReadAll(lines, start, Error, WithCheckpoint)

(* None, or the first checkpoint at this position.                         *)
checkpoint_at(chain, position) ==
  SelectSeq(chain.checkpoints, LAMBDA cp : cp.position = position)

range_bounds(chain, range) ==
  LET start_cp == checkpoint_at(chain, range[1])
      end_cp == checkpoint_at(chain, range[2])
  IN  IF start_cp = << >> \/ end_cp = << >> THEN [error |-> "NotABoundary"]
      ELSE [error |-> "none",
            start_position |-> start_cp[1].position, start_head |-> start_cp[1].head,
            end_position |-> end_cp[1].position, end_head |-> end_cp[1].head,
            end_count |-> end_cp[1].count]

-----------------------------------------------------------------------------
(* The record chain.                                                       *)

LinkError(walk, line) ==
  Raised(<< <<walk.position + 1 <= MaxU64, "PositionOverflow">>,
            <<line.position = walk.position + 1,
              IF line.position = walk.position THEN "PositionDuplicate" ELSE "PositionGap">>,
            <<line.prev_head = walk.head, "LinkMismatch">> >>)

WithRecord(walk, line) ==
  [walk EXCEPT !.position = line.position, !.head = head_hash(@, leaf_hash(line))]

walk_chain(start_position, start_head, lines) ==
  LET Error(walk, i) == LinkError(walk, lines[i])
      start == [position |-> start_position, head |-> start_head, error |-> "none"]
  IN  ReadAll(lines, start, Error, WithRecord)

-----------------------------------------------------------------------------
(* Records, one at a time: the finding raised, or none.                    *)

analyze_record(line, keys) ==
  LET reached == line.body.keyid \in all_signing_keys(keys)
      signed == line.body.intact /\ line.body.signer = line.body.keyid
  IN  SelectSeq(<< [holds |-> line.body.form # "multi", finding |-> Finding(17, 0)],
                   [holds |-> line.body.payload_type = "record", finding |-> Finding(22, 0)],
                   [holds |-> reached, finding |-> Finding(16, line.position)],
                   [holds |-> signed, finding |-> Finding(2, line.position)] >>,
                LAMBDA check : ~check.holds)

Analyzed(line, keys) == analyze_record(line, keys) = << >>

position_correct(line, keys) == key_at_position(keys, line.position) = line.body.keyid

(* B1, for the journal and the closure alike.                              *)
RecordFindings(line, keys) ==
  IF ~Analyzed(line, keys) THEN << analyze_record(line, keys)[1].finding >>
  ELSE IF ~position_correct(line, keys) THEN << Finding(3, line.position) >>
  ELSE << >>

anchored_before_claim_for(position, chain) ==
  LET covering == SelectSeq(chain.checkpoints, LAMBDA cp : cp.position >= position)
  IN  covering # << >> /\ covering[1].position \in trusted_witness_times

(* B4.                                                                     *)
CompromiseRow ==
  [ValidPreClaim |-> 8, TamperedPostPosition |-> 7, IndeterminateWindow |-> 9]

CompromiseFindings(line, keys, chain) ==
  LET class == classify_compromise(keys, line.position, line.body.keyid,
                                   anchored_before_claim_for(line.position, chain))
  IN  IF ~position_correct(line, keys) \/ class = "NotAffected" THEN << >>
      ELSE << Finding(CompromiseRow[class], line.position) >>

(* B5.  An erasure may target a record of the bundle, or one before it.    *)
ErasureFindings(line, positions, bounds) ==
  LET target == line.body.target
  IN  IF \/ line.body.kind # "erasure"
         \/ target \in positions
         \/ target # 0 /\ target <= bounds.start_position
        THEN << >> ELSE << Finding(22, line.position) >>

ClosureAdmitted(line, bounds) ==
  /\ line.body.kind = "erasure"
  /\ ~(bounds.start_position < line.position /\ line.position <= bounds.end_position)

ClosureFindings(line, keys, positions, bounds) ==
  RecordFindings(line, keys) \o
    (IF \/ ~Analyzed(line, keys)
        \/ ClosureAdmitted(line, bounds) /\ line.body.target \in positions
       THEN << >> ELSE << Finding(22, line.position) >>)

(* A blob is its salt and its content.                                     *)
ContentFindings(line, reader, erasure_targets) ==
  LET name == Content(line.position)
      erased == line.position \in erasure_targets
      blob == reader[name].bytes
      got == content_hash(blob[1], blob[2])
  IN  IF line.body.content_hash = NoContent THEN << >>
      ELSE IF name \notin DOMAIN reader
        THEN << Finding(IF erased THEN 13 ELSE 14, line.position) >>
      ELSE IF reader[name].flipped \/ got # line.body.content_hash
        THEN << Finding(12, line.position) >>
      ELSE IF erased THEN << Finding(15, line.position) >>
      ELSE << >>

(* B7.                                                                     *)
AnchorFindings(anchor, chain) ==
  LET checkpoint == checkpoint_at(chain, anchor.checkpoint_position)
  IN  IF anchor.form = "malformed" THEN << Finding(18, 0) >>
      ELSE IF checkpoint = << >> THEN << Finding(19, 0) >>
      ELSE IF anchor.tsa # 0 /\ checkpoint[1].at > anchor.tsa
        THEN << Finding(23, anchor.checkpoint_position) >>
      ELSE << >>

tier_rank == [none |-> 0, witness |-> 1, token |-> 2]

anchor_tier(anchor, chain) ==
  IF anchor.form = "malformed" \/ checkpoint_at(chain, anchor.checkpoint_position) = << >>
    THEN tier_rank.none
  ELSE IF anchor.kind = "witness" THEN tier_rank.witness ELSE tier_rank.token

-----------------------------------------------------------------------------
(* The verdict and the pipeline.                                           *)

BLOCKING_TAMPERED == {2, 3, 4, 5, 6, 7, 10, 11, 12}
BLOCKING_CANNOT   == {9, 14, 15, 16, 17, 21, 22, 26}

(* Mutant of classify: the first blocking finding, of either kind.         *)
classify_in_order(findings, tier) ==
  LET blocking == SelectSeq(findings, LAMBDA f : f.row \in BLOCKING_TAMPERED \cup BLOCKING_CANNOT)
  IN  [verdict |-> IF blocking = << >> THEN "VALID"
                   ELSE IF blocking[1].row \in BLOCKING_TAMPERED THEN "TAMPERED"
                   ELSE "CANNOT_VERIFY",
       dominant |-> IF blocking # << >> THEN blocking[1]
                    ELSE IF findings # << >> THEN findings[1] ELSE Finding(1, 0),
       findings |-> findings, tier |-> tier]

classify(findings, tier) ==
  LET tampered == SelectSeq(findings, LAMBDA f : f.row \in BLOCKING_TAMPERED)
      cannot == SelectSeq(findings, LAMBDA f : f.row \in BLOCKING_CANNOT)
  IN  [verdict |-> IF tampered # << >> THEN "TAMPERED"
                   ELSE IF cannot # << >> THEN "CANNOT_VERIFY" ELSE "VALID",
       dominant |-> (tampered \o cannot \o findings \o << Finding(1, 0) >>)[1],
       findings |-> findings, tier |-> tier]

terminal(row) == classify(<< Finding(row, 0) >>, tier_rank.none)

key_chain_finding(error) ==
  CASE error = "GenesisNotSelfSigned" -> 2
    [] error \in {"PositionNotIncreasing", "KeyLinkMismatch"} -> 4
    [] error = "UnauthorizedRotation" -> 5
    [] error = "UnauthorizedControlRecord" -> 6
    [] error = "JournalSealed" -> 7
    [] OTHER -> 22

manifest_finding == [Missing |-> 21, Malformed |-> 22, Signature |-> 11]

member_finding == [HashMismatch |-> 12, Unlisted |-> 21, Missing |-> 21]

cp_finding(error) ==
  CASE error \in {"CpLinkMismatch", "PositionNotIncreasing", "UnauthorizedSigner",
                  "SignatureInvalid"} -> 4
    [] error = "NotABoundary" -> 10
    [] OTHER -> 22

Lines(reader, name) == IF name \in DOMAIN reader THEN reader[name].bytes ELSE << >>

Scoped(holds) == IF holds THEN << >> ELSE << Finding(10, 0) >>

Concatenated(lines, F(_)) == FlattenSeq([i \in DOMAIN lines |-> F(lines[i])])

(* Phase B: every finding, in the order it is made.                        *)
accumulate(reader, keys, manifest, chain, bounds) ==
  LET epoch == Lines(reader, EpochFile)
      closure == Lines(reader, ClosureFile)
      infos == SelectSeq(epoch, LAMBDA line : Analyzed(line, keys))
      positions == {infos[i].position : i \in DOMAIN infos}
      admitted == SelectSeq(closure, LAMBDA line :
                    Analyzed(line, keys) /\ ClosureAdmitted(line, bounds))
      erasures == SelectSeq(infos, LAMBDA line : line.body.kind = "erasure") \o admitted
      erasure_targets == {erasures[i].body.target : i \in DOMAIN erasures} \cap positions
      walk == walk_chain(bounds.start_position, bounds.start_head, epoch)
      ecp == manifest.export_checkpoint
      content == Concatenated(infos, LAMBDA line :
                                       ContentFindings(line, reader, erasure_targets))
      actual_withheld == Len(SelectSeq(content, LAMBDA f : f.row = 13))
      names == SetToSortSeq({m \in DOMAIN reader : m[1] = 1}, Before)
      anchors == [i \in DOMAIN names |-> reader[names[i]].bytes]
  IN  classify(
        Scoped(/\ ecp.position = bounds.end_position
               /\ ecp.head = bounds.end_head
               /\ ecp.count = bounds.end_count)
        \o Concatenated(epoch, LAMBDA line : RecordFindings(line, keys))
        \o (IF /\ walk.error = "none"
               /\ walk.position = bounds.end_position
               /\ walk.head = bounds.end_head
              THEN << >> ELSE << Finding(4, 0) >>)
        \o Scoped(manifest.records = Len(epoch))
        \o Concatenated(infos, LAMBDA line : CompromiseFindings(line, keys, chain))
        \o Concatenated(infos, LAMBDA line : ErasureFindings(line, positions, bounds))
        \o Concatenated(closure, LAMBDA line : ClosureFindings(line, keys, positions, bounds))
        \o Scoped(manifest.closure = Len(closure))
        \o content
        \o Scoped(manifest.withheld_erased = actual_withheld)
        \o [i \in DOMAIN chain.clock_anomalies |-> Finding(24, chain.clock_anomalies[i])]
        \o Concatenated(anchors, LAMBDA anchor : AnchorFindings(anchor, chain))
        \o (IF manifest.records = 0 THEN << Finding(25, 0) >> ELSE << >>),
        Max({tier_rank.none} \cup {anchor_tier(anchors[i], chain) : i \in DOMAIN anchors}))

(* Phase A: the first step that raises ends it.                            *)
verify_bundle(data) ==
  LET reader == data.members
      keys == verify_key_chain(reader[KeysFile])
      manifest == reader[ManifestFile].bytes
      chain == verify_checkpoint_chain(reader[CheckpointsFile].bytes, keys)
      bounds == range_bounds(chain, manifest.range)
  IN  IF data.duplicate \/ KeysFile \notin DOMAIN reader THEN terminal(21)
      ELSE IF keys.error # "none" THEN terminal(key_chain_finding(keys.error))
      ELSE IF ManifestError(reader, keys) # "none"
        THEN terminal(manifest_finding[ManifestError(reader, keys)])
      ELSE IF verify_members(reader, manifest) # "none"
        THEN terminal(member_finding[verify_members(reader, manifest)])
      ELSE IF CheckpointsFile \notin DOMAIN reader THEN terminal(21)
      ELSE IF chain.error # "none" THEN terminal(cp_finding(chain.error))
      ELSE IF bounds.error # "none" THEN terminal(cp_finding(bounds.error))
      ELSE accumulate(reader, keys, manifest, chain, bounds)
=============================================================================
