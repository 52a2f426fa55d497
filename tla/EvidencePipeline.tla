--------------------------- MODULE EvidencePipeline ---------------------------
(***************************************************************************)
(* An export and its verification, end to end: a recipe is written with    *)
(* BundleBuilder, built, and the bundle goes through VerifyBundle.  What   *)
(* the verifier says is held against the recipe, which the verifier never  *)
(* sees, and against what the independent verifier says.                   *)
(***************************************************************************)
EXTENDS BundleBuilder, VerifyBundle

(* No journal comes near the last position there is.                       *)
ASSUME PipelineAssumption == MaxPosition \in Nat /\ 2 * MaxRecords < MaxPosition

Dbev == INSTANCE VerifyDbev WITH
  MaxU64 <- MaxPosition, trusted_witness_times <- Trusted

vars == <<recipe, verifyVars>>

NoBundle == [members |-> << >>, duplicate |-> FALSE]

Init ==
  /\ InitRecipe
  /\ stage = "recipe"
  /\ bundle = NoBundle
  /\ InitVerify

Write ==
  /\ stage = "recipe"
  /\ Call /\ Explored(recipe')
  /\ UNCHANGED verifyVars

Build ==
  /\ stage = "recipe"
  /\ CanBuild(recipe)
  /\ bundle' = build(recipe)
  /\ stage' = "container"
  /\ UNCHANGED <<recipe, resultVars, keyVars, checkpointVars, walkVars>>

Next ==
  \/ Write
  \/ Build
  \/ Verify /\ UNCHANGED recipe

(* verify_bundle runs to its end: it is one synchronous call.              *)
Spec == Init /\ [][Next]_vars /\ WF_vars(Verify /\ UNCHANGED recipe)

-----------------------------------------------------------------------------
Done == stage = "done"
Valid == Done /\ report.verdict = "VALID"

(* What the recipe's author could export without a mutation hook.          *)
RotationsAscend ==
  /\ \A i \in 1 .. Len(recipe.rotations) : recipe.rotations[i] > 0
  /\ \A i, j \in 1 .. Len(recipe.rotations) :
       i < j => recipe.rotations[i] < recipe.rotations[j]

Total == JournalLength(recipe)

HonestRecipe ==
  /\ Mutations(recipe) = 0
  /\ RotationsAscend
  /\ recipe.compromise = 0
  /\ recipe.zero => Total = 0
  /\ recipe.window = 0 \/ recipe.window < Total
  /\ \A p \in 1 .. N(recipe) : recipe.erase[p] = "closure" => p > recipe.window

InWindow == {p \in 1 .. N(recipe) : p > recipe.window}

CheckpointPositions == {recipe.window, End(recipe)}

WithheldPositions ==
  {p \in InWindow : recipe.content[p] /\ recipe.erase[p] \in {"erase", "closure"}}

(* An honest export verifies, whatever its rotations, window, erasures,    *)
(* anchors and clocks, and the report names exactly what was withheld.     *)
HonestIsValid ==
  Done /\ HonestRecipe =>
    /\ report.verdict = "VALID"
    /\ Rows(findings) \subseteq Informational
    /\ {findings[i].position : i \in {k \in 1 .. Len(findings) : findings[k].row = 13}}
         = WithheldPositions
    /\ withheld = Cardinality(WithheldPositions)

(* The recipe without the hooks that touch the export: the window as the   *)
(* journal holds it.  A dangling erasure is a journal record like any      *)
(* other, and what a record before the window is like shows only in the    *)
(* head of the signed start checkpoint.                                    *)
Unhooked ==
  [recipe EXCEPT
     !.hooks = {h \in @ :
                  \/ h[1] \in {"dangling_erasure_target", "dangling_closure_erasure_target"}
                  \/ h[1] \in RecordHook /\ h[2] <= recipe.window}]

(* VALID is never said of anything but the journal: the records, the       *)
(* content and the counts of a VALID bundle are those of the unhooked      *)
(* export, and content is missing from it only where it was erased.        *)
ValidIsUnaltered ==
  Valid =>
    LET bundled == bundle.members
    IN  /\ bundled[EpochFile] = Member(EpochLines(Unhooked, Journal(Unhooked)))
        /\ bundled[KeysFile] = Member(KeyLines(Unhooked))
        /\ bundled[ManifestFile].bytes.records = WindowLength(Unhooked)
        /\ \A p \in InWindow :
             recipe.content[p] =>
               IF Content(p) \in DOMAIN bundled
                 THEN /\ bundled[Content(p)] = Member(ContentBytes(p))
                      /\ recipe.erase[p] = "none"
                 ELSE p \in WithheldPositions

(* A compromise reaches every record of the compromised key: none passes   *)
(* at or after the seal, and before it only under a trusted witness of a   *)
(* checkpoint that covers it.                                              *)
CompromiseContained ==
  Valid /\ recipe.compromise # 0 =>
    \A p \in recipe.window + 1 .. Total :
      LET compromised == signer_for_position(recipe, recipe.compromise - 1)
      IN  signer_for_position(recipe, p) = compromised =>
            /\ p < recipe.compromise
            /\ \E t \in Trusted \cap CheckpointPositions : t >= p

(* The taxonomy row each hook is documented to lead to (builder.rs, the    *)
(* comment above each method).                                             *)
DocumentedRow ==
  [tamper_record |-> 2, forge_position |-> 3, forge_prev_head |-> 4,
   corrupt_rotation_signer |-> 5, corrupt_compromise_signer |-> 6,
   mismatched_manifest_counts |-> 10, mismatched_manifest_export_checkpoint |-> 10,
   mismatched_manifest_closure_count |-> 10, tamper_manifest |-> 11,
   tamper_member |-> 12, unknown_key_record |-> 16, multi_sig_record |-> 17,
   unlisted_container_member |-> 21, missing_container_member |-> 21,
   duplicate_member |-> 21, wrong_payload_type_record |-> 22,
   dangling_erasure_target |-> 22, dangling_closure_erasure_target |-> 22,
   closure_record_position_override |-> 22, closure_record_wrong_kind |-> 22,
   tamper_closure_record |-> 2, backwards_checkpoint_clock |-> 24]

IsMember(m) == m \in MemberNames(recipe) \cup {ManifestFile}

(* The erasures that go to closure.jsonl.                                  *)
ClosureTargets == {p \in 1 .. N(recipe) : recipe.content[p] /\ recipe.erase[p] = "closure"}

(* Does the hook touch what this recipe exports?                           *)
Effective(h) ==
  CASE h[1] = "forge_position" ->
         h[2] > recipe.window
           /\ signer_for_position(recipe, h[2]) # signer_for_position(recipe, h[3])
    [] h[1] \in RecordHook \ {"forge_position"} -> h[2] > recipe.window
    [] h[1] \in {"tamper_member", "duplicate_member"} -> IsMember(<<h[2], h[3]>>)
    [] h[1] = "corrupt_rotation_signer" ->
         \E i \in 1 .. Len(recipe.rotations) : recipe.rotations[i] = h[2]
    [] h[1] = "corrupt_compromise_signer" -> recipe.compromise # 0
    [] h[1] = "dangling_erasure_target" -> h[2] = 0 \/ h[2] > Total
    [] h[1] = "dangling_closure_erasure_target" ->
         h[2] <= recipe.window \/ h[2] > Total
    [] h[1] = "closure_record_position_override" ->
         ClosureTargets # {} /\ h[2] > recipe.window /\ h[2] <= Total
    [] h[1] \in {"tamper_closure_record", "closure_record_wrong_kind"} -> ClosureTargets # {}
    [] h[1] = "backwards_checkpoint_clock" -> recipe.times = << >> /\ Total > 0
    [] OTHER -> TRUE

(* The recipe is honest but for one hook.                                  *)
OneHook(h) ==
  /\ recipe.hooks = {h}
  /\ Mutations(recipe) = 1
  /\ RotationsAscend
  /\ h[1] # "corrupt_compromise_signer" => recipe.compromise = 0
  /\ \A i \in 1 .. Len(recipe.rotations) :
       recipe.compromise # 0 => recipe.rotations[i] < recipe.compromise
  /\ recipe.zero => Total = 0
  /\ recipe.window = 0 \/ recipe.window < Total
  /\ \A p \in ClosureTargets : p > recipe.window

(* The hook also takes an honest erasure out of the verifier's sight: with *)
(* a record left out for its envelope goes the erasure that targets it,    *)
(* and with a refused closure line the erasure it states.  The manifest's  *)
(* withheld count is then contradicted, which is TAMPERED.                 *)
HidesErasure(h) ==
  \/ /\ h[1] \in {"unknown_key_record", "multi_sig_record", "wrong_payload_type_record"}
     /\ h[2] \in WithheldPositions
  \/ h[1] \in {"closure_record_position_override", "closure_record_wrong_kind"}

(* Each hook is found out under its own row: the row is reported, and, if  *)
(* blocking, dominates unless it also hides an erasure.  The verifier      *)
(* reads keys and manifest before it compares member hashes, so a flipped  *)
(* byte in those two is malformed, not a mismatch.                         *)
RowOf(h) ==
  IF h[1] = "tamper_member" /\ <<h[2], h[3]>> \in {KeysFile, ManifestFile}
    THEN 22 ELSE DocumentedRow[h[1]]

HookIsReported ==
  Done =>
    \A h \in recipe.hooks :
      OneHook(h) /\ Effective(h) =>
        /\ RowOf(h) \in Rows(findings)
        /\ IF RowOf(h) \in Informational THEN report.verdict = "VALID"
           ELSE IF HidesErasure(h) THEN report.verdict = "TAMPERED"
           ELSE report.dominant.row = RowOf(h)

(* Likewise content that is gone unexplained, or there despite an erasure. *)
ErasureIsReported ==
  Done /\ recipe.hooks = {} /\ Mutations(recipe) = 1 /\ RotationsAscend
    /\ recipe.compromise = 0 /\ ~recipe.zero
    /\ (recipe.window = 0 \/ recipe.window < Total)
    /\ (\A p \in ClosureTargets : p > recipe.window) =>
    \A p \in InWindow :
      /\ recipe.erase[p] = "drop" => report.dominant = Finding(14, p)
      /\ recipe.erase[p] = "keep" => report.dominant = Finding(15, p)

DeviationIsReported == HookIsReported /\ ErasureIsReported

(* Of every bundle the two verifiers say the same: verdict, dominant       *)
(* finding, all findings in their order, and anchor tier (verify_dbev.py:  *)
(* "returns the IDENTICAL verdict (and dominant finding code)").           *)
VerifiersAgree ==
  Done =>
    Dbev!verify_bundle(bundle) =
      [verdict |-> report.verdict, dominant |-> report.dominant,
       findings |-> findings, tier |-> tier]

(* Every bundle gets its verdict.                                          *)
EventuallyVerdict == (stage = "container") ~> Done

-----------------------------------------------------------------------------
(* What comments of the code say of it, and is not so.                     *)

(* export_window_start: "position must be <= the total record count": a    *)
(* window may start anywhere up to the end of the journal.                 *)
WindowUpToTotal ==
  Done /\ Mutations(recipe) = 0 /\ RotationsAscend /\ recipe.compromise = 0
    /\ ~recipe.zero /\ recipe.window <= Total /\ ClosureTargets = {}
    => report.verdict = "VALID"
=============================================================================
