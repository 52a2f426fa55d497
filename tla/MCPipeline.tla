----------------------------- MODULE MCPipeline -----------------------------
(* Shapes of exports for TLC.                                               *)
EXTENDS EvidencePipeline

Witness(p) == [kind |-> "witness", checkpoint_position |-> p, tsa |-> 0, form |-> "json"]
Token(p, t) == [kind |-> "token", checkpoint_position |-> p, tsa |-> t, form |-> "json"]

HonestAnchors == {Witness(0), Token(2, 4), Token(2, 2), Witness(8),
                  [Token(0, 0) EXCEPT !.form = "malformed"]}

Bundlewide == {"mismatched_manifest_counts", "mismatched_manifest_export_checkpoint",
               "mismatched_manifest_closure_count", "tamper_manifest",
               "unlisted_container_member", "tamper_closure_record",
               "closure_record_wrong_kind", "backwards_checkpoint_clock",
               "corrupt_compromise_signer"}

Files == {KeysFile, ManifestFile, EpochFile, CheckpointsFile, ClosureFile,
          Content(1), Content(2), Extra}

MCHooks ==
  {<<hook, p, 0>> : hook \in RecordHook \ {"forge_position"}, p \in 1 .. MaxRecords}
    \cup {<<"forge_position", p, q>> : p \in 1 .. MaxRecords, q \in {0, 3}}
    \cup {<<hook, 0, 0>> : hook \in Bundlewide}
    \cup {<<hook, m[1], m[2]>> :
            hook \in {"tamper_member", "missing_container_member", "duplicate_member"},
            m \in Files}
    \cup {<<"corrupt_rotation_signer", p, 0>> : p \in RotationAt}
    \cup {<<hook, p, 0>> :
            hook \in {"dangling_erasure_target", "dangling_closure_erasure_target"},
            p \in {0, 1, 5}}
    \cup {<<"closure_record_position_override", p, 0>> : p \in {0, 2}}

CompromiseHook == {<<"corrupt_compromise_signer", 0, 0>>}

StoppedClock == {<<2, 2>>}

ErasedBy(r, modes) == \A p \in 1 .. MaxRecords : r.erase[p] \in modes \cup {"none"}

(* Every export without a compromise, clock or anchor; and, with two        *)
(* records and at most one rotation, everything but a closure erasure.      *)
PlainOrSealed(r) ==
  \/ ~r.recovery /\ r.anchors = << >> /\ r.times = << >> /\ r.hooks = {}
  \/ /\ N(r) <= 2 /\ ErasedBy(r, {"erase"})
     /\ r.rotations \in {<< >>, <<2>>} /\ r.window \in {0, 1}

(* One deviation from any export without a compromise, anchor or clock; two *)
(* from those that erase with "erase", without a rotation or a window.  One *)
(* from an export with a compromise, or none from one with an anchor or     *)
(* clock, that has no other erasure.                                        *)
Plain(r) == ~r.recovery /\ r.anchors = << >> /\ r.times = << >>

OneOrTwoHooks(r) ==
  \/ /\ Plain(r)
     /\ \/ Mutations(r) <= 1
        \/ ErasedBy(r, {"erase", "drop"}) /\ r.rotations = << >> /\ r.window = 0
  \/ /\ ~Plain(r)
     /\ ErasedBy(r, {"erase"}) /\ ~r.zero
     /\ r.rotations \in {<< >>, <<2>>} /\ r.window = 0
     /\ Mutations(r) <= (IF r.anchors = << >> /\ r.times = << >> THEN 1 ELSE 0)

AnyRecipe(r) == TRUE
=============================================================================
