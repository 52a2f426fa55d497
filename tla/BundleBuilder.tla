---------------------------- MODULE BundleBuilder ----------------------------
(***************************************************************************)
(* BundleBuilder of docbrain-evidence/src/builder.rs, the one writer of    *)
(* .dbev bundles.                                                          *)
(*                                                                         *)
(* A recipe is written by chained calls: with_rotation, add_record, erase, *)
(* export_window_start and so on describe an honest export, and the        *)
(* mutation hooks queue deviations from it.  Each call is an action.       *)
(* build(recipe) is the bundle that comes out, hooks applied.              *)
(***************************************************************************)
EXTENDS BundleFormat, Digest, SequencesExt

CONSTANTS
  MaxRecords,    \* add_record calls
  MaxHooks,      \* mutation hooks queued together
  RotationAt,    \* positions rotations are declared at
  CompromiseAt,  \* positions a compromise is declared at
  WindowAt,      \* starts of windowed exports
  EraseMode,     \* the erase calls used: erase, closure, drop, keep
  AnchorOffered, \* anchors, as records [kind, checkpoint_position, tsa, form]
  ClockOffered,  \* arguments of with_checkpoint_times
  HookOffered,   \* the other hooks: <<name, argument, argument>>
  Explored(_)    \* bound: the recipes that are written

ASSUME BuilderAssumption ==
  /\ MaxRecords \in Nat
  /\ RotationAt \subseteq Nat /\ CompromiseAt \subseteq Nat /\ WindowAt \subseteq Nat
  /\ EraseMode \subseteq {"erase", "closure", "drop", "keep"}
  /\ \A h \in HookOffered : h = <<h[1], h[2], h[3]>>

VARIABLE recipe

(* Seeds of the fixed key pairs; rotation i gets seed 1 + i.               *)
GenesisSeed    == 1
RecoverySeed   == 9
ImpostorSeeds  == [rotation |-> 66, compromise |-> 67]
ForeignSeed    == 250

NewRecipe ==
  [recovery |-> FALSE, rotations |-> << >>, compromise |-> 0, content |-> << >>,
   erase |-> [p \in 1 .. MaxRecords |-> "none"], anchors |-> << >>, window |-> 0,
   zero |-> FALSE, times |-> << >>, hooks |-> {}]

N(r) == Len(r.content)

Hooked(r, name) == \E h \in r.hooks : h[1] = name
HookedAt(r, name, p) == \E h \in r.hooks : h[1] = name /\ h[2] = p
Argument(r, name) == (CHOOSE h \in r.hooks : h[1] = name)[2]
SecondArgument(r, name, p) == (CHOOSE h \in r.hooks : h[1] = name /\ h[2] = p)[3]

Mutations(r) ==
  Cardinality(r.hooks) +
  Cardinality({p \in 1 .. MaxRecords : r.erase[p] \in {"drop", "keep"}})

-----------------------------------------------------------------------------
(* The recipe's calls.  Left out is a call that would only repeat an       *)
(* earlier one's effect or overwrite it: a recipe that makes it is, call   *)
(* order apart, a recipe that makes the later one alone.                   *)

InitRecipe == recipe = NewRecipe

with_recovery_key ==
  /\ CompromiseAt # {}
  /\ ~recipe.recovery
  /\ recipe' = [recipe EXCEPT !.recovery = TRUE]

with_rotation(p) ==
  /\ Len(recipe.rotations) < Cardinality(RotationAt)
  /\ recipe' = [recipe EXCEPT !.rotations = Append(@, p)]

with_compromise(p) ==
  /\ recipe.recovery
  /\ recipe.compromise = 0
  /\ recipe' = [recipe EXCEPT !.compromise = p]

(* add_record, followed or not by with_content.                            *)
add_record(with_content) ==
  /\ N(recipe) < MaxRecords
  /\ recipe' = [recipe EXCEPT !.content = Append(@, with_content)]

erase(p, mode) ==
  /\ p <= N(recipe)
  /\ recipe.content[p]
  /\ recipe.erase[p] = "none"
  /\ mode \in {"drop", "keep"} => Mutations(recipe) < MaxHooks
  /\ recipe' = [recipe EXCEPT !.erase[p] = mode]

with_anchor(a) ==
  /\ recipe.anchors = << >>
  /\ recipe' = [recipe EXCEPT !.anchors = Append(@, a)]

zero_records ==
  /\ ~recipe.zero
  /\ recipe' = [recipe EXCEPT !.zero = TRUE]

with_checkpoint_times(times) ==
  /\ recipe.times = << >>
  /\ recipe' = [recipe EXCEPT !.times = times]

export_window_start(p) ==
  /\ recipe.window = 0
  /\ recipe' = [recipe EXCEPT !.window = p]

(* The mutation hooks.  record_mut panics on a record that is not there; a *)
(* hook kept in an Option replaces its earlier argument.                   *)
RecordHook == {"tamper_record", "forge_prev_head", "forge_position",
               "unknown_key_record", "multi_sig_record", "wrong_payload_type_record"}

Replaces(h, g) == g[1] = h[1] /\ (h[1] \in RecordHook => g[2] = h[2])

Hook(h) ==
  LET others == {g \in recipe.hooks : ~Replaces(h, g)}
  IN  /\ h[1] \in RecordHook => h[2] <= N(recipe)
      /\ Mutations([recipe EXCEPT !.hooks = others]) < MaxHooks
      /\ recipe' = [recipe EXCEPT !.hooks = others \cup {h}]

Call ==
  \/ with_recovery_key
  \/ \E p \in RotationAt : with_rotation(p)
  \/ \E p \in CompromiseAt : with_compromise(p)
  \/ \E c \in BOOLEAN : add_record(c)
  \/ \E p \in 1 .. MaxRecords, mode \in EraseMode : erase(p, mode)
  \/ \E a \in AnchorOffered : with_anchor(a)
  \/ zero_records
  \/ \E times \in ClockOffered : with_checkpoint_times(times)
  \/ \E p \in WindowAt : export_window_start(p)
  \/ \E h \in HookOffered : Hook(h)

-----------------------------------------------------------------------------
(* build(): the keys.                                                      *)

(* The key a position is signed with: the last rotation at or before it.   *)
signer_for_position(r, p) ==
  LET declared == {i \in 1 .. Len(r.rotations) : r.rotations[i] <= p}
  IN  IF declared = {} THEN GenesisSeed ELSE 1 + Max(declared)

(* Lines 1 .. n chained from head h: Line(i, prev) is the i-th line, and   *)
(* the next one continues from the head after Signed(line).               *)
Chained(h, n, Line(_, _), Signed(_)) ==
  LET head[i \in 0 .. n] ==
        IF i = 0 THEN h
        ELSE LET prev == head[i - 1] IN HeadAfter(prev, Signed(Line(i, prev)))
  IN  [i \in 1 .. n |-> [line |-> Line(i, head[i - 1]), after |-> head[i]]]

LinesOf(chain) == [i \in 1 .. Len(chain) |-> chain[i].line]

LastHead(h, chain) == IF chain = << >> THEN h ELSE chain[Len(chain)].after

AsIs(line) == line

RotationKey(i) == 1 + i

Genesis(r, prev) ==
  [kind |-> "genesis", position |-> 0, key_prev |-> prev, key |-> GenesisSeed,
   recovery |-> IF r.recovery THEN RecoverySeed ELSE 0, signer |-> GenesisSeed,
   envelope |-> "keyrecord"]

Rotation(r, i, prev) ==
  [kind |-> "rotation", position |-> r.rotations[i], key_prev |-> prev,
   key |-> RotationKey(i),
   signer |-> IF HookedAt(r, "corrupt_rotation_signer", r.rotations[i])
                THEN ImpostorSeeds.rotation
              ELSE IF i = 1 THEN GenesisSeed ELSE RotationKey(i - 1),
   envelope |-> "keyrecord"]

Compromise(r, prev) ==
  [kind |-> "compromise", position |-> r.compromise, key_prev |-> prev,
   key |-> signer_for_position(r, r.compromise - 1), time |-> "rfc3339",
   signer |-> IF Hooked(r, "corrupt_compromise_signer")
                THEN ImpostorSeeds.compromise ELSE RecoverySeed,
   envelope |-> "keyrecord"]

KeyRecord(r, i, prev) ==
  IF i = 1 THEN Genesis(r, prev)
  ELSE IF i <= Len(r.rotations) + 1 THEN Rotation(r, i - 1, prev)
  ELSE Compromise(r, prev)

KeyRecords(r) == Len(r.rotations) + 1 + (IF r.compromise = 0 THEN 0 ELSE 1)

KeyLines(r) ==
  LinesOf(Chained(GENESIS_PREV, KeyRecords(r), LAMBDA i, prev : KeyRecord(r, i, prev), AsIs))

-----------------------------------------------------------------------------
(* build(): the journal.  Records first, then the in-range erasures of     *)
(* their content, then the dangling one.                                   *)

Salt(p) == p

ContentHash(r, p) == IF r.content[p] THEN content_hash(Salt(p), p) ELSE NoContent

(* The targets of the erase calls with these modes, in order: erasing a    *)
(* record that has no content leaves no trace.                             *)
Targeted(r, modes) == {p \in 1 .. N(r) : r.content[p] /\ r.erase[p] \in modes}

Targets(r, modes) ==
  LET targeted == Targeted(r, modes)
  IN  [i \in 1 .. Cardinality(targeted) |->
         CHOOSE p \in targeted : Cardinality({q \in targeted : q <= p}) = i]

InRange(r) == Targets(r, {"erase", "keep"})

Honest(r, p, prev) ==
  RecordLine(p, prev, "note", 0, ContentHash(r, p),
             signer_for_position(r, p), signer_for_position(r, p))

(* The signature of record p: an unknown key, a key of another position,   *)
(* or its own.                                                             *)
RecordSigner(r, p) ==
  IF HookedAt(r, "unknown_key_record", p) THEN ForeignSeed
  ELSE IF HookedAt(r, "forge_position", p)
    THEN signer_for_position(r, SecondArgument(r, "forge_position", p))
  ELSE signer_for_position(r, p)

Record(r, p, prev) ==
  LET declared == IF HookedAt(r, "forge_prev_head", p) THEN <<"bogus", prev>> ELSE prev
  IN  [Honest(r, p, declared) EXCEPT
         !.body.keyid = RecordSigner(r, p),
         !.body.signer = RecordSigner(r, p),
         !.body.payload_type =
            IF HookedAt(r, "wrong_payload_type_record", p) THEN "checkpoint" ELSE @,
         !.body.form = IF HookedAt(r, "multi_sig_record", p) THEN "multi" ELSE @,
         !.body.intact = ~HookedAt(r, "tamper_record", p)]

Erasure(r, p, prev, target) ==
  RecordLine(p, prev, "erasure", target, NoContent,
             signer_for_position(r, p), signer_for_position(r, p))

(* A tampered record is edited after the export: what follows it was       *)
(* chained to the bytes that were signed.                                  *)
BeforeTamper(line) == [line EXCEPT !.body.intact = TRUE]

(* total_n: the records, and whatever is journaled after them.             *)
JournalLength(r) ==
  N(r) + Len(InRange(r)) + (IF Hooked(r, "dangling_erasure_target") THEN 1 ELSE 0)

Entry(r, i, prev) ==
  LET erased == InRange(r)
  IN  IF i <= N(r) THEN Record(r, i, prev)
      ELSE IF i <= N(r) + Len(erased) THEN Erasure(r, i, prev, erased[i - N(r)])
      ELSE Erasure(r, i, prev, Argument(r, "dangling_erasure_target"))

Journal(r) ==
  Chained(GENESIS_PREV, JournalLength(r), LAMBDA i, prev : Entry(r, i, prev), BeforeTamper)

(* Erasures that happened after the exported range: closure.jsonl.         *)
ClosureLines(r, journal) ==
  LET erased == Targets(r, {"closure"})
      dangling == IF Hooked(r, "dangling_closure_erasure_target") THEN 1 ELSE 0
      Natural(i) == Len(journal) + i
      Position(i) == IF Hooked(r, "closure_record_position_override")
                       THEN Argument(r, "closure_record_position_override")
                       ELSE Natural(i)
      Line(i, prev) ==
        IF i <= Len(erased)
          THEN [Erasure(r, Position(i), prev, erased[i]) EXCEPT
                  !.body.kind = IF Hooked(r, "closure_record_wrong_kind")
                                  THEN "note" ELSE @,
                  !.body.intact = ~Hooked(r, "tamper_closure_record")]
          ELSE Erasure(r, Natural(i), prev, Argument(r, "dangling_closure_erasure_target"))
  IN  LinesOf(Chained(LastHead(GENESIS_PREV, journal), Len(erased) + dangling, Line, AsIs))

(* Content leaves the bundle when it is erased or lies before the window.  *)
HasContent(r, p) == r.content[p] /\ p > r.window /\ r.erase[p] \in {"none", "keep"}

(* Counted as withheld: erased, and inside the window.                     *)
Withheld(r) ==
  Cardinality({p \in 1 .. N(r) :
     r.content[p] /\ r.erase[p] \in {"erase", "closure"} /\ p > r.window})

-----------------------------------------------------------------------------
(* build(): checkpoints, manifest, container.                              *)

End(r) == IF r.zero THEN 0 ELSE JournalLength(r)

HeadAt(journal, p) == IF p = 0 THEN GENESIS_PREV ELSE journal[p].after

(* 2, then 3, unless the clock is turned back or the times are given.      *)
StartTime(r) == IF r.times = << >> THEN 2 ELSE r.times[1]
EndTime(r) ==
  IF r.times # << >> THEN r.times[2]
  ELSE IF Hooked(r, "backwards_checkpoint_clock") THEN 1 ELSE 3

CheckpointAt(r, journal, p, at, prev) ==
  [position |-> p, head |-> HeadAt(journal, p), count |-> p, at |-> at,
   at_form |-> "rfc3339", keyid |-> signer_for_position(r, p), cp_prev |-> prev,
   signer |-> signer_for_position(r, p), envelope |-> "checkpoint"]

CheckpointLines(r, journal) ==
  LET Line(i, prev) ==
        IF i = 1 THEN CheckpointAt(r, journal, r.window, StartTime(r), prev)
                 ELSE CheckpointAt(r, journal, End(r), EndTime(r), prev)
  IN  LinesOf(Chained(GENESIS_PREV, IF End(r) = 0 THEN 1 ELSE 2, Line, AsIs))

(* The members before the manifest is written.                             *)
MemberNames(r) ==
  {CheckpointsFile, ClosureFile, EpochFile, KeysFile}
    \cup {Content(p) : p \in {q \in 1 .. N(r) : HasContent(r, q)}}
    \cup {AnchorFile(i) : i \in 1 .. Len(r.anchors)}
    \cup (IF Hooked(r, "unlisted_container_member") THEN {Extra} ELSE {})

EpochLines(r, journal) == SubSeq(LinesOf(journal), r.window + 1, Len(journal))

ContentBytes(p) == <<Salt(p), p>>

MemberBytes(r, journal, m) ==
  CASE m = CheckpointsFile -> CheckpointLines(r, journal)
    [] m = ClosureFile     -> ClosureLines(r, journal)
    [] m = EpochFile       -> EpochLines(r, journal)
    [] m = KeysFile        -> KeyLines(r)
    [] m = Extra           -> << >>
    [] m[1] = 3            -> ContentBytes(m[2])
    [] m[1] = 1            -> r.anchors[m[2]]

Contents(r, journal) == [m \in MemberNames(r) |-> Member(MemberBytes(r, journal, m))]

(* What the manifest declares: every member but the unlisted one, and one  *)
(* that is never written.                                                  *)
Missing(r) == {<<h[2], h[3]>> : h \in {g \in r.hooks : g[1] = "missing_container_member"}}

Declared(r, members) ==
  [m \in (DOMAIN members \cup Missing(r)) \ (DOMAIN members \cap {Extra}) |->
     IF m \in Missing(r) THEN Phantom ELSE members[m]]

(* The record count of the window, and of its manifest.                    *)
WindowLength(r) == JournalLength(r) - r.window

Lie(r, name) == IF Hooked(r, name) THEN 1 ELSE 0

ExportPosition(r) ==
  End(r) + Lie(r, "mismatched_manifest_export_checkpoint")

ExportHead(r, head) ==
  IF Hooked(r, "mismatched_manifest_export_checkpoint") THEN <<"bogus", head>> ELSE head

(* The manifest, with the lies the hooks ask it to tell, honestly signed.  *)
Manifest(r, journal, members) ==
  [range |-> <<r.window, End(r)>>,
   records |-> WindowLength(r) + Lie(r, "mismatched_manifest_counts"),
   closure |-> Len(members[ClosureFile].bytes)
                 + Lie(r, "mismatched_manifest_closure_count"),
   withheld_erased |-> Withheld(r),
   export_checkpoint |->
     [position |-> ExportPosition(r),
      head |-> ExportHead(r, HeadAt(journal, End(r))),
      count |-> End(r)],
   members |-> Declared(r, members),
   signer |-> signer_for_position(r, ExportPosition(r)),
   intact |-> ~Hooked(r, "tamper_manifest")]

(* journal_lines[range_start..] panics past the end.                      *)
CanBuild(r) == r.window <= JournalLength(r)

Whole(r, journal, contents) ==
  [m \in DOMAIN contents \cup {ManifestFile} |->
     IF m = ManifestFile THEN Member(Manifest(r, journal, contents)) ELSE contents[m]]

(* Last, after the hashes are taken: a byte flipped, a member left out, or *)
(* a member written twice.  To duplicate a member the ZIP is written by    *)
(* hand, which leaves nothing out, even if the member is not there.        *)
Written(r, whole) ==
  LET Named(hook, m) == <<hook, m[1], m[2]>> \in r.hooks
      LeftOut(m) == Named("missing_container_member", m) /\ ~Hooked(r, "duplicate_member")
  IN  [members |->
         [m \in {n \in DOMAIN whole : ~LeftOut(n)} |->
            [whole[m] EXCEPT !.flipped = Named("tamper_member", m)]],
       duplicate |-> \E m \in DOMAIN whole : Named("duplicate_member", m)]

BuildFrom(r, journal) == Written(r, Whole(r, journal, Contents(r, journal)))

build(r) == BuildFrom(r, Journal(r))
=============================================================================
