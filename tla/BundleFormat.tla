---------------------------- MODULE BundleFormat ----------------------------
(***************************************************************************)
(* What a .dbev container holds, as far as the verifier tells it apart.    *)
(*                                                                         *)
(* A container maps member names to members.  A member is its content,     *)
(* structured, and whether a byte of it was flipped; the plain SHA-256 of  *)
(* a member is the member.  Names are ordered the way the builder's        *)
(* BTreeMap orders the strings, by their first component, then the second. *)
(***************************************************************************)
EXTENDS Integers

AnchorFile(i)   == <<1, i>>
CheckpointsFile == <<2, 0>>
Content(p)      == <<3, p>>
Extra           == <<4, 0>>
ClosureFile     == <<5, 0>>
EpochFile       == <<6, 0>>
ManifestFile    == <<7, 0>>
KeysFile        == <<8, 0>>

Before(m, n) == m[1] < n[1] \/ (m[1] = n[1] /\ m[2] < n[2])

Member(bytes) == [bytes |-> bytes, flipped |-> FALSE]

(* A hash that the manifest declares for a member nobody wrote: no member  *)
(* has it.                                                                 *)
Phantom == [written |-> FALSE]

NoContent == << >>

(* A record line: the link, and everything else its envelope carries.      *)
(* `intact` is FALSE when the signed payload was changed after signing.    *)
RecordLine(position, prev_head, kind, target, hash, keyid, signer) ==
  [position |-> position, prev_head |-> prev_head,
   body |-> [kind |-> kind, target |-> target, content_hash |-> hash,
             payload_type |-> "record", keyid |-> keyid, signer |-> signer,
             form |-> "single", intact |-> TRUE]]
=============================================================================
