------------------------------- MODULE Digest -------------------------------
(***************************************************************************)
(* The domain-separated hashes of docbrain-evidence/src/hash.rs, in the    *)
(* symbolic style: a digest is the term that was hashed.  Two digests are  *)
(* equal only if the same function was applied to the same arguments,      *)
(* which is what SHA-256 with the prefixes 0x00, 0x01 and 0x02 is assumed  *)
(* to give.  The first component of each term stands for the prefix.       *)
(***************************************************************************)

GENESIS_PREV == << >>

(* Mutant of leaf_hash: only the record header is hashed, not the body.    *)
leaf_hash_of_header(line) == <<"leaf", line.position, line.prev_head>>

leaf_hash(line) == <<"leaf", line>>

head_hash(prev, leaf) == <<"head", prev, leaf>>

content_hash(salt, content) == <<"content", salt, content>>

(* The head after `line` has been appended to a chain whose head is prev.  *)
HeadAfter(prev, line) == head_hash(prev, leaf_hash(line))
=============================================================================
