---------------------------- MODULE MCCheckpoints ----------------------------
(* Checkpoint files over two keys, every history of authority over the      *)
(* positions 0 .. MaxU64, two instants and two heads.                        *)
EXTENDS Checkpoints

=============================================================================
