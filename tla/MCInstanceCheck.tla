--------------------------- MODULE MCInstanceCheck ---------------------------
(* Values for InstanceCheck: one check at a time, of two servers whose      *)
(* corpora fall, and two whose writes interrupt each other.  Inodes are     *)
(* interchangeable, and so are processes, for what instances.json says too. *)
EXTENDS InstanceCheck, TLC

Alone == [alone |-> TRUE, urls |-> {"u1", "u2"}, ids |-> {"a"},
          documents |-> {0, 20}, alerts |-> {0, 100, 1000}]
Together == [alone |-> FALSE, urls |-> {"u1"}, ids |-> {"a", "b"},
             documents |-> {20}, alerts |-> {}]

Each == {Alone, Together}
Crowd == {Together}

Symmetry == Permutations(Inode) \cup Permutations(Process)
=============================================================================
