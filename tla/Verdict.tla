------------------------------- MODULE Verdict -------------------------------
(***************************************************************************)
(* The closed-world verdict of docbrain-evidence/src/verdict.rs.  A        *)
(* finding is a row of the taxonomy and the position it is about (0 when   *)
(* it is about the whole bundle).                                          *)
(***************************************************************************)
EXTENDS Integers, Sequences, FiniteSetsExt

Finding(row, position) == [row |-> row, position |-> position]

is_blocking_tampered(row) == row \in {2, 3, 4, 5, 6, 7, 10, 11, 12}

is_blocking_cannot_verify(row) == row \in {9, 14, 15, 16, 17, 21, 22, 26}

Informational == {1, 8, 13, 18, 19, 20, 23, 24, 25}

(* A row no taxonomy knows is itself an unmapped state.                    *)
Mapped(finding) == IF finding.row \in 1 .. 26 THEN finding ELSE Finding(26, 0)

(* TAMPERED dominates CANNOT_VERIFY; within one, the first found dominates. *)
classify(findings) ==
  LET mapped == [i \in DOMAIN findings |-> Mapped(findings[i])]
      tampered == {i \in DOMAIN mapped : is_blocking_tampered(mapped[i].row)}
      unverifiable == {i \in DOMAIN mapped : is_blocking_cannot_verify(mapped[i].row)}
  IN  IF tampered # {}
        THEN [verdict |-> "TAMPERED", dominant |-> mapped[Min(tampered)]]
      ELSE IF unverifiable # {}
        THEN [verdict |-> "CANNOT_VERIFY", dominant |-> mapped[Min(unverifiable)]]
      ELSE [verdict |-> "VALID",
            dominant |-> IF mapped = << >> THEN Finding(1, 0) ELSE mapped[1]]

Rows(findings) == {findings[i].row : i \in 1 .. Len(findings)}
=============================================================================
