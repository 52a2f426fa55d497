---------------------------- MODULE SequenceTypes ----------------------------
(* Sequences whose elements have no type that could be written down, such   *)
(* as the heads of a chain, which are terms of unbounded depth.             *)
EXTENDS Integers, Sequences

Elements(s) == {s[i] : i \in DOMAIN s}

IsSequence(s) == s \in Seq(Elements(s))
=============================================================================
