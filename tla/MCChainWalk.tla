----------------------------- MODULE MCChainWalk -----------------------------
(* Two walks over bundles of up to three lines.  One anchor is genesis, the *)
(* other the head after a first line b1: a windowed export of that journal. *)
EXTENDS ChainWalk

CONSTANTS b1, b2, w1, w2

FirstLine == [position |-> 1, prev_head |-> GENESIS_PREV, body |-> b1]

MCAnchor == { [position |-> 0, head |-> GENESIS_PREV],
              [position |-> 1, head |-> HeadAfter(GENESIS_PREV, FirstLine)] }
=============================================================================
