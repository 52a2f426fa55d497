------------------------------ MODULE MCKeyChain ------------------------------
(* Key files over three keys and positions 0 .. MaxU64.  The keys are        *)
(* interchangeable.                                                          *)
EXTENDS KeyChain, TLC
=============================================================================
