---------------------------- MODULE MCWsState ----------------------------
(***************************************************************************)
(* Instance of WsState: virtual functions and the PF on one logical world  *)
(* switch of two engines.  No definition tells the engines apart, so they  *)
(* may be permuted where only invariants are checked.                      *)
(***************************************************************************)
EXTENDS WsState, TLC

CONSTANTS e1, e2
MCHwSched == {e1, e2}
Symmetry == Permutations(MCHwSched)
==========================================================================
