------------------------------ MODULE MCMemMgr ------------------------------
(***************************************************************************)
(* Instance of MemMgr: lengths below, at and above a page, alignments of   *)
(* one unit, a page and two pages.                                         *)
(***************************************************************************)
EXTENDS MemMgr

MCRequests == {[len |-> 1, align |-> 1], [len |-> 4, align |-> 4], [len |-> 3, align |-> 2]}
=============================================================================
