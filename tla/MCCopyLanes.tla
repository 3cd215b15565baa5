----------------------------- MODULE MCCopyLanes -----------------------------
(***************************************************************************)
(* The instances of MCCopyTrading, with the history of their lanes.        *)
(***************************************************************************)
EXTENDS MCCopyTrading, CopyLanes
=============================================================================
