---------------------------- MODULE MCRefreshLoop ----------------------------
(***************************************************************************)
(* Instances of RefreshLoop for TLC.                                       *)
(***************************************************************************)
EXTENDS RefreshLoop
==============================================================================
