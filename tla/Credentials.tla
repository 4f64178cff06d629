----------------------------- MODULE Credentials -----------------------------
(***************************************************************************)
(* The auths and the providers they log in at.                             *)
(***************************************************************************)
EXTENDS Accounts

CONSTANT Providers
==============================================================================
