------------------------------ MODULE Accounts ------------------------------
(***************************************************************************)
(* What the modules about the auths of CLIProxyAPI have in common: the     *)
(* auths, and time, which is counted in ticks that are left and stops at   *)
(* none (a time in the past and no time at all are the same to             *)
(* sdk/cliproxy/auth/selector.go).                                         *)
(***************************************************************************)
EXTENDS Integers

CONSTANT Auths

Elapse(n) == IF n > 0 THEN n - 1 ELSE n
==============================================================================
