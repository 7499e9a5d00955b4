----------------------------- MODULE MCAccounts -----------------------------
(***************************************************************************)
(* Accounts on two users and two calls.                            *)
(***************************************************************************)
EXTENDS Accounts, TLC

CONSTANTS u1, u2, p1, p2

=============================================================================
