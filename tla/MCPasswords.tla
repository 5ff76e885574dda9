----------------------------- MODULE MCPasswords -----------------------------
(* The smallest instance of Passwords, for TLC. *)
EXTENDS Passwords, TLC
=============================================================================
