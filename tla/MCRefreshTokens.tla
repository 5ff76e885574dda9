-------------------------- MODULE MCRefreshTokens --------------------------
(* Small instances of RefreshTokens for TLC: ids are interchangeable.      *)
EXTENDS RefreshTokens, TLC

Symmetry ==
  Permutations(Tokens) \cup Permutations(Users) \cup Permutations(Requests)
=============================================================================
