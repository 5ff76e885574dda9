------------------------------ MODULE MCPaging ------------------------------
(* Paging alone, for TLC. *)
EXTENDS Paging

Spec == Init /\ [][Next]_pagingVars
=============================================================================
