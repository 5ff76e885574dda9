---------------------------- MODULE EventLedger ----------------------------
(***************************************************************************)
(* What the billing webhook promises: an event is recorded once, with one  *)
(* outcome for good, and it reaches the subscriptions only in the very     *)
(* step that records it as processed.                                      *)
(***************************************************************************)
CONSTANTS Events, Pairs, PairOf

VARIABLES ledger, maps, status, cancelledAt

ledgerVars == <<ledger, maps, status, cancelledAt>>

Init ==
  /\ ledger = [e \in Events |-> "none"]
  /\ \A p \in Pairs : status[p] = "none"

OnlyPair(p) ==
  \A q \in Pairs \ {p} : status'[q] = status[q] /\ cancelledAt'[q] = cancelledAt[q]

(* The event takes effect: on its own pair, with its own record. *)
Apply(e) ==
  /\ ledger[e] = "none"
  /\ ledger' = [ledger EXCEPT ![e] = "processed"]
  /\ OnlyPair(PairOf[e])

(* The event is kept without effect. *)
Shelve(e) ==
  /\ ledger[e] = "none"
  /\ ledger' \in {[ledger EXCEPT ![e] = "ignored"], [ledger EXCEPT ![e] = "failed"]}
  /\ UNCHANGED <<maps, status, cancelledAt>>

(* A fan subscribes or cancels. *)
FanWrites ==
  /\ UNCHANGED <<ledger, maps>>
  /\ \E p \in Pairs : OnlyPair(p) /\ status'[p] \in {status[p], "active", "cancelled"}

Next == FanWrites \/ \E e \in Events : Apply(e) \/ Shelve(e)

Spec == Init /\ [][Next]_ledgerVars
=============================================================================
