----------------------------- MODULE MCMessaging -----------------------------
(***************************************************************************)
(* What passes between a fan and a creator, for TLC: the messages of their *)
(* conversation, tips, and the split of a tip's amount.  They share no     *)
(* column, so a behaviour of this instance is one of any one of them, with *)
(* the others at rest.                                                     *)
(***************************************************************************)
EXTENDS Messaging, TipFee, TLC

CONSTANTS Keys, Fans, TipRequests, MaxCrashes

VARIABLES
  service,                                                       \* the one that runs
  owner, status, tipReq, unlogged, audit, contested, crashes     \* Tips

tipVars == <<owner, status, tipReq, unlogged, audit, contested, crashes>>

Tips == INSTANCE Tips WITH Requests <- TipRequests, req <- tipReq

(* What Tips and TipFee assume of the values they are given *)
ASSUME PairAssumption == Tips!TipsAssumption /\ TipFeeAssumption

PairInit ==
  /\ Init /\ Tips!Init /\ FeeInit
  /\ \/ service \in {"messages", "tips"} /\ platformFeeBps = 500
     \/ service = "fee"

PairNext ==
  /\ UNCHANGED service
  /\ \/ service = "messages" /\ Next /\ UNCHANGED <<tipVars, feeVars>>
     \/ service = "tips" /\ Tips!Next /\ UNCHANGED <<vars, feeVars>>
     \/ service = "fee" /\ FeeNext /\ UNCHANGED <<vars, tipVars>>
PairSpec == PairInit /\ [][PairNext]_<<service, vars, tipVars, feeVars>>

(* Rows and calls of both services keep their shape. *)
PairTypeOK == TypeOK /\ Tips!TypeOK
(* A tip is its fan's, and so is its outcome; see Tips and TipLife. *)
OutcomesImplemented == Tips!OutcomesImplemented
(* The audit log of a tip says what happened; see Tips. *)
AuditTrue == Tips!AuditTrue

SmallAmounts == 0..500
EdgeFees == {0, 1, 499, 500, 501, 5000, 9999, 10000}   \* 500 is the default

Symmetry == Permutations(Requests) \cup Permutations(Fans)
=============================================================================
