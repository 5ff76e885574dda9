------------------------- MODULE MCBillingWebhooks -------------------------
(* Small instances of BillingWebhooks for TLC.                             *)
EXTENDS BillingWebhooks, TLC

CONSTANTS e1, e2, e3, e4, xA, xB, xG, pair, ghost

Carries(type, x, named) == [type |-> type, ext |-> x, pair |-> named]

PairOfExt == [x \in Exts |-> IF x = xG THEN ghost ELSE pair]

(* A subscription through its life, and the activation of a second one for *)
(* the same pair                                                           *)
Lifecycle == e1 :> Carries("activated", xA, pair) @@ e2 :> Carries("cancelled", xA, None)
  @@ e3 :> Carries("payment_failed", xA, None) @@ e4 :> Carries("activated", xB, pair)

(* An activation among events that cannot be applied: a pair nobody owns,  *)
(* no ids, an unsupported type                                             *)
Rejected == e1 :> Carries("activated", xA, pair) @@ e2 :> Carries("activated", xG, ghost)
  @@ e3 :> Carries("cancelled", None, None) @@ e4 :> Carries("other", None, None)

Symmetry == Permutations(Deliveries) \cup Permutations(Fans)
=============================================================================
