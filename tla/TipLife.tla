------------------------------- MODULE TipLife -------------------------------
(***************************************************************************)
(* What the tip service promises of a tip: it belongs to the fan who gave  *)
(* it, and becomes completed or failed, never pending again, by a call of  *)
(* that fan which found it pending.  Once such a call is answered and no   *)
(* other is on its way, the outcome stands.                                *)
(***************************************************************************)
CONSTANTS Keys, Fans, None

VARIABLES
  owner,    \* whose tip it is; None if there is none
  status,
  deciding  \* what calls on their way will decide: the tip, their fan, the outcome

lifeVars == <<owner, status, deciding>>

Final == {"completed", "failed"}

Init ==
  /\ owner = [k \in Keys |-> None]
  /\ status = [k \in Keys |-> "none"]
  /\ deciding = {}

Give(k, f) ==
  /\ status[k] = "none"
  /\ owner' = [owner EXCEPT ![k] = f]
  /\ status' = [status EXCEPT ![k] = "pending"]
  /\ UNCHANGED deciding

(* A call of its fan finds the tip pending. *)
Find(k, f, s) ==
  /\ status[k] = "pending" /\ owner[k] = f
  /\ deciding' = deciding \cup {<<k, f, s>>}
  /\ UNCHANGED <<owner, status>>

(* It decides the tip, unless another has since; then the later one stands *)
(* or the earlier.                                                         *)
Decide(k, f, s) ==
  /\ <<k, f, s>> \in deciding
  /\ \/ status' = [status EXCEPT ![k] = s]
     \/ status[k] \in Final /\ UNCHANGED status
  /\ deciding' \in {deciding, deciding \ {<<k, f, s>>}}
  /\ UNCHANGED owner

(* A restart forgets the calls. *)
Forget == deciding' = {} /\ UNCHANGED <<owner, status>>

Next ==
  \/ \E k \in Keys, f \in Fans :
       Give(k, f) \/ \E s \in Final : Find(k, f, s) \/ Decide(k, f, s)
  \/ Forget

Spec == Init /\ [][Next]_lifeVars

(* The outcome of a tip is s, and nobody is about to change it. *)
Settled(k, s) == s \in Final /\ status[k] = s /\ \A d \in deciding : d[1] # k
=============================================================================
