------------------------------ MODULE Sessions ------------------------------
(***************************************************************************)
(* What the token service promises of sessions, a session being what one   *)
(* login began: it stays its user's, calls end sessions of one user at a   *)
(* time, and a session that has ended is renewed only by a call that found *)
(* it open.                                                                *)
(***************************************************************************)
CONSTANTS Families, Users, None

VARIABLES
  user,      \* whose session it is; None before its login
  open,      \* sessions a client may still renew
  renewing   \* sessions a renewal of which is on its way

sessionVars == <<user, open, renewing>>

Init ==
  /\ user = [f \in Families |-> None]
  /\ open = {} /\ renewing = {}

Login(f, u) ==
  /\ user[f] = None
  /\ user' = [user EXCEPT ![f] = u]
  /\ open' = open \cup {f}
  /\ UNCHANGED renewing

(* A logout, an expiry, reuse or a new password ends sessions of u. *)
End(u) ==
  /\ open' \in (SUBSET open) \ {open}
  /\ \A f \in open \ open' : user[f] = u
  /\ UNCHANGED <<user, renewing>>

Renew(f) ==
  /\ f \in open
  /\ renewing' = renewing \cup {f}
  /\ UNCHANGED <<user, open>>

(* The renewal, perhaps the last of its session, is stored or is lost. *)
Renewed(f) ==
  /\ f \in renewing
  /\ renewing' \in {renewing, renewing \ {f}}
  /\ open' \in {open, open \cup {f}}
  /\ UNCHANGED user

Next ==
  \/ \E u \in Users : End(u) \/ \E f \in Families : Login(f, u)
  \/ \E f \in Families : Renew(f) \/ Renewed(f)

Spec == Init /\ [][Next]_sessionVars

(* A session that has ended, with no renewal on its way; for good, as no   *)
(* action opens it again.                                                  *)
Ended(f) == user[f] # None /\ f \notin open \cup renewing
=============================================================================
