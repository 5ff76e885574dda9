----------------------------- MODULE MCAccounts -----------------------------
(***************************************************************************)
(* The user's row for TLC: how it comes to be and keeps its name and       *)
(* e-mail (SignUp), who may log in to the account (Passwords) and what its *)
(* user may do (Roles).  No guard of one reads a column another one        *)
(* writes, so a behaviour of this instance is one of any one of them, with *)
(* the others at rest.                                                     *)
(***************************************************************************)
EXTENDS Passwords, TLC

CONSTANTS Users, Admins, Handles, Emails, Names, Unreadable, MaxUsers

VARIABLES
  service,                                              \* the one that runs
  role, profile, roleReq, outdated, raced, onboarded,   \* Roles
  users, prefs, signUpReq, halfmade, torn  \* SignUp

roleVars == <<role, profile, roleReq, outdated, raced, onboarded>>
signUpVars == <<users, prefs, signUpReq, halfmade, torn>>

Roles == INSTANCE Roles WITH req <- roleReq
SignUp == INSTANCE SignUp WITH req <- signUpReq

(* What those two assume of the values they share *)
ASSUME AccountsAssumption == Roles!RolesAssumption /\ SignUp!SignUpAssumption

AccountsInit ==
  service \in {"passwords", "roles", "signup"} /\ Init /\ Roles!Init /\ SignUp!Init
AccountsNext ==
  /\ UNCHANGED service
  /\ \/ service = "passwords" /\ Next /\ UNCHANGED <<roleVars, signUpVars>>
     \/ service = "roles" /\ Roles!Next /\ UNCHANGED <<vars, signUpVars>>
     \/ service = "signup" /\ SignUp!Next /\ UNCHANGED <<vars, roleVars>>
AccountsSpec == AccountsInit /\ [][AccountsNext]_<<service, vars, roleVars, signUpVars>>

(* Rows and calls of the three services keep their shape. *)
AccountsTypeOK == TypeOK /\ Roles!TypeOK /\ SignUp!TypeOK
(* An admin is left; see Roles. *)
AdminRemains == Roles!AdminRemains
(* Nobody gains a role nobody gave; see Roles. *)
RolesAreGiven == Roles!RolesAreGiven
(* Accounts are made whole and stay so; see SignUp. *)
AccountsWhole == SignUp!AccountsWhole

Symmetry == Permutations(Requests) \cup Permutations(Admins)
=============================================================================
