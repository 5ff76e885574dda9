------------------------------- MODULE Roles -------------------------------
(***************************************************************************)
(* The role column of users: AdminUsersController.assignRole over          *)
(* UsersService, CreatorsService.onboard, and the profile edits that save  *)
(* a whole user entity.  Calls interleave between their statements.  save  *)
(* is a SELECT, which finds the columns that differ, and an UPDATE of      *)
(* those, so a save writes back a role its call never assigned when the    *)
(* role has changed since the call read it.  JWTs carry the role they were *)
(* signed with: whether the caller still is an admin is not asked again.   *)
(***************************************************************************)
EXTENDS Naturals, FiniteSets

CONSTANTS
  Users,
  Admins,    \* users the seed made admins; the others are fans
  Handles,   \* creator handles
  Requests,  \* calls that may be in flight together
  None

RolesAssumption ==
  Admins \subseteq Users /\ None \notin Users \cup Handles

VARIABLES
  role,      \* users.role
  profile,   \* creator_profiles: the handle of a user's profile, or None
  req,       \* calls in flight
  \* History, read by properties only.
  outdated,  \* calls that have read roles of which one has changed since
  raced,     \* whether an outdated call ever wrote a role
  onboarded  \* whether onboard ever took the role of an admin

vars == <<role, profile, req, outdated, raced, onboarded>>

RoleNames == {"fan", "creator", "admin"}
Idle == [pc |-> "idle", op |-> "profile", user |-> None, entity |-> "fan",
         handle |-> None, differs |-> FALSE]
Call ==
  [pc : {"idle", "count", "reread", "insert", "select", "update"},
   op : {"profile", "assign", "onboard"}, user : Users \cup {None},
   entity : RoleNames, handle : Handles \cup {None}, differs : BOOLEAN]

TypeOK ==
  /\ role \in [Users -> RoleNames]
  /\ profile \in [Users -> Handles \cup {None}]
  /\ \A u, v \in Users : u # v /\ profile[u] # None => profile[u] # profile[v]
  /\ req \in [Requests -> Call]
  /\ \A r \in Requests : req[r].pc # "idle" => req[r].user \in Users
  /\ outdated \subseteq Requests
  /\ raced \in BOOLEAN /\ onboarded \in BOOLEAN

Init ==
  /\ role = [u \in Users |-> IF u \in Admins THEN "admin" ELSE "fan"]
  /\ profile = [u \in Users |-> None]
  /\ req = [r \in Requests |-> Idle]
  /\ outdated = {} /\ raced = FALSE /\ onboarded = FALSE

-----------------------------------------------------------------------------
admins == {u \in Users : role[u] = "admin"}
Reads == UNCHANGED <<role, profile, raced, onboarded>>

Begin(r, step, op, u, entity, h) ==
  /\ req[r].pc = "idle"
  /\ req' = [req EXCEPT ![r] = [pc |-> step, op |-> op, user |-> u, entity |-> entity,
                                handle |-> h, differs |-> FALSE]]
  /\ outdated' = outdated \ {r}
  /\ Reads

Continue(r, step) ==
  /\ req' = [req EXCEPT ![r].pc = step]
  /\ UNCHANGED outdated
  /\ Reads

Refuse(r) ==
  /\ req' = [req EXCEPT ![r] = Idle]
  /\ UNCHANGED outdated
  /\ Reads

(* PATCH /admin/users/:id/role: the row is read; taking the role of an     *)
(* admin needs the count of admins, assigning the same role is a no-op.    *)
assignRole(r, u, new) ==
  /\ role[u] # new
  /\ Begin(r, IF role[u] = "admin" THEN "count" ELSE "reread", "assign", u, new, None)

\* Mutant: the count is compared with zero.
countAdmins_OffByOne(r) ==
  /\ req[r].pc = "count"
  /\ \/ Cardinality(admins) < 1 /\ Refuse(r)
     \/ Cardinality(admins) >= 1 /\ Continue(r, "reread")

countAdmins(r) ==
  /\ req[r].pc = "count"
  /\ \/ Cardinality(admins) <= 1 /\ Refuse(r)
     \/ Cardinality(admins) > 1 /\ Continue(r, "reread")

(* updateUserRole reads the row again and saves it with the new role. *)
updateUserRole(r) ==
  /\ req[r].pc = "reread"
  /\ \/ role[req[r].user] = req[r].entity /\ Refuse(r)
     \/ role[req[r].user] # req[r].entity /\ Continue(r, "select")

\* Mutant: a role in the body of PUT /users/:id reaches updateUser.
updateProfile_TakesRole(r, u) ==
  \E new \in RoleNames : Begin(r, "select", "profile", u, new, None)

(* updateProfile, updateUser and selfDeleteUser save the entity they read. *)
updateProfile(r, u) == Begin(r, "select", "profile", u, role[u], None)

(* POST /creators/onboard: the user, no profile yet, a free handle. *)
onboard(r, u, h) ==
  /\ profile[u] = None
  /\ \A v \in Users : profile[v] # h
  /\ Begin(r, "insert", "onboard", u, role[u], h)

(* The INSERT, unless a unique index refuses it; then a user who was not a *)
(* creator when onboard read the row is saved as one.                      *)
InsertProfile(r) ==
  LET c == req[r]
      taken == profile[c.user] # None \/ \E v \in Users : profile[v] = c.handle
  IN
  /\ c.pc = "insert"
  /\ profile' = IF taken THEN profile ELSE [profile EXCEPT ![c.user] = c.handle]
  /\ req' = [req EXCEPT ![r] = IF taken \/ c.entity = "creator" THEN Idle
                               ELSE [c EXCEPT !.pc = "select", !.entity = "creator"]]
  /\ UNCHANGED <<role, outdated, raced, onboarded>>

SaveSelect(r) ==
  LET c == req[r] IN
  /\ c.pc = "select"
  /\ req' = [req EXCEPT ![r].pc = "update", ![r].differs = c.entity # role[c.user]]
  /\ UNCHANGED outdated
  /\ Reads

SaveUpdate(r) ==
  LET c == req[r] IN
  /\ c.pc = "update"
  /\ role' = IF c.differs THEN [role EXCEPT ![c.user] = c.entity] ELSE role
  /\ req' = [req EXCEPT ![r] = Idle]
  /\ outdated' = IF role' # role THEN {q \in Requests : req'[q].pc # "idle"} ELSE outdated
  /\ raced' = (raced \/ (role' # role /\ r \in outdated))
  /\ onboarded' = (onboarded \/ (role' # role /\ c.op = "onboard" /\ role[c.user] = "admin"))
  /\ UNCHANGED <<profile>>

(* A statement fails or the process restarts: the rest never happens. *)
Die(r) ==
  /\ req[r].pc # "idle"
  /\ req' = [req EXCEPT ![r] = Idle]
  /\ UNCHANGED <<role, profile, outdated, raced, onboarded>>

Next ==
  \E r \in Requests :
    \/ \E u \in Users :
         \/ \E new \in RoleNames : assignRole(r, u, new)
         \/ updateProfile(r, u)
         \/ \E h \in Handles : onboard(r, u, h)
    \/ countAdmins(r) \/ updateUserRole(r) \/ InsertProfile(r)
    \/ SaveSelect(r) \/ SaveUpdate(r) \/ Die(r)

Spec == Init /\ [][Next]_vars

-----------------------------------------------------------------------------
(***************************************************************************)
(* Properties                                                              *)
(***************************************************************************)

(* The last admin is demoted only by a call whose reads were outdated when *)
(* it wrote, or by onboarding, which takes an admin's role without asking  *)
(* for the count.                                                          *)
AdminRemains == Admins # {} /\ ~raced /\ ~onboarded => admins # {}

(* A profile edit changes a role only back to one it read before another   *)
(* call changed it, and an onboarding only to creator: nobody gains a role *)
(* nobody gave them.                                                       *)
RolesAreGiven ==
  [][\A u \in Users : role'[u] # role[u] =>
       \E r \in Requests :
         /\ req[r].pc = "update" /\ req[r].user = u /\ req[r].entity = role'[u]
         /\ req[r].op = "profile" => r \in outdated
         /\ req[r].op = "onboard" => role'[u] = "creator"]_vars
=============================================================================
