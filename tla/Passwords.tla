----------------------------- MODULE Passwords -----------------------------
(***************************************************************************)
(* What decides who may log in to one account: its password, its sessions, *)
(* its reset tokens and its deletion mark, under the calls of AuthService, *)
(* UsersService and GdprService that read or write them.                   *)
(*                                                                         *)
(* Passwords are numbered in the order they are hashed.  A session is kept *)
(* as the password it was started with; rotation inside a session is       *)
(* RefreshTokens.  Calls interleave between their statements.  save of a   *)
(* loaded entity is a SELECT, which finds the columns that differ, and an  *)
(* UPDATE of those, whether or not the call assigned them.                 *)
(***************************************************************************)
EXTENDS Naturals, FiniteSets

CONSTANTS
  Tokens,        \* reset tokens
  Requests,      \* calls that may be in flight together
  None,
  MaxPasswords   \* bound on passwords chosen

ASSUME PasswordsAssumption ==
  None \notin Tokens /\ MaxPasswords \in Nat

VARIABLES
  password,  \* the users row: its password
  deleted,   \* its is_deleted
  sessions,  \* passwords with which live sessions were started
  token,     \* reset tokens
  chosen,    \* passwords hashed so far
  req,       \* calls in flight
  \* History, read by properties only.
  past,      \* passwords replaced
  excused,   \* passwords whose sessions outlived them for a known reason
  uses,      \* how often each reset token set the password
  shared,    \* tokens read by a call while another was redeeming them
  lost       \* tokens whose redeemer died before it marked them

rowVars == <<password, deleted>>
historyVars == <<past, excused, uses, shared, lost>>
vars == <<rowVars, sessions, token, chosen, req, historyVars>>

Versions == 0..MaxPasswords
Columns == {"password", "deleted"}
Entity == [password : Versions, deleted : BOOLEAN]
Idle == [pc |-> "idle", op |-> "login", token |-> None,
         cols |-> {},
         entity |-> [password |-> 0, deleted |-> FALSE]]
Call ==
  [pc : {"idle", "open", "select", "update", "reset", "mark", "revoke"},
   op : {"login", "profile", "edit", "change", "delete", "reset"},
   token : Tokens \cup {None}, entity : Entity, cols : SUBSET Columns]

TypeOK ==
  /\ password \in Versions /\ deleted \in BOOLEAN
  /\ sessions \subseteq Versions
  /\ token \in [Tokens -> {"none", "valid", "used", "expired"}]
  /\ chosen \in Versions /\ password <= chosen
  /\ req \in [Requests -> Call]
  /\ \A r \in Requests : req[r].entity.password <= chosen
  /\ past \subseteq Versions /\ excused \subseteq Versions
  /\ uses \in [Tokens -> Nat]
  /\ shared \subseteq Tokens /\ lost \subseteq Tokens

Init ==
  /\ password = 0 /\ deleted = FALSE
  /\ sessions = {}
  /\ token = [t \in Tokens |-> "none"]
  /\ chosen = 0
  /\ req = [r \in Requests |-> Idle]
  /\ past = {} /\ excused = {}
  /\ uses = [t \in Tokens |-> 0]
  /\ shared = {} /\ lost = {}

-----------------------------------------------------------------------------
Row == [password |-> password, deleted |-> deleted]

Begin(r, op, step, entity, t) ==
  /\ req[r].pc = "idle"
  /\ req' = [req EXCEPT ![r] = [pc |-> step, op |-> op, token |-> t,
                                entity |-> entity, cols |-> {}]]

(* The entity is not used after the statement that writes it. *)
Mark(r) == req' = [req EXCEPT ![r] = [Idle EXCEPT !.pc = "mark", !.token = req[r].token]]
Revoke(r) == req' = [req EXCEPT ![r] = [Idle EXCEPT !.pc = "revoke"]]
End(r) == req' = [req EXCEPT ![r] = Idle]

(* A statement sets the password; going back to a replaced one excuses the *)
(* sessions of the password it displaces, which nothing revokes.           *)
SetPassword(v) ==
  /\ password' = v
  /\ past' = IF v = password THEN past ELSE past \cup {password}
  /\ excused' = IF v \in past THEN excused \cup sessions ELSE excused

(* POST /auth/login: validateUser reads the row and compares the password, *)
(* not is_deleted; issueTokenPair then stores the session.                 *)
login(r) ==
  /\ Begin(r, "login", "open", Row, None)
  /\ UNCHANGED <<rowVars, sessions, token, chosen, historyVars>>

OpenSession(r) ==
  LET v == req[r].entity.password IN
  /\ req[r].pc = "open"
  /\ sessions' = sessions \cup {v}
  /\ excused' = IF v = password THEN excused ELSE excused \cup {v}
  /\ End(r)
  /\ UNCHANGED <<rowVars, token, chosen, past, uses, shared, lost>>

updateProfile(r) ==
  /\ Begin(r, "profile", "select", Row, None)
  /\ UNCHANGED <<rowVars, sessions, token, chosen, historyVars>>

(* updateUser without a password, which then is undefined in the entity *)
updateDetails(r) ==
  /\ Begin(r, "edit", "select", Row, None)
  /\ UNCHANGED <<rowVars, sessions, token, chosen, historyVars>>

\* Mutant: the password is stored as given, without a hash of its own.
updateUser_Unhashed(r) ==
  /\ chosen < MaxPasswords
  /\ Begin(r, "change", "select", [Row EXCEPT !.password = chosen + 1], None)
  /\ UNCHANGED <<rowVars, sessions, token, chosen, historyVars>>

(* updateUser with a password *)
updateUser(r) ==
  /\ chosen < MaxPasswords
  /\ chosen' = chosen + 1
  /\ Begin(r, "change", "select", [Row EXCEPT !.password = chosen + 1], None)
  /\ UNCHANGED <<rowVars, sessions, token, historyVars>>

selfDeleteUser(r) ==
  /\ Begin(r, "delete", "select", [Row EXCEPT !.deleted = TRUE], None)
  /\ UNCHANGED <<rowVars, sessions, token, chosen, historyVars>>

(* The admin's deleteUser updates the one column and revokes nothing. *)
deleteUser ==
  /\ deleted' = TRUE
  /\ UNCHANGED <<password, sessions, token, chosen, req, historyVars>>

(* save leaves out what is undefined; of the entity, only what differs is  *)
(* used from here on.                                                      *)
SaveSelect(r) ==
  LET e == req[r].entity
      defined == Columns \ IF req[r].op = "edit" THEN {"password"} ELSE {}
      differ == {c \in defined : e[c] # Row[c]} IN
  /\ req[r].pc = "select"
  /\ req' = [req EXCEPT ![r].pc = "update", ![r].cols = differ,
               ![r].entity = [c \in Columns |-> IF c \in differ THEN @[c] ELSE Idle.entity[c]]]
  /\ UNCHANGED <<rowVars, sessions, token, chosen, historyVars>>

\* Mutant: no session is revoked when the password changed.
AfterSave_KeepsSessions(r) ==
  IF req[r].op = "delete" THEN Revoke(r) ELSE End(r)

(* What follows the save: a new password or a deletion revokes sessions. *)
AfterSave(r) ==
  IF req[r].op \in {"change", "delete"} THEN Revoke(r) ELSE End(r)

SaveUpdate(r) ==
  LET c == req[r] IN
  /\ c.pc = "update"
  /\ SetPassword(IF "password" \in c.cols THEN c.entity.password ELSE password)
  /\ deleted' = IF "deleted" \in c.cols THEN c.entity.deleted ELSE deleted
  /\ AfterSave(r)
  /\ UNCHANGED <<sessions, token, chosen, uses, shared, lost>>

(* POST /auth/forgot-password; the mail may or may not arrive. *)
forgotPassword(t) ==
  /\ token[t] = "none"
  /\ token' = [token EXCEPT ![t] = "valid"]
  /\ UNCHANGED <<rowVars, sessions, chosen, req, historyVars>>

Expire(t) ==
  /\ token[t] = "valid"
  /\ token' = [token EXCEPT ![t] = "expired"]
  /\ UNCHANGED <<rowVars, sessions, chosen, req, historyVars>>

Redeeming(t) == {r \in Requests : req[r].token = t /\ req[r].pc \in {"reset", "mark"}}

\* Mutant: usedAt is not checked.
resetPassword_AcceptsUsed(r, t) ==
  /\ token[t] \in {"valid", "used"}
  /\ chosen < MaxPasswords
  /\ chosen' = chosen + 1
  /\ Begin(r, "reset", "reset", [Idle.entity EXCEPT !.password = chosen + 1], t)
  /\ shared' = IF Redeeming(t) = {} THEN shared ELSE shared \cup {t}
  /\ UNCHANGED <<rowVars, sessions, token, past, excused, uses, lost>>

(* POST /auth/reset-password: an unused, unexpired token, then the hash. *)
resetPassword(r, t) ==
  /\ token[t] = "valid"
  /\ chosen < MaxPasswords
  /\ chosen' = chosen + 1
  /\ Begin(r, "reset", "reset", [Idle.entity EXCEPT !.password = chosen + 1], t)
  /\ shared' = IF Redeeming(t) = {} THEN shared ELSE shared \cup {t}
  /\ UNCHANGED <<rowVars, sessions, token, past, excused, uses, lost>>

updatePassword(r) ==
  /\ req[r].pc = "reset"
  /\ SetPassword(req[r].entity.password)
  /\ uses' = [uses EXCEPT ![req[r].token] = @ + 1]
  /\ Mark(r)
  /\ UNCHANGED <<deleted, sessions, token, chosen, shared, lost>>

MarkUsed(r) ==
  /\ req[r].pc = "mark"
  /\ token' = [token EXCEPT ![req[r].token] = "used"]
  /\ Revoke(r)
  /\ UNCHANGED <<rowVars, sessions, chosen, historyVars>>

(* invalidateSessionsOnPasswordChange and its like *)
RevokeSessions(r) ==
  /\ req[r].pc = "revoke"
  /\ sessions' = {} /\ excused' = {}
  /\ End(r)
  /\ UNCHANGED <<rowVars, token, chosen, past, uses, shared, lost>>

(* A statement fails or the process restarts: the rest never happens. *)
Die(r) ==
  /\ req[r].pc # "idle"
  /\ End(r)
  /\ excused' = IF req[r].pc \in {"mark", "revoke"} THEN excused \cup sessions ELSE excused
  /\ lost' = IF req[r].pc = "mark" THEN lost \cup {req[r].token} ELSE lost
  /\ UNCHANGED <<rowVars, sessions, token, chosen, past, uses, shared>>

Step(r) ==
  \/ OpenSession(r) \/ SaveSelect(r) \/ SaveUpdate(r)
  \/ updatePassword(r) \/ MarkUsed(r) \/ RevokeSessions(r)

Next ==
  \/ \E r \in Requests :
       \/ login(r) \/ selfDeleteUser(r)
       \/ updateProfile(r) \/ updateDetails(r) \/ updateUser(r)
       \/ \E t \in Tokens : resetPassword(r, t)
       \/ Step(r) \/ Die(r)
  \/ \E t \in Tokens : forgotPassword(t) \/ Expire(t)
  \/ deleteUser

Spec == Init /\ [][Next]_vars

-----------------------------------------------------------------------------
(***************************************************************************)
(* Properties                                                              *)
(***************************************************************************)

(* A session outlives the password it was started with only until the call *)
(* that changed it revokes, or for one of three reasons: its login had     *)
(* compared the old password before the change and stored the session      *)
(* after it, the call died before it revoked, or a stale save put an older *)
(* password back.                                                          *)
SessionsFollowPassword ==
  \A v \in sessions :
    \/ v = password \/ v \in excused
    \/ \E r \in Requests : req[r].pc \in {"mark", "revoke"}

(* A reset token sets the password once, unless two calls read it before   *)
(* either marked it, or the call that used it died before marking it.      *)
TokenUsedOnce ==
  \A t \in Tokens : uses[t] > 1 => t \in shared \cup lost

(* The integration tests of DELETE /users/me: a user who deleted the       *)
(* account cannot authenticate, so no login that read such a row goes on.  *)
DeletedCannotAuthenticate ==
  \A r \in Requests :
    ~(req[r].pc = "open" /\ req[r].entity.deleted)
=============================================================================
