------------------------------- MODULE SignUp -------------------------------
(***************************************************************************)
(* How an account comes to be and keeps its identity: AuthService.signup,  *)
(* which looks for the e-mail, inserts the user, writes its search text,   *)
(* inserts its notification preferences, and looks the user up again by    *)
(* e-mail to open a session; and the edits of name and e-mail, with the    *)
(* profile edits that save them too.  An admin's POST /users is a signup   *)
(* that ends before the second look.                                       *)
(*                                                                         *)
(* Calls interleave between their statements.  save of a loaded user is a  *)
(* SELECT, which finds the columns that differ, and an UPDATE of those.    *)
(* search_text is a tsvector: the database refuses names that are none.    *)
(***************************************************************************)
EXTENDS Naturals, FiniteSets

CONSTANTS
  Requests,    \* calls that may be in flight together
  Emails,
  Names,
  Unreadable,  \* names the database cannot read as a tsvector, like "a:b"
  None,
  MaxUsers     \* bound on rows of users

VARIABLES
  users,     \* the rows, by id
  prefs,     \* users with notification preferences
  req,       \* calls in flight
  \* History, read by properties only.
  halfmade,  \* users without preferences whose making failed or died
  torn       \* users whose search text is wrong: missed, or set back by an outdated call

historyVars == <<halfmade, torn>>
signUpVars == <<users, prefs, req, historyVars>>

Ids == 1..MaxUsers
Columns == {"name", "email", "search"}
Texts == [name : Names, email : Emails]
Row == [name : Names, email : Emails, search : Texts \cup {None}]
Entity == [name : Names \cup {None}, email : Emails \cup {None}, search : Texts \cup {None}]

SignUpAssumption ==
  /\ Unreadable \subseteq Names /\ None \notin Emails \cup Names \cup Row
  /\ MaxUsers \in Nat

Idle == [pc |-> "idle", op |-> "profile", user |-> 0, entity |-> None, cols |-> {},
         email |-> None, text |-> None, outdated |-> FALSE, renamed |-> FALSE]
(* entity is the user to save, where None stands for undefined (or, of a   *)
(* search text, for null), email that of the signup, text the search text  *)
(* to write; outdated and renamed are history: the row this call has  *)
(* read was changed, the e-mail of the user a signup made was.             *)
Call ==
  [pc : {"idle", "insert", "select", "update", "text", "write", "find", "default", "lookup"},
   op : {"signup", "edit", "profile"}, user : Ids \cup {0},
   entity : Entity \cup {None}, cols : SUBSET Columns,
   email : Emails \cup {None}, text : Texts \cup {None}, outdated : BOOLEAN, renamed : BOOLEAN]

Made == {u \in Ids : users[u] # None}

TypeOK ==
  /\ users \in [Ids -> Row \cup {None}]
  /\ \A u, v \in Made : users[u].email = users[v].email => u = v
  /\ prefs \subseteq Made
  /\ req \in [Requests -> Call]
  /\ \A r \in Requests : req[r].pc \notin {"idle", "insert"} => req[r].user \in Made
  /\ halfmade \subseteq Made \ prefs /\ torn \subseteq Made

Init ==
  /\ users = [u \in Ids |-> None] /\ prefs = {}
  /\ req = [r \in Requests |-> Idle]
  /\ halfmade = {} /\ torn = {}

-----------------------------------------------------------------------------
findByEmail(email) == {u \in Made : users[u].email = email}
TextOf(row) == [name |-> row.name, email |-> row.email]
Behind(row) == row.search # TextOf(row)

(* The call ends; one that should still have refreshed the search text, or *)
(* made the preferences, leaves its user without.                          *)
Fail(r) ==
  LET c == req[r] IN
  /\ req' = [req EXCEPT ![r] = Idle]
  /\ torn' = IF c.pc \in {"text", "write"} /\ Behind(users[c.user])
             THEN torn \cup {c.user} ELSE torn
  /\ halfmade' = IF c.op = "signup" /\ c.user \in Made \ prefs
                 THEN halfmade \cup {c.user} ELSE halfmade

(* The call has written a row and goes on as c; those that have read the   *)
(* row before are outdated.                                                *)
Write(r, row, c) ==
  LET u == req[r].user
      Seen(q) ==
        [req[q] EXCEPT
           !.outdated = @ \/ (row # users[u] /\ req[q].pc \in {"select", "update", "write"}),
           !.renamed = @ \/ (row.email # users[u].email /\ req[q].op = "signup")] IN
  /\ users' = [users EXCEPT ![u] = row]
  /\ req' = [q \in Requests |->
       IF q = r THEN c ELSE IF req[q].user = u THEN Seen(q) ELSE req[q]]

Torn(u, row, outdated) ==
  IF ~Behind(row) THEN torn \ {u} ELSE IF outdated THEN torn \cup {u} ELSE torn

Begin(r, op, pc, u, entity) ==
  /\ req[r].pc = "idle"
  /\ req' = [req EXCEPT ![r] = [Idle EXCEPT !.pc = pc, !.op = op, !.user = u, !.entity = entity]]
  /\ UNCHANGED <<users, prefs, historyVars>>

(* 409 if the e-mail is held, then the hash *)
createUser(r, name, email) ==
  /\ Begin(r, "signup", "insert", 0, [name |-> name, email |-> email, search |-> None])
  /\ findByEmail(email) = {}

(* save of the new user; the unique e-mail may refuse it. *)
Insert(r) ==
  LET u == Cardinality(Made) + 1
      c == req[r] IN
  /\ c.pc = "insert"
  /\ \/ /\ findByEmail(c.entity.email) # {}
        /\ Fail(r) /\ UNCHANGED users
     \/ /\ findByEmail(c.entity.email) = {} /\ u \in Ids
        /\ users' = [users EXCEPT ![u] = c.entity]
        /\ req' = [req EXCEPT ![r] = [Idle EXCEPT !.pc = "text", !.op = "signup", !.user = u,
                                                 !.email = c.entity.email]]
        /\ UNCHANGED <<torn, halfmade>>
  /\ UNCHANGED prefs

(* PUT /users/:id: the DTO has both as fields, undefined where the body    *)
(* names none, and Object.assign assigns them all the same.                *)
updateUser(r, u) ==
  /\ u \in Made
  /\ \E n \in Names \cup {None}, m \in Emails \cup {None} :
       Begin(r, "edit", "select", u, [users[u] EXCEPT !.name = n, !.email = m])

(* PATCH /users/:id/profile: columns this module leaves out *)
updateProfile(r, u) ==
  /\ u \in Made
  /\ Begin(r, "profile", "select", u, users[u])

(* save leaves out what is undefined; of the entity, what differs is what  *)
(* is used from here on.                                                   *)
SaveSelect(r) ==
  LET c == req[r]
      undefined == {k \in {"name", "email"} : c.entity[k] = None}
      differ == {k \in Columns \ undefined : c.entity[k] # users[c.user][k]} IN
  /\ c.pc = "select"
  /\ req' = [req EXCEPT ![r].pc = "update", ![r].cols = differ,
               ![r].entity = [k \in Columns |-> IF k \in differ THEN @[k] ELSE None]]
  /\ UNCHANGED <<users, prefs, historyVars>>

\* Mutant: updateUser refreshes no search text, as updateProfile does not.
AfterSave_NoRefresh(c) == Idle

(* What follows the save: an edit refreshes the search text. *)
AfterSave(c) ==
  IF c.op = "edit" THEN [Idle EXCEPT !.pc = "text", !.op = "edit", !.user = c.user] ELSE Idle

SaveUpdate(r) ==
  LET c == req[r]
      u == c.user
      row == [k \in Columns |-> IF k \in c.cols THEN c.entity[k] ELSE users[u][k]]
      refused == \E v \in Made \ {u} : users[v].email = row.email IN
  /\ c.pc = "update"
  /\ \/ /\ refused
        /\ Fail(r)
        /\ UNCHANGED users
     \/ /\ ~refused
        /\ Write(r, row, AfterSave(c))
        /\ torn' = Torn(u, row, c.outdated)
        /\ UNCHANGED halfmade
  /\ UNCHANGED prefs

(* updateSearchTextForUser: the row is read, then its search text written. *)
ReadText(r) ==
  LET c == req[r] IN
  /\ c.pc = "text"
  /\ req' = [req EXCEPT ![r].pc = "write", ![r].text = TextOf(users[c.user])]
  /\ UNCHANGED <<users, prefs, historyVars>>

WriteText(r) ==
  LET c == req[r]
      u == c.user
      row == [users[u] EXCEPT !.search = c.text] IN
  /\ c.pc = "write"
  /\ \/ /\ c.text.name \in Unreadable
        /\ Fail(r)
        /\ UNCHANGED users
     \/ /\ c.text.name \notin Unreadable
        /\ Write(r, row,
                 IF c.op = "edit" THEN Idle ELSE [c EXCEPT !.pc = "find", !.text = None, !.outdated = FALSE])
        /\ torn' = Torn(u, row, c.outdated)
        /\ UNCHANGED halfmade
  /\ UNCHANGED prefs

(* createDefaultPreferences: a row that is there already is kept. *)
FindPreferences(r) ==
  LET c == req[r] IN
  /\ c.pc = "find"
  /\ req' = [req EXCEPT ![r].pc = IF c.user \in prefs THEN "lookup" ELSE "default"]
  /\ UNCHANGED <<users, prefs, historyVars>>

(* The unique userId refuses a second row. *)
InsertPreferences(r) ==
  LET c == req[r] IN
  /\ c.pc = "default"
  /\ \/ /\ c.user \in prefs
        /\ Fail(r)
        /\ UNCHANGED prefs
     \/ /\ c.user \notin prefs
        /\ prefs' = prefs \cup {c.user}
        /\ req' = [req EXCEPT ![r].pc = "lookup"]
        /\ UNCHANGED <<torn, halfmade>>
  /\ UNCHANGED users

(* signup looks the user up again, and issueTokenPair opens a session for  *)
(* the one found, if any; sessions are in RefreshTokens.                   *)
OpenSession(r) ==
  /\ req[r].pc = "lookup"
  /\ req' = [req EXCEPT ![r] = Idle]
  /\ UNCHANGED <<users, prefs, historyVars>>

(* The new user logs in elsewhere and asks for the preferences, which      *)
(* makes them; its statements are in Notifications.                        *)
getPreferences(u) ==
  /\ u \in Made
  /\ prefs' = prefs \cup {u}
  /\ halfmade' = halfmade \ {u}
  /\ UNCHANGED <<users, req, torn>>

(* A statement fails or the process restarts. *)
Die(r) ==
  /\ req[r].pc # "idle"
  /\ Fail(r)
  /\ UNCHANGED <<users, prefs>>

Step(r) ==
  \/ Insert(r) \/ SaveSelect(r) \/ SaveUpdate(r) \/ ReadText(r) \/ WriteText(r)
  \/ FindPreferences(r) \/ InsertPreferences(r) \/ OpenSession(r)

Next ==
  \/ \E r \in Requests :
       \/ \E n \in Names, m \in Emails : createUser(r, n, m)
       \/ \E u \in Ids : updateUser(r, u) \/ updateProfile(r, u)
       \/ Step(r) \/ Die(r)
  \/ \E u \in Ids : getPreferences(u)

Spec == Init /\ [][Next]_signUpVars

-----------------------------------------------------------------------------
(***************************************************************************)
(* Properties                                                              *)
(***************************************************************************)

(* A signup's session is that of the account it made, unless the account's *)
(* e-mail changed before the signup looked it up.  An account has its      *)
(* preferences unless the call that makes it is still at it, failed or     *)
(* died; and its search text is that of its name and e-mail unless a call  *)
(* is about to write it, one failed or died before it could, or an         *)
(* outdated one wrote last.                                                *)
AccountsWhole ==
  /\ \A r \in Requests :
       req[r].pc = "lookup" /\ ~req[r].renamed => findByEmail(req[r].email) = {req[r].user}
  /\ \A u \in Made \ prefs :
       u \in halfmade \/ \E r \in Requests : req[r].user = u /\ req[r].op = "signup"
  /\ \A u \in Made : users[u].search # TextOf(users[u]) =>
       u \in torn \/ \E r \in Requests : req[r].user = u /\ req[r].pc \in {"text", "write"}
=============================================================================
