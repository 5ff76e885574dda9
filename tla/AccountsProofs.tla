--------------------------- MODULE AccountsProofs ---------------------------
(***************************************************************************)
(* Proofs about the three services of an account, for any number of calls  *)
(* in flight, reset tokens, passwords, users, handles and e-mails:         *)
(* Passwords, and, under their names in MCAccounts, Roles and SignUp.      *)
(***************************************************************************)
EXTENDS MCAccounts, FiniteSetTheorems, TLAPS

-----------------------------------------------------------------------------
(***************************************************************************)
(* Passwords: the state is well formed                                     *)
(***************************************************************************)

(* Only tokens are redeemed, and what a profile edit saves is the password *)
(* or one that was replaced since the edit read it.                        *)
RedeemsOK == \A r \in Requests : req[r].pc \in {"reset", "mark"} => req[r].token \in Tokens
BringsBack(c) == c.op \in {"profile", "edit"} /\ (c.pc = "select" \/ "password" \in c.cols)
SavesOK == \A r \in Requests : req[r].pc \in {"select", "update"} =>
  /\ req[r].op \in {"profile", "edit", "change", "delete"}
  /\ BringsBack(req[r]) => req[r].entity.password \in {password} \cup past

ShapeOK == TypeOK /\ RedeemsOK /\ SavesOK

(* An idle call, its entity, and the constants' shape *)
LEMMA EntityFacts ==
  /\ Idle.entity \in Entity /\ Idle.entity.password = 0
  /\ Idle \in Call /\ Idle.pc = "idle" /\ Idle.op = "login"
  /\ 0 \in Versions /\ MaxPasswords \in Nat
  /\ None \notin Tokens
  BY PasswordsAssumption DEF Idle, Entity, Call, Versions

(* The row a call reads is an entity that holds the account's password. *)
LEMMA RowTyped == TypeOK => Row \in Entity /\ Row.password = password /\ password <= chosen
  BY DEF TypeOK, Row, Entity

(* The call that a step of r leaves behind *)
LEMMA Moved ==
  ASSUME TypeOK, NEW r \in Requests, NEW c \in Call, req' = [req EXCEPT ![r] = c]
  PROVE  /\ req' \in [Requests -> Call] /\ req'[r] = c
         /\ \A q \in Requests \ {r} : req'[q] = req[q]
  BY DEF TypeOK

(* A call that begins *)
LEMMA Begins ==
  ASSUME TypeOK, NEW r \in Requests, NEW op \in {"login", "profile", "edit", "change", "delete", "reset"},
         NEW step \in {"open", "select", "reset"}, NEW e \in Entity, NEW t \in Tokens \cup {None},
         Begin(r, op, step, e, t)
  PROVE  /\ req[r].pc = "idle" /\ req' \in [Requests -> Call]
         /\ req'[r].pc = step /\ req'[r].op = op /\ req'[r].token = t /\ req'[r].entity = e
         /\ \A q \in Requests \ {r} : req'[q] = req[q]
<1> DEFINE c == [pc |-> step, op |-> op, token |-> t, entity |-> e, cols |-> {}]
<1>1. c \in Call /\ c.pc = step /\ c.op = op /\ c.token = t /\ c.entity = e
  BY DEF Call
<1>2. req' = [req EXCEPT ![r] = c] /\ req[r].pc = "idle"
  BY DEF Begin
<1> HIDE DEF c
<1> QED
  BY <1>1, <1>2, Moved

(* A call that goes on after the statement that wrote, or ends *)
LEMMA Ends ==
  ASSUME TypeOK, NEW r \in Requests, Mark(r) \/ Revoke(r) \/ End(r)
  PROVE  /\ req' \in [Requests -> Call]
         /\ Mark(r) => req'[r].pc = "mark" /\ req'[r].token = req[r].token
         /\ Revoke(r) => req'[r].pc = "revoke"
         /\ End(r) => req'[r].pc = "idle"
         /\ req'[r].entity.password = 0
         /\ \A q \in Requests \ {r} : req'[q] = req[q]
<1>1. ASSUME NEW c \in Call, req' = [req EXCEPT ![r] = c]
      PROVE  req' \in [Requests -> Call] /\ req'[r] = c /\ \A q \in Requests \ {r} : req'[q] = req[q]
  BY <1>1, Moved
<1> DEFINE m == [Idle EXCEPT !.pc = "mark", !.token = req[r].token]
<1> DEFINE v == [Idle EXCEPT !.pc = "revoke"]
<1>2. m \in Call /\ m.pc = "mark" /\ m.token = req[r].token /\ m.entity = Idle.entity
  BY EntityFacts DEF TypeOK, Call
<1>3. v \in Call /\ v.pc = "revoke" /\ v.entity = Idle.entity
  BY EntityFacts DEF Call
<1>4. Mark(r) => req' = [req EXCEPT ![r] = m]
  BY DEF Mark
<1>5. Revoke(r) => req' = [req EXCEPT ![r] = v]
  BY DEF Revoke
<1>6. End(r) => req' = [req EXCEPT ![r] = Idle]
  BY DEF End
<1> HIDE DEF m, v
<1> QED
  BY <1>1, <1>2, <1>3, <1>4, <1>5, <1>6, EntityFacts

(* No call is under way at the start. *)
LEMMA ShapeInit == Init => ShapeOK
<1> SUFFICES ASSUME Init PROVE ShapeOK
  OBVIOUS
<1>1. req \in [Requests -> Call] /\ \A r \in Requests : req[r] = Idle
  BY EntityFacts DEF Init
<1>2. TypeOK
  <2>1. \A r \in Requests : req[r].entity.password <= chosen
    BY <1>1, EntityFacts DEF Init
  <2>2. uses \in [Tokens -> Nat] /\ token \in [Tokens -> {"none", "valid", "used", "expired"}]
    BY DEF Init
  <2>3. password \in Versions /\ chosen \in Versions /\ password <= chosen
    BY EntityFacts DEF Init
  <2> QED
    BY <1>1, <2>1, <2>2, <2>3 DEF Init, TypeOK
<1> QED
  BY <1>1, <1>2, EntityFacts DEF ShapeOK, RedeemsOK, SavesOK

(* What a statement that sets the password leaves behind *)
LEMMA Sets ==
  ASSUME TypeOK, NEW v \in Versions, SetPassword(v)
  PROVE  /\ password' = v /\ past' \subseteq Versions /\ excused' \subseteq Versions
         /\ {password} \cup past \subseteq {password'} \cup past'
  BY DEF TypeOK, SetPassword

(* What calls know is kept by a step of one that keeps it itself and       *)
(* replaces no password without a trace.                                   *)
LEMMA Keeps ==
  ASSUME ShapeOK, NEW r \in Requests, \A q \in Requests \ {r} : req'[q] = req[q],
         {password} \cup past \subseteq {password'} \cup past',
         req'[r].pc \in {"reset", "mark"} => req'[r].token \in Tokens,
         req'[r].pc \in {"select", "update"} =>
           /\ req'[r].op \in {"profile", "edit", "change", "delete"}
           /\ BringsBack(req'[r]) => req'[r].entity.password \in {password'} \cup past'
  PROVE  RedeemsOK' /\ SavesOK'
  BY DEF ShapeOK, RedeemsOK, SavesOK

(* So is the range of what it saves. *)
LEMMA Chosen ==
  ASSUME TypeOK, NEW r \in Requests, \A q \in Requests \ {r} : req'[q] = req[q],
         req'[r].entity.password <= chosen', chosen' \in {chosen, chosen + 1}
  PROVE  \A q \in Requests : req'[q].entity.password <= chosen'
<1> SUFFICES ASSUME NEW q \in Requests, q # r PROVE req[q].entity.password <= chosen'
  OBVIOUS
<1>1. req[q].entity.password \in Nat /\ req[q].entity.password <= chosen /\ chosen \in Nat
  BY EntityFacts DEF TypeOK, Call, Entity, Versions
<1> QED
  BY <1>1

(* Every step keeps the shape: one step of the proof per statement of a    *)
(* call.                                                                   *)
LEMMA ShapeStep == ShapeOK /\ [Next]_vars => ShapeOK'
<1> SUFFICES ASSUME ShapeOK, [Next]_vars PROVE ShapeOK'
  OBVIOUS
<1> USE DEF rowVars, historyVars
<1>0. TypeOK /\ chosen \in Nat /\ password \in Nat /\ MaxPasswords \in Nat
  BY EntityFacts DEF ShapeOK, TypeOK, Versions
(* A call begins. *)
<1>1. ASSUME NEW r \in Requests, NEW op \in {"login", "profile", "edit", "change", "delete", "reset"},
             NEW step \in {"open", "select", "reset"}, NEW e \in Entity, NEW t \in Tokens \cup {None},
             Begin(r, op, step, e, t), chosen' \in {chosen, chosen + 1}, chosen' <= MaxPasswords,
             e.password <= chosen', step = "reset" => t \in Tokens,
             step = "select" => op \in {"profile", "edit", "change", "delete"},
             op \in {"profile", "edit"} => e.password = password,
             shared' \subseteq Tokens, UNCHANGED <<password, deleted, sessions, token, past, excused, uses, lost>>
      PROVE  ShapeOK'
  <2>1. /\ req' \in [Requests -> Call] /\ req'[r].pc = step /\ req'[r].op = op /\ req'[r].token = t
        /\ req'[r].entity = e /\ \A q \in Requests \ {r} : req'[q] = req[q]
    BY <1>0, <1>1, Begins
  <2>2. RedeemsOK' /\ SavesOK'
    BY <1>1, <2>1, Keeps DEF BringsBack
  <2>3. \A q \in Requests : req'[q].entity.password <= chosen'
    BY <1>0, <1>1, <2>1, Chosen
  <2>4. chosen' \in Versions /\ password' <= chosen'
    BY <1>0, <1>1 DEF TypeOK, Versions
  <2> QED
    BY <1>0, <1>1, <2>1, <2>2, <2>3, <2>4 DEF ShapeOK, TypeOK
<1>2. ASSUME NEW r \in Requests, login(r) PROVE ShapeOK'
  BY <1>0, <1>1, <1>2, RowTyped DEF login, TypeOK, Versions
<1>3. ASSUME NEW r \in Requests, updateProfile(r) \/ updateDetails(r) PROVE ShapeOK'
  <2>1. PICK op \in {"profile", "edit"} : Begin(r, op, "select", Row, None)
    BY <1>3 DEF updateProfile, updateDetails
  <2>2. UNCHANGED <<password, deleted, sessions, token, past, excused, uses, lost, chosen, shared>>
    BY <1>3 DEF updateProfile, updateDetails
  <2>3. chosen \in {chosen, chosen + 1} /\ chosen <= MaxPasswords /\ shared \subseteq Tokens
    BY <1>0 DEF TypeOK, Versions
  <2> QED
    BY <1>0, <1>1, <2>1, <2>2, <2>3, RowTyped
<1>4. ASSUME NEW r \in Requests, updateUser(r) PROVE ShapeOK'
  <2> DEFINE e == [Row EXCEPT !.password = chosen + 1]
  <2>1. e \in Entity /\ e.password = chosen + 1 /\ chosen + 1 <= MaxPasswords
    BY <1>0, <1>4, RowTyped DEF updateUser, Entity, Versions
  <2>2. Begin(r, "change", "select", e, None) /\ chosen' = chosen + 1
    BY <1>4 DEF updateUser
  <2>3. shared' \subseteq Tokens /\ UNCHANGED <<password, deleted, sessions, token, past, excused, uses, lost>>
    BY <1>0, <1>4 DEF updateUser, TypeOK
  <2> HIDE DEF e
  <2> QED
    BY <1>0, <1>1, <2>1, <2>2, <2>3
<1>5. ASSUME NEW r \in Requests, selfDeleteUser(r) PROVE ShapeOK'
  <2> DEFINE e == [Row EXCEPT !.deleted = TRUE]
  <2>1. e \in Entity /\ e.password = password
    BY <1>0, RowTyped DEF Entity
  <2>2. Begin(r, "delete", "select", e, None) /\ chosen' = chosen
    BY <1>5 DEF selfDeleteUser
  <2>3. shared' \subseteq Tokens /\ UNCHANGED <<password, deleted, sessions, token, past, excused, uses, lost>>
    BY <1>0, <1>5 DEF selfDeleteUser, TypeOK
  <2>4. password <= chosen /\ chosen <= MaxPasswords
    BY <1>0 DEF TypeOK, Versions
  <2> HIDE DEF e
  <2> QED
    BY <1>0, <1>1, <2>1, <2>2, <2>3, <2>4
<1>6. ASSUME NEW r \in Requests, NEW t \in Tokens, resetPassword(r, t) PROVE ShapeOK'
  <2> DEFINE e == [Idle.entity EXCEPT !.password = chosen + 1]
  <2>1. e \in Entity /\ e.password = chosen + 1 /\ chosen + 1 <= MaxPasswords
    BY <1>0, <1>6, EntityFacts DEF resetPassword, Entity, Versions
  <2>2. Begin(r, "reset", "reset", e, t) /\ chosen' = chosen + 1
    BY <1>6 DEF resetPassword
  <2>3. shared' \subseteq Tokens /\ UNCHANGED <<password, deleted, sessions, token, past, excused, uses, lost>>
    BY <1>0, <1>6 DEF resetPassword, TypeOK
  <2> HIDE DEF e
  <2> QED
    BY <1>0, <1>1, <2>1, <2>2, <2>3
(* A call ends, or goes on without its entity. *)
<1>7. ASSUME NEW r \in Requests, (Mark(r) /\ req[r].token \in Tokens) \/ Revoke(r) \/ End(r),
             password' \in Versions, password' <= chosen, UNCHANGED chosen,
             {password} \cup past \subseteq {password'} \cup past', past' \subseteq Versions,
             deleted' \in BOOLEAN, sessions' \subseteq Versions, excused' \subseteq Versions,
             token' \in [Tokens -> {"none", "valid", "used", "expired"}], uses' \in [Tokens -> Nat],
             shared' \subseteq Tokens, lost' \subseteq Tokens
      PROVE  ShapeOK'
  <2>1. /\ req' \in [Requests -> Call] /\ req'[r].pc \in {"mark", "revoke", "idle"}
        /\ req'[r].pc = "mark" => req'[r].token \in Tokens
        /\ req'[r].entity.password = 0
        /\ \A q \in Requests \ {r} : req'[q] = req[q]
    BY <1>0, <1>7, Ends
  <2>2. RedeemsOK' /\ SavesOK'
    BY <1>7, <2>1, Keeps
  <2>3. \A q \in Requests : req'[q].entity.password <= chosen'
    BY <1>0, <1>7, <2>1, Chosen
  <2> QED
    BY <1>0, <1>7, <2>1, <2>2, <2>3 DEF ShapeOK, TypeOK
<1>8. ASSUME NEW r \in Requests, OpenSession(r) PROVE ShapeOK'
  <2>1. req[r].entity.password \in Versions
    BY <1>0 DEF TypeOK, Call, Entity
  <2>2. sessions' \subseteq Versions /\ excused' \subseteq Versions
    BY <1>0, <1>8, <2>1 DEF OpenSession, TypeOK
  <2> QED
    BY <1>0, <1>7, <1>8, <2>2 DEF OpenSession, TypeOK
<1>9. ASSUME NEW r \in Requests, SaveSelect(r) PROVE ShapeOK'
  <2> DEFINE defined == Columns \ IF req[r].op = "edit" THEN {"password"} ELSE {}
  <2> DEFINE k == {c \in defined : req[r].entity[c] # Row[c]}
  <2> DEFINE e == [d \in Columns |-> IF d \in k THEN req[r].entity[d] ELSE Idle.entity[d]]
  <2> DEFINE c == [req[r] EXCEPT !.pc = "update", !.cols = k, !.entity = e]
  <2>1. req' = [req EXCEPT ![r] = c] /\ req[r].pc = "select" /\ UNCHANGED <<password, past, chosen>>
    BY <1>9 DEF SaveSelect
  <2>2. k \in SUBSET Columns
    OBVIOUS
  <2> HIDE DEF k
  <2>8. /\ e \in Entity /\ e.password <= chosen
        /\ "password" \in k => e.password = req[r].entity.password
    <3>1. /\ req[r].entity \in Entity /\ req[r].entity.password <= chosen
          /\ 0 <= chosen
      BY <1>0 DEF TypeOK, Call, Versions
    <3>2. /\ e.password = IF "password" \in k THEN req[r].entity.password ELSE 0
          /\ e.deleted = IF "deleted" \in k THEN req[r].entity.deleted ELSE FALSE
      BY DEF Columns, Idle
    <3>3. e = [password |-> e.password, deleted |-> e.deleted]
      BY DEF Columns
    <3> HIDE DEF e
    <3> QED
      BY <3>1, <3>2, <3>3, EntityFacts DEF Entity
  <2> HIDE DEF e
  <2>3. c \in Call /\ c.pc = "update" /\ c.op = req[r].op /\ c.entity = e /\ c.cols = k
    BY <1>0, <2>2, <2>8 DEF TypeOK, Call
  <2> HIDE DEF c
  <2>4. req' \in [Requests -> Call] /\ req'[r] = c /\ \A q \in Requests \ {r} : req'[q] = req[q]
    BY <1>0, <2>1, <2>3, Moved
  <2>5. /\ req[r].op \in {"profile", "edit", "change", "delete"}
        /\ req[r].op \in {"profile", "edit"} => req[r].entity.password \in {password} \cup past
    BY <2>1 DEF ShapeOK, SavesOK, BringsBack
  <2>6. RedeemsOK' /\ SavesOK'
    BY <2>1, <2>3, <2>4, <2>5, <2>8, Keeps DEF BringsBack
  <2>7. \A q \in Requests : req'[q].entity.password <= chosen'
    BY <1>0, <2>1, <2>3, <2>4, <2>8, Chosen DEF TypeOK
  <2> QED
    BY <1>0, <1>9, <2>4, <2>6, <2>7 DEF SaveSelect, ShapeOK, TypeOK
<1>10. ASSUME NEW r \in Requests, SaveUpdate(r) PROVE ShapeOK'
  <2> DEFINE v == IF "password" \in req[r].cols THEN req[r].entity.password ELSE password
  <2>1. v \in Versions /\ v <= chosen /\ (req[r].entity.deleted) \in BOOLEAN
    BY <1>0 DEF TypeOK, Call, Entity
  <2>2. SetPassword(v) /\ deleted' \in BOOLEAN
    BY <1>0, <1>10, <2>1 DEF SaveUpdate, TypeOK
  <2>3. Revoke(r) \/ End(r)
    BY <1>10 DEF SaveUpdate, AfterSave
  <2> HIDE DEF v
  <2>4. /\ password' = v /\ past' \subseteq Versions /\ excused' \subseteq Versions
        /\ {password} \cup past \subseteq {password'} \cup past'
    BY <1>0, <2>1, <2>2, Sets
  <2> QED
    BY <1>0, <1>7, <1>10, <2>1, <2>2, <2>3, <2>4 DEF SaveUpdate, TypeOK
<1>11. ASSUME NEW r \in Requests, updatePassword(r) PROVE ShapeOK'
  <2>1. req[r].entity.password \in Versions /\ req[r].entity.password <= chosen /\ req[r].token \in Tokens
    BY <1>0, <1>11 DEF updatePassword, ShapeOK, RedeemsOK, TypeOK, Call, Entity
  <2>2. /\ password' = req[r].entity.password /\ past' \subseteq Versions /\ excused' \subseteq Versions
        /\ {password} \cup past \subseteq {password'} \cup past'
    BY <1>0, <1>11, <2>1, Sets DEF updatePassword
  <2>3. uses' \in [Tokens -> Nat]
    <3>1. uses[req[r].token] + 1 \in Nat
      BY <1>0, <2>1 DEF TypeOK
    <3> QED
      BY <1>0, <1>11, <2>1, <3>1 DEF updatePassword, TypeOK
  <2> QED
    BY <1>0, <1>7, <1>11, <2>1, <2>2, <2>3 DEF updatePassword, TypeOK
<1>12. ASSUME NEW r \in Requests, MarkUsed(r) PROVE ShapeOK'
  <2>1. token' \in [Tokens -> {"none", "valid", "used", "expired"}] /\ req[r].token \in Tokens
    BY <1>0, <1>12 DEF MarkUsed, TypeOK, ShapeOK, RedeemsOK
  <2> QED
    BY <1>0, <1>7, <1>12, <2>1 DEF MarkUsed, TypeOK
<1>13. ASSUME NEW r \in Requests, RevokeSessions(r) PROVE ShapeOK'
  BY <1>0, <1>7, <1>13 DEF RevokeSessions, TypeOK
<1>14. ASSUME NEW r \in Requests, Die(r) PROVE ShapeOK'
  <2>1. excused' \subseteq Versions /\ lost' \subseteq Tokens
    BY <1>0, <1>14 DEF Die, TypeOK, ShapeOK, RedeemsOK
  <2> QED
    BY <1>0, <1>7, <1>14, <2>1 DEF Die, TypeOK
<1>15. ASSUME NEW t \in Tokens, forgotPassword(t) \/ Expire(t) PROVE ShapeOK'
  BY <1>15 DEF forgotPassword, Expire, ShapeOK, TypeOK, RedeemsOK, SavesOK
<1>16. CASE deleteUser
  BY <1>16 DEF deleteUser, ShapeOK, TypeOK, RedeemsOK, SavesOK
<1>17. CASE UNCHANGED vars
  BY <1>17 DEF vars, ShapeOK, TypeOK, RedeemsOK, SavesOK
<1> QED
  BY <1>2, <1>3, <1>4, <1>5, <1>6, <1>8, <1>9, <1>10, <1>11, <1>12, <1>13, <1>14, <1>15, <1>16, <1>17
     DEF Next, Step
-----------------------------------------------------------------------------
(***************************************************************************)
(* Passwords: sessions and reset tokens                                    *)
(***************************************************************************)

(* There are no sessions at the start. *)
LEMMA FollowInit == Init => SessionsFollowPassword
  BY DEF Init, SessionsFollowPassword

(* It is kept by a step of r that opens no session, lets nothing be        *)
(* forgotten and keeps the password, as long as r was not about to revoke  *)
(* or still is.                                                            *)
LEMMA FollowKeeps ==
  ASSUME SessionsFollowPassword, NEW r \in Requests, \A q \in Requests \ {r} : req'[q] = req[q],
         sessions' \subseteq sessions, excused \subseteq excused', UNCHANGED password,
         req[r].pc \in {"mark", "revoke"} => req'[r].pc \in {"mark", "revoke"}
  PROVE  SessionsFollowPassword'
  BY DEF SessionsFollowPassword

(* A session is opened only under the password in force or by an outdated  *)
(* login, and a password is replaced only by a call that goes on to        *)
(* revoke, or is excused.                                                  *)
LEMMA FollowStep == ShapeOK /\ SessionsFollowPassword /\ [Next]_vars => SessionsFollowPassword'
<1> SUFFICES ASSUME ShapeOK, SessionsFollowPassword, [Next]_vars PROVE SessionsFollowPassword'
  OBVIOUS
<1> USE DEF rowVars, historyVars
<1>0. TypeOK /\ req \in [Requests -> Call]
  BY DEF ShapeOK, TypeOK
<1>1. ASSUME NEW r \in Requests,
             \/ login(r) \/ updateProfile(r) \/ updateDetails(r) \/ updateUser(r) \/ selfDeleteUser(r)
             \/ \E t \in Tokens : resetPassword(r, t)
      PROVE  SessionsFollowPassword'
  <2>1. PICK op, step, e, t : Begin(r, op, step, e, t)
    BY <1>1 DEF login, updateProfile, updateDetails, updateUser, selfDeleteUser, resetPassword
  <2>2. req[r].pc = "idle" /\ \A q \in Requests \ {r} : req'[q] = req[q]
    BY <1>0, <2>1 DEF Begin
  <2>3. UNCHANGED <<sessions, excused, password>>
    BY <1>1 DEF login, updateProfile, updateDetails, updateUser, selfDeleteUser, resetPassword
  <2> QED
    BY <2>2, <2>3, FollowKeeps
<1>2. ASSUME NEW r \in Requests, OpenSession(r) PROVE SessionsFollowPassword'
  <2>1. \A q \in Requests \ {r} : req'[q] = req[q]
    BY <1>0, <1>2, Ends DEF OpenSession
  <2> QED
    BY <1>2, <2>1 DEF OpenSession, SessionsFollowPassword
<1>3. ASSUME NEW r \in Requests, SaveSelect(r) PROVE SessionsFollowPassword'
  <2>1. req[r].pc = "select" /\ \A q \in Requests \ {r} : req'[q] = req[q]
    BY <1>0, <1>3 DEF SaveSelect
  <2> QED
    BY <1>3, <2>1, FollowKeeps DEF SaveSelect
(* A save that sets another password revokes, or brings a replaced one     *)
(* back.                                                                   *)
<1>4. ASSUME NEW r \in Requests, SaveUpdate(r) PROVE SessionsFollowPassword'
  <2> DEFINE v == IF "password" \in req[r].cols THEN req[r].entity.password ELSE password
  <2>1. req[r].pc = "update" /\ SetPassword(v) /\ UNCHANGED sessions /\ AfterSave(r)
    BY <1>4 DEF SaveUpdate
  <2>2. /\ req[r].op \in {"profile", "edit", "change", "delete"}
        /\ req[r].op \in {"profile", "edit"} => v \in {password} \cup past
    BY <2>1 DEF ShapeOK, SavesOK, BringsBack
  <2>3. \A q \in Requests \ {r} : req'[q] = req[q]
    BY <1>0, <2>1, Ends DEF AfterSave
  <2>4. CASE req[r].op \in {"change", "delete"}
    <3>1. req'[r].pc = "revoke"
      BY <1>0, <2>1, <2>4, Ends DEF AfterSave
    <3> QED
      BY <3>1 DEF SessionsFollowPassword
  <2>5. CASE req[r].op \in {"profile", "edit"}
    <3>1. v \in {password} \cup past
      BY <2>2, <2>5
    <3>2. password' = v /\ excused' = IF v \in past THEN excused \cup sessions ELSE excused
      BY <2>1 DEF SetPassword
    <3> HIDE DEF v
    <3> QED
      BY <2>1, <2>3, <3>1, <3>2 DEF SessionsFollowPassword
  <2> QED
    BY <2>2, <2>4, <2>5
<1>5. ASSUME NEW r \in Requests, updatePassword(r) \/ MarkUsed(r) PROVE SessionsFollowPassword'
  <2>1. req'[r].pc \in {"mark", "revoke"}
    BY <1>0, <1>5, Ends DEF updatePassword, MarkUsed
  <2> QED
    BY <2>1 DEF SessionsFollowPassword
<1>6. ASSUME NEW r \in Requests, RevokeSessions(r) PROVE SessionsFollowPassword'
  BY <1>6 DEF RevokeSessions, SessionsFollowPassword
<1>7. ASSUME NEW r \in Requests, Die(r) PROVE SessionsFollowPassword'
  <2>1. \A q \in Requests \ {r} : req'[q] = req[q]
    BY <1>0, <1>7, Ends DEF Die
  <2> QED
    BY <1>7, <2>1 DEF Die, SessionsFollowPassword
<1>8. CASE UNCHANGED <<password, sessions, excused, req>>
  BY <1>8 DEF SessionsFollowPassword
<1> QED
  BY <1>1, <1>2, <1>3, <1>4, <1>5, <1>6, <1>7, <1>8
     DEF Next, Step, forgotPassword, Expire, deleteUser, vars

(* A session outlives the password it was started with only until the call *)
(* that changed it revokes, or for one of three reasons: its login had     *)
(* compared the old password before the change and stored the session      *)
(* after it, the call died before it revoked, or a stale save put an older *)
(* password back.                                                          *)
THEOREM SessionsTheorem == Spec => []SessionsFollowPassword
  BY ShapeInit, ShapeStep, FollowInit, FollowStep, PTL DEF Spec

(* A token that no two calls share and that no call dies with is redeemed  *)
(* by one call, which finds it unused; it has set the password only if it  *)
(* is marked or about to be.                                               *)
AloneOK(t) ==
  /\ \A r, q \in Redeeming(t) : r = q
  /\ Redeeming(t) # {} => token[t] # "used"
  /\ uses[t] \in {0, 1}
  /\ uses[t] = 1 => token[t] = "used" \/ \E r \in Redeeming(t) : req[r].pc = "mark"
RedeemedOK == \A t \in Tokens \ (shared \cup lost) : AloneOK(t)

(* No token is redeemed at the start. *)
LEMMA RedeemedInit == Init => RedeemedOK
<1> SUFFICES ASSUME Init, NEW t \in Tokens PROVE AloneOK(t)
  BY DEF RedeemedOK
<1>1. Redeeming(t) = {} /\ uses[t] = 0
  BY EntityFacts DEF Init, Redeeming
<1> QED
  BY <1>1 DEF AloneOK
(* A call that moves without redeeming t leaves it as it is. *)
LEMMA RedeemedKeeps ==
  ASSUME NEW t \in Tokens, AloneOK(t), NEW r \in Requests, \A q \in Requests \ {r} : req'[q] = req[q],
         r \notin Redeeming(t)', r \notin Redeeming(t) \/ req[r].pc # "mark",
         uses'[t] = uses[t], token'[t] = token[t] \/ "used" \notin {token[t], token'[t]}
  PROVE  AloneOK(t)'
<1>1. Redeeming(t)' = Redeeming(t) \ {r}
  BY DEF Redeeming
<1>2. \A q \in Redeeming(t) : q # r => q \in Requests /\ req'[q] = req[q]
  BY DEF Redeeming
<1> QED
  BY <1>1, <1>2 DEF AloneOK

(* A second call that begins with the token makes it shared, and a call    *)
(* that dies makes it lost; every other step keeps AloneOK.                *)
LEMMA RedeemedStep == ShapeOK /\ RedeemedOK /\ [Next]_vars => RedeemedOK'
<1> SUFFICES ASSUME ShapeOK, RedeemedOK, [Next]_vars PROVE RedeemedOK'
  OBVIOUS
<1> USE DEF rowVars, historyVars
<1>0. /\ TypeOK /\ req \in [Requests -> Call] /\ uses \in [Tokens -> Nat]
      /\ token \in [Tokens -> {"none", "valid", "used", "expired"}]
      /\ \A t \in Tokens \ (shared \cup lost) : AloneOK(t)
      /\ \A r \in Requests : req[r].pc \in {"reset", "mark"} => req[r].token \in Tokens
  BY DEF ShapeOK, TypeOK, RedeemedOK, RedeemsOK
<1>1. ASSUME NEW r \in Requests,
             login(r) \/ updateProfile(r) \/ updateDetails(r) \/ updateUser(r) \/ selfDeleteUser(r)
      PROVE  RedeemedOK'
  <2>1. UNCHANGED <<uses, token, shared, lost>>
    BY <1>1 DEF login, updateProfile, updateDetails, updateUser, selfDeleteUser
  <2>2. req[r].pc = "idle" /\ req'[r].pc \in {"open", "select"} /\ \A q \in Requests \ {r} : req'[q] = req[q]
    BY <1>0, <1>1 DEF login, updateProfile, updateDetails, updateUser, selfDeleteUser, Begin
  <2>3. ASSUME NEW t \in Tokens \ (shared \cup lost) PROVE AloneOK(t)'
    BY <1>0, <2>1, <2>2, RedeemedKeeps DEF Redeeming
  <2> QED
    BY <2>1, <2>3 DEF RedeemedOK
<1>2. ASSUME NEW r \in Requests, NEW u \in Tokens, resetPassword(r, u) PROVE RedeemedOK'
  <2>1. /\ token[u] = "valid" /\ UNCHANGED <<uses, token, lost>>
        /\ shared' = IF Redeeming(u) = {} THEN shared ELSE shared \cup {u}
    BY <1>2 DEF resetPassword
  <2>2. /\ req[r].pc = "idle" /\ req'[r].pc = "reset" /\ req'[r].token = u
        /\ \A q \in Requests \ {r} : req'[q] = req[q]
    BY <1>0, <1>2 DEF resetPassword, Begin
  <2>3. ASSUME NEW t \in Tokens \ (shared' \cup lost'), t # u PROVE AloneOK(t)'
    BY <1>0, <2>1, <2>2, <2>3, RedeemedKeeps DEF Redeeming
  <2>4. ASSUME u \notin shared' \cup lost' PROVE AloneOK(u)'
    <3>1. Redeeming(u) = {} /\ AloneOK(u)
      BY <1>0, <2>1, <2>4
    <3>2. uses[u] = 0
      BY <2>1, <3>1 DEF AloneOK
    <3>3. Redeeming(u)' = {r}
      BY <2>2, <3>1 DEF Redeeming
    <3> QED
      BY <2>1, <3>2, <3>3 DEF AloneOK
  <2> QED
    BY <2>3, <2>4 DEF RedeemedOK
<1>3. ASSUME NEW r \in Requests, updatePassword(r) PROVE RedeemedOK'
  <2>0. PICK u \in Tokens : u = req[r].token
    BY <1>0, <1>3 DEF updatePassword
  <2>1. /\ req[r].pc = "reset" /\ UNCHANGED <<token, shared, lost>>
        /\ uses' = [uses EXCEPT ![u] = @ + 1]
    BY <1>0, <1>3, <2>0 DEF updatePassword
  <2>2. req'[r].pc = "mark" /\ req'[r].token = u /\ \A q \in Requests \ {r} : req'[q] = req[q]
    BY <1>0, <1>3, <2>0, Ends DEF updatePassword
  <2>3. uses'[u] = uses[u] + 1 /\ \A t \in Tokens \ {u} : uses'[t] = uses[t]
    BY <1>0, <2>1
  <2>4. r \in Redeeming(u)
    BY <2>0, <2>1 DEF Redeeming
  <2>5. ASSUME NEW t \in Tokens \ (shared \cup lost), t # u PROVE AloneOK(t)'
    BY <1>0, <2>0, <2>1, <2>2, <2>3, <2>5, RedeemedKeeps DEF Redeeming
  <2>6. ASSUME u \notin shared \cup lost PROVE AloneOK(u)'
    <3>1. AloneOK(u) /\ Redeeming(u) = {r}
      BY <1>0, <2>1, <2>4, <2>6 DEF AloneOK
    <3>2. uses[u] = 0
      BY <2>1, <3>1 DEF AloneOK
    <3>3. (\A q : q \in Redeeming(u)' <=> q = r) /\ uses'[u] = 1 /\ token'[u] = token[u]
      BY <2>0, <2>1, <2>2, <2>3, <3>1, <3>2 DEF Redeeming
    <3> QED
      BY <2>2, <3>1, <3>3 DEF AloneOK
  <2> QED
    BY <2>1, <2>5, <2>6 DEF RedeemedOK
<1>4. ASSUME NEW r \in Requests, MarkUsed(r) PROVE RedeemedOK'
  <2>0. PICK u \in Tokens : u = req[r].token
    BY <1>0, <1>4 DEF MarkUsed
  <2>1. /\ req[r].pc = "mark" /\ UNCHANGED <<uses, shared, lost>>
        /\ token' = [token EXCEPT ![u] = "used"]
    BY <1>0, <1>4, <2>0 DEF MarkUsed
  <2>2. req'[r].pc = "revoke" /\ \A q \in Requests \ {r} : req'[q] = req[q]
    BY <1>0, <1>4, <2>0, Ends DEF MarkUsed
  <2>3. token'[u] = "used" /\ \A t \in Tokens \ {u} : token'[t] = token[t]
    BY <1>0, <2>1
  <2>4. r \in Redeeming(u)
    BY <2>0, <2>1 DEF Redeeming
  <2>5. ASSUME NEW t \in Tokens \ (shared \cup lost), t # u PROVE AloneOK(t)'
    BY <1>0, <2>0, <2>1, <2>2, <2>3, <2>5, RedeemedKeeps DEF Redeeming
  <2>6. ASSUME u \notin shared \cup lost PROVE AloneOK(u)'
    <3>1. AloneOK(u) /\ \A q \in Redeeming(u) : q = r
      BY <1>0, <2>1, <2>4, <2>6 DEF AloneOK
    <3>2. \A q : q \notin Redeeming(u)'
      BY <2>2, <3>1 DEF Redeeming
    <3> QED
      BY <2>1, <2>3, <3>1, <3>2 DEF AloneOK
  <2> QED
    BY <2>1, <2>5, <2>6 DEF RedeemedOK
<1>5. ASSUME NEW r \in Requests, OpenSession(r) \/ SaveSelect(r) \/ SaveUpdate(r) \/ RevokeSessions(r)
      PROVE  RedeemedOK'
  <2>1. UNCHANGED <<uses, token, shared, lost>> /\ req[r].pc \in {"open", "select", "update", "revoke"}
    BY <1>5 DEF OpenSession, SaveSelect, SaveUpdate, RevokeSessions
  <2>2. req'[r].pc \notin {"reset", "mark"} /\ \A q \in Requests \ {r} : req'[q] = req[q]
    <3>1. CASE SaveSelect(r)
      <4>1. req[r] \in Call
        BY <1>0
      <4> QED
        BY <1>0, <3>1, <4>1 DEF SaveSelect, Call
    <3>2. CASE ~SaveSelect(r)
      BY <1>0, <1>5, <3>2, Ends DEF OpenSession, SaveUpdate, AfterSave, RevokeSessions
    <3> QED
      BY <3>1, <3>2
  <2>3. ASSUME NEW t \in Tokens \ (shared \cup lost) PROVE AloneOK(t)'
    BY <1>0, <2>1, <2>2, RedeemedKeeps DEF Redeeming
  <2> QED
    BY <2>1, <2>3 DEF RedeemedOK
<1>6. ASSUME NEW r \in Requests, Die(r) PROVE RedeemedOK'
  <2>1. UNCHANGED <<uses, token, shared>> /\ lost' = IF req[r].pc = "mark" THEN lost \cup {req[r].token} ELSE lost
    BY <1>6 DEF Die
  <2>2. req'[r].pc = "idle" /\ \A q \in Requests \ {r} : req'[q] = req[q]
    BY <1>0, <1>6, Ends DEF Die
  <2>3. ASSUME NEW t \in Tokens \ (shared \cup lost') PROVE AloneOK(t)'
    BY <1>0, <2>1, <2>2, RedeemedKeeps DEF Redeeming
  <2> QED
    BY <2>1, <2>3 DEF RedeemedOK
<1>7. ASSUME NEW u \in Tokens, forgotPassword(u) \/ Expire(u) PROVE RedeemedOK'
  <2>1. UNCHANGED <<uses, req, shared, lost>> /\ \A t \in Tokens : Redeeming(t)' = Redeeming(t)
    BY <1>7 DEF forgotPassword, Expire, Redeeming
  <2>2. \A t \in Tokens : token'[t] = token[t] \/ "used" \notin {token[t], token'[t]}
    BY <1>0, <1>7 DEF forgotPassword, Expire
  <2> QED
    BY <2>1, <2>2 DEF RedeemedOK, AloneOK
<1>8. CASE UNCHANGED <<token, req, uses, shared, lost>>
  BY <1>8 DEF RedeemedOK, AloneOK, Redeeming
<1> QED
  BY <1>1, <1>2, <1>3, <1>4, <1>5, <1>6, <1>7, <1>8 DEF Next, Step, deleteUser, vars

(* A reset token sets the password once, unless two calls read it before   *)
(* either marked it, or the call that used it died before marking it.      *)
THEOREM TokenTheorem == Spec => []TokenUsedOnce
<1>1. RedeemedOK => TokenUsedOnce
  BY DEF RedeemedOK, AloneOK, TokenUsedOnce
<1> QED
  BY <1>1, ShapeInit, ShapeStep, RedeemedInit, RedeemedStep, PTL DEF Spec
-----------------------------------------------------------------------------
(***************************************************************************)
(* Roles                                                                   *)
(***************************************************************************)

(* A call is about a user; a profile edit saves the role it read, which is *)
(* the user's as long as the call is not outdated; a call that is to take  *)
(* the role of an admin has counted another one; onboarding gives the      *)
(* creator's role.                                                         *)
RoleCallOK(r) ==
  /\ roleReq[r].pc # "idle" => roleReq[r].user \in Users
  /\ roleReq[r].pc # "idle" /\ roleReq[r].op = "profile" =>
       /\ roleReq[r].pc \in {"select", "update"}
       /\ r \notin outdated => roleReq[r].entity = role[roleReq[r].user]
  /\ /\ roleReq[r].pc \in {"reread", "select", "update"}
     /\ roleReq[r].op = "assign" /\ r \notin outdated /\ role[roleReq[r].user] = "admin"
     => \E a \in Users \ {roleReq[r].user} : role[a] = "admin"
  /\ roleReq[r].pc \in {"count", "reread"} => roleReq[r].op = "assign"
  /\ roleReq[r].pc = "insert" => roleReq[r].op = "onboard"
  /\ roleReq[r].op = "onboard" /\ roleReq[r].pc \in {"select", "update"} =>
       roleReq[r].entity = "creator"

RolesOK == Roles!TypeOK /\ \A r \in Requests : RoleCallOK(r)

(* An idle call is a call, and None is no handle. *)
LEMMA RoleIdle == Roles!Idle \in Roles!Call /\ Roles!Idle.pc = "idle" /\ None \notin Handles
  BY AccountsAssumption DEF Roles!Idle, Roles!Call, Roles!RoleNames, Roles!RolesAssumption

(* At the start the admins are those the instance names, and no call is    *)
(* under way.                                                              *)
LEMMA RolesInit == Roles!Init => RolesOK /\ AdminRemains
<1> SUFFICES ASSUME Roles!Init PROVE RolesOK /\ AdminRemains
  OBVIOUS
<1>1. \A r \in Requests : roleReq[r] = Roles!Idle
  BY DEF Roles!Init
<1>2. roleReq \in [Requests -> Roles!Call]
  BY RoleIdle DEF Roles!Init
<1>3. role \in [Users -> Roles!RoleNames] /\ profile \in [Users -> Handles \cup {None}]
  BY DEF Roles!Init, Roles!RoleNames
<1>4. Roles!TypeOK
  BY <1>1, <1>2, <1>3, RoleIdle DEF Roles!Init, Roles!TypeOK
<1>5. AdminRemains
  BY AccountsAssumption DEF AdminRemains, Roles!AdminRemains, Roles!admins, Roles!Init, Roles!RolesAssumption
<1> QED
  BY <1>1, <1>4, <1>5, RoleIdle DEF RolesOK, RoleCallOK

(* A step of r that changes no role keeps all this, if it keeps what r     *)
(* knows.                                                                  *)
LEMMA RolesKeep ==
  ASSUME RolesOK, NEW r \in Requests, NEW c \in Roles!Call, roleReq' = [roleReq EXCEPT ![r] = c],
         UNCHANGED <<role, raced, onboarded>>, outdated' \in {outdated, outdated \ {r}}, RoleCallOK(r)',
         profile' \in [Users -> Handles \cup {None}],
         \A u, v \in Users : u # v /\ profile'[u] # None => profile'[u] # profile'[v]
  PROVE  RolesOK'
<1>1. roleReq' \in [Requests -> Roles!Call] /\ \A q \in Requests \ {r} : roleReq'[q] = roleReq[q]
  BY DEF RolesOK, Roles!TypeOK
<1>2. \A q \in Requests : RoleCallOK(q)'
  BY <1>1 DEF RolesOK, RoleCallOK
<1>3. outdated' \subseteq Requests
  BY DEF RolesOK, Roles!TypeOK
<1>4. \A q \in Requests : roleReq'[q].pc # "idle" => roleReq'[q].user \in Users
  BY <1>2 DEF RoleCallOK
<1> QED
  BY <1>1, <1>2, <1>3, <1>4 DEF RolesOK, Roles!TypeOK

(* A call that begins has just read what it remembers. *)
LEMMA RolesBegin ==
  ASSUME RolesOK, NEW r \in Requests, NEW step \in {"count", "reread", "insert", "select"},
         NEW op \in {"profile", "assign", "onboard"}, NEW u \in Users, NEW e \in Roles!RoleNames,
         NEW h \in Handles \cup {None}, Roles!Begin(r, step, op, u, e, h),
         op = "profile" => step = "select" /\ e = role[u],
         op = "assign" /\ role[u] = "admin" => step = "count",
         op = "onboard" <=> step = "insert",
         step \in {"count", "reread"} => op = "assign"
  PROVE  RolesOK'
<1> DEFINE c == [pc |-> step, op |-> op, user |-> u, entity |-> e, handle |-> h, differs |-> FALSE]
<1>1. c \in Roles!Call /\ c.pc = step /\ c.op = op /\ c.user = u /\ c.entity = e
  BY DEF Roles!Call
<1>2. roleReq' = [roleReq EXCEPT ![r] = c] /\ UNCHANGED <<role, profile, raced, onboarded>> /\ outdated' = outdated \ {r}
  BY DEF Roles!Begin, Roles!Reads
<1> HIDE DEF c
<1>3. roleReq'[r] = c
  BY <1>1, <1>2 DEF RolesOK, Roles!TypeOK
<1>4. RoleCallOK(r)'
  BY <1>1, <1>2, <1>3 DEF RoleCallOK
<1> QED
  BY <1>1, <1>2, <1>4, RolesKeep DEF RolesOK, Roles!TypeOK

(* A call that ends remembers nothing. *)
LEMMA RolesEnd ==
  ASSUME RolesOK, NEW r \in Requests, roleReq' = [roleReq EXCEPT ![r] = Roles!Idle],
         UNCHANGED <<role, profile, outdated, raced, onboarded>>
  PROVE  RolesOK'
<1>1. roleReq'[r] = Roles!Idle
  BY DEF RolesOK, Roles!TypeOK
<1>2. RoleCallOK(r)'
  BY <1>1, RoleIdle DEF RoleCallOK
<1> QED
  BY <1>2, RoleIdle, RolesKeep DEF RolesOK, Roles!TypeOK

(* FiniteSets is the same module for Roles as it is here. *)
LEMMA SameCardinality == ASSUME NEW S PROVE Roles!Cardinality(S) = Cardinality(S)
  BY Zenon DEF Roles!Cardinality, Cardinality

(* More than one admin is one beside any user. *)
LEMMA AnotherAdmin ==
  ASSUME NEW u, Cardinality(Roles!admins) > 1
  PROVE  \E a \in Users \ {u} : role[a] = "admin"
<1>1. Cardinality({}) = 0 /\ Cardinality({u}) = 1
  BY FS_EmptySet, FS_Singleton
<1>2. Roles!admins # {} /\ Roles!admins # {u}
  BY <1>1
<1> QED
  BY <1>2 DEF Roles!admins
(* Every statement of a call on roles keeps RolesOK. *)
LEMMA RolesStep == RolesOK /\ [Roles!Next]_(Roles!vars) => RolesOK'
<1> SUFFICES ASSUME RolesOK, [Roles!Next]_(Roles!vars) PROVE RolesOK'
  OBVIOUS
<1>0. /\ Roles!TypeOK /\ roleReq \in [Requests -> Roles!Call] /\ role \in [Users -> Roles!RoleNames]
      /\ profile \in [Users -> Handles \cup {None}]
      /\ \A u, v \in Users : u # v /\ profile[u] # None => profile[u] # profile[v]
      /\ \A r \in Requests : roleReq[r] \in Roles!Call /\ RoleCallOK(r)
  BY DEF RolesOK, Roles!TypeOK
<1>1. ASSUME NEW r \in Requests, NEW u \in Users, NEW new \in Roles!RoleNames, Roles!assignRole(r, u, new)
      PROVE  RolesOK'
  <2>1. PICK step \in {"count", "reread"} : /\ Roles!Begin(r, step, "assign", u, new, None)
                                            /\ role[u] = "admin" => step = "count"
    BY <1>1 DEF Roles!assignRole
  <2> QED
    BY <2>1, RolesBegin
<1>2. ASSUME NEW r \in Requests, NEW u \in Users, Roles!updateProfile(r, u) PROVE RolesOK'
  <2>1. role[u] \in Roles!RoleNames
    BY <1>0
  <2> QED
    BY <1>2, <2>1, RolesBegin DEF Roles!updateProfile
<1>3. ASSUME NEW r \in Requests, NEW u \in Users, NEW h \in Handles, Roles!onboard(r, u, h) PROVE RolesOK'
  <2>1. role[u] \in Roles!RoleNames
    BY <1>0
  <2> QED
    BY <1>3, <2>1, RolesBegin DEF Roles!onboard
(* A call that goes on *)
<1>4. ASSUME NEW r \in Requests, NEW step \in {"reread", "select"}, Roles!Continue(r, step),
             roleReq[r].pc \in {"count", "reread"},
             step = "reread" => \E a \in Users \ {roleReq[r].user} : role[a] = "admin",
             step = "select" => roleReq[r].pc = "reread"
      PROVE  RolesOK'
  <2> DEFINE c == [roleReq[r] EXCEPT !.pc = step]
  <2>1. c \in Roles!Call /\ c.pc = step /\ c.op = roleReq[r].op /\ c.user = roleReq[r].user /\ c.entity = roleReq[r].entity
    BY <1>0 DEF Roles!Call
  <2>2. roleReq' = [roleReq EXCEPT ![r] = c] /\ UNCHANGED <<role, profile, raced, onboarded, outdated>>
    BY <1>4 DEF Roles!Continue, Roles!Reads
  <2> HIDE DEF c
  <2>3. roleReq'[r] = c
    BY <1>0, <2>2
  <2>4. RoleCallOK(r)
    BY <1>0
  <2>5. RoleCallOK(r)'
    BY <1>4, <2>1, <2>2, <2>3, <2>4 DEF RoleCallOK
  <2> QED
    BY <1>0, <2>1, <2>2, <2>5, RolesKeep
<1>5. ASSUME NEW r \in Requests, Roles!Refuse(r) PROVE RolesOK'
  BY <1>5, RolesEnd DEF Roles!Refuse, Roles!Reads
<1>6. ASSUME NEW r \in Requests, Roles!countAdmins(r) PROVE RolesOK'
  <2>1. CASE Roles!Refuse(r)
    BY <1>5, <2>1
  <2>2. CASE ~Roles!Refuse(r)
    <3>1. roleReq[r].pc = "count" /\ Cardinality(Roles!admins) > 1 /\ Roles!Continue(r, "reread")
      BY <1>6, <2>2, SameCardinality DEF Roles!countAdmins
    <3>2. \E a \in Users \ {roleReq[r].user} : role[a] = "admin"
      BY <3>1, AnotherAdmin
    <3> QED
      BY <1>4, <3>1, <3>2
  <2> QED
    BY <2>1, <2>2
<1>7. ASSUME NEW r \in Requests, Roles!updateUserRole(r) PROVE RolesOK'
  BY <1>4, <1>5, <1>7 DEF Roles!updateUserRole
<1>8. ASSUME NEW r \in Requests, Roles!InsertProfile(r) PROVE RolesOK'
  <2> DEFINE c == [roleReq[r] EXCEPT !.pc = "select", !.entity = "creator"]
  <2> DEFINE taken == profile[roleReq[r].user] # None \/ \E v \in Users : profile[v] = roleReq[r].handle
  <2>1. /\ roleReq[r].pc = "insert" /\ UNCHANGED <<role, outdated, raced, onboarded>>
        /\ profile' = IF taken THEN profile ELSE [profile EXCEPT ![roleReq[r].user] = roleReq[r].handle]
        /\ \/ roleReq' = [roleReq EXCEPT ![r] = Roles!Idle]
           \/ roleReq' = [roleReq EXCEPT ![r] = c]
    BY <1>8 DEF Roles!InsertProfile
  <2>2. roleReq[r].user \in Users /\ roleReq[r].handle \in Handles \cup {None} /\ roleReq[r].op = "onboard"
    BY <1>0, <2>1 DEF RoleCallOK, Roles!Call
  <2>3. c \in Roles!Call /\ c.pc = "select" /\ c.op = "onboard" /\ c.user = roleReq[r].user /\ c.entity = "creator"
    BY <1>0, <2>2 DEF Roles!Call, Roles!RoleNames
  <2> HIDE DEF c
  <2>4. /\ profile' \in [Users -> Handles \cup {None}]
        /\ \A u, v \in Users : u # v /\ profile'[u] # None => profile'[u] # profile'[v]
    BY <1>0, <2>1, <2>2
  <2>5. CASE roleReq' = [roleReq EXCEPT ![r] = Roles!Idle]
    <3>1. RoleCallOK(r)'
      BY <1>0, <2>5, RoleIdle DEF RoleCallOK
    <3> QED
      BY <2>1, <2>4, <2>5, <3>1, RoleIdle, RolesKeep
  <2>6. CASE roleReq' = [roleReq EXCEPT ![r] = c]
    <3>1. RoleCallOK(r)'
      BY <1>0, <2>2, <2>3, <2>6 DEF RoleCallOK
    <3> QED
      BY <2>1, <2>3, <2>4, <2>6, <3>1, RolesKeep
  <2> QED
    BY <2>1, <2>5, <2>6
<1>9. ASSUME NEW r \in Requests, Roles!SaveSelect(r) PROVE RolesOK'
  <2> DEFINE d == roleReq[r].entity # role[roleReq[r].user]
  <2> DEFINE c == [roleReq[r] EXCEPT !.pc = "update", !.differs = d]
  <2>1. /\ roleReq[r].pc = "select" /\ roleReq' = [roleReq EXCEPT ![r] = c]
        /\ UNCHANGED <<role, profile, raced, onboarded, outdated>>
    BY <1>9 DEF Roles!SaveSelect, Roles!Reads
  <2>2. d \in BOOLEAN
    OBVIOUS
  <2> HIDE DEF d
  <2>3. c \in Roles!Call /\ c.pc = "update" /\ c.op = roleReq[r].op /\ c.user = roleReq[r].user /\ c.entity = roleReq[r].entity
    BY <1>0, <2>2 DEF Roles!Call
  <2> HIDE DEF c
  <2>4. RoleCallOK(r)'
    BY <1>0, <2>1, <2>3 DEF RoleCallOK
  <2> QED
    BY <1>0, <2>1, <2>3, <2>4, RolesKeep
(* Once a role changes every call in flight is outdated. *)
<1>10. ASSUME NEW r \in Requests, Roles!SaveUpdate(r) PROVE RolesOK'
  <2>1. /\ roleReq[r].pc = "update" /\ roleReq' = [roleReq EXCEPT ![r] = Roles!Idle] /\ UNCHANGED profile
        /\ role' = IF roleReq[r].differs THEN [role EXCEPT ![roleReq[r].user] = roleReq[r].entity] ELSE role
        /\ outdated' = IF role' # role THEN {q \in Requests : roleReq'[q].pc # "idle"} ELSE outdated
        /\ raced' \in BOOLEAN /\ onboarded' \in BOOLEAN
    BY <1>0, <1>10 DEF Roles!SaveUpdate, Roles!TypeOK
  <2>2. /\ roleReq' \in [Requests -> Roles!Call] /\ roleReq'[r] = Roles!Idle
        /\ \A q \in Requests \ {r} : roleReq'[q] = roleReq[q]
    BY <1>0, <2>1, RoleIdle
  <2>3. role' \in [Users -> Roles!RoleNames]
    BY <1>0, <2>1 DEF Roles!Call
  <2>4. outdated' \subseteq Requests /\ \A q \in Requests : roleReq'[q].pc # "idle" => roleReq'[q].user \in Users
    BY <1>0, <2>1, <2>2, RoleIdle DEF Roles!TypeOK
  <2>5. Roles!TypeOK'
    BY <1>0, <2>1, <2>2, <2>3, <2>4 DEF Roles!TypeOK
  <2>6. ASSUME NEW q \in Requests PROVE RoleCallOK(q)'
    <3>1. CASE q = r
      BY <2>2, <3>1, RoleIdle DEF RoleCallOK
    <3>2. CASE q # r /\ role' = role
      BY <1>0, <2>1, <2>2, <3>2 DEF RoleCallOK
    <3>3. CASE q # r /\ role' # role
      BY <1>0, <2>1, <2>2, <3>3 DEF RoleCallOK
    <3> QED
      BY <3>1, <3>2, <3>3
  <2> QED
    BY <2>5, <2>6 DEF RolesOK
<1>11. ASSUME NEW r \in Requests, Roles!Die(r) PROVE RolesOK'
  BY <1>11, RolesEnd DEF Roles!Die
<1>12. CASE UNCHANGED Roles!vars
  BY <1>12 DEF Roles!vars, RolesOK, Roles!TypeOK, RoleCallOK
<1> QED
  BY <1>1, <1>2, <1>3, <1>6, <1>7, <1>8, <1>9, <1>10, <1>11, <1>12 DEF Roles!Next

(* A role that a save changes is the one its call was to give. *)
LEMMA RoleSaves ==
  ASSUME RolesOK, NEW r \in Requests, Roles!SaveUpdate(r), NEW u \in Users, role'[u] # role[u]
  PROVE  /\ roleReq[r].pc = "update" /\ roleReq[r].user = u /\ roleReq[r].entity = role'[u]
         /\ roleReq[r].op = "profile" => r \in outdated
         /\ roleReq[r].op = "onboard" => role'[u] = "creator"
<1>1. /\ RoleCallOK(r) /\ roleReq[r].pc = "update" /\ role \in [Users -> Roles!RoleNames]
      /\ role' = IF roleReq[r].differs THEN [role EXCEPT ![roleReq[r].user] = roleReq[r].entity] ELSE role
  BY DEF RolesOK, Roles!TypeOK, Roles!SaveUpdate
<1> QED
  BY <1>1 DEF RoleCallOK

(* Only a save changes a role. *)
LEMMA OnlySaves ==
  ASSUME [Roles!Next]_(Roles!vars), role' # role
  PROVE  \E r \in Requests : Roles!SaveUpdate(r)
  BY DEF Roles!Next, Roles!vars, Roles!assignRole, Roles!updateProfile, Roles!onboard, Roles!countAdmins,
         Roles!updateUserRole, Roles!InsertProfile, Roles!SaveSelect, Roles!Die, Roles!Begin,
         Roles!Continue, Roles!Refuse, Roles!Reads

(* A save that takes an admin's role either is outdated or onboards, or    *)
(* its call has counted another admin, who is still there.                 *)
LEMMA RemainsStep == RolesOK /\ AdminRemains /\ [Roles!Next]_(Roles!vars) => AdminRemains'
<1> SUFFICES ASSUME RolesOK, AdminRemains, [Roles!Next]_(Roles!vars), Admins # {}, ~raced', ~onboarded'
             PROVE  Roles!admins' # {}
  BY DEF AdminRemains, Roles!AdminRemains
<1>1. CASE UNCHANGED <<role, raced, onboarded>>
  BY <1>1 DEF AdminRemains, Roles!AdminRemains, Roles!admins
<1>2. ASSUME NEW r \in Requests, Roles!SaveUpdate(r) PROVE Roles!admins' # {}
  <2>1. /\ raced' = (raced \/ (role' # role /\ r \in outdated))
        /\ onboarded' = (onboarded \/ (role' # role /\ roleReq[r].op = "onboard" /\ role[roleReq[r].user] = "admin"))
    BY <1>2 DEF Roles!SaveUpdate
  <2>2. PICK a \in Users : role[a] = "admin"
    BY <2>1 DEF AdminRemains, Roles!AdminRemains, Roles!admins
  <2>3. CASE role'[a] = role[a]
    BY <2>2, <2>3 DEF Roles!admins
  <2>4. CASE role'[a] # role[a]
    <3>1. roleReq[r].pc = "update" /\ roleReq[r].user = a /\ (roleReq[r].op = "profile" => r \in outdated)
      BY <1>2, <2>4, RoleSaves
    <3>2. r \notin outdated /\ roleReq[r].op = "assign"
      <4>1. role' # role
        BY <2>4
      <4>2. roleReq[r].op \in {"profile", "assign", "onboard"}
        BY DEF RolesOK, Roles!TypeOK, Roles!Call
      <4> QED
        BY <2>1, <2>2, <3>1, <4>1, <4>2
    <3>3. PICK b \in Users \ {a} : role[b] = "admin"
      BY <2>2, <3>1, <3>2 DEF RolesOK, RoleCallOK
    <3>4. role'[b] = role[b]
      BY <1>2, <3>1, <3>3, RoleSaves
    <3> QED
      BY <3>3, <3>4 DEF Roles!admins
  <2> QED
    BY <2>3, <2>4
<1>3. ASSUME NEW r \in Requests,
             \/ \E u \in Users :
                  \/ \E new \in Roles!RoleNames : Roles!assignRole(r, u, new)
                  \/ Roles!updateProfile(r, u)
                  \/ \E h \in Handles : Roles!onboard(r, u, h)
             \/ Roles!countAdmins(r) \/ Roles!updateUserRole(r) \/ Roles!InsertProfile(r)
             \/ Roles!SaveSelect(r) \/ Roles!Die(r)
      PROVE  UNCHANGED <<role, raced, onboarded>>
  BY <1>3 DEF Roles!assignRole, Roles!updateProfile, Roles!onboard, Roles!countAdmins,
              Roles!updateUserRole, Roles!InsertProfile, Roles!SaveSelect, Roles!Die, Roles!Begin,
              Roles!Continue, Roles!Refuse, Roles!Reads
<1>4. CASE UNCHANGED Roles!vars
  BY <1>1, <1>4 DEF Roles!vars
<1> QED
  BY <1>1, <1>2, <1>3, <1>4 DEF Roles!Next

(* The last admin is demoted only by a call whose reads were outdated when *)
(* it wrote, or by onboarding, which takes an admin's role without asking  *)
(* for the count.                                                          *)
THEOREM AdminTheorem == Roles!Spec => []AdminRemains
  BY RolesInit, RolesStep, RemainsStep, PTL DEF Roles!Spec

(* A profile edit changes a role only back to one it read before another   *)
(* call changed it, and an onboarding only to creator: nobody gains a role *)
(* nobody gave them.                                                       *)
THEOREM GivenTheorem == Roles!Spec => RolesAreGiven
<1>1. RolesOK /\ [Roles!Next]_(Roles!vars) =>
        [\A u \in Users : role'[u] # role[u] =>
           \E r \in Requests :
             /\ roleReq[r].pc = "update" /\ roleReq[r].user = u /\ roleReq[r].entity = role'[u]
             /\ roleReq[r].op = "profile" => r \in outdated
             /\ roleReq[r].op = "onboard" => role'[u] = "creator"]_(Roles!vars)
  <2> SUFFICES ASSUME RolesOK, [Roles!Next]_(Roles!vars), NEW u \in Users, role'[u] # role[u]
               PROVE  \E r \in Requests :
                        /\ roleReq[r].pc = "update" /\ roleReq[r].user = u /\ roleReq[r].entity = role'[u]
                        /\ roleReq[r].op = "profile" => r \in outdated
                        /\ roleReq[r].op = "onboard" => role'[u] = "creator"
    OBVIOUS
  <2>1. PICK r \in Requests : Roles!SaveUpdate(r)
    BY OnlySaves
  <2> QED
    BY <2>1, RoleSaves
<1> QED
  BY <1>1, RolesInit, RolesStep, PTL DEF Roles!Spec, RolesAreGiven, Roles!RolesAreGiven
-----------------------------------------------------------------------------
(***************************************************************************)
(* SignUp                                                                  *)
(***************************************************************************)

(* How far a call has come and what it knows by then: as long as no other  *)
(* one has written the row it read, that is what the row still holds.      *)
SignUpCallOK(r) ==
  LET c == signUpReq[r] IN
  /\ c.pc = "idle" => c = SignUp!Idle
  /\ c.pc = "insert" => c.op = "signup" /\ c.user = 0 /\ c.entity \in SignUp!Row
  /\ c.pc \in {"select", "update"} => c.op \in {"edit", "profile"}
  /\ c.pc = "select" =>
       /\ c.entity \in SignUp!Entity
       /\ c.op = "profile" /\ ~c.outdated => c.entity = users[c.user]
  /\ c.pc = "update" =>
       /\ "name" \in c.cols => c.entity.name \in Names
       /\ "email" \in c.cols => c.entity.email \in Emails
       /\ "search" \in c.cols => c.entity.search \in SignUp!Texts \cup {None}
       /\ c.op = "profile" /\ ~c.outdated => c.cols = {}
  /\ c.pc \in {"text", "write"} => c.op \in {"signup", "edit"}
  /\ c.pc = "write" =>
       c.text \in SignUp!Texts /\ (~c.outdated => c.text = SignUp!TextOf(users[c.user]))
  /\ c.pc \in {"find", "default", "lookup"} => c.op = "signup"
  /\ c.pc = "lookup" => c.user \in prefs
  /\ c.pc \notin {"idle", "insert"} => c.user \in SignUp!Made
  /\ c.pc \notin {"idle", "insert"} /\ c.op = "signup" /\ ~c.renamed =>
       users[c.user].email = c.email

(* Ids are given in order, each to one signup, which nothing else takes    *)
(* for failed while it is at it.                                           *)
NumberedOK == \E n \in 0..MaxUsers : SignUp!Made = 1..n
Makes(r, u) == signUpReq[r].op = "signup" /\ signUpReq[r].user = u
MakersOK ==
  /\ \A r, q \in Requests, u \in SignUp!Made : Makes(r, u) /\ Makes(q, u) => r = q
  /\ \A r \in Requests, u \in halfmade : ~Makes(r, u)

(* The last two parts of AccountsWhole *)
PrefsOK == \A u \in SignUp!Made \ prefs : u \in halfmade \/ \E r \in Requests : Makes(r, u)
Refreshes(r, u) == signUpReq[r].pc \in {"text", "write"} /\ signUpReq[r].user = u
TextsOK == \A u \in SignUp!Made : SignUp!Behind(users[u]) =>
  u \in torn \/ \E r \in Requests : Refreshes(r, u)

SignUpOK ==
  /\ SignUp!TypeOK /\ \A r \in Requests : SignUpCallOK(r)
  /\ NumberedOK /\ MakersOK /\ PrefsOK /\ TextsOK
(* An idle call, and what None is not *)
LEMMA SignUpFacts ==
  /\ SignUp!Idle \in SignUp!Call /\ SignUp!Idle.pc = "idle" /\ SignUp!Idle.user = 0
  /\ SignUp!Idle.op = "profile" /\ SignUp!Idle.outdated = FALSE /\ SignUp!Idle.renamed = FALSE
  /\ SignUp!Idle.email = None /\ SignUp!Idle.cols = {}
  /\ None \notin Emails /\ None \notin Names /\ None \notin SignUp!Row /\ MaxUsers \in Nat
  /\ 0 \notin SignUp!Ids /\ SignUp!Made \subseteq SignUp!Ids
  BY AccountsAssumption DEF SignUp!SignUpAssumption, SignUp!Idle, SignUp!Call, SignUp!Ids, SignUp!Made

(* There are no accounts at the start. *)
LEMMA SignUpInit == SignUp!Init => SignUpOK
<1> SUFFICES ASSUME SignUp!Init PROVE SignUpOK
  OBVIOUS
<1>1. /\ signUpReq \in [Requests -> SignUp!Call] /\ \A r \in Requests : signUpReq[r] = SignUp!Idle
      /\ users \in [SignUp!Ids -> SignUp!Row \cup {None}] /\ SignUp!Made = {}
      /\ prefs = {} /\ halfmade = {} /\ torn = {}
  BY SignUpFacts DEF SignUp!Init, SignUp!Made
<1>2. SignUp!TypeOK /\ \A r \in Requests : SignUpCallOK(r)
  BY <1>1, SignUpFacts DEF SignUp!TypeOK, SignUpCallOK
<1>3. 1..0 = {} /\ 0 \in 0..MaxUsers
  BY SignUpFacts
<1> QED
  BY <1>1, <1>2, <1>3 DEF SignUpOK, NumberedOK, MakersOK, PrefsOK, TextsOK


(* A call that moves without writing a row of users keeps all this if it   *)
(* goes on with what it was to make and to refresh, or leaves a trace.     *)
LEMMA SignUpGoes ==
  ASSUME SignUpOK, NEW r \in Requests, NEW c \in SignUp!Call, signUpReq' = [signUpReq EXCEPT ![r] = c],
         SignUpCallOK(r)', UNCHANGED users, prefs \subseteq prefs', prefs' \subseteq SignUp!Made,
         c.op = "signup" /\ c.user # 0 => Makes(r, c.user),
         signUpReq[r].op = "signup" /\ signUpReq[r].user \in SignUp!Made \ prefs' =>
           (c.op = "signup" /\ c.user = signUpReq[r].user) \/ signUpReq[r].user \in halfmade',
         halfmade' \subseteq SignUp!Made \ prefs', halfmade \subseteq halfmade' \cup prefs',
         \A u \in halfmade' \ halfmade : Makes(r, u) /\ ~(c.op = "signup" /\ c.user = u),
         torn \subseteq torn', torn' \subseteq SignUp!Made,
         signUpReq[r].pc \in {"text", "write"} /\ SignUp!Behind(users[signUpReq[r].user]) =>
           (c.pc \in {"text", "write"} /\ c.user = signUpReq[r].user) \/ signUpReq[r].user \in torn'
  PROVE  SignUpOK'
<1>1. /\ signUpReq' \in [Requests -> SignUp!Call] /\ signUpReq'[r] = c
      /\ \A q \in Requests \ {r} : signUpReq'[q] = signUpReq[q]
  BY DEF SignUpOK, SignUp!TypeOK
<1>2. SignUp!Made' = SignUp!Made /\ \A u : SignUp!Behind(users[u])' <=> SignUp!Behind(users[u])
  BY DEF SignUp!Made, SignUp!Behind, SignUp!TextOf
<1>3. ASSUME NEW q \in Requests PROVE SignUpCallOK(q)'
  BY <1>1, <1>2 DEF SignUpOK, SignUpCallOK, SignUp!TextOf
<1>4. SignUp!TypeOK'
  <2>1. \A q \in Requests : signUpReq'[q].pc \notin {"idle", "insert"} => signUpReq'[q].user \in SignUp!Made
    BY <1>2, <1>3 DEF SignUpCallOK
  <2> QED
    BY <1>1, <1>2, <2>1 DEF SignUpOK, SignUp!TypeOK
<1>5. NumberedOK'
  BY <1>2 DEF SignUpOK, NumberedOK
<1>6. \A q \in Requests, u \in SignUp!Made : Makes(q, u)' => Makes(q, u)
  <2>1. 0 \notin SignUp!Made
    BY SignUpFacts
  <2> QED
    BY <1>1, <2>1 DEF Makes
<1>7. MakersOK'
  <2>1. ASSUME NEW q \in Requests, NEW u \in halfmade', Makes(q, u)' PROVE FALSE
    <3>1. Makes(q, u) /\ u \in SignUp!Made
      BY <1>6, <2>1
    <3>2. u \notin halfmade
      BY <3>1 DEF SignUpOK, MakersOK
    <3>3. Makes(r, u) /\ ~(c.op = "signup" /\ c.user = u)
      BY <3>2
    <3>4. q = r
      BY <3>1, <3>3 DEF SignUpOK, MakersOK
    <3> QED
      BY <1>1, <2>1, <3>3, <3>4 DEF Makes
  <2> QED
    BY <1>2, <1>6, <2>1 DEF SignUpOK, MakersOK
<1>8. PrefsOK'
  <2> SUFFICES ASSUME NEW u \in SignUp!Made \ prefs', u \notin halfmade' PROVE \E q \in Requests : Makes(q, u)'
    BY <1>2 DEF PrefsOK
  <2>1. PICK q \in Requests : Makes(q, u)
    BY DEF SignUpOK, PrefsOK
  <2> QED
    BY <1>1, <2>1 DEF Makes
<1>9. TextsOK'
  <2> SUFFICES ASSUME NEW u \in SignUp!Made, SignUp!Behind(users[u]), u \notin torn'
               PROVE  \E q \in Requests : Refreshes(q, u)'
    BY <1>2 DEF TextsOK
  <2>1. PICK q \in Requests : Refreshes(q, u)
    BY DEF SignUpOK, TextsOK
  <2> QED
    BY <1>1, <2>1 DEF Refreshes
<1> QED
  BY <1>3, <1>4, <1>5, <1>7, <1>8, <1>9 DEF SignUpOK

(* A call that begins has just read what it remembers. *)
LEMMA SignUpBegin ==
  ASSUME SignUpOK, NEW r \in Requests, NEW op \in {"signup", "edit", "profile"},
         NEW step \in {"insert", "select"}, NEW u \in SignUp!Ids \cup {0}, NEW e \in SignUp!Entity,
         SignUp!Begin(r, op, step, u, e),
         step = "insert" => op = "signup" /\ u = 0 /\ e \in SignUp!Row,
         step = "select" => op # "signup" /\ u \in SignUp!Made,
         op = "profile" => e = users[u]
  PROVE  SignUpOK'
<1> DEFINE c == [SignUp!Idle EXCEPT !.pc = step, !.op = op, !.user = u, !.entity = e]
<1>1. c \in SignUp!Call /\ c.pc = step /\ c.op = op /\ c.user = u /\ c.entity = e
  BY SignUpFacts DEF SignUp!Call
<1>2. /\ signUpReq[r].pc = "idle" /\ signUpReq' = [signUpReq EXCEPT ![r] = c]
      /\ UNCHANGED <<users, prefs, halfmade, torn>>
  BY DEF SignUp!Begin, SignUp!historyVars
<1> HIDE DEF c
<1>3. signUpReq'[r] = c /\ signUpReq[r] = SignUp!Idle
  BY <1>1, <1>2 DEF SignUpOK, SignUp!TypeOK, SignUpCallOK
<1>4. SignUpCallOK(r)'
  BY <1>1, <1>2, <1>3 DEF SignUpCallOK, SignUp!Made
<1>5. prefs \subseteq SignUp!Made /\ halfmade \subseteq SignUp!Made \ prefs /\ torn \subseteq SignUp!Made
  BY DEF SignUpOK, SignUp!TypeOK
<1> QED
  BY <1>1, <1>2, <1>3, <1>4, <1>5, SignUpFacts, SignUpGoes

(* A call that fails or dies leaves its traces. *)
LEMMA SignUpFails ==
  ASSUME SignUpOK, NEW r \in Requests, SignUp!Fail(r), UNCHANGED <<users, prefs>>
  PROVE  SignUpOK'
<1>1. /\ signUpReq' = [signUpReq EXCEPT ![r] = SignUp!Idle]
      /\ torn' = IF signUpReq[r].pc \in {"text", "write"} /\ SignUp!Behind(users[signUpReq[r].user])
                 THEN torn \cup {signUpReq[r].user} ELSE torn
      /\ halfmade' = IF signUpReq[r].op = "signup" /\ signUpReq[r].user \in SignUp!Made \ prefs
                     THEN halfmade \cup {signUpReq[r].user} ELSE halfmade
  BY DEF SignUp!Fail
<1>2. signUpReq'[r] = SignUp!Idle
  BY <1>1 DEF SignUpOK, SignUp!TypeOK
<1>3. SignUpCallOK(r)'
  BY <1>2, SignUpFacts DEF SignUpCallOK
<1>4. signUpReq[r].pc \in {"text", "write"} => signUpReq[r].user \in SignUp!Made
  BY DEF SignUpOK, SignUpCallOK
<1>5. prefs \subseteq SignUp!Made /\ halfmade \subseteq SignUp!Made \ prefs /\ torn \subseteq SignUp!Made
  BY DEF SignUpOK, SignUp!TypeOK
<1>6. \A u \in halfmade' \ halfmade : Makes(r, u)
  BY <1>1 DEF Makes
<1> QED
  BY <1>1, <1>3, <1>4, <1>5, <1>6, SignUpFacts, SignUpGoes
(* What a write leaves of the other calls *)
LEMMA Written ==
  ASSUME SignUpOK, NEW r \in Requests, NEW row \in SignUp!Row, NEW c \in SignUp!Call, SignUp!Write(r, row, c),
         signUpReq[r].user \in SignUp!Made
  PROVE  /\ users' = [users EXCEPT ![signUpReq[r].user] = row]
         /\ signUpReq' \in [Requests -> SignUp!Call] /\ signUpReq'[r] = c
         /\ \A q \in Requests \ {r} :
              LET old == signUpReq[q]
                  new == signUpReq'[q] IN
              /\ new.pc = old.pc /\ new.op = old.op /\ new.user = old.user /\ new.entity = old.entity
              /\ new.email = old.email /\ new.text = old.text /\ new.cols = old.cols
              /\ old.user # signUpReq[r].user => new = old
              /\ old.outdated => new.outdated
              /\ old.renamed => new.renamed
              /\ old.user = signUpReq[r].user /\ row # users[old.user] /\ old.pc \in {"select", "update", "write"} =>
                   new.outdated
              /\ old.user = signUpReq[r].user /\ row.email # users[old.user].email /\ old.op = "signup" =>
                   new.renamed
<1> DEFINE u == signUpReq[r].user
<1> DEFINE o(q) == signUpReq[q].outdated
                     \/ (row # users[u] /\ signUpReq[q].pc \in {"select", "update", "write"})
<1> DEFINE n(q) == signUpReq[q].renamed \/ (row.email # users[u].email /\ signUpReq[q].op = "signup")
<1>1. /\ users' = [users EXCEPT ![u] = row]
      /\ signUpReq' = [q \in Requests |->
           IF q = r THEN c
           ELSE IF signUpReq[q].user = u THEN [signUpReq[q] EXCEPT !.outdated = o(q), !.renamed = n(q)]
           ELSE signUpReq[q]]
  BY DEF SignUp!Write
<1>2. \A q \in Requests : signUpReq[q] \in SignUp!Call /\ o(q) \in BOOLEAN /\ n(q) \in BOOLEAN
  BY DEF SignUpOK, SignUp!TypeOK, SignUp!Call
<1>3. \A q \in Requests :
        /\ o(q) <=> signUpReq[q].outdated
                     \/ (row # users[u] /\ signUpReq[q].pc \in {"select", "update", "write"})
        /\ n(q) <=> signUpReq[q].renamed \/ (row.email # users[u].email /\ signUpReq[q].op = "signup")
  OBVIOUS
<1> HIDE DEF o, n
<1>4. \A q \in Requests :
        LET new == [signUpReq[q] EXCEPT !.outdated = o(q), !.renamed = n(q)] IN
        /\ new \in SignUp!Call /\ new.outdated = o(q) /\ new.renamed = n(q)
        /\ new.pc = signUpReq[q].pc /\ new.op = signUpReq[q].op /\ new.user = signUpReq[q].user
        /\ new.entity = signUpReq[q].entity /\ new.email = signUpReq[q].email /\ new.text = signUpReq[q].text
        /\ new.cols = signUpReq[q].cols
  BY <1>2 DEF SignUp!Call
<1>5. signUpReq' \in [Requests -> SignUp!Call] /\ signUpReq'[r] = c
  BY <1>1, <1>2, <1>4
<1>6. ASSUME NEW q \in Requests \ {r}
      PROVE  signUpReq'[q] = IF signUpReq[q].user = u
                             THEN [signUpReq[q] EXCEPT !.outdated = o(q), !.renamed = n(q)] ELSE signUpReq[q]
  BY <1>1
<1>7. ASSUME NEW q \in Requests \ {r}
      PROVE  LET old == signUpReq[q]
                 new == signUpReq'[q] IN
             /\ new.pc = old.pc /\ new.op = old.op /\ new.user = old.user /\ new.entity = old.entity
             /\ new.email = old.email /\ new.text = old.text /\ new.cols = old.cols
             /\ old.user # u => new = old
             /\ old.outdated => new.outdated
             /\ old.renamed => new.renamed
             /\ old.user = u /\ row # users[old.user] /\ old.pc \in {"select", "update", "write"} =>
                  new.outdated
             /\ old.user = u /\ row.email # users[old.user].email /\ old.op = "signup" => new.renamed
  <2>1. CASE signUpReq[q].user = u
    <3> DEFINE e == [signUpReq[q] EXCEPT !.outdated = o(q), !.renamed = n(q)]
    <3>1. signUpReq'[q] = e
      BY <1>6, <2>1
    <3>2. /\ e.outdated = o(q) /\ e.renamed = n(q)
          /\ e.pc = signUpReq[q].pc /\ e.op = signUpReq[q].op /\ e.user = signUpReq[q].user
          /\ e.entity = signUpReq[q].entity /\ e.email = signUpReq[q].email /\ e.text = signUpReq[q].text
          /\ e.cols = signUpReq[q].cols
      BY <1>4
    <3> HIDE DEF e
    <3>3. /\ o(q) <=> signUpReq[q].outdated
                       \/ (row # users[u] /\ signUpReq[q].pc \in {"select", "update", "write"})
          /\ n(q) <=> signUpReq[q].renamed \/ (row.email # users[u].email /\ signUpReq[q].op = "signup")
      BY <1>3
    <3> QED
      BY <2>1, <3>1, <3>2, <3>3
  <2>2. CASE signUpReq[q].user # u
    BY <1>6, <2>2
  <2> QED
    BY <2>1, <2>2
<1> QED
  BY <1>1, <1>5, <1>7

(* Writing a row makes every other call that has read it outdated, and     *)
(* itself forgets nothing it needs.                                        *)
LEMMA SignUpWrites ==
  ASSUME SignUpOK, NEW r \in Requests, NEW row \in SignUp!Row, NEW c \in SignUp!Call, NEW u,
         u = signUpReq[r].user, SignUp!Write(r, row, c), signUpReq[r].pc \in {"update", "write"},
         UNCHANGED <<prefs, halfmade>>, torn' = SignUp!Torn(u, row, signUpReq[r].outdated),
         \A v \in SignUp!Made \ {u} : users[v].email # row.email,
         SignUpCallOK(r)', signUpReq[r].op = "signup" => c.op = "signup" /\ c.user = u,
         c.op = "signup" => signUpReq[r].op = "signup" /\ c.user = u,
         SignUp!Behind(row) => \/ signUpReq[r].outdated
                               \/ c.pc \in {"text", "write"} /\ c.user = u
                               \/ row = users[u] /\ signUpReq[r].pc = "update"
  PROVE  SignUpOK'
<1>1. /\ u \in SignUp!Made /\ users \in [SignUp!Ids -> SignUp!Row \cup {None}] /\ u \in SignUp!Ids
      /\ prefs \subseteq SignUp!Made /\ halfmade \subseteq SignUp!Made \ prefs /\ torn \subseteq SignUp!Made
  BY SignUpFacts DEF SignUpOK, SignUp!TypeOK, SignUpCallOK
<1>2. /\ users' = [users EXCEPT ![u] = row]
      /\ signUpReq' \in [Requests -> SignUp!Call] /\ signUpReq'[r] = c
  BY <1>1, Written
<1>3. ASSUME NEW q \in Requests \ {r}
      PROVE  LET old == signUpReq[q]
                 new == signUpReq'[q] IN
             /\ new.pc = old.pc /\ new.op = old.op /\ new.user = old.user /\ new.entity = old.entity
             /\ new.email = old.email /\ new.text = old.text /\ new.cols = old.cols
             /\ old.user # u => new = old
             /\ old.outdated => new.outdated
             /\ old.renamed => new.renamed
             /\ old.user = u /\ row # users[u] /\ old.pc \in {"select", "update", "write"} => new.outdated
             /\ old.user = u /\ row.email # users[u].email /\ old.op = "signup" => new.renamed
  BY <1>1, Written
<1>4. SignUp!Made' = SignUp!Made /\ users'[u] = row /\ \A v : v # u => users'[v] = users[v]
  BY <1>1, <1>2, SignUpFacts DEF SignUp!Made
<1>5. ASSUME NEW q \in Requests, q # r PROVE SignUpCallOK(q)'
  <2>1. SignUpCallOK(q)
    BY DEF SignUpOK
  <2>2. CASE signUpReq[q].user # u
    <3>1. signUpReq'[q] = signUpReq[q] /\ users'[signUpReq[q].user] = users[signUpReq[q].user]
      BY <1>3, <1>4, <1>5, <2>2
    <3> QED
      BY <1>4, <2>1, <3>1 DEF SignUpCallOK, SignUp!TextOf
  <2>3. CASE signUpReq[q].user = u
    <3>1. signUpReq[q].pc # "idle"
      BY <1>1, <2>1, <2>3, SignUpFacts DEF SignUpCallOK
    <3> QED
      BY <1>3, <1>4, <1>5, <2>1, <2>3, <3>1 DEF SignUpCallOK, SignUp!TextOf
  <2> QED
    BY <2>2, <2>3
<1>6. SignUp!TypeOK'
  <2>1. users' \in [SignUp!Ids -> SignUp!Row \cup {None}]
    BY <1>1, <1>2
  <2>2. \A v, w \in SignUp!Made : users'[v].email = users'[w].email => v = w
    BY <1>4 DEF SignUpOK, SignUp!TypeOK
  <2>3. \A q \in Requests : signUpReq'[q].pc \notin {"idle", "insert"} => signUpReq'[q].user \in SignUp!Made
    BY <1>4, <1>5 DEF SignUpCallOK
  <2>4. torn' \subseteq SignUp!Made
    BY <1>1 DEF SignUp!Torn
  <2> QED
    BY <1>1, <1>2, <1>4, <2>1, <2>2, <2>3, <2>4 DEF SignUp!TypeOK
<1>7. NumberedOK'
  BY <1>4 DEF SignUpOK, NumberedOK
<1>8. \A q \in Requests, v \in SignUp!Made : Makes(q, v)' <=> Makes(q, v)
  BY <1>2, <1>3 DEF Makes
<1>9. MakersOK' /\ PrefsOK'
  BY <1>1, <1>4, <1>8 DEF SignUpOK, MakersOK, PrefsOK
<1>10. TextsOK'
  <2>1. \A v \in SignUp!Made : SignUp!Behind(users[v])' <=> SignUp!Behind(users'[v])
    BY DEF SignUp!Behind, SignUp!TextOf
  <2> SUFFICES ASSUME NEW v \in SignUp!Made, SignUp!Behind(users'[v]), v \notin torn'
               PROVE  \E q \in Requests : Refreshes(q, v)'
    BY <1>4, <2>1 DEF TextsOK
  <2>2. ASSUME NEW q \in Requests, q # r, Refreshes(q, v) PROVE Refreshes(q, v)'
    BY <1>3, <2>2 DEF Refreshes
  <2>3. CASE v # u
    <3>1. v \notin torn /\ SignUp!Behind(users[v])
      BY <1>4, <2>3 DEF SignUp!Torn
    <3>2. PICK q \in Requests : Refreshes(q, v)
      BY <3>1 DEF SignUpOK, TextsOK
    <3> QED
      BY <2>2, <2>3, <3>2 DEF Refreshes
  <2>4. CASE v = u
    <3>1. ~signUpReq[r].outdated /\ torn' = torn /\ SignUp!Behind(row)
      BY <1>4, <2>4 DEF SignUp!Torn
    <3>2. CASE c.pc \in {"text", "write"} /\ c.user = u
      BY <1>2, <2>4, <3>2 DEF Refreshes
    <3>3. CASE row = users[u] /\ signUpReq[r].pc = "update"
      <4>1. PICK q \in Requests : Refreshes(q, u)
        BY <2>4, <3>1, <3>3 DEF SignUpOK, TextsOK
      <4> QED
        BY <2>2, <2>4, <3>3, <4>1 DEF Refreshes
    <3> QED
      BY <3>1, <3>2, <3>3
  <2> QED
    BY <2>3, <2>4
<1> QED
  BY <1>5, <1>6, <1>7, <1>9, <1>10 DEF SignUpOK
(* FiniteSets is the same module for SignUp as it is here. *)
LEMMA SignUpCardinality == ASSUME NEW S PROVE SignUp!Cardinality(S) = Cardinality(S)
  BY Zenon DEF SignUp!Cardinality, Cardinality

(* A new user gets the next id. *)
LEMMA SignUpInserts ==
  ASSUME SignUpOK, NEW r \in Requests, SignUp!Insert(r)
  PROVE  SignUpOK'
<1>1. CASE SignUp!Fail(r) /\ UNCHANGED users
  BY <1>1, SignUpFails DEF SignUp!Insert
<1>2. CASE ~(SignUp!Fail(r) /\ UNCHANGED users)
  <2>1. PICK n \in 0..MaxUsers : SignUp!Made = 1..n
    BY DEF SignUpOK, NumberedOK
  <2>2. n \in Nat /\ Cardinality(1..n) = n
    BY <2>1, FS_Interval, SignUpFacts
  <2>3. SignUp!Cardinality(SignUp!Made) + 1 = n + 1
    BY <2>1, <2>2, SignUpCardinality
  <2> DEFINE u == n + 1
  <2> DEFINE c == [SignUp!Idle EXCEPT !.pc = "text", !.op = "signup", !.user = u, !.email = signUpReq[r].entity.email]
  <2>4. /\ signUpReq[r].pc = "insert" /\ u \in SignUp!Ids
        /\ SignUp!findByEmail(signUpReq[r].entity.email) = {}
        /\ users' = [users EXCEPT ![u] = signUpReq[r].entity]
        /\ signUpReq' = [signUpReq EXCEPT ![r] = c]
        /\ UNCHANGED <<prefs, torn, halfmade>>
    BY <1>2, <2>3 DEF SignUp!Insert
  <2>5. signUpReq[r].entity \in SignUp!Row /\ signUpReq[r].user = 0 /\ signUpReq[r].entity.email \in Emails
    BY <2>4 DEF SignUpOK, SignUpCallOK, SignUp!Row
  <2>6. /\ c \in SignUp!Call /\ c.pc = "text" /\ c.op = "signup" /\ c.user = u
        /\ c.email = signUpReq[r].entity.email
    BY <2>4, <2>5, SignUpFacts DEF SignUp!Call
  <2> HIDE DEF c
  <2>7. /\ signUpReq' \in [Requests -> SignUp!Call] /\ signUpReq'[r] = c
        /\ \A q \in Requests \ {r} : signUpReq'[q] = signUpReq[q]
    BY <2>4, <2>6 DEF SignUpOK, SignUp!TypeOK
  <2>8. u \notin SignUp!Made /\ 0 \notin SignUp!Made /\ u # 0 /\ 1..u = SignUp!Made \cup {u} /\ u \in 0..MaxUsers
    BY <2>1, <2>2, <2>4 DEF SignUp!Ids
  <2> HIDE DEF u
  <2>9. /\ users' \in [SignUp!Ids -> SignUp!Row \cup {None}] /\ users'[u] = signUpReq[r].entity
        /\ \A v \in SignUp!Made : users'[v] = users[v]
        /\ SignUp!Made' = SignUp!Made \cup {u}
    BY <2>4, <2>5, <2>8, SignUpFacts DEF SignUpOK, SignUp!TypeOK, SignUp!Made
  <2>10. \A v \in SignUp!Made : users[v].email # signUpReq[r].entity.email
    BY <2>4 DEF SignUp!findByEmail
  <2>11. ASSUME NEW q \in Requests PROVE SignUpCallOK(q)'
    <3>1. CASE q = r
      BY <2>6, <2>7, <2>9, <3>1 DEF SignUpCallOK
    <3>2. CASE q # r
      <4>1. SignUpCallOK(q) /\ signUpReq'[q] = signUpReq[q]
        BY <2>7, <3>2 DEF SignUpOK
      <4> QED
        BY <2>4, <2>9, <4>1 DEF SignUpCallOK, SignUp!TextOf
    <3> QED
      BY <3>1, <3>2
  <2>12. SignUp!TypeOK'
    <3>1. \A q \in Requests : signUpReq'[q].pc \notin {"idle", "insert"} => signUpReq'[q].user \in SignUp!Made'
      BY <2>11 DEF SignUpCallOK
    <3>2. /\ prefs \subseteq SignUp!Made /\ halfmade \subseteq SignUp!Made \ prefs /\ torn \subseteq SignUp!Made
          /\ \A v, w \in SignUp!Made : users[v].email = users[w].email => v = w
      BY DEF SignUpOK, SignUp!TypeOK
    <3>3. \A v, w \in SignUp!Made' : users'[v].email = users'[w].email => v = w
      BY <2>9, <2>10, <3>2
    <3>4. prefs' \subseteq SignUp!Made' /\ halfmade' \subseteq SignUp!Made' \ prefs' /\ torn' \subseteq SignUp!Made'
      BY <2>4, <2>9, <3>2
    <3> QED
      BY <2>7, <2>9, <3>1, <3>3, <3>4 DEF SignUp!TypeOK
  <2>13. NumberedOK'
    BY <2>8, <2>9 DEF NumberedOK
  <2>14. \A q \in Requests \ {r} : signUpReq[q].user \in SignUp!Made \cup {0}
    BY SignUpFacts DEF SignUpOK, SignUpCallOK
  <2>15. MakersOK'
    <3>1. \A q \in Requests, v \in SignUp!Made' : Makes(q, v)' => (q = r /\ v = u) \/ (q # r /\ v \in SignUp!Made /\ Makes(q, v))
      BY <2>6, <2>7, <2>8, <2>9, <2>14 DEF Makes
    <3>2. u \notin halfmade /\ halfmade \subseteq SignUp!Made'
      BY <2>8, <2>9 DEF SignUpOK, SignUp!TypeOK
    <3> QED
      BY <2>4, <2>8, <3>1, <3>2 DEF SignUpOK, MakersOK
  <2>16. PrefsOK'
    <3> SUFFICES ASSUME NEW v \in SignUp!Made' \ prefs, v \notin halfmade PROVE \E q \in Requests : Makes(q, v)'
      BY <2>4 DEF PrefsOK
    <3>1. CASE v = u
      BY <2>6, <2>7, <3>1 DEF Makes
    <3>2. CASE v # u
      <4>1. v \in SignUp!Made
        BY <2>9, <3>2
      <4>2. PICK q \in Requests : Makes(q, v)
        BY <4>1 DEF SignUpOK, PrefsOK
      <4> QED
        BY <2>5, <2>7, <2>8, <4>1, <4>2 DEF Makes
    <3> QED
      BY <3>1, <3>2
  <2>17. TextsOK'
    <3> SUFFICES ASSUME NEW v \in SignUp!Made', SignUp!Behind(users'[v]), v \notin torn
                 PROVE  \E q \in Requests : Refreshes(q, v)'
      BY <2>4 DEF TextsOK, SignUp!Behind, SignUp!TextOf
    <3>1. CASE v = u
      BY <2>6, <2>7, <3>1 DEF Refreshes
    <3>2. CASE v # u
      <4>1. v \in SignUp!Made /\ SignUp!Behind(users[v])
        BY <2>9, <3>2
      <4>2. PICK q \in Requests : Refreshes(q, v)
        BY <4>1 DEF SignUpOK, TextsOK
      <4> QED
        BY <2>4, <2>7, <4>2 DEF Refreshes
    <3> QED
      BY <3>1, <3>2
  <2> QED
    BY <2>11, <2>12, <2>13, <2>15, <2>16, <2>17 DEF SignUpOK
<1> QED
  BY <1>1, <1>2
(* A save merges the columns that differ into the row as it is now. *)
LEMMA SignUpSaves ==
  ASSUME SignUpOK, NEW r \in Requests, SignUp!SaveUpdate(r)
  PROVE  SignUpOK'
<1> DEFINE u == signUpReq[r].user
<1> DEFINE row == [k \in SignUp!Columns |-> IF k \in signUpReq[r].cols THEN signUpReq[r].entity[k]
                                            ELSE users[u][k]]
<1> DEFINE refused == \E v \in SignUp!Made \ {u} : users[v].email = row.email
<1>1. /\ signUpReq[r].pc = "update" /\ UNCHANGED prefs
      /\ \/ refused /\ SignUp!Fail(r) /\ UNCHANGED users
         \/ /\ ~refused /\ SignUp!Write(r, row, SignUp!AfterSave(signUpReq[r]))
            /\ torn' = SignUp!Torn(u, row, signUpReq[r].outdated) /\ UNCHANGED halfmade
  BY DEF SignUp!SaveUpdate
<1>2. /\ signUpReq[r] \in SignUp!Call /\ u \in SignUp!Made
      /\ "name" \in signUpReq[r].cols => signUpReq[r].entity.name \in Names
      /\ "email" \in signUpReq[r].cols => signUpReq[r].entity.email \in Emails
      /\ "search" \in signUpReq[r].cols => signUpReq[r].entity.search \in SignUp!Texts \cup {None}
      /\ users[u] \in SignUp!Row /\ signUpReq[r].op \in {"edit", "profile"}
      /\ signUpReq[r].op = "profile" /\ ~signUpReq[r].outdated => signUpReq[r].cols = {}
  BY <1>1 DEF SignUpOK, SignUp!TypeOK, SignUpCallOK, SignUp!Made
<1>3. row = [name |-> IF "name" \in signUpReq[r].cols THEN signUpReq[r].entity.name ELSE users[u].name,
             email |-> IF "email" \in signUpReq[r].cols THEN signUpReq[r].entity.email ELSE users[u].email,
             search |-> IF "search" \in signUpReq[r].cols THEN signUpReq[r].entity.search ELSE users[u].search]
  BY DEF SignUp!Columns
<1> HIDE DEF row
<1>4. row \in SignUp!Row
  BY <1>2, <1>3 DEF SignUp!Row
<1>5. signUpReq[r].op = "profile" /\ ~signUpReq[r].outdated => row = users[u]
  BY <1>2, <1>3, <1>4 DEF SignUp!Row
<1>6. CASE SignUp!Fail(r) /\ UNCHANGED users
  BY <1>1, <1>6, SignUpFails
<1>7. CASE ~refused /\ SignUp!Write(r, row, SignUp!AfterSave(signUpReq[r]))
             /\ torn' = SignUp!Torn(u, row, signUpReq[r].outdated) /\ UNCHANGED halfmade
  <2> DEFINE e == [SignUp!Idle EXCEPT !.pc = "text", !.op = "edit", !.user = u]
  <2>0. u \in SignUp!Ids \cup {0}
    BY <1>2, SignUpFacts
  <2>1. e \in SignUp!Call /\ e.pc = "text" /\ e.op = "edit" /\ e.user = u
    <3> HIDE DEF u
    <3> QED
      BY <2>0, SignUpFacts DEF SignUp!Call
  <2>2. PICK c \in SignUp!Call : /\ c = SignUp!AfterSave(signUpReq[r])
                                 /\ IF signUpReq[r].op = "edit" THEN c = e ELSE c = SignUp!Idle
    BY <2>1, SignUpFacts DEF SignUp!AfterSave
  <2> HIDE DEF e
  <2>3. SignUp!Write(r, row, c)
    BY <1>7, <2>2
  <2>4. users' = [users EXCEPT ![u] = row] /\ signUpReq'[r] = c
    BY <1>2, <1>4, <2>3, Written
  <2>5. SignUp!Made' = SignUp!Made
    BY <1>2, <1>4, <2>4, SignUpFacts DEF SignUpOK, SignUp!TypeOK, SignUp!Made
  <2>6. SignUpCallOK(r)'
    <3>1. CASE signUpReq[r].op = "edit"
      BY <1>2, <2>1, <2>2, <2>4, <2>5, <3>1 DEF SignUpCallOK
    <3>2. CASE signUpReq[r].op # "edit"
      BY <2>2, <2>4, <3>2, SignUpFacts DEF SignUpCallOK
    <3> QED
      BY <3>1, <3>2
  <2>7. \A v \in SignUp!Made \ {u} : users[v].email # row.email
    BY <1>7
  <2>8. c.op # "signup"
    BY <2>1, <2>2, SignUpFacts
  <2>9. SignUp!Behind(row) => \/ signUpReq[r].outdated
                              \/ c.pc \in {"text", "write"} /\ c.user = u
                              \/ row = users[u] /\ signUpReq[r].pc = "update"
    BY <1>1, <1>2, <1>5, <2>1, <2>2
  <2> HIDE DEF u, refused
  <2> QED
    BY <1>1, <1>2, <1>4, <1>7, <2>3, <2>6, <2>7, <2>8, <2>9, SignUpWrites DEF u
<1> QED
  BY <1>1, <1>6, <1>7

(* The search text that is written is the row's unless the row changed     *)
(* after it was read.                                                      *)
LEMMA SignUpWritesText ==
  ASSUME SignUpOK, NEW r \in Requests, SignUp!WriteText(r)
  PROVE  SignUpOK'
<1> DEFINE u == signUpReq[r].user
<1> DEFINE row == [users[u] EXCEPT !.search = signUpReq[r].text]
<1> DEFINE s == [signUpReq[r] EXCEPT !.pc = "find", !.text = None, !.outdated = FALSE]
<1>1. /\ signUpReq[r].pc = "write" /\ UNCHANGED prefs
      /\ \/ SignUp!Fail(r) /\ UNCHANGED users
         \/ /\ SignUp!Write(r, row, IF signUpReq[r].op = "edit" THEN SignUp!Idle ELSE s)
            /\ torn' = SignUp!Torn(u, row, signUpReq[r].outdated) /\ UNCHANGED halfmade
  BY DEF SignUp!WriteText
<1>2. /\ signUpReq[r] \in SignUp!Call /\ u \in SignUp!Made /\ users[u] \in SignUp!Row
      /\ signUpReq[r].op \in {"edit", "signup"} /\ signUpReq[r].text \in SignUp!Texts
      /\ ~signUpReq[r].outdated => signUpReq[r].text = SignUp!TextOf(users[u])
      /\ signUpReq[r].op = "signup" /\ ~signUpReq[r].renamed => users[u].email = signUpReq[r].email
  BY <1>1 DEF SignUpOK, SignUp!TypeOK, SignUpCallOK, SignUp!Made
<1>3. /\ row \in SignUp!Row /\ row.name = users[u].name /\ row.email = users[u].email
      /\ row.search = signUpReq[r].text
  BY <1>2 DEF SignUp!Row
<1>4. /\ s \in SignUp!Call /\ s.pc = "find" /\ s.op = signUpReq[r].op /\ s.user = u
      /\ s.email = signUpReq[r].email /\ s.renamed = signUpReq[r].renamed
  BY <1>2 DEF SignUp!Call
<1> HIDE DEF row, s
<1>5. CASE SignUp!Fail(r) /\ UNCHANGED users
  BY <1>1, <1>5, SignUpFails
<1>6. CASE SignUp!Write(r, row, IF signUpReq[r].op = "edit" THEN SignUp!Idle ELSE s)
             /\ torn' = SignUp!Torn(u, row, signUpReq[r].outdated) /\ UNCHANGED halfmade
  <2>1. PICK c \in SignUp!Call : c = IF signUpReq[r].op = "edit" THEN SignUp!Idle ELSE s
    BY <1>4, SignUpFacts
  <2>2. SignUp!Write(r, row, c)
    BY <1>6, <2>1
  <2>3. users' = [users EXCEPT ![u] = row] /\ signUpReq'[r] = c
    BY <1>2, <1>3, <2>2, Written
  <2>4. SignUp!Made' = SignUp!Made /\ users'[u] = row
    BY <1>2, <1>3, <2>3, SignUpFacts DEF SignUpOK, SignUp!TypeOK, SignUp!Made
  <2>5. SignUpCallOK(r)'
    <3>1. CASE signUpReq[r].op = "edit"
      BY <2>1, <2>3, <3>1, SignUpFacts DEF SignUpCallOK
    <3>2. CASE signUpReq[r].op = "signup"
      <4>1. c = s /\ signUpReq'[r] = s
        BY <2>1, <2>3, <3>2
      <4> HIDE DEF u
      <4> QED
        BY <1>2, <1>3, <1>4, <2>4, <3>2, <4>1 DEF SignUpCallOK
    <3> QED
      BY <1>2, <3>1, <3>2
  <2>6. \A v \in SignUp!Made \ {u} : users[v].email # row.email
    BY <1>2, <1>3 DEF SignUpOK, SignUp!TypeOK
  <2>7. SignUp!Behind(row) => signUpReq[r].outdated
    BY <1>2, <1>3 DEF SignUp!Behind, SignUp!TextOf
  <2>8. /\ signUpReq[r].op = "signup" => c.op = "signup" /\ c.user = u
        /\ c.op = "signup" => signUpReq[r].op = "signup" /\ c.user = u
    BY <1>2, <1>4, <2>1, SignUpFacts
  <2> HIDE DEF u
  <2> QED
    BY <1>1, <1>2, <1>3, <1>6, <2>2, <2>5, <2>6, <2>7, <2>8, SignUpWrites DEF u
<1> QED
  BY <1>1, <1>5, <1>6
(* Every statement of a signup or an edit keeps SignUpOK. *)
LEMMA SignUpStep == SignUpOK /\ [SignUp!Next]_(SignUp!signUpVars) => SignUpOK'
<1> SUFFICES ASSUME SignUpOK, [SignUp!Next]_(SignUp!signUpVars) PROVE SignUpOK'
  OBVIOUS
<1> USE DEF SignUp!historyVars
<1>0. /\ signUpReq \in [Requests -> SignUp!Call] /\ users \in [SignUp!Ids -> SignUp!Row \cup {None}]
      /\ \A r \in Requests : signUpReq[r] \in SignUp!Call /\ SignUpCallOK(r)
      /\ prefs \subseteq SignUp!Made /\ halfmade \subseteq SignUp!Made \ prefs /\ torn \subseteq SignUp!Made
  BY DEF SignUpOK, SignUp!TypeOK
<1>1. ASSUME NEW r \in Requests, NEW n \in Names, NEW m \in Emails, SignUp!createUser(r, n, m)
      PROVE  SignUpOK'
  <2> DEFINE e == [name |-> n, email |-> m, search |-> None]
  <2>1. e \in SignUp!Row /\ e \in SignUp!Entity /\ SignUp!Begin(r, "signup", "insert", 0, e)
    BY <1>1 DEF SignUp!Row, SignUp!Entity, SignUp!createUser
  <2> HIDE DEF e
  <2> QED
    BY <2>1, SignUpBegin
<1>2. ASSUME NEW r \in Requests, NEW u \in SignUp!Ids, SignUp!updateUser(r, u) PROVE SignUpOK'
  <2>1. u \in SignUp!Made /\ users[u] \in SignUp!Row
    BY <1>0, <1>2 DEF SignUp!updateUser, SignUp!Made
  <2>2. PICK e \in SignUp!Entity : SignUp!Begin(r, "edit", "select", u, e)
    <3>1. PICK n \in Names \cup {None}, m \in Emails \cup {None} :
            SignUp!Begin(r, "edit", "select", u, [users[u] EXCEPT !.name = n, !.email = m])
      BY <1>2 DEF SignUp!updateUser
    <3>2. [users[u] EXCEPT !.name = n, !.email = m] \in SignUp!Entity
      BY <2>1 DEF SignUp!Row, SignUp!Entity
    <3> QED
      BY <3>1, <3>2
  <2> QED
    BY <2>1, <2>2, SignUpBegin
<1>3. ASSUME NEW r \in Requests, NEW u \in SignUp!Ids, SignUp!updateProfile(r, u) PROVE SignUpOK'
  <2>1. u \in SignUp!Made /\ users[u] \in SignUp!Entity
    BY <1>0, <1>3 DEF SignUp!updateProfile, SignUp!Made, SignUp!Row, SignUp!Entity
  <2> QED
    BY <1>3, <2>1, SignUpBegin DEF SignUp!updateProfile
<1>4. ASSUME NEW r \in Requests, SignUp!Insert(r) PROVE SignUpOK'
  BY <1>4, SignUpInserts
(* A call that goes on with its user *)
<1>5. ASSUME NEW r \in Requests, NEW c \in SignUp!Call, signUpReq' = [signUpReq EXCEPT ![r] = c],
             c.op = signUpReq[r].op, c.user = signUpReq[r].user, SignUpCallOK(r)',
             signUpReq[r].pc \in {"text", "write"} => c.pc \in {"text", "write"},
             UNCHANGED <<users, torn, halfmade>>, prefs \subseteq prefs', prefs' \subseteq SignUp!Made,
             halfmade \cap prefs' = {}
      PROVE  SignUpOK'
  <2>1. c.op = "signup" /\ c.user # 0 => Makes(r, c.user)
    BY <1>5 DEF Makes
  <2> QED
    BY <1>0, <1>5, <2>1, SignUpGoes
<1>6. ASSUME NEW r \in Requests, SignUp!SaveSelect(r) PROVE SignUpOK'
  <2> DEFINE e == signUpReq[r].entity
  <2> DEFINE undefined == {x \in {"name", "email"} : e[x] = None}
  <2> DEFINE k == {x \in SignUp!Columns \ undefined : e[x] # users[signUpReq[r].user][x]}
  <2> DEFINE f == [x \in SignUp!Columns |-> IF x \in k THEN e[x] ELSE None]
  <2> DEFINE c == [signUpReq[r] EXCEPT !.pc = "update", !.cols = k, !.entity = f]
  <2>1. /\ signUpReq[r].pc = "select" /\ signUpReq' = [signUpReq EXCEPT ![r] = c]
        /\ UNCHANGED <<users, prefs, halfmade, torn>>
    BY <1>6 DEF SignUp!SaveSelect
  <2>2. e \in SignUp!Entity /\ users[signUpReq[r].user] \in SignUp!Row
    BY <1>0, <2>1 DEF SignUpCallOK, SignUp!Made
  <2>3. /\ "name" \in k => e.name \in Names
        /\ "email" \in k => e.email \in Emails
        /\ e.search \in SignUp!Texts \cup {None}
    BY <2>2 DEF SignUp!Entity
  <2>4. e = users[signUpReq[r].user] => k = {}
    OBVIOUS
  <2>5. k \in SUBSET SignUp!Columns
    OBVIOUS
  <2>6. f = [name |-> IF "name" \in k THEN e.name ELSE None,
             email |-> IF "email" \in k THEN e.email ELSE None,
             search |-> IF "search" \in k THEN e.search ELSE None]
    BY DEF SignUp!Columns
  <2> HIDE DEF k, f
  <2>7. f \in SignUp!Entity
    BY <2>3, <2>6 DEF SignUp!Entity
  <2>8. /\ c \in SignUp!Call /\ c.pc = "update" /\ c.op = signUpReq[r].op /\ c.user = signUpReq[r].user
        /\ c.entity = f /\ c.cols = k /\ c.outdated = signUpReq[r].outdated
    BY <1>0, <2>5, <2>7 DEF SignUp!Call
  <2> HIDE DEF c
  <2>9. signUpReq'[r] = c /\ SignUp!Made' = SignUp!Made
    BY <1>0, <2>1 DEF SignUp!Made
  <2>10. SignUpCallOK(r)'
    <3>1. /\ c.op \in {"edit", "profile"} /\ c.user \in SignUp!Made
          /\ c.op = "profile" /\ ~c.outdated => k = {}
      BY <1>0, <2>1, <2>4, <2>8 DEF SignUpCallOK
    <3>2. /\ "name" \in c.cols => c.entity.name \in Names
          /\ "email" \in c.cols => c.entity.email \in Emails
          /\ "search" \in c.cols => c.entity.search \in SignUp!Texts \cup {None}
      BY <2>3, <2>6, <2>8
    <3> HIDE DEF e
    <3> QED
      BY <2>8, <2>9, <3>1, <3>2 DEF SignUpCallOK
  <2> QED
    BY <1>0, <1>5, <2>1, <2>8, <2>10
<1>7. ASSUME NEW r \in Requests, SignUp!SaveUpdate(r) PROVE SignUpOK'
  BY <1>7, SignUpSaves
<1>8. ASSUME NEW r \in Requests, SignUp!ReadText(r) PROVE SignUpOK'
  <2> DEFINE t == SignUp!TextOf(users[signUpReq[r].user])
  <2> DEFINE c == [signUpReq[r] EXCEPT !.pc = "write", !.text = t]
  <2>1. /\ signUpReq[r].pc = "text" /\ signUpReq' = [signUpReq EXCEPT ![r] = c]
        /\ UNCHANGED <<users, prefs, halfmade, torn>>
    BY <1>8 DEF SignUp!ReadText
  <2>2. users[signUpReq[r].user] \in SignUp!Row
    BY <1>0, <2>1 DEF SignUpCallOK, SignUp!Made
  <2>3. t \in SignUp!Texts
    BY <2>2 DEF SignUp!TextOf, SignUp!Texts, SignUp!Row
  <2> HIDE DEF t
  <2>4. /\ c \in SignUp!Call /\ c.pc = "write" /\ c.op = signUpReq[r].op /\ c.user = signUpReq[r].user
        /\ c.text = t /\ c.email = signUpReq[r].email /\ c.renamed = signUpReq[r].renamed
    BY <1>0, <2>3 DEF SignUp!Call
  <2> HIDE DEF c
  <2>5. signUpReq'[r] = c /\ SignUp!Made' = SignUp!Made
    BY <1>0, <2>1 DEF SignUp!Made
  <2>6. t = SignUp!TextOf(users[signUpReq[r].user])
    BY DEF t
  <2>7. SignUpCallOK(r)'
    BY <1>0, <2>1, <2>3, <2>4, <2>5, <2>6 DEF SignUpCallOK, SignUp!TextOf
  <2> QED
    BY <1>0, <1>5, <2>1, <2>4, <2>7
<1>9. ASSUME NEW r \in Requests, SignUp!WriteText(r) PROVE SignUpOK'
  BY <1>9, SignUpWritesText
<1>10. ASSUME NEW r \in Requests, NEW step \in {"default", "lookup"},
              signUpReq' = [signUpReq EXCEPT ![r].pc = step], signUpReq[r].pc \in {"find", "default"},
              UNCHANGED <<users, torn, halfmade>>, prefs \subseteq prefs', prefs' \subseteq SignUp!Made,
              halfmade \cap prefs' = {}, step = "lookup" => signUpReq[r].user \in prefs'
       PROVE  SignUpOK'
  <2> DEFINE c == [signUpReq[r] EXCEPT !.pc = step]
  <2>1. signUpReq' = [signUpReq EXCEPT ![r] = c]
    BY <1>10
  <2>2. /\ c \in SignUp!Call /\ c.pc = step /\ c.op = signUpReq[r].op /\ c.user = signUpReq[r].user
        /\ c.email = signUpReq[r].email /\ c.renamed = signUpReq[r].renamed
    BY <1>0 DEF SignUp!Call
  <2> HIDE DEF c
  <2>3. signUpReq'[r] = c /\ SignUp!Made' = SignUp!Made
    BY <1>0, <1>10, <2>1 DEF SignUp!Made
  <2>4. SignUpCallOK(r)'
    BY <1>0, <1>10, <2>2, <2>3 DEF SignUpCallOK
  <2> QED
    BY <1>0, <1>5, <1>10, <2>1, <2>2, <2>4
<1>11. ASSUME NEW r \in Requests, SignUp!FindPreferences(r) PROVE SignUpOK'
  <2>1. PICK step \in {"default", "lookup"} : /\ signUpReq' = [signUpReq EXCEPT ![r].pc = step]
                                              /\ step = "lookup" => signUpReq[r].user \in prefs
    BY <1>11 DEF SignUp!FindPreferences
  <2>2. signUpReq[r].pc = "find" /\ UNCHANGED <<users, prefs, halfmade, torn>>
    BY <1>11 DEF SignUp!FindPreferences
  <2> QED
    BY <1>0, <1>10, <2>1, <2>2
<1>12. ASSUME NEW r \in Requests, SignUp!InsertPreferences(r) PROVE SignUpOK'
  <2>1. CASE SignUp!Fail(r) /\ UNCHANGED prefs
    BY <1>12, <2>1, SignUpFails DEF SignUp!InsertPreferences
  <2>2. CASE ~(SignUp!Fail(r) /\ UNCHANGED prefs)
    <3>1. /\ signUpReq[r].pc = "default" /\ prefs' = prefs \cup {signUpReq[r].user}
          /\ signUpReq' = [signUpReq EXCEPT ![r].pc = "lookup"] /\ UNCHANGED <<users, torn, halfmade>>
      BY <1>12, <2>2 DEF SignUp!InsertPreferences
    <3>2. signUpReq[r].user \in SignUp!Made /\ Makes(r, signUpReq[r].user)
      BY <1>0, <3>1 DEF SignUpCallOK, Makes
    <3>3. signUpReq[r].user \notin halfmade
      BY <3>2 DEF SignUpOK, MakersOK
    <3> QED
      BY <1>0, <1>10, <3>1, <3>2, <3>3
  <2> QED
    BY <2>1, <2>2
<1>13. ASSUME NEW r \in Requests, SignUp!OpenSession(r) PROVE SignUpOK'
  <2>1. /\ signUpReq[r].pc = "lookup" /\ signUpReq' = [signUpReq EXCEPT ![r] = SignUp!Idle]
        /\ UNCHANGED <<users, prefs, halfmade, torn>> /\ signUpReq[r].user \in prefs
    BY <1>0, <1>13 DEF SignUp!OpenSession, SignUpCallOK
  <2>2. SignUpCallOK(r)'
    BY <1>0, <2>1, SignUpFacts DEF SignUpCallOK
  <2> QED
    BY <1>0, <2>1, <2>2, SignUpFacts, SignUpGoes
<1>14. ASSUME NEW u \in SignUp!Ids, SignUp!getPreferences(u) PROVE SignUpOK'
  <2>1. /\ u \in SignUp!Made /\ prefs' = prefs \cup {u} /\ halfmade' = halfmade \ {u}
        /\ UNCHANGED <<users, signUpReq, torn>>
    BY <1>14 DEF SignUp!getPreferences
  <2>2. SignUp!Made' = SignUp!Made
    BY <2>1 DEF SignUp!Made
  <2>3. ASSUME NEW r \in Requests PROVE SignUpCallOK(r)'
    BY <1>0, <2>1, <2>2 DEF SignUpCallOK, SignUp!TextOf
  <2>4. SignUp!TypeOK'
    BY <2>1, <2>2 DEF SignUpOK, SignUp!TypeOK
  <2>5. NumberedOK' /\ MakersOK' /\ PrefsOK'
    BY <2>1, <2>2 DEF SignUpOK, NumberedOK, MakersOK, PrefsOK, Makes
  <2>6. TextsOK'
    BY <2>1, <2>2 DEF SignUpOK, TextsOK, Refreshes, SignUp!Behind, SignUp!TextOf
  <2> QED
    BY <2>3, <2>4, <2>5, <2>6 DEF SignUpOK
<1>15. ASSUME NEW r \in Requests, SignUp!Die(r) PROVE SignUpOK'
  BY <1>15, SignUpFails DEF SignUp!Die
<1>16. CASE UNCHANGED SignUp!signUpVars
  <2>1. UNCHANGED <<users, prefs, signUpReq, halfmade, torn>> /\ SignUp!Made' = SignUp!Made
    BY <1>16 DEF SignUp!signUpVars, SignUp!Made
  <2>2. ASSUME NEW r \in Requests PROVE SignUpCallOK(r)'
    BY <1>0, <2>1 DEF SignUpCallOK, SignUp!TextOf
  <2>3. SignUp!TypeOK'
    BY <2>1 DEF SignUpOK, SignUp!TypeOK
  <2>4. NumberedOK' /\ MakersOK' /\ PrefsOK' /\ TextsOK'
    BY <2>1 DEF SignUpOK, NumberedOK, MakersOK, PrefsOK, Makes, TextsOK, Refreshes, SignUp!Behind, SignUp!TextOf
  <2> QED
    BY <2>2, <2>3, <2>4 DEF SignUpOK
<1> QED
  BY <1>1, <1>2, <1>3, <1>4, <1>6, <1>7, <1>8, <1>9, <1>11, <1>12, <1>13, <1>14, <1>15, <1>16
     DEF SignUp!Next, SignUp!Step

(* SignUpOK says what AccountsWhole promises, and why. *)
LEMMA SignUpWhole == SignUpOK => AccountsWhole
<1> SUFFICES ASSUME SignUpOK PROVE SignUp!AccountsWhole
  BY DEF AccountsWhole
<1>1. ASSUME NEW r \in Requests, signUpReq[r].pc = "lookup", ~signUpReq[r].renamed
      PROVE  SignUp!findByEmail(signUpReq[r].email) = {signUpReq[r].user}
  <2>1. signUpReq[r].user \in SignUp!Made /\ users[signUpReq[r].user].email = signUpReq[r].email
    BY <1>1 DEF SignUpOK, SignUpCallOK
  <2>2. \A u, v \in SignUp!Made : users[u].email = users[v].email => u = v
    BY DEF SignUpOK, SignUp!TypeOK
  <2> QED
    BY <2>1, <2>2 DEF SignUp!findByEmail
<1>2. \A u \in SignUp!Made \ prefs :
        u \in halfmade \/ \E r \in Requests : signUpReq[r].user = u /\ signUpReq[r].op = "signup"
  BY DEF SignUpOK, PrefsOK, Makes
<1>3. \A u \in SignUp!Made : users[u].search # SignUp!TextOf(users[u]) =>
        u \in torn \/ \E r \in Requests : signUpReq[r].user = u /\ signUpReq[r].pc \in {"text", "write"}
  BY DEF SignUpOK, TextsOK, Refreshes, SignUp!Behind
<1> QED
  BY <1>1, <1>2, <1>3 DEF SignUp!AccountsWhole

(* A signup's session is that of the account it made, unless the account's *)
(* e-mail changed before the signup looked it up.  An account has its      *)
(* preferences unless the call that makes it is still at it, failed or     *)
(* died; and its search text is that of its name and e-mail unless a call  *)
(* is about to write it, one failed or died before it could, or an         *)
(* outdated one wrote last.                                                *)
THEOREM WholeTheorem == SignUp!Spec => []AccountsWhole
  BY SignUpInit, SignUpStep, SignUpWhole, PTL DEF SignUp!Spec

-----------------------------------------------------------------------------
(***************************************************************************)
(* The three services beside one another                                   *)
(***************************************************************************)

(* Rows and calls of the three services keep their shape. *)
THEOREM AccountsTypes == AccountsSpec => []AccountsTypeOK
<1>1. AccountsInit => ShapeOK /\ RolesOK /\ SignUpOK
  BY ShapeInit, RolesInit, SignUpInit DEF AccountsInit
<1>2. [AccountsNext]_<<service, vars, roleVars, signUpVars>> =>
        [Next]_vars /\ [Roles!Next]_(Roles!vars) /\ [SignUp!Next]_(SignUp!signUpVars)
  BY DEF AccountsNext, roleVars, Roles!vars, signUpVars, SignUp!signUpVars, SignUp!historyVars
<1>3. ShapeOK /\ RolesOK /\ SignUpOK => AccountsTypeOK
  BY DEF ShapeOK, RolesOK, SignUpOK, AccountsTypeOK
<1> QED
  BY <1>1, <1>2, <1>3, ShapeStep, RolesStep, SignUpStep, PTL DEF AccountsSpec

(* Beside one another the services keep what each keeps alone.             *)
THEOREM AccountsSafe ==
  AccountsSpec => /\ [](SessionsFollowPassword /\ TokenUsedOnce /\ AdminRemains /\ AccountsWhole)
                  /\ RolesAreGiven
<1>1. AccountsInit => Init /\ Roles!Init /\ SignUp!Init
  BY DEF AccountsInit
<1>2. [AccountsNext]_<<service, vars, roleVars, signUpVars>> =>
        [Next]_vars /\ [Roles!Next]_(Roles!vars) /\ [SignUp!Next]_(SignUp!signUpVars)
  BY DEF AccountsNext, roleVars, Roles!vars, signUpVars, SignUp!signUpVars, SignUp!historyVars
<1>3. AccountsSpec => Spec /\ Roles!Spec /\ SignUp!Spec
  BY <1>1, <1>2, PTL DEF AccountsSpec, Spec, Roles!Spec, SignUp!Spec
<1> QED
  BY <1>3, SessionsTheorem, TokenTheorem, AdminTheorem, GivenTheorem, WholeTheorem, PTL
=============================================================================
