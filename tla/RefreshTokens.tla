--------------------------- MODULE RefreshTokens ---------------------------
(***************************************************************************)
(* Refresh-token sessions: TokenService and the session operations of      *)
(* AuthService, over the table refresh_tokens.                             *)
(*                                                                         *)
(* A row's columns are separate functions of its id.  The uuid familyId of *)
(* a new login is represented by the id of the token that login issues,    *)
(* which is as fresh as a random uuid.  Rotation (POST /auth/refresh) is   *)
(* the one operation with several database calls, so it is the one that    *)
(* runs in steps; every other operation makes a single UPDATE or INSERT    *)
(* (revokeSession's findOne reads only columns that never change) and is   *)
(* one action.  JWT expiry and the row's expiresAt are one instant here:   *)
(* both are fixed when the token is minted, less than a second apart.      *)
(***************************************************************************)
EXTENDS Naturals, FiniteSets

CONSTANTS
  Tokens,       \* ids of rows; the supply of fresh uuids
  Users,
  Requests,     \* POST /auth/refresh calls that may be in flight together
  MaxFailures,  \* bound on rotations cut short by an error or a crash
  MaxExpired,   \* bound on tokens that reach their expiry
  None          \* a NULL column

ASSUME NoneAssumption == None \notin Tokens \cup Users
ASSUME BoundsAssumption == MaxFailures \in Nat /\ MaxExpired \in Nat

VARIABLES
  userId, familyId, isRevoked, replacedByTokenId,  \* columns of a row
  expired,    \* tokens past their expiry
  delivered,  \* tokens whose raw JWT reached a client
  pc, tok, new,   \* per rotation: its next step, token shown, token minted
  \* History, read by properties only.
  parent,     \* the token a token was minted from
  burned,     \* families revoked by reuse detection
  loggedOut,  \* families revoked by a logout-all
  overtaken,  \* rotations past their read when their family was closed
  late,       \* tokens minted by an overtaken rotation, and what they became
  orphans,    \* tokens minted by a rotation that failed before its last step
  excused,    \* families that lost a token to a logout, an expiry or a lost answer
  failures    \* how many rotations failed

row   == <<userId, familyId, isRevoked, replacedByTokenId>>
calls == <<pc, tok, new>>
history == <<parent, burned, loggedOut, overtaken, late, orphans, excused, failures>>
vars == <<row, expired, delivered, calls, history>>

Steps == {"idle", "find", "mint", "retire", "burn", "lapse"}

Rows == {t \in Tokens : familyId[t] # None}

TypeOK ==
  /\ userId \in [Tokens -> Users \cup {None}]
  /\ familyId \in [Tokens -> Tokens \cup {None}]
  /\ isRevoked \in [Tokens -> BOOLEAN]
  /\ replacedByTokenId \in [Tokens -> Tokens \cup {None}]
  /\ expired \subseteq Tokens
  /\ delivered \subseteq Rows
  /\ pc \in [Requests -> Steps]
  /\ tok \in [Requests -> delivered \cup {None}]
  /\ new \in [Requests -> Rows \cup {None}]
  /\ parent \in [Tokens -> Tokens \cup {None}]
  /\ burned \subseteq Tokens
  /\ loggedOut \subseteq Tokens
  /\ overtaken \subseteq Requests
  /\ late \subseteq Tokens
  /\ orphans \subseteq Tokens
  /\ excused \subseteq Tokens
  /\ failures \in Nat
  /\ \A t \in Tokens : userId[t] = None <=> familyId[t] = None
  /\ \A r \in Requests : /\ pc[r] = "idle" <=> tok[r] = None
                         /\ pc[r] = "retire" <=> new[r] # None

Live(t) == t \in Rows /\ ~isRevoked[t]
Closed == burned \cup loggedOut
FamilyOf(r) == familyId[tok[r]]
FamiliesOf(u) == {familyId[t] : t \in {s \in Rows : userId[s] = u}}

Init ==
  /\ userId = [t \in Tokens |-> None]
  /\ familyId = [t \in Tokens |-> None]
  /\ isRevoked = [t \in Tokens |-> FALSE]
  /\ replacedByTokenId = [t \in Tokens |-> None]
  /\ expired = {} /\ delivered = {}
  /\ pc = [r \in Requests |-> "idle"]
  /\ tok = [r \in Requests |-> None]
  /\ new = [r \in Requests |-> None]
  /\ parent = [t \in Tokens |-> None]
  /\ burned = {} /\ loggedOut = {} /\ overtaken = {} /\ late = {} /\ orphans = {} /\ excused = {}
  /\ failures = 0

(* createTokenPair: sign both JWTs and insert the row of the refresh token *)
createTokenPair(t, u, f) ==
  /\ t \notin Rows
  /\ userId' = [userId EXCEPT ![t] = u]
  /\ familyId' = [familyId EXCEPT ![t] = f]
  /\ isRevoked' = [isRevoked EXCEPT ![t] = FALSE]
  /\ replacedByTokenId' = [replacedByTokenId EXCEPT ![t] = None]

(* The answer that carries the raw token t of family f reaches the client  *)
(* or is lost on the way.                                                  *)
Deliver(t, f) ==
  \/ delivered' = delivered \cup {t} /\ UNCHANGED excused
  \/ excused' = excused \cup {f} /\ UNCHANGED delivered

(* Signup and login: a pair in a family of its own *)
issueTokenPair(t, u) ==
  /\ createTokenPair(t, u, t)
  /\ Deliver(t, t)
  /\ UNCHANGED <<expired, calls, parent, burned, loggedOut, overtaken, late, orphans, failures>>

(* The WHERE clauses of the three revoking updates *)
revoke(S) == isRevoked' = [t \in Tokens |-> isRevoked[t] \/ t \in S]

revokeToken(t) == revoke({t})

\* Mutant: the update is not restricted to the user.
revokeAllUserTokens_Everybody(u) == revoke(Rows)

revokeAllUserTokens(u) == revoke({t \in Rows : userId[t] = u})
revokeFamilyTokens(f) == revoke({t \in Rows : familyId[t] = f})

(* One token is revoked on request or because it has expired. *)
EndOne(t) ==
  /\ revokeToken(t)
  /\ excused' = excused \cup {familyId[t]}
  /\ UNCHANGED <<parent, burned, loggedOut, overtaken, late, orphans, failures>>

(* What a revocation of whole families means to the history *)
Overtake(F) ==
  /\ overtaken' = overtaken \cup
       {r \in Requests : pc[r] = "mint" /\ FamilyOf(r) \in F}
  /\ UNCHANGED <<parent, late, orphans, excused, failures>>

(***************************************************************************)
(* Rotation, one action per database call                                  *)
(***************************************************************************)
\* Mutant: the minted token is kept for the next call.
Answer_KeepsNew(r) ==
  /\ pc' = [pc EXCEPT ![r] = "idle"]
  /\ tok' = [tok EXCEPT ![r] = None]
  /\ UNCHANGED new

Answer(r) ==
  /\ pc' = [pc EXCEPT ![r] = "idle"]
  /\ tok' = [tok EXCEPT ![r] = None]
  /\ new' = [new EXCEPT ![r] = None]

Goto(r, step) ==
  /\ pc' = [pc EXCEPT ![r] = step]
  /\ UNCHANGED <<tok, new>>

(* The JWT is verified on arrival; an expired one is refused at once. *)
Present(r, t) ==
  /\ pc[r] = "idle"
  /\ t \in delivered \ expired
  /\ pc' = [pc EXCEPT ![r] = "find"]
  /\ tok' = [tok EXCEPT ![r] = t]
  /\ UNCHANGED <<row, expired, delivered, new, history>>

\* Mutant: the revoked flag of the row is not looked at.
FindLive_AcceptsRevoked(r) ==
  /\ pc[r] = "find"
  /\ tok[r] \notin expired
  /\ Goto(r, "mint")
  /\ UNCHANGED <<row, expired, delivered, history>>

\* Mutant: the old token is revoked before the new one is stored.
FindLive_RevokesFirst(r) ==
  /\ pc[r] = "find"
  /\ ~isRevoked[tok[r]]
  /\ tok[r] \notin expired
  /\ revokeToken(tok[r])
  /\ Goto(r, "mint")
  /\ UNCHANGED <<userId, familyId, replacedByTokenId, expired, delivered, history>>

(* findOne: the row read here decides every later step.  The row exists    *)
(* and matches the claims: rows are never deleted, and the signed JWT      *)
(* carries the ids they were created with.                                 *)
FindLive(r) ==
  /\ pc[r] = "find"
  /\ ~isRevoked[tok[r]]
  /\ tok[r] \notin expired
  /\ Goto(r, "mint")
  /\ UNCHANGED <<row, expired, delivered, history>>

FindRevoked(r) ==
  /\ pc[r] = "find"
  /\ isRevoked[tok[r]]
  /\ Goto(r, "burn")
  /\ UNCHANGED <<row, expired, delivered, history>>

FindExpired(r) ==
  /\ pc[r] = "find"
  /\ ~isRevoked[tok[r]]
  /\ tok[r] \in expired
  /\ Goto(r, "lapse")
  /\ UNCHANGED <<row, expired, delivered, history>>

(* Reuse detection: the family is revoked, then the call is refused. *)
Burn(r) ==
  /\ pc[r] = "burn"
  /\ revokeFamilyTokens(FamilyOf(r))
  /\ burned' = burned \cup {FamilyOf(r)}
  /\ Overtake({FamilyOf(r)})
  /\ Answer(r)
  /\ UNCHANGED <<userId, familyId, replacedByTokenId, expired, delivered, loggedOut>>

Lapse(r) ==
  /\ pc[r] = "lapse"
  /\ EndOne(tok[r])
  /\ Answer(r)
  /\ UNCHANGED <<userId, familyId, replacedByTokenId, expired, delivered>>

(* The new pair is stored in the family of the old one... *)
Mint(r, t) ==
  /\ pc[r] = "mint"
  /\ createTokenPair(t, userId[tok[r]], FamilyOf(r))
  /\ pc' = [pc EXCEPT ![r] = "retire"]
  /\ new' = [new EXCEPT ![r] = t]
  /\ parent' = [parent EXCEPT ![t] = tok[r]]
  /\ late' = IF r \in overtaken \/ tok[r] \in late THEN late \cup {t} ELSE late
  /\ overtaken' = overtaken \ {r}
  /\ UNCHANGED <<expired, delivered, tok, burned, loggedOut, orphans, excused, failures>>

\* Mutant: the old token is linked to the new one but stays valid.
Retire_StaysValid(r) ==
  /\ pc[r] = "retire"
  /\ replacedByTokenId' = [replacedByTokenId EXCEPT ![tok[r]] = new[r]]
  /\ Deliver(new[r], FamilyOf(r))
  /\ Answer(r)
  /\ UNCHANGED <<userId, familyId, isRevoked, expired, parent, burned, loggedOut, overtaken, late, orphans, failures>>

(* ...then the old one is revoked and linked to it, whatever its row holds *)
(* by now; the answer may be lost.                                         *)
Retire(r) ==
  /\ pc[r] = "retire"
  /\ isRevoked' = [isRevoked EXCEPT ![tok[r]] = TRUE]
  /\ replacedByTokenId' = [replacedByTokenId EXCEPT ![tok[r]] = new[r]]
  /\ Deliver(new[r], FamilyOf(r))
  /\ Answer(r)
  /\ UNCHANGED <<userId, familyId, expired, parent, burned, loggedOut, overtaken, late, orphans, failures>>

(* A database error or a crash between two calls: nothing is undone. *)
Fail(r) ==
  /\ pc[r] # "idle"
  /\ failures < MaxFailures
  /\ failures' = failures + 1
  /\ orphans' = IF pc[r] = "retire" THEN orphans \cup {new[r]} ELSE orphans
  /\ overtaken' = overtaken \ {r}
  /\ Answer(r)
  /\ UNCHANGED <<row, expired, delivered, parent, burned, loggedOut, late, excused>>

(***************************************************************************)
(* The other session operations                                            *)
(***************************************************************************)

(* POST /auth/logout: an expired token decodes to null and nothing happens *)
logout(t) ==
  /\ t \in delivered \ expired
  /\ EndOne(t)
  /\ UNCHANGED <<userId, familyId, replacedByTokenId, expired, delivered, calls>>

(* DELETE /auth/sessions/:id, any row of the caller *)
revokeSession(t, u) ==
  /\ t \in Rows /\ userId[t] = u
  /\ EndOne(t)
  /\ UNCHANGED <<userId, familyId, replacedByTokenId, expired, delivered, calls>>

(* POST /auth/logout-all, and every password change *)
logoutAll(u) ==
  /\ revokeAllUserTokens(u)
  /\ loggedOut' = loggedOut \cup FamiliesOf(u)
  /\ Overtake(FamiliesOf(u))
  /\ UNCHANGED <<userId, familyId, replacedByTokenId, expired, delivered, calls, burned>>

(* Seven days pass for a token. *)
Expire(t) ==
  /\ t \in Rows \ expired
  /\ Cardinality(expired) < MaxExpired
  /\ expired' = expired \cup {t}
  /\ UNCHANGED <<row, delivered, calls, history>>

Rotation(r) ==
  \/ FindLive(r) \/ FindRevoked(r) \/ FindExpired(r)
  \/ Burn(r) \/ Lapse(r) \/ Retire(r)
  \/ \E t \in Tokens : Mint(r, t)

Next ==
  \/ \E t \in Tokens, u \in Users : issueTokenPair(t, u) \/ revokeSession(t, u)
  \/ \E r \in Requests, t \in Tokens : Present(r, t)
  \/ \E r \in Requests : Rotation(r) \/ Fail(r)
  \/ \E t \in Tokens : logout(t) \/ Expire(t)
  \/ \E u \in Users : logoutAll(u)

Spec == Init /\ [][Next]_vars

-----------------------------------------------------------------------------
(***************************************************************************)
(* Properties                                                              *)
(***************************************************************************)

(* A row's replacedByTokenId always leads to an existing token minted from *)
(* that very row, of the same user and device family, and only a revoked   *)
(* row has one: reuse detection walks families, so a child that left its   *)
(* family would escape it.                                                 *)
ReplacementInFamily ==
  \A t \in Rows : replacedByTokenId[t] # None =>
    LET c == replacedByTokenId[t] IN
      /\ isRevoked[t]
      /\ parent[c] = t
      /\ familyId[c] = familyId[t]
      /\ userId[c] = userId[t]

(* A token and one minted from it are live together only while the         *)
(* rotation that minted it has its last update to make, or because that    *)
(* rotation failed before it.                                              *)
ParentRetired ==
  \A c \in Rows : parent[c] # None /\ Live(parent[c]) =>
    \/ c \in orphans
    \/ \E r \in Requests : pc[r] = "retire" /\ new[r] = c /\ tok[r] = parent[c]

(* After reuse detection, a logout-all or a password change has closed a   *)
(* family, its only live tokens come from a rotation that had read its     *)
(* token before the closing update ran: no token known then is accepted.   *)
ClosedButForOvertaken ==
  \A t \in Tokens : Live(t) /\ familyId[t] \in Closed => t \in late

(* The new row is stored before the old one is revoked, so neither an      *)
(* overlap of rotations nor a failure between their calls costs a client   *)
(* its session: a family nobody closed, logged out of, or lost an answer   *)
(* of still has a live token in the client's hands.                        *)
SessionKept ==
  \A f \in Tokens : familyId[f] = f /\ f \notin Closed \cup excused =>
    \E t \in delivered : Live(t) /\ familyId[t] = f

(* What the comment in rotateRefreshToken says of reuse detection: the     *)
(* entire family is revoked, so nothing in it lives on.                    *)
ReuseRevokesEntireFamily ==
  \A t \in Tokens : Live(t) => familyId[t] \notin burned

(***************************************************************************)
(* The service implements Sessions: the family of a login is its session,  *)
(* open while a row of it is live.                                         *)
(***************************************************************************)
sessionUser == [f \in Tokens |-> IF familyId[f] = f THEN userId[f] ELSE None]
openFamilies == {familyId[t] : t \in {s \in Rows : ~isRevoked[s]}}
renewedFamilies == {FamilyOf(r) : r \in {q \in Requests : pc[q] = "mint"}}

Abstract == INSTANCE Sessions WITH Families <- Tokens, user <- sessionUser,
  open <- openFamilies, renewing <- renewedFamilies

(* Whatever calls overlap or fail, a family whose tokens are all revoked   *)
(* comes back only through a rotation that read a live token of it, and no *)
(* call ends a family of a user other than its caller's.                   *)
SessionsImplemented == Abstract!Spec
=============================================================================
