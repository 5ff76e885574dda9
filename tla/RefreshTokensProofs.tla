------------------------ MODULE RefreshTokensProofs ------------------------
(***************************************************************************)
(* Proofs about RefreshTokens for any number of tokens, users and          *)
(* rotations in flight.                                                    *)
(***************************************************************************)
EXTENDS RefreshTokens, TLAPS

(* A revoking update leaves a Boolean flag in every row and clears none.   *)
LEMMA RevokeFlags ==
  ASSUME isRevoked \in [Tokens -> BOOLEAN], NEW S, revoke(S)
  PROVE  /\ isRevoked' \in [Tokens -> BOOLEAN]
         /\ \A t \in Tokens : isRevoked'[t] <=> isRevoked[t] \/ t \in S
  BY Zenon DEF revoke

(* The state is well formed in every behaviour of the token service.       *)
THEOREM TypeCorrect == Spec => []TypeOK
<1>1. Init => TypeOK
  BY NoneAssumption DEF Init, TypeOK, Steps, Rows
<1>2. TypeOK /\ [Next]_vars => TypeOK'
  <2> SUFFICES ASSUME TypeOK, [Next]_vars PROVE TypeOK'
    OBVIOUS
  <2> USE NoneAssumption DEF TypeOK, Steps, row, calls, history, Rows
  <2>1. ASSUME NEW t \in Tokens, NEW u \in Users, issueTokenPair(t, u) PROVE TypeOK'
    BY <2>1 DEF issueTokenPair, createTokenPair, Deliver
  <2>2. ASSUME NEW t \in Tokens, NEW u \in Users, revokeSession(t, u) PROVE TypeOK'
    BY <2>2, RevokeFlags DEF revokeSession, EndOne, revokeToken
  <2>3. ASSUME NEW r \in Requests, NEW t \in Tokens, Present(r, t) PROVE TypeOK'
    BY <2>3 DEF Present
  <2>4. ASSUME NEW r \in Requests, FindLive(r) PROVE TypeOK'
    BY <2>4 DEF FindLive, Goto
  <2>5. ASSUME NEW r \in Requests, FindRevoked(r) PROVE TypeOK'
    BY <2>5 DEF FindRevoked, Goto
  <2>6. ASSUME NEW r \in Requests, FindExpired(r) PROVE TypeOK'
    BY <2>6 DEF FindExpired, Goto
  <2>7. ASSUME NEW r \in Requests, Burn(r) PROVE TypeOK'
    BY <2>7, RevokeFlags DEF Burn, Answer, revokeFamilyTokens, Overtake, FamilyOf
  <2>8. ASSUME NEW r \in Requests, Lapse(r) PROVE TypeOK'
    BY <2>8, RevokeFlags DEF Lapse, Answer, EndOne, revokeToken
  <2>9. ASSUME NEW r \in Requests, Retire(r) PROVE TypeOK'
    BY <2>9 DEF Retire, Answer, Deliver, FamilyOf
  <2>10. ASSUME NEW r \in Requests, NEW t \in Tokens, Mint(r, t) PROVE TypeOK'
    BY <2>10 DEF Mint, createTokenPair, FamilyOf
  <2>11. ASSUME NEW r \in Requests, Fail(r) PROVE TypeOK'
    BY <2>11 DEF Fail, Answer
  <2>12. ASSUME NEW t \in Tokens, logout(t) PROVE TypeOK'
    BY <2>12, RevokeFlags DEF logout, EndOne, revokeToken
  <2>13. ASSUME NEW t \in Tokens, Expire(t) PROVE TypeOK'
    BY <2>13 DEF Expire
  <2>14. ASSUME NEW u \in Users, logoutAll(u) PROVE TypeOK'
    BY <2>14, RevokeFlags DEF logoutAll, revokeAllUserTokens, Overtake, FamiliesOf, FamilyOf
  <2>15. CASE UNCHANGED vars
    BY <2>15 DEF vars
  <2>16. QED
    BY <2>1, <2>2, <2>3, <2>4, <2>5, <2>6, <2>7, <2>8, <2>9, <2>10, <2>11,
       <2>12, <2>13, <2>14, <2>15 DEF Next, Rotation
<1>3. QED
  BY <1>1, <1>2, PTL DEF Spec

(* How rows and calls hang together: families are rows, a minted token     *)
(* shares user and family with its parent, and what a rotation has minted  *)
(* but not yet answered is known to that rotation only.                    *)
Linked ==
  /\ \A t \in Rows : /\ familyId[t] \in Rows /\ userId[familyId[t]] = userId[t]
                     /\ familyId[familyId[t]] = familyId[t]
  /\ \A t \in Tokens : parent[t] # None =>
       /\ t \in Rows /\ parent[t] \in Rows
       /\ familyId[t] = familyId[parent[t]]
       /\ userId[t] = userId[parent[t]]
  /\ \A r \in Requests : pc[r] = "retire" =>
       /\ new[r] \notin delivered
       /\ parent[new[r]] = tok[r]
  /\ \A r, s \in Requests : pc[r] = "retire" /\ pc[s] = "retire" /\ new[r] = new[s] => r = s

(* Linked is an invariant, by induction relative to TypeOK. *)
LEMMA LinkedInv == Spec => []Linked
<1>1. Init => Linked
  BY DEF Init, Linked, Rows
<1>2. TypeOK /\ Linked /\ [Next]_vars => Linked'
  <2> SUFFICES ASSUME TypeOK, Linked, [Next]_vars PROVE Linked'
    OBVIOUS
  <2> USE NoneAssumption DEF TypeOK, Steps, row, calls, history, Rows, Linked
  <2>1. ASSUME NEW t \in Tokens, NEW u \in Users, issueTokenPair(t, u) PROVE Linked'
    BY <2>1 DEF issueTokenPair, createTokenPair, Deliver
  <2>2. ASSUME NEW t \in Tokens, NEW u \in Users, revokeSession(t, u) PROVE Linked'
    BY <2>2 DEF revokeSession, EndOne
  <2>3. ASSUME NEW r \in Requests, NEW t \in Tokens, Present(r, t) PROVE Linked'
    BY <2>3 DEF Present
  <2>4. ASSUME NEW r \in Requests, FindLive(r) \/ FindRevoked(r) \/ FindExpired(r) PROVE Linked'
    BY <2>4 DEF FindLive, FindRevoked, FindExpired, Goto
  <2>5. ASSUME NEW r \in Requests, Burn(r) PROVE Linked'
    BY <2>5 DEF Burn, Answer, Overtake
  <2>6. ASSUME NEW r \in Requests, Lapse(r) PROVE Linked'
    BY <2>6 DEF Lapse, Answer, EndOne
  <2>7. ASSUME NEW r \in Requests, Retire(r) PROVE Linked'
    BY <2>7 DEF Retire, Answer, Deliver
  <2>8. ASSUME NEW r \in Requests, NEW t \in Tokens, Mint(r, t) PROVE Linked'
    BY <2>8 DEF Mint, createTokenPair, FamilyOf
  <2>9. ASSUME NEW r \in Requests, Fail(r) PROVE Linked'
    BY <2>9 DEF Fail, Answer
  <2>10. ASSUME NEW t \in Tokens, logout(t) \/ Expire(t) PROVE Linked'
    BY <2>10 DEF logout, EndOne, Expire
  <2>11. ASSUME NEW u \in Users, logoutAll(u) PROVE Linked'
    BY <2>11 DEF logoutAll, Overtake
  <2>12. CASE UNCHANGED vars
    BY <2>12 DEF vars
  <2>13. QED
    BY <2>1, <2>2, <2>3, <2>4, <2>5, <2>6, <2>7, <2>8, <2>9, <2>10, <2>11,
       <2>12 DEF Next, Rotation
<1>3. QED
  BY <1>1, <1>2, TypeCorrect, PTL DEF Spec

(* Every recorded replacement stays inside its family, for any number of   *)
(* overlapping rotations, failures and revocations.                        *)
THEOREM ReplacementTheorem == Spec => []ReplacementInFamily
<1>1. Init => ReplacementInFamily
  BY DEF Init, ReplacementInFamily, Rows
<1>2. TypeOK /\ Linked /\ ReplacementInFamily /\ [Next]_vars => ReplacementInFamily'
  <2> SUFFICES ASSUME TypeOK, Linked, ReplacementInFamily, [Next]_vars
               PROVE  ReplacementInFamily'
    OBVIOUS
  <2> USE NoneAssumption DEF TypeOK, Steps, row, calls, history, Rows, Linked, ReplacementInFamily
  <2>1. ASSUME NEW t \in Tokens, NEW u \in Users, issueTokenPair(t, u)
        PROVE  ReplacementInFamily'
    BY <2>1 DEF issueTokenPair, createTokenPair
  <2>2. ASSUME NEW S \in SUBSET Tokens, revoke(S),
               UNCHANGED <<userId, familyId, replacedByTokenId, parent>>
        PROVE  ReplacementInFamily'
    BY <2>2, RevokeFlags
  <2>3. ASSUME NEW r \in Requests, NEW t \in Tokens, Present(r, t)
        PROVE  ReplacementInFamily'
    BY <2>3 DEF Present
  <2>4. ASSUME NEW r \in Requests, FindLive(r) \/ FindRevoked(r) \/ FindExpired(r) \/ Fail(r)
        PROVE  ReplacementInFamily'
    BY <2>4 DEF FindLive, FindRevoked, FindExpired, Fail
  <2>5. ASSUME NEW r \in Requests, Burn(r) PROVE ReplacementInFamily'
    BY <2>2, <2>5 DEF Burn, revokeFamilyTokens, Overtake
  <2>6. ASSUME NEW r \in Requests, Lapse(r) PROVE ReplacementInFamily'
    BY <2>2, <2>6 DEF Lapse, EndOne, revokeToken
  <2>7. ASSUME NEW r \in Requests, Retire(r) PROVE ReplacementInFamily'
    BY <2>7 DEF Retire
  <2>8. ASSUME NEW r \in Requests, NEW t \in Tokens, Mint(r, t) PROVE ReplacementInFamily'
    BY <2>8 DEF Mint, createTokenPair, FamilyOf
  <2>9. ASSUME NEW t \in Tokens, logout(t) PROVE ReplacementInFamily'
    BY <2>2, <2>9 DEF logout, EndOne, revokeToken
  <2>10. ASSUME NEW t \in Tokens, NEW u \in Users, revokeSession(t, u) PROVE ReplacementInFamily'
    BY <2>2, <2>10 DEF revokeSession, EndOne, revokeToken
  <2>11. ASSUME NEW u \in Users, logoutAll(u) PROVE ReplacementInFamily'
    BY <2>2, <2>11 DEF logoutAll, revokeAllUserTokens, Overtake
  <2>12. ASSUME NEW t \in Tokens, Expire(t) PROVE ReplacementInFamily'
    BY <2>12 DEF Expire
  <2>13. CASE UNCHANGED vars
    BY <2>13 DEF vars
  <2>14. QED
    BY <2>1, <2>3, <2>4, <2>5, <2>6, <2>7, <2>8, <2>9, <2>10, <2>11, <2>12,
       <2>13 DEF Next, Rotation
<1>3. QED
  BY <1>1, <1>2, TypeCorrect, LinkedInv, PTL DEF Spec

(* A parent and its child are live together only during, or because of the *)
(* failure of, the rotation that minted the child.                         *)
THEOREM ParentRetiredTheorem == Spec => []ParentRetired
<1>1. Init => ParentRetired
  BY DEF Init, ParentRetired, Rows
<1>2. TypeOK /\ Linked /\ ParentRetired /\ [Next]_vars => ParentRetired'
  <2> SUFFICES ASSUME TypeOK, Linked, ParentRetired, [Next]_vars PROVE ParentRetired'
    OBVIOUS
  <2> USE NoneAssumption DEF TypeOK, Steps, row, calls, history, Rows, Live, Linked, ParentRetired
  <2>1. ASSUME NEW t \in Tokens, NEW u \in Users, issueTokenPair(t, u) PROVE ParentRetired'
    BY <2>1 DEF issueTokenPair, createTokenPair
  <2>2. ASSUME NEW S \in SUBSET Tokens, revoke(S), UNCHANGED <<familyId, parent, orphans>>,
               \A r \in Requests : pc[r] = "retire" => UNCHANGED <<pc[r], tok[r], new[r]>>
        PROVE  ParentRetired'
    BY <2>2, RevokeFlags
  <2>3. ASSUME NEW r \in Requests, NEW t \in Tokens, Present(r, t) PROVE ParentRetired'
    BY <2>3 DEF Present
  <2>4. ASSUME NEW r \in Requests, FindLive(r) \/ FindRevoked(r) \/ FindExpired(r)
        PROVE  ParentRetired'
    BY <2>4 DEF FindLive, FindRevoked, FindExpired, Goto
  <2>5. ASSUME NEW r \in Requests, Burn(r) PROVE ParentRetired'
    BY <2>2, <2>5 DEF Burn, revokeFamilyTokens, Overtake, Answer
  <2>6. ASSUME NEW r \in Requests, Lapse(r) PROVE ParentRetired'
    BY <2>2, <2>6 DEF Lapse, EndOne, revokeToken, Answer
  <2>7. ASSUME NEW r \in Requests, Retire(r) PROVE ParentRetired'
    BY <2>7 DEF Retire, Answer
  <2>8. ASSUME NEW r \in Requests, NEW t \in Tokens, Mint(r, t) PROVE ParentRetired'
    BY <2>8 DEF Mint, createTokenPair, FamilyOf
  <2>9. ASSUME NEW r \in Requests, Fail(r) PROVE ParentRetired'
    BY <2>9 DEF Fail, Answer
  <2>10. ASSUME NEW t \in Tokens, logout(t) PROVE ParentRetired'
    BY <2>2, <2>10 DEF logout, EndOne, revokeToken
  <2>11. ASSUME NEW t \in Tokens, NEW u \in Users, revokeSession(t, u) PROVE ParentRetired'
    BY <2>2, <2>11 DEF revokeSession, EndOne, revokeToken
  <2>12. ASSUME NEW u \in Users, logoutAll(u) PROVE ParentRetired'
    BY <2>2, <2>12 DEF logoutAll, revokeAllUserTokens, Overtake
  <2>13. ASSUME NEW t \in Tokens, Expire(t) PROVE ParentRetired'
    BY <2>13 DEF Expire
  <2>14. CASE UNCHANGED vars
    BY <2>14 DEF vars
  <2>15. QED
    BY <2>1, <2>3, <2>4, <2>5, <2>6, <2>7, <2>8, <2>9, <2>10, <2>11, <2>12,
       <2>13, <2>14 DEF Next, Rotation
<1>3. QED
  BY <1>1, <1>2, TypeCorrect, LinkedInv, PTL DEF Spec

(* ClosedButForOvertaken with what makes it inductive: a rotation about to *)
(* mint into a closed family was overtaken, or shows a late token itself.  *)
ClosedInv ==
  /\ ClosedButForOvertaken
  /\ Closed \subseteq Rows
  /\ \A r \in Requests : pc[r] = "mint" /\ FamilyOf(r) \in Closed =>
       r \in overtaken \/ tok[r] \in late

(* Reuse detection and logout-all leave nothing alive but what overtaken   *)
(* rotations store, for any number of them.                                *)
THEOREM ClosedTheorem == Spec => []ClosedButForOvertaken
<1>1. Init => ClosedInv
  BY DEF Init, ClosedInv, ClosedButForOvertaken, Closed, Live, Rows
<1>2. TypeOK /\ Linked /\ ClosedInv /\ [Next]_vars => ClosedInv'
  <2> SUFFICES ASSUME TypeOK, Linked, ClosedInv, [Next]_vars PROVE ClosedInv'
    OBVIOUS
  <2> USE NoneAssumption DEF TypeOK, Steps, row, calls, history, Rows, Live, Closed,
                             FamilyOf, Linked, ClosedInv, ClosedButForOvertaken
  <2>1. ASSUME NEW t \in Tokens, NEW u \in Users, issueTokenPair(t, u) PROVE ClosedInv'
    BY <2>1 DEF issueTokenPair, createTokenPair
  <2>2. ASSUME NEW S \in SUBSET Tokens, revoke(S),
               UNCHANGED <<familyId, burned, loggedOut, overtaken, late>>,
               \A r \in Requests : pc'[r] = "mint" => UNCHANGED <<pc[r], tok[r]>>
        PROVE  ClosedInv'
    BY <2>2, RevokeFlags
  <2>3. ASSUME NEW r \in Requests, NEW t \in Tokens, Present(r, t) PROVE ClosedInv'
    BY <2>3 DEF Present
  <2>4. ASSUME NEW r \in Requests, FindLive(r) \/ FindRevoked(r) \/ FindExpired(r)
        PROVE  ClosedInv'
    BY <2>4 DEF FindLive, FindRevoked, FindExpired, Goto
  <2>5. ASSUME NEW r \in Requests, Burn(r) PROVE ClosedInv'
    BY <2>5, RevokeFlags DEF Burn, revokeFamilyTokens, Overtake, Answer
  <2>6. ASSUME NEW r \in Requests, Lapse(r) PROVE ClosedInv'
    BY <2>2, <2>6 DEF Lapse, EndOne, revokeToken, Answer
  <2>7. ASSUME NEW r \in Requests, Retire(r) PROVE ClosedInv'
    BY <2>7 DEF Retire, Answer
  <2>8. ASSUME NEW r \in Requests, NEW t \in Tokens, Mint(r, t) PROVE ClosedInv'
    BY <2>8 DEF Mint, createTokenPair
  <2>9. ASSUME NEW r \in Requests, Fail(r) PROVE ClosedInv'
    BY <2>9 DEF Fail, Answer
  <2>10. ASSUME NEW t \in Tokens, logout(t) PROVE ClosedInv'
    BY <2>2, <2>10 DEF logout, EndOne, revokeToken
  <2>11. ASSUME NEW t \in Tokens, NEW u \in Users, revokeSession(t, u) PROVE ClosedInv'
    BY <2>2, <2>11 DEF revokeSession, EndOne, revokeToken
  <2>12. ASSUME NEW u \in Users, logoutAll(u) PROVE ClosedInv'
    BY <2>12, RevokeFlags DEF logoutAll, revokeAllUserTokens, Overtake, FamiliesOf
  <2>13. ASSUME NEW t \in Tokens, Expire(t) PROVE ClosedInv'
    BY <2>13 DEF Expire
  <2>14. CASE UNCHANGED vars
    BY <2>14 DEF vars
  <2>15. QED
    BY <2>1, <2>3, <2>4, <2>5, <2>6, <2>7, <2>8, <2>9, <2>10, <2>11, <2>12,
       <2>13, <2>14 DEF Next, Rotation
<1>3. QED
  BY <1>1, <1>2, TypeCorrect, LinkedInv, PTL DEF Spec, ClosedInv

(* SessionKept with what makes it inductive: a token minted in an open     *)
(* family is still live when its rotation retires the old one.             *)
KeptInv ==
  /\ SessionKept
  /\ \A r \in Requests : pc[r] = "retire" /\ FamilyOf(r) \notin Closed \cup excused =>
       Live(new[r])

(* Neither overlapping rotations nor a failure between their calls costs a *)
(* client its session.                                                     *)
THEOREM SessionKeptTheorem == Spec => []SessionKept
<1>1. Init => KeptInv
  BY NoneAssumption DEF Init, KeptInv, SessionKept
<1>2. TypeOK /\ Linked /\ KeptInv /\ [Next]_vars => KeptInv'
  <2> SUFFICES ASSUME TypeOK, Linked, KeptInv, [Next]_vars PROVE KeptInv'
    OBVIOUS
  <2> USE NoneAssumption DEF TypeOK, Steps, row, calls, history, Rows, Live, Closed,
                             FamilyOf, Linked, KeptInv, SessionKept
  <2>1. ASSUME NEW t \in Tokens, NEW u \in Users, issueTokenPair(t, u) PROVE KeptInv'
    BY <2>1 DEF issueTokenPair, createTokenPair, Deliver
  <2>2. ASSUME NEW t \in Rows, EndOne(t),
               UNCHANGED <<userId, familyId, delivered>>,
               \A r \in Requests : pc'[r] = "retire" => UNCHANGED <<pc[r], tok[r], new[r]>>
        PROVE  KeptInv'
    BY <2>2, RevokeFlags DEF EndOne, revokeToken
  <2>3. ASSUME NEW r \in Requests, NEW t \in Tokens, Present(r, t) PROVE KeptInv'
    BY <2>3 DEF Present
  <2>4. ASSUME NEW r \in Requests, FindLive(r) \/ FindRevoked(r) \/ FindExpired(r)
        PROVE  KeptInv'
    BY <2>4 DEF FindLive, FindRevoked, FindExpired, Goto
  <2>5. ASSUME NEW r \in Requests, Burn(r) PROVE KeptInv'
    BY <2>5, RevokeFlags DEF Burn, revokeFamilyTokens, Overtake, Answer
  <2>6. ASSUME NEW r \in Requests, Lapse(r) PROVE KeptInv'
    BY <2>2, <2>6 DEF Lapse, Answer
  <2>7. ASSUME NEW r \in Requests, Retire(r) PROVE KeptInv'
    <3>1. \A q \in Requests : pc'[q] = "retire" => UNCHANGED <<pc[q], tok[q], new[q]>>
      BY <2>7 DEF Retire, Answer
    <3>2. \A q \in Requests : pc'[q] = "retire" => new[q] # tok[r]
      BY <2>7, <3>1 DEF Retire
    <3>3. \A f \in Tokens : familyId'[f] = f /\ f \notin (Closed \cup excused)' =>
            \E t \in delivered' : Live(t)' /\ familyId'[t] = f
      BY <2>7 DEF Retire, Deliver
    <3>4. QED
      BY <2>7, <3>1, <3>2, <3>3 DEF Retire, Deliver
  <2>8. ASSUME NEW r \in Requests, NEW t \in Tokens, Mint(r, t) PROVE KeptInv'
    BY <2>8 DEF Mint, createTokenPair
  <2>9. ASSUME NEW r \in Requests, Fail(r) PROVE KeptInv'
    BY <2>9 DEF Fail, Answer
  <2>10. ASSUME NEW t \in Tokens, logout(t) PROVE KeptInv'
    BY <2>2, <2>10 DEF logout
  <2>11. ASSUME NEW t \in Tokens, NEW u \in Users, revokeSession(t, u) PROVE KeptInv'
    BY <2>2, <2>11 DEF revokeSession
  <2>12. ASSUME NEW u \in Users, logoutAll(u) PROVE KeptInv'
    BY <2>12, RevokeFlags DEF logoutAll, revokeAllUserTokens, Overtake, FamiliesOf
  <2>13. ASSUME NEW t \in Tokens, Expire(t) PROVE KeptInv'
    BY <2>13 DEF Expire
  <2>14. CASE UNCHANGED vars
    BY <2>14 DEF vars
  <2>15. QED
    BY <2>1, <2>3, <2>4, <2>5, <2>6, <2>7, <2>8, <2>9, <2>10, <2>11, <2>12,
       <2>13, <2>14 DEF Next, Rotation
<1>3. QED
  BY <1>1, <1>2, TypeCorrect, LinkedInv, PTL DEF Spec, KeptInv

(* Revoking rows of one user is a step of Sessions: it ends sessions of    *)
(* that user, or none.                                                     *)
LEMMA RevokingEnds ==
  ASSUME TypeOK, Linked, NEW u \in Users, NEW S \in SUBSET Rows,
         \A t \in S : userId[t] = u,
         revoke(S), UNCHANGED <<userId, familyId>>, UNCHANGED renewedFamilies
  PROVE  [Abstract!Next]_Abstract!sessionVars
<1> USE DEF TypeOK, Linked, Rows
<1>1. UNCHANGED sessionUser
  BY DEF sessionUser
<1>2. openFamilies' \subseteq openFamilies
  BY RevokeFlags DEF openFamilies
<1>3. \A f \in openFamilies \ openFamilies' : sessionUser[f] = u
  <2> SUFFICES ASSUME NEW t \in Rows, ~isRevoked[t], familyId[t] \notin openFamilies'
               PROVE  sessionUser[familyId[t]] = u
    BY DEF openFamilies
  <2>1. t \in S
    BY RevokeFlags DEF openFamilies
  <2>2. familyId[t] \in Tokens /\ userId[familyId[t]] = u
    BY <2>1
  <2> QED
    BY <2>1, <2>2 DEF sessionUser
<1>4. CASE openFamilies' = openFamilies
  BY <1>1, <1>4 DEF Abstract!sessionVars
<1>5. CASE openFamilies' # openFamilies
  BY <1>1, <1>2, <1>3, <1>5 DEF Abstract!Next, Abstract!End
<1> QED
  BY <1>4, <1>5

(* The service implements Sessions, for any number of tokens, users and    *)
(* rotations in flight.                                                    *)
THEOREM SessionsTheorem == Spec => SessionsImplemented
<1>1. Init => Abstract!Init
  BY DEF Init, Abstract!Init, sessionUser, openFamilies, renewedFamilies, Rows
<1>2. TypeOK /\ Linked /\ [Next]_vars => [Abstract!Next]_Abstract!sessionVars
  <2> SUFFICES ASSUME TypeOK, Linked, [Next]_vars PROVE [Abstract!Next]_Abstract!sessionVars
    OBVIOUS
  <2> USE NoneAssumption DEF TypeOK, Steps, row, calls, history, Rows, Linked
  <2>1. ASSUME NEW t \in Tokens, NEW u \in Users, issueTokenPair(t, u)
        PROVE  [Abstract!Next]_Abstract!sessionVars
    <3>1. sessionUser[t] = None /\ sessionUser' = [sessionUser EXCEPT ![t] = u]
      BY <2>1 DEF issueTokenPair, createTokenPair, sessionUser
    <3>2. openFamilies' = openFamilies \cup {t}
      BY <2>1 DEF issueTokenPair, createTokenPair, openFamilies
    <3>3. UNCHANGED renewedFamilies
      BY <2>1 DEF issueTokenPair, createTokenPair, renewedFamilies, FamilyOf
    <3> QED
      BY <3>1, <3>2, <3>3 DEF Abstract!Next, Abstract!Login
  <2>2. ASSUME NEW t \in Rows, revokeToken(t), UNCHANGED <<userId, familyId>>,
               UNCHANGED renewedFamilies
        PROVE  [Abstract!Next]_Abstract!sessionVars
    BY <2>2, RevokingEnds DEF revokeToken
  <2>3. ASSUME NEW r \in Requests, NEW t \in Tokens, Present(r, t)
        PROVE  [Abstract!Next]_Abstract!sessionVars
    BY <2>3 DEF Present, Abstract!sessionVars, sessionUser, openFamilies, renewedFamilies, FamilyOf
  <2>4. ASSUME NEW r \in Requests, FindLive(r) PROVE [Abstract!Next]_Abstract!sessionVars
    <3>1. FamilyOf(r) \in openFamilies /\ FamilyOf(r) \in Tokens
      BY <2>4 DEF FindLive, openFamilies, FamilyOf
    <3>2. renewedFamilies' = renewedFamilies \cup {FamilyOf(r)}
      BY <2>4 DEF FindLive, Goto, renewedFamilies, FamilyOf
    <3>3. UNCHANGED <<sessionUser, openFamilies>>
      BY <2>4 DEF FindLive, sessionUser, openFamilies
    <3> QED
      BY <3>1, <3>2, <3>3 DEF Abstract!Next, Abstract!Renew
  <2>5. ASSUME NEW r \in Requests, FindRevoked(r) \/ FindExpired(r)
        PROVE  [Abstract!Next]_Abstract!sessionVars
    BY <2>5 DEF FindRevoked, FindExpired, Goto, Abstract!sessionVars, sessionUser,
                openFamilies, renewedFamilies, FamilyOf
  <2>6. ASSUME NEW r \in Requests, Burn(r) PROVE [Abstract!Next]_Abstract!sessionVars
    <3>1. UNCHANGED renewedFamilies
      BY <2>6 DEF Burn, Answer, renewedFamilies, FamilyOf
    <3>2. userId[tok[r]] \in Users /\ \A s \in Rows : familyId[s] = FamilyOf(r) => userId[s] = userId[tok[r]]
      BY <2>6 DEF Burn, FamilyOf
    <3> QED
      BY <2>6, <3>1, <3>2, RevokingEnds DEF Burn, revokeFamilyTokens
  <2>7. ASSUME NEW r \in Requests, Lapse(r) PROVE [Abstract!Next]_Abstract!sessionVars
    <3>1. UNCHANGED renewedFamilies
      BY <2>7 DEF Lapse, Answer, renewedFamilies, FamilyOf
    <3> QED
      BY <2>2, <2>7, <3>1 DEF Lapse, EndOne
  <2>8. ASSUME NEW r \in Requests, Retire(r) PROVE [Abstract!Next]_Abstract!sessionVars
    <3>1. UNCHANGED renewedFamilies
      BY <2>8 DEF Retire, Answer, renewedFamilies, FamilyOf
    <3>2. tok[r] \in Rows
      BY <2>8 DEF Retire
    <3>3. isRevoked' = [t \in Tokens |-> isRevoked[t] \/ t \in {tok[r]}]
      <4>1. isRevoked' = [isRevoked EXCEPT ![tok[r]] = TRUE]
        BY <2>8 DEF Retire
      <4>2. isRevoked \in [Tokens -> BOOLEAN] /\ tok[r] \in Tokens
        BY <3>2
      <4> HIDE DEF TypeOK, Linked, Rows
      <4> QED
        BY ONLY <4>1, <4>2, Zenon
    <3>4. revokeToken(tok[r])
      BY <3>3 DEF revokeToken, revoke
    <3> QED
      BY <2>2, <2>8, <3>1, <3>2, <3>4 DEF Retire
  <2>9. ASSUME NEW r \in Requests, NEW t \in Tokens, Mint(r, t)
        PROVE  [Abstract!Next]_Abstract!sessionVars
    <3>1. FamilyOf(r) \in renewedFamilies /\ FamilyOf(r) \in Tokens /\ FamilyOf(r) # t
      BY <2>9 DEF Mint, createTokenPair, renewedFamilies, FamilyOf
    <3>2. UNCHANGED sessionUser
      BY <2>9, <3>1 DEF Mint, createTokenPair, sessionUser
    <3>3. openFamilies' = openFamilies \cup {FamilyOf(r)}
      <4>1. /\ t \notin Rows /\ t \in Rows' /\ ~isRevoked'[t] /\ familyId'[t] = FamilyOf(r)
            /\ \A s \in Tokens \ {t} : /\ s \in Rows' <=> s \in Rows
                                      /\ familyId'[s] = familyId[s] /\ isRevoked'[s] = isRevoked[s]
        BY <2>9, <3>1 DEF Mint, createTokenPair
      <4> HIDE DEF Rows, Linked, TypeOK
      <4>2. Rows \subseteq Tokens /\ Rows' \subseteq Tokens
        BY DEF Rows
      <4> QED
        BY <4>1, <4>2, Zenon DEF openFamilies
    <3>4. renewedFamilies' \in {renewedFamilies, renewedFamilies \ {FamilyOf(r)}}
      BY <2>9 DEF Mint, createTokenPair, renewedFamilies, FamilyOf
    <3> QED
      BY <3>1, <3>2, <3>3, <3>4 DEF Abstract!Next, Abstract!Renewed
  <2>10. ASSUME NEW r \in Requests, Fail(r) PROVE [Abstract!Next]_Abstract!sessionVars
    <3>1. UNCHANGED <<sessionUser, openFamilies>>
      BY <2>10 DEF Fail, sessionUser, openFamilies
    <3>2. CASE pc[r] = "mint"
      <4>1. FamilyOf(r) \in renewedFamilies /\ FamilyOf(r) \in Tokens
        BY <3>2 DEF renewedFamilies, FamilyOf
      <4>2. renewedFamilies' \in {renewedFamilies, renewedFamilies \ {FamilyOf(r)}}
        BY <2>10 DEF Fail, Answer, renewedFamilies, FamilyOf
      <4> QED
        BY <3>1, <4>1, <4>2 DEF Abstract!Next, Abstract!Renewed
    <3>3. CASE pc[r] # "mint"
      <4>1. UNCHANGED renewedFamilies
        BY <2>10, <3>3 DEF Fail, Answer, renewedFamilies, FamilyOf
      <4> QED
        BY <3>1, <4>1 DEF Abstract!sessionVars
    <3> QED
      BY <3>2, <3>3
  <2>11. ASSUME NEW t \in Tokens, logout(t) PROVE [Abstract!Next]_Abstract!sessionVars
    <3>1. UNCHANGED renewedFamilies
      BY <2>11 DEF logout, renewedFamilies, FamilyOf
    <3> QED
      BY <2>2, <2>11, <3>1 DEF logout, EndOne
  <2>12. ASSUME NEW t \in Tokens, NEW u \in Users, revokeSession(t, u)
         PROVE  [Abstract!Next]_Abstract!sessionVars
    <3>1. UNCHANGED renewedFamilies
      BY <2>12 DEF revokeSession, renewedFamilies, FamilyOf
    <3> QED
      BY <2>2, <2>12, <3>1 DEF revokeSession, EndOne
  <2>13. ASSUME NEW u \in Users, logoutAll(u) PROVE [Abstract!Next]_Abstract!sessionVars
    <3>1. UNCHANGED renewedFamilies
      BY <2>13 DEF logoutAll, renewedFamilies, FamilyOf
    <3> QED
      BY <2>13, <3>1, RevokingEnds DEF logoutAll, revokeAllUserTokens
  <2>14. ASSUME NEW t \in Tokens, Expire(t) PROVE [Abstract!Next]_Abstract!sessionVars
    BY <2>14 DEF Expire, Abstract!sessionVars, sessionUser, openFamilies, renewedFamilies, FamilyOf
  <2>15. CASE UNCHANGED vars
    BY <2>15 DEF vars, Abstract!sessionVars, sessionUser, openFamilies, renewedFamilies, FamilyOf
  <2>16. QED
    BY <2>1, <2>3, <2>4, <2>5, <2>6, <2>7, <2>8, <2>9, <2>10, <2>11, <2>12, <2>13,
       <2>14, <2>15 DEF Next, Rotation
<1>3. QED
  BY <1>1, <1>2, TypeCorrect, LinkedInv, PTL DEF Spec, SessionsImplemented, Abstract!Spec

-----------------------------------------------------------------------------
(***************************************************************************)
(* What follows from implementing Sessions                                 *)
(***************************************************************************)

(* A session that has ended, with no renewal of it on its way *)
Ended(f) == Abstract!Ended(f)

(* Of Sessions alone: no action reopens a session that has ended. *)
LEMMA EndedStep ==
  ASSUME NEW f \in Tokens, Ended(f), [Abstract!Next]_Abstract!sessionVars,
         sessionUser \in [Tokens -> Users \cup {None}]
  PROVE  Ended(f)'
<1>1. ASSUME NEW g \in Tokens, NEW u \in Users, Abstract!Login(g, u) PROVE Ended(f)'
  <2>1. g # f
    BY <1>1 DEF Ended, Abstract!Ended, Abstract!Login
  <2>2. sessionUser'[f] = sessionUser[f]
    BY <1>1, <2>1, Zenon DEF Abstract!Login
  <2> QED
    BY <1>1, <2>1, <2>2, Zenon DEF Ended, Abstract!Ended, Abstract!Login
<1>2. ASSUME NEW u \in Users, Abstract!End(u) PROVE Ended(f)'
  BY <1>2, Zenon DEF Ended, Abstract!Ended, Abstract!End
<1>3. ASSUME NEW g \in Tokens, Abstract!Renew(g) PROVE Ended(f)'
  BY <1>3, Zenon DEF Ended, Abstract!Ended, Abstract!Renew
<1>4. ASSUME NEW g \in Tokens, Abstract!Renewed(g) PROVE Ended(f)'
  BY <1>4, Zenon DEF Ended, Abstract!Ended, Abstract!Renewed
<1>5. CASE UNCHANGED Abstract!sessionVars
  BY <1>5, Zenon DEF Ended, Abstract!Ended, Abstract!sessionVars
<1> QED
  BY <1>1, <1>2, <1>3, <1>4, <1>5 DEF Abstract!Next

(* A login all of whose tokens are revoked, by a logout, by reuse, or by a *)
(* new password, with no rotation past its read of a live one, has ended   *)
(* for good: whatever calls come, overlap or fail, no token of its family  *)
(* is ever live again.                                                     *)
THEOREM EndedForGood ==
  ASSUME NEW f \in Tokens
  PROVE  Spec => []( /\ familyId[f] = f /\ (\A t \in Rows : familyId[t] = f => isRevoked[t])
                     /\ \A r \in Requests : pc[r] = "mint" => FamilyOf(r) # f
                     => [](\A t \in Tokens : familyId[t] = f => ~Live(t)))
<1> DEFINE Over == /\ familyId[f] = f /\ (\A t \in Rows : familyId[t] = f => isRevoked[t])
                   /\ \A r \in Requests : pc[r] = "mint" => FamilyOf(r) # f
           NoneLive == \A t \in Tokens : familyId[t] = f => ~Live(t)
<1>1. TypeOK /\ Over => Ended(f)
  BY NoneAssumption DEF TypeOK, Rows, Ended, Abstract!Ended, sessionUser, openFamilies, renewedFamilies
<1>2. TypeOK /\ Ended(f) => NoneLive
  BY DEF TypeOK, Rows, Live, Ended, Abstract!Ended, openFamilies
<1>3. TypeOK => sessionUser \in [Tokens -> Users \cup {None}]
  BY DEF TypeOK, sessionUser
<1>4. Spec => [][Abstract!Next]_Abstract!sessionVars
  BY SessionsTheorem DEF SessionsImplemented, Abstract!Spec
<1>5. TypeOK /\ Ended(f) /\ [Abstract!Next]_Abstract!sessionVars => Ended(f)'
  BY <1>3, EndedStep
<1> HIDE DEF Over, NoneLive
<1>6. Spec => [](Over => []NoneLive)
  BY <1>1, <1>2, <1>4, <1>5, TypeCorrect, PTL
<1> QED
  BY <1>6 DEF Over, NoneLive
=============================================================================
