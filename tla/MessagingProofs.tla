-------------------------- MODULE MessagingProofs --------------------------
(***************************************************************************)
(* Proofs about Messaging, for any number of idempotency keys, calls in    *)
(* flight and messages, and any length of the database's millisecond.      *)
(***************************************************************************)
EXTENDS Messaging, TLAPS

(* JavaScript's date of an id is not later than the database's. *)
LEMMA Milliseconds ==
  ASSUME NEW t \in Nat
  PROVE  ms(t) \in Nat /\ ms(t) <= t
<1>1. PerMs \in Nat \ {0} /\ t % PerMs \in 0..(PerMs - 1)
  BY MessagingAssumption
<1>2. t < PerMs => t % PerMs = t
  BY <1>1, SMT
<1> QED
  BY <1>1, <1>2, SMT DEF ms

-----------------------------------------------------------------------------
(***************************************************************************)
(* The state is well formed                                                *)
(***************************************************************************)

(* Steps of sendMessage after its first read, and after its INSERT *)
Sending == {"insert", "commit", "raced", "select", "update"}
Saving == {"select", "update"}

(* What a call knows: sends have a conversation and a sender, and an id    *)
(* from their INSERT on, with its time.                                    *)
Knows(c, conv, last) ==
  /\ c.pc \in Sending => conv # None /\ c.user \in Users
  /\ c.pc \in Sending \ {"insert"} => c.id \in 1..last
  /\ c.pc = "commit" => c.at = c.id
  /\ c.pc \in Saving => c.at = ms(c.id)

CallsOK == req \in [Requests -> Call] /\ \A r \in Requests : Knows(req[r], conversation, lastId)

(* TypeOK but for the calls *)
RowsOK ==
  /\ conversation \in Summary \cup {None}
  /\ message \in [Ids -> Row \cup {None}]
  /\ lastId \in 0..MaxMessages
  /\ deleted \subseteq Users
  /\ late \subseteq Ids
  /\ answered \subseteq [user : Users, clientId : ClientIds, id : Ids]
  /\ newest \in Ids \cup {None}
  /\ crossed \in BOOLEAN
  /\ failures \in 0..MaxFailures

(* The two parts make up TypeOK. *)
LEMMA Typed == RowsOK /\ CallsOK => TypeOK
  BY DEF RowsOK, CallsOK, TypeOK, Knows, Sending

(* What None is not *)
LEMMA NoneFacts ==
  /\ None \notin Nat /\ None \notin Row /\ None \notin Summary /\ None \notin Users /\ None \notin ClientIds
  /\ Ids \subseteq Nat /\ None \notin Ids
  /\ MaxMessages \in Nat /\ MaxFailures \in Nat
  BY NoneAssumption, MessagingAssumption DEF Ids, Users

(* An idle call is a call. *)
LEMMA IdleTyped == Idle \in Call /\ Idle.pc = "idle"
  BY NoneFacts DEF Idle, Call

(* A call that goes on leaves the others as they are, and with what they   *)
(* know, as long as the conversation and the ids drawn stay.               *)
LEMMA Goes ==
  ASSUME CallsOK, NEW r \in Requests, NEW c \in Call, req' = [req EXCEPT ![r] = c], Knows(req'[r], conversation', lastId'),
         conversation # None => conversation' # None, lastId \in Nat, lastId' \in {lastId, lastId + 1}
  PROVE  CallsOK'
<1>1. req' \in [Requests -> Call]
  BY DEF CallsOK
<1>2. ASSUME NEW q \in Requests, q # r PROVE Knows(req'[q], conversation', lastId')
  <2>1. req'[q] = req[q] /\ Knows(req[q], conversation, lastId)
    BY <1>2 DEF CallsOK
  <2> QED
    BY <2>1 DEF Knows, ms
<1> QED
  BY <1>1, <1>2 DEF CallsOK

(* So does one that ends. *)
LEMMA Ends ==
  ASSUME CallsOK, NEW r \in Requests, End(r),
         conversation # None => conversation' # None, UNCHANGED lastId, lastId \in Nat
  PROVE  CallsOK'
<1>1. req'[r] = Idle /\ req' = [req EXCEPT ![r] = Idle]
  BY DEF CallsOK, End
<1>2. Knows(req'[r], conversation', lastId')
  BY <1>1, IdleTyped DEF Knows, Sending, Saving
<1> QED
  BY <1>1, <1>2, IdleTyped, Goes, Zenon

(* There are no rows and no calls at the start. *)
LEMMA ShapeInit == Init => RowsOK /\ CallsOK
<1> SUFFICES ASSUME Init PROVE RowsOK /\ CallsOK
  OBVIOUS
<1>1. req \in [Requests -> Call] /\ \A r \in Requests : req[r].pc = "idle"
  BY IdleTyped DEF Init
<1>2. \A r \in Requests : Knows(req[r], conversation, lastId)
  BY <1>1 DEF Knows, Sending, Saving
<1>3. conversation \in Summary \cup {None} /\ message \in [Ids -> Row \cup {None}]
  BY DEF Init
<1>4. lastId \in 0..MaxMessages /\ failures \in 0..MaxFailures
  BY NoneFacts DEF Init
<1>5. /\ late \subseteq Ids /\ newest \in Ids \cup {None} /\ crossed \in BOOLEAN /\ deleted \subseteq Users
      /\ answered \subseteq [user : Users, clientId : ClientIds, id : Ids]
  BY DEF Init
<1> QED
  BY <1>1, <1>2, <1>3, <1>4, <1>5 DEF RowsOK, CallsOK

(* An answer names a message with its clientId. *)
LEMMA Answers ==
  ASSUME RowsOK, NEW r, NEW u \in Users, NEW c \in ClientIds \cup {None}, NEW i \in Ids, Answer(r, u, c, i)
  PROVE  answered' \subseteq [user : Users, clientId : ClientIds, id : Ids]
  BY DEF RowsOK, Answer

(* Every statement of a call, and every commit, keeps the shape. *)
LEMMA ShapeStep == RowsOK /\ CallsOK /\ [Next]_vars => RowsOK' /\ CallsOK'
<1> SUFFICES ASSUME RowsOK, CallsOK, [Next]_vars PROVE RowsOK' /\ CallsOK'
  OBVIOUS
<1> USE DEF historyVars
<1>0. /\ req \in [Requests -> Call] /\ lastId \in Nat /\ lastId <= MaxMessages
      /\ MaxMessages \in Nat
      /\ \A r \in Requests : Knows(req[r], conversation, lastId)
  BY NoneFacts DEF RowsOK, CallsOK
<1>1. ASSUME NEW r \in Requests, getOrCreateConversation(r) PROVE RowsOK' /\ CallsOK'
  <2> DEFINE c == [Idle EXCEPT !.pc = "create", !.at = ms(lastId)]
  <2>1. ms(lastId) \in 0..MaxMessages
    BY <1>0, Milliseconds
  <2>2. c \in Call
    BY <2>1, IdleTyped DEF Call
  <2>3. c.pc = "create"
    BY IdleTyped DEF Call
  <2>4. req' = [req EXCEPT ![r] = c] /\ UNCHANGED <<conversation, lastId>>
    BY <1>1 DEF getOrCreateConversation
  <2>5. Knows(req'[r], conversation', lastId')
    BY <1>0, <2>3, <2>4 DEF Knows, Sending, Saving
  <2> HIDE DEF c
  <2>6. CallsOK'
    BY <1>0, <2>2, <2>4, <2>5, Goes
  <2> QED
    BY <1>0, <1>1, <2>6 DEF getOrCreateConversation, RowsOK
<1>2. ASSUME NEW r \in Requests, InsertConversation(r) PROVE RowsOK' /\ CallsOK'
  <2>1. conversation' \in Summary /\ conversation' # None
    <3>1. [at |-> req[r].at, preview |-> None] \in Summary
      BY <1>0 DEF Summary, Call
    <3> QED
      BY <1>2, <3>1, NoneFacts DEF InsertConversation, RowsOK
  <2> QED
    BY <1>0, <1>2, <2>1, Ends DEF InsertConversation, RowsOK
<1>3. ASSUME NEW r \in Requests, NEW u \in Users, NEW k \in ClientIds \cup {None}, sendMessage(r, u, k)
      PROVE  RowsOK' /\ CallsOK'
  <2>1. CASE \E i \in Sent(u, k) : Answer(r, u, k, i)
    <3>1. PICK i \in Ids : Answer(r, u, k, i)
      BY <2>1 DEF Sent, Visible
    <3>2. End(r)
      BY <3>1 DEF Answer
    <3> QED
      BY <1>0, <1>3, <3>1, <3>2, Answers, Ends DEF sendMessage, RowsOK
  <2>2. CASE ~\E i \in Sent(u, k) : Answer(r, u, k, i)
    <3> DEFINE c == [Idle EXCEPT !.pc = "insert", !.user = u, !.clientId = k]
    <3>1. c \in Call
      BY IdleTyped DEF Call
    <3>2. c.pc = "insert" /\ c.user = u
      BY IdleTyped DEF Call
    <3>3. req' = [req EXCEPT ![r] = c] /\ UNCHANGED <<conversation, lastId, answered>> /\ conversation # None
      BY <1>3, <2>2 DEF sendMessage
    <3>4. Knows(req'[r], conversation', lastId')
      BY <1>0, <3>2, <3>3 DEF Knows, Sending, Saving
    <3> HIDE DEF c
    <3>5. CallsOK'
      BY <1>0, <3>1, <3>3, <3>4, Goes
    <3> QED
      BY <1>0, <1>3, <3>3, <3>5 DEF sendMessage, RowsOK
  <2> QED
    BY <2>1, <2>2
<1>4. ASSUME NEW r \in Requests, Insert(r) PROVE RowsOK' /\ CallsOK'
  <2> DEFINE c == [req[r] EXCEPT !.pc = "commit", !.id = lastId + 1, !.at = lastId + 1]
  <2>1. lastId + 1 \in Ids /\ lastId + 1 \in 0..MaxMessages
    BY <1>0, <1>4 DEF Insert, Ids
  <2>2. c \in Call
    BY <1>0, <2>1 DEF Call
  <2>3. req' = [req EXCEPT ![r] = c] /\ lastId' = lastId + 1 /\ UNCHANGED conversation
    BY <1>4 DEF Insert
  <2>4. Knows(req'[r], conversation', lastId')
    BY <1>0, <1>4, <2>3 DEF Insert, Knows, Sending, Saving, Call
  <2> HIDE DEF c
  <2>5. CallsOK'
    BY <1>0, <2>2, <2>3, <2>4, Goes
  <2> QED
    BY <1>0, <1>4, <2>1, <2>5 DEF Insert, RowsOK
<1>5. ASSUME NEW r \in Requests, Commit(r) PROVE RowsOK' /\ CallsOK'
  <2>0. /\ req[r] \in Call /\ req[r].id \in Ids /\ req[r].id <= lastId /\ req[r].at = req[r].id
        /\ req[r].user \in Users /\ conversation # None
    BY <1>0, <1>5, NoneFacts DEF Commit, Knows, Sending, Ids
  <2>1. CASE Store(r)
    <3> DEFINE c == [req[r] EXCEPT !.pc = "select", !.at = ms(req[r].at)]
    <3>1. ms(req[r].at) \in 0..MaxMessages
      BY <1>0, <2>0, Milliseconds DEF Ids
    <3>2. c \in Call
      BY <2>0, <3>1 DEF Call
    <3>3. req' = [req EXCEPT ![r] = c] /\ UNCHANGED <<conversation, lastId>>
      BY <1>5, <2>1 DEF Commit, Store
    <3>4. req'[r] = c /\ c.pc = "select" /\ c.at = ms(c.id) /\ c.user = req[r].user /\ c.id = req[r].id
      BY <1>0, <2>0, <3>3 DEF Call
    <3>5. Knows(req'[r], conversation', lastId')
      BY <1>0, <1>5, <2>0, <3>3, <3>4 DEF Commit, Knows, Sending, Saving, ms, Ids
    <3>6. newRow(r) \in Row
      BY <2>0 DEF newRow, Row, Call
    <3>7. message' \in [Ids -> Row \cup {None}] /\ newest' \in Ids /\ late' \subseteq Ids
      BY <2>0, <2>1, <3>6 DEF Store, RowsOK
    <3> HIDE DEF c
    <3>8. CallsOK'
      BY <1>0, <3>2, <3>3, <3>5, Goes
    <3> QED
      BY <1>0, <1>5, <3>7, <3>8 DEF Commit, RowsOK
  <2>2. CASE ~Store(r)
    <3> DEFINE c == [req[r] EXCEPT !.pc = "raced"]
    <3>1. c \in Call
      BY <2>0 DEF Call
    <3>2. req' = [req EXCEPT ![r] = c] /\ UNCHANGED <<conversation, lastId, message, newest, late>>
      BY <1>5, <2>2 DEF Commit
    <3>3. Knows(req'[r], conversation', lastId')
      BY <1>0, <2>0, <3>2 DEF Knows, Sending, Saving, Ids, Call
    <3> HIDE DEF c
    <3>4. CallsOK'
      BY <1>0, <3>1, <3>2, <3>3, Goes
    <3> QED
      BY <1>0, <1>5, <3>2, <3>4 DEF Commit, RowsOK
  <2> QED
    BY <2>1, <2>2
<1>6. ASSUME NEW r \in Requests, RereadWinner(r) PROVE RowsOK' /\ CallsOK'
  <2>1. PICK i \in Ids : Answer(r, req[r].user, req[r].clientId, i)
    BY <1>6 DEF RereadWinner, Sent, Visible
  <2>2. End(r) /\ req[r].user \in Users /\ req[r].clientId \in ClientIds \cup {None}
    BY <1>0, <1>6, <2>1 DEF Answer, RereadWinner, Knows, Sending, Call
  <2> QED
    BY <1>0, <1>6, <2>1, <2>2, Answers, Ends DEF RereadWinner, RowsOK
<1>7. ASSUME NEW r \in Requests, SaveSelect(r) PROVE RowsOK' /\ CallsOK'
  <2> DEFINE k == {x \in Columns : entity(r)[x] # conversation[x]}
  <2> DEFINE c == [req[r] EXCEPT !.pc = "update", !.cols = k]
  <2>1. k \in SUBSET Columns
    OBVIOUS
  <2>2. c \in Call
    BY <1>0, <2>1 DEF Call
  <2>3. req' = [req EXCEPT ![r] = c] /\ UNCHANGED <<conversation, lastId>>
    BY <1>7 DEF SaveSelect
  <2> HIDE DEF k
  <2>4. /\ req'[r].pc = "update" /\ req'[r].user = req[r].user
        /\ req'[r].id = req[r].id /\ req'[r].at = req[r].at
    BY <1>0, <2>3 DEF Call
  <2>5. Knows(req'[r], conversation', lastId')
    BY <1>0, <1>7, <2>3, <2>4 DEF SaveSelect, Knows, Sending, Saving, ms
  <2> HIDE DEF c
  <2>6. CallsOK'
    BY <1>0, <2>2, <2>3, <2>5, Goes
  <2> QED
    BY <1>0, <1>7, <2>6 DEF SaveSelect, RowsOK
<1>8. ASSUME NEW r \in Requests, SaveUpdate(r) PROVE RowsOK' /\ CallsOK'
  <2>1. /\ req[r] \in Call /\ req[r].id \in Ids /\ req[r].user \in Users /\ conversation \in Summary
        /\ req[r].at \in 0..MaxMessages
    BY <1>0, <1>8 DEF SaveUpdate, Knows, Sending, Saving, Ids, RowsOK, Call
  <2>2. conversation' = [at |-> IF "at" \in req[r].cols THEN req[r].at ELSE conversation.at,
                         preview |-> IF "preview" \in req[r].cols THEN req[r].id ELSE conversation.preview]
    BY <1>8 DEF SaveUpdate, entity, Columns
  <2>3. conversation' \in Summary
    BY <2>1, <2>2 DEF Summary
  <2>4. End(r) /\ req[r].clientId \in ClientIds \cup {None}
    BY <1>0, <1>8 DEF SaveUpdate, Answer, Call
  <2>5. answered' \subseteq [user : Users, clientId : ClientIds, id : Ids]
    BY <1>8, <2>1, <2>4, Answers DEF SaveUpdate
  <2> QED
    BY <1>0, <1>8, <2>3, <2>4, <2>5, NoneFacts, Ends DEF SaveUpdate, RowsOK
<1>9. ASSUME NEW r \in Requests, Die(r) PROVE RowsOK' /\ CallsOK'
  BY <1>0, <1>9, NoneFacts, Ends DEF Die, RowsOK
<1>10. ASSUME NEW u \in Users, deleteUser(u) PROVE RowsOK' /\ CallsOK'
  BY <1>10 DEF deleteUser, RowsOK, CallsOK, Knows, ms
<1>11. ASSUME NEW u \in Users, NEW t, markRead(u, t) PROVE RowsOK' /\ CallsOK'
  <2>1. \A i \in Ids : message[i] \in Row => [message[i] EXCEPT !.read = TRUE] \in Row
    BY DEF Row
  <2>2. message' \in [Ids -> Row \cup {None}]
    BY <1>11, <2>1 DEF markRead, MarkUpTo, Visible, RowsOK
  <2> QED
    BY <1>11, <2>2 DEF markRead, RowsOK, CallsOK, Knows, ms
<1>12. CASE UNCHANGED vars
  BY <1>12 DEF vars, RowsOK, CallsOK, Knows, ms
<1> QED
  BY <1>1, <1>2, <1>3, <1>4, <1>5, <1>6, <1>7, <1>8, <1>9, <1>10, <1>11, <1>12 DEF Next

(* Rows and calls keep their shape. *)
THEOREM TypeCorrect == Spec => []TypeOK
<1>1. Init => RowsOK /\ CallsOK
  BY ShapeInit
<1>2. RowsOK /\ CallsOK /\ [Next]_vars => (RowsOK /\ CallsOK)'
  BY ShapeStep
<1>3. RowsOK /\ CallsOK => TypeOK
  BY Typed
<1> QED
  BY <1>1, <1>2, <1>3, PTL DEF Spec

-----------------------------------------------------------------------------
(***************************************************************************)
(* A clientId names one message                                            *)
(***************************************************************************)

(* The committed message i is u's, with the clientId k. *)
Holds(i, u, k) == i \in Visible /\ message[i].sender = u /\ message[i].clientId = k

(* Only drawn ids are visible; no id is committed twice; the unique index  *)
(* holds; a call that saves has its message, and so has every answer.      *)
DrawnOK == \A i \in Visible : i <= lastId
CommitsOK == \A r \in Requests : req[r].pc = "commit" =>
  /\ req[r].id \notin Visible
  /\ \A q \in Requests \ {r} : req[q].pc = "commit" => req[q].id # req[r].id
IndexOK == \A i, j \in Visible :
  message[i].clientId # None /\ message[i].sender = message[j].sender
    /\ message[i].clientId = message[j].clientId => i = j
SavesOK == \A r \in Requests : req[r].pc \in Saving =>
  Holds(req[r].id, req[r].user, req[r].clientId)
AnswersOK == \A a \in answered : Holds(a.id, a.user, a.clientId)

UniqueOK == DrawnOK /\ CommitsOK /\ IndexOK /\ SavesOK /\ AnswersOK

(* There are no messages and no answers at the start. *)
LEMMA UniqueInit == Init => UniqueOK
<1> SUFFICES ASSUME Init PROVE UniqueOK
  OBVIOUS
<1>1. Visible = {} /\ answered = {} /\ \A r \in Requests : req[r].pc = "idle"
  BY IdleTyped DEF Init, Visible
<1> QED
  BY <1>1 DEF UniqueOK, DrawnOK, CommitsOK, IndexOK, SavesOK, AnswersOK, Saving

(* Without a commit, the ids stay unique as long as no call starts to      *)
(* commit or to save, or changes what it saves.                            *)
LEMMA Uncommitted ==
  ASSUME RowsOK, UniqueOK, UNCHANGED <<message, lastId>>,
         \A q \in Requests :
           \/ req'[q] = req[q]
           \/ req'[q].pc \notin {"commit"} \cup Saving
           \/ /\ req[q].pc \in Saving /\ req'[q].pc \in Saving
              /\ req'[q].id = req[q].id /\ req'[q].user = req[q].user
              /\ req'[q].clientId = req[q].clientId
  PROVE  /\ DrawnOK' /\ CommitsOK' /\ IndexOK' /\ SavesOK'
         /\ \A a \in answered : Holds(a.id, a.user, a.clientId)'
<1>1. Visible' = Visible /\ \A i, u, k : Holds(i, u, k)' <=> Holds(i, u, k)
  BY DEF Visible, Holds
<1>2. CommitsOK'
  BY <1>1 DEF UniqueOK, CommitsOK, Saving
<1>3. SavesOK'
  BY <1>1 DEF UniqueOK, SavesOK, Saving
<1>4. DrawnOK' /\ IndexOK'
  BY <1>1 DEF UniqueOK, DrawnOK, IndexOK
<1> QED
  BY <1>1, <1>2, <1>3, <1>4 DEF UniqueOK, AnswersOK

(* In particular when the one call that moves ends. *)
LEMMA EndsUnique ==
  ASSUME RowsOK, CallsOK, UniqueOK, UNCHANGED <<message, lastId>>, NEW r \in Requests, End(r)
  PROVE  /\ DrawnOK' /\ CommitsOK' /\ IndexOK' /\ SavesOK'
         /\ \A a \in answered : Holds(a.id, a.user, a.clientId)'
<1>1. \A q \in Requests : req'[q] = IF q = r THEN Idle ELSE req[q]
  BY DEF End, CallsOK
<1>2. \A q \in Requests : req'[q] = req[q] \/ req'[q].pc \notin {"commit"} \cup Saving
  BY <1>1, IdleTyped DEF Saving
<1> QED
  BY <1>2, Uncommitted

(* An answer names a message that holds what was asked for. *)
LEMMA AnswersUnique ==
  ASSUME RowsOK, CallsOK, UniqueOK, UNCHANGED <<message, lastId>>, NEW r \in Requests,
         NEW u \in Users, NEW k \in ClientIds \cup {None}, NEW i, Holds(i, u, k), Answer(r, u, k, i)
  PROVE  UniqueOK'
<1>1. End(r)
  BY DEF Answer
<1>2. Holds(i, u, k)'
  BY DEF Holds, Visible
<1>3. \A a \in answered' : a \in answered \/ a = [user |-> u, clientId |-> k, id |-> i]
  BY DEF Answer
<1>4. AnswersOK'
  BY <1>1, <1>2, <1>3, EndsUnique DEF AnswersOK
<1> QED
  BY <1>1, <1>4, EndsUnique DEF UniqueOK

(* An id is drawn once and committed once, and the unique index refuses a  *)
(* second message with the clientId.                                       *)
LEMMA UniqueStep == RowsOK /\ CallsOK /\ UniqueOK /\ [Next]_vars => UniqueOK'
<1> SUFFICES ASSUME RowsOK, CallsOK, UniqueOK, [Next]_vars PROVE UniqueOK'
  OBVIOUS
<1> USE DEF historyVars
<1>0. /\ req \in [Requests -> Call] /\ lastId \in Nat /\ \A i \in Ids : i \in Nat
      /\ message \in [Ids -> Row \cup {None}]
      /\ \A r \in Requests : req[r] \in Call /\ Knows(req[r], conversation, lastId)
  BY NoneFacts DEF RowsOK, CallsOK, Ids
<1>1. ASSUME NEW r \in Requests, getOrCreateConversation(r) PROVE UniqueOK'
  <2>1. \A q \in Requests : req'[q] = req[q] \/ req'[q].pc = "create"
    BY <1>0, <1>1, IdleTyped DEF getOrCreateConversation, Call
  <2> QED
    BY <1>1, <2>1, Uncommitted DEF getOrCreateConversation, UniqueOK, AnswersOK, Saving
<1>2. ASSUME NEW r \in Requests, InsertConversation(r) PROVE UniqueOK'
  BY <1>2, EndsUnique DEF InsertConversation, UniqueOK, AnswersOK
<1>3. ASSUME NEW r \in Requests, NEW u \in Users, NEW k \in ClientIds \cup {None}, sendMessage(r, u, k)
      PROVE  UniqueOK'
  <2>1. CASE \E i \in Sent(u, k) : Answer(r, u, k, i)
    <3>1. PICK i \in Sent(u, k) : Answer(r, u, k, i)
      BY <2>1
    <3>2. Holds(i, u, k)
      BY DEF Sent, Holds
    <3>3. UNCHANGED <<message, lastId>>
      BY <1>3 DEF sendMessage
    <3> QED
      BY <3>1, <3>2, <3>3, AnswersUnique
  <2>2. CASE ~\E i \in Sent(u, k) : Answer(r, u, k, i)
    <3> DEFINE c == [Idle EXCEPT !.pc = "insert", !.user = u, !.clientId = k]
    <3>1. c.pc = "insert" /\ req' = [req EXCEPT ![r] = c]
      BY <1>3, <2>2, IdleTyped DEF sendMessage, Call
    <3> HIDE DEF c
    <3>2. \A q \in Requests : req'[q] = req[q] \/ req'[q].pc = "insert"
      BY <1>0, <3>1
    <3> QED
      BY <1>3, <2>2, <3>2, Uncommitted DEF sendMessage, UniqueOK, AnswersOK, Saving
  <2> QED
    BY <2>1, <2>2
<1>4. ASSUME NEW r \in Requests, Insert(r) PROVE UniqueOK'
  <2>1. /\ lastId' = lastId + 1 /\ UNCHANGED <<message, answered>> /\ Visible' = Visible
        /\ \A i, u, k : Holds(i, u, k)' <=> Holds(i, u, k)
    BY <1>4 DEF Insert, Visible, Holds
  <2>2. /\ req'[r].pc = "commit" /\ req'[r].id = lastId + 1
        /\ \A q \in Requests \ {r} : req'[q] = req[q]
    BY <1>0, <1>4 DEF Insert, Call
  <2>3. DrawnOK'
    BY <1>0, <2>1 DEF UniqueOK, DrawnOK, Visible
  <2>4. lastId + 1 \notin Visible
    BY <1>0 DEF UniqueOK, DrawnOK, Visible
  <2>5. \A q \in Requests : req[q].pc = "commit" => req[q].id # lastId + 1
    BY <1>0 DEF Knows, Sending
  <2>6. CommitsOK'
    BY <2>1, <2>2, <2>4, <2>5 DEF UniqueOK, CommitsOK
  <2>7. SavesOK' /\ AnswersOK' /\ IndexOK'
    BY <2>1, <2>2 DEF UniqueOK, SavesOK, AnswersOK, IndexOK, Saving
  <2> QED
    BY <2>3, <2>6, <2>7 DEF UniqueOK
<1>5. ASSUME NEW r \in Requests, Commit(r) PROVE UniqueOK'
  <2>0. /\ req[r].pc = "commit" /\ req[r].id \in Ids /\ req[r].id <= lastId /\ req[r].id \notin Visible
        /\ req[r].user \in Users
        /\ UNCHANGED <<lastId, answered>>
    <3>1. req[r].pc = "commit" /\ UNCHANGED <<lastId, answered>>
      BY <1>5 DEF Commit
    <3>2. req[r].user \in Users /\ req[r].id \in 1..lastId
      BY <1>0, <3>1 DEF Knows, Sending
    <3>3. req[r].id \in Ids
      BY <1>0, <3>1, <3>2, NoneFacts DEF Call
    <3>4. req[r].id \notin Visible
      BY <3>1 DEF UniqueOK, CommitsOK
    <3> QED
      BY <1>0, <3>1, <3>2, <3>3, <3>4
  <2>1. CASE Sent(req[r].user, req[r].clientId) = {} /\ Store(r)
    <3>1. /\ \A q \in Requests \ {r} : req'[q] = req[q]
          /\ req'[r].pc = "select" /\ req'[r].id = req[r].id
          /\ req'[r].user = req[r].user /\ req'[r].clientId = req[r].clientId
      BY <1>0, <2>1 DEF Store, Call
    <3>2. newRow(r) # None /\ newRow(r).sender = req[r].user /\ newRow(r).clientId = req[r].clientId
      <4>1. newRow(r) \in Row
        BY <1>0, <2>0 DEF newRow, Row, Call
      <4> QED
        BY <4>1, NoneFacts DEF newRow
    <3>3. \A i \in Ids : message'[i] = IF i = req[r].id THEN newRow(r) ELSE message[i]
      BY <1>0, <2>0, <2>1 DEF Store
    <3>4. Visible' = Visible \cup {req[r].id}
      BY <2>0, <3>2, <3>3 DEF Visible
    <3>5. \A i \in Visible : message'[i] = message[i]
      BY <2>0, <3>3 DEF Visible
    <3>6. \A i, u, k : Holds(i, u, k) => Holds(i, u, k)'
      BY <3>4, <3>5 DEF Holds
    <3>7. Holds(req[r].id, req[r].user, req[r].clientId)'
      BY <2>0, <3>1, <3>2, <3>3, <3>4 DEF Holds
    <3>8. DrawnOK'
      BY <2>0, <3>4 DEF UniqueOK, DrawnOK
    <3>9. CommitsOK'
      BY <2>0, <3>1, <3>4 DEF UniqueOK, CommitsOK
    <3>10. SavesOK'
      BY <3>1, <3>6, <3>7 DEF UniqueOK, SavesOK, Saving
    <3>11. AnswersOK'
      BY <2>0, <3>6 DEF UniqueOK, AnswersOK
    <3>12. IndexOK'
      <4>1. \A i \in Visible : req[r].clientId # None /\ message[i].sender = req[r].user
              => message[i].clientId # req[r].clientId
        BY <2>1 DEF Sent
      <4>2. message'[req[r].id].sender = req[r].user /\ message'[req[r].id].clientId = req[r].clientId
        BY <3>1, <3>7 DEF Holds
      <4> QED
        BY <3>4, <3>5, <4>1, <4>2 DEF UniqueOK, IndexOK
    <3> QED
      BY <3>8, <3>9, <3>10, <3>11, <3>12 DEF UniqueOK
  <2>2. CASE ~(Sent(req[r].user, req[r].clientId) = {} /\ Store(r))
    <3>1. req' = [req EXCEPT ![r].pc = "raced"] /\ UNCHANGED message
      BY <1>5, <2>2 DEF Commit
    <3>2. \A q \in Requests : req'[q] = req[q] \/ req'[q].pc = "raced"
      BY <1>0, <3>1 DEF Call
    <3> QED
      BY <2>0, <3>1, <3>2, Uncommitted DEF UniqueOK, AnswersOK, Saving
  <2> QED
    BY <2>1, <2>2
<1>6. ASSUME NEW r \in Requests, RereadWinner(r) PROVE UniqueOK'
  <2>1. PICK i \in Sent(req[r].user, req[r].clientId) : Answer(r, req[r].user, req[r].clientId, i)
    BY <1>6 DEF RereadWinner
  <2>2. Holds(i, req[r].user, req[r].clientId)
    BY DEF Sent, Holds
  <2>3. req[r].user \in Users /\ req[r].clientId \in ClientIds \cup {None} /\ UNCHANGED <<message, lastId>>
    BY <1>0, <1>6 DEF RereadWinner, Knows, Sending, Call
  <2> QED
    BY <2>1, <2>2, <2>3, AnswersUnique
<1>7. ASSUME NEW r \in Requests, SaveSelect(r) PROVE UniqueOK'
  <2> DEFINE k == {x \in Columns : entity(r)[x] # conversation[x]}
  <2>1. req' = [req EXCEPT ![r].pc = "update", ![r].cols = k]
    BY <1>7 DEF SaveSelect
  <2> HIDE DEF k
  <2>2. /\ \A q \in Requests \ {r} : req'[q] = req[q]
        /\ req'[r].pc = "update" /\ req'[r].id = req[r].id
        /\ req'[r].user = req[r].user /\ req'[r].clientId = req[r].clientId
    BY <1>0, <2>1 DEF Call
  <2> QED
    BY <1>7, <2>2, Uncommitted DEF SaveSelect, UniqueOK, AnswersOK, Saving
<1>8. ASSUME NEW r \in Requests, SaveUpdate(r) PROVE UniqueOK'
  <2>1. Holds(req[r].id, req[r].user, req[r].clientId)
    BY <1>8 DEF SaveUpdate, UniqueOK, SavesOK, Saving
  <2>2. req[r].user \in Users /\ req[r].clientId \in ClientIds \cup {None} /\ UNCHANGED <<message, lastId>>
    BY <1>0, <1>8 DEF SaveUpdate, Knows, Sending, Call
  <2>3. Answer(r, req[r].user, req[r].clientId, req[r].id)
    BY <1>8 DEF SaveUpdate
  <2> QED
    BY <2>1, <2>2, <2>3, AnswersUnique
<1>9. ASSUME NEW r \in Requests, Die(r) PROVE UniqueOK'
  BY <1>9, EndsUnique DEF Die, UniqueOK, AnswersOK
<1>10. ASSUME NEW u \in Users, deleteUser(u) PROVE UniqueOK'
  BY <1>10, Uncommitted DEF deleteUser, UniqueOK, AnswersOK
<1>11. ASSUME NEW u \in Users, NEW t, markRead(u, t) PROVE UniqueOK'
  <2>1. \A i \in Ids : message[i] \in Row =>
          LET m == [message[i] EXCEPT !.read = TRUE]
          IN  m \in Row /\ m.sender = message[i].sender /\ m.clientId = message[i].clientId
    BY DEF Row
  <2>2. /\ Visible' = Visible
        /\ \A i \in Visible : message'[i].sender = message[i].sender /\ message'[i].clientId = message[i].clientId
    BY <1>0, <1>11, <2>1, NoneFacts DEF markRead, MarkUpTo, Visible
  <2>3. \A i, v, k : Holds(i, v, k)' <=> Holds(i, v, k)
    BY <2>2 DEF Holds
  <2> QED
    BY <1>11, <2>2, <2>3 DEF markRead, UniqueOK, DrawnOK, CommitsOK, IndexOK, SavesOK, AnswersOK
<1>12. CASE UNCHANGED vars
  BY <1>12, Uncommitted DEF vars, UniqueOK, AnswersOK
<1> QED
  BY <1>1, <1>2, <1>3, <1>4, <1>5, <1>6, <1>7, <1>8, <1>9, <1>10, <1>11, <1>12 DEF Next

(* Every answer to a clientId names one message, and there is no second    *)
(* one with it, across retries, races and calls that died.                 *)
THEOREM SentOnceTheorem == Spec => []SentOnce
<1>1. RowsOK /\ UniqueOK => SentOnce
  <2> SUFFICES ASSUME RowsOK, UniqueOK PROVE SentOnce
    OBVIOUS
  <2>1. ASSUME NEW a \in answered PROVE Sent(a.user, a.clientId) = {a.id}
    <3>1. a.id \in Visible /\ message[a.id].sender = a.user /\ message[a.id].clientId = a.clientId
      BY DEF UniqueOK, AnswersOK, Holds
    <3>2. a.clientId # None
      BY NoneFacts DEF RowsOK
    <3> QED
      BY <3>1, <3>2 DEF Sent, UniqueOK, IndexOK
  <2>2. ASSUME NEW a \in answered, NEW b \in answered, a.user = b.user, a.clientId = b.clientId
        PROVE  a.id = b.id
    <3>1. {a.id} = {b.id}
      BY <2>1, <2>2
    <3> QED
      BY <3>1
  <2> QED
    BY <2>1, <2>2 DEF SentOnce
<1> QED
  BY <1>1, ShapeInit, ShapeStep, UniqueInit, UniqueStep, PTL DEF Spec

-----------------------------------------------------------------------------
(***************************************************************************)
(* The summary of a conversation whose sends do not overlap                *)
(***************************************************************************)

(* The one call that saves saves the newest message and knows how the      *)
(* conversation differs; between saves it does not differ.                 *)
SaverOK == \A r \in Requests : req[r].pc \in Saving =>
  /\ req[r].id = newest
  /\ \A q \in Requests \ {r} : req[q].pc \notin Saving
DiffOK == \A r \in Requests : req[r].pc = "update" =>
  req[r].cols = {k \in Columns : entity(r)[k] # conversation[k]}
SavedOK == (\A r \in Requests : req[r].pc \notin Saving) /\ newest # None =>
  conversation = [at |-> ms(newest), preview |-> newest]

AloneOK == ~crossed => SaverOK /\ DiffOK /\ SavedOK

(* Nothing is being saved at the start. *)
LEMMA AloneInit == Init => AloneOK
<1> SUFFICES ASSUME Init PROVE AloneOK
  OBVIOUS
<1>1. newest = None /\ \A r \in Requests : req[r].pc = "idle"
  BY IdleTyped DEF Init
<1> QED
  BY <1>1 DEF AloneOK, SaverOK, DiffOK, SavedOK, Saving

(* Nothing is lost by a step of calls that neither save nor start to. *)
LEMMA Bystander ==
  ASSUME AloneOK, RowsOK, UNCHANGED newest,
         \A q \in Requests : req'[q] = req[q] \/ (req[q].pc \notin Saving /\ req'[q].pc \notin Saving),
         conversation # None => UNCHANGED conversation,
         \A q \in Requests : req[q].pc \in Saving => conversation # None
  PROVE  ~crossed => SaverOK' /\ DiffOK' /\ SavedOK'
<1> SUFFICES ASSUME ~crossed PROVE SaverOK' /\ DiffOK' /\ SavedOK'
  OBVIOUS
<1>1. SaverOK /\ DiffOK /\ SavedOK
  BY DEF AloneOK
<1>2. SaverOK'
  BY <1>1 DEF SaverOK, Saving
<1>3. DiffOK'
  <2> SUFFICES ASSUME NEW r \in Requests, req'[r].pc = "update"
               PROVE  (req[r].cols = {k \in Columns : entity(r)[k] # conversation[k]})'
    BY DEF DiffOK
  <2>1. req'[r] = req[r] /\ req[r].pc = "update"
    BY DEF Saving
  <2>2. UNCHANGED conversation
    BY <2>1 DEF Saving
  <2>3. (entity(r) = entity(r)')
    BY <2>1 DEF entity
  <2> QED
    BY <1>1, <2>1, <2>2, <2>3 DEF DiffOK
<1>4. SavedOK'
  <2> SUFFICES ASSUME \A r \in Requests : req'[r].pc \notin Saving, newest # None
               PROVE  (conversation = [at |-> ms(newest), preview |-> newest])'
    BY DEF SavedOK
  <2>1. conversation = [at |-> ms(newest), preview |-> newest]
    BY <1>1 DEF SavedOK
  <2>2. newest \in 1..MaxMessages /\ ms(newest) \in 0..MaxMessages
    BY NoneFacts, Milliseconds DEF RowsOK, Ids
  <2>3. conversation \in Summary
    BY <2>1, <2>2 DEF Summary, Ids
  <2> QED
    BY <2>1, <2>3, NoneFacts DEF ms
<1> QED
  BY <1>2, <1>3, <1>4

(* A send that begins to save while another does, or one that dies,        *)
(* crosses.                                                                *)
LEMMA AloneStep == RowsOK /\ CallsOK /\ AloneOK /\ [Next]_vars => AloneOK'
<1> SUFFICES ASSUME RowsOK, CallsOK, AloneOK, [Next]_vars, ~crossed' PROVE SaverOK' /\ DiffOK' /\ SavedOK'
  BY DEF AloneOK
<1> USE DEF historyVars
<1>0. /\ req \in [Requests -> Call] /\ lastId \in Nat /\ crossed \in BOOLEAN
      /\ \A r \in Requests : req[r] \in Call /\ Knows(req[r], conversation, lastId)
      /\ \A q \in Requests : req[q].pc \in Saving => conversation # None
  BY NoneFacts DEF RowsOK, CallsOK, Knows, Sending, Saving
<1>1. ASSUME NEW r \in Requests, getOrCreateConversation(r) PROVE SaverOK' /\ DiffOK' /\ SavedOK'
  <2> DEFINE c == [Idle EXCEPT !.pc = "create", !.at = ms(lastId)]
  <2>1. c.pc = "create" /\ req' = [req EXCEPT ![r] = c] /\ req[r].pc = "idle"
    BY <1>1, IdleTyped DEF getOrCreateConversation, Call
  <2> HIDE DEF c
  <2>2. \A q \in Requests : req'[q] = req[q] \/ (req[q].pc \notin Saving /\ req'[q].pc \notin Saving)
    BY <1>0, <2>1 DEF Saving
  <2> QED
    BY <1>0, <1>1, <2>2, Bystander DEF getOrCreateConversation
<1>2. ASSUME NEW r \in Requests, End(r), req[r].pc \notin Saving, UNCHANGED newest, ~crossed,
             conversation # None => UNCHANGED conversation
      PROVE  SaverOK' /\ DiffOK' /\ SavedOK'
  <2>1. \A q \in Requests : req'[q] = req[q] \/ (req[q].pc \notin Saving /\ req'[q].pc \notin Saving)
    BY <1>0, <1>2, IdleTyped DEF End, Saving
  <2> QED
    BY <1>0, <1>2, <2>1, Bystander
<1>3. ASSUME NEW r \in Requests, InsertConversation(r) PROVE SaverOK' /\ DiffOK' /\ SavedOK'
  BY <1>2, <1>3 DEF InsertConversation, Saving
<1>4. ASSUME NEW r \in Requests, NEW u \in Users, NEW k \in ClientIds \cup {None}, sendMessage(r, u, k)
      PROVE  SaverOK' /\ DiffOK' /\ SavedOK'
  <2>1. CASE \E i \in Sent(u, k) : Answer(r, u, k, i)
    BY <1>2, <1>4, <2>1 DEF sendMessage, Answer, Saving
  <2>2. CASE ~\E i \in Sent(u, k) : Answer(r, u, k, i)
    <3> DEFINE c == [Idle EXCEPT !.pc = "insert", !.user = u, !.clientId = k]
    <3>1. c.pc = "insert" /\ req' = [req EXCEPT ![r] = c] /\ req[r].pc = "idle"
      BY <1>4, <2>2, IdleTyped DEF sendMessage, Call
    <3> HIDE DEF c
    <3>2. \A q \in Requests : req'[q] = req[q] \/ (req[q].pc \notin Saving /\ req'[q].pc \notin Saving)
      BY <1>0, <3>1 DEF Saving
    <3> QED
      BY <1>0, <1>4, <3>2, Bystander DEF sendMessage
  <2> QED
    BY <2>1, <2>2
<1>5. ASSUME NEW r \in Requests, Insert(r) PROVE SaverOK' /\ DiffOK' /\ SavedOK'
  <2>1. \A q \in Requests : req'[q] = req[q] \/ (req[q].pc \notin Saving /\ req'[q].pc \notin Saving)
    BY <1>0, <1>5 DEF Insert, Saving, Call
  <2> QED
    BY <1>0, <1>5, <2>1, Bystander DEF Insert
<1>6. ASSUME NEW r \in Requests, Commit(r) PROVE SaverOK' /\ DiffOK' /\ SavedOK'
  <2>0. ~crossed /\ ~Crossing(r) /\ req[r].pc = "commit" /\ UNCHANGED conversation
    BY <1>6 DEF Commit
  <2>1. CASE Store(r)
    <3>1. /\ \A q \in Requests \ {r} : req'[q] = req[q] /\ req[q].pc \notin Saving
          /\ req'[r].pc = "select" /\ req'[r].id = req[r].id /\ newest' = req[r].id
      BY <1>0, <2>0, <2>1 DEF Store, Call, Crossing, Saving
    <3> QED
      BY <3>1 DEF SaverOK, DiffOK, SavedOK, Saving
  <2>2. CASE ~Store(r)
    <3>1. req' = [req EXCEPT ![r].pc = "raced"] /\ UNCHANGED newest
      BY <1>6, <2>2 DEF Commit
    <3>2. \A q \in Requests : req'[q] = req[q] \/ (req[q].pc \notin Saving /\ req'[q].pc \notin Saving)
      BY <1>0, <2>0, <3>1 DEF Call, Saving
    <3> QED
      BY <1>0, <2>0, <3>1, <3>2, Bystander
  <2> QED
    BY <2>1, <2>2
<1>7. ASSUME NEW r \in Requests, RereadWinner(r) PROVE SaverOK' /\ DiffOK' /\ SavedOK'
  BY <1>2, <1>7 DEF RereadWinner, Answer, Saving
<1>8. ASSUME NEW r \in Requests, SaveSelect(r) PROVE SaverOK' /\ DiffOK' /\ SavedOK'
  <2> DEFINE k == {x \in Columns : entity(r)[x] # conversation[x]}
  <2>1. /\ req' = [req EXCEPT ![r].pc = "update", ![r].cols = k] /\ req[r].pc = "select"
        /\ UNCHANGED <<conversation, newest, crossed>>
    BY <1>8 DEF SaveSelect
  <2>2. SaverOK /\ DiffOK /\ SavedOK
    BY <2>1 DEF AloneOK
  <2> HIDE DEF k
  <2>3. /\ \A q \in Requests \ {r} : req'[q] = req[q]
        /\ req'[r].pc = "update" /\ req'[r].id = req[r].id /\ req'[r].at = req[r].at /\ req'[r].cols = k
    BY <1>0, <2>1 DEF Call
  <2>4. SaverOK' /\ SavedOK'
    BY <2>1, <2>2, <2>3 DEF SaverOK, SavedOK, Saving
  <2>5. entity(r)' = entity(r)
    BY <2>3 DEF entity
  <2>6. \A q \in Requests \ {r} : req'[q].pc # "update"
    BY <2>1, <2>2, <2>3 DEF SaverOK, Saving
  <2>7. DiffOK'
    <3> SUFFICES ASSUME NEW q \in Requests, req'[q].pc = "update"
                 PROVE  req'[q].cols = {x \in Columns : entity(q)'[x] # conversation'[x]}
      BY DEF DiffOK
    <3>1. q = r
      BY <2>6
    <3>2. req'[r].cols = {x \in Columns : entity(r)[x] # conversation[x]}
      BY <2>3 DEF k
    <3> QED
      BY <2>1, <2>5, <3>1, <3>2, Zenon
  <2> QED
    BY <2>4, <2>7
<1>9. ASSUME NEW r \in Requests, SaveUpdate(r) PROVE SaverOK' /\ DiffOK' /\ SavedOK'
  <2>0. ~crossed /\ ~Crossing(r) /\ req[r].pc = "update" /\ UNCHANGED newest /\ End(r)
    BY <1>9 DEF SaveUpdate, Answer
  <2>1. \A q \in Requests : req'[q].pc \notin Saving
    BY <1>0, <2>0, IdleTyped DEF End, Crossing, Saving
  <2>2. req[r].id = newest /\ req[r].at = ms(newest)
    BY <1>0, <2>0 DEF AloneOK, SaverOK, Knows, Saving
  <2>3. req[r].cols = {k \in Columns : entity(r)[k] # conversation[k]}
    BY <2>0 DEF AloneOK, DiffOK
  <2>4. conversation' = [k \in Columns |-> entity(r)[k]]
    BY <1>9, <2>3 DEF SaveUpdate
  <2>5. conversation' = [at |-> ms(newest), preview |-> newest]
    BY <2>2, <2>4 DEF entity, Columns
  <2>6. SavedOK'
    BY <2>0, <2>5 DEF SavedOK, ms
  <2> QED
    BY <2>1, <2>6 DEF SaverOK, DiffOK, Saving
<1>10. ASSUME NEW r \in Requests, Die(r) PROVE SaverOK' /\ DiffOK' /\ SavedOK'
  <2>1. ~crossed /\ req[r].pc \notin Saving
    BY <1>10 DEF Die, Saving
  <2> QED
    BY <1>2, <1>10, <2>1 DEF Die
<1>11. ASSUME NEW u \in Users, deleteUser(u) PROVE SaverOK' /\ DiffOK' /\ SavedOK'
  BY <1>0, <1>11, Bystander DEF deleteUser
<1>12. ASSUME NEW u \in Users, NEW t, markRead(u, t) PROVE SaverOK' /\ DiffOK' /\ SavedOK'
  BY <1>0, <1>12, Bystander DEF markRead
<1>13. CASE UNCHANGED vars
  BY <1>0, <1>13, Bystander DEF vars
<1> QED
  BY <1>1, <1>3, <1>4, <1>5, <1>6, <1>7, <1>8, <1>9, <1>10, <1>11, <1>12, <1>13 DEF Next

(* As long as no two sends overlapped and none died, the conversation's    *)
(* summary is that of the newest message once every call has ended.        *)
THEOREM SummaryTheorem == Spec => []SummaryFollows
<1>1. AloneOK => SummaryFollows
  BY DEF AloneOK, SavedOK, SummaryFollows, Saving
<1> QED
  BY <1>1, ShapeInit, ShapeStep, AloneInit, AloneStep, PTL DEF Spec

-----------------------------------------------------------------------------
(***************************************************************************)
(* Read receipts                                                           *)
(***************************************************************************)

(* There are no messages at the start. *)
LEMMA HolesInit == Init => NoHoles
  BY DEF Init, Visible, NoHoles

(* A step that leaves the rows alone leaves them without holes. *)
LEMMA RowsStay == NoHoles /\ UNCHANGED <<message, late>> => NoHoles'
  BY DEF NoHoles, Visible

(* A read marks all it sees up to its marker; a message committed behind   *)
(* one that is read is late.                                               *)
LEMMA HolesStep == RowsOK /\ CallsOK /\ NoHoles /\ [Next]_vars => NoHoles'
<1> SUFFICES ASSUME RowsOK, CallsOK, NoHoles, [Next]_vars PROVE NoHoles'
  OBVIOUS
<1> USE DEF historyVars
<1>0. message \in [Ids -> Row \cup {None}] /\ late \subseteq Ids /\ \A i \in Ids : i \in Nat
  BY NoneFacts DEF RowsOK, Ids
<1>1. CASE UNCHANGED <<message, late>>
  BY <1>1, RowsStay
(* The committed row is unread, and late if a read one overtook it. *)
<1>2. ASSUME NEW r \in Requests, Store(r), req[r].pc = "commit" PROVE NoHoles'
  <2>1. req[r].id \in Ids /\ req[r] \in Call
    BY <1>2, NoneFacts DEF CallsOK, RowsOK, Knows, Sending, Ids
  <2>2. newRow(r).sender = req[r].user /\ newRow(r).read = FALSE
    BY DEF newRow
  <2>3. \A i \in Ids : message'[i] = IF i = req[r].id THEN newRow(r) ELSE message[i]
    BY <1>0, <1>2, <2>1 DEF Store
  <2>4. late' = IF OvertakenByRead(r) THEN late \cup {req[r].id} ELSE late
    BY <1>2 DEF Store
  <2> SUFFICES ASSUME NEW i \in Ids, NEW j \in Ids, message'[i] # None, message'[j] # None,
                      message'[i].sender = message'[j].sender, i < j,
                      message'[j].read, ~message'[i].read
               PROVE  i \in late'
    BY DEF NoHoles, Visible
  <2>5. j # req[r].id /\ j \in Visible
    BY <2>2, <2>3 DEF Visible
  <2>6. CASE i = req[r].id
    BY <2>2, <2>3, <2>4, <2>5, <2>6 DEF OvertakenByRead
  <2>7. CASE i # req[r].id
    BY <2>3, <2>4, <2>5, <2>7 DEF NoHoles, Visible
  <2> QED
    BY <2>6, <2>7
(* What is marked with a message includes the older ones of its sender. *)
<1>3. ASSUME NEW u \in Users, NEW t \in Nat, markRead(u, t) PROVE NoHoles'
  <2>1. \A i \in Ids : message'[i] = IF i \in MarkUpTo(u, t) THEN [message[i] EXCEPT !.read = TRUE]
                                     ELSE message[i]
    BY <1>3 DEF markRead
  <2>2. \A i \in Visible : message[i] \in Row
    BY <1>0 DEF Visible
  <2>3. \A i \in Ids : i \in MarkUpTo(u, t) => i \in Visible /\ message'[i].read /\ message'[i].sender = message[i].sender
    BY <2>1, <2>2 DEF MarkUpTo, Row
  <2>4. UNCHANGED late
    BY <1>3 DEF markRead
  <2> SUFFICES ASSUME NEW i \in Ids, NEW j \in Ids, message'[i] # None, message'[j] # None,
                      message'[i].sender = message'[j].sender, i < j,
                      message'[j].read, ~message'[i].read
               PROVE  i \in late
    BY <2>4 DEF NoHoles, Visible
  <2>5. i \notin MarkUpTo(u, t) /\ message'[i] = message[i] /\ i \in Visible
    BY <2>1, <2>3 DEF Visible
  <2>6. CASE j \in MarkUpTo(u, t)
    <3>1. message[j].sender # u /\ j <= t /\ message[i].sender = message[j].sender
      BY <2>3, <2>5, <2>6 DEF MarkUpTo
    <3>2. i <= t
      BY <1>0, <3>1
    <3> QED
      BY <2>5, <3>1, <3>2 DEF MarkUpTo
  <2>7. CASE j \notin MarkUpTo(u, t)
    BY <2>1, <2>5, <2>7 DEF NoHoles, Visible
  <2> QED
    BY <2>6, <2>7
<1>4. ASSUME NEW r \in Requests, Commit(r) PROVE NoHoles'
  BY <1>1, <1>2, <1>4 DEF Commit
<1>5. ASSUME NEW u \in Users, NEW t \in 0..lastId, markRead(u, ms(t)) PROVE NoHoles'
  <2>1. ms(t) \in Nat
    BY Milliseconds, NoneFacts DEF RowsOK
  <2> QED
    BY <1>3, <1>5, <2>1
<1>6. ASSUME NEW r \in Requests,
             \/ getOrCreateConversation(r) \/ InsertConversation(r)
             \/ \E u \in Users, c \in ClientIds \cup {None} : sendMessage(r, u, c)
             \/ Insert(r) \/ RereadWinner(r) \/ SaveSelect(r) \/ SaveUpdate(r) \/ Die(r)
      PROVE  NoHoles'
  BY <1>1, <1>6 DEF getOrCreateConversation, InsertConversation, sendMessage, Insert, RereadWinner,
                    SaveSelect, SaveUpdate, Die
<1>7. ASSUME NEW u \in Users, deleteUser(u) PROVE NoHoles'
  BY <1>1, <1>7 DEF deleteUser
<1>8. CASE UNCHANGED vars
  BY <1>1, <1>8 DEF vars
<1> QED
  BY <1>4, <1>5, <1>6, <1>7, <1>8 DEF Next

(* An unread message is older than a read one of the same sender only if   *)
(* it was committed after the other was read.                              *)
THEOREM NoHolesTheorem == Spec => []NoHoles
  BY ShapeInit, ShapeStep, HolesInit, HolesStep, PTL DEF Spec
=============================================================================
