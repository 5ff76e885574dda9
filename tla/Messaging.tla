------------------------------ MODULE Messaging ------------------------------
(***************************************************************************)
(* MessagingService for one fan and one creator: their conversation and    *)
(* its messages.                                                           *)
(*                                                                         *)
(* An INSERT draws the id and the creation time and becomes visible with   *)
(* its COMMIT, so ids may become visible out of order.  Time is counted in *)
(* messages: ids are creation times.  The database keeps PerMs of them per *)
(* millisecond, JavaScript dates only milliseconds.  Lists are Paging.     *)
(* save of the loaded conversation is a SELECT, which finds the columns    *)
(* that differ, and an UPDATE of those.  A body is named by its message's  *)
(* id.  MessageRateLimitGuard, before sendMessage, is RateLimits.          *)
(***************************************************************************)
EXTENDS Naturals, FiniteSets

CONSTANTS
  Fan, Creator,
  ClientIds,    \* idempotency keys of sends
  Requests,     \* calls that may be in flight together
  None,
  PerMs,        \* clock ticks in a millisecond
  MaxMessages,  \* bound on ids drawn
  MaxFailures   \* bound on calls that die between two statements

ASSUME MessagingAssumption ==
  /\ None \notin ClientIds \cup {Fan, Creator} /\ Fan # Creator
  /\ PerMs \in Nat \ {0}
  /\ MaxMessages \in Nat /\ MaxFailures \in Nat

VARIABLES
  conversation,  \* row: lastMessageAt, lastMessagePreview; None if there is none
  message,       \* committed messages by id; None if there is none
  lastId,        \* the id sequence
  deleted,       \* users with is_deleted
  req,           \* calls in flight
  \* History, read by properties only.
  answered,      \* answers of sendMessage to calls with a clientId
  newest,        \* id of the message committed last, or None
  crossed,       \* whether two sends overlapped, or one died
  late,          \* messages committed after a later one had been read
  failures

historyVars == <<answered, newest, crossed, late, failures>>
vars == <<conversation, message, lastId, deleted, req, historyVars>>

Users == {Fan, Creator}
Ids == 1..MaxMessages
Row == [sender : Users, clientId : ClientIds \cup {None}, read : BOOLEAN]
Summary == [at : 0..MaxMessages, preview : Ids \cup {None}]
Columns == {"at", "preview"}

(* null is neither an id nor a row. *)
ASSUME NoneAssumption == None \notin Nat \cup Row \cup Summary

Idle == [pc |-> "idle", user |-> None, clientId |-> None, id |-> None, at |-> 0, cols |-> {}]
Call ==
  [pc : {"idle", "create", "insert", "commit", "raced", "select", "update"},
   user : Users \cup {None}, clientId : ClientIds \cup {None}, id : Ids \cup {None},
   at : 0..MaxMessages, cols : SUBSET Columns]

TypeOK ==
  /\ conversation \in Summary \cup {None}
  /\ message \in [Ids -> Row \cup {None}]
  /\ lastId \in 0..MaxMessages
  /\ deleted \subseteq Users
  /\ req \in [Requests -> Call]
  /\ \A r \in Requests : req[r].pc \in {"commit", "raced", "select", "update"} =>
       req[r].id \in 1..lastId
  /\ late \subseteq Ids
  /\ answered \subseteq [user : Users, clientId : ClientIds, id : Ids]
  /\ newest \in Ids \cup {None}
  /\ crossed \in BOOLEAN
  /\ failures \in 0..MaxFailures

Init ==
  /\ conversation = None
  /\ message = [i \in Ids |-> None]
  /\ lastId = 0
  /\ deleted = {}
  /\ req = [r \in Requests |-> Idle]
  /\ answered = {} /\ newest = None
  /\ crossed = FALSE /\ late = {} /\ failures = 0

-----------------------------------------------------------------------------
Visible == {i \in Ids : message[i] # None}
ms(t) == t - (t % PerMs)

(* The message of this sender with this clientId, if one is committed *)
Sent(u, c) == {i \in Visible : c # None /\ message[i].sender = u /\ message[i].clientId = c}

(* A send is under way beside r. *)
Crossing(r) == \E q \in Requests \ {r} : req[q].pc \notin {"idle", "create"}

End(r) == req' = [req EXCEPT ![r] = Idle]

Answer(r, u, c, i) ==
  /\ End(r)
  /\ answered' = IF c = None THEN answered
                 ELSE answered \cup {[user |-> u, clientId |-> c, id |-> i]}

(* POST /conversations: users are checked, then the row; answering with an *)
(* existing row changes nothing.                                           *)
getOrCreateConversation(r) ==
  /\ req[r].pc = "idle"
  /\ deleted = {} /\ conversation = None
  /\ req' = [req EXCEPT ![r] = [Idle EXCEPT !.pc = "create", !.at = ms(lastId)]]
  /\ UNCHANGED <<conversation, message, lastId, deleted, historyVars>>

(* The unique pair lets one INSERT through; the other call answers with    *)
(* the winner's row.                                                       *)
InsertConversation(r) ==
  /\ req[r].pc = "create"
  /\ conversation' = IF conversation = None THEN [at |-> req[r].at, preview |-> None]
                     ELSE conversation
  /\ End(r)
  /\ UNCHANGED <<message, lastId, deleted, historyVars>>

(* An admin or the users themselves *)
deleteUser(u) ==
  /\ deleted' = deleted \cup {u}
  /\ UNCHANGED <<conversation, message, lastId, req, historyVars>>

\* Mutant: a retry goes on to update the conversation.
sendMessage_RetryBumps(r, u, c) ==
  /\ req[r].pc = "idle"
  /\ conversation # None /\ u \notin deleted
  /\ \/ \E i \in Sent(u, c) :
          /\ req' = [req EXCEPT ![r] = [Idle EXCEPT !.pc = "select", !.user = u, !.id = i,
                                          !.clientId = c, !.at = ms(i)]]
          /\ UNCHANGED answered
     \/ /\ Sent(u, c) = {} /\ deleted = {}
        /\ req' = [req EXCEPT ![r] = [Idle EXCEPT !.pc = "insert", !.user = u, !.clientId = c]]
        /\ UNCHANGED answered
  /\ UNCHANGED <<conversation, message, lastId, deleted, newest, crossed, late, failures>>

(* POST /conversations/:id/messages reads the conversation, the sender, a  *)
(* message with the clientId, which it answers with, and the recipient.    *)
sendMessage(r, u, c) ==
  /\ req[r].pc = "idle"
  /\ conversation # None /\ u \notin deleted
  /\ \/ \E i \in Sent(u, c) : Answer(r, u, c, i)
     \/ /\ Sent(u, c) = {} /\ deleted = {}
        /\ req' = [req EXCEPT ![r] = [Idle EXCEPT !.pc = "insert", !.user = u, !.clientId = c]]
        /\ UNCHANGED answered
  /\ UNCHANGED <<conversation, message, lastId, deleted, newest, crossed, late, failures>>

(* The INSERT draws the next id and the transaction's time. *)
Insert(r) ==
  /\ req[r].pc = "insert"
  /\ lastId < MaxMessages
  /\ lastId' = lastId + 1
  /\ req' = [req EXCEPT ![r].pc = "commit", ![r].id = lastId', ![r].at = lastId']
  /\ UNCHANGED <<conversation, message, deleted, historyVars>>

(* The row a call commits, and whether a later message of its sender has   *)
(* been read already                                                       *)
newRow(r) == [sender |-> req[r].user, clientId |-> req[r].clientId, read |-> FALSE]
OvertakenByRead(r) == \E i \in Visible :
  message[i].read /\ message[i].sender = req[r].user /\ i > req[r].id

Store(r) ==
  /\ message' = [message EXCEPT ![req[r].id] = newRow(r)]
  /\ req' = [req EXCEPT ![r].pc = "select", ![r].at = ms(req[r].at)]
  /\ newest' = req[r].id
  /\ late' = IF OvertakenByRead(r) THEN late \cup {req[r].id} ELSE late

\* Mutant: no unique index on the clientId.
Commit_NoUniqueIndex(r) ==
  /\ req[r].pc = "commit"
  /\ Store(r)
  /\ crossed' = (crossed \/ Crossing(r))
  /\ UNCHANGED <<conversation, lastId, deleted, answered, failures>>

\* Mutant: the loser of the race goes on without a message.
Commit_RaceGoesOn(r) ==
  /\ req[r].pc = "commit"
  /\ \/ Sent(req[r].user, req[r].clientId) = {} /\ Store(r)
     \/ /\ Sent(req[r].user, req[r].clientId) # {}
        /\ req' = [req EXCEPT ![r].pc = "select", ![r].id = None]
        /\ UNCHANGED <<message, newest, late>>
  /\ crossed' = (crossed \/ Crossing(r))
  /\ UNCHANGED <<conversation, lastId, deleted, answered, failures>>

(* Of two inserts with one clientId the second meets the unique index when *)
(* the first commits.                                                      *)
Commit(r) ==
  /\ req[r].pc = "commit"
  /\ \/ Sent(req[r].user, req[r].clientId) = {} /\ Store(r)
     \/ /\ Sent(req[r].user, req[r].clientId) # {}
        /\ req' = [req EXCEPT ![r].pc = "raced"]
        /\ UNCHANGED <<message, newest, late>>
  /\ crossed' = (crossed \/ Crossing(r))
  /\ UNCHANGED <<conversation, lastId, deleted, answered, failures>>

RereadWinner(r) ==
  /\ req[r].pc = "raced"
  /\ \E i \in Sent(req[r].user, req[r].clientId) : Answer(r, req[r].user, req[r].clientId, i)
  /\ UNCHANGED <<conversation, message, lastId, deleted, newest, crossed, late, failures>>

(* The conversation as this call saves it *)
entity(r) == [at |-> req[r].at, preview |-> req[r].id]

SaveSelect(r) ==
  /\ req[r].pc = "select"
  /\ req' = [req EXCEPT ![r].pc = "update",
                        ![r].cols = {k \in Columns : entity(r)[k] # conversation[k]}]
  /\ UNCHANGED <<conversation, message, lastId, deleted, historyVars>>

SaveUpdate(r) ==
  /\ req[r].pc = "update"
  /\ conversation' = [k \in Columns |-> IF k \in req[r].cols THEN entity(r)[k]
                                        ELSE conversation[k]]
  /\ Answer(r, req[r].user, req[r].clientId, req[r].id)
  /\ crossed' = (crossed \/ Crossing(r))
  /\ UNCHANGED <<message, lastId, deleted, newest, late, failures>>

(* A statement fails or the process restarts: the rest never happens. *)
Die(r) ==
  /\ req[r].pc # "idle" /\ failures < MaxFailures
  /\ failures' = failures + 1
  /\ End(r)
  /\ crossed' = (crossed \/ req[r].pc \in {"select", "update"})
  /\ UNCHANGED <<conversation, message, lastId, deleted, answered, newest, late>>

\* Mutant: only the messages of the marker's own millisecond are marked.
MarkUpTo_LastOnly(u, t) ==
  {i \in Visible : message[i].sender # u /\ ms(i) = t}

(* What markRead marks: the other one's messages up to a time *)
MarkUpTo(u, t) ==
  {i \in Visible : message[i].sender # u /\ i <= t}

(* POST /conversations/:id/read: up to a message of the conversation, or a *)
(* time, or now; each is a JavaScript date.  One UPDATE marks them.        *)
markRead(u, t) ==
  /\ conversation # None
  /\ message' = [i \in Ids |-> IF i \in MarkUpTo(u, t) THEN [message[i] EXCEPT !.read = TRUE]
                               ELSE message[i]]
  /\ UNCHANGED <<conversation, lastId, deleted, req, historyVars>>

Next ==
  \/ \E r \in Requests :
       \/ getOrCreateConversation(r) \/ InsertConversation(r)
       \/ \E u \in Users, c \in ClientIds \cup {None} : sendMessage(r, u, c)
       \/ Insert(r) \/ Commit(r) \/ RereadWinner(r) \/ SaveSelect(r) \/ SaveUpdate(r) \/ Die(r)
  \/ \E u \in Users : deleteUser(u) \/ \E t \in 0..lastId : markRead(u, ms(t))

Spec == Init /\ [][Next]_vars

-----------------------------------------------------------------------------
(***************************************************************************)
(* Properties                                                              *)
(***************************************************************************)

(* Every answer to a clientId names one message, and there is no second    *)
(* one with it, across retries, races and calls that died.                 *)
SentOnce ==
  /\ \A a, b \in answered : a.user = b.user /\ a.clientId = b.clientId => a.id = b.id
  /\ \A a \in answered : Sent(a.user, a.clientId) = {a.id}

(* As long as no two sends overlapped and none died, the conversation's    *)
(* summary is that of the newest message once every call has ended.        *)
SummaryFollows ==
  ~crossed /\ (\A r \in Requests : req[r].pc = "idle") /\ newest # None =>
    conversation = [at |-> ms(newest), preview |-> newest]

(* Read receipts have no holes: an unread message is older than a read one *)
(* of the same sender only if it was committed after the other was read.   *)
NoHoles ==
  \A i, j \in Visible :
    /\ message[i].sender = message[j].sender
    /\ i < j
    /\ message[j].read /\ ~message[i].read
    => i \in late
=============================================================================
