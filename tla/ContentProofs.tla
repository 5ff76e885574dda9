--------------------------- MODULE ContentProofs ---------------------------
(***************************************************************************)
(* Proofs about the three services of a creator's content, for any number  *)
(* of calls in flight, users, comments, posts and reports: Comments, and,  *)
(* under their names in MCContent, Posts and Moderation.                   *)
(***************************************************************************)
EXTENDS MCContent, FiniteSetTheorems, TLAPS

-----------------------------------------------------------------------------
(***************************************************************************)
(* Comments                                                                *)
(***************************************************************************)

(* What a call remembers of the comment it has read is still so, unless    *)
(* the comment changed since: a reply's parent is a comment at the top,    *)
(* which no later write moves, and an edit is its author's, of a comment   *)
(* that is not deleted.                                                    *)
CommentCallOK(r) ==
  /\ req[r].pc # "idle" => req[r].user \in Users
  /\ req[r].pc = "parent" => req[r].id # None
  /\ req[r].pc = "insert" /\ req[r].id # None =>
       Exists(req[r].id) /\ comment[req[r].id].parent = None
  /\ req[r].pc \in {"post", "select", "update"} =>
       /\ req[r].id # None /\ Exists(req[r].id)
       /\ req[r].pc = "post" => req[r].deleting
       /\ ~req[r].deleting => /\ req[r].user = comment[req[r].id].author
                              /\ r \notin outdated => ~comment[req[r].id].deleted

(* Comments are numbered as they are made. *)
NumberedOK == \E n \in 0..MaxComments : {c \in Ids : Exists(c)} = 1..n

CommentsShape ==
  /\ comment \in [Ids -> Row \cup {None}]
  /\ req \in [Requests -> Call]
  /\ outdated \subseteq Requests

CommentsOK == CommentsShape /\ NumberedOK /\ OneLevel /\ \A r \in Requests : CommentCallOK(r)

(* An idle call, and what None is not *)
LEMMA CommentIdle == /\ Idle \in Call /\ Idle.pc = "idle" /\ MaxComments \in Nat
                     /\ None \notin Row /\ None \notin Ids /\ Idle.deleting = FALSE
                     /\ Idle.user = None /\ Idle.id = None
  BY CommentsAssumption DEF Idle, Call

(* There are no comments at the start. *)
LEMMA CommentsInit == Init => CommentsOK
<1> SUFFICES ASSUME Init PROVE CommentsOK
  OBVIOUS
<1>1. CommentsShape
  BY CommentIdle DEF Init, CommentsShape
<1>2. {c \in Ids : Exists(c)} = 1..0
  BY DEF Init, Exists
<1>3. NumberedOK
  BY <1>2, CommentIdle DEF NumberedOK
<1>4. \A r \in Requests : req[r] = Idle
  BY DEF Init
<1>5. \A r \in Requests : CommentCallOK(r)
  BY <1>4, CommentIdle DEF CommentCallOK
<1> QED
  BY <1>1, <1>3, <1>5 DEF CommentsOK, OneLevel, Init, Exists

(* Steps that write no comment *)
LEMMA CommentsKeep ==
  ASSUME CommentsOK, NEW r \in Requests, NEW c \in Call, req' = [req EXCEPT ![r] = c],
         UNCHANGED comment, outdated' \in {outdated, outdated \ {r}},
         CommentCallOK(r)'
  PROVE  CommentsOK'
<1>1. req' \in [Requests -> Call] /\ \A q \in Requests \ {r} : req'[q] = req[q]
  BY DEF CommentsOK, CommentsShape
<1>2. \A q \in Requests \ {r} : CommentCallOK(q)'
  BY <1>1 DEF CommentsOK, CommentCallOK, Exists
<1>3. CommentsShape' /\ NumberedOK' /\ OneLevel'
  BY <1>1 DEF CommentsOK, CommentsShape, NumberedOK, OneLevel, Exists
<1> QED
  BY <1>2, <1>3 DEF CommentsOK

(* A call that begins has read nothing, or has just read its comment. *)
LEMMA CommentsBegin ==
  ASSUME CommentsOK, NEW r \in Requests, NEW c \in Call, Begin(r, c), UNCHANGED comment,
         c.pc # "idle", c.user \in Users,
         c.pc = "parent" => c.id # None,
         c.pc = "insert" => c.id = None,
         c.pc \in {"post", "select", "update"} =>
           /\ c.id # None /\ Exists(c.id) /\ ~comment[c.id].deleted
           /\ c.pc = "post" => c.deleting
           /\ ~c.deleting => c.user = comment[c.id].author
  PROVE  CommentsOK'
<1>1. req' = [req EXCEPT ![r] = c] /\ outdated' = outdated \ {r}
  BY DEF Begin
<1>2. req'[r] = c
  BY <1>1 DEF CommentsOK, CommentsShape
<1>3. CommentCallOK(r)'
  BY <1>1, <1>2 DEF CommentCallOK, Exists
<1> QED
  BY <1>1, <1>3, CommentsKeep

(* A call that ends remembers nothing. *)
LEMMA CommentsEnd ==
  ASSUME CommentsOK, NEW r \in Requests, req' = [req EXCEPT ![r] = Idle],
         UNCHANGED comment, outdated' \in {outdated, outdated \ {r}}
  PROVE  CommentsOK'
<1>1. req'[r] = Idle
  BY DEF CommentsOK, CommentsShape
<1>2. CommentCallOK(r)'
  BY <1>1, CommentIdle DEF CommentCallOK
<1> QED
  BY <1>2, CommentIdle, CommentsKeep

(* A call that has just looked goes on with what it found. *)
LEMMA CommentsGoto ==
  ASSUME CommentsOK, NEW r \in Requests, NEW step \in {"insert", "select"}, Goto(r, step),
         req[r].pc # "idle",
         step = "insert" => req[r].id # None /\ Exists(req[r].id) /\ comment[req[r].id].parent = None,
         step = "select" => req[r].pc = "post"
  PROVE  CommentsOK'
<1> DEFINE c == [req[r] EXCEPT !.pc = step]
<1>1. req[r] \in Call
  BY DEF CommentsOK, CommentsShape
<1>2. /\ c \in Call /\ c.pc = step /\ c.user = req[r].user /\ c.id = req[r].id
      /\ c.deleting = req[r].deleting
  BY <1>1 DEF Call
<1>3. req' = [req EXCEPT ![r] = c] /\ UNCHANGED <<comment, outdated>>
  BY DEF Goto
<1> HIDE DEF c
<1>4. req'[r] = c
  BY <1>3 DEF CommentsOK, CommentsShape
<1>5. CommentCallOK(r)
  BY DEF CommentsOK
<1>6. CommentCallOK(r)'
  BY <1>2, <1>3, <1>4, <1>5 DEF CommentCallOK, Exists
<1> QED
  BY <1>2, <1>3, <1>6, CommentsKeep

(* A new comment gets the next id, and a reply goes under a comment at the *)
(* top.                                                                    *)
LEMMA CommentsInsert ==
  ASSUME CommentsOK, NEW r \in Requests, Insert(r)
  PROVE  CommentsOK'
<1>1. PICK n \in 0..MaxComments : {c \in Ids : Exists(c)} = 1..n
  BY DEF CommentsOK, NumberedOK
<1>2. n \in Nat /\ Cardinality(1..n) = n
  BY <1>1, FS_Interval, CommentIdle
<1> DEFINE new == n + 1
           row == [author |-> req[r].user, parent |-> req[r].id, deleted |-> FALSE]
<1>3. /\ req[r].pc = "insert" /\ new \in Ids /\ req' = [req EXCEPT ![r] = Idle]
      /\ comment' = [comment EXCEPT ![new] = row] /\ UNCHANGED outdated
  BY <1>1, <1>2 DEF Insert, NextId
<1>4. CommentsShape /\ OneLevel /\ \A q \in Requests : CommentCallOK(q) /\ req[q] \in Call
  BY DEF CommentsOK, CommentsShape
<1>5. row \in Row /\ row.parent = req[r].id /\ row # None
  <2>1. req[r].user \in Users /\ req[r].id \in Ids \cup {None}
    BY <1>3, <1>4 DEF CommentCallOK, Call
  <2>2. row \in Row
    BY <2>1 DEF Row
  <2> QED
    BY <2>2, CommentIdle
<1>6. {c \in Ids : Exists(c)} = 1..n /\ 1..new = (1..n) \cup {new} /\ new \notin 1..n /\ new \in 0..MaxComments
  BY <1>1, <1>2, <1>3 DEF Ids
<1> HIDE DEF new, row
<1>7. /\ comment' \in [Ids -> Row \cup {None}] /\ comment'[new] = row
      /\ \A c \in Ids \ {new} : comment'[c] = comment[c]
      /\ ~Exists(new)
  BY <1>3, <1>4, <1>5, <1>6 DEF CommentsShape
<1>8. \A c \in Ids : Exists(c)' <=> Exists(c) \/ c = new
  BY <1>5, <1>7 DEF Exists
<1>9. NumberedOK'
  BY <1>6, <1>8 DEF NumberedOK
<1>10. /\ req' \in [Requests -> Call] /\ req'[r] = Idle
       /\ \A q \in Requests \ {r} : req'[q] = req[q]
  BY <1>3, <1>4, CommentIdle DEF CommentsShape
<1>11. CommentsShape'
  BY <1>3, <1>4, <1>7, <1>10 DEF CommentsShape
<1>12. OneLevel'
  <2>1. \A c \in Ids : comment[c] # None => comment[c] \in Row
    BY <1>4 DEF CommentsShape
  <2>2. \A c \in Ids : comment'[c] # None => comment'[c].parent \in Ids \cup {None}
    BY <1>7 DEF Row
  <2>3. req[r].id # None => req[r].id \in Ids \ {new} /\ comment[req[r].id] # None /\ comment[req[r].id].parent = None
    BY <1>3, <1>4, <1>7 DEF CommentCallOK, Call, Exists
  <2>4. ASSUME NEW c \in Ids, comment'[c] # None, comment'[c].parent # None
        PROVE  comment'[comment'[c].parent] # None /\ comment'[comment'[c].parent].parent = None
    <3>1. CASE c = new
      BY <1>5, <1>7, <2>3, <2>4, <3>1
    <3>2. CASE c # new
      <4>1. comment[c] # None /\ comment[c].parent # None /\ comment'[c] = comment[c]
        BY <1>7, <2>4, <3>2
      <4>2. PICK p \in Ids : p = comment[c].parent
        BY <2>1, <4>1 DEF Row
      <4>3. Exists(p) /\ comment[p].parent = None
        BY <1>4, <4>1, <4>2 DEF OneLevel, Exists
      <4> QED
        BY <1>7, <4>1, <4>2, <4>3 DEF Exists
    <3> QED
      BY <3>1, <3>2
  <2> QED
    BY <2>4 DEF OneLevel, Exists
<1>13. ASSUME NEW q \in Requests PROVE CommentCallOK(q)'
  <2>1. CASE q = r
    BY <1>10, <2>1, CommentIdle DEF CommentCallOK
  <2>2. CASE q # r
    <3>1. CommentCallOK(q) /\ req'[q] = req[q] /\ req[q].id \in Ids \cup {None} /\ outdated' = outdated
      BY <1>3, <1>4, <1>10, <2>2 DEF Call
    <3>2. \A c \in Ids : Exists(c) => Exists(c)' /\ comment'[c] = comment[c]
      BY <1>7, <1>8
    <3> QED
      BY <3>1, <3>2 DEF CommentCallOK, Exists
  <2> QED
    BY <2>1, <2>2
<1> QED
  BY <1>9, <1>11, <1>12, <1>13 DEF CommentsOK

(* A save changes no parent, and outdates those who have read the comment. *)
LEMMA CommentsSave ==
  ASSUME CommentsOK, NEW r \in Requests, SaveUpdate(r)
  PROVE  CommentsOK'
<1>1. CASE UNCHANGED comment
  BY <1>1, CommentsEnd DEF SaveUpdate
<1>2. CASE comment' # comment
  <2>1. PICK d \in Ids : d = req[r].id
    BY DEF SaveUpdate, CommentsOK, CommentsShape, CommentCallOK, Call
  <2>2. CommentsShape /\ OneLevel /\ NumberedOK /\ \A q \in Requests : CommentCallOK(q) /\ req[q] \in Call
    BY DEF CommentsOK, CommentsShape
  <2>3. req[r].pc = "update" /\ Exists(d) /\ comment[d] \in Row /\ req[r].deleting \in BOOLEAN
    BY <2>1, <2>2 DEF SaveUpdate, CommentCallOK, CommentsShape, Exists, Call
  <2>4. /\ comment' = [comment EXCEPT ![d].deleted = req[r].deleting]
        /\ req' = [req EXCEPT ![r] = Idle]
        /\ outdated' = (outdated \ {r}) \cup {q \in Requests \ {r} : req[q].id = d}
    BY <1>2, <2>1 DEF SaveUpdate, Outdates
  <2> DEFINE row == [comment[d] EXCEPT !.deleted = req[r].deleting]
  <2>5. row \in Row /\ row.parent = comment[d].parent /\ row.author = comment[d].author /\ row # None
    BY <2>3, CommentIdle DEF Row
  <2>6. /\ comment' \in [Ids -> Row \cup {None}] /\ comment'[d] = row
        /\ \A c \in Ids \ {d} : comment'[c] = comment[c]
    BY <2>2, <2>4, <2>5 DEF CommentsShape
  <2> HIDE DEF row
  <2>7. \A c \in Ids : /\ Exists(c)' <=> Exists(c)
                       /\ Exists(c) => /\ comment'[c].parent = comment[c].parent
                                       /\ comment'[c].author = comment[c].author
    BY <2>3, <2>5, <2>6 DEF Exists
  <2>8. /\ req' \in [Requests -> Call] /\ req'[r] = Idle
        /\ \A q \in Requests \ {r} : req'[q] = req[q]
    BY <2>2, <2>4, CommentIdle DEF CommentsShape
  <2>9. CommentsShape' /\ NumberedOK'
    BY <2>2, <2>4, <2>6, <2>7, <2>8 DEF CommentsShape, NumberedOK
  <2>10. OneLevel'
    <3>1. \A c \in Ids : Exists(c) /\ comment[c].parent # None => comment[c].parent \in Ids
      BY <2>2 DEF CommentsShape, Exists, Row
    <3>2. \A c, p \in Ids : Exists(c) /\ p = comment[c].parent =>
            Exists(p)' /\ comment'[p].parent = None /\ comment'[c].parent = p
      BY <2>2, <2>7, CommentIdle DEF OneLevel
    <3>3. \A c, p \in Ids : Exists(c)' /\ p = comment'[c].parent => comment'[p] # None /\ comment'[p].parent = None
      BY <2>7, <3>2 DEF Exists
    <3>4. \A c \in Ids : Exists(c)' /\ comment'[c].parent # None => comment'[c].parent \in Ids
      BY <2>7, <3>1
    <3> QED
      BY <3>3, <3>4 DEF OneLevel, Exists
  <2>11. ASSUME NEW q \in Requests PROVE CommentCallOK(q)'
    <3>1. CASE q = r
      BY <2>8, <3>1, CommentIdle DEF CommentCallOK
    <3>2. CASE q # r
      <4>1. CommentCallOK(q) /\ req'[q] = req[q] /\ req[q].id \in Ids \cup {None}
        BY <2>2, <2>8, <3>2 DEF Call
      <4>2. CASE req[q].id = d
        <5>1. q \in outdated'
          BY <2>4, <3>2, <4>2
        <5> QED
          BY <2>7, <4>1, <4>2, <5>1 DEF CommentCallOK, Exists
      <4>3. CASE req[q].id = None
        BY <4>1, <4>3 DEF CommentCallOK
      <4>4. CASE req[q].id \in Ids \ {d}
        <5>1. comment'[req[q].id] = comment[req[q].id] /\ (q \in outdated' <=> q \in outdated)
          BY <2>4, <2>6, <3>2, <4>4
        <5> QED
          BY <4>1, <5>1 DEF CommentCallOK, Exists
      <4> QED
        BY <4>1, <4>2, <4>3, <4>4
    <3> QED
      BY <3>1, <3>2
  <2> QED
    BY <2>9, <2>10, <2>11 DEF CommentsOK
<1> QED
  BY <1>1, <1>2

(* Every statement of a call on comments keeps CommentsOK. *)
LEMMA CommentsStep == CommentsOK /\ [Next]_vars => CommentsOK'
<1> SUFFICES ASSUME CommentsOK, [Next]_vars PROVE CommentsOK'
  OBVIOUS
<1>0. CommentsShape /\ \A r \in Requests : req[r] \in Call /\ CommentCallOK(r)
  BY DEF CommentsOK, CommentsShape
<1>1. ASSUME NEW r \in Requests, NEW u \in Users, NEW p \in Ids \cup {None}, createComment(r, u, p)
      PROVE  CommentsOK'
  <2> DEFINE c == [Idle EXCEPT !.pc = IF p = None THEN "insert" ELSE "parent", !.user = u, !.id = p]
  <2>1. c \in Call /\ c.pc = (IF p = None THEN "insert" ELSE "parent") /\ c.user = u /\ c.id = p
    BY CommentIdle DEF Call
  <2>2. Begin(r, c) /\ UNCHANGED comment
    BY <1>1 DEF createComment
  <2> HIDE DEF c
  <2> QED
    BY <2>1, <2>2, CommentsBegin
<1>2. ASSUME NEW r \in Requests, NEW u \in Users, NEW d \in Ids, updateComment(r, u, d)
      PROVE  CommentsOK'
  <2> DEFINE c == [Idle EXCEPT !.pc = "select", !.user = u, !.id = d]
  <2>1. c \in Call /\ c.pc = "select" /\ c.user = u /\ c.id = d
    BY CommentIdle DEF Call
  <2>2. Begin(r, c) /\ UNCHANGED comment /\ Exists(d) /\ ~comment[d].deleted /\ comment[d].author = u /\ d # None
    BY <1>2, CommentIdle DEF updateComment
  <2> HIDE DEF c
  <2> QED
    BY <2>1, <2>2, CommentsBegin
<1>3. ASSUME NEW r \in Requests, NEW u \in Users, NEW d \in Ids, deleteComment(r, u, d)
      PROVE  CommentsOK'
  <2> DEFINE c == [Idle EXCEPT !.pc = "post", !.user = u, !.id = d, !.deleting = TRUE]
  <2>1. c \in Call /\ c.pc = "post" /\ c.user = u /\ c.id = d /\ c.deleting
    BY CommentIdle DEF Call
  <2>2. Begin(r, c) /\ UNCHANGED comment /\ Exists(d) /\ ~comment[d].deleted /\ d # None
    BY <1>3, CommentIdle DEF deleteComment
  <2> HIDE DEF c
  <2> QED
    BY <2>1, <2>2, CommentsBegin
<1>4. ASSUME NEW r \in Requests, Refuse(r) PROVE CommentsOK'
  BY <1>4, CommentsEnd DEF Refuse
<1>5. ASSUME NEW r \in Requests, FindParent(r) PROVE CommentsOK'
  <2>1. req[r].pc = "parent" /\ req[r].id # None
    BY <1>0, <1>5 DEF FindParent, CommentCallOK
  <2> QED
    BY <1>4, <1>5, <2>1, CommentsGoto DEF FindParent
<1>6. ASSUME NEW r \in Requests, FindPost(r) PROVE CommentsOK'
  BY <1>4, <1>6, CommentsGoto DEF FindPost
<1>7. ASSUME NEW r \in Requests, SaveSelect(r) PROVE CommentsOK'
  <2> DEFINE c == [req[r] EXCEPT !.pc = "update", !.differs = req[r].deleting \/ comment[req[r].id].deleted]
  <2>1. CommentCallOK(r) /\ req[r].pc = "select" /\ req[r].id \in Ids /\ Exists(req[r].id)
    BY <1>0, <1>7 DEF SaveSelect, CommentCallOK, Call
  <2>2. comment[req[r].id].deleted \in BOOLEAN
    BY <1>0, <2>1 DEF CommentsShape, Exists, Row
  <2>3. /\ c \in Call /\ c.pc = "update" /\ c.user = req[r].user /\ c.id = req[r].id
        /\ c.deleting = req[r].deleting
    BY <1>0, <2>2 DEF Call
  <2>4. req' = [req EXCEPT ![r] = c] /\ UNCHANGED <<comment, outdated>>
    BY <1>7 DEF SaveSelect
  <2> HIDE DEF c
  <2>5. req'[r] = c
    BY <1>0, <2>4 DEF CommentsShape
  <2>6. CommentCallOK(r)'
    BY <2>1, <2>3, <2>4, <2>5 DEF CommentCallOK, Exists
  <2> QED
    BY <2>3, <2>4, <2>6, CommentsKeep
<1>8. CASE UNCHANGED vars
  BY <1>8 DEF vars, CommentsOK, CommentsShape, NumberedOK, OneLevel, CommentCallOK, Exists
<1> QED
  BY <1>1, <1>2, <1>3, <1>5, <1>6, <1>7, <1>8, CommentsInsert, CommentsSave DEF Next

(* Threads are one level deep whatever is created, edited and deleted      *)
(* meanwhile: the parent of a reply is a top-level comment.                *)
THEOREM OneLevelTheorem == Spec => []OneLevel
<1>1. CommentsOK => OneLevel
  BY DEF CommentsOK
<1> QED
  BY <1>1, CommentsInit, CommentsStep, PTL DEF Spec

(* What undoes a tombstone is the save of an outdated edit. *)
LEMMA UndoneStep ==
  ASSUME CommentsOK, [Next]_vars, NEW d \in Ids, Exists(d), comment[d].deleted, ~comment'[d].deleted
  PROVE  \E r \in outdated : req[r].pc = "update" /\ req[r].id = d /\ req[r].user = comment[d].author
<1>1. CommentsShape /\ \A r \in Requests : req[r] \in Call /\ CommentCallOK(r)
  BY DEF CommentsOK, CommentsShape
<1>2. CASE \E r \in Requests : SaveUpdate(r)
  <2>1. PICK r \in Requests : SaveUpdate(r)
    BY <1>2
  <2>2. PICK c \in Ids : c = req[r].id
    BY <1>1, <2>1 DEF SaveUpdate, CommentCallOK, Call
  <2>3. /\ req[r].pc = "update" /\ req[r].deleting \in BOOLEAN /\ comment[c] \in Row
        /\ comment' \in {comment, [comment EXCEPT ![c].deleted = req[r].deleting]}
    BY <1>1, <2>1, <2>2 DEF SaveUpdate, Call, CommentCallOK, Exists, CommentsShape
  <2>4. comment' = [comment EXCEPT ![c].deleted = req[r].deleting] /\ comment' # comment
    BY <2>3
  <2>5. c = d /\ ~req[r].deleting
    BY <1>1, <2>3, <2>4 DEF CommentsShape, Row
  <2>6. r \in outdated /\ req[r].user = comment[d].author
    <3>1. CommentCallOK(r) /\ req[r].id = d
      BY <1>1, <2>2, <2>5
    <3> QED
      BY <2>3, <2>5, <3>1 DEF CommentCallOK
  <2> QED
    BY <2>2, <2>3, <2>5, <2>6
<1>3. CASE \E r \in Requests : Insert(r)
  <2>1. PICK r \in Requests : Insert(r)
    BY <1>3
  <2>2. PICK n \in 0..MaxComments : {c \in Ids : Exists(c)} = 1..n
    BY DEF CommentsOK, NumberedOK
  <2>3. n \in Nat /\ Cardinality(1..n) = n /\ d \in 1..n
    BY <2>2, FS_Interval, CommentIdle
  <2>4. d # n + 1
    BY <2>3
  <2>5. NextId = n + 1
    BY <2>2, <2>3 DEF NextId
  <2> QED
    BY <1>1, <2>1, <2>4, <2>5 DEF Insert, CommentsShape
<1> QED
  BY <1>2, <1>3 DEF Next, vars, createComment, updateComment, deleteComment, FindParent,
       FindPost, SaveSelect, Goto, Refuse

(* A tombstone is undone only by an edit of its author that had read the   *)
(* comment before it was deleted.                                          *)
THEOREM TombstonesTheorem == Spec => TombstonesUndone
<1>1. CommentsOK /\ [Next]_vars =>
        [\A c \in Ids : Exists(c) /\ comment[c].deleted /\ ~comment'[c].deleted =>
           \E r \in outdated : /\ req[r].pc = "update" /\ req[r].id = c
                               /\ req[r].user = comment[c].author]_vars
  BY UndoneStep
<1> QED
  BY <1>1, CommentsInit, CommentsStep, PTL DEF Spec, TombstonesUndone

-----------------------------------------------------------------------------
(***************************************************************************)
(* Moderation                                                              *)
(***************************************************************************)

(* A call that is not outdated knows the reports it decides by: a report   *)
(* is inserted when its reporter has none open; what a decision has not    *)
(* to write is in the row; a decision to be logged is what the row shows.  *)
ReportCallOK(r) ==
  LET c == reportReq[r] IN
  /\ c.pc = "insert" => /\ c.user \in Reporters
                        /\ r \notin reportOutdated => Moderation!Open(c.user) = {}
  /\ c.pc \in {"select", "update", "log"} =>
       /\ c.id \in Moderation!Ids /\ Moderation!Exists(c.id)
       /\ c.user \in Admins /\ c.status \in Moderation!Decisions
  /\ c.pc = "update" =>
       /\ "status" \in c.cols \/ report[c.id].status # "open"
       /\ "resolvedBy" \in c.cols \/ report[c.id].resolvedBy # None
       /\ r \notin reportOutdated =>
            /\ "status" \in c.cols \/ report[c.id].status = c.status
            /\ "resolvedBy" \in c.cols \/ report[c.id].resolvedBy = c.user
  /\ c.pc = "log" /\ r \notin reportOutdated /\ c.id \notin contested =>
       report[c.id].status = c.status /\ report[c.id].resolvedBy = c.user

(* Reports are numbered as they are made. *)
ReportsNumbered == \E n \in 0..MaxReports : {i \in Moderation!Ids : Moderation!Exists(i)} = 1..n

ReportsOK ==
  /\ Moderation!TypeOK /\ ReportsNumbered /\ Moderation!AuditFollows
  /\ \A r \in Requests : ReportCallOK(r)

(* An idle call, and what None is not *)
LEMMA ReportFacts ==
  /\ Moderation!Idle \in Moderation!Call /\ Moderation!Idle.pc = "idle"
  /\ MaxReports \in Nat
  /\ None \notin Moderation!Row /\ None \notin Moderation!Ids /\ None \notin Reporters
  /\ None \notin Admins /\ Moderation!Ids = 1..MaxReports
  BY ContentAssumption DEF Moderation!ModerationAssumption, Moderation!Idle, Moderation!Call,
     Moderation!Columns, Moderation!Ids

(* There are no reports at the start. *)
LEMMA ReportsInit == Moderation!Init => ReportsOK
<1> SUFFICES ASSUME Moderation!Init PROVE ReportsOK
  OBVIOUS
<1>1. \A i \in Moderation!Ids : ~Moderation!Exists(i)
  BY DEF Moderation!Init, Moderation!Exists
<1>2. \A r \in Requests : reportReq[r] = Moderation!Idle
  BY DEF Moderation!Init
<1>3. Moderation!TypeOK
  BY <1>1, ReportFacts DEF Moderation!Init, Moderation!TypeOK
<1>4. {i \in Moderation!Ids : Moderation!Exists(i)} = 1..0
  BY <1>1
<1>5. ReportsNumbered
  BY <1>4, ReportFacts DEF ReportsNumbered
<1>6. \A r \in Requests : ReportCallOK(r)
  BY <1>2, ReportFacts DEF ReportCallOK
<1> QED
  BY <1>1, <1>3, <1>5, <1>6 DEF ReportsOK, Moderation!AuditFollows

(* Steps that write no report and no log *)
LEMMA ReportsKeep ==
  ASSUME ReportsOK, NEW r \in Requests, NEW c \in Moderation!Call,
         reportReq' = [reportReq EXCEPT ![r] = c],
         UNCHANGED <<report, audit>>,
         reportOutdated' \in {reportOutdated, reportOutdated \ {r}},
         contested \subseteq contested', contested' \subseteq Moderation!Ids,
         reportReq[r].pc = "log" => reportReq[r].id \in contested',
         ReportCallOK(r)'
  PROVE  ReportsOK'
<1>1. reportReq' \in [Requests -> Moderation!Call] /\ \A q \in Requests \ {r} : reportReq'[q] = reportReq[q]
  BY DEF ReportsOK, Moderation!TypeOK
<1>2. \A q \in Requests \ {r} : ReportCallOK(q)'
  BY <1>1 DEF ReportsOK, ReportCallOK, Moderation!Exists, Moderation!Open
<1>3. Moderation!TypeOK' /\ ReportsNumbered'
  BY <1>1 DEF ReportsOK, Moderation!TypeOK, ReportsNumbered, Moderation!Exists
<1>4. Moderation!AuditFollows'
  <2> SUFFICES ASSUME NEW i \in Moderation!Ids \ contested', Moderation!Exists(i),
                      report[i].status # "open",
                      \A q \in Requests : ~(reportReq'[q].pc = "log" /\ reportReq'[q].id = i)
               PROVE  audit[i] = [status |-> report[i].status, resolvedBy |-> report[i].resolvedBy]
    BY DEF Moderation!AuditFollows, Moderation!Exists
  <2>1. \A q \in Requests : ~(reportReq[q].pc = "log" /\ reportReq[q].id = i)
    BY <1>1
  <2> QED
    BY <2>1 DEF ReportsOK, Moderation!AuditFollows
<1> QED
  BY <1>2, <1>3, <1>4 DEF ReportsOK

(* A call that begins has just read what it decides by. *)
LEMMA ReportsBegin ==
  ASSUME ReportsOK, NEW r \in Requests, NEW c \in Moderation!Call, Moderation!Begin(r, c),
         UNCHANGED <<report, audit, contested>>,
         c.pc = "insert" => c.user \in Reporters /\ Moderation!Open(c.user) = {},
         c.pc = "select" =>
           /\ c.id \in Moderation!Ids /\ Moderation!Exists(c.id)
           /\ c.user \in Admins /\ c.status \in Moderation!Decisions,
         c.pc \in {"insert", "select"}
  PROVE  ReportsOK'
<1>1. /\ reportReq' = [reportReq EXCEPT ![r] = c] /\ reportOutdated' = reportOutdated \ {r}
      /\ reportReq[r].pc = "idle"
  BY DEF Moderation!Begin
<1>2. reportReq'[r] = c
  BY <1>1 DEF ReportsOK, Moderation!TypeOK
<1>3. ReportCallOK(r)'
  BY <1>1, <1>2 DEF ReportCallOK, Moderation!Exists, Moderation!Open
<1>4. contested' \subseteq Moderation!Ids
  BY DEF ReportsOK, Moderation!TypeOK
<1> QED
  BY <1>1, <1>3, <1>4, ReportsKeep

(* FiniteSets is the same module for Moderation as it is here. *)
LEMMA ReportsCardinality == ASSUME NEW S PROVE Moderation!Cardinality(S) = Cardinality(S)
  BY Zenon DEF Moderation!Cardinality, Cardinality

(* A report gets the next id. *)
LEMMA InsertsNext ==
  ASSUME ReportsOK, NEW r \in Requests, Moderation!Insert(r)
  PROVE  \E new \in Moderation!Ids, row \in Moderation!Row :
           /\ ~Moderation!Exists(new)
           /\ row.reporter = reportReq[r].user /\ row.status = "open" /\ row.resolvedBy = None
           /\ report' = [report EXCEPT ![new] = row]
           /\ ReportsNumbered'
<1>1. PICK n \in 0..MaxReports : {i \in Moderation!Ids : Moderation!Exists(i)} = 1..n
  BY DEF ReportsOK, ReportsNumbered
<1>2. n \in Nat /\ Cardinality(1..n) = n
  BY <1>1, FS_Interval, ReportFacts
<1> DEFINE new == n + 1
           row == [reporter |-> reportReq[r].user, status |-> "open", resolvedBy |-> None]
<1>3. Moderation!NextId = new
  BY <1>1, <1>2, ReportsCardinality DEF Moderation!NextId
<1>4. new \in Moderation!Ids /\ report' = [report EXCEPT ![new] = row] /\ reportReq[r].pc = "insert"
  BY <1>3 DEF Moderation!Insert
<1>5. reportReq[r].user \in Reporters
  BY <1>4 DEF ReportsOK, ReportCallOK
<1>6. row \in Moderation!Row
  BY <1>5 DEF Moderation!Row
<1>7. new \notin 1..n /\ 1..new = (1..n) \cup {new} /\ new \in 0..MaxReports
  BY <1>2, <1>4, ReportFacts
<1>8. row.reporter = reportReq[r].user /\ row.status = "open" /\ row.resolvedBy = None
  OBVIOUS
<1> HIDE DEF new, row
<1>9. report \in [Moderation!Ids -> Moderation!Row \cup {None}] /\ row # None
  BY <1>6, ReportFacts DEF ReportsOK, Moderation!TypeOK
<1>10. \A i \in Moderation!Ids : Moderation!Exists(i)' <=> Moderation!Exists(i) \/ i = new
  BY <1>4, <1>9 DEF Moderation!Exists
<1>11. {i \in Moderation!Ids : Moderation!Exists(i)}' = 1..new
  BY <1>1, <1>4, <1>7, <1>10
<1>12. ReportsNumbered'
  BY <1>7, <1>11 DEF ReportsNumbered
<1> QED
  BY <1>1, <1>4, <1>6, <1>7, <1>8, <1>12

(* A new report is open, and makes the calls that looked before it         *)
(* outdated.                                                               *)
LEMMA ReportsInsert ==
  ASSUME ReportsOK, NEW r \in Requests, Moderation!Insert(r)
  PROVE  ReportsOK'
<1>1. PICK new \in Moderation!Ids, row \in Moderation!Row :
        /\ ~Moderation!Exists(new)
        /\ row.reporter = reportReq[r].user /\ row.status = "open" /\ row.resolvedBy = None
        /\ report' = [report EXCEPT ![new] = row]
        /\ ReportsNumbered'
  BY InsertsNext
<1>2. Moderation!TypeOK /\ \A q \in Requests : ReportCallOK(q) /\ reportReq[q] \in Moderation!Call
  BY DEF ReportsOK, Moderation!TypeOK
<1>3. /\ reportReq[r].pc = "insert" /\ reportReq' = [reportReq EXCEPT ![r] = Moderation!Idle]
      /\ reportOutdated' = (reportOutdated \cup {q \in Requests :
           reportReq[q].pc = "insert" /\ reportReq[q].user = reportReq[r].user}) \ {r}
      /\ UNCHANGED <<audit, contested>>
  BY DEF Moderation!Insert, Moderation!Outdates
<1>4. /\ report' \in [Moderation!Ids -> Moderation!Row \cup {None}] /\ report'[new] = row
      /\ \A i \in Moderation!Ids \ {new} : report'[i] = report[i]
  BY <1>1, <1>2 DEF Moderation!TypeOK
<1>5. \A i \in Moderation!Ids : Moderation!Exists(i) => report'[i] = report[i] /\ Moderation!Exists(i)'
  BY <1>1, <1>4 DEF Moderation!Exists
<1>6. /\ reportReq' \in [Requests -> Moderation!Call] /\ reportReq'[r] = Moderation!Idle
      /\ \A q \in Requests \ {r} : reportReq'[q] = reportReq[q]
  BY <1>2, <1>3, ReportFacts DEF Moderation!TypeOK
<1>7. Moderation!TypeOK'
  <2>1. \A i \in Moderation!Ids : Moderation!Exists(i)' => (report'[i].status = "open" <=> report'[i].resolvedBy = None)
    BY <1>1, <1>2, <1>4 DEF Moderation!TypeOK, Moderation!Exists
  <2>2. reportOutdated' \subseteq Requests
    BY <1>2, <1>3 DEF Moderation!TypeOK
  <2> QED
    BY <1>2, <1>3, <1>4, <1>6, <2>1, <2>2 DEF Moderation!TypeOK
<1>8. Moderation!AuditFollows'
  <2> SUFFICES ASSUME NEW i \in Moderation!Ids \ contested, report'[i] # None,
                      report'[i].status # "open",
                      \A q \in Requests : ~(reportReq'[q].pc = "log" /\ reportReq'[q].id = i)
               PROVE  audit[i] = [status |-> report'[i].status, resolvedBy |-> report'[i].resolvedBy]
    BY <1>3 DEF Moderation!AuditFollows, Moderation!Exists
  <2>1. \A q \in Requests : ~(reportReq[q].pc = "log" /\ reportReq[q].id = i)
    BY <1>3, <1>6
  <2>2. i # new /\ report'[i] = report[i]
    BY <1>1, <1>4
  <2> QED
    BY <2>1, <2>2 DEF ReportsOK, Moderation!AuditFollows, Moderation!Exists
<1>9. ASSUME NEW q \in Requests PROVE ReportCallOK(q)'
  <2>1. CASE q = r
    BY <1>6, <2>1, ReportFacts DEF ReportCallOK
  <2>2. CASE q # r
    <3>1. ReportCallOK(q) /\ reportReq'[q] = reportReq[q] /\ (q \notin reportOutdated' => q \notin reportOutdated)
      BY <1>2, <1>3, <1>6, <2>2
    <3>2. reportReq[q].pc = "insert" /\ q \notin reportOutdated' => reportReq[q].user # reportReq[r].user
      BY <1>3, <2>2
    <3>3. \A u : u # reportReq[r].user => Moderation!Open(u)' \subseteq Moderation!Open(u)
      BY <1>1, <1>4 DEF Moderation!Open, Moderation!Exists
    <3>4. CASE reportReq[q].pc = "insert"
      BY <3>1, <3>2, <3>3, <3>4 DEF ReportCallOK
    <3>5. CASE reportReq[q].pc # "insert"
      BY <1>3, <1>5, <3>1, <3>5 DEF ReportCallOK
    <3> QED
      BY <3>4, <3>5
  <2> QED
    BY <2>1, <2>2
<1> QED
  BY <1>1, <1>7, <1>8, <1>9 DEF ReportsOK

(* A decision is saved whole, unless it is outdated. *)
LEMMA SavesDecision ==
  ASSUME ReportsOK, NEW r \in Requests, NEW i \in Moderation!Ids, Moderation!SaveUpdate(r),
         i = reportReq[r].id
  PROVE  \E row \in Moderation!Row :
           /\ report' = [report EXCEPT ![i] = row]
           /\ row.reporter = report[i].reporter
           /\ row.status # "open" /\ row.resolvedBy # None
           /\ r \notin reportOutdated => row.status = reportReq[r].status /\ row.resolvedBy = reportReq[r].user
<1>1. /\ reportReq[r].pc = "update" /\ ReportCallOK(r) /\ reportReq[r] \in Moderation!Call
      /\ Moderation!Exists(i) /\ report[i] \in Moderation!Row
      /\ report' = [report EXCEPT ![i] = Moderation!Saved(reportReq[r])]
  BY DEF ReportsOK, Moderation!TypeOK, Moderation!SaveUpdate, ReportCallOK, Moderation!Exists
<1>2. /\ reportReq[r].user \in Admins /\ reportReq[r].status \in Moderation!Decisions
      /\ "status" \in reportReq[r].cols \/ report[i].status # "open"
      /\ "resolvedBy" \in reportReq[r].cols \/ report[i].resolvedBy # None
      /\ r \notin reportOutdated =>
            /\ "status" \in reportReq[r].cols \/ report[i].status = reportReq[r].status
            /\ "resolvedBy" \in reportReq[r].cols \/ report[i].resolvedBy = reportReq[r].user
  BY <1>1 DEF ReportCallOK
<1> DEFINE s == IF "status" \in reportReq[r].cols THEN reportReq[r].status ELSE report[i].status
           a == IF "resolvedBy" \in reportReq[r].cols THEN reportReq[r].user ELSE report[i].resolvedBy
           row == [reporter |-> report[i].reporter, status |-> s, resolvedBy |-> a]
<1>3. report[i].reporter \in Reporters /\ report[i].status \in {"open"} \cup Moderation!Decisions
      /\ report[i].resolvedBy \in Admins \cup {None}
      /\ report[i] = [reporter |-> report[i].reporter, status |-> report[i].status, resolvedBy |-> report[i].resolvedBy]
  BY <1>1 DEF Moderation!Row
<1>4. /\ s \in Moderation!Decisions /\ a \in Admins
      /\ r \notin reportOutdated => s = reportReq[r].status /\ a = reportReq[r].user
  BY <1>2, <1>3
<1>5. Moderation!Saved(reportReq[r]) = [report[i] EXCEPT !.status = s, !.resolvedBy = a]
  BY DEF Moderation!Saved
<1> HIDE DEF s, a
<1>6. row \in Moderation!Row /\ Moderation!Saved(reportReq[r]) = row
  BY <1>1, <1>3, <1>4, <1>5 DEF Moderation!Row
<1>7. s # "open" /\ a # None
  BY <1>4, ReportFacts DEF Moderation!Decisions
<1> QED
  BY <1>1, <1>4, <1>6, <1>7

(* A decision that is saved makes the others in flight outdated and        *)
(* contests the report if there are any.                                   *)
LEMMA ReportsSave ==
  ASSUME ReportsOK, NEW r \in Requests, Moderation!SaveUpdate(r)
  PROVE  ReportsOK'
<1>1. Moderation!TypeOK /\ \A q \in Requests : ReportCallOK(q) /\ reportReq[q] \in Moderation!Call
  BY DEF ReportsOK, Moderation!TypeOK
<1>2. PICK i \in Moderation!Ids : i = reportReq[r].id
  BY <1>1 DEF Moderation!SaveUpdate, ReportCallOK
<1>3. PICK row \in Moderation!Row :
        /\ report' = [report EXCEPT ![i] = row]
        /\ row.reporter = report[i].reporter
        /\ row.status # "open" /\ row.resolvedBy # None
        /\ r \notin reportOutdated => row.status = reportReq[r].status /\ row.resolvedBy = reportReq[r].user
  BY <1>2, SavesDecision
<1> DEFINE c == [reportReq[r] EXCEPT !.pc = "log"]
<1>4. /\ c \in Moderation!Call /\ c.pc = "log" /\ c.id = i /\ c.user = reportReq[r].user
      /\ c.status = reportReq[r].status
  BY <1>1, <1>2 DEF Moderation!Call
<1>5. /\ reportReq[r].pc = "update" /\ reportReq' = [reportReq EXCEPT ![r] = c]
      /\ contested' = IF r \in reportOutdated THEN contested \cup {i} ELSE contested
      /\ reportOutdated' = (reportOutdated \cup {q \in Requests :
           reportReq[q].pc \in {"update", "log"} /\ reportReq[q].id = i}) \ {r}
      /\ UNCHANGED audit
  BY <1>2 DEF Moderation!SaveUpdate, Moderation!Outdates
<1> HIDE DEF c
<1>6. /\ Moderation!Exists(i) /\ reportReq[r].user \in Admins /\ reportReq[r].status \in Moderation!Decisions
  BY <1>1, <1>2, <1>5 DEF ReportCallOK
<1>7. /\ reportReq' \in [Requests -> Moderation!Call] /\ reportReq'[r] = c
      /\ \A q \in Requests \ {r} : reportReq'[q] = reportReq[q]
  BY <1>1, <1>4, <1>5 DEF Moderation!TypeOK
<1>8. /\ report' \in [Moderation!Ids -> Moderation!Row \cup {None}] /\ report'[i] = row
      /\ \A j \in Moderation!Ids \ {i} : report'[j] = report[j]
  BY <1>1, <1>3 DEF Moderation!TypeOK
<1>9. \A j \in Moderation!Ids : Moderation!Exists(j)' <=> Moderation!Exists(j)
  BY <1>6, <1>8, ReportFacts DEF Moderation!Exists
<1>10. ReportsNumbered'
  BY <1>9 DEF ReportsOK, ReportsNumbered
<1>11. Moderation!TypeOK'
  <2>1. \A j \in Moderation!Ids : Moderation!Exists(j)' => (report'[j].status = "open" <=> report'[j].resolvedBy = None)
    BY <1>1, <1>3, <1>8, <1>9 DEF Moderation!TypeOK
  <2>2. reportOutdated' \subseteq Requests /\ contested' \subseteq Moderation!Ids
    BY <1>1, <1>5 DEF Moderation!TypeOK
  <2> QED
    BY <1>1, <1>5, <1>7, <1>8, <2>1, <2>2 DEF Moderation!TypeOK
<1>12. Moderation!AuditFollows'
  <2> SUFFICES ASSUME NEW j \in Moderation!Ids \ contested', report'[j] # None,
                      report'[j].status # "open",
                      \A q \in Requests : ~(reportReq'[q].pc = "log" /\ reportReq'[q].id = j)
               PROVE  audit[j] = [status |-> report'[j].status, resolvedBy |-> report'[j].resolvedBy]
    BY <1>5 DEF Moderation!AuditFollows, Moderation!Exists
  <2>1. j # i
    BY <1>4, <1>7
  <2>2. \A q \in Requests : ~(reportReq[q].pc = "log" /\ reportReq[q].id = j)
    BY <1>5, <1>7
  <2>3. report'[j] = report[j] /\ j \notin contested
    BY <1>5, <1>8, <2>1
  <2> QED
    BY <2>2, <2>3 DEF ReportsOK, Moderation!AuditFollows, Moderation!Exists
<1>13. ASSUME NEW q \in Requests PROVE ReportCallOK(q)'
  <2>1. CASE q = r
    <3>1. r \notin reportOutdated \/ i \in contested'
      BY <1>5
    <3>2. report'[i] = row /\ Moderation!Exists(i)'
      BY <1>6, <1>8, <1>9
    <3> QED
      BY <1>3, <1>4, <1>6, <1>7, <2>1, <3>1, <3>2 DEF ReportCallOK
  <2>2. CASE q # r
    <3>1. ReportCallOK(q) /\ reportReq'[q] = reportReq[q]
      BY <1>1, <1>7, <2>2
    <3>2. \A u : Moderation!Open(u)' \subseteq Moderation!Open(u)
      BY <1>3, <1>8, <1>9 DEF Moderation!Open
    <3>3. (q \notin reportOutdated' => q \notin reportOutdated) /\ contested \subseteq contested'
      BY <1>5, <2>2
    <3>4. CASE reportReq[q].pc \in {"update", "log"} /\ reportReq[q].id = i
      <4>1. q \in reportOutdated'
        BY <1>5, <2>2, <3>4
      <4> QED
        BY <1>3, <1>8, <1>9, <3>1, <3>4, <4>1 DEF ReportCallOK
    <3>5. CASE reportReq[q].pc \in {"update", "log"} /\ reportReq[q].id # i
      <4>1. reportReq[q].id \in Moderation!Ids /\ report'[reportReq[q].id] = report[reportReq[q].id]
        BY <1>8, <3>1, <3>5 DEF ReportCallOK
      <4> QED
        BY <1>9, <3>1, <3>3, <3>5, <4>1 DEF ReportCallOK
    <3>6. CASE reportReq[q].pc \notin {"update", "log"}
      BY <1>9, <3>1, <3>2, <3>3, <3>6 DEF ReportCallOK
    <3> QED
      BY <3>4, <3>5, <3>6
  <2> QED
    BY <2>1, <2>2
<1> QED
  BY <1>10, <1>11, <1>12, <1>13 DEF ReportsOK

(* The log of a decision that nothing has overtaken is of what the row     *)
(* shows.                                                                  *)
LEMMA ReportsLog ==
  ASSUME ReportsOK, NEW r \in Requests, Moderation!Log(r)
  PROVE  ReportsOK'
<1>1. Moderation!TypeOK /\ \A q \in Requests : ReportCallOK(q) /\ reportReq[q] \in Moderation!Call
  BY DEF ReportsOK, Moderation!TypeOK
<1>2. PICK i \in Moderation!Ids : i = reportReq[r].id
  BY <1>1 DEF Moderation!Log, ReportCallOK
<1> DEFINE entry == [status |-> reportReq[r].status, resolvedBy |-> reportReq[r].user]
<1>3. /\ reportReq[r].pc = "log" /\ reportReq' = [reportReq EXCEPT ![r] = Moderation!Idle]
      /\ audit' = [audit EXCEPT ![i] = entry]
      /\ contested' = IF r \in reportOutdated THEN contested \cup {i} ELSE contested
      /\ UNCHANGED <<report, reportOutdated>>
  BY <1>2 DEF Moderation!Log
<1>4. /\ reportReq[r].status \in Moderation!Decisions /\ reportReq[r].user \in Admins
      /\ r \notin reportOutdated /\ i \notin contested =>
           report[i].status = reportReq[r].status /\ report[i].resolvedBy = reportReq[r].user
  BY <1>1, <1>2, <1>3 DEF ReportCallOK
<1>5. entry \in Moderation!Decision
  BY <1>4 DEF Moderation!Decision
<1>6. r \notin reportOutdated /\ i \notin contested =>
        entry = [status |-> report[i].status, resolvedBy |-> report[i].resolvedBy]
  BY <1>4
<1> HIDE DEF entry
<1>7. /\ audit' \in [Moderation!Ids -> Moderation!Decision \cup {None}] /\ audit'[i] = entry
      /\ \A j \in Moderation!Ids \ {i} : audit'[j] = audit[j]
  BY <1>1, <1>3, <1>5 DEF Moderation!TypeOK
<1>8. /\ reportReq' \in [Requests -> Moderation!Call] /\ reportReq'[r] = Moderation!Idle
      /\ \A q \in Requests \ {r} : reportReq'[q] = reportReq[q]
  BY <1>1, <1>3, ReportFacts DEF Moderation!TypeOK
<1>9. Moderation!TypeOK' /\ ReportsNumbered'
  <2>1. contested' \subseteq Moderation!Ids
    BY <1>1, <1>3 DEF Moderation!TypeOK
  <2> QED
    BY <1>1, <1>3, <1>7, <1>8, <2>1 DEF ReportsOK, Moderation!TypeOK, Moderation!Exists, ReportsNumbered
<1>10. Moderation!AuditFollows'
  <2> SUFFICES ASSUME NEW j \in Moderation!Ids \ contested', report[j] # None, report[j].status # "open",
                      \A q \in Requests : ~(reportReq'[q].pc = "log" /\ reportReq'[q].id = j)
               PROVE  audit'[j] = [status |-> report[j].status, resolvedBy |-> report[j].resolvedBy]
    BY <1>3 DEF Moderation!AuditFollows, Moderation!Exists
  <2>1. CASE j = i
    BY <1>3, <1>6, <1>7, <2>1
  <2>2. CASE j # i
    <3>1. \A q \in Requests : ~(reportReq[q].pc = "log" /\ reportReq[q].id = j)
      BY <1>2, <1>8, <2>2
    <3>2. j \notin contested /\ audit'[j] = audit[j]
      BY <1>3, <1>7, <2>2
    <3> QED
      BY <3>1, <3>2 DEF ReportsOK, Moderation!AuditFollows, Moderation!Exists
  <2> QED
    BY <2>1, <2>2
<1>11. ASSUME NEW q \in Requests PROVE ReportCallOK(q)'
  <2>1. CASE q = r
    BY <1>8, <2>1, ReportFacts DEF ReportCallOK
  <2>2. CASE q # r
    <3>1. ReportCallOK(q) /\ reportReq'[q] = reportReq[q] /\ contested \subseteq contested'
      BY <1>1, <1>3, <1>8, <2>2
    <3> QED
      BY <1>3, <3>1 DEF ReportCallOK, Moderation!Exists, Moderation!Open
  <2> QED
    BY <2>1, <2>2
<1> QED
  BY <1>9, <1>10, <1>11 DEF ReportsOK

(* Every statement of a report or a decision keeps ReportsOK. *)
LEMMA ReportsStep == ReportsOK /\ [Moderation!Next]_(Moderation!vars) => ReportsOK'
<1> SUFFICES ASSUME ReportsOK, [Moderation!Next]_(Moderation!vars) PROVE ReportsOK'
  OBVIOUS
<1>0. Moderation!TypeOK /\ \A r \in Requests : ReportCallOK(r) /\ reportReq[r] \in Moderation!Call
  BY DEF ReportsOK, Moderation!TypeOK
<1>1. ASSUME NEW r \in Requests, NEW u \in Reporters, Moderation!createReport(r, u) PROVE ReportsOK'
  <2> DEFINE c == [Moderation!Idle EXCEPT !.pc = "insert", !.user = u]
  <2>1. c \in Moderation!Call /\ c.pc = "insert" /\ c.user = u
    BY ReportFacts DEF Moderation!Call
  <2>2. Moderation!Begin(r, c) /\ UNCHANGED <<report, audit, contested>> /\ Moderation!Open(u) = {}
    BY <1>1 DEF Moderation!createReport
  <2> HIDE DEF c
  <2> QED
    BY <2>1, <2>2, ReportsBegin
<1>2. ASSUME NEW r \in Requests, NEW i \in Moderation!Ids, NEW a \in Admins, NEW s \in Moderation!Decisions,
             Moderation!resolveReport(r, a, i, s)
      PROVE  ReportsOK'
  <2> DEFINE c == [pc |-> "select", user |-> a, id |-> i, status |-> s, cols |-> {}]
  <2>1. c \in Moderation!Call /\ c.pc = "select" /\ c.user = a /\ c.id = i /\ c.status = s
    BY DEF Moderation!Call
  <2>2. Moderation!Begin(r, c) /\ UNCHANGED <<report, audit, contested>> /\ Moderation!Exists(i)
    BY <1>2 DEF Moderation!resolveReport
  <2> HIDE DEF c
  <2> QED
    BY <2>1, <2>2, ReportsBegin
<1>3. ASSUME NEW r \in Requests, Moderation!SaveSelect(r) PROVE ReportsOK'
  <2>1. /\ reportReq[r].pc = "select" /\ reportReq[r].id \in Moderation!Ids /\ Moderation!Exists(reportReq[r].id)
        /\ reportReq[r].user \in Admins /\ reportReq[r].status \in Moderation!Decisions
    BY <1>0, <1>3 DEF Moderation!SaveSelect, ReportCallOK
  <2> DEFINE k == {x \in Moderation!Columns :
                     \/ x = "status" /\ report[reportReq[r].id].status # reportReq[r].status
                     \/ x = "resolvedBy" /\ report[reportReq[r].id].resolvedBy # reportReq[r].user}
             c == [reportReq[r] EXCEPT !.pc = "update", !.cols = k]
  <2>2. reportReq' = [reportReq EXCEPT ![r] = c] /\ UNCHANGED <<report, audit, reportOutdated, contested>>
    BY <1>3 DEF Moderation!SaveSelect
  <2>3. /\ "status" \in k \/ report[reportReq[r].id].status = reportReq[r].status
        /\ "resolvedBy" \in k \/ report[reportReq[r].id].resolvedBy = reportReq[r].user
        /\ k \in SUBSET Moderation!Columns
    BY DEF Moderation!Columns
  <2> HIDE DEF k
  <2>4. /\ c \in Moderation!Call /\ c.pc = "update" /\ c.id = reportReq[r].id /\ c.cols = k
        /\ c.user = reportReq[r].user /\ c.status = reportReq[r].status
    BY <1>0, <2>3 DEF Moderation!Call
  <2> HIDE DEF c
  <2>5. reportReq'[r] = c /\ contested' \subseteq Moderation!Ids
    BY <1>0, <2>2 DEF Moderation!TypeOK
  <2>6. reportReq[r].status # "open" /\ reportReq[r].user # None
    BY <2>1, ReportFacts DEF Moderation!Decisions
  <2>7. ReportCallOK(r)'
    BY <2>1, <2>2, <2>3, <2>4, <2>5, <2>6 DEF ReportCallOK, Moderation!Exists
  <2> QED
    BY <2>1, <2>2, <2>4, <2>5, <2>7, ReportsKeep
<1>4. ASSUME NEW r \in Requests, Moderation!Die(r) PROVE ReportsOK'
  <2>1. /\ reportReq' = [reportReq EXCEPT ![r] = Moderation!Idle] /\ UNCHANGED <<report, audit, reportOutdated>>
        /\ contested' = IF reportReq[r].pc = "log" THEN contested \cup {reportReq[r].id} ELSE contested
    BY <1>4 DEF Moderation!Die
  <2>2. contested' \subseteq Moderation!Ids
    BY <1>0, <2>1 DEF Moderation!TypeOK, ReportCallOK
  <2>3. reportReq'[r] = Moderation!Idle
    BY <1>0, <2>1 DEF Moderation!TypeOK
  <2>4. ReportCallOK(r)'
    BY <2>3, ReportFacts DEF ReportCallOK
  <2> QED
    BY <2>1, <2>2, <2>4, ReportFacts, ReportsKeep
<1>5. CASE UNCHANGED Moderation!vars
  BY <1>5 DEF Moderation!vars, ReportsOK, Moderation!TypeOK, ReportsNumbered, Moderation!AuditFollows,
     ReportCallOK, Moderation!Exists, Moderation!Open
<1> QED
  BY <1>1, <1>2, <1>3, <1>4, <1>5, ReportsInsert, ReportsSave, ReportsLog DEF Moderation!Next

(* Unless its decisions overlapped or one died before it was logged, a     *)
(* report shows the status and the admin of one decision, and the audit    *)
(* log ends with it.                                                       *)
THEOREM AuditTheorem == Moderation!Spec => []AuditFollows
<1>1. ReportsOK => AuditFollows
  BY DEF ReportsOK, AuditFollows
<1> QED
  BY <1>1, ReportsInit, ReportsStep, PTL DEF Moderation!Spec

(* Only an insert makes a report open. *)
LEMMA OpensByInsert ==
  ASSUME ReportsOK, [Moderation!Next]_(Moderation!vars), NEW u \in Reporters,
         NEW i \in Moderation!Ids, i \in Moderation!Open(u)', i \notin Moderation!Open(u)
  PROVE  \E r \in Requests : Moderation!Insert(r) /\ reportReq[r].user = u
<1>1. CASE UNCHANGED report
  BY <1>1 DEF Moderation!Open, Moderation!Exists
<1>2. ASSUME NEW r \in Requests, Moderation!SaveUpdate(r) PROVE FALSE
  <2>1. PICK j \in Moderation!Ids : j = reportReq[r].id
    BY <1>2 DEF Moderation!SaveUpdate, ReportCallOK, ReportsOK
  <2>2. PICK row \in Moderation!Row : report' = [report EXCEPT ![j] = row] /\ row.status # "open"
    BY <1>2, <2>1, SavesDecision
  <2>3. i # j /\ report'[i] = report[i]
    BY <2>2 DEF Moderation!Open, Moderation!Exists, ReportsOK, Moderation!TypeOK
  <2> QED
    BY <2>3 DEF Moderation!Open, Moderation!Exists
<1>3. ASSUME NEW r \in Requests, Moderation!Insert(r)
      PROVE  Moderation!Insert(r) /\ reportReq[r].user = u
  <2>1. PICK new \in Moderation!Ids, row \in Moderation!Row :
          row.reporter = reportReq[r].user /\ report' = [report EXCEPT ![new] = row]
    BY <1>3, InsertsNext
  <2>2. i = new /\ report'[i] = row
    BY <2>1 DEF Moderation!Open, Moderation!Exists, ReportsOK, Moderation!TypeOK
  <2> QED
    BY <1>3, <2>1, <2>2 DEF Moderation!Open
<1> QED
  BY <1>1, <1>2, <1>3 DEF Moderation!Next, Moderation!vars, Moderation!createReport,
     Moderation!resolveReport, Moderation!SaveSelect, Moderation!Log, Moderation!Die

(* A user has a second open report of the same content only when the call  *)
(* that made it had looked before the first one was inserted.              *)
THEOREM OneOpenTheorem == Moderation!Spec => OneOpenReport
<1>1. ASSUME ReportsOK, [Moderation!Next]_(Moderation!vars), NEW u \in Reporters,
             Moderation!Open(u) # {}, Moderation!Open(u)' # Moderation!Open(u),
             Moderation!Open(u) \subseteq Moderation!Open(u)'
      PROVE  \E r \in reportOutdated : reportReq[r].pc = "insert" /\ reportReq[r].user = u
  <2>1. PICK i \in Moderation!Ids : i \in Moderation!Open(u)' /\ i \notin Moderation!Open(u)
    BY <1>1 DEF Moderation!Open
  <2>2. PICK r \in Requests : Moderation!Insert(r) /\ reportReq[r].user = u
    BY <1>1, <2>1, OpensByInsert
  <2>3. reportReq[r].pc = "insert" /\ ReportCallOK(r)
    BY <1>1, <2>2 DEF Moderation!Insert, ReportsOK
  <2> QED
    BY <1>1, <2>2, <2>3 DEF ReportCallOK
<1>2. ReportsOK /\ [Moderation!Next]_(Moderation!vars) =>
        [\A u \in Reporters :
           Moderation!Open(u) # {} /\ Moderation!Open(u)' # Moderation!Open(u)
             /\ Moderation!Open(u) \subseteq Moderation!Open(u)' =>
           \E r \in reportOutdated : reportReq[r].pc = "insert" /\ reportReq[r].user = u]_(Moderation!vars)
  BY <1>1
<1> QED
  BY <1>2, ReportsInit, ReportsStep, PTL DEF Moderation!Spec, OneOpenReport, Moderation!OneOpenReport

-----------------------------------------------------------------------------
(***************************************************************************)
(* Posts: what the reads show                                              *)
(***************************************************************************)

(* All that holds now has been seen by the read r. *)
SeenNow(r) ==
  /\ \A p \in PostIds : Posts!Live(p) =>
       /\ p \in seen[r].live
       /\ post[p].visibility = "public" => p \in seen[r].public
  /\ postReq[r].viewer \in active \cup {Creator} => seen[r].entitled

(* What a read was told of its viewer or of its post, it saw. *)
ReadOK(r) ==
  /\ shown[r] \subseteq seen[r].live
  /\ ~Posts!Reading(r) => \A p \in shown[r] : p \in seen[r].public \/ seen[r].entitled
  /\ Posts!Reading(r) =>
       /\ SeenNow(r) /\ shown[r] = {}
       /\ postReq[r].pc = "list" /\ postReq[r].entity.visibility = "subscribers" => seen[r].entitled
       /\ postReq[r].pc = "check" => postReq[r].id \in seen[r].live

SeenType == [live : SUBSET PostIds, public : SUBSET PostIds, entitled : BOOLEAN]

(* What a step adds to what the reads have seen *)
LEMMA Watched ==
  ASSUME Posts!Watch, seen \in [Requests -> SeenType]
  PROVE  /\ seen' \in [Requests -> SeenType]
         /\ \A r \in Requests : ~Posts!Reading(r)' => seen'[r] = seen[r]
         /\ \A r \in Requests : Posts!Reading(r)' => SeenNow(r)'
         /\ \A r \in Requests : Posts!Reading(r) /\ Posts!Reading(r)' =>
              /\ seen[r].live \subseteq seen'[r].live
              /\ seen[r].public \subseteq seen'[r].public
              /\ seen[r].entitled => seen'[r].entitled
<1> DEFINE old(r) == IF Posts!Reading(r) THEN seen[r] ELSE Posts!Now(postReq'[r].viewer)
           saw(r) == [live |-> old(r).live \cup Posts!Now(postReq[r].viewer)'.live,
                      public |-> old(r).public \cup Posts!Now(postReq[r].viewer)'.public,
                      entitled |-> old(r).entitled \/ Posts!Now(postReq[r].viewer)'.entitled]
<1>1. seen' = [r \in Requests |-> IF Posts!Reading(r)' THEN saw(r) ELSE seen[r]]
  BY DEF Posts!Watch
<1>2. \A v : Posts!Now(v) \in SeenType
  BY DEF Posts!Now, SeenType
<1>3. \A r \in Requests : Posts!Now(postReq[r].viewer)' \in SeenType
  BY DEF Posts!Now, SeenType
<1>4. \A r \in Requests : old(r) \in SeenType
  BY <1>2
<1>5. ASSUME NEW r \in Requests
      PROVE  /\ saw(r) \in SeenType
             /\ old(r).live \subseteq saw(r).live /\ old(r).public \subseteq saw(r).public
             /\ old(r).entitled => saw(r).entitled
             /\ Posts!Now(postReq[r].viewer)'.live \subseteq saw(r).live
             /\ Posts!Now(postReq[r].viewer)'.public \subseteq saw(r).public
             /\ Posts!Now(postReq[r].viewer)'.entitled => saw(r).entitled
  <2>1. old(r) \in SeenType /\ Posts!Now(postReq[r].viewer)' \in SeenType
    BY <1>3, <1>4
  <2> HIDE DEF old
  <2> QED
    BY <2>1 DEF SeenType
<1>6. ASSUME NEW r \in Requests, Posts!Reading(r)' PROVE SeenNow(r)'
  <2>1. seen'[r] = saw(r)
    BY <1>1, <1>6
  <2>2. /\ \A p \in PostIds : Posts!Live(p)' => p \in Posts!Now(postReq[r].viewer)'.live
        /\ \A p \in PostIds : Posts!Live(p)' /\ post'[p].visibility = "public" =>
             p \in Posts!Now(postReq[r].viewer)'.public
        /\ postReq'[r].viewer \in active' \cup {Creator} => Posts!Now(postReq[r].viewer)'.entitled
    BY DEF Posts!Now
  <2> HIDE DEF saw
  <2> QED
    BY <1>5, <2>1, <2>2 DEF SeenNow
<1>7. ASSUME NEW r \in Requests, Posts!Reading(r), Posts!Reading(r)'
      PROVE  /\ seen[r].live \subseteq seen'[r].live
             /\ seen[r].public \subseteq seen'[r].public
             /\ seen[r].entitled => seen'[r].entitled
  <2>1. seen'[r] = saw(r)
    BY <1>1, <1>7
  <2>2. old(r) = seen[r]
    BY <1>7
  <2> HIDE DEF saw, old
  <2> QED
    BY <1>5, <2>1, <2>2
<1> HIDE DEF saw
<1> QED
  BY <1>1, <1>5, <1>6, <1>7

(* A step that is not of this read *)
LEMMA ReadKeeps ==
  ASSUME Posts!Watch, seen \in [Requests -> SeenType], NEW r \in Requests, ReadOK(r),
         shown'[r] = shown[r], Posts!Reading(r)' <=> Posts!Reading(r),
         Posts!Reading(r) => postReq'[r] = postReq[r]
  PROVE  ReadOK(r)'
<1>1. CASE Posts!Reading(r)
  <2>1. SeenNow(r)' /\ seen[r].live \subseteq seen'[r].live /\ (seen[r].entitled => seen'[r].entitled)
    BY <1>1, Watched
  <2> QED
    BY <1>1, <2>1 DEF ReadOK
<1>2. CASE ~Posts!Reading(r)
  <2>1. seen'[r] = seen[r]
    BY <1>2, Watched
  <2> QED
    BY <1>2, <2>1 DEF ReadOK
<1> QED
  BY <1>1, <1>2

-----------------------------------------------------------------------------
(***************************************************************************)
(* Posts: what the edits change                                            *)
(***************************************************************************)

(* An edit writes the visibility it was asked for, or none, and a deletion *)
(* the one it has read, which is the post's unless it is outdated.         *)
PostCallOK(r) ==
  LET c == postReq[r] IN
  /\ c.pc \in {"select", "update", "check"} => c.id \in PostIds /\ Posts!Exists(c.id)
  /\ c.pc \in {"select", "update"} =>
       /\ c.entity.deleted <=> c.asked = "deletion"
       /\ c.asked \in Posts!Visibilities => c.entity.visibility = c.asked
       /\ c.asked = "nothing" => c.entity.visibility = None
  /\ c.pc \in {"select", "update"} /\ r \notin postOutdated =>
       /\ ~post[c.id].deleted
       /\ c.asked = "deletion" => c.entity.visibility = post[c.id].visibility
  /\ c.pc = "update" => ("visibility" \in c.cols => c.entity.visibility # None)

PostsOK == Posts!TypeOK /\ \A r \in Requests : PostCallOK(r) /\ ReadOK(r)

(* An idle call, and what None is not *)
LEMMA PostFacts ==
  /\ Posts!Idle \in Posts!Call /\ Posts!Idle.pc = "idle"
  /\ None \notin Posts!Row /\ None \notin PostIds /\ None \notin Fans /\ None # Creator
  /\ Posts!Idle.id = None /\ Posts!Idle.entity \in Posts!Entity
  BY ContentAssumption DEF Posts!PostsAssumption, Posts!Idle, Posts!Call, Posts!NoRow, Posts!Row, Posts!Entity,
     Posts!Visibilities

(* The parts of the shape the proofs cite *)
LEMMA PostsShape ==
  ASSUME PostsOK
  PROVE  /\ seen \in [Requests -> SeenType] /\ shown \in [Requests -> SUBSET PostIds]
         /\ post \in [PostIds -> Posts!Row \cup {None}] /\ active \subseteq Fans
         /\ postReq \in [Requests -> Posts!Call] /\ postOutdated \subseteq Requests
         /\ \A p \in PostIds : Posts!Exists(p) => post[p] \in Posts!Row
  BY DEF PostsOK, Posts!TypeOK, SeenType, Posts!Exists

(* There are no posts at the start and no reads under way. *)
LEMMA PostsInit == Posts!Init => PostsOK
<1> SUFFICES ASSUME Posts!Init PROVE PostsOK
  OBVIOUS
<1>1. \A r \in Requests : postReq[r] = Posts!Idle /\ shown[r] = {}
  BY DEF Posts!Init
<1>2. Posts!TypeOK
  BY <1>1, PostFacts DEF Posts!Init, Posts!TypeOK
<1>3. \A r \in Requests : PostCallOK(r) /\ ReadOK(r)
  BY <1>1, PostFacts DEF PostCallOK, ReadOK, Posts!Reading
<1> QED
  BY <1>2, <1>3 DEF PostsOK

(* A step of one call that writes no post *)
LEMMA PostsMove ==
  ASSUME PostsOK, NEW r \in Requests, NEW c \in Posts!Call, postReq' = [postReq EXCEPT ![r] = c],
         UNCHANGED <<post, active>>, postOutdated' \in {postOutdated, postOutdated \ {r}},
         Posts!Watch, shown' \in [Requests -> SUBSET PostIds],
         \A q \in Requests \ {r} : shown'[q] = shown[q],
         PostCallOK(r)', ReadOK(r)'
  PROVE  PostsOK'
<1>1. postReq' \in [Requests -> Posts!Call] /\ \A q \in Requests \ {r} : postReq'[q] = postReq[q]
  BY PostsShape
<1>2. ASSUME NEW q \in Requests \ {r} PROVE PostCallOK(q)' /\ ReadOK(q)'
  <2>1. PostCallOK(q) /\ ReadOK(q)
    BY DEF PostsOK
  <2>2. PostCallOK(q)'
    BY <1>1, <2>1 DEF PostCallOK, Posts!Exists
  <2>3. Posts!Reading(q)' <=> Posts!Reading(q)
    BY <1>1 DEF Posts!Reading
  <2> QED
    BY <1>1, <2>1, <2>2, <2>3, PostsShape, ReadKeeps
<1>3. seen' \in [Requests -> SeenType]
  BY PostsShape, Watched
<1>4. \A q \in Requests : PostCallOK(q)' /\ ReadOK(q)'
  BY <1>2
<1>5. \A q \in Requests : postReq'[q].pc \in {"select", "update", "check"} => post'[postReq'[q].id] # None
  BY <1>4 DEF PostCallOK, Posts!Exists
<1>6. postOutdated' \subseteq Requests
  BY PostsShape
<1>7. Posts!TypeOK'
  BY <1>1, <1>3, <1>5, <1>6, PostsShape DEF Posts!TypeOK, SeenType
<1> QED
  BY <1>4, <1>7 DEF PostsOK

(* A step of a call that is no read *)
LEMMA PostsMoveSave ==
  ASSUME PostsOK, NEW r \in Requests, NEW c \in Posts!Call, postReq' = [postReq EXCEPT ![r] = c],
         UNCHANGED <<post, active, shown>>, postOutdated' \in {postOutdated, postOutdated \ {r}},
         Posts!Watch, postReq[r].pc \notin {"list", "check"}, c.pc \notin {"list", "check"},
         PostCallOK(r)'
  PROVE  PostsOK'
<1>1. postReq'[r] = c
  BY PostsShape
<1>2. ReadOK(r) /\ (Posts!Reading(r)' <=> Posts!Reading(r)) /\ ~Posts!Reading(r)
  BY <1>1 DEF PostsOK, Posts!Reading
<1>3. ReadOK(r)'
  BY <1>2, PostsShape, ReadKeeps
<1> QED
  BY <1>3, PostsShape, PostsMove

(* An edit begins with the post as it is, changed as asked. *)
LEMMA PostsEdit ==
  ASSUME PostsOK, NEW r \in Requests, NEW p \in PostIds,
         NEW asked \in {"nothing", "deletion"} \cup Posts!Visibilities,
         NEW entity \in Posts!Entity, Posts!Edit(r, p, asked, entity),
         entity.deleted <=> asked = "deletion",
         asked \in Posts!Visibilities => entity.visibility = asked,
         asked = "nothing" => entity.visibility = None,
         asked = "deletion" => entity.visibility = post[p].visibility
  PROVE  PostsOK'
<1> DEFINE c == [pc |-> "select", id |-> p, viewer |-> None, asked |-> asked, entity |-> entity, cols |-> {}]
<1>1. c \in Posts!Call /\ c.pc = "select" /\ c.id = p /\ c.asked = asked /\ c.entity = entity
  BY DEF Posts!Call
<1>2. /\ postReq[r].pc = "idle" /\ postReq' = [postReq EXCEPT ![r] = c]
      /\ postOutdated' = postOutdated \ {r} /\ UNCHANGED <<post, active, shown>> /\ Posts!Watch
      /\ Posts!Exists(p) /\ ~post[p].deleted
  BY DEF Posts!Edit, Posts!Begin, Posts!Live
<1> HIDE DEF c
<1>3. postReq'[r] = c
  BY <1>2, PostsShape
<1>4. PostCallOK(r)'
  BY <1>1, <1>2, <1>3 DEF PostCallOK, Posts!Exists
<1> QED
  BY <1>1, <1>2, <1>4, PostsMoveSave

(* The SELECT of a save finds the columns that differ from the row. *)
LEMMA PostsSelect ==
  ASSUME PostsOK, NEW r \in Requests, Posts!SaveSelect(r)
  PROVE  PostsOK'
<1> DEFINE k == {x \in Posts!Columns : \/ postReq[r].entity[x] \notin {None, post[postReq[r].id][x]}
                                       \/ x = "deleted" /\ postReq[r].entity.deleted}
           c == [postReq[r] EXCEPT !.pc = "update", !.cols = k]
<1>1. /\ postReq[r].pc = "select" /\ postReq' = [postReq EXCEPT ![r] = c]
      /\ UNCHANGED <<post, active, postOutdated, shown>> /\ Posts!Watch
  BY DEF Posts!SaveSelect
<1>2. /\ k \in SUBSET Posts!Columns
      /\ "visibility" \in k => postReq[r].entity.visibility # None
  BY DEF Posts!Columns
<1> HIDE DEF k
<1>3. postReq[r] \in Posts!Call /\ PostCallOK(r)
  BY PostsShape DEF PostsOK
<1>4. /\ c \in Posts!Call /\ c.pc = "update" /\ c.id = postReq[r].id /\ c.asked = postReq[r].asked
      /\ c.entity = postReq[r].entity /\ c.cols = k
  BY <1>2, <1>3 DEF Posts!Call
<1> HIDE DEF c
<1>5. postReq'[r] = c
  BY <1>1, PostsShape
<1>6. PostCallOK(r)'
  BY <1>1, <1>2, <1>3, <1>4, <1>5 DEF PostCallOK, Posts!Exists
<1> QED
  BY <1>1, <1>4, <1>6, PostsMoveSave

(* The row a save leaves, and whom it outdates *)
LEMMA SavesPost ==
  ASSUME PostsOK, NEW r \in Requests, Posts!SaveUpdate(r)
  PROVE  \E p \in PostIds, row \in Posts!Row :
           /\ p = postReq[r].id /\ Posts!Exists(p) /\ postReq[r].pc = "update"
           /\ post' = [post EXCEPT ![p] = row]
           /\ row.visibility = IF "visibility" \in postReq[r].cols THEN postReq[r].entity.visibility
                               ELSE post[p].visibility
           /\ row.deleted = IF "deleted" \in postReq[r].cols THEN postReq[r].entity.deleted
                            ELSE post[p].deleted
           /\ row # post[p] => postOutdated' =
                (postOutdated \ {r}) \cup {q \in Requests \ {r} : postReq[q].id = p}
           /\ row = post[p] => postOutdated \ {r} \subseteq postOutdated'
<1>1. PICK p \in PostIds : p = postReq[r].id /\ Posts!Exists(p) /\ postReq[r].pc = "update"
  BY DEF PostsOK, PostCallOK, Posts!SaveUpdate
<1>2. post[p] \in Posts!Row /\ postReq[r] \in Posts!Call /\ post \in [PostIds -> Posts!Row \cup {None}]
  BY <1>1, PostsShape
<1> DEFINE v == IF "visibility" \in postReq[r].cols THEN postReq[r].entity.visibility ELSE post[p].visibility
           d == IF "deleted" \in postReq[r].cols THEN postReq[r].entity.deleted ELSE post[p].deleted
           row == [visibility |-> v, deleted |-> d]
           written == [k \in Posts!Columns |-> IF k \in postReq[r].cols THEN postReq[r].entity[k] ELSE post[p][k]]
<1>3. post' = [post EXCEPT ![p] = written]
  BY <1>1, <1>2 DEF Posts!SaveUpdate
<1>4. /\ postReq[r].entity \in Posts!Entity /\ postReq[r].cols \subseteq Posts!Columns
      /\ "visibility" \in postReq[r].cols => postReq[r].entity.visibility # None
  BY <1>1, <1>2 DEF Posts!Call, PostsOK, PostCallOK
<1>5. v \in Posts!Visibilities /\ d \in BOOLEAN
  BY <1>2, <1>4 DEF Posts!Row, Posts!Entity
<1>6. written = row
  BY DEF Posts!Columns
<1>7. postReq[r].cols = {} => row = post[p]
  BY <1>2 DEF Posts!Row
<1>8. row \in Posts!Row /\ row.visibility = v /\ row.deleted = d
  BY <1>5 DEF Posts!Row
<1> HIDE DEF row, written, v, d
<1>9. postOutdated' = IF postReq[r].cols = {} THEN postOutdated \ {r}
        ELSE (postOutdated \ {r}) \cup {q \in Requests \ {r} : postReq[q].id = p}
  BY <1>1 DEF Posts!SaveUpdate
<1>10. /\ row # post[p] => postOutdated' =
                (postOutdated \ {r}) \cup {q \in Requests \ {r} : postReq[q].id = p}
       /\ row = post[p] => postOutdated \ {r} \subseteq postOutdated'
  BY <1>7, <1>9
<1> QED
  BY <1>1, <1>3, <1>6, <1>8, <1>10 DEF v, d

(* The UPDATE of a save makes the other edits of the post outdated. *)
LEMMA PostsSave ==
  ASSUME PostsOK, NEW r \in Requests, Posts!SaveUpdate(r)
  PROVE  PostsOK'
<1>1. PICK p \in PostIds, row \in Posts!Row :
           /\ p = postReq[r].id /\ Posts!Exists(p) /\ postReq[r].pc = "update"
           /\ post' = [post EXCEPT ![p] = row]
           /\ row # post[p] => postOutdated' =
                (postOutdated \ {r}) \cup {q \in Requests \ {r} : postReq[q].id = p}
           /\ row = post[p] => postOutdated \ {r} \subseteq postOutdated'
  BY SavesPost
<1>2. /\ postReq' = [postReq EXCEPT ![r] = Posts!Idle] /\ UNCHANGED <<active, shown>> /\ Posts!Watch
      /\ postOutdated' \subseteq postOutdated \cup Requests
  BY DEF Posts!SaveUpdate
<1>3. /\ postReq' \in [Requests -> Posts!Call] /\ postReq'[r] = Posts!Idle
      /\ \A q \in Requests \ {r} : postReq'[q] = postReq[q]
  BY <1>2, PostsShape, PostFacts
<1>4. /\ post' \in [PostIds -> Posts!Row \cup {None}] /\ post'[p] = row
      /\ \A q \in PostIds \ {p} : post'[q] = post[q]
  BY <1>1, PostsShape
<1>5. \A q \in PostIds : Posts!Exists(q)' <=> Posts!Exists(q)
  BY <1>1, <1>4, PostFacts DEF Posts!Exists
<1>6. ASSUME NEW q \in Requests PROVE PostCallOK(q)'
  <2>1. CASE q = r
    BY <1>3, <2>1, PostFacts DEF PostCallOK
  <2>2. CASE q # r
    <3>1. PostCallOK(q) /\ postReq'[q] = postReq[q]
      BY <1>3, <2>2 DEF PostsOK
    <3>2. CASE postReq[q].pc \notin {"select", "update"}
      BY <1>5, <3>1, <3>2 DEF PostCallOK
    <3>3. CASE postReq[q].pc \in {"select", "update"} /\ postReq[q].id = p /\ row # post[p]
      <4>1. q \in postOutdated'
        BY <1>1, <2>2, <3>3
      <4> QED
        BY <1>5, <3>1, <3>3, <4>1 DEF PostCallOK
    <3>4. CASE postReq[q].pc \in {"select", "update"} /\ (postReq[q].id # p \/ row = post[p])
      <4>1. post'[postReq[q].id] = post[postReq[q].id] /\ (q \notin postOutdated' => q \notin postOutdated)
        BY <1>1, <1>4, <2>2, <3>1, <3>4 DEF PostCallOK
      <4> QED
        BY <1>5, <3>1, <3>4, <4>1 DEF PostCallOK
    <3> QED
      BY <3>2, <3>3, <3>4
  <2> QED
    BY <2>1, <2>2
<1>7. ASSUME NEW q \in Requests PROVE ReadOK(q)'
  <2>1. ReadOK(q) /\ (Posts!Reading(q)' <=> Posts!Reading(q)) /\ (Posts!Reading(q) => postReq'[q] = postReq[q])
    BY <1>1, <1>3, PostFacts DEF PostsOK, Posts!Reading
  <2> QED
    BY <1>2, <2>1, PostsShape, ReadKeeps
<1>8. \A q \in Requests : postReq'[q].pc \in {"select", "update", "check"} => post'[postReq'[q].id] # None
  BY <1>6 DEF PostCallOK, Posts!Exists
<1>9. seen' \in [Requests -> SeenType]
  BY <1>2, PostsShape, Watched
<1>10. Posts!TypeOK'
  BY <1>2, <1>3, <1>4, <1>8, <1>9, PostsShape DEF Posts!TypeOK, SeenType
<1> QED
  BY <1>6, <1>7, <1>10 DEF PostsOK

(* Steps of no call: a post made, a subscription that begins or ends *)
LEMMA PostsWorld ==
  ASSUME PostsOK, UNCHANGED <<postReq, postOutdated, shown>>, Posts!Watch,
         post' \in [PostIds -> Posts!Row \cup {None}], active' \subseteq Fans,
         \A p \in PostIds : Posts!Exists(p) => post'[p] = post[p]
  PROVE  PostsOK'
<1>1. ASSUME NEW q \in Requests PROVE PostCallOK(q)' /\ ReadOK(q)'
  <2>1. PostCallOK(q) /\ ReadOK(q)
    BY DEF PostsOK
  <2>2. PostCallOK(q)'
    BY <2>1 DEF PostCallOK, Posts!Exists
  <2>3. Posts!Reading(q)' <=> Posts!Reading(q)
    BY DEF Posts!Reading
  <2> QED
    BY <2>1, <2>2, <2>3, PostsShape, ReadKeeps
<1>2. \A q \in Requests : postReq'[q].pc \in {"select", "update", "check"} => post'[postReq'[q].id] # None
  BY <1>1 DEF PostCallOK, Posts!Exists
<1>3. seen' \in [Requests -> SeenType]
  BY PostsShape, Watched
<1>4. Posts!TypeOK'
  BY <1>2, <1>3, PostsShape DEF Posts!TypeOK, SeenType
<1> QED
  BY <1>1, <1>4 DEF PostsOK

(* A read begins *)
LEMMA PostsRead ==
  ASSUME PostsOK, NEW r \in Requests, NEW c \in Posts!Call, Posts!Begin(r, c),
         UNCHANGED <<post, active, postOutdated>>, Posts!Watch, shown' = [shown EXCEPT ![r] = {}],
         c.pc \in {"list", "check"},
         c.pc = "list" /\ c.entity.visibility = "subscribers" => c.viewer \in active \cup {Creator},
         c.pc = "check" => c.id \in PostIds /\ Posts!Live(c.id)
  PROVE  PostsOK'
<1>1. postReq' = [postReq EXCEPT ![r] = c]
  BY DEF Posts!Begin
<1>2. /\ postReq'[r] = c /\ shown' \in [Requests -> SUBSET PostIds] /\ shown'[r] = {}
      /\ \A q \in Requests \ {r} : shown'[q] = shown[q]
  BY <1>1, PostsShape
<1>3. PostCallOK(r)'
  BY <1>2 DEF PostCallOK, Posts!Exists, Posts!Live
<1>4. Posts!Reading(r)'
  BY <1>2 DEF Posts!Reading
<1>5. SeenNow(r)'
  BY <1>4, PostsShape, Watched
<1>6. /\ c.viewer \in active \cup {Creator} => seen'[r].entitled
      /\ \A p \in PostIds : Posts!Live(p) => p \in seen'[r].live
  BY <1>2, <1>5 DEF SeenNow, Posts!Live, Posts!Exists
<1>7. ReadOK(r)'
  BY <1>2, <1>4, <1>5, <1>6 DEF ReadOK
<1> QED
  BY <1>1, <1>2, <1>3, <1>7, PostsMove

(* A read ends *)
LEMMA PostsAnswer ==
  ASSUME PostsOK, NEW r \in Requests, NEW S \in SUBSET PostIds, Posts!Reading(r),
         postReq' = [postReq EXCEPT ![r] = Posts!Idle], shown' = [shown EXCEPT ![r] = S],
         UNCHANGED <<post, active, postOutdated>>, Posts!Watch,
         S \subseteq seen[r].live,
         \A p \in S : p \in seen[r].public \/ seen[r].entitled
  PROVE  PostsOK'
<1>1. /\ postReq'[r] = Posts!Idle /\ shown' \in [Requests -> SUBSET PostIds] /\ shown'[r] = S
      /\ \A q \in Requests \ {r} : shown'[q] = shown[q]
  BY PostsShape, PostFacts
<1>2. PostCallOK(r)' /\ ~Posts!Reading(r)'
  BY <1>1, PostFacts DEF PostCallOK, Posts!Reading
<1>3. seen'[r] = seen[r]
  BY <1>2, PostsShape, Watched
<1>4. ReadOK(r)'
  BY <1>1, <1>2, <1>3 DEF ReadOK
<1> QED
  BY <1>1, <1>2, <1>4, PostFacts, PostsMove

(* Every statement of an edit or a read keeps PostsOK. *)
LEMMA PostsStep == PostsOK /\ [Posts!Next]_(Posts!vars) => PostsOK'
<1> SUFFICES ASSUME PostsOK, [Posts!Next]_(Posts!vars) PROVE PostsOK'
  OBVIOUS
<1>1. ASSUME NEW p \in PostIds, NEW v \in Posts!Visibilities, Posts!createPost(p, v) PROVE PostsOK'
  <2> DEFINE row == [visibility |-> v, deleted |-> FALSE]
  <2>1. row \in Posts!Row
    BY DEF Posts!Row
  <2>2. /\ ~Posts!Exists(p) /\ post' = [post EXCEPT ![p] = row]
        /\ UNCHANGED <<active, postReq, postOutdated, shown>> /\ Posts!Watch
    BY <1>1 DEF Posts!createPost, Posts!Exists
  <2> HIDE DEF row
  <2>3. /\ post' \in [PostIds -> Posts!Row \cup {None}] /\ active' \subseteq Fans
        /\ \A q \in PostIds : Posts!Exists(q) => post'[q] = post[q]
    BY <2>1, <2>2, PostsShape
  <2> QED
    BY <2>2, <2>3, PostsWorld
<1>2. ASSUME NEW f \in Fans, Posts!ChangeSubscription(f) PROVE PostsOK'
  <2>1. active' \subseteq Fans
    BY <1>2, PostsShape DEF Posts!ChangeSubscription
  <2> QED
    BY <1>2, <2>1, PostsShape, PostsWorld DEF Posts!ChangeSubscription
<1>3. ASSUME NEW r \in Requests, NEW p \in PostIds, NEW a \in Posts!Visibilities \cup {"nothing"},
             Posts!updatePost(r, p, a)
      PROVE  PostsOK'
  <2> DEFINE e == [post[p] EXCEPT !.visibility = IF a = "nothing" THEN None ELSE a]
  <2>1. Posts!Edit(r, p, a, e)
    BY <1>3 DEF Posts!updatePost
  <2>2. post[p] \in Posts!Row /\ ~post[p].deleted
    BY <2>1, PostsShape DEF Posts!Edit, Posts!Live
  <2>3. /\ e \in Posts!Entity /\ ~e.deleted
        /\ e.visibility = IF a \in Posts!Visibilities THEN a ELSE None
    BY <2>2 DEF Posts!Row, Posts!Entity, Posts!Visibilities
  <2>4. a # "deletion" /\ "nothing" \notin Posts!Visibilities
    BY DEF Posts!Visibilities
  <2> HIDE DEF e
  <2> QED
    BY <2>1, <2>3, <2>4, PostsEdit
<1>4. ASSUME NEW r \in Requests, NEW p \in PostIds, Posts!deletePost(r, p) PROVE PostsOK'
  <2> DEFINE e == [post[p] EXCEPT !.deleted = TRUE]
  <2>1. Posts!Edit(r, p, "deletion", e)
    BY <1>4 DEF Posts!deletePost
  <2>2. post[p] \in Posts!Row
    BY <2>1, PostsShape DEF Posts!Edit, Posts!Live
  <2>3. /\ e \in Posts!Entity /\ e.deleted /\ e.visibility = post[p].visibility
        /\ "deletion" \notin Posts!Visibilities
    BY <2>2 DEF Posts!Row, Posts!Entity, Posts!Visibilities
  <2> HIDE DEF e
  <2> QED
    BY <2>1, <2>3, PostsEdit
<1>5. ASSUME NEW r \in Requests, NEW v \in Fans \cup {Creator, None}, Posts!getPostsByHandle(r, v)
      PROVE  PostsOK'
  <2> DEFINE w == IF Posts!canViewSubscriberContent(v) THEN "subscribers" ELSE "public"
             c == [Posts!Idle EXCEPT !.pc = "list", !.viewer = v, !.entity.visibility = w]
  <2>1. Posts!Begin(r, c) /\ shown' = [shown EXCEPT ![r] = {}] /\ UNCHANGED <<post, active, postOutdated>> /\ Posts!Watch
    BY <1>5 DEF Posts!getPostsByHandle
  <2>2. w \in Posts!Visibilities /\ (w = "subscribers" => v \in active \cup {Creator})
    BY DEF Posts!Visibilities, Posts!canViewSubscriberContent
  <2> HIDE DEF w
  <2>3. [Posts!Idle.entity EXCEPT !.visibility = w] \in Posts!Entity
    BY <2>2, PostFacts DEF Posts!Entity
  <2>4. c \in Posts!Call /\ c.pc = "list" /\ c.viewer = v /\ c.entity.visibility = w
    BY <2>3, PostFacts DEF Posts!Call, Posts!Entity
  <2> HIDE DEF c
  <2> QED
    BY <2>1, <2>2, <2>4, PostsRead
<1>6. ASSUME NEW r \in Requests, NEW v \in Fans \cup {Creator, None}, NEW p \in PostIds,
             Posts!getPostByHandle(r, v, p)
      PROVE  PostsOK'
  <2> DEFINE c == [Posts!Idle EXCEPT !.pc = "check", !.id = p, !.viewer = v]
  <2>1. /\ Posts!Begin(r, c) /\ shown' = [shown EXCEPT ![r] = {}] /\ UNCHANGED <<post, active, postOutdated>>
        /\ Posts!Watch /\ Posts!Live(p)
    BY <1>6 DEF Posts!getPostByHandle
  <2>2. c \in Posts!Call /\ c.pc = "check" /\ c.viewer = v /\ c.id = p
    BY PostFacts DEF Posts!Call
  <2> HIDE DEF c
  <2> QED
    BY <2>1, <2>2, PostsRead
<1>7. ASSUME NEW r \in Requests, Posts!List(r) PROVE PostsOK'
  <2> DEFINE S == {p \in PostIds : Posts!Live(p) /\ post[p].visibility \in {"public", postReq[r].entity.visibility}}
  <2>1. /\ Posts!Reading(r) /\ postReq[r].pc = "list" /\ shown' = [shown EXCEPT ![r] = S]
        /\ postReq' = [postReq EXCEPT ![r] = Posts!Idle]
        /\ UNCHANGED <<post, active, postOutdated>> /\ Posts!Watch
    BY <1>7 DEF Posts!List, Posts!Reading
  <2>2. ReadOK(r)
    BY DEF PostsOK
  <2>3. ASSUME NEW p \in S PROVE p \in seen[r].live /\ (p \in seen[r].public \/ seen[r].entitled)
    <3>1. p \in PostIds /\ Posts!Live(p) /\ post[p].visibility \in Posts!Visibilities
      BY PostsShape DEF Posts!Live, Posts!Row
    <3>2. post[p].visibility = "public" \/ postReq[r].entity.visibility = "subscribers"
      BY <3>1 DEF Posts!Visibilities
    <3> QED
      BY <2>1, <2>2, <3>1, <3>2 DEF ReadOK, SeenNow
  <2>4. S \in SUBSET PostIds
    OBVIOUS
  <2> HIDE DEF S
  <2> QED
    BY <2>1, <2>3, <2>4, PostsAnswer
<1>8. ASSUME NEW r \in Requests, Posts!canViewPost(r) PROVE PostsOK'
  <2> DEFINE S == IF Posts!canViewSubscriberContent(postReq[r].viewer) THEN {postReq[r].id} ELSE {}
  <2>1. /\ Posts!Reading(r) /\ postReq[r].pc = "check" /\ shown' = [shown EXCEPT ![r] = S]
        /\ postReq' = [postReq EXCEPT ![r] = Posts!Idle]
        /\ UNCHANGED <<post, active, postOutdated>> /\ Posts!Watch
    BY <1>8 DEF Posts!canViewPost, Posts!Reading
  <2>2. ReadOK(r) /\ PostCallOK(r)
    BY DEF PostsOK
  <2>3. postReq[r].id \in PostIds /\ postReq[r].id \in seen[r].live
    BY <2>1, <2>2 DEF ReadOK, PostCallOK
  <2>4. S # {} => seen[r].entitled
    BY <2>1, <2>2 DEF ReadOK, SeenNow, Posts!canViewSubscriberContent
  <2>5. S \in SUBSET PostIds /\ S \subseteq seen[r].live
    BY <2>3
  <2> HIDE DEF S
  <2> QED
    BY <2>1, <2>4, <2>5, PostsAnswer
<1>9. CASE UNCHANGED Posts!vars
  BY <1>9 DEF Posts!vars, PostsOK, Posts!TypeOK, PostCallOK, ReadOK, SeenNow, Posts!Reading,
     Posts!Live, Posts!Exists
<1> QED
  BY <1>1, <1>2, <1>3, <1>4, <1>5, <1>6, <1>7, <1>8, <1>9, PostsSelect, PostsSave DEF Posts!Next

(* A read answers with no post deleted before it began, and a subscribers- *)
(* only post reaches only its creator and fans whose subscription was      *)
(* active at some moment of the read, unless the post itself was public at *)
(* some moment of it.                                                      *)
THEOREM ShownTheorem == Posts!Spec => []ShownToEntitled
<1>1. PostsOK => ShownToEntitled
  BY DEF PostsOK, ReadOK, ShownToEntitled, Posts!ShownToEntitled, Posts!Reading
<1> QED
  BY <1>1, PostsInit, PostsStep, PTL DEF Posts!Spec

(* What changes a post is a save of what was asked, or an outdated one. *)
LEMMA ChangeStep ==
  ASSUME PostsOK, [Posts!Next]_(Posts!vars), NEW p \in PostIds, Posts!Exists(p), post'[p] # post[p]
  PROVE  \E r \in Requests :
           /\ postReq[r].pc = "update" /\ postReq[r].id = p
           /\ post'[p].visibility # post[p].visibility =>
                \/ post'[p].visibility = postReq[r].asked
                \/ postReq[r].asked = "deletion" /\ r \in postOutdated
           /\ post'[p].deleted # post[p].deleted =>
                IF postReq[r].asked = "deletion" THEN post'[p].deleted ELSE r \in postOutdated
<1>1. ~(\E q \in PostIds, v \in Posts!Visibilities : Posts!createPost(q, v))
  BY PostsShape DEF Posts!createPost, Posts!Exists
<1>2. PICK r \in Requests : Posts!SaveUpdate(r)
  BY <1>1 DEF Posts!Next, Posts!vars, Posts!ChangeSubscription, Posts!updatePost, Posts!deletePost,
     Posts!Edit, Posts!SaveSelect, Posts!getPostsByHandle, Posts!getPostByHandle, Posts!List,
     Posts!canViewPost
<1>3. PICK q \in PostIds, row \in Posts!Row :
           /\ q = postReq[r].id /\ postReq[r].pc = "update"
           /\ post' = [post EXCEPT ![q] = row]
           /\ row.visibility = IF "visibility" \in postReq[r].cols THEN postReq[r].entity.visibility
                               ELSE post[q].visibility
           /\ row.deleted = IF "deleted" \in postReq[r].cols THEN postReq[r].entity.deleted
                            ELSE post[q].deleted
  BY <1>2, SavesPost
<1>4. q = p /\ post'[p] = row /\ row # post[p] /\ post[p] \in Posts!Row
  BY <1>3, PostsShape
<1>5. /\ postReq[r].entity.deleted <=> postReq[r].asked = "deletion"
      /\ postReq[r].asked \in Posts!Visibilities => postReq[r].entity.visibility = postReq[r].asked
      /\ postReq[r].asked = "nothing" => "visibility" \notin postReq[r].cols
      /\ r \notin postOutdated =>
           /\ ~post[p].deleted
           /\ postReq[r].asked = "deletion" => postReq[r].entity.visibility = post[p].visibility
  <2>1. PostCallOK(r)
    BY DEF PostsOK
  <2> QED
    BY <1>3, <1>4, <2>1 DEF PostCallOK
<1>6. postReq[r].asked \in {"nothing", "deletion"} \cup Posts!Visibilities
  BY PostsShape DEF Posts!Call
<1>7. row.visibility # post[p].visibility =>
        \/ row.visibility = postReq[r].asked
        \/ postReq[r].asked = "deletion" /\ r \in postOutdated
  BY <1>3, <1>4, <1>5, <1>6
<1>8. row.deleted # post[p].deleted =>
        IF postReq[r].asked = "deletion" THEN row.deleted ELSE r \in postOutdated
  BY <1>3, <1>4, <1>5 DEF Posts!Row
<1> QED
  BY <1>3, <1>4, <1>7, <1>8

(* A post changes its visibility only to what the edit that saves it asked *)
(* for, however others have changed it since the edit read it, or back to  *)
(* what a deletion had read that another save outdated.  It is deleted     *)
(* only by a deletion, and comes back only through an outdated edit.       *)
THEOREM ChangesTheorem == Posts!Spec => ChangesAsAsked
<1>1. PostsOK /\ [Posts!Next]_(Posts!vars) =>
        [\A p \in PostIds : Posts!Exists(p) /\ post'[p] # post[p] =>
           \E r \in Requests :
             /\ postReq[r].pc = "update" /\ postReq[r].id = p
             /\ post'[p].visibility # post[p].visibility =>
                  \/ post'[p].visibility = postReq[r].asked
                  \/ postReq[r].asked = "deletion" /\ r \in postOutdated
             /\ post'[p].deleted # post[p].deleted =>
                  IF postReq[r].asked = "deletion" THEN post'[p].deleted ELSE r \in postOutdated]_(Posts!vars)
  BY ChangeStep
<1> QED
  BY <1>1, PostsInit, PostsStep, PTL DEF Posts!Spec, ChangesAsAsked, Posts!ChangesAsAsked

-----------------------------------------------------------------------------
(***************************************************************************)
(* The three services beside one another                                   *)
(***************************************************************************)

(* Rows and calls of the three services keep their shape. *)
THEOREM ContentTypes == ContentSpec => []ContentTypeOK
<1>1. ContentInit => CommentsOK /\ PostsOK /\ ReportsOK
  BY CommentsInit, PostsInit, ReportsInit DEF ContentInit
<1>2. [ContentNext]_<<service, vars, postVars, reportVars>> =>
        [Next]_vars /\ [Posts!Next]_(Posts!vars) /\ [Moderation!Next]_(Moderation!vars)
  BY DEF ContentNext, postVars, reportVars, Posts!vars, Moderation!vars
<1>3. CommentsOK => TypeOK
  BY DEF CommentsOK, CommentsShape, CommentCallOK, TypeOK, Exists
<1>4. CommentsOK /\ PostsOK /\ ReportsOK => ContentTypeOK
  BY <1>3 DEF PostsOK, ReportsOK, ContentTypeOK
<1> QED
  BY <1>1, <1>2, <1>4, CommentsStep, PostsStep, ReportsStep, PTL DEF ContentSpec

(* Beside one another the services keep what each keeps alone.             *)
THEOREM ContentSafe ==
  ContentSpec => /\ [](OneLevel /\ AuditFollows /\ ShownToEntitled)
                 /\ TombstonesUndone /\ OneOpenReport /\ ChangesAsAsked
<1>1. ContentInit => Init /\ Posts!Init /\ Moderation!Init
  BY DEF ContentInit
<1>2. [ContentNext]_<<service, vars, postVars, reportVars>> =>
        [Next]_vars /\ [Posts!Next]_(Posts!vars) /\ [Moderation!Next]_(Moderation!vars)
  BY DEF ContentNext, postVars, reportVars, Posts!vars, Moderation!vars
<1>3. ContentSpec => Spec /\ Posts!Spec /\ Moderation!Spec
  BY <1>1, <1>2, PTL DEF ContentSpec, Spec, Posts!Spec, Moderation!Spec
<1> QED
  BY <1>3, OneLevelTheorem, TombstonesTheorem, AuditTheorem, OneOpenTheorem, ShownTheorem, ChangesTheorem, PTL
=============================================================================
