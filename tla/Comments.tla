------------------------------ MODULE Comments ------------------------------
(***************************************************************************)
(* CommentsService over the table comments, for one post.  No handler asks *)
(* whether the post has been deleted, so its deletion is left out.  Every  *)
(* handler reads, decides, then writes; save of a loaded comment is a      *)
(* SELECT, which finds the columns that differ, and an UPDATE of those.    *)
(* The body is left out: an edit always changes it.  The guard before      *)
(* createComment is RateLimits.                                            *)
(***************************************************************************)
EXTENDS Naturals, FiniteSets

CONSTANTS
  Users,     \* who writes, edits and deletes comments
  Creator,   \* the post's creator
  Requests,  \* calls that may be in flight together
  None,
  MaxComments  \* bound on comments made

Ids == 1..MaxComments
Row == [author : Users, parent : Ids \cup {None}, deleted : BOOLEAN]

ASSUME CommentsAssumption ==
  MaxComments \in Nat /\ None \notin Users \cup Ids \cup Row /\ Creator \in Users

VARIABLES
  comment,   \* rows: None, or author, parentId and whether deletedAt is set
  req,       \* calls in flight
  outdated   \* history: calls that have read a comment changed since

vars == <<comment, req, outdated>>

Idle == [pc |-> "idle", user |-> None, id |-> None, deleting |-> FALSE,
         differs |-> FALSE]
Call ==
  [pc : {"idle", "parent", "insert", "post", "select", "update"},
   user : Users \cup {None}, id : Ids \cup {None}, deleting : BOOLEAN,
   differs : BOOLEAN]

TypeOK ==
  /\ comment \in [Ids -> Row \cup {None}]
  /\ req \in [Requests -> Call]
  /\ \A r \in Requests : req[r].pc \in {"post", "select", "update"} => comment[req[r].id] # None
  /\ outdated \subseteq Requests

Init ==
  /\ comment = [c \in Ids |-> None]
  /\ req = [r \in Requests |-> Idle]
  /\ outdated = {}

Exists(c) == comment[c] # None
NextId == Cardinality({c \in Ids : Exists(c)}) + 1

-----------------------------------------------------------------------------
Begin(r, call) ==
  /\ req[r].pc = "idle"
  /\ req' = [req EXCEPT ![r] = call]
  /\ outdated' = outdated \ {r}

Goto(r, step) ==
  /\ req' = [req EXCEPT ![r].pc = step]
  /\ UNCHANGED <<comment, outdated>>

Refuse(r) ==
  /\ req' = [req EXCEPT ![r] = Idle]
  /\ UNCHANGED <<comment, outdated>>

(* Others that have read comment c before this write *)
Outdates(r, c) ==
  outdated' = (outdated \ {r}) \cup {q \in Requests \ {r} : req[q].id = c}

(* POST /posts/:postId/comments: the post's row exists, deleted or not;    *)
(* parent is the comment replied to, or None.                              *)
createComment(r, u, parent) ==
  /\ Begin(r, [Idle EXCEPT !.pc = IF parent = None THEN "insert" ELSE "parent",
                           !.user = u, !.id = parent])
  /\ UNCHANGED comment

\* Mutant: the parent may be a reply.
FindParent_AnyDepth(r) ==
  LET c == req[r].id IN
  /\ req[r].pc = "parent"
  /\ IF Exists(c) /\ ~comment[c].deleted THEN Goto(r, "insert") ELSE Refuse(r)

(* The parent is a top-level comment of this post and not deleted. *)
FindParent(r) ==
  LET c == req[r].id IN
  /\ req[r].pc = "parent"
  /\ IF Exists(c) /\ comment[c].parent = None /\ ~comment[c].deleted
       THEN Goto(r, "insert") ELSE Refuse(r)

Insert(r) ==
  /\ req[r].pc = "insert"
  /\ NextId \in Ids
  /\ comment' = [comment EXCEPT ![NextId] =
       [author |-> req[r].user, parent |-> req[r].id, deleted |-> FALSE]]
  /\ req' = [req EXCEPT ![r] = Idle]
  /\ UNCHANGED outdated

\* Mutant: a deleted comment is not a 404.
updateComment_Deleted(r, u, c) ==
  /\ Exists(c) /\ comment[c].author = u
  /\ Begin(r, [Idle EXCEPT !.pc = "select", !.user = u, !.id = c])
  /\ UNCHANGED comment

(* PATCH /comments/:id: the author, a comment that is not deleted. *)
updateComment(r, u, c) ==
  /\ Exists(c) /\ ~comment[c].deleted /\ comment[c].author = u
  /\ Begin(r, [Idle EXCEPT !.pc = "select", !.user = u, !.id = c])
  /\ UNCHANGED comment

(* DELETE /comments/:id: the comment, then its post; the author or the     *)
(* post's creator; a comment read as deleted is left alone.                *)
deleteComment(r, u, c) ==
  /\ Exists(c) /\ ~comment[c].deleted
  /\ Begin(r, [Idle EXCEPT !.pc = "post", !.user = u, !.id = c, !.deleting = TRUE])
  /\ UNCHANGED comment

FindPost(r) ==
  /\ req[r].pc = "post"
  /\ IF req[r].user \in {comment[req[r].id].author, Creator}
       THEN Goto(r, "select") ELSE Refuse(r)

(* deletedAt of a deletion is a new date; of an edit, the null it read. *)
SaveSelect(r) ==
  /\ req[r].pc = "select"
  /\ req' = [req EXCEPT ![r].pc = "update",
                        ![r].differs = req[r].deleting \/ comment[req[r].id].deleted]
  /\ UNCHANGED <<comment, outdated>>

SaveUpdate(r) ==
  LET c == req[r].id IN
  /\ req[r].pc = "update"
  /\ comment' = IF req[r].differs THEN [comment EXCEPT ![c].deleted = req[r].deleting]
                                  ELSE comment
  /\ req' = [req EXCEPT ![r] = Idle]
  /\ IF comment' = comment THEN outdated' = outdated \ {r} ELSE Outdates(r, c)

Next ==
  \/ \E r \in Requests :
       \/ \E u \in Users :
            \/ \E c \in Ids \cup {None} : createComment(r, u, c)
            \/ \E c \in Ids : updateComment(r, u, c) \/ deleteComment(r, u, c)
       \/ FindParent(r) \/ Insert(r)
       \/ FindPost(r) \/ SaveSelect(r) \/ SaveUpdate(r)

Spec == Init /\ [][Next]_vars

-----------------------------------------------------------------------------
(***************************************************************************)
(* Properties                                                              *)
(***************************************************************************)

(* Threads are one level deep whatever is created, edited and deleted      *)
(* meanwhile: the parent of a reply is a top-level comment.                *)
OneLevel ==
  \A c \in Ids : Exists(c) /\ comment[c].parent # None =>
    Exists(comment[c].parent) /\ comment[comment[c].parent].parent = None

(* A tombstone is undone only by an edit of its author that had read the   *)
(* comment before it was deleted.                                          *)
TombstonesUndone ==
  [][\A c \in Ids : Exists(c) /\ comment[c].deleted /\ ~comment'[c].deleted =>
       \E r \in outdated : /\ req[r].pc = "update" /\ req[r].id = c
                           /\ req[r].user = comment[c].author]_vars
=============================================================================
