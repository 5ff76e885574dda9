------------------------------- MODULE Posts -------------------------------
(***************************************************************************)
(* PostsService and PostVisibilityService for the posts of one creator.    *)
(* An edit or a deletion reads the post, changes the entity and saves it;  *)
(* save is a SELECT, which finds the columns that differ, and an UPDATE of *)
(* those.  A public read checks the viewer and reads the posts in two      *)
(* statements.  Everything interleaves with the viewers' subscriptions.    *)
(* Title, body and media are left out: an edit that names no visibility    *)
(* stands for every edit of those.                                         *)
(***************************************************************************)
EXTENDS Naturals, FiniteSets

CONSTANTS
  Ids,       \* post ids
  Creator,   \* their creator
  Fans,      \* other users
  Requests,  \* calls that may be in flight together
  None

Visibilities == {"public", "subscribers"}
Row == [visibility : Visibilities, deleted : BOOLEAN]
(* A body's None stands for undefined. *)
Entity == [visibility : Visibilities \cup {None}, deleted : BOOLEAN]

PostsAssumption ==
  None \notin Ids \cup Fans \cup {Creator} \cup Row \cup BOOLEAN /\ Creator \notin Fans

VARIABLES
  post,      \* rows: "none", or visibility and deletedAt
  active,    \* fans with an active subscription to the creator
  req,       \* calls in flight
  \* History, read by properties only.
  outdated,  \* saves in flight whose post has changed since they read it
  seen,      \* what was so at some moment of each read: posts live, posts
             \* public, viewer subscribed or the creator
  shown      \* posts in the answer of each read

vars == <<post, active, req, outdated, seen, shown>>

Columns == {"visibility", "deleted"}
NoRow == [visibility |-> "public", deleted |-> TRUE]  \* read by nothing
Idle == [pc |-> "idle", id |-> None, viewer |-> None, asked |-> "nothing",
         entity |-> NoRow, cols |-> {}]
Call ==
  [pc : {"idle", "select", "update", "list", "check"}, id : Ids \cup {None},
   viewer : Fans \cup {Creator, None},
   asked : {"nothing", "deletion"} \cup Visibilities,
   entity : Entity, cols : SUBSET Columns]

TypeOK ==
  /\ post \in [Ids -> Row \cup {None}]
  /\ active \subseteq Fans
  /\ req \in [Requests -> Call]
  /\ \A r \in Requests : req[r].pc \in {"select", "update", "check"} => post[req[r].id] # None
  /\ outdated \subseteq Requests
  /\ seen \in [Requests -> [live : SUBSET Ids, public : SUBSET Ids, entitled : BOOLEAN]]
  /\ shown \in [Requests -> SUBSET Ids]

Exists(p) == post[p] # None
Live(p) == Exists(p) /\ ~post[p].deleted

Init ==
  /\ post = [p \in Ids |-> None]
  /\ active = {}
  /\ req = [r \in Requests |-> Idle]
  /\ outdated = {}
  /\ seen = [r \in Requests |-> [live |-> {}, public |-> {}, entitled |-> FALSE]]
  /\ shown = [r \in Requests |-> {}]

-----------------------------------------------------------------------------
(* History of the reads: what holds now, and what has held since a read    *)
(* began.                                                                  *)
Now(v) == [live |-> {p \in Ids : Live(p)},
           public |-> {p \in Ids : Live(p) /\ post[p].visibility = "public"},
           entitled |-> v \in active \cup {Creator}]
Reading(r) == req[r].pc \in {"list", "check"}
Watch ==
  seen' = [r \in Requests |->
    IF Reading(r)' THEN
      LET now == Now(req[r].viewer)'
          old == IF Reading(r) THEN seen[r] ELSE Now(req'[r].viewer)
      IN [live |-> old.live \cup now.live, public |-> old.public \cup now.public,
          entitled |-> old.entitled \/ now.entitled]
    ELSE seen[r]]

Begin(r, call) ==
  /\ req[r].pc = "idle"
  /\ req' = [req EXCEPT ![r] = call]

createPost(p, v) ==
  /\ post[p] = None
  /\ post' = [post EXCEPT ![p] = [visibility |-> v, deleted |-> FALSE]]
  /\ UNCHANGED <<active, req, outdated, shown>> /\ Watch

(* The read of updatePost and deletePost: 404 for a deleted post, 403 for  *)
(* another creator's.                                                      *)
Edit(r, p, asked, entity) ==
  /\ Live(p)
  /\ Begin(r, [pc |-> "select", id |-> p, viewer |-> None, asked |-> asked,
               entity |-> entity, cols |-> {}])
  /\ outdated' = outdated \ {r}
  /\ UNCHANGED <<post, active, shown>> /\ Watch

\* Mutant: a visibility left out of the body defaults to public.
updatePost_Defaults(r, p, asked) ==
  Edit(r, p, asked, [post[p] EXCEPT !.visibility =
                       IF asked = "nothing" THEN "public" ELSE asked])

(* The DTO has a visibility, undefined where the body names none.          *)
updatePost(r, p, asked) ==
  Edit(r, p, asked, [post[p] EXCEPT !.visibility =
                       IF asked = "nothing" THEN None ELSE asked])

deletePost(r, p) ==
  Edit(r, p, "deletion", [post[p] EXCEPT !.deleted = TRUE])

(* A deletion's date differs from any stored one; save leaves out what is  *)
(* undefined.                                                              *)
SaveSelect(r) ==
  LET c == req[r] IN
  /\ c.pc = "select"
  /\ req' = [req EXCEPT ![r].pc = "update",
       ![r].cols = {k \in Columns : \/ c.entity[k] \notin {None, post[c.id][k]}
                                    \/ k = "deleted" /\ c.entity.deleted}]
  /\ UNCHANGED <<post, active, outdated, shown>> /\ Watch

SaveUpdate(r) ==
  LET c == req[r] IN
  /\ c.pc = "update"
  /\ post' = [post EXCEPT ![c.id] = [k \in Columns |->
                IF k \in c.cols THEN c.entity[k] ELSE @[k]]]
  /\ req' = [req EXCEPT ![r] = Idle]
  /\ outdated' = IF c.cols = {} THEN outdated \ {r}
                 ELSE (outdated \ {r}) \cup {q \in Requests \ {r} : req[q].id = c.id}
  /\ UNCHANGED <<active, shown>> /\ Watch

-----------------------------------------------------------------------------
\* Mutant: any subscription row counts, whatever its status.
canViewSubscriberContent_AnyStatus(viewer) == viewer # None

canViewSubscriberContent(viewer) == viewer = Creator \/ viewer \in active

(* GET /creators/:handle/posts: the viewer first, once for the page, then  *)
(* the posts.  The answer of the first step is kept in entity.visibility:  *)
(* "subscribers" when those posts are included.                            *)
getPostsByHandle(r, viewer) ==
  /\ Begin(r, [Idle EXCEPT !.pc = "list", !.viewer = viewer, !.entity.visibility =
       IF canViewSubscriberContent(viewer) THEN "subscribers" ELSE "public"])
  /\ shown' = [shown EXCEPT ![r] = {}]
  /\ UNCHANGED <<post, active, outdated>> /\ Watch

List(r) ==
  LET c == req[r] IN
  /\ c.pc = "list"
  /\ shown' = [shown EXCEPT ![r] = {p \in Ids :
       Live(p) /\ post[p].visibility \in {"public", c.entity.visibility}}]
  /\ req' = [req EXCEPT ![r] = Idle]
  /\ UNCHANGED <<post, active, outdated>> /\ Watch

\* Mutant: a post that is not found is not refused.
getPostByHandle_Unchecked(r, viewer, p) ==
  /\ Begin(r, [Idle EXCEPT !.pc = "check", !.id = p, !.viewer = viewer])
  /\ shown' = [shown EXCEPT ![r] = {}]
  /\ UNCHANGED <<post, active, outdated>> /\ Watch

(* GET /creators/:handle/posts/:postId: the post first, then, unless it is *)
(* public, the viewer.                                                     *)
getPostByHandle(r, viewer, p) ==
  /\ Live(p) /\ post[p].visibility = "subscribers"
  /\ Begin(r, [Idle EXCEPT !.pc = "check", !.id = p, !.viewer = viewer])
  /\ shown' = [shown EXCEPT ![r] = {}]
  /\ UNCHANGED <<post, active, outdated>> /\ Watch

canViewPost(r) ==
  LET c == req[r] IN
  /\ c.pc = "check"
  /\ shown' = [shown EXCEPT ![r] = IF canViewSubscriberContent(c.viewer) THEN {c.id} ELSE {}]
  /\ req' = [req EXCEPT ![r] = Idle]
  /\ UNCHANGED <<post, active, outdated>> /\ Watch

(* SubscriptionsService and the billing webhooks *)
ChangeSubscription(f) ==
  /\ active' = IF f \in active THEN active \ {f} ELSE active \cup {f}
  /\ UNCHANGED <<post, req, outdated, shown>> /\ Watch

Next ==
  \/ \E p \in Ids, v \in Visibilities : createPost(p, v)
  \/ \E f \in Fans : ChangeSubscription(f)
  \/ \E r \in Requests :
       \/ \E p \in Ids : \/ \E a \in Visibilities \cup {"nothing"} : updatePost(r, p, a)
                         \/ deletePost(r, p)
       \/ SaveSelect(r) \/ SaveUpdate(r)
       \/ \E v \in Fans \cup {Creator, None} :
            getPostsByHandle(r, v) \/ \E p \in Ids : getPostByHandle(r, v, p)
       \/ List(r) \/ canViewPost(r)

Spec == Init /\ [][Next]_vars

-----------------------------------------------------------------------------
(***************************************************************************)
(* Properties                                                              *)
(***************************************************************************)

(* A read answers with no post deleted before it began, and a subscribers- *)
(* only post reaches only its creator and fans whose subscription was      *)
(* active at some moment of the read, unless the post itself was public at *)
(* some moment of it.                                                      *)
ShownToEntitled ==
  \A r \in Requests :
    /\ shown[r] \subseteq seen[r].live
    /\ req[r].pc = "idle" => \A p \in shown[r] : p \in seen[r].public \/ seen[r].entitled

(* A post changes its visibility only to what the edit that saves it asked *)
(* for, however others have changed it since the edit read it, or back to  *)
(* what a deletion had read that another save outdated.  It is deleted     *)
(* only by a deletion, and comes back only through an outdated edit.       *)
ChangesAsAsked ==
  [][\A p \in Ids : Exists(p) /\ post'[p] # post[p] =>
       \E r \in Requests :
         /\ req[r].pc = "update" /\ req[r].id = p
         /\ post'[p].visibility # post[p].visibility =>
              \/ post'[p].visibility = req[r].asked
              \/ req[r].asked = "deletion" /\ r \in outdated
         /\ post'[p].deleted # post[p].deleted =>
              IF req[r].asked = "deletion" THEN post'[p].deleted ELSE r \in outdated]_vars
=============================================================================
