------------------------------ MODULE MCContent ------------------------------
(***************************************************************************)
(* The services of a creator's content for TLC: the comments of a post,    *)
(* the posts of a creator, the reports of a content.  No guard of one      *)
(* reads a row of another, so a behaviour of this instance is one of any   *)
(* one of them, with the others at rest.                                   *)
(***************************************************************************)
EXTENDS Comments, TLC

CONSTANTS PostIds, Fans, Reporters, Admins, MaxReports

VARIABLES
  service,                                              \* the one that runs
  post, active, postReq, postOutdated, seen, shown,     \* Posts
  report, audit, reportReq, reportOutdated, contested   \* Moderation

postVars == <<post, active, postReq, postOutdated, seen, shown>>
reportVars == <<report, audit, reportReq, reportOutdated, contested>>

Posts == INSTANCE Posts WITH Ids <- PostIds, req <- postReq, outdated <- postOutdated
Moderation == INSTANCE Moderation WITH
  Users <- Reporters, req <- reportReq, outdated <- reportOutdated

(* What those two assume of the values they share *)
ASSUME ContentAssumption == Posts!PostsAssumption /\ Moderation!ModerationAssumption

ContentInit ==
  /\ service \in {"comments", "posts", "moderation"}
  /\ Init /\ Posts!Init /\ Moderation!Init

ContentNext ==
  /\ UNCHANGED service
  /\ \/ service = "comments" /\ Next /\ UNCHANGED <<postVars, reportVars>>
     \/ service = "posts" /\ Posts!Next /\ UNCHANGED <<vars, reportVars>>
     \/ service = "moderation" /\ Moderation!Next /\ UNCHANGED <<vars, postVars>>

ContentSpec == ContentInit /\ [][ContentNext]_<<service, vars, postVars, reportVars>>

(* Rows and calls of the three services keep their shape. *)
ContentTypeOK == TypeOK /\ Posts!TypeOK /\ Moderation!TypeOK
(* Subscribers' posts reach those entitled to them; see Posts. *)
ShownToEntitled == Posts!ShownToEntitled
(* Posts change as an edit asked; see Posts. *)
ChangesAsAsked == Posts!ChangesAsAsked
(* Decisions on reports and their audit log agree; see Moderation. *)
AuditFollows == Moderation!AuditFollows
(* A user has one open report of a content; see Moderation. *)
OneOpenReport == Moderation!OneOpenReport

Symmetry == Permutations(Requests) \cup Permutations(Admins)
=============================================================================
