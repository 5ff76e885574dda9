----------------------------- MODULE MCServices -----------------------------
(***************************************************************************)
(* Four small services for TLC: the rate limit of comments and messages,   *)
(* avatar uploads, notifications and mail, paged lists; and the            *)
(* migrations.  They share no state, so a behaviour of this instance is    *)
(* one of any one of them, with the others at rest.                        *)
(***************************************************************************)
EXTENDS Naturals, TLC

CONSTANTS Requests, None, maxRequests, windowTicks, MaxTime, MaxRestarts, Elsewhere, MaxUploads, MaxMails,
          limit, MaxRows, PerMs, MaxDate

VARIABLES
  service,                                                        \* the one that runs
  now, cache, limitReq, allowed, lapses, behind, refusal, restarts,  \* RateLimits
  avatarUrl, files, uploads, avatarReq, strays, unsure,           \* AvatarUpload
  pref, prefReq, adrift, outbox, delivered, refused, timedOut,    \* Notifications
  list, date, visible, gone, reader, seen, kept, moved, torn,     \* Paging
  schema, applied, run, saved, failed, reverted                   \* Migrations

limitVars == <<now, cache, limitReq, allowed, lapses, behind, refusal, restarts>>
avatarVars == <<avatarUrl, files, uploads, avatarReq, strays, unsure>>
prefVars == <<pref, prefReq, adrift, outbox, delivered, refused, timedOut>>
listVars == <<list, date, visible, gone, reader, seen, kept, moved, torn>>
migrationVars == <<schema, applied, run, saved, failed, reverted>>
vars == <<service, limitVars, avatarVars, prefVars, listVars, migrationVars>>

RateLimits == INSTANCE RateLimits
AvatarUpload == INSTANCE AvatarUpload
Notifications == INSTANCE Notifications
Paging == INSTANCE Paging
Migrations == INSTANCE Migrations

ASSUME ServicesAssumption ==
  /\ RateLimits!RateLimitsAssumption /\ AvatarUpload!AvatarUploadAssumption
  /\ Notifications!NotificationsAssumption /\ Paging!PagingAssumption

Init ==
  /\ RateLimits!Init /\ AvatarUpload!Init /\ Notifications!Init /\ Paging!Init
  /\ Migrations!Init
  /\ \/ service \in {"limits", "notifications", "migrations"} /\ visible = {} /\ list = "feed" /\ files = {}
        /\ \A i \in DOMAIN date : date[i] = 0
     \/ service = "avatar" /\ visible = {} /\ list = "feed" /\ \A i \in DOMAIN date : date[i] = 0
     \/ service = "paging" /\ files = {}

Next ==
  /\ UNCHANGED service
  /\ \/ service = "limits" /\ RateLimits!Next /\ UNCHANGED <<avatarVars, prefVars, listVars, migrationVars>>
     \/ service = "avatar" /\ AvatarUpload!Next /\ UNCHANGED <<limitVars, prefVars, listVars, migrationVars>>
     \/ service = "notifications" /\ Notifications!Next /\ UNCHANGED <<limitVars, avatarVars, listVars, migrationVars>>
     \/ service = "paging" /\ Paging!Next /\ UNCHANGED <<limitVars, avatarVars, prefVars, migrationVars>>
     \/ service = "migrations" /\ Migrations!Next /\ UNCHANGED <<limitVars, avatarVars, prefVars, listVars>>

Spec == Init /\ [][Next]_vars /\ Notifications!Fairness

(* The state of each service keeps its shape. *)
TypeOK == /\ RateLimits!TypeOK /\ AvatarUpload!TypeOK
          /\ Notifications!TypeOK /\ Paging!TypeOK
(* The limit of a window; see RateLimits. *)
LimitHolds == RateLimits!LimitHolds
(* The avatar's URL names a file, and no other is left; see AvatarUpload. *)
FilesFollowAvatar == AvatarUpload!FilesFollowAvatar
(* The outbox agrees with the driver; see Notifications. *)
OutboxHonest == Notifications!OutboxHonest
(* No call waits for the driver for good; see Notifications. *)
CallsEnd == Notifications!CallsEnd
(* A preference no update named keeps its value; see Notifications. *)
ChoiceKept == Notifications!ChoiceKept
(* A reader misses nothing that stayed, sees nothing twice; see Paging. *)
PagesExact == Paging!PagesExact
(* The schema is that of the applied migrations; see Migrations. *)
SchemaFollowsApplied == service = "migrations" => Migrations!SchemaFollowsApplied
=============================================================================
