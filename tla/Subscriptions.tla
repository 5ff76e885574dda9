--------------------------- MODULE Subscriptions ---------------------------
(***************************************************************************)
(* SubscriptionsService over the table subscriptions, one row per          *)
(* (fan, creator) pair.                                                    *)
(*                                                                         *)
(* subscribe and cancel read the row, change the entity in memory and save *)
(* it.  repository.save(entity) is two statements: it SELECTs the row      *)
(* again, compares it with the entity column by column, then UPDATEs the   *)
(* columns that differ.  Requests interleave between the statements.       *)
(* cancelledAt is abstracted to "null" or "set"; a cancel's new Date()     *)
(* differs from whatever is stored.  subscribedAt orders lists only and is *)
(* left out.  Requests refused before the first read (a fan subscribing to *)
(* itself, an unknown creator) change nothing and are not actions.         *)
(***************************************************************************)
EXTENDS Naturals, FiniteSets

CONSTANTS
  Pairs,     \* (fan, creator) pairs named by requests or by payloads
  Accounts,  \* those of Pairs whose users exist
  Fans,      \* subscribe and cancel requests that may be in flight together
  None

ASSUME AccountsAssumption == Accounts \subseteq Pairs /\ None \notin Pairs

VARIABLES
  status,       \* column status of a pair's row; "none" if there is no row
  cancelledAt,  \* column cancelledAt
  req           \* requests in flight

subscriptionVars == <<status, cancelledAt, req>>

Columns == {"status", "cancelledAt"}
Statuses == {"active", "cancelled", "past_due"}
Entity == [status : Statuses, cancelledAt : {"null", "set"}]

Activated == [status |-> "active", cancelledAt |-> "null"]
Cancelled == [status |-> "cancelled", cancelledAt |-> "set"]

Idle == [pc |-> "idle", pair |-> None, entity |-> Activated, cols |-> {}]
Request ==
  [pc : {"idle", "insert", "select", "update"}, pair : Pairs \cup {None},
   entity : Entity, cols : SUBSET Columns]

SubscriptionsTypeOK ==
  /\ status \in [Pairs -> Statuses \cup {"none"}]
  /\ cancelledAt \in [Pairs -> {"null", "set"}]
  /\ req \in [Fans -> Request]
  /\ \A f \in Fans : req[f].pc = "idle" <=> req[f].pair = None

SubscriptionsInit ==
  /\ status = [p \in Pairs |-> "none"]
  /\ cancelledAt = [p \in Pairs |-> "null"]
  /\ req = [f \in Fans |-> Idle]

(***************************************************************************)
(* TypeORM's save, as its statements act on a row                          *)
(***************************************************************************)

(* The columns save finds changed.  A cancel's date is always new.         *)
ChangedColumns(p, entity) ==
  {c \in Columns :
     \/ c = "status" /\ entity.status # status[p]
     \/ c = "cancelledAt" /\ (entity.cancelledAt # cancelledAt[p] \/ entity = Cancelled)}

(* The UPDATE of those columns, on the row as it is by then *)
UpdateRow(p, entity, cols) ==
  /\ status' = IF "status" \in cols THEN [status EXCEPT ![p] = entity.status] ELSE status
  /\ cancelledAt' = IF "cancelledAt" \in cols
                      THEN [cancelledAt EXCEPT ![p] = entity.cancelledAt] ELSE cancelledAt

InsertRow(p, entity) ==
  /\ status' = [status EXCEPT ![p] = entity.status]
  /\ cancelledAt' = [cancelledAt EXCEPT ![p] = entity.cancelledAt]

(***************************************************************************)
(* Requests                                                                *)
(***************************************************************************)
Begin(f, step, p, entity) ==
  /\ req[f].pc = "idle"
  /\ req' = [req EXCEPT ![f] = [pc |-> step, pair |-> p, entity |-> entity, cols |-> {}]]
  /\ UNCHANGED <<status, cancelledAt>>

(* POST /subscriptions: an active row is a 409, any other row is           *)
(* reactivated, no row is an insert.                                       *)
subscribe(f, p) ==
  /\ p \in Accounts
  /\ \/ status[p] = "none" /\ Begin(f, "insert", p, Activated)
     \/ status[p] \in {"cancelled", "past_due"} /\ Begin(f, "select", p, Activated)

(* DELETE /subscriptions/:creatorId finds active rows only. *)
cancel(f, p) ==
  /\ status[p] = "active"
  /\ Begin(f, "select", p, Cancelled)

SaveSelect(f) ==
  /\ req[f].pc = "select"
  /\ req' = [req EXCEPT ![f].pc = "update",
                        ![f].cols = ChangedColumns(req[f].pair, req[f].entity)]
  /\ UNCHANGED <<status, cancelledAt>>

SaveUpdate(f) ==
  /\ req[f].pc = "update"
  /\ UpdateRow(req[f].pair, req[f].entity, req[f].cols)
  /\ req' = [req EXCEPT ![f] = Idle]

(* The unique index on the pair lets the first insert through; the other   *)
(* request ends in an error.                                               *)
SaveInsert(f) ==
  /\ req[f].pc = "insert"
  /\ \/ status[req[f].pair] = "none" /\ InsertRow(req[f].pair, req[f].entity)
     \/ status[req[f].pair] # "none" /\ UNCHANGED <<status, cancelledAt>>
  /\ req' = [req EXCEPT ![f] = Idle]

FanStep(f) == SaveSelect(f) \/ SaveUpdate(f) \/ SaveInsert(f)

(* Who gets the creator's subscribers-only posts *)
isActiveSubscriber(p) == status[p] = "active"
=============================================================================
