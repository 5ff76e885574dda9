-------------------------- MODULE BillingWebhooks --------------------------
(***************************************************************************)
(* BillingWebhooksService beside the fans' own requests of Subscriptions.  *)
(*                                                                         *)
(* A delivery runs in one database transaction at READ COMMITTED, on a     *)
(* connection taken from the pool for its whole length.  The event row and *)
(* a new map row are inserted early: another transaction that inserts the  *)
(* same unique key waits until this one ends, which is the guard of those  *)
(* inserts.  The write to subscriptions is taken together with the COMMIT  *)
(* that follows it: others see it no earlier, and those that want the row  *)
(* wait for it.  An error of the database inside the transaction aborts    *)
(* it; TypeORM's save makes no savepoint, so the UPDATE of the event row   *)
(* that comes next fails as well and neither rollback nor release runs.    *)
(***************************************************************************)
EXTENDS Subscriptions

CONSTANTS
  Events,      \* provider event ids
  Exts,        \* external subscription ids
  Payload,     \* what each event carries
  PairOf,      \* the pair an external subscription id was created for
  Deliveries,  \* webhook calls that may be in flight together
  PoolSize,    \* connections of the pool
  MaxAttempts, \* bound on recorded redeliveries of an event
  MaxCrashes   \* bound on restarts of the process

Types == {"activated", "cancelled", "payment_failed", "other"}

ASSUME PayloadAssumption ==
  /\ None \notin Exts \cup Events \cup Deliveries \cup Fans
  /\ PairOf \in [Exts -> Pairs]
  /\ Payload \in [Events -> [type : Types, ext : Exts \cup {None}, pair : Pairs \cup {None}]]
  /\ \A e \in Events : LET p == Payload[e] IN
       p.ext # None /\ p.pair # None => p.pair = PairOf[p.ext]
ASSUME PoolAssumption ==
  PoolSize \in Nat \ {0} /\ MaxAttempts \in Nat /\ MaxCrashes \in Nat

VARIABLES
  event,       \* committed status of an event's row; "none" if there is no row
  attempts,    \* its deliveryAttempts
  maps,        \* BillingCustomerMap: the pair of an external id, or None
  tx,          \* deliveries in flight
  free,        \* connections in the pool
  \* History, read by properties only.
  overlapped,  \* pairs written while another writer had already read them
  leaked,      \* connections never returned
  aborted,     \* events whose delivery ran into a database error
  crashes

billingVars == <<event, attempts, maps, tx, free>>
historyVars == <<overlapped, leaked, aborted, crashes>>
vars == <<subscriptionVars, billingVars, historyVars>>

Outcomes == {"processed", "ignored", "failed"}
TxIdle == [pc |-> "idle", event |-> None, newMap |-> FALSE, outcome |-> "failed",
           write |-> "none", entity |-> Activated, cols |-> {}]
Tx ==
  [pc : {"idle", "insertEvent", "findMap", "insertMap", "findSub", "select", "finish", "duplicate"},
   event : Events \cup {None}, newMap : BOOLEAN, outcome : Outcomes,
   write : {"none", "insert", "update"}, entity : Entity, cols : SUBSET Columns]

TypeOK ==
  /\ SubscriptionsTypeOK
  /\ event \in [Events -> Outcomes \cup {"none"}]
  /\ attempts \in [Events -> Nat]
  /\ maps \in [Exts -> Pairs \cup {None}]
  /\ tx \in [Deliveries -> Tx]
  /\ \A w \in Deliveries : tx[w].pc = "idle" <=> tx[w].event = None
  /\ free \in 0..PoolSize
  /\ overlapped \subseteq Pairs
  /\ leaked \in 0..PoolSize
  /\ aborted \subseteq Events
  /\ crashes \in Nat

Init ==
  /\ SubscriptionsInit
  /\ event = [e \in Events |-> "none"]
  /\ attempts = [e \in Events |-> 0]
  /\ maps = [x \in Exts |-> None]
  /\ tx = [w \in Deliveries |-> TxIdle]
  /\ free = PoolSize
  /\ overlapped = {} /\ leaked = 0 /\ aborted = {} /\ crashes = 0

-----------------------------------------------------------------------------
of(w) == Payload[tx[w].event]
pairOf(w) == PairOf[of(w).ext]

(* Deliveries whose transaction holds an uncommitted event or map row *)
HoldsEvent(w, e) ==
  tx[w].event = e /\ tx[w].pc \notin {"idle", "insertEvent", "duplicate"}
HoldsMap(w, x) ==
  tx[w].newMap /\ of(w).ext = x

Goto(w, step) == tx' = [tx EXCEPT ![w].pc = step]
Fails(w) == tx' = [tx EXCEPT ![w].pc = "finish", ![w].outcome = "failed"]
Untouched == UNCHANGED <<subscriptionVars, event, attempts, maps, free, historyVars>>

(* A provider delivers an event, the first time or again; the body checks  *)
(* and the signature precede any state.  connect() waits for a connection. *)
processEvent(w, e) ==
  /\ tx[w].pc = "idle"
  /\ attempts[e] < MaxAttempts
  /\ free > 0
  /\ free' = free - 1
  /\ tx' = [tx EXCEPT ![w] = [TxIdle EXCEPT !.pc = "insertEvent", !.event = e]]
  /\ UNCHANGED <<subscriptionVars, event, attempts, maps, historyVars>>

\* Mutant: no unique index on eventId.
InsertEvent_NoUniqueIndex(w) ==
  LET e == tx[w].event IN
  /\ tx[w].pc = "insertEvent"
  /\ IF Payload[e].type = "other"
       THEN tx' = [tx EXCEPT ![w].pc = "finish", ![w].outcome = "ignored"]
       ELSE IF Payload[e].ext = None THEN Fails(w) ELSE Goto(w, "findMap")
  /\ Untouched

(* The INSERT of the event row waits for a transaction that holds the id.  *)
InsertEvent(w) ==
  LET e == tx[w].event IN
  /\ tx[w].pc = "insertEvent"
  /\ \A v \in Deliveries : ~HoldsEvent(v, e)
  /\ event[e] = "none"
  /\ IF Payload[e].type = "other"
       THEN tx' = [tx EXCEPT ![w].pc = "finish", ![w].outcome = "ignored"]
       ELSE IF Payload[e].ext = None THEN Fails(w) ELSE Goto(w, "findMap")
  /\ Untouched

\* Mutant: the connection is kept while the redelivery is counted.
RejectDuplicate_KeepsConnection(w) ==
  /\ tx[w].pc = "insertEvent"
  /\ event[tx[w].event] # "none"
  /\ Goto(w, "duplicate")
  /\ Untouched

(* A unique violation: rollback, release, then count the redelivery. *)
RejectDuplicate(w) ==
  /\ tx[w].pc = "insertEvent"
  /\ event[tx[w].event] # "none"
  /\ free' = free + 1
  /\ Goto(w, "duplicate")
  /\ UNCHANGED <<subscriptionVars, event, attempts, maps, historyVars>>

\* Mutant: the connection is released a second time.
recordDuplicateDelivery_ReleasesAgain(w) ==
  /\ tx[w].pc = "duplicate"
  /\ free > 0
  /\ free' = free + 1
  /\ attempts' = [attempts EXCEPT ![tx[w].event] = @ + 1]
  /\ tx' = [tx EXCEPT ![w] = TxIdle]
  /\ UNCHANGED <<subscriptionVars, event, maps, historyVars>>

recordDuplicateDelivery(w) ==
  /\ tx[w].pc = "duplicate"
  /\ free > 0
  /\ attempts' = [attempts EXCEPT ![tx[w].event] = @ + 1]
  /\ tx' = [tx EXCEPT ![w] = TxIdle]
  /\ UNCHANGED <<subscriptionVars, event, maps, free, historyVars>>

(* applyMutation, first read: the map decides between the branches. *)
FindMap(w) ==
  LET activates == of(w).type = "activated"
      mapped == maps[of(w).ext] # None
  IN
  /\ tx[w].pc = "findMap"
  /\ \/ mapped /\ Goto(w, "findSub")
     \/ ~mapped /\ activates /\ of(w).pair # None /\ Goto(w, "insertMap")
     \/ ~mapped /\ (activates => of(w).pair = None) /\ Fails(w)
  /\ Untouched

\* Mutant: the map is saved by its repository, outside the transaction.
InsertMap_OutsideTransaction(w) ==
  /\ tx[w].pc = "insertMap"
  /\ maps[of(w).ext] = None
  /\ maps' = [maps EXCEPT ![of(w).ext] = pairOf(w)]
  /\ Goto(w, "findSub")
  /\ UNCHANGED <<subscriptionVars, event, attempts, free, historyVars>>

InsertMap(w) ==
  /\ tx[w].pc = "insertMap"
  /\ \A v \in Deliveries : ~HoldsMap(v, of(w).ext)
  /\ maps[of(w).ext] = None
  /\ tx' = [tx EXCEPT ![w].pc = "findSub", ![w].newMap = TRUE]
  /\ Untouched

\* Mutant: reactivation does not clear cancelledAt.
EntityFor_KeepsDate(type, p) ==
  CASE type = "cancelled" -> Cancelled
    [] type = "activated" -> [status |-> "active", cancelledAt |-> cancelledAt[p]]
    [] OTHER -> [status |-> "past_due", cancelledAt |-> cancelledAt[p]]

(* The subscription row is read and the entity changed in memory.  A       *)
(* failed payment keeps the cancelledAt it has read.                       *)
EntityFor(type, p) ==
  CASE type = "activated" -> Activated
    [] type = "cancelled" -> Cancelled
    [] OTHER -> [status |-> "past_due", cancelledAt |-> cancelledAt[p]]

FindSub(w) ==
  LET p == pairOf(w) IN
  /\ tx[w].pc = "findSub"
  /\ \/ /\ status[p] # "none"
        /\ tx' = [tx EXCEPT ![w].pc = "select", ![w].write = "update",
                            ![w].entity = EntityFor(of(w).type, p)]
     \/ /\ status[p] = "none" /\ of(w).type = "activated"
        /\ tx' = [tx EXCEPT ![w].pc = "finish", ![w].write = "insert",
                            ![w].entity = Activated, ![w].outcome = "processed"]
     \/ status[p] = "none" /\ of(w).type # "activated" /\ Fails(w)
  /\ Untouched

Select(w) ==
  /\ tx[w].pc = "select"
  /\ tx' = [tx EXCEPT ![w].pc = "finish", ![w].outcome = "processed",
                      ![w].cols = ChangedColumns(pairOf(w), tx[w].entity)]
  /\ Untouched

(* Some other writer of p has read the row and has its UPDATE ahead. *)
Overlap(p, w, f) ==
  \/ \E v \in Deliveries \ {w} : /\ tx[v].write = "update"
                                 /\ pairOf(v) = p
  \/ \E g \in Fans \ {f} : req[g].pair = p /\ req[g].pc \in {"select", "update"}
NoteOverlap(p, w, f) ==
  overlapped' = IF Overlap(p, w, f) THEN overlapped \cup {p} ELSE overlapped

(* The write to subscriptions, the final status of the event, COMMIT,      *)
(* release.  Nothing of the map or the subscription is written by an       *)
(* event that failed before it reached them.                               *)
Commit(w) ==
  LET t == tx[w]
      p == pairOf(w)
  IN
  /\ t.pc = "finish"
  /\ t.write = "insert" => p \in Accounts /\ status[p] = "none"
  /\ event' = [event EXCEPT ![t.event] = t.outcome]
  /\ maps' = IF t.newMap THEN [maps EXCEPT ![of(w).ext] = p] ELSE maps
  /\ \/ t.write = "none" /\ UNCHANGED <<status, cancelledAt, overlapped>>
     \/ t.write = "insert" /\ InsertRow(p, t.entity) /\ UNCHANGED overlapped
     \/ t.write = "update" /\ UpdateRow(p, t.entity, t.cols) /\ NoteOverlap(p, w, None)
  /\ tx' = [tx EXCEPT ![w] = TxIdle]
  /\ free' = free + 1
  /\ UNCHANGED <<req, attempts, leaked, aborted, crashes>>

(* A constraint stops applyMutation: the unique index on the external id   *)
(* or on the pair, taken since the read, or the foreign key of a pair      *)
(* whose users do not exist.  The connection is lost to the pool.          *)
DatabaseError(w) ==
  LET t == tx[w] IN
  /\ \/ t.pc = "insertMap" /\ maps[of(w).ext] # None
     \/ t.pc = "finish" /\ t.write = "insert" /\ (pairOf(w) \notin Accounts \/ status[pairOf(w)] # "none")
  /\ aborted' = aborted \cup {t.event}
  /\ leaked' = leaked + 1
  /\ tx' = [tx EXCEPT ![w] = TxIdle]
  /\ UNCHANGED <<subscriptionVars, event, attempts, maps, free, overlapped, crashes>>

(* The process restarts: open transactions roll back, connections close.   *)
Crash ==
  /\ crashes < MaxCrashes
  /\ crashes' = crashes + 1
  /\ tx' = [w \in Deliveries |-> TxIdle]
  /\ req' = [f \in Fans |-> Idle]
  /\ free' = PoolSize
  /\ leaked' = 0
  /\ UNCHANGED <<status, cancelledAt, event, attempts, maps, overlapped, aborted>>

(* Every statement of a fan's request needs a connection for itself. *)
Fan(f) ==
  /\ free > 0
  /\ \/ (\E p \in Pairs : subscribe(f, p) \/ cancel(f, p)) /\ UNCHANGED overlapped
     \/ SaveSelect(f) /\ UNCHANGED overlapped
     \/ SaveInsert(f) /\ UNCHANGED overlapped
     \/ SaveUpdate(f) /\ NoteOverlap(req[f].pair, None, f)
  /\ UNCHANGED <<billingVars, leaked, aborted, crashes>>

Delivery(w) ==
  \/ InsertEvent(w) \/ RejectDuplicate(w) \/ recordDuplicateDelivery(w)
  \/ FindMap(w) \/ InsertMap(w) \/ FindSub(w) \/ Select(w)
  \/ Commit(w) \/ DatabaseError(w)

Next ==
  \/ \E w \in Deliveries : Delivery(w) \/ \E e \in Events : processEvent(w, e)
  \/ \E f \in Fans : Fan(f)
  \/ Crash

Spec == Init /\ [][Next]_vars

(* Postgres and the pool queue serve waiters in order, so a delivery that  *)
(* can keep going, or can go on again and again, does.                     *)
FairSpec == Spec /\ \A w \in Deliveries : SF_vars(Delivery(w))

-----------------------------------------------------------------------------
(***************************************************************************)
(* Properties                                                              *)
(***************************************************************************)

(* The detailed service implements the ledger: however deliveries overlap, *)
(* repeat, fail and crash, an event changes the subscriptions only in the  *)
(* step that records it, on its own pair, and is never recorded again.     *)
Ledger == INSTANCE EventLedger WITH ledger <- event,
  PairOf <- [e \in Events |-> IF Payload[e].ext = None THEN None ELSE PairOf[Payload[e].ext]]
EventsAppliedOnce == Ledger!Spec

(* A mapped external id has a subscription row and a processed activation  *)
(* that named the pair: map, row and event are committed together, so the  *)
(* branch of applyMutation for a map without a row is never taken.         *)
MappedHasRow ==
  \A x \in Exts : maps[x] # None =>
    /\ status[maps[x]] # "none"
    /\ \E e \in Events : /\ event[e] = "processed"
                         /\ Payload[e] = [type |-> "activated", ext |-> x, pair |-> maps[x]]

(* Every connection is in the pool, with a transaction, or lost to a       *)
(* database error: no other path of processEvent forgets one.              *)
PoolAccounted ==
  free + leaked + Cardinality({w \in Deliveries : tx[w].pc \notin {"idle", "duplicate"}})
    = PoolSize

(* The statement w has come to is not waiting for anything: the guards of  *)
(* Delivery(w), with the rows of its own transaction left out.             *)
Ready(w) ==
  \/ tx[w].pc \in {"findMap", "findSub", "select", "finish"}
  \/ tx[w].pc = "insertEvent" /\ \A v \in Deliveries : ~HoldsEvent(v, tx[w].event)
  \/ tx[w].pc = "insertMap" /\ \A v \in Deliveries : ~HoldsMap(v, of(w).ext)
  \/ tx[w].pc = "duplicate" /\ free > 0

(* Deliveries wait for each other's event rows and map rows and, to count  *)
(* a redelivery, for a connection; never in a circle, and never for one    *)
(* that holds a connection while it waits for a second.  Unless errors     *)
(* have leaked the whole pool, one can go on, or none is in flight and     *)
(* the pool has a connection for the next.                                 *)
SomeoneGoesOn ==
  leaked < PoolSize =>
    \/ \E w \in Deliveries : Ready(w)
    \/ free > 0 /\ \A w \in Deliveries : tx[w].pc = "idle"

(* As long as no two writers of a pair overlap, the two columns agree: an  *)
(* active row has no cancellation date and a cancelled one has a date.     *)
ColumnsAgree ==
  \A p \in Pairs \ overlapped :
    /\ status[p] = "active" => cancelledAt[p] = "null"
    /\ status[p] = "cancelled" => cancelledAt[p] = "set"

(* A delivery that waits for another one's key or for a connection is      *)
(* never stuck: no delivery holds a connection while it waits for another, *)
(* so each one ends unless database errors have leaked the whole pool.     *)
DeliveriesEnd ==
  \A w \in Deliveries : tx[w].pc = "insertEvent" ~> tx[w].pc = "idle" \/ leaked = PoolSize

(* What the integration test says of a mutation that violates a database   *)
(* constraint: the event row itself is committed, as failed.               *)
FailureRecorded ==
  \A e \in aborted : event[e] # "none"
=============================================================================
