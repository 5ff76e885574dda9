----------------------- MODULE BillingWebhooksProofs -----------------------
(***************************************************************************)
(* Proofs about BillingWebhooks, for any number of events, ids, pairs,     *)
(* deliveries and fans' requests, and any size of the pool.                *)
(***************************************************************************)
EXTENDS BillingWebhooks, FiniteSetTheorems, TLAPS

-----------------------------------------------------------------------------
(***************************************************************************)
(* The state is well formed                                                *)
(***************************************************************************)

(* What the event of a transaction names *)
Names(t) == Payload[t.event]

(* How far a delivery has come, and what it knows by then: past the event  *)
(* row it has an external id, past the map row the pair of an activation,  *)
(* and at the end a write exactly if it was processed.                     *)
Knows(t) ==
  /\ t.pc = "idle" <=> t.event = None
  /\ t.pc \in {"findMap", "insertMap", "findSub", "select"} \/ t.newMap \/ t.write # "none" =>
       Names(t).ext # None
  /\ t.pc = "insertMap" \/ t.newMap => Names(t).type = "activated" /\ Names(t).pair # None
  /\ t.newMap => t.pc \in {"findSub", "select", "finish"}
  /\ t.newMap /\ t.pc = "finish" => t.write # "none"
  /\ t.pc = "finish" => (t.outcome = "processed" <=> t.write # "none")
  /\ t.pc = "select" => t.write = "update"
  /\ t.write = "insert" => t.pc = "finish" /\ t.entity = Activated
  /\ t.write = "update" => t.pc \in {"select", "finish"}

KnownTx == {t \in Tx : Knows(t)}

(* TypeOK without the two counters of the pool, whose bounds depend on     *)
(* PoolAccounted, and with what deliveries know.                           *)
ShapeOK ==
  /\ SubscriptionsTypeOK
  /\ event \in [Events -> Outcomes \cup {"none"}]
  /\ attempts \in [Events -> Nat]
  /\ maps \in [Exts -> Pairs \cup {None}]
  /\ tx \in [Deliveries -> KnownTx]
  /\ overlapped \subseteq Pairs
  /\ aborted \subseteq Events
  /\ crashes \in Nat

(* What an event names *)
LEMMA PayloadFacts ==
  ASSUME NEW e \in Events
  PROVE  /\ Payload[e].type \in Types
         /\ Payload[e].ext \in Exts \cup {None}
         /\ Payload[e].pair \in Pairs \cup {None}
         /\ Payload[e].ext # None => PairOf[Payload[e].ext] \in Pairs
         /\ Payload[e].ext # None /\ Payload[e].pair # None => Payload[e].pair = PairOf[Payload[e].ext]
  BY PayloadAssumption DEF Types

(* A delivery that has not begun knows nothing. *)
LEMMA IdleKnown == TxIdle \in KnownTx
  BY DEF TxIdle, KnownTx, Knows, Tx, Outcomes, Entity, Activated, Statuses, Columns

(* An idle request of a fan is one, about no pair. *)
LEMMA IdleTyped == Idle \in Request /\ Idle.pc = "idle" /\ Idle.pair = None
  BY DEF Idle, Request, Entity, Activated, Statuses, Columns

(* The initial state is well formed. *)
LEMMA Inits == Init => ShapeOK
  BY IdleKnown DEF Init, ShapeOK, SubscriptionsInit, SubscriptionsTypeOK, Outcomes,
         Entity, Activated, Statuses, Columns, Request, Idle

(* A delivery that goes to a known state leaves the others known. *)
LEMMA Moves ==
  ASSUME ShapeOK, NEW w \in Deliveries, NEW t \in KnownTx, tx' = [tx EXCEPT ![w] = t]
  PROVE  tx' \in [Deliveries -> KnownTx]
  BY DEF ShapeOK

(* The steps of a delivery that end in a known state *)
LEMMA Arrives ==
  ASSUME NEW t \in KnownTx
  PROVE  /\ t.pc = "insertEvent" => [t EXCEPT !.pc = "duplicate"] \in KnownTx
         /\ t.pc = "insertEvent" /\ Names(t).ext # None => [t EXCEPT !.pc = "findMap"] \in KnownTx
         /\ t.pc = "findMap" => [t EXCEPT !.pc = "findSub"] \in KnownTx
         /\ t.pc = "findMap" /\ Names(t).type = "activated" /\ Names(t).pair # None =>
              [t EXCEPT !.pc = "insertMap"] \in KnownTx
         /\ t.pc = "insertMap" => [t EXCEPT !.pc = "findSub", !.newMap = TRUE] \in KnownTx
         /\ \A o \in {"ignored", "failed"} : t.pc \in {"insertEvent", "findMap", "findSub"} /\ ~t.newMap =>
              [t EXCEPT !.pc = "finish", !.outcome = o] \in KnownTx
         /\ \A e \in Entity : t.pc = "findSub" =>
              [t EXCEPT !.pc = "select", !.write = "update", !.entity = e] \in KnownTx
         /\ t.pc = "findSub" => [t EXCEPT !.pc = "finish", !.write = "insert", !.entity = Activated,
                                          !.outcome = "processed"] \in KnownTx
         /\ \A c \in SUBSET Columns : t.pc = "select" =>
              [t EXCEPT !.pc = "finish", !.outcome = "processed", !.cols = c] \in KnownTx
<1> USE DEF KnownTx, Knows, Names, Tx, Outcomes
<1>1. t.pc = "insertEvent" => [t EXCEPT !.pc = "duplicate"] \in KnownTx
  OBVIOUS
<1>2. t.pc = "insertEvent" /\ Names(t).ext # None => [t EXCEPT !.pc = "findMap"] \in KnownTx
  OBVIOUS
<1>3. t.pc = "findMap" => [t EXCEPT !.pc = "findSub"] \in KnownTx
  OBVIOUS
<1>4. t.pc = "findMap" /\ Names(t).type = "activated" /\ Names(t).pair # None =>
        [t EXCEPT !.pc = "insertMap"] \in KnownTx
  OBVIOUS
<1>5. t.pc = "insertMap" => [t EXCEPT !.pc = "findSub", !.newMap = TRUE] \in KnownTx
  OBVIOUS
<1>6. ASSUME NEW o \in {"ignored", "failed"}, t.pc \in {"insertEvent", "findMap", "findSub"}, ~t.newMap
      PROVE  [t EXCEPT !.pc = "finish", !.outcome = o] \in KnownTx
  BY <1>6
<1>7. ASSUME NEW e \in Entity, t.pc = "findSub"
      PROVE  [t EXCEPT !.pc = "select", !.write = "update", !.entity = e] \in KnownTx
  BY <1>7
<1>8. ASSUME t.pc = "findSub"
      PROVE  [t EXCEPT !.pc = "finish", !.write = "insert", !.entity = Activated,
                       !.outcome = "processed"] \in KnownTx
  <2>1. Activated \in Entity
    BY DEF Activated, Entity, Statuses
  <2> QED
    BY <1>8, <2>1
<1>9. ASSUME NEW c \in SUBSET Columns, t.pc = "select"
      PROVE  [t EXCEPT !.pc = "finish", !.outcome = "processed", !.cols = c] \in KnownTx
  BY <1>9
<1> HIDE DEF KnownTx, Knows, Names, Tx, Outcomes
<1> QED
  BY <1>1, <1>2, <1>3, <1>4, <1>5, <1>6, <1>7, <1>8, <1>9, Zenon

(* What a delivery reads keeps its type *)
LEMMA Reads ==
  ASSUME ShapeOK, NEW w \in Deliveries, tx[w].pc # "idle"
  PROVE  /\ tx[w] \in KnownTx
         /\ tx[w].event \in Events
         /\ Names(tx[w]).ext # None => pairOf(w) \in Pairs /\ of(w).ext \in Exts
         /\ of(w) = Names(tx[w])
  BY PayloadFacts DEF ShapeOK, KnownTx, Knows, Tx, Names, of, pairOf

(* What applyMutation saves is a subscription. *)
LEMMA EntityTyped ==
  ASSUME ShapeOK, NEW p \in Pairs, NEW type
  PROVE  EntityFor(type, p) \in Entity
  BY DEF EntityFor, ShapeOK, SubscriptionsTypeOK, Entity, Activated, Cancelled, Statuses

(* Every step of deliveries, fans and crashes keeps the shape. *)
LEMMA ShapeStep == ShapeOK /\ [Next]_vars => ShapeOK'
<1> SUFFICES ASSUME ShapeOK, [Next]_vars PROVE ShapeOK'
  OBVIOUS
<1> USE DEF subscriptionVars, billingVars, historyVars
<1>1. ASSUME NEW w \in Deliveries, NEW e \in Events, processEvent(w, e) PROVE ShapeOK'
  <2>1. [TxIdle EXCEPT !.pc = "insertEvent", !.event = e] \in KnownTx
    BY PayloadAssumption DEF TxIdle, KnownTx, Knows, Names, Tx, Outcomes, Entity, Activated, Statuses, Columns
  <2>2. tx' \in [Deliveries -> KnownTx]
    BY <1>1, <2>1, Moves DEF processEvent
  <2> QED
    BY <1>1, <2>2 DEF processEvent, ShapeOK, SubscriptionsTypeOK
<1>2. ASSUME NEW w \in Deliveries, InsertEvent(w) PROVE ShapeOK'
  <2>1. /\ tx[w] \in KnownTx /\ of(w) = Names(tx[w]) /\ tx[w].pc = "insertEvent"
        /\ ~tx[w].newMap
    BY <1>2, Reads DEF InsertEvent, KnownTx, Knows
  <2>2. \/ tx' = [tx EXCEPT ![w] = [tx[w] EXCEPT !.pc = "finish", !.outcome = "ignored"]]
        \/ tx' = [tx EXCEPT ![w] = [tx[w] EXCEPT !.pc = "finish", !.outcome = "failed"]]
        \/ tx' = [tx EXCEPT ![w] = [tx[w] EXCEPT !.pc = "findMap"]] /\ Names(tx[w]).ext # None
    BY <1>2 DEF InsertEvent, Goto, Fails, Names
  <2>3. tx' \in [Deliveries -> KnownTx]
    BY <2>1, <2>2, Arrives, Moves
  <2> QED
    BY <1>2, <2>3 DEF InsertEvent, Untouched, ShapeOK, SubscriptionsTypeOK
<1>3. ASSUME NEW w \in Deliveries, RejectDuplicate(w) PROVE ShapeOK'
  <2>1. tx' \in [Deliveries -> KnownTx]
    BY <1>3, Reads, Arrives, Moves DEF RejectDuplicate, Goto
  <2> QED
    BY <1>3, <2>1 DEF RejectDuplicate, ShapeOK, SubscriptionsTypeOK
<1>4. ASSUME NEW w \in Deliveries, recordDuplicateDelivery(w) PROVE ShapeOK'
  <2>1. tx' \in [Deliveries -> KnownTx]
    BY <1>4, IdleKnown, Moves DEF recordDuplicateDelivery
  <2>2. tx[w].event \in Events
    BY <1>4, Reads DEF recordDuplicateDelivery
  <2> QED
    BY <1>4, <2>1, <2>2 DEF recordDuplicateDelivery, ShapeOK, SubscriptionsTypeOK
<1>5. ASSUME NEW w \in Deliveries, FindMap(w) PROVE ShapeOK'
  <2>1. /\ tx[w] \in KnownTx /\ of(w) = Names(tx[w]) /\ tx[w].pc = "findMap"
        /\ ~tx[w].newMap
    BY <1>5, Reads DEF FindMap, KnownTx, Knows
  <2>2. \/ tx' = [tx EXCEPT ![w] = [tx[w] EXCEPT !.pc = "findSub"]]
        \/ /\ tx' = [tx EXCEPT ![w] = [tx[w] EXCEPT !.pc = "insertMap"]]
           /\ Names(tx[w]).type = "activated" /\ Names(tx[w]).pair # None
        \/ tx' = [tx EXCEPT ![w] = [tx[w] EXCEPT !.pc = "finish", !.outcome = "failed"]]
    BY <1>5, <2>1 DEF FindMap, Goto, Fails
  <2>3. tx' \in [Deliveries -> KnownTx]
    BY <2>1, <2>2, Arrives, Moves
  <2> QED
    BY <1>5, <2>3 DEF FindMap, Untouched, ShapeOK, SubscriptionsTypeOK
<1>6. ASSUME NEW w \in Deliveries, InsertMap(w) PROVE ShapeOK'
  <2>1. tx' = [tx EXCEPT ![w] = [tx[w] EXCEPT !.pc = "findSub", !.newMap = TRUE]]
    BY <1>6 DEF InsertMap
  <2>2. tx' \in [Deliveries -> KnownTx]
    BY <1>6, <2>1, Reads, Arrives, Moves DEF InsertMap
  <2> QED
    BY <1>6, <2>2 DEF InsertMap, Untouched, ShapeOK, SubscriptionsTypeOK
<1>7. ASSUME NEW w \in Deliveries, FindSub(w) PROVE ShapeOK'
  <2>1. /\ tx[w] \in KnownTx /\ of(w) = Names(tx[w]) /\ tx[w].pc = "findSub"
        /\ of(w).type # "activated" => ~tx[w].newMap
        /\ pairOf(w) \in Pairs
    BY <1>7, Reads DEF FindSub, KnownTx, Knows
  <2>2. \/ tx' = [tx EXCEPT ![w] = [tx[w] EXCEPT !.pc = "select", !.write = "update",
                                                !.entity = EntityFor(of(w).type, pairOf(w))]]
        \/ tx' = [tx EXCEPT ![w] = [tx[w] EXCEPT !.pc = "finish", !.write = "insert", !.entity = Activated,
                                                !.outcome = "processed"]]
        \/ /\ tx' = [tx EXCEPT ![w] = [tx[w] EXCEPT !.pc = "finish", !.outcome = "failed"]]
           /\ ~tx[w].newMap
    BY <1>7, <2>1 DEF FindSub, Fails
  <2>3. tx' \in [Deliveries -> KnownTx]
    BY <2>1, <2>2, EntityTyped, Arrives, Moves
  <2> QED
    BY <1>7, <2>3 DEF FindSub, Untouched, ShapeOK, SubscriptionsTypeOK
<1>8. ASSUME NEW w \in Deliveries, Select(w) PROVE ShapeOK'
  <2> DEFINE c == ChangedColumns(pairOf(w), tx[w].entity)
  <2>1. tx' = [tx EXCEPT ![w] = [tx[w] EXCEPT !.pc = "finish", !.outcome = "processed", !.cols = c]]
    BY <1>8 DEF Select
  <2>2. c \in SUBSET Columns
    BY DEF ChangedColumns
  <2>3. tx' \in [Deliveries -> KnownTx]
    BY <1>8, <2>1, <2>2, Reads, Arrives, Moves DEF Select
  <2> QED
    BY <1>8, <2>3 DEF Select, Untouched, ShapeOK, SubscriptionsTypeOK
<1>9. ASSUME NEW w \in Deliveries, Commit(w) PROVE ShapeOK'
  <2>1. tx' \in [Deliveries -> KnownTx]
    BY <1>9, IdleKnown, Moves DEF Commit
  <2>2. tx[w] \in Tx /\ tx[w].event \in Events
    BY <1>9, Reads DEF Commit, KnownTx
  <2>3. tx[w].newMap \/ tx[w].write # "none" => pairOf(w) \in Pairs
    BY <1>9, Reads DEF Commit, KnownTx, Knows
  <2>4. maps' \in [Exts -> Pairs \cup {None}]
    BY <1>9, <2>3 DEF Commit, ShapeOK
  <2>5. SubscriptionsTypeOK' /\ overlapped' \subseteq Pairs
    BY <1>9, <2>2, <2>3 DEF Commit, InsertRow, UpdateRow, NoteOverlap, ShapeOK, SubscriptionsTypeOK, Tx, Entity
  <2>6. event' \in [Events -> Outcomes \cup {"none"}]
    BY <1>9, <2>2 DEF Commit, ShapeOK, Tx
  <2> QED
    BY <1>9, <2>1, <2>4, <2>5, <2>6 DEF Commit, ShapeOK
<1>10. ASSUME NEW w \in Deliveries, DatabaseError(w) PROVE ShapeOK'
  <2>1. tx' \in [Deliveries -> KnownTx]
    BY <1>10, IdleKnown, Moves DEF DatabaseError
  <2>2. tx[w].event \in Events
    BY <1>10, Reads DEF DatabaseError
  <2> QED
    BY <1>10, <2>1, <2>2 DEF DatabaseError, ShapeOK, SubscriptionsTypeOK
<1>11. ASSUME NEW f \in Fans, Fan(f) PROVE ShapeOK'
  <2>1. req[f] \in Request /\ (req[f].pc # "idle" => req[f].pair \in Pairs)
    BY DEF ShapeOK, SubscriptionsTypeOK, Request
  <2>2. ASSUME \E p \in Pairs : subscribe(f, p) \/ cancel(f, p) PROVE SubscriptionsTypeOK'
    <3>1. Activated \in Entity /\ Cancelled \in Entity
      BY DEF Activated, Cancelled, Entity, Statuses
    <3>2. PICK p \in Pairs, e \in Entity, s \in {"insert", "select"} : Begin(f, s, p, e)
      BY <2>2, <3>1 DEF subscribe, cancel
    <3> QED
      BY <3>2, AccountsAssumption DEF Begin, ShapeOK, SubscriptionsTypeOK, Request
  <2>3. ASSUME SaveSelect(f) PROVE SubscriptionsTypeOK'
    <3>1. ChangedColumns(req[f].pair, req[f].entity) \in SUBSET Columns
      BY DEF ChangedColumns
    <3> QED
      BY <2>1, <2>3, <3>1 DEF SaveSelect, ShapeOK, SubscriptionsTypeOK, Request
  <2>4. ASSUME SaveInsert(f) PROVE SubscriptionsTypeOK'
    <3>1. req' = [req EXCEPT ![f] = Idle] /\ req[f].pair \in Pairs /\ req[f].entity \in Entity
      BY <2>1, <2>4 DEF SaveInsert, Request
    <3>2. status' \in [Pairs -> Statuses \cup {"none"}] /\ cancelledAt' \in [Pairs -> {"null", "set"}]
      BY <2>4, <3>1 DEF SaveInsert, InsertRow, ShapeOK, SubscriptionsTypeOK, Entity
    <3>3. req' \in [Fans -> Request] /\ \A g \in Fans : req'[g].pc = "idle" <=> req'[g].pair = None
      BY <3>1, IdleTyped DEF ShapeOK, SubscriptionsTypeOK
    <3> QED
      BY <3>2, <3>3 DEF SubscriptionsTypeOK
  <2>5. ASSUME SaveUpdate(f) PROVE SubscriptionsTypeOK'
    BY <2>1, <2>5, IdleTyped DEF SaveUpdate, UpdateRow, ShapeOK, SubscriptionsTypeOK, Request, Entity
  <2>6. SubscriptionsTypeOK'
    BY <1>11, <2>2, <2>3, <2>4, <2>5 DEF Fan
  <2>7. overlapped' \subseteq Pairs
    BY <1>11, <2>1 DEF Fan, SaveUpdate, NoteOverlap, ShapeOK
  <2> QED
    BY <1>11, <2>6, <2>7 DEF Fan, ShapeOK
<1>12. CASE Crash
  <2>1. tx' \in [Deliveries -> KnownTx]
    BY <1>12, IdleKnown DEF Crash
  <2>2. req' \in [Fans -> Request] /\ \A f \in Fans : req'[f].pc = "idle" <=> req'[f].pair = None
    BY <1>12 DEF Crash, Idle, Request, Entity, Activated, Statuses, Columns
  <2> QED
    BY <1>12, <2>1, <2>2 DEF Crash, ShapeOK, SubscriptionsTypeOK
<1>13. CASE UNCHANGED vars
  BY <1>13 DEF vars, ShapeOK, SubscriptionsTypeOK
<1> QED
  BY <1>1, <1>2, <1>3, <1>4, <1>5, <1>6, <1>7, <1>8, <1>9, <1>10, <1>11, <1>12, <1>13 DEF Next, Delivery

-----------------------------------------------------------------------------
(***************************************************************************)
(* The connections of the pool                                             *)
(***************************************************************************)

(* Deliveries inside their transaction *)
Holding == {w \in Deliveries : tx[w].pc \notin {"idle", "duplicate"}}

PoolOK == PoolAccounted /\ IsFiniteSet(Holding) /\ free \in Nat /\ leaked \in Nat

(* PoolAccounted in terms of the deliveries that hold a connection *)
LEMMA HoldingCounted ==
  /\ PoolAccounted <=> free + leaked + Cardinality(Holding) = PoolSize
  /\ IsFiniteSet(Holding) => Cardinality(Holding) \in Nat
  BY FS_CardinalityType DEF PoolAccounted, Holding

(* The count in the next state *)
LEMMA Counted ==
  ASSUME IsFiniteSet(Holding)', free' \in Nat, leaked' \in Nat,
         free' + leaked' + Cardinality(Holding)' = PoolSize
  PROVE  PoolOK'
  BY DEF PoolOK, PoolAccounted, Holding

(* The pool is accounted for as long as a transaction takes its connection *)
(* from the pool, and returns or loses it at its end.                      *)
LEMMA PoolMoves ==
  ASSUME PoolOK, NEW w \in Deliveries,
         \/ UNCHANGED <<free, leaked>> /\ Holding' = Holding
         \/ /\ w \notin Holding /\ Holding' = Holding \cup {w}
            /\ free > 0 /\ free' = free - 1 /\ UNCHANGED leaked
         \/ /\ w \in Holding /\ Holding' = Holding \ {w}
            /\ \/ free' = free + 1 /\ UNCHANGED leaked
               \/ leaked' = leaked + 1 /\ UNCHANGED free
  PROVE  PoolOK'
<1> DEFINE n == Cardinality(Holding)
<1>1. n \in Nat /\ free + leaked + n = PoolSize /\ IsFiniteSet(Holding) /\ free \in Nat /\ leaked \in Nat
  BY HoldingCounted DEF PoolOK
<1>2. CASE UNCHANGED <<free, leaked>> /\ Holding' = Holding
  BY <1>2 DEF PoolOK, PoolAccounted, Holding
<1>3. CASE /\ w \notin Holding /\ Holding' = Holding \cup {w}
           /\ free > 0 /\ free' = free - 1 /\ UNCHANGED leaked
  <2>1. IsFiniteSet(Holding)' /\ n' = n + 1
    BY <1>1, <1>3, FS_AddElement, Zenon
  <2> QED
    BY <1>1, <1>3, <2>1, Counted
<1>4. CASE /\ w \in Holding /\ Holding' = Holding \ {w}
           /\ \/ free' = free + 1 /\ UNCHANGED leaked
              \/ leaked' = leaked + 1 /\ UNCHANGED free
  <2>1. IsFiniteSet(Holding)' /\ n' = n - 1
    BY <1>1, <1>4, FS_RemoveElement, Zenon
  <2> QED
    BY <1>1, <1>4, <2>1, Counted
<1> QED
  BY <1>2, <1>3, <1>4

(* A connection changes hands one at a time: taken, given back, or lost. *)
LEMMA PoolStep == ShapeOK /\ PoolOK /\ [Next]_vars => PoolOK'
<1> SUFFICES ASSUME ShapeOK, PoolOK, [Next]_vars PROVE PoolOK'
  OBVIOUS
<1>0. tx \in [Deliveries -> Tx]
  BY DEF ShapeOK, KnownTx
<1>1. ASSUME NEW w \in Deliveries, NEW e \in Events, processEvent(w, e) PROVE PoolOK'
  <2>1. w \notin Holding /\ Holding' = Holding \cup {w}
    BY <1>0, <1>1 DEF processEvent, Holding, TxIdle, Tx
  <2> QED
    BY <1>1, <2>1, PoolMoves DEF processEvent, historyVars
<1>2. ASSUME NEW w \in Deliveries,
             InsertEvent(w) \/ FindMap(w) \/ InsertMap(w) \/ FindSub(w) \/ Select(w)
      PROVE  PoolOK'
  <2>1. Untouched
    BY <1>2 DEF InsertEvent, FindMap, InsertMap, FindSub, Select
  <2>2. w \in Holding
    BY <1>2 DEF InsertEvent, FindMap, InsertMap, FindSub, Select, Holding
  <2>3. \A v \in Deliveries : tx'[v].pc \notin {"idle", "duplicate"} <=> tx[v].pc \notin {"idle", "duplicate"}
    BY <1>0, <1>2, <2>2 DEF InsertEvent, FindMap, InsertMap, FindSub, Select, Goto, Fails, Tx
  <2> QED
    BY <2>1, <2>3, <2>2, PoolMoves DEF Holding, Untouched, historyVars
<1>3. ASSUME NEW w \in Deliveries, RejectDuplicate(w) PROVE PoolOK'
  <2>1. w \in Holding /\ Holding' = Holding \ {w}
    BY <1>0, <1>3 DEF RejectDuplicate, Goto, Holding, Tx
  <2> QED
    BY <1>3, <2>1, PoolMoves DEF RejectDuplicate, historyVars
<1>4. ASSUME NEW w \in Deliveries, recordDuplicateDelivery(w) PROVE PoolOK'
  <2>1. Holding' = Holding
    BY <1>0, <1>4 DEF recordDuplicateDelivery, Holding, TxIdle, Tx
  <2> QED
    BY <1>4, <2>1, PoolMoves DEF recordDuplicateDelivery, historyVars
<1>5. ASSUME NEW w \in Deliveries, Commit(w) PROVE PoolOK'
  <2>1. w \in Holding /\ Holding' = Holding \ {w}
    BY <1>0, <1>5 DEF Commit, Holding, TxIdle, Tx
  <2> QED
    BY <1>5, <2>1, PoolMoves DEF Commit
<1>6. ASSUME NEW w \in Deliveries, DatabaseError(w) PROVE PoolOK'
  <2>1. w \in Holding /\ Holding' = Holding \ {w}
    BY <1>0, <1>6 DEF DatabaseError, Holding, TxIdle, Tx
  <2> QED
    BY <1>6, <2>1, PoolMoves DEF DatabaseError
<1>7. ASSUME NEW f \in Fans, Fan(f) PROVE PoolOK'
  BY <1>7 DEF Fan, billingVars, PoolOK, PoolAccounted, Holding
<1>8. CASE Crash
  <2>1. Holding' = {}
    BY <1>8 DEF Crash, Holding, TxIdle
  <2> QED
    BY <1>8, <2>1, FS_EmptySet, PoolAssumption, Counted DEF Crash
<1>9. CASE UNCHANGED vars
  BY <1>9 DEF vars, billingVars, historyVars, PoolOK, PoolAccounted, Holding
<1> QED
  BY <1>1, <1>2, <1>3, <1>4, <1>5, <1>6, <1>7, <1>8, <1>9 DEF Next, Delivery

(* Shape and pool together, as TypeOK bounds the counters by the pool *)
LEMMA ShapePoolInv == Spec => [](ShapeOK /\ PoolOK)
<1>1. Init => PoolOK
  <2>1. Init => Holding = {}
    BY DEF Init, Holding, TxIdle
  <2> QED
    BY <2>1, FS_EmptySet, PoolAssumption DEF Init, PoolOK, PoolAccounted, Holding
<1> QED
  BY <1>1, Inits, ShapeStep, PoolStep, PTL DEF Spec

(* However deliveries end, the pool has every connection that is neither   *)
(* with a transaction nor lost to a database error.                        *)
THEOREM PoolTheorem == Spec => []PoolAccounted
  BY ShapePoolInv, PTL DEF PoolOK

(* The state is well formed in every behaviour of the webhook service.     *)
THEOREM TypeCorrect == Spec => []TypeOK
<1>1. ShapeOK /\ PoolOK => TypeOK
  <2> SUFFICES ASSUME ShapeOK, PoolOK PROVE TypeOK
    OBVIOUS
  <2>1. free \in 0..PoolSize /\ leaked \in 0..PoolSize
    BY HoldingCounted, PoolAssumption DEF PoolOK
  <2> QED
    BY <2>1 DEF TypeOK, ShapeOK, KnownTx, Knows
<1> QED
  BY <1>1, ShapePoolInv, PTL

-----------------------------------------------------------------------------
(***************************************************************************)
(* The columns of a subscription                                           *)
(***************************************************************************)

Agree(st, at) == (st = "active" => at = "null") /\ (st = "cancelled" => at = "set")

(* The columns a writer is going to update are those in which its entity   *)
(* differs from the row, unless the row was written since they were found. *)
Fresh(p, entity, cols) == p \notin overlapped => cols = ChangedColumns(p, entity)

(* What a delivery, and a fan's request, is about to write *)
TxWriter(t) ==
  t.write = "update" =>
    LET p == PairOf[Names(t).ext] IN
    /\ status[p] # "none"
    /\ Agree(t.entity.status, t.entity.cancelledAt)
    /\ t.pc = "finish" => Fresh(p, t.entity, t.cols)
FanWriter(c) ==
  /\ c.entity \in {Activated, Cancelled}
  /\ c.pc = "insert" => c.entity = Activated
  /\ c.pc \in {"select", "update"} => status[c.pair] # "none"
  /\ c.pc = "update" => Fresh(c.pair, c.entity, c.cols)

WritersOK ==
  /\ \A w \in Deliveries : TxWriter(tx[w])
  /\ \A f \in Fans : FanWriter(req[f])

(* An UPDATE of the columns that differ leaves the row as the entity is. *)
LEMMA RowUpdated ==
  ASSUME SubscriptionsTypeOK, NEW p \in Pairs, NEW e \in Entity,
         UpdateRow(p, e, ChangedColumns(p, e))
  PROVE  status'[p] = e.status /\ cancelledAt'[p] = e.cancelledAt
  BY DEF SubscriptionsTypeOK, UpdateRow, ChangedColumns, Columns, Entity

(* A write of a row makes no row disappear and leaves the others alone. *)
LEMMA RowsKept ==
  ASSUME SubscriptionsTypeOK, NEW p \in Pairs, NEW e \in Entity, NEW cols,
         InsertRow(p, e) \/ UpdateRow(p, e, cols)
  PROVE  /\ \A q \in Pairs \ {p} : status'[q] = status[q] /\ cancelledAt'[q] = cancelledAt[q]
         /\ \A q \in Pairs : status[q] # "none" => status'[q] # "none"
  BY DEF SubscriptionsTypeOK, InsertRow, UpdateRow, Entity, Statuses

(* An inserted subscription is active, without a date. *)
LEMMA RowInserted ==
  ASSUME SubscriptionsTypeOK, NEW p \in Pairs, InsertRow(p, Activated)
  PROVE  status'[p] = "active" /\ cancelledAt'[p] = "null"
  BY DEF SubscriptionsTypeOK, InsertRow, Activated

(* What a step says of the rows of subscriptions: nothing changes; or a    *)
(* row is inserted; or the row of p is updated by somebody who had found   *)
(* it, and p is noted if somebody else has found it too.                   *)
Writes(p, others) ==
  \/ UNCHANGED <<status, cancelledAt, overlapped>>
  \/ p \in Pairs /\ status[p] = "none" /\ InsertRow(p, Activated) /\ UNCHANGED overlapped
  \/ \E e \in Entity, cols \in SUBSET Columns :
       /\ p \in Pairs /\ UpdateRow(p, e, cols) /\ Fresh(p, e, cols) /\ Agree(e.status, e.cancelledAt)
       /\ overlapped' = IF others THEN overlapped \cup {p} ELSE overlapped

(* A write keeps the two columns in agreement unless it overlapped         *)
(* another.                                                                *)
LEMMA ColumnsKept ==
  ASSUME SubscriptionsTypeOK, ColumnsAgree, NEW p, NEW others \in BOOLEAN, Writes(p, others)
  PROVE  ColumnsAgree'
<1>1. CASE UNCHANGED <<status, cancelledAt, overlapped>>
  BY <1>1 DEF ColumnsAgree
<1>2. CASE p \in Pairs /\ status[p] = "none" /\ InsertRow(p, Activated) /\ UNCHANGED overlapped
  <2>1. Activated \in Entity
    BY DEF Activated, Entity, Statuses
  <2> QED
    BY <1>2, <2>1, RowInserted, RowsKept DEF ColumnsAgree
<1>3. ASSUME NEW e \in Entity, NEW cols \in SUBSET Columns,
             p \in Pairs, UpdateRow(p, e, cols), Fresh(p, e, cols), Agree(e.status, e.cancelledAt),
             overlapped' = IF others THEN overlapped \cup {p} ELSE overlapped
      PROVE  ColumnsAgree'
  <2>1. p \notin overlapped' => status'[p] = e.status /\ cancelledAt'[p] = e.cancelledAt
    BY <1>3, RowUpdated DEF Fresh
  <2> QED
    BY <1>3, <2>1, RowsKept DEF ColumnsAgree, Agree
<1> QED
  BY <1>1, <1>2, <1>3 DEF Writes

(* What a writer that has found its row is about to write stays so. *)
LEMMA FreshKept ==
  ASSUME SubscriptionsTypeOK, NEW p, NEW others \in BOOLEAN, Writes(p, others),
         NEW q \in Pairs, NEW entity, NEW cols, status[q] # "none",
         q = p => others \/ UNCHANGED <<status, cancelledAt, overlapped>>
  PROVE  /\ status'[q] # "none"
         /\ Fresh(q, entity, cols) => Fresh(q, entity, cols)'
<1>1. Activated \in Entity
  BY DEF Activated, Entity, Statuses
<1>2. status'[q] # "none"
  BY <1>1, RowsKept DEF Writes
<1>3. q # p => status'[q] = status[q] /\ cancelledAt'[q] = cancelledAt[q]
  BY <1>1, RowsKept DEF Writes
<1>4. overlapped \subseteq overlapped'
  BY DEF Writes
<1>5. q = p => p \in overlapped' \/ UNCHANGED <<status, cancelledAt, overlapped>>
  BY DEF Writes
<1> QED
  BY <1>2, <1>3, <1>4, <1>5 DEF Fresh, ChangedColumns

(* What a delivery is about to write survives a write of another pair, or  *)
(* of its own pair if that counts as overlapping.                          *)
LEMMA TxWriterKept ==
  ASSUME ShapeOK, NEW p, NEW others \in BOOLEAN, Writes(p, others), NEW t \in KnownTx, TxWriter(t),
         t.write = "update" /\ PairOf[Names(t).ext] = p =>
           others \/ UNCHANGED <<status, cancelledAt, overlapped>>
  PROVE  TxWriter(t)'
<1> DEFINE q == PairOf[Names(t).ext]
<1> SUFFICES ASSUME t.write = "update"
             PROVE  status'[q] # "none" /\ (t.pc = "finish" => Fresh(q, t.entity, t.cols)')
  BY DEF TxWriter, Names
<1>1. q \in Pairs
  BY PayloadFacts DEF KnownTx, Knows, Names, Tx
<1>2. status[q] # "none" /\ (t.pc = "finish" => Fresh(q, t.entity, t.cols))
  BY DEF TxWriter
<1> QED
  BY <1>1, <1>2, FreshKept DEF ShapeOK

(* The same for what a fan's request is about to write *)
LEMMA FanWriterKept ==
  ASSUME ShapeOK, NEW p, NEW others \in BOOLEAN, Writes(p, others), NEW f \in Fans, FanWriter(req[f]),
         req[f].pc \in {"select", "update"} /\ req[f].pair = p =>
           others \/ UNCHANGED <<status, cancelledAt, overlapped>>,
         req'[f] = req[f]
  PROVE  FanWriter(req[f])'
<1> DEFINE c == req[f]
<1> HIDE DEF c
<1>1. c.pc \in {"select", "update"} => c.pair \in Pairs
  BY DEF c, ShapeOK, SubscriptionsTypeOK, Request
<1>2. c.pc \in {"select", "update"} =>
        status'[c.pair] # "none" /\ (c.pc = "update" => Fresh(c.pair, c.entity, c.cols)')
  <2> SUFFICES ASSUME c.pc \in {"select", "update"}
               PROVE  status'[c.pair] # "none" /\ (c.pc = "update" => Fresh(c.pair, c.entity, c.cols)')
    OBVIOUS
  <2>1. status[c.pair] # "none" /\ (c.pc = "update" => Fresh(c.pair, c.entity, c.cols))
    BY DEF FanWriter, c
  <2> QED
    BY <1>1, <2>1, FreshKept DEF ShapeOK, c
<1> QED
  BY <1>2 DEF FanWriter, c, Fresh, ChangedColumns

(* Every step keeps what writers know and what the columns say. *)
LEMMA WritersStep == ShapeOK /\ WritersOK /\ ColumnsAgree /\ [Next]_vars => WritersOK' /\ ColumnsAgree'
<1> SUFFICES ASSUME ShapeOK, WritersOK, ColumnsAgree, [Next]_vars
             PROVE  WritersOK' /\ ColumnsAgree'
  OBVIOUS
<1> USE DEF subscriptionVars, billingVars, historyVars
<1>0. SubscriptionsTypeOK /\ tx \in [Deliveries -> KnownTx] /\ req \in [Fans -> Request]
  BY DEF ShapeOK, SubscriptionsTypeOK
<1>1. ASSUME UNCHANGED <<status, cancelledAt, overlapped>>, UNCHANGED req \/ \A f \in Fans : req'[f] = Idle,
             \A v \in Deliveries : tx'[v] = tx[v] \/ tx'[v].write # "update" \/ TxWriter(tx[v])'
      PROVE  WritersOK' /\ ColumnsAgree'
  <2>1. Writes(None, FALSE)
    BY <1>1 DEF Writes
  <2>2. ASSUME NEW v \in Deliveries PROVE TxWriter(tx[v])'
    BY <1>0, <1>1, <2>1, TxWriterKept DEF WritersOK, TxWriter
  <2>3. ASSUME NEW f \in Fans PROVE FanWriter(req[f])'
    <3>1. CASE UNCHANGED req
      BY <1>0, <1>1, <2>1, <3>1, FanWriterKept DEF WritersOK
    <3>2. CASE req'[f] = Idle
      BY <3>2 DEF FanWriter, Idle
    <3> QED
      BY <1>1, <3>1, <3>2
  <2> QED
    BY <1>0, <2>1, <2>2, <2>3, ColumnsKept DEF WritersOK
<1>2. ASSUME NEW w \in Deliveries, NEW e \in Events, processEvent(w, e) PROVE WritersOK' /\ ColumnsAgree'
  BY <1>0, <1>1, <1>2 DEF processEvent, TxIdle
<1>3. ASSUME NEW w \in Deliveries,
             InsertEvent(w) \/ RejectDuplicate(w) \/ recordDuplicateDelivery(w) \/ FindMap(w)
               \/ InsertMap(w) \/ DatabaseError(w)
      PROVE  WritersOK' /\ ColumnsAgree'
  <2>1. tx[w].pc \in {"insertEvent", "duplicate", "findMap", "insertMap"} \/ tx'[w] = TxIdle
    BY <1>0, <1>3 DEF InsertEvent, RejectDuplicate, recordDuplicateDelivery, FindMap, InsertMap, DatabaseError
  <2>2. tx'[w].write \in {tx[w].write, "none"}
    BY <1>0, <1>3 DEF InsertEvent, RejectDuplicate, recordDuplicateDelivery, FindMap, InsertMap, DatabaseError,
         Goto, Fails, TxIdle, KnownTx, Tx
  <2>3. tx'[w].write # "update"
    BY <1>0, <2>1, <2>2 DEF TxIdle, KnownTx, Knows
  <2>4. \A v \in Deliveries \ {w} : tx'[v] = tx[v]
    BY <1>0, <1>3 DEF InsertEvent, RejectDuplicate, recordDuplicateDelivery, FindMap, InsertMap, DatabaseError,
         Goto, Fails
  <2>5. UNCHANGED <<status, cancelledAt, overlapped, req>>
    BY <1>3 DEF InsertEvent, RejectDuplicate, recordDuplicateDelivery, FindMap, InsertMap, DatabaseError, Untouched
  <2> QED
    BY <1>1, <2>3, <2>4, <2>5
<1>4. ASSUME NEW w \in Deliveries, FindSub(w) PROVE WritersOK' /\ ColumnsAgree'
  <2>1. tx[w].write # "update" /\ of(w) = Names(tx[w]) /\ tx[w].pc = "findSub"
    BY <1>0, <1>4 DEF FindSub, KnownTx, Knows, of, Names
  <2>2. \/ tx'[w].write # "update"
        \/ /\ tx' = [tx EXCEPT ![w].pc = "select", ![w].write = "update",
                               ![w].entity = EntityFor(of(w).type, pairOf(w))]
           /\ status[pairOf(w)] # "none"
    BY <1>0, <1>4, <2>1 DEF FindSub, Fails, KnownTx, Tx
  <2>3. tx'[w].write # "update" \/ TxWriter(tx[w])'
    <3>1. CASE /\ tx' = [tx EXCEPT ![w].pc = "select", ![w].write = "update",
                                   ![w].entity = EntityFor(of(w).type, pairOf(w))]
               /\ status[pairOf(w)] # "none"
      <4>1. tx'[w].pc = "select" /\ Names(tx'[w]) = of(w) /\ tx'[w].entity = EntityFor(of(w).type, pairOf(w))
        BY <1>0, <3>1 DEF Names, of, KnownTx, Tx
      <4>2. Agree(tx'[w].entity.status, tx'[w].entity.cancelledAt)
        BY <4>1 DEF EntityFor, Activated, Cancelled, Agree
      <4>3. status'[PairOf[Names(tx'[w]).ext]] # "none"
        BY <1>4, <3>1, <4>1 DEF FindSub, Untouched, pairOf
      <4> QED
        BY <4>1, <4>2, <4>3 DEF TxWriter, Names
    <3> QED
      BY <2>2, <3>1
  <2>4. \A v \in Deliveries \ {w} : tx'[v] = tx[v]
    BY <1>0, <1>4 DEF FindSub, Fails
  <2> QED
    BY <1>1, <1>4, <2>3, <2>4 DEF FindSub, Untouched
<1>5. ASSUME NEW w \in Deliveries, Select(w) PROVE WritersOK' /\ ColumnsAgree'
  <2>1. tx[w].write = "update" /\ of(w) = Names(tx[w]) /\ TxWriter(tx[w])
    BY <1>0, <1>5 DEF Select, KnownTx, Knows, of, Names, WritersOK
  <2>2. /\ tx'[w].cols = ChangedColumns(pairOf(w), tx[w].entity)
        /\ tx'[w].entity = tx[w].entity /\ tx'[w].event = tx[w].event
    BY <1>0, <1>5 DEF Select, KnownTx, Tx
  <2>3. TxWriter(tx[w])'
    BY <1>5, <2>1, <2>2 DEF TxWriter, Select, Untouched, Names, of, pairOf, Fresh, ChangedColumns
  <2>4. \A v \in Deliveries \ {w} : tx'[v] = tx[v]
    BY <1>0, <1>5 DEF Select
  <2> QED
    BY <1>1, <1>5, <2>3, <2>4 DEF Select, Untouched
<1>6. ASSUME NEW w \in Deliveries, Commit(w) PROVE WritersOK' /\ ColumnsAgree'
  <2> DEFINE p == pairOf(w)
  <2> DEFINE others == Overlap(p, w, None)
  <2>1. /\ tx[w] \in Tx /\ TxWriter(tx[w]) /\ tx[w].pc = "finish"
        /\ tx[w].write # "none" => p \in Pairs
        /\ p = PairOf[Names(tx[w]).ext]
        /\ tx[w].write = "insert" => tx[w].entity = Activated
    BY <1>0, <1>6, Reads DEF Commit, KnownTx, Knows, WritersOK, pairOf, of, Names
  <2>2. Writes(p, others)
    <3>1. CASE tx[w].write = "none"
      BY <1>6, <3>1 DEF Commit, Writes
    <3>2. CASE tx[w].write = "insert"
      BY <1>6, <2>1, <3>2 DEF Commit, Writes
    <3>3. CASE tx[w].write = "update"
      <4>1. tx[w].entity \in Entity /\ tx[w].cols \in SUBSET Columns
        BY <2>1 DEF Tx
      <4> QED
        BY <1>6, <2>1, <3>3, <4>1 DEF Commit, Writes, TxWriter, NoteOverlap
    <3> QED
      BY <2>1, <3>1, <3>2, <3>3 DEF Tx
  <2>3. others \in BOOLEAN
    BY DEF Overlap
  <2>4. ASSUME NEW v \in Deliveries PROVE TxWriter(tx[v])'
    <3>1. CASE v = w
      BY <1>0, <1>6, <3>1 DEF Commit, TxIdle, TxWriter
    <3>2. CASE v # w
      <4>1. tx'[v] = tx[v] /\ tx[v] \in KnownTx /\ TxWriter(tx[v])
        BY <1>0, <1>6, <3>2 DEF Commit, WritersOK
      <4>2. tx[v].write = "update" /\ PairOf[Names(tx[v]).ext] = p => others
        BY <3>2 DEF Overlap, Names, pairOf, of
      <4> QED
        BY <2>2, <2>3, <4>1, <4>2, TxWriterKept DEF TxWriter
    <3> QED
      BY <3>1, <3>2
  <2>5. ASSUME NEW f \in Fans PROVE FanWriter(req[f])'
    <3>1. req'[f] = req[f] /\ FanWriter(req[f])
      BY <1>6 DEF Commit, WritersOK
    <3>2. req[f].pc \in {"select", "update"} /\ req[f].pair = p => others
      BY PayloadAssumption DEF Overlap
    <3> QED
      BY <2>2, <2>3, <3>1, <3>2, FanWriterKept
  <2> QED
    BY <1>0, <2>2, <2>3, <2>4, <2>5, ColumnsKept DEF WritersOK
<1>7. ASSUME NEW f \in Fans, Fan(f) PROVE WritersOK' /\ ColumnsAgree'
  <2>0. req[f] \in Request /\ FanWriter(req[f]) /\ (req[f].pc # "idle" => req[f].pair \in Pairs)
    BY <1>0 DEF WritersOK, ShapeOK, SubscriptionsTypeOK, Request
  <2>1. UNCHANGED tx /\ \A g \in Fans \ {f} : req'[g] = req[g]
    BY <1>0, <1>7 DEF Fan, subscribe, cancel, Begin, SaveSelect, SaveInsert, SaveUpdate
  <2> DEFINE p == req[f].pair
  <2> DEFINE others == Overlap(p, None, f)
  <2>2. ASSUME NEW o \in BOOLEAN, Writes(p, o), FanWriter(req[f])',
               o = others \/ UNCHANGED <<status, cancelledAt, overlapped>>
        PROVE  WritersOK' /\ ColumnsAgree'
    <3>1. ASSUME NEW v \in Deliveries PROVE TxWriter(tx[v])'
      <4>1. tx'[v] = tx[v] /\ tx[v] \in KnownTx /\ TxWriter(tx[v])
        BY <1>0, <2>1 DEF WritersOK
      <4>2. tx[v].write = "update" /\ PairOf[Names(tx[v]).ext] = p => others
        BY PayloadAssumption DEF Overlap, Names, pairOf, of
      <4> QED
        BY <2>2, <4>1, <4>2, TxWriterKept DEF TxWriter
    <3>2. ASSUME NEW g \in Fans \ {f} PROVE FanWriter(req[g])'
      <4>1. req'[g] = req[g] /\ FanWriter(req[g])
        BY <2>1 DEF WritersOK
      <4>2. req[g].pc \in {"select", "update"} /\ req[g].pair = p => others
        BY DEF Overlap
      <4> QED
        BY <2>2, <4>1, <4>2, FanWriterKept
    <3> QED
      BY <1>0, <2>2, <3>1, <3>2, ColumnsKept DEF WritersOK
  <2>3. ASSUME NEW q \in Pairs, subscribe(f, q) \/ cancel(f, q), UNCHANGED overlapped
        PROVE  WritersOK' /\ ColumnsAgree'
    <3>1. Writes(p, FALSE) /\ UNCHANGED <<status, cancelledAt, overlapped>>
      BY <2>3 DEF subscribe, cancel, Begin, Writes
    <3>2. FanWriter(req[f])'
      BY <1>0, <2>3, <3>1 DEF subscribe, cancel, Begin, FanWriter
    <3> QED
      BY <2>2, <3>1, <3>2
  <2>4. ASSUME SaveSelect(f), UNCHANGED overlapped PROVE WritersOK' /\ ColumnsAgree'
    <3>1. Writes(p, FALSE) /\ UNCHANGED <<status, cancelledAt, overlapped>>
      BY <2>4 DEF SaveSelect, Writes
    <3>2. /\ req'[f].pc = "update" /\ req'[f].pair = p /\ req'[f].entity = req[f].entity
          /\ req'[f].cols = ChangedColumns(p, req[f].entity)
      BY <1>0, <2>0, <2>4 DEF SaveSelect, Request
    <3>3. FanWriter(req[f])'
      BY <2>0, <2>4, <3>1, <3>2 DEF FanWriter, SaveSelect, Fresh, ChangedColumns
    <3> QED
      BY <2>2, <3>1, <3>3
  <2>5. ASSUME SaveInsert(f), UNCHANGED overlapped PROVE WritersOK' /\ ColumnsAgree'
    <3>1. Writes(p, others) /\ FanWriter(req[f])'
      BY <1>0, <2>0, <2>5 DEF SaveInsert, Writes, FanWriter, Idle
    <3> QED
      BY <2>2, <3>1 DEF Overlap
  <2>6. ASSUME SaveUpdate(f), NoteOverlap(p, None, f) PROVE WritersOK' /\ ColumnsAgree'
    <3>1. req[f].entity \in Entity /\ req[f].cols \in SUBSET Columns /\ p \in Pairs
          /\ Agree(req[f].entity.status, req[f].entity.cancelledAt)
      BY <2>0, <2>6 DEF SaveUpdate, Request, FanWriter, Agree, Activated, Cancelled
    <3>2. Writes(p, others) /\ FanWriter(req[f])'
      BY <1>0, <2>0, <2>6, <3>1 DEF SaveUpdate, NoteOverlap, Writes, FanWriter, Idle
    <3> QED
      BY <2>2, <3>2 DEF Overlap
  <2> QED
    BY <1>7, <2>3, <2>4, <2>5, <2>6 DEF Fan
<1>8. CASE Crash
  BY <1>0, <1>1, <1>8 DEF Crash, TxIdle
<1>9. CASE UNCHANGED vars
  BY <1>0, <1>1, <1>9 DEF vars
<1> QED
  BY <1>2, <1>3, <1>4, <1>5, <1>6, <1>7, <1>8, <1>9 DEF Next, Delivery

(* The inductive invariant behind ColumnsAgree *)
LEMMA WritersInv == Spec => [](ShapeOK /\ PoolOK /\ WritersOK /\ ColumnsAgree)
<1>1. Init => WritersOK /\ ColumnsAgree
  BY DEF Init, SubscriptionsInit, WritersOK, TxWriter, FanWriter, ColumnsAgree, TxIdle, Idle
<1> QED
  BY <1>1, Inits, ShapePoolInv, WritersStep, PTL DEF Spec

(* Until two writers of a pair overlap, an active subscription has no      *)
(* cancellation date and a cancelled one has a date.                       *)
THEOREM ColumnsTheorem == Spec => []ColumnsAgree
  BY WritersInv, PTL

-----------------------------------------------------------------------------
(***************************************************************************)
(* The event row, the map and the ledger                                   *)
(***************************************************************************)

(* A transaction past the INSERT of its event row *)
Holds(t) == t.pc \notin {"idle", "insertEvent", "duplicate"}

(* The unique index on eventId: the row of an event is written by one      *)
(* transaction at a time, and by none once it is committed.                *)
HeldOK ==
  \A w \in Deliveries : Holds(tx[w]) =>
    /\ event[tx[w].event] = "none"
    /\ \A v \in Deliveries \ {w} : Holds(tx[v]) => tx[v].event # tx[w].event

(* The unique index holds back whoever comes second. *)
LEMMA HeldStep == ShapeOK /\ HeldOK /\ [Next]_vars => HeldOK'
<1> SUFFICES ASSUME ShapeOK, HeldOK, [Next]_vars PROVE HeldOK'
  OBVIOUS
<1> USE DEF subscriptionVars, billingVars, historyVars
<1>0. tx \in [Deliveries -> Tx] /\ \A v \in Deliveries : tx[v].event \in Events \cup {None}
  BY DEF ShapeOK, KnownTx, Tx
<1>1. ASSUME NEW w \in Deliveries, \A v \in Deliveries \ {w} : tx'[v] = tx[v],
             ~Holds(tx'[w]) \/ (Holds(tx[w]) /\ tx'[w].event = tx[w].event), UNCHANGED event
      PROVE  HeldOK'
  BY <1>1 DEF HeldOK, Holds
<1>2. ASSUME NEW w \in Deliveries, NEW e \in Events, processEvent(w, e) PROVE HeldOK'
  <2>1. ~Holds(tx'[w]) /\ \A v \in Deliveries \ {w} : tx'[v] = tx[v]
    BY <1>0, <1>2 DEF processEvent, Holds, TxIdle
  <2> QED
    BY <1>1, <1>2, <2>1 DEF processEvent
<1>3. ASSUME NEW w \in Deliveries, InsertEvent(w) PROVE HeldOK'
  <2>1. /\ event[tx[w].event] = "none" /\ tx[w].event # None
        /\ \A v \in Deliveries : Holds(tx[v]) => tx[v].event # tx[w].event
    BY <1>3, Reads, PayloadAssumption DEF InsertEvent, HoldsEvent, Holds
  <2>2. UNCHANGED event /\ tx'[w].event = tx[w].event /\ \A v \in Deliveries \ {w} : tx'[v] = tx[v]
    BY <1>0, <1>3 DEF InsertEvent, Goto, Fails, Untouched, Tx
  <2> QED
    BY <2>1, <2>2 DEF HeldOK, Holds
<1>4. ASSUME NEW w \in Deliveries, FindMap(w) \/ InsertMap(w) \/ FindSub(w) \/ Select(w) PROVE HeldOK'
  <2>1. /\ Holds(tx[w]) /\ tx'[w].event = tx[w].event /\ UNCHANGED event
        /\ \A v \in Deliveries \ {w} : tx'[v] = tx[v]
    BY <1>0, <1>4 DEF FindMap, InsertMap, FindSub, Select, Goto, Fails, Untouched, Holds, Tx
  <2> QED
    BY <1>1, <2>1
<1>5. ASSUME NEW w \in Deliveries,
             RejectDuplicate(w) \/ recordDuplicateDelivery(w) \/ DatabaseError(w)
      PROVE  HeldOK'
  <2>1. tx'[w].pc \in {"duplicate", "idle"} /\ \A v \in Deliveries \ {w} : tx'[v] = tx[v]
    <3>1. CASE RejectDuplicate(w)
      BY <1>0, <3>1 DEF RejectDuplicate, Goto, Tx
    <3>2. CASE recordDuplicateDelivery(w) \/ DatabaseError(w)
      BY <1>0, <3>2 DEF recordDuplicateDelivery, DatabaseError, TxIdle
    <3> QED
      BY <1>5, <3>1, <3>2
  <2>2. ~Holds(tx'[w]) /\ UNCHANGED event
    BY <1>5, <2>1 DEF RejectDuplicate, recordDuplicateDelivery, DatabaseError, Holds
  <2> QED
    BY <1>1, <2>1, <2>2
<1>6. ASSUME NEW w \in Deliveries, Commit(w) PROVE HeldOK'
  <2>1. Holds(tx[w]) /\ ~Holds(tx'[w]) /\ \A v \in Deliveries \ {w} : tx'[v] = tx[v]
    BY <1>0, <1>6 DEF Commit, Holds, TxIdle
  <2>2. \A e \in Events \ {tx[w].event} : event'[e] = event[e]
    BY <1>6 DEF Commit, ShapeOK
  <2>3. \A v \in Deliveries \ {w} : Holds(tx[v]) => tx[v].event # tx[w].event /\ tx[v].event \in Events
    BY <1>0, <2>1, Reads DEF HeldOK, Holds
  <2> QED
    BY <2>1, <2>2, <2>3 DEF HeldOK
<1>7. ASSUME NEW f \in Fans, Fan(f) PROVE HeldOK'
  BY <1>7 DEF Fan, HeldOK
<1>8. CASE Crash
  BY <1>8 DEF Crash, HeldOK, Holds, TxIdle
<1>9. CASE UNCHANGED vars
  BY <1>9 DEF vars, HeldOK
<1> QED
  BY <1>2, <1>3, <1>4, <1>5, <1>6, <1>7, <1>8, <1>9 DEF Next, Delivery

(* What a COMMIT does, by its outcome *)
LEMMA Commits ==
  ASSUME ShapeOK, HeldOK, WritersOK, NEW w \in Deliveries, Commit(w)
  PROVE  LET e == tx[w].event IN
         /\ e \in Events /\ event[e] = "none"
         /\ event' = [event EXCEPT ![e] = tx[w].outcome]
         /\ tx[w].outcome \in Outcomes
         /\ tx[w].outcome # "processed" => UNCHANGED <<maps, status, cancelledAt>>
         /\ tx[w].outcome = "processed" =>
              /\ Payload[e].ext \in Exts
              /\ pairOf(w) = PairOf[Payload[e].ext] /\ pairOf(w) \in Pairs
              /\ status'[pairOf(w)] # "none"
              /\ \A q \in Pairs : status[q] # "none" => status'[q] # "none"
              /\ \A q \in Pairs \ {pairOf(w)} : status'[q] = status[q] /\ cancelledAt'[q] = cancelledAt[q]
         /\ tx[w].newMap =>
              /\ tx[w].outcome = "processed"
              /\ Payload[e] = [type |-> "activated", ext |-> Payload[e].ext, pair |-> pairOf(w)]
              /\ maps' = [maps EXCEPT ![Payload[e].ext] = pairOf(w)]
         /\ ~tx[w].newMap => UNCHANGED maps
<1> DEFINE t == tx[w]
<1> DEFINE e == t.event
<1> DEFINE p == pairOf(w)
<1>1. t \in Tx /\ Knows(t) /\ e \in Events /\ t.pc = "finish" /\ of(w) = Payload[e] /\ TxWriter(t)
  BY Reads DEF Commit, KnownTx, WritersOK, of
<1>2. event[e] = "none"
  BY <1>1 DEF HeldOK, Holds
<1>3. t.outcome = "processed" <=> t.write # "none"
  BY <1>1 DEF Knows
<1>4. t.outcome # "processed" => UNCHANGED <<maps, status, cancelledAt>>
  BY <1>1, <1>3 DEF Commit, Knows
<1>5. ASSUME t.outcome = "processed"
      PROVE  /\ Payload[e].ext \in Exts /\ p = PairOf[Payload[e].ext] /\ p \in Pairs
             /\ status'[p] # "none"
             /\ \A q \in Pairs : status[q] # "none" => status'[q] # "none"
             /\ \A q \in Pairs \ {p} : status'[q] = status[q] /\ cancelledAt'[q] = cancelledAt[q]
  <2>1. Payload[e].ext \in Exts /\ p = PairOf[Payload[e].ext] /\ p \in Pairs
    BY <1>1, <1>3, <1>5, PayloadFacts DEF Knows, Names, pairOf
  <2>2. t.entity \in Entity
    BY <1>1 DEF Tx
  <2>3. InsertRow(p, t.entity) \/ UpdateRow(p, t.entity, t.cols)
    BY <1>3, <1>5 DEF Commit
  <2>4. t.write = "insert" => t.entity = Activated /\ InsertRow(p, Activated)
    BY <1>1 DEF Knows, Commit
  <2>5. t.write = "update" => status[p] # "none"
    BY <1>1, <2>1 DEF TxWriter, Names
  <2>6. status'[p] # "none"
    BY <1>1, <1>3, <1>5, <2>1, <2>2, <2>3, <2>4, <2>5, RowsKept, RowInserted DEF ShapeOK, Tx
  <2> QED
    BY <2>1, <2>2, <2>3, <2>6, RowsKept DEF ShapeOK
<1>6. ASSUME t.newMap
      PROVE  /\ t.outcome = "processed"
             /\ Payload[e] = [type |-> "activated", ext |-> Payload[e].ext, pair |-> p]
             /\ maps' = [maps EXCEPT ![Payload[e].ext] = p]
  <2>1. t.outcome = "processed" /\ Payload[e].type = "activated" /\ Payload[e].pair # None
    BY <1>1, <1>3, <1>6 DEF Knows, Names
  <2>2. Payload[e].pair = p
    BY <1>1, <1>5, <2>1, PayloadFacts, PayloadAssumption
  <2>3. Payload[e] \in [type : Types, ext : Exts \cup {None}, pair : Pairs \cup {None}]
    BY <1>1, PayloadAssumption
  <2> QED
    BY <1>1, <1>6, <2>1, <2>2, <2>3 DEF Commit
<1> QED
  BY <1>1, <1>2, <1>4, <1>5, <1>6 DEF Commit, Tx

(* A map appears only in a commit, with the row and the event; nothing     *)
(* deletes rows, maps or events.                                           *)
LEMMA MappedStep ==
  ShapeOK /\ WritersOK /\ HeldOK /\ MappedHasRow /\ [Next]_vars => MappedHasRow'
<1> SUFFICES ASSUME ShapeOK, WritersOK, HeldOK, MappedHasRow, [Next]_vars PROVE MappedHasRow'
  OBVIOUS
<1> USE DEF subscriptionVars, billingVars, historyVars
<1>1. ASSUME UNCHANGED <<event, maps>>, \A p \in Pairs : status[p] # "none" => status'[p] # "none"
      PROVE  MappedHasRow'
  BY <1>1 DEF MappedHasRow, ShapeOK
<1>2. ASSUME NEW w \in Deliveries, Commit(w) PROVE MappedHasRow'
  <2> DEFINE e == tx[w].event
  <2>1. ASSUME NEW x \in Exts, maps'[x] # None
        PROVE  /\ status'[maps'[x]] # "none"
               /\ \E d \in Events : /\ event'[d] = "processed"
                                    /\ Payload[d] = [type |-> "activated", ext |-> x, pair |-> maps'[x]]
    <3>1. CASE tx[w].newMap /\ x = Payload[e].ext
      <4>0. /\ e \in Events /\ tx[w].outcome = "processed"
            /\ event' = [event EXCEPT ![e] = tx[w].outcome]
            /\ maps' = [maps EXCEPT ![x] = pairOf(w)]
        BY <1>2, <3>1, Commits
      <4>1. e \in Events /\ event'[e] = "processed" /\ maps'[x] = pairOf(w)
        BY <4>0 DEF ShapeOK
      <4> QED
        BY <1>2, <3>1, <4>1, Commits
    <3>2. CASE ~(tx[w].newMap /\ x = Payload[e].ext)
      <4>1. maps'[x] = maps[x]
        <5>1. tx[w].newMap => maps' = [maps EXCEPT ![Payload[e].ext] = pairOf(w)]
          BY <1>2, Commits
        <5>2. ~tx[w].newMap => maps' = maps
          BY <1>2, Commits
        <5> QED
          BY <3>2, <5>1, <5>2 DEF ShapeOK
      <4>2. maps[x] \in Pairs /\ status[maps[x]] # "none"
        BY <2>1, <4>1 DEF MappedHasRow, ShapeOK
      <4>3. status'[maps[x]] # "none"
        BY <1>2, <4>2, Commits
      <4>4. PICK d \in Events : /\ event[d] = "processed"
                                /\ Payload[d] = [type |-> "activated", ext |-> x, pair |-> maps[x]]
        BY <2>1, <4>1 DEF MappedHasRow
      <4>5. event'[d] = "processed"
        BY <1>2, <4>4, Commits DEF ShapeOK
      <4> QED
        BY <4>1, <4>3, <4>4, <4>5
    <3> QED
      BY <3>1, <3>2
  <2> QED
    BY <2>1 DEF MappedHasRow
<1>3. ASSUME NEW f \in Fans, Fan(f) PROVE MappedHasRow'
  <2>1. req[f] \in Request /\ (req[f].pc # "idle" => req[f].pair \in Pairs)
    BY DEF ShapeOK, SubscriptionsTypeOK, Request
  <2>2. \A p \in Pairs : status[p] # "none" => status'[p] # "none"
    <3>1. CASE UNCHANGED status
      BY <3>1
    <3>2. CASE SaveInsert(f) \/ SaveUpdate(f)
      BY <2>1, <3>2, RowsKept DEF SaveInsert, SaveUpdate, ShapeOK, Request
    <3> QED
      BY <1>3, <3>1, <3>2 DEF Fan, subscribe, cancel, Begin, SaveSelect
  <2> QED
    BY <1>1, <1>3, <2>2 DEF Fan
<1>4. ASSUME \/ \E w \in Deliveries : \/ InsertEvent(w) \/ RejectDuplicate(w) \/ recordDuplicateDelivery(w)
                                      \/ FindMap(w) \/ InsertMap(w) \/ FindSub(w) \/ Select(w)
                                      \/ DatabaseError(w) \/ \E e \in Events : processEvent(w, e)
             \/ Crash \/ UNCHANGED vars
      PROVE  UNCHANGED <<event, maps, status, cancelledAt>>
  BY <1>4 DEF InsertEvent, RejectDuplicate, recordDuplicateDelivery, FindMap, InsertMap, FindSub, Select,
       DatabaseError, processEvent, Crash, vars, Untouched
<1> QED
  BY <1>1, <1>2, <1>3, <1>4 DEF Next, Delivery

(* A mapped external id has a row, and the processed activation that made  *)
(* it: a subscription is never found missing behind its map.               *)
THEOREM MappedTheorem == Spec => []MappedHasRow
<1>1. Init => HeldOK /\ MappedHasRow
  BY DEF Init, HeldOK, Holds, TxIdle, MappedHasRow
<1> QED
  BY <1>1, Inits, WritersInv, ShapeStep, HeldStep, MappedStep, PTL DEF Spec

(* An event row is held by one transaction at a time. *)
LEMMA HeldInv == Spec => []HeldOK
<1>1. Init => HeldOK
  BY DEF Init, HeldOK, Holds, TxIdle
<1> QED
  BY <1>1, ShapePoolInv, HeldStep, PTL DEF Spec

(* Each step of the service is a step of the ledger, or leaves it alone. *)
LEMMA LedgerStep ==
  ShapeOK /\ WritersOK /\ HeldOK /\ [Next]_vars => [Ledger!Next]_Ledger!ledgerVars
<1> SUFFICES ASSUME ShapeOK, WritersOK, HeldOK, [Next]_vars
             PROVE  [Ledger!Next]_Ledger!ledgerVars
  OBVIOUS
<1> USE DEF subscriptionVars, billingVars, historyVars
<1>1. ASSUME NEW w \in Deliveries, Commit(w) PROVE Ledger!Next
  <2> DEFINE e == tx[w].event
  <2>1. e \in Events /\ event[e] = "none" /\ event' = [event EXCEPT ![e] = tx[w].outcome]
        /\ tx[w].outcome \in Outcomes
    BY <1>1, Commits
  <2>2. CASE tx[w].outcome = "processed"
    <3>1. Payload[e].ext # None /\ pairOf(w) = PairOf[Payload[e].ext]
          /\ \A q \in Pairs \ {pairOf(w)} : status'[q] = status[q] /\ cancelledAt'[q] = cancelledAt[q]
      BY <1>1, <2>2, Commits, PayloadAssumption
    <3>2. Ledger!Apply(e)
      BY <2>1, <2>2, <3>1 DEF Ledger!Apply, Ledger!OnlyPair
    <3> QED
      BY <2>1, <3>2 DEF Ledger!Next
  <2>3. CASE tx[w].outcome # "processed"
    <3>1. Ledger!Shelve(e)
      BY <1>1, <2>1, <2>3, Commits DEF Ledger!Shelve, Outcomes
    <3> QED
      BY <2>1, <3>1 DEF Ledger!Next
  <2> QED
    BY <2>2, <2>3
<1>2. ASSUME NEW f \in Fans, Fan(f) PROVE Ledger!Next \/ UNCHANGED Ledger!ledgerVars
  <2>1. req[f] \in Request /\ FanWriter(req[f]) /\ (req[f].pc # "idle" => req[f].pair \in Pairs)
    BY DEF WritersOK, ShapeOK, SubscriptionsTypeOK, Request
  <2>2. CASE UNCHANGED <<status, cancelledAt>>
    BY <1>2, <2>2 DEF Fan, Ledger!ledgerVars
  <2>3. CASE SaveInsert(f) \/ SaveUpdate(f)
    <3> DEFINE p == req[f].pair
    <3>1. UNCHANGED <<status, cancelledAt>> \/ InsertRow(p, req[f].entity)
            \/ UpdateRow(p, req[f].entity, req[f].cols)
      BY <2>3 DEF SaveInsert, SaveUpdate
    <3>2. p \in Pairs /\ req[f].entity \in Entity /\ req[f].entity.status \in {"active", "cancelled"}
      BY <2>1, <2>3 DEF SaveInsert, SaveUpdate, FanWriter, Activated, Cancelled, Request
    <3>3. CASE InsertRow(p, req[f].entity) \/ UpdateRow(p, req[f].entity, req[f].cols)
      <4>1. Ledger!OnlyPair(p)
        BY <3>2, <3>3, RowsKept DEF ShapeOK, Ledger!OnlyPair
      <4>2. status'[p] \in {status[p], "active", "cancelled"}
        BY <3>2, <3>3 DEF InsertRow, UpdateRow, ShapeOK, SubscriptionsTypeOK
      <4>3. UNCHANGED <<event, maps>>
        BY <1>2 DEF Fan
      <4> QED
        BY <3>2, <4>1, <4>2, <4>3 DEF Ledger!Next, Ledger!FanWrites
    <3> QED
      BY <2>2, <3>1, <3>3
  <2> QED
    BY <1>2, <2>2, <2>3 DEF Fan, subscribe, cancel, Begin, SaveSelect
<1>3. ASSUME \/ \E w \in Deliveries : \/ InsertEvent(w) \/ RejectDuplicate(w) \/ recordDuplicateDelivery(w)
                                      \/ FindMap(w) \/ InsertMap(w) \/ FindSub(w) \/ Select(w)
                                      \/ DatabaseError(w) \/ \E e \in Events : processEvent(w, e)
             \/ Crash \/ UNCHANGED vars
      PROVE  UNCHANGED Ledger!ledgerVars
  BY <1>3 DEF InsertEvent, RejectDuplicate, recordDuplicateDelivery, FindMap, InsertMap, FindSub, Select,
       DatabaseError, processEvent, Crash, vars, Untouched, Ledger!ledgerVars
<1> QED
  BY <1>1, <1>2, <1>3 DEF Next, Delivery

(* The webhook service implements the ledger: an event takes effect at     *)
(* most once, on its own pair, and together with its record.               *)
THEOREM LedgerTheorem == Spec => EventsAppliedOnce
<1>1. Init => Ledger!Init
  BY DEF Init, SubscriptionsInit, Ledger!Init
<1> QED
  BY <1>1, LedgerStep, WritersInv, HeldInv, PTL DEF Spec, EventsAppliedOnce, Ledger!Spec

(* What is recorded of an event stands: no redelivery, overlap, failure or *)
(* crash turns an ignored or a failed event into a processed one, or back. *)
THEOREM RecordStands ==
  ASSUME NEW e \in Events, NEW o \in Outcomes
  PROVE  Spec => [](event[e] = o => [](event[e] = o))
<1>1. TypeOK /\ event[e] = o /\ [Ledger!Next]_Ledger!ledgerVars => (event[e] = o)'
  <2> SUFFICES ASSUME TypeOK, event[e] = o, [Ledger!Next]_Ledger!ledgerVars PROVE event'[e] = o
    OBVIOUS
  <2>1. event \in [Events -> Outcomes \cup {"none"}] /\ o # "none"
    BY DEF TypeOK, Outcomes
  <2>2. ASSUME NEW d \in Events, Ledger!Apply(d) \/ Ledger!Shelve(d) PROVE event'[e] = o
    BY <2>1, <2>2 DEF Ledger!Apply, Ledger!Shelve
  <2>3. CASE Ledger!FanWrites \/ UNCHANGED Ledger!ledgerVars
    BY <2>3 DEF Ledger!FanWrites, Ledger!ledgerVars
  <2> QED
    BY <2>2, <2>3 DEF Ledger!Next
<1>2. Spec => [][Ledger!Next]_Ledger!ledgerVars
  BY LedgerTheorem DEF EventsAppliedOnce, Ledger!Spec
<1> QED
  BY <1>1, <1>2, TypeCorrect, PTL

-----------------------------------------------------------------------------
(***************************************************************************)
(* Deliveries end                                                          *)
(***************************************************************************)

(* Who holds a new map row is past its last wait. *)
LEMMA MapHolderGoesOn ==
  ASSUME ShapeOK, NEW v \in Deliveries, tx[v].newMap
  PROVE  Ready(v)
  BY DEF ShapeOK, KnownTx, Knows, Ready

(* Behind a delivery that holds a connection there is one that can go on:  *)
(* itself, or the holder of the event row it waits for, or the holder of   *)
(* the map row that one waits for.  No chain is longer.                    *)
LEMMA HolderLeads ==
  ASSUME ShapeOK, NEW w \in Holding
  PROVE  \E v \in Deliveries : Ready(v)
<1>1. /\ w \in Deliveries
      /\ tx[w].pc \in {"insertEvent", "findMap", "insertMap", "findSub", "select", "finish"}
  BY DEF Holding, ShapeOK, KnownTx, Tx
<1>2. ASSUME NEW v \in Deliveries, tx[v].pc = "insertMap" PROVE \E u \in Deliveries : Ready(u)
  <2>1. CASE \A u \in Deliveries : ~HoldsMap(u, of(v).ext)
    BY <1>2, <2>1 DEF Ready
  <2>2. CASE \E u \in Deliveries : HoldsMap(u, of(v).ext)
    BY <2>2, MapHolderGoesOn DEF HoldsMap
  <2> QED
    BY <2>1, <2>2
<1>3. CASE tx[w].pc = "insertEvent"
  <2>1. CASE \A v \in Deliveries : ~HoldsEvent(v, tx[w].event)
    BY <1>1, <1>3, <2>1 DEF Ready
  <2>2. ASSUME NEW v \in Deliveries, HoldsEvent(v, tx[w].event) PROVE \E u \in Deliveries : Ready(u)
    <3>1. tx[v].pc \in {"findMap", "insertMap", "findSub", "select", "finish"}
      BY <2>2 DEF HoldsEvent, ShapeOK, KnownTx, Tx
    <3>2. CASE tx[v].pc = "insertMap"
      BY <1>2, <3>2
    <3>3. CASE tx[v].pc # "insertMap"
      BY <3>1, <3>3 DEF Ready
    <3> QED
      BY <3>2, <3>3
  <2> QED
    BY <2>1, <2>2
<1>4. CASE tx[w].pc = "insertMap"
  BY <1>1, <1>2, <1>4
<1>5. CASE tx[w].pc \in {"findMap", "findSub", "select", "finish"}
  BY <1>1, <1>5 DEF Ready
<1> QED
  BY <1>1, <1>3, <1>4, <1>5

(* Deliveries never wait in a circle, nor for a connection that only such  *)
(* a wait would return: as long as errors have not leaked the whole pool,  *)
(* one can go on, or none is in flight and the next finds a connection.    *)
THEOREM NoDeadlock == Spec => []SomeoneGoesOn
<1>1. ASSUME ShapeOK, PoolOK PROVE SomeoneGoesOn
  <2>1. CASE Holding # {}
    BY <1>1, <2>1, HolderLeads DEF SomeoneGoesOn
  <2>2. CASE Holding = {}
    <3>1. /\ free + leaked + Cardinality(Holding) = PoolSize /\ Cardinality(Holding) = 0
          /\ free \in Nat /\ leaked \in Nat
      BY <1>1, <2>2, HoldingCounted, FS_EmptySet DEF PoolOK
    <3>2. leaked < PoolSize => free > 0
      BY <3>1, PoolAssumption
    <3>3. \A w \in Deliveries : tx[w].pc \in {"idle", "duplicate"}
      BY <2>2 DEF Holding
    <3> QED
      BY <3>2, <3>3 DEF SomeoneGoesOn, Ready
  <2> QED
    BY <2>1, <2>2
<1> QED
  BY <1>1, ShapePoolInv, PTL

(* The statements a delivery has ahead of it, at most *)
Ahead(step) ==
  CASE step = "idle" -> 0
    [] step \in {"duplicate", "finish"} -> 1
    [] step = "select" -> 2
    [] step = "findSub" -> 3
    [] step = "insertMap" -> 4
    [] step = "findMap" -> 5
    [] step = "insertEvent" -> 6

(* Every statement of a delivery brings it nearer to its end, whatever the *)
(* others do meanwhile: it never goes back, and runs six at most.  With    *)
(* NoDeadlock this is why deliveries end, if those that can go on do.      *)
THEOREM AdvanceTheorem ==
  Spec => [][\A w \in Deliveries :
               tx'[w] # tx[w] => tx[w].pc = "idle" \/ Ahead(tx'[w].pc) < Ahead(tx[w].pc)]_vars
<1>1. ASSUME ShapeOK, [Next]_vars, NEW v \in Deliveries, tx'[v] # tx[v]
      PROVE  tx[v].pc = "idle" \/ Ahead(tx'[v].pc) < Ahead(tx[v].pc)
  <2>0. \A w \in Deliveries : tx[w] \in Tx
    BY <1>1 DEF ShapeOK, KnownTx
  <2>1. ASSUME NEW w \in Deliveries, NEW e \in Events, processEvent(w, e) PROVE tx[v].pc = "idle"
    BY <1>1, <2>1 DEF processEvent, ShapeOK
  <2>2. ASSUME NEW w \in Deliveries, Delivery(w)
        PROVE  tx[v].pc = "idle" \/ Ahead(tx'[v].pc) < Ahead(tx[v].pc)
    <3>1. v = w
      BY <1>1, <2>2 DEF Delivery, InsertEvent, RejectDuplicate, recordDuplicateDelivery, FindMap, InsertMap,
           FindSub, Select, Commit, DatabaseError, Goto, Fails, ShapeOK
    <3>2. CASE InsertEvent(w)
      BY <1>1, <2>0, <3>1, <3>2 DEF InsertEvent, Goto, Fails, Ahead, ShapeOK, Tx
    <3>3. CASE RejectDuplicate(w)
      BY <1>1, <2>0, <3>1, <3>3 DEF RejectDuplicate, Goto, Ahead, ShapeOK, Tx
    <3>4. CASE recordDuplicateDelivery(w)
      BY <1>1, <2>0, <3>1, <3>4 DEF recordDuplicateDelivery, TxIdle, Ahead, ShapeOK, Tx
    <3>5. CASE FindMap(w)
      BY <1>1, <2>0, <3>1, <3>5 DEF FindMap, Goto, Fails, Ahead, ShapeOK, Tx
    <3>6. CASE InsertMap(w)
      BY <1>1, <2>0, <3>1, <3>6 DEF InsertMap, Ahead, ShapeOK, Tx
    <3>7. CASE FindSub(w)
      BY <1>1, <2>0, <3>1, <3>7 DEF FindSub, Fails, Ahead, ShapeOK, Tx
    <3>8. CASE Select(w)
      BY <1>1, <2>0, <3>1, <3>8 DEF Select, Ahead, ShapeOK, Tx
    <3>9. CASE Commit(w)
      BY <1>1, <2>0, <3>1, <3>9 DEF Commit, TxIdle, Ahead, ShapeOK, Tx
    <3>10. CASE DatabaseError(w)
      BY <1>1, <2>0, <3>1, <3>10 DEF DatabaseError, TxIdle, Ahead, ShapeOK, Tx
    <3> QED
      BY <2>2, <3>2, <3>3, <3>4, <3>5, <3>6, <3>7, <3>8, <3>9, <3>10 DEF Delivery
  <2>3. CASE Crash
    BY <1>1, <2>0, <2>3 DEF Crash, TxIdle, Ahead, Tx
  <2>4. ASSUME NEW f \in Fans PROVE ~Fan(f)
    BY <1>1 DEF Fan, billingVars
  <2>5. ~UNCHANGED vars
    BY <1>1 DEF vars, billingVars
  <2> QED
    BY <1>1, <2>1, <2>2, <2>3, <2>4, <2>5 DEF Next
<1>2. ShapeOK /\ [Next]_vars =>
        [\A w \in Deliveries :
           tx'[w] # tx[w] => tx[w].pc = "idle" \/ Ahead(tx'[w].pc) < Ahead(tx[w].pc)]_vars
  BY <1>1
<1> QED
  BY <1>2, ShapePoolInv, PTL DEF Spec
=============================================================================
