-------------------------------- MODULE Tips --------------------------------
(***************************************************************************)
(* TipsService over the table tips.  A tip is named by its idempotency     *)
(* key: the unique index gives each key at most one row, and a request     *)
(* without a key uses one nobody else has.  Requests interleave between    *)
(* the statements of a handler; save of a loaded tip is a SELECT, which    *)
(* finds the columns that differ, and an UPDATE of those.  Amounts and     *)
(* fees are TipFee's; requests refused before the first write change       *)
(* nothing and are not actions.                                            *)
(***************************************************************************)
EXTENDS Naturals, FiniteSets

CONSTANTS
  Keys,        \* idempotency keys
  Fans,        \* users who tip
  Requests,    \* calls that may be in flight together
  None,
  MaxCrashes   \* bound on restarts of the process

TipsAssumption == None \notin Keys \cup Fans /\ MaxCrashes \in Nat

VARIABLES
  owner,      \* fanId of the key's tip; None if there is no tip
  status,     \* its status
  req,        \* calls in flight
  unlogged,   \* audit entries on their way: auditService.log is not awaited
  audit,      \* audit entries written, per tip and action
  \* History, read by properties only.
  contested,  \* tips saved by one confirmation when another had read them
  crashes

vars == <<owner, status, req, unlogged, audit, contested, crashes>>

Final == {"completed", "failed"}
Actions == {"created"} \cup Final
Idle == [pc |-> "idle", op |-> "intent", fan |-> None, key |-> None,
         entity |-> "pending", differs |-> FALSE]
Call ==
  [pc : {"idle", "insert", "raced", "find", "select", "update"},
   op : {"intent", "shorthand", "confirm"}, fan : Fans \cup {None}, key : Keys \cup {None},
   entity : Final \cup {"pending"}, differs : BOOLEAN]

TypeOK ==
  /\ owner \in [Keys -> Fans \cup {None}]
  /\ status \in [Keys -> {"none", "pending"} \cup Final]
  /\ \A k \in Keys : status[k] = "none" <=> owner[k] = None
  /\ req \in [Requests -> Call]
  /\ \A r \in Requests : req[r].pc # "idle" => req[r].fan \in Fans /\ req[r].key \in Keys
  /\ unlogged \in [Keys \X Actions -> Nat]
  /\ audit \in [Keys \X Actions -> Nat]
  /\ contested \subseteq Keys
  /\ crashes \in Nat

Init ==
  /\ owner = [k \in Keys |-> None]
  /\ status = [k \in Keys |-> "none"]
  /\ req = [r \in Requests |-> Idle]
  /\ unlogged = [x \in Keys \X Actions |-> 0]
  /\ audit = [x \in Keys \X Actions |-> 0]
  /\ contested = {}
  /\ crashes = 0

-----------------------------------------------------------------------------
ConfirmHistory == <<contested, crashes>>
Rows == UNCHANGED <<owner, status, ConfirmHistory>>

(* r saves tip k while another confirmation may have read it. *)
Contest(r, k) ==
  LET late == {q \in Requests \ {r} : req[q].key = k /\ req[q].pc \in {"select", "update"}} IN
  contested' = IF late = {} THEN contested ELSE contested \cup {k}

Goto(r, call) == req' = [req EXCEPT ![r] = call]

Log(k, action) == unlogged' = [unlogged EXCEPT ![<<k, action>>] = @ + 1]

(* createIntent answers with the tip it got; createShorthand confirms it   *)
(* if the status it read was pending.                                      *)
HaveTip(r, call) ==
  LET k == call.key IN
  IF call.op = "shorthand" /\ status[k] = "pending"
    THEN Goto(r, [call EXCEPT !.pc = "find"])
    ELSE Goto(r, Idle)

(* createIntentEntity, first read.  Another fan's key is a 409. *)
createIntent(r, f, k, op, outcome) ==
  LET call == [pc |-> "insert", op |-> op, fan |-> f, key |-> k,
               entity |-> outcome, differs |-> FALSE]
  IN
  /\ req[r].pc = "idle"
  /\ \/ owner[k] = None /\ Goto(r, call)
     \/ owner[k] = f /\ HaveTip(r, call)
  /\ Rows /\ UNCHANGED <<unlogged, audit>>

Insert(r) ==
  LET c == req[r] IN
  /\ c.pc = "insert"
  /\ \/ /\ owner[c.key] = None
        /\ owner' = [owner EXCEPT ![c.key] = c.fan]
        /\ status' = [status EXCEPT ![c.key] = "pending"]
        /\ Log(c.key, "created")
        /\ IF c.op = "shorthand" THEN Goto(r, [c EXCEPT !.pc = "find"])
                                 ELSE Goto(r, Idle)
     \/ /\ owner[c.key] # None
        /\ Goto(r, [c EXCEPT !.pc = "raced"])
        /\ UNCHANGED <<owner, status, unlogged>>
  /\ UNCHANGED <<audit, ConfirmHistory>>

(* After a unique violation the winner's row is returned, whoever its fan  *)
(* is.                                                                     *)
RereadWinner(r) ==
  /\ req[r].pc = "raced"
  /\ HaveTip(r, req[r])
  /\ Rows /\ UNCHANGED <<unlogged, audit>>

\* Mutant: the guard on tips that are not pending is missing.
confirmEntity_NoGuard(r, call) ==
  LET k == call.key IN
  /\ status[k] # "none"
  /\ Goto(r, IF owner[k] = call.fan /\ status[k] # "completed"
               THEN [call EXCEPT !.pc = "select"] ELSE Idle)

(* The read of confirmEntity: 404 for another fan's tip, the tip itself if *)
(* it is completed, 409 if it failed; otherwise its entity is changed.     *)
confirmEntity(r, call) ==
  LET k == call.key IN
  /\ status[k] # "none"
  /\ Goto(r, IF owner[k] = call.fan /\ status[k] = "pending"
               THEN [call EXCEPT !.pc = "select"] ELSE Idle)

confirm(r, f, k, outcome) ==
  /\ req[r].pc = "idle"
  /\ confirmEntity(r, [pc |-> "find", op |-> "confirm", fan |-> f, key |-> k,
                       entity |-> outcome, differs |-> FALSE])
  /\ Rows /\ UNCHANGED <<unlogged, audit>>

FindTip(r) ==
  /\ req[r].pc = "find"
  /\ confirmEntity(r, req[r])
  /\ Rows /\ UNCHANGED <<unlogged, audit>>

SaveSelect(r) ==
  LET c == req[r] IN
  /\ c.pc = "select"
  /\ Goto(r, [c EXCEPT !.pc = "update", !.differs = c.entity # status[c.key]])
  /\ Rows /\ UNCHANGED <<unlogged, audit>>

\* Mutant: one audit entry of the call beside one of the save.
SaveUpdate_LogsTwice(r) ==
  LET c == req[r] IN
  /\ c.pc = "update"
  /\ status' = IF c.differs THEN [status EXCEPT ![c.key] = c.entity] ELSE status
  /\ Contest(r, c.key)
  /\ unlogged' = [unlogged EXCEPT ![<<c.key, c.entity>>] = @ + 2]
  /\ Goto(r, Idle)
  /\ UNCHANGED <<owner, audit, crashes>>

(* The UPDATE, the audit entry of what this call decided, the answer. *)
SaveUpdate(r) ==
  LET c == req[r] IN
  /\ c.pc = "update"
  /\ status' = IF c.differs THEN [status EXCEPT ![c.key] = c.entity] ELSE status
  /\ Contest(r, c.key)
  /\ Log(c.key, c.entity)
  /\ Goto(r, Idle)
  /\ UNCHANGED <<owner, audit, crashes>>

(* AuditService.log saves the entry, or swallows the error. *)
WriteLog(x) ==
  /\ unlogged[x] > 0
  /\ unlogged' = [unlogged EXCEPT ![x] = @ - 1]
  /\ audit' \in {audit, [audit EXCEPT ![x] = @ + 1]}
  /\ UNCHANGED <<owner, status, req, ConfirmHistory>>

Crash ==
  /\ crashes < MaxCrashes
  /\ crashes' = crashes + 1
  /\ req' = [r \in Requests |-> Idle]
  /\ unlogged' = [x \in Keys \X Actions |-> 0]
  /\ UNCHANGED <<owner, status, audit, contested>>

Next ==
  \/ \E r \in Requests :
       \/ \E f \in Fans, k \in Keys :
            \/ createIntent(r, f, k, "intent", "completed")
            \/ \E s \in Final : createIntent(r, f, k, "shorthand", s) \/ confirm(r, f, k, s)
       \/ Insert(r) \/ RereadWinner(r) \/ FindTip(r) \/ SaveSelect(r) \/ SaveUpdate(r)
  \/ \E x \in Keys \X Actions : WriteLog(x)
  \/ Crash

Spec == Init /\ [][Next]_vars

-----------------------------------------------------------------------------
(***************************************************************************)
(* Properties                                                              *)
(***************************************************************************)

(* The service implements TipLife: although a shorthand call that loses    *)
(* the race for a key goes on with the tip of another fan, a tip is        *)
(* decided by calls of its own fan that found it pending, and only by      *)
(* those.                                                                  *)
deciding ==
  {<<req[r].key, req[r].fan, req[r].entity>> : r \in {q \in Requests : req[q].pc \in {"select", "update"}}}

Life == INSTANCE TipLife
OutcomesImplemented == Life!Spec

(* Without overlap the audit log says of a tip nothing that did not        *)
(* happen, and nothing twice, however often its calls are repeated.        *)
AuditTrue ==
  \A k \in Keys, a \in Actions :
    k \notin contested \/ a = "created" =>
      audit[<<k, a>>] + unlogged[<<k, a>>]
        <= IF a = status[k] \/ (a = "created" /\ status[k] # "none") THEN 1 ELSE 0
=============================================================================
