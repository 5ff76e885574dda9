----------------------------- MODULE Moderation -----------------------------
(***************************************************************************)
(* ModerationService over content_reports, for one reported post or        *)
(* comment: users report it, admins resolve or dismiss the reports, also   *)
(* ones decided before.  A report is looked for, then inserted; a decision *)
(* loads the report and saves it: a SELECT, which finds the columns that   *)
(* differ, and an UPDATE of those.  The audit log is written after the     *)
(* save, and its errors are swallowed.                                     *)
(***************************************************************************)
EXTENDS Naturals, FiniteSets

CONSTANTS
  Users,     \* reporters
  Admins,    \* who decides
  Requests,  \* calls that may be in flight together
  None,
  MaxReports  \* bound on reports made

Ids == 1..MaxReports
Decisions == {"resolved", "dismissed"}
Row == [reporter : Users, status : {"open"} \cup Decisions, resolvedBy : Admins \cup {None}]

ModerationAssumption ==
  MaxReports \in Nat /\ None \notin Ids \cup Users \cup Admins \cup Row

VARIABLES
  report,    \* rows: None, or reporter, status and resolvedBy
  audit,     \* the decision in the audit log's last entry on each report
  req,       \* calls in flight
  \* History, read by properties only.
  outdated,  \* calls about to write over what has changed since they read it
  contested  \* reports whose decisions overlapped, or died before their log

vars == <<report, audit, req, outdated, contested>>

Decision == [status : Decisions, resolvedBy : Admins]
Columns == {"status", "resolvedBy"}
Idle == [pc |-> "idle", user |-> None, id |-> None, status |-> "open", cols |-> {}]
Call ==
  [pc : {"idle", "insert", "select", "update", "log"},
   user : Users \cup Admins \cup {None}, id : Ids \cup {None},
   status : {"open"} \cup Decisions, cols : SUBSET Columns]

Exists(i) == report[i] # None
NextId == Cardinality({i \in Ids : Exists(i)}) + 1
Open(u) == {i \in Ids : Exists(i) /\ report[i].reporter = u /\ report[i].status = "open"}

TypeOK ==
  /\ report \in [Ids -> Row \cup {None}]
  /\ \A i \in Ids : Exists(i) => (report[i].status = "open" <=> report[i].resolvedBy = None)
  /\ audit \in [Ids -> Decision \cup {None}]
  /\ req \in [Requests -> Call]
  /\ outdated \subseteq Requests /\ contested \subseteq Ids

Init ==
  /\ report = [i \in Ids |-> None]
  /\ audit = [i \in Ids |-> None]
  /\ req = [r \in Requests |-> Idle]
  /\ outdated = {} /\ contested = {}

-----------------------------------------------------------------------------
Begin(r, call) ==
  /\ req[r].pc = "idle"
  /\ req' = [req EXCEPT ![r] = call]
  /\ outdated' = outdated \ {r}

(* r has written what the calls in late have read already. *)
Outdates(r, late) == outdated' = (outdated \cup late) \ {r}

\* Mutant: an open report of the same content is not looked for.
createReport_Unchecked(r, u) ==
  /\ Begin(r, [Idle EXCEPT !.pc = "insert", !.user = u])
  /\ UNCHANGED <<report, audit, contested>>

(* POST /reports: 409 when the reporter has an open report of the content. *)
createReport(r, u) ==
  /\ Open(u) = {}
  /\ Begin(r, [Idle EXCEPT !.pc = "insert", !.user = u])
  /\ UNCHANGED <<report, audit, contested>>

Insert(r) ==
  /\ req[r].pc = "insert" /\ NextId \in Ids
  /\ report' = [report EXCEPT ![NextId] =
       [reporter |-> req[r].user, status |-> "open", resolvedBy |-> None]]
  /\ req' = [req EXCEPT ![r] = Idle]
  /\ Outdates(r, {q \in Requests : req[q].pc = "insert" /\ req[q].user = req[r].user})
  /\ UNCHANGED <<audit, contested>>

(* PATCH /admin/reports/:id loads the report, whatever its status. *)
resolveReport(r, a, i, s) ==
  /\ Exists(i)
  /\ Begin(r, [pc |-> "select", user |-> a, id |-> i, status |-> s, cols |-> {}])
  /\ UNCHANGED <<report, audit, contested>>

SaveSelect(r) ==
  LET c == req[r] IN
  /\ c.pc = "select"
  /\ req' = [req EXCEPT ![r].pc = "update",
       ![r].cols = {k \in Columns : \/ k = "status" /\ report[c.id].status # c.status
                                    \/ k = "resolvedBy" /\ report[c.id].resolvedBy # c.user}]
  /\ UNCHANGED <<report, audit, outdated, contested>>

\* Mutant: the first admin to decide stays the resolver.
Saved_KeepsFirst(c) ==
  [report[c.id] EXCEPT !.status = IF "status" \in c.cols THEN c.status ELSE @,
                       !.resolvedBy = IF @ = None THEN c.user ELSE @]

(* The row as the save leaves it *)
Saved(c) ==
  [report[c.id] EXCEPT !.status = IF "status" \in c.cols THEN c.status ELSE @,
                       !.resolvedBy = IF "resolvedBy" \in c.cols THEN c.user ELSE @]

SaveUpdate(r) ==
  LET c == req[r] IN
  /\ c.pc = "update"
  /\ report' = [report EXCEPT ![c.id] = Saved(c)]
  /\ req' = [req EXCEPT ![r].pc = "log"]
  /\ contested' = IF r \in outdated THEN contested \cup {c.id} ELSE contested
  /\ Outdates(r, {q \in Requests : req[q].pc \in {"update", "log"} /\ req[q].id = c.id})
  /\ UNCHANGED audit

(* AuditService.log, which the call does not wait for *)
Log(r) ==
  LET c == req[r] IN
  /\ c.pc = "log"
  /\ audit' = [audit EXCEPT ![c.id] = [status |-> c.status, resolvedBy |-> c.user]]
  /\ req' = [req EXCEPT ![r] = Idle]
  /\ contested' = IF r \in outdated THEN contested \cup {c.id} ELSE contested
  /\ UNCHANGED <<report, outdated>>

(* A statement fails or the process restarts. *)
Die(r) ==
  /\ req[r].pc # "idle"
  /\ req' = [req EXCEPT ![r] = Idle]
  /\ contested' = IF req[r].pc = "log" THEN contested \cup {req[r].id} ELSE contested
  /\ UNCHANGED <<report, audit, outdated>>

Next ==
  \E r \in Requests :
    \/ \E u \in Users : createReport(r, u)
    \/ Insert(r)
    \/ \E i \in Ids, a \in Admins, s \in Decisions : resolveReport(r, a, i, s)
    \/ SaveSelect(r) \/ SaveUpdate(r) \/ Log(r) \/ Die(r)

Spec == Init /\ [][Next]_vars

-----------------------------------------------------------------------------
(***************************************************************************)
(* Properties                                                              *)
(***************************************************************************)

(* A user has a second open report of the same content only when the call  *)
(* that made it had looked before the first one was inserted: there is no  *)
(* unique index behind the check of createReport.                          *)
OneOpenReport ==
  [][\A u \in Users : Open(u) # {} /\ Open(u)' # Open(u) /\ Open(u) \subseteq Open(u)' =>
       \E r \in outdated : req[r].pc = "insert" /\ req[r].user = u]_vars

(* Unless its decisions overlapped or one died before it was logged, a     *)
(* report shows the status and the admin of one decision, and the audit    *)
(* log ends with it.                                                       *)
AuditFollows ==
  \A i \in Ids \ contested :
    /\ Exists(i) /\ report[i].status # "open"
    /\ \A r \in Requests : ~(req[r].pc = "log" /\ req[r].id = i)
    => audit[i] = [status |-> report[i].status, resolvedBy |-> report[i].resolvedBy]
=============================================================================
