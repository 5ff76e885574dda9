---------------------------- MODULE Notifications ----------------------------
(***************************************************************************)
(* NotificationsService for the preferences of one user, and the mails     *)
(* MailerService sends to that user: of a new subscriber, at the end of    *)
(* subscribe and if the preferences say so, and of a password reset, at    *)
(* the end of forgotPassword.                                              *)
(*                                                                         *)
(* Preferences are made when first looked for, by a second SELECT and an   *)
(* INSERT; an update loads the row, assigns the body to it and saves it: a *)
(* SELECT, which finds the columns that differ, and an UPDATE of those.    *)
(* marketing stands for the preferences no code reads yet.                 *)
(*                                                                         *)
(* A send waits for the mail driver or its timer, whichever is first; the  *)
(* driver goes on after the timer and may deliver the mail.  The outbox    *)
(* and the metrics are memory of the process: a restart empties them and   *)
(* is left out.                                                            *)
(***************************************************************************)
EXTENDS Naturals, FiniteSets

CONSTANTS
  Requests,  \* calls that may be in flight together
  None,
  MaxMails   \* bound on mails handed to the driver

VARIABLES
  pref,      \* the row, or None
  prefReq,   \* calls in flight
  adrift,    \* mails with the driver whose send has timed out
  outbox,    \* rows recorded as sent and as failed; the metrics are these
  \* History, read by properties only.
  delivered, \* mails the driver accepted
  refused,   \* mails the driver refused
  timedOut   \* sends that timed out

prefVars == <<pref, prefReq, adrift, outbox, delivered, refused, timedOut>>

Columns == {"newSubscriber", "marketing"}
Preferences == [Columns -> BOOLEAN]
NotificationsAssumption ==
  MaxMails \in Nat /\ IsFiniteSet(Requests) /\ None \notin Preferences \cup BOOLEAN

Defaults == [k \in Columns |-> k = "newSubscriber"]
(* The body of a PATCH may name any of the preferences, or none; a null is *)
(* refused by the UPDATE, which leaves what an empty body does.  The DTO   *)
(* the ValidationPipe makes of it has every preference as a field (classes *)
(* of tsconfig's target define their fields): None, for undefined, where   *)
(* the body names none.                                                    *)
Bodies == [Columns -> BOOLEAN \cup {None}]
Empty == [k \in Columns |-> None]

Idle == [pc |-> "idle", op |-> "get", body |-> Empty, entity |-> Empty, cols |-> {}]
Call ==
  [pc : {"idle", "find", "default", "insert", "select", "update", "mail", "send"},
   op : {"get", "patch", "notify", "reset"}, body : Bodies, entity : Bodies, cols : SUBSET Columns]

TypeOK ==
  /\ pref \in Preferences \cup {None}
  /\ prefReq \in [Requests -> Call]
  /\ \A r \in Requests : prefReq[r].pc \in {"select", "update"} => pref # None
  /\ outbox \in [sent : 0..MaxMails, failed : 0..MaxMails]
  /\ adrift \in 0..timedOut
  /\ delivered \in 0..MaxMails /\ refused \in 0..MaxMails /\ timedOut \in 0..outbox.failed

Init ==
  /\ pref = None
  /\ prefReq = [r \in Requests |-> Idle]
  /\ adrift = 0 /\ outbox = [sent |-> 0, failed |-> 0]
  /\ delivered = 0 /\ refused = 0 /\ timedOut = 0

-----------------------------------------------------------------------------
mailVars == <<adrift, outbox, delivered, refused, timedOut>>

Started ==
  outbox.sent + outbox.failed + Cardinality({r \in Requests : prefReq[r].pc = "send"})

(* GET and PATCH of /users/me/notification-preferences and subscribe begin *)
(* with the same SELECT.                                                   *)
Begin(r, op, body) ==
  /\ prefReq[r].pc = "idle"
  /\ prefReq' = [prefReq EXCEPT ![r] = [Idle EXCEPT !.pc = "find", !.op = op, !.body = body]]
  /\ UNCHANGED <<pref, mailVars>>

getPreferences(r) == Begin(r, "get", Empty)
updatePreferences(r, body) == Begin(r, "patch", body)
notifyCreatorOfNewSubscriber(r) == Begin(r, "notify", Empty)

\* Mutant: the DTO has only the fields that were sent.
Assign_Sent(p, body) == [k \in Columns |-> IF body[k] = None THEN p[k] ELSE body[k]]

(* Object.assign(preferences, updateDto): undefined fields are assigned    *)
(* too, so nothing the row held is left in the entity.                     *)
Assign(p, body) == [k \in Columns |-> body[k]]

(* What a call goes on to do with the preferences it has *)
With(r, p) ==
  LET c == prefReq[r] IN
  CASE c.op = "patch" -> [c EXCEPT !.pc = "select", !.entity = Assign(p, c.body)]
    [] c.op = "notify" /\ p.newSubscriber -> [c EXCEPT !.pc = "mail"]
    [] OTHER -> Idle

(* The call's own findOneBy, then that of createDefaultPreferences *)
Find(r) ==
  /\ prefReq[r].pc \in {"find", "default"}
  /\ prefReq' = [prefReq EXCEPT ![r] =
       IF pref # None THEN With(r, pref)
       ELSE [prefReq[r] EXCEPT !.pc = IF @ = "find" THEN "default" ELSE "insert"]]
  /\ UNCHANGED <<pref, mailVars>>

(* The unique userId refuses a second row: the call fails, and a           *)
(* subscribe goes without its mail.                                        *)
InsertDefaults(r) ==
  /\ prefReq[r].pc = "insert"
  /\ pref' = IF pref = None THEN Defaults ELSE pref
  /\ prefReq' = [prefReq EXCEPT ![r] = IF pref = None THEN With(r, Defaults) ELSE Idle]
  /\ UNCHANGED mailVars

(* save leaves out what is undefined. *)
SaveSelect(r) ==
  LET c == prefReq[r] IN
  /\ c.pc = "select"
  /\ prefReq' = [prefReq EXCEPT ![r].pc = "update",
                   ![r].cols = {k \in Columns : c.entity[k] \notin {None, pref[k]}}]
  /\ UNCHANGED <<pref, mailVars>>

SaveUpdate(r) ==
  LET c == prefReq[r] IN
  /\ c.pc = "update"
  /\ pref' = [k \in Columns |-> IF k \in c.cols THEN c.entity[k] ELSE pref[k]]
  /\ prefReq' = [prefReq EXCEPT ![r] = Idle]
  /\ UNCHANGED mailVars

-----------------------------------------------------------------------------
(* forgotPassword: the mail of a reset is not asked for by preferences. *)
forgotPassword(r) ==
  /\ prefReq[r].pc = "idle"
  /\ prefReq' = [prefReq EXCEPT ![r] = [Idle EXCEPT !.pc = "mail", !.op = "reset"]]
  /\ UNCHANGED <<pref, mailVars>>

(* MailerService.send hands the mail to the driver and starts the timer. *)
send(r) ==
  /\ prefReq[r].pc = "mail" /\ Started < MaxMails
  /\ prefReq' = [prefReq EXCEPT ![r].pc = "send"]
  /\ UNCHANGED <<pref, mailVars>>

Record(r, status) ==
  /\ prefReq[r].pc = "send"
  /\ outbox' = [outbox EXCEPT ![status] = @ + 1]
  /\ prefReq' = [prefReq EXCEPT ![r] = Idle]
  /\ UNCHANGED pref

(* The driver answers in time. *)
Accept(r) ==
  /\ Record(r, "sent")
  /\ delivered' = delivered + 1
  /\ UNCHANGED <<adrift, refused, timedOut>>

\* Mutant: a refusal is recorded as sent.
Refuse_AsSent(r) ==
  /\ Record(r, "sent")
  /\ refused' = refused + 1
  /\ UNCHANGED <<adrift, delivered, timedOut>>

Refuse(r) ==
  /\ Record(r, "failed")
  /\ refused' = refused + 1
  /\ UNCHANGED <<adrift, delivered, timedOut>>

\* Mutant: withTimeout starts no timer.
Timeout_Never(r) == prefReq[r].pc = "send" /\ FALSE /\ UNCHANGED prefVars

(* The timer of withTimeout *)
Timeout(r) ==
  /\ Record(r, "failed")
  /\ adrift' = adrift + 1
  /\ timedOut' = timedOut + 1
  /\ UNCHANGED <<delivered, refused>>

(* The driver answers a send that has timed out: nobody listens. *)
AnswerLate ==
  /\ adrift > 0
  /\ adrift' = adrift - 1
  /\ \/ delivered' = delivered + 1 /\ UNCHANGED refused
     \/ refused' = refused + 1 /\ UNCHANGED delivered
  /\ UNCHANGED <<pref, prefReq, outbox, timedOut>>

Step(r) == Find(r) \/ InsertDefaults(r) \/ SaveSelect(r) \/ SaveUpdate(r) \/ send(r)

Next ==
  \/ \E r \in Requests :
       \/ getPreferences(r) \/ notifyCreatorOfNewSubscriber(r) \/ forgotPassword(r)
       \/ \E body \in Bodies : updatePreferences(r, body)
       \/ Step(r) \/ Accept(r) \/ Refuse(r) \/ Timeout(r)
  \/ AnswerLate

(* The database answers and the timer fires; the driver need not.          *)
Fairness == \A r \in Requests : WF_prefVars(Step(r)) /\ WF_prefVars(Timeout(r))

(* The same of one call, with the guards of Step and Timeout written out   *)
(* where WF has ENABLED, which the proofs cannot use.                      *)
Ready(r) ==
  \/ prefReq[r].pc \in {"find", "default", "insert", "select", "update"}
  \/ prefReq[r].pc = "mail" /\ Started < MaxMails
Prompt(r) ==
  /\ []<>~Ready(r) \/ []<><<Step(r)>>_prefVars
  /\ []<>(prefReq[r].pc # "send") \/ []<><<Timeout(r)>>_prefVars

-----------------------------------------------------------------------------
(***************************************************************************)
(* Properties                                                              *)
(***************************************************************************)

(* A preference that is there changes only when an update whose body names *)
(* it saves, and to what that body says, whatever other updates saved      *)
(* since it read the row: of two that name different preferences neither   *)
(* undoes the other.                                                       *)
ChoiceKept ==
  [][\A k \in Columns : pref # None /\ pref'[k] # pref[k] =>
       \E r \in Requests : prefReq[r].pc = "update" /\ prefReq[r].body[k] = pref'[k]]_prefVars

(* The outbox never claims a delivery that did not happen, and misses one  *)
(* only if the driver accepted the mail after the send had timed out.      *)
OutboxHonest ==
  /\ outbox.sent <= delivered /\ delivered <= outbox.sent + timedOut
  /\ delivered + refused + adrift = outbox.sent + outbox.failed

(* Subscribing, asking for a reset and reading or changing preferences end *)
(* although the driver may never answer.                                   *)
CallsEnd ==
  \A r \in Requests : prefReq[r].pc # "idle" ~> prefReq[r].pc = "idle" \/ Started = MaxMails
=============================================================================
