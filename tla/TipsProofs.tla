----------------------------- MODULE TipsProofs -----------------------------
(***************************************************************************)
(* Proofs about Tips, under its names in MCMessaging, for any number of    *)
(* keys, fans, calls in flight and restarts; and that the rows of messages *)
(* and tips keep their shape, with what MessagingProofs proves.            *)
(***************************************************************************)
EXTENDS MCMessaging, MessagingProofs, TipFeeProofs

(* The number of entries, written or on their way, on an action *)
Entries(k, a) == audit[<<k, a>>] + unlogged[<<k, a>>]
May(k, a) == a = status[k] \/ (a = "created" /\ status[k] # "none")

(* A confirmation past its read is by the tip's own fan; unless the tip is *)
(* contested it is still pending; and if it is, the save will write.       *)
TipCallOK(r) ==
  LET c == tipReq[r] IN
  /\ c.pc # "idle" => c.fan \in Fans /\ c.key \in Keys /\ c.entity \in Tips!Final
  /\ c.pc \in {"select", "update"} =>
       /\ owner[c.key] = c.fan
       /\ c.key \notin contested => status[c.key] = "pending"
  /\ c.pc = "update" /\ ~c.differs => status[c.key] \in Tips!Final

TipsOK ==
  /\ Tips!TypeOK
  /\ \A r \in TipRequests : TipCallOK(r)
  /\ AuditTrue

(* An idle call, and what None is not *)
LEMMA TipFacts ==
  /\ Tips!Idle \in Tips!Call /\ Tips!Idle.pc = "idle"
  /\ None \notin Keys /\ None \notin Fans
  BY PairAssumption DEF Tips!TipsAssumption, Tips!Idle, Tips!Call

(* The parts of the type invariant the proofs cite *)
LEMMA TipsShape ==
  ASSUME TipsOK
  PROVE  /\ owner \in [Keys -> Fans \cup {None}]
         /\ status \in [Keys -> {"none", "pending"} \cup Tips!Final]
         /\ \A k \in Keys : status[k] = "none" <=> owner[k] = None
         /\ tipReq \in [TipRequests -> Tips!Call]
         /\ unlogged \in [Keys \X Tips!Actions -> Nat]
         /\ audit \in [Keys \X Tips!Actions -> Nat]
         /\ contested \subseteq Keys
         /\ crashes \in Nat
         /\ \A r \in TipRequests : TipCallOK(r)
         /\ \A k \in Keys, a \in Tips!Actions :
              k \notin contested \/ a = "created" => Entries(k, a) <= IF May(k, a) THEN 1 ELSE 0
  BY DEF TipsOK, Tips!TypeOK, AuditTrue, Tips!AuditTrue, Entries, May

(* What a step that writes has to keep *)
LEMMA TipsFromParts ==
  ASSUME owner' \in [Keys -> Fans \cup {None}],
         status' \in [Keys -> {"none", "pending"} \cup Tips!Final],
         \A k \in Keys : status'[k] = "none" <=> owner'[k] = None,
         tipReq' \in [TipRequests -> Tips!Call],
         unlogged' \in [Keys \X Tips!Actions -> Nat],
         audit' \in [Keys \X Tips!Actions -> Nat],
         contested' \subseteq Keys,
         crashes' \in Nat,
         \A r \in TipRequests : TipCallOK(r)',
         \A k \in Keys, a \in Tips!Actions :
            k \notin contested' \/ a = "created" => Entries(k, a)' <= IF May(k, a)' THEN 1 ELSE 0
  PROVE  TipsOK'
<1>1. Tips!TypeOK'
  BY DEF Tips!TypeOK, TipCallOK
<1>2. AuditTrue'
  BY DEF AuditTrue, Tips!AuditTrue, Entries, May
<1> QED
  BY <1>1, <1>2 DEF TipsOK

(* An audit entry sent *)
LEMMA TipLogs ==
  ASSUME TipsOK, NEW k \in Keys, NEW b \in Tips!Actions, Tips!Log(k, b)
  PROVE  /\ unlogged' \in [Keys \X Tips!Actions -> Nat]
         /\ \A j \in Keys, a \in Tips!Actions :
              unlogged'[<<j, a>>] = IF j = k /\ a = b THEN unlogged[<<j, a>>] + 1 ELSE unlogged[<<j, a>>]
<1> DEFINE All == Keys \X Tips!Actions
           at == <<k, b>>
<1>1. at \in All /\ unlogged \in [All -> Nat] /\ unlogged' = [unlogged EXCEPT ![at] = unlogged[at] + 1]
  BY TipsShape DEF Tips!Log
<1>2. \A j \in Keys, a \in Tips!Actions : <<j, a>> \in All /\ (<<j, a>> = at <=> j = k /\ a = b)
  OBVIOUS
<1> HIDE DEF All, at
<1>3. unlogged' \in [All -> Nat] /\ \A x \in All : unlogged'[x] = IF x = at THEN unlogged[x] + 1 ELSE unlogged[x]
  BY <1>1
<1>4. unlogged' \in [Keys \X Tips!Actions -> Nat]
  BY <1>3 DEF All
<1> QED
  BY <1>2, <1>3, <1>4

(* There are no tips at the start. *)
LEMMA TipsInit == Tips!Init => TipsOK
<1> SUFFICES ASSUME Tips!Init PROVE TipsOK
  OBVIOUS
<1>1. \A r \in TipRequests : TipCallOK(r)
  BY TipFacts DEF Tips!Init, TipCallOK
<1>2. \A k \in Keys, a \in Tips!Actions : Entries(k, a) = 0
  BY DEF Tips!Init, Entries
<1>3. Tips!TypeOK
  BY <1>1, TipFacts DEF Tips!Init, Tips!TypeOK
<1>4. AuditTrue
  BY <1>2 DEF AuditTrue, Tips!AuditTrue, Entries
<1> QED
  BY <1>1, <1>3, <1>4 DEF TipsOK, Tips!Init

(* Steps of a call that write nothing *)
LEMMA TipMoves ==
  ASSUME TipsOK, NEW r \in TipRequests, NEW c \in Tips!Call, tipReq' = [tipReq EXCEPT ![r] = c],
         UNCHANGED <<owner, status, unlogged, audit, contested, crashes>>,
         TipCallOK(r)'
  PROVE  TipsOK'
<1>1. tipReq' \in [TipRequests -> Tips!Call] /\ \A q \in TipRequests \ {r} : tipReq'[q] = tipReq[q]
  BY TipsShape
<1>2. \A q \in TipRequests : TipCallOK(q)'
  BY <1>1, TipsShape DEF TipCallOK
<1>3. Tips!TypeOK'
  BY <1>1, <1>2, TipsShape DEF Tips!TypeOK, TipCallOK
<1> QED
  BY <1>2, <1>3, TipsShape DEF TipsOK, AuditTrue, Tips!AuditTrue, Entries, May

(* A call that goes on to another statement, or ends *)
LEMMA TipGoes ==
  ASSUME TipsOK, NEW r \in TipRequests, NEW c \in Tips!Call,
         c.fan \in Fans, c.key \in Keys, c.entity \in Tips!Final,
         NEW step \in {"raced", "find", "select"},
         \/ Tips!Goto(r, Tips!Idle)
         \/ /\ Tips!Goto(r, [c EXCEPT !.pc = step])
            /\ step = "select" => owner[c.key] = c.fan /\ status[c.key] = "pending",
         UNCHANGED <<owner, status, unlogged, audit, contested, crashes>>
  PROVE  TipsOK'
<1>1. CASE Tips!Goto(r, Tips!Idle)
  <2>1. tipReq' = [tipReq EXCEPT ![r] = Tips!Idle] /\ tipReq'[r] = Tips!Idle
    BY <1>1, TipsShape DEF Tips!Goto
  <2>2. TipCallOK(r)'
    BY <2>1, TipFacts DEF TipCallOK
  <2> QED
    BY <2>1, <2>2, TipFacts, TipMoves
<1>2. CASE ~Tips!Goto(r, Tips!Idle)
  <2> DEFINE d == [c EXCEPT !.pc = step]
  <2>1. d \in Tips!Call /\ d.pc = step /\ d.fan = c.fan /\ d.key = c.key /\ d.entity = c.entity
    BY DEF Tips!Call
  <2>2. tipReq' = [tipReq EXCEPT ![r] = d]
    BY <1>2 DEF Tips!Goto
  <2>3. step = "select" => owner[c.key] = c.fan /\ status[c.key] = "pending"
    BY <1>2
  <2> HIDE DEF d
  <2>4. tipReq'[r] = d
    BY <2>2, TipsShape
  <2>5. TipCallOK(r)'
    BY <2>1, <2>3, <2>4 DEF TipCallOK
  <2> QED
    BY <2>1, <2>2, <2>5, TipMoves
<1> QED
  BY <1>1, <1>2

(* The first statement that wrote a tip goes on with it. *)
LEMMA TipHave ==
  ASSUME TipsOK, NEW r \in TipRequests, NEW c \in Tips!Call,
         c.fan \in Fans, c.key \in Keys, c.entity \in Tips!Final, Tips!HaveTip(r, c),
         UNCHANGED <<owner, status, unlogged, audit, contested, crashes>>
  PROVE  TipsOK'
<1>1. Tips!Goto(r, Tips!Idle) \/ Tips!Goto(r, [c EXCEPT !.pc = "find"])
  BY DEF Tips!HaveTip
<1> QED
  BY <1>1, TipGoes

(* A confirmation begins with the owner's pending tip. *)
LEMMA TipConfirm ==
  ASSUME TipsOK, NEW r \in TipRequests, NEW c \in Tips!Call,
         c.fan \in Fans, c.key \in Keys, c.entity \in Tips!Final, Tips!confirmEntity(r, c),
         UNCHANGED <<owner, status, unlogged, audit, contested, crashes>>
  PROVE  TipsOK'
<1>1. \/ Tips!Goto(r, Tips!Idle)
      \/ /\ Tips!Goto(r, [c EXCEPT !.pc = "select"])
         /\ owner[c.key] = c.fan /\ status[c.key] = "pending"
  BY DEF Tips!confirmEntity
<1> QED
  BY <1>1, TipGoes

(* The insert of a tip, which the call goes on with or answers *)
LEMMA TipInsert ==
  ASSUME TipsOK, NEW r \in TipRequests, Tips!Insert(r), owner[tipReq[r].key] = None
  PROVE  TipsOK'
<1> DEFINE n == tipReq[r].key
<1>1. /\ tipReq[r] \in Tips!Call /\ n \in Keys /\ tipReq[r].fan \in Fans /\ tipReq[r].entity \in Tips!Final
  BY TipsShape DEF Tips!Insert, TipCallOK
<1> DEFINE c == [tipReq[r] EXCEPT !.pc = "find"]
<1>2. c \in Tips!Call /\ c.pc = "find" /\ c.fan = tipReq[r].fan /\ c.key = n /\ c.entity = tipReq[r].entity
  BY <1>1 DEF Tips!Call
<1>3. /\ owner' = [owner EXCEPT ![n] = tipReq[r].fan]
      /\ status' = [status EXCEPT ![n] = "pending"]
      /\ Tips!Log(n, "created")
      /\ tipReq' = [tipReq EXCEPT ![r] = c] \/ tipReq' = [tipReq EXCEPT ![r] = Tips!Idle]
      /\ UNCHANGED <<audit, contested, crashes>>
  BY DEF Tips!Insert, Tips!Goto, Tips!ConfirmHistory
<1> HIDE DEF c
<1>4. /\ tipReq' \in [TipRequests -> Tips!Call] /\ tipReq'[r] \in {c, Tips!Idle}
      /\ \A q \in TipRequests \ {r} : tipReq'[q] = tipReq[q]
  BY <1>2, <1>3, TipsShape, TipFacts
<1> PICK k \in Keys : k = n
  BY <1>1
<1> HIDE DEF n
<1>5. /\ owner' \in [Keys -> Fans \cup {None}] /\ owner'[k] = tipReq[r].fan
      /\ status' \in [Keys -> {"none", "pending"} \cup Tips!Final] /\ status'[k] = "pending"
      /\ \A j \in Keys \ {k} : owner'[j] = owner[j] /\ status'[j] = status[j]
  BY <1>1, <1>3, TipsShape
<1>6. \A j \in Keys : status'[j] = "none" <=> owner'[j] = None
  BY <1>1, <1>5, TipsShape, TipFacts
<1>7. "created" \in Tips!Actions
  BY DEF Tips!Actions
<1>8. /\ unlogged' \in [Keys \X Tips!Actions -> Nat]
      /\ \A j \in Keys, a \in Tips!Actions :
           unlogged'[<<j, a>>] = IF j = k /\ a = "created" THEN unlogged[<<j, a>>] + 1 ELSE unlogged[<<j, a>>]
  BY <1>3, <1>7, TipLogs
<1>9. status[k] = "none"
  BY TipsShape DEF n
<1>10. ASSUME NEW j \in Keys, NEW a \in Tips!Actions, j \notin contested' \/ a = "created"
       PROVE  Entries(j, a)' <= IF May(j, a)' THEN 1 ELSE 0
  <2>1. audit[<<j, a>>] \in Nat /\ unlogged[<<j, a>>] \in Nat
    BY TipsShape
  <2>2. Entries(j, a) <= IF May(j, a) THEN 1 ELSE 0
    BY <1>3, <1>10, TipsShape
  <2>3. a \notin {"none", "pending"}
    BY DEF Tips!Actions, Tips!Final
  <2>4. CASE j = k
    <3>1. ~May(k, a) /\ (May(k, a)' <=> a = "created")
      BY <1>5, <1>9, <2>3 DEF May
    <3> QED
      BY <1>3, <1>8, <2>1, <2>2, <2>4, <3>1 DEF Entries
  <2>5. CASE j # k
    BY <1>3, <1>5, <1>8, <2>1, <2>2, <2>5 DEF Entries, May
  <2> QED
    BY <2>4, <2>5
<1>11. ASSUME NEW q \in TipRequests PROVE TipCallOK(q)'
  <2>1. CASE q = r
    BY <1>1, <1>2, <1>4, <2>1, TipFacts DEF TipCallOK, n
  <2>2. CASE q # r
    <3>1. TipCallOK(q) /\ tipReq'[q] = tipReq[q]
      BY <1>4, <2>2, TipsShape
    <3>2. tipReq[q].pc \in {"select", "update"} => tipReq[q].key \in Keys \ {k}
      BY <3>1, TipFacts DEF TipCallOK, n
    <3> QED
      BY <1>3, <1>5, <3>1, <3>2 DEF TipCallOK
  <2> QED
    BY <2>1, <2>2
<1> QED
  BY <1>3, <1>4, <1>5, <1>6, <1>8, <1>10, <1>11, TipsShape, TipsFromParts

(* The save of a tip that is not contested decides it; any other one is of *)
(* a tip that is contested.                                                *)
LEMMA TipSave ==
  ASSUME TipsOK, NEW r \in TipRequests, Tips!SaveUpdate(r)
  PROVE  TipsOK'
<1> DEFINE n == tipReq[r].key
           e == tipReq[r].entity
           lags == {q \in TipRequests \ {r} : tipReq[q].key = n /\ tipReq[q].pc \in {"select", "update"}}
<1>1. /\ tipReq[r].pc = "update" /\ n \in Keys /\ tipReq[r].fan \in Fans /\ e \in Tips!Final
      /\ e \in Tips!Actions /\ owner[n] = tipReq[r].fan
      /\ n \notin contested => status[n] = "pending"
      /\ status[n] = "pending" => tipReq[r].differs
  BY TipsShape DEF Tips!SaveUpdate, TipCallOK, Tips!Actions, Tips!Final
<1>2. /\ status' = IF tipReq[r].differs THEN [status EXCEPT ![n] = e] ELSE status
      /\ contested' = IF lags = {} THEN contested ELSE contested \cup {n}
      /\ Tips!Log(n, e)
      /\ tipReq' = [tipReq EXCEPT ![r] = Tips!Idle]
      /\ UNCHANGED <<owner, audit, crashes>>
  BY DEF Tips!SaveUpdate, Tips!Contest, Tips!Goto
<1>3. /\ tipReq' \in [TipRequests -> Tips!Call] /\ tipReq'[r] = Tips!Idle
      /\ \A q \in TipRequests \ {r} : tipReq'[q] = tipReq[q]
  BY <1>2, TipsShape, TipFacts
<1>4. PICK k \in Keys, b \in Tips!Actions : k = n /\ b = e
  BY <1>1
<1>5. /\ unlogged' \in [Keys \X Tips!Actions -> Nat]
      /\ \A j \in Keys, a \in Tips!Actions :
           unlogged'[<<j, a>>] = IF j = k /\ a = b THEN unlogged[<<j, a>>] + 1 ELSE unlogged[<<j, a>>]
  <2>1. Tips!Log(k, b)
    BY <1>2, <1>4 DEF Tips!Log
  <2> QED
    BY <2>1, TipLogs
<1>6. status[k] # "none" /\ b \in Tips!Final /\ b \notin {"none", "pending", "created"}
  BY <1>1, <1>4, TipsShape, TipFacts DEF Tips!Final
<1>9. \A q \in TipRequests \ {r} : tipReq[q].key = k /\ tipReq[q].pc \in {"select", "update"} => q \in lags
  BY <1>4
<1> HIDE DEF n, e, lags
<1>10. /\ status' \in [Keys -> {"none", "pending"} \cup Tips!Final]
       /\ status'[k] \in {status[k], b} /\ (tipReq[r].differs => status'[k] = b)
       /\ \A j \in Keys \ {k} : status'[j] = status[j]
  BY <1>1, <1>2, <1>4, TipsShape
<1>11. \A j \in Keys : status'[j] = "none" <=> owner'[j] = None
  BY <1>2, <1>6, <1>10, TipsShape
<1>13. contested \subseteq contested' /\ contested' \subseteq Keys /\ (lags # {} => k \in contested')
  BY <1>2, <1>4, TipsShape
<1>15. ASSUME NEW j \in Keys, NEW a \in Tips!Actions, j \notin contested' \/ a = "created"
       PROVE  Entries(j, a)' <= IF May(j, a)' THEN 1 ELSE 0
  <2>1. audit[<<j, a>>] \in Nat /\ unlogged[<<j, a>>] \in Nat
    BY TipsShape
  <2>2. Entries(j, a) <= IF May(j, a) THEN 1 ELSE 0
    BY <1>13, <1>15, TipsShape
  <2>3. a \notin {"none", "pending"}
    BY DEF Tips!Actions, Tips!Final
  <2>4. CASE j # k \/ a = "created"
    <3>1. unlogged'[<<j, a>>] = unlogged[<<j, a>>]
      BY <1>5, <1>6, <2>4
    <3>2. May(j, a) => May(j, a)'
      BY <1>6, <1>10, <1>11, <2>4, TipsShape DEF May
    <3> QED
      BY <1>2, <2>1, <2>2, <3>1, <3>2 DEF Entries
  <2>5. CASE j = k /\ a # "created"
    <3>1. k \notin contested
      BY <1>13, <1>15, <2>5
    <3>2. status[k] = "pending" /\ status'[k] = b
      BY <1>1, <1>4, <1>10, <3>1 DEF n
    <3>3. ~May(k, a) /\ (May(k, a)' <=> a = b)
      BY <2>3, <2>5, <3>2 DEF May
    <3> QED
      BY <1>2, <1>5, <2>1, <2>2, <2>5, <3>3 DEF Entries
  <2> QED
    BY <2>4, <2>5
<1>16. ASSUME NEW q \in TipRequests PROVE TipCallOK(q)'
  <2>1. CASE q = r
    BY <1>3, <2>1, TipFacts DEF TipCallOK
  <2>2. CASE q # r
    <3>1. TipCallOK(q) /\ tipReq'[q] = tipReq[q]
      BY <1>3, <2>2, TipsShape
    <3>2. CASE tipReq[q].pc \notin {"select", "update"}
      BY <3>1, <3>2 DEF TipCallOK
    <3>3. CASE tipReq[q].pc \in {"select", "update"} /\ tipReq[q].key = k
      <4>1. k \in contested'
        BY <1>9, <1>13, <2>2, <3>3
      <4>2. status[k] \in Tips!Final => status'[k] \in Tips!Final
        BY <1>6, <1>10
      <4> QED
        BY <1>2, <3>1, <3>3, <4>1, <4>2 DEF TipCallOK
    <3>4. CASE tipReq[q].pc \in {"select", "update"} /\ tipReq[q].key # k
      <4>1. tipReq[q].key \in Keys \ {k}
        BY <3>1, <3>4 DEF TipCallOK
      <4> QED
        BY <1>2, <1>10, <1>13, <3>1, <4>1 DEF TipCallOK
    <3> QED
      BY <3>2, <3>3, <3>4
  <2> QED
    BY <2>1, <2>2
<1> QED
  BY <1>2, <1>3, <1>5, <1>10, <1>11, <1>13, <1>15, <1>16, TipsShape, TipsFromParts

(* An entry written or lost *)
LEMMA TipWriteLog ==
  ASSUME TipsOK, NEW x \in Keys \X Tips!Actions, Tips!WriteLog(x)
  PROVE  TipsOK'
<1> DEFINE All == Keys \X Tips!Actions
<1>1. unlogged \in [All -> Nat] /\ audit \in [All -> Nat] /\ x \in All
  BY TipsShape
<1>2. /\ unlogged[x] > 0 /\ unlogged' = [unlogged EXCEPT ![x] = unlogged[x] - 1]
      /\ audit' \in {audit, [audit EXCEPT ![x] = audit[x] + 1]}
      /\ UNCHANGED <<owner, status, tipReq, contested, crashes>>
  BY DEF Tips!WriteLog, Tips!ConfirmHistory
<1>3. \A j \in Keys, a \in Tips!Actions : <<j, a>> \in All
  OBVIOUS
<1> HIDE DEF All
<1>4. /\ unlogged' \in [All -> Nat] /\ audit' \in [All -> Nat]
      /\ \A y \in All : audit'[y] + unlogged'[y] <= audit[y] + unlogged[y]
  BY <1>1, <1>2
<1>5. ASSUME NEW j \in Keys, NEW a \in Tips!Actions, j \notin contested' \/ a = "created"
      PROVE  Entries(j, a)' <= IF May(j, a)' THEN 1 ELSE 0
  <2>1. PICK y \in All : y = <<j, a>>
    BY <1>3
  <2>2. Entries(j, a) = audit[y] + unlogged[y] /\ Entries(j, a)' = audit'[y] + unlogged'[y]
    BY <2>1 DEF Entries
  <2>3. audit[y] \in Nat /\ unlogged[y] \in Nat /\ audit'[y] \in Nat /\ unlogged'[y] \in Nat
    BY <1>1, <1>4
  <2>4. Entries(j, a) <= IF May(j, a) THEN 1 ELSE 0
    BY <1>2, <1>5, TipsShape
  <2>5. May(j, a)' <=> May(j, a)
    BY <1>2 DEF May
  <2> QED
    BY <1>4, <2>2, <2>3, <2>4, <2>5
<1>6. \A q \in TipRequests : TipCallOK(q)'
  BY <1>2, TipsShape DEF TipCallOK
<1>7. unlogged' \in [Keys \X Tips!Actions -> Nat] /\ audit' \in [Keys \X Tips!Actions -> Nat]
  BY <1>4 DEF All
<1> QED
  BY <1>2, <1>5, <1>6, <1>7, TipsShape, TipsFromParts

(* A restart forgets the calls in flight and the entries not yet written. *)
LEMMA TipCrash ==
  ASSUME TipsOK, Tips!Crash
  PROVE  TipsOK'
<1>1. /\ crashes' = crashes + 1 /\ tipReq' = [r \in TipRequests |-> Tips!Idle]
      /\ unlogged' = [x \in Keys \X Tips!Actions |-> 0]
      /\ UNCHANGED <<owner, status, audit, contested>>
  BY DEF Tips!Crash
<1>2. \A q \in TipRequests : TipCallOK(q)'
  BY <1>1, TipFacts DEF TipCallOK
<1>3. ASSUME NEW j \in Keys, NEW a \in Tips!Actions, j \notin contested' \/ a = "created"
      PROVE  Entries(j, a)' <= IF May(j, a)' THEN 1 ELSE 0
  <2>1. audit[<<j, a>>] \in Nat /\ unlogged[<<j, a>>] \in Nat
    BY TipsShape
  <2>2. audit'[<<j, a>>] = audit[<<j, a>>] /\ unlogged'[<<j, a>>] = 0
    BY <1>1
  <2>3. Entries(j, a) <= IF May(j, a) THEN 1 ELSE 0
    BY <1>1, <1>3, TipsShape
  <2>4. May(j, a)' <=> May(j, a)
    BY <1>1 DEF May
  <2> QED
    BY <2>1, <2>2, <2>3, <2>4 DEF Entries
<1>4. /\ tipReq' \in [TipRequests -> Tips!Call] /\ unlogged' \in [Keys \X Tips!Actions -> Nat]
      /\ crashes' \in Nat
  BY <1>1, TipsShape, TipFacts
<1> QED
  BY <1>1, <1>2, <1>3, <1>4, TipsShape, TipsFromParts

(* Every statement of a call, every audit entry and every restart keeps    *)
(* TipsOK.                                                                 *)
LEMMA TipsStep == TipsOK /\ [Tips!Next]_(Tips!vars) => TipsOK'
<1> SUFFICES ASSUME TipsOK, [Tips!Next]_(Tips!vars) PROVE TipsOK'
  OBVIOUS
<1>1. ASSUME NEW r \in TipRequests, NEW f \in Fans, NEW k \in Keys, NEW op \in {"intent", "shorthand"},
             NEW s \in Tips!Final, Tips!createIntent(r, f, k, op, s)
      PROVE  TipsOK'
  <2> DEFINE c == [pc |-> "insert", op |-> op, fan |-> f, key |-> k, entity |-> s, differs |-> FALSE]
  <2>1. c \in Tips!Call /\ c.pc = "insert" /\ c.fan = f /\ c.key = k /\ c.entity = s
    BY DEF Tips!Call
  <2>2. /\ Tips!Goto(r, c) \/ Tips!HaveTip(r, c)
        /\ UNCHANGED <<owner, status, unlogged, audit, contested, crashes>>
    BY <1>1 DEF Tips!createIntent, Tips!Rows, Tips!ConfirmHistory
  <2> HIDE DEF c
  <2>3. CASE Tips!Goto(r, c)
    <3>1. tipReq' = [tipReq EXCEPT ![r] = c] /\ tipReq'[r] = c
      BY <2>1, <2>3, TipsShape DEF Tips!Goto
    <3>2. TipCallOK(r)'
      BY <2>1, <3>1 DEF TipCallOK
    <3> QED
      BY <2>1, <2>2, <3>1, <3>2, TipMoves
  <2> QED
    BY <2>1, <2>2, <2>3, TipHave
<1>2. ASSUME NEW r \in TipRequests, NEW f \in Fans, NEW k \in Keys, NEW s \in Tips!Final,
             Tips!confirm(r, f, k, s)
      PROVE  TipsOK'
  <2> DEFINE c == [pc |-> "find", op |-> "confirm", fan |-> f, key |-> k, entity |-> s, differs |-> FALSE]
  <2>1. c \in Tips!Call /\ c.fan = f /\ c.key = k /\ c.entity = s
    BY DEF Tips!Call
  <2>2. /\ Tips!confirmEntity(r, c)
        /\ UNCHANGED <<owner, status, unlogged, audit, contested, crashes>>
    BY <1>2 DEF Tips!confirm, Tips!Rows, Tips!ConfirmHistory
  <2> HIDE DEF c
  <2> QED
    BY <2>1, <2>2, TipConfirm
<1>3. \A r \in TipRequests : tipReq[r].pc # "idle" =>
        /\ tipReq[r] \in Tips!Call /\ tipReq[r].fan \in Fans /\ tipReq[r].key \in Keys
        /\ tipReq[r].entity \in Tips!Final /\ TipCallOK(r)
  BY TipsShape DEF TipCallOK
<1>4. ASSUME NEW r \in TipRequests, Tips!Insert(r) PROVE TipsOK'
  <2>1. CASE owner[tipReq[r].key] # None
    <3>1. /\ Tips!Goto(r, [tipReq[r] EXCEPT !.pc = "raced"]) /\ tipReq[r].pc = "insert"
          /\ UNCHANGED <<owner, status, unlogged, audit, contested, crashes>>
      BY <1>4, <2>1 DEF Tips!Insert, Tips!ConfirmHistory
    <3> QED
      BY <1>3, <3>1, TipGoes
  <2> QED
    BY <1>4, <2>1, TipInsert
<1>5. ASSUME NEW r \in TipRequests, Tips!RereadWinner(r) PROVE TipsOK'
  BY <1>3, <1>5, TipHave DEF Tips!RereadWinner, Tips!Rows, Tips!ConfirmHistory
<1>6. ASSUME NEW r \in TipRequests, Tips!FindTip(r) PROVE TipsOK'
  BY <1>3, <1>6, TipConfirm DEF Tips!FindTip, Tips!Rows, Tips!ConfirmHistory
<1>7. ASSUME NEW r \in TipRequests, Tips!SaveSelect(r) PROVE TipsOK'
  <2> DEFINE d == tipReq[r].entity # status[tipReq[r].key]
             c == [tipReq[r] EXCEPT !.pc = "update", !.differs = d]
  <2>1. /\ tipReq' = [tipReq EXCEPT ![r] = c] /\ tipReq[r].pc = "select"
        /\ UNCHANGED <<owner, status, unlogged, audit, contested, crashes>>
    BY <1>7 DEF Tips!SaveSelect, Tips!Goto, Tips!Rows, Tips!ConfirmHistory
  <2>2. d \in BOOLEAN /\ (d <=> tipReq[r].entity # status[tipReq[r].key])
    OBVIOUS
  <2> HIDE DEF d
  <2>3. /\ c \in Tips!Call /\ c.pc = "update" /\ c.fan = tipReq[r].fan /\ c.key = tipReq[r].key
        /\ c.entity = tipReq[r].entity /\ c.differs = d
    BY <1>3, <2>1, <2>2 DEF Tips!Call
  <2> HIDE DEF c
  <2>4. tipReq'[r] = c
    BY <2>1, TipsShape
  <2>5. ~d => status[tipReq[r].key] \in Tips!Final
    BY <1>3, <2>1, <2>2
  <2>6. TipCallOK(r)'
    BY <1>3, <2>1, <2>3, <2>4, <2>5 DEF TipCallOK
  <2> QED
    BY <2>1, <2>3, <2>6, TipMoves
<1>8. CASE UNCHANGED Tips!vars
  BY <1>8 DEF Tips!vars, TipsOK, Tips!TypeOK, TipCallOK, AuditTrue, Tips!AuditTrue
<1>9. "completed" \in Tips!Final
  BY DEF Tips!Final
<1> QED
  BY <1>1, <1>2, <1>4, <1>5, <1>6, <1>7, <1>8, <1>9, TipSave, TipWriteLog, TipCrash DEF Tips!Next

(* Without overlap the audit log says of a tip nothing that did not        *)
(* happen, and nothing twice, however often its calls are repeated.        *)
THEOREM AuditTheorem == Tips!Spec => []AuditTrue
<1>1. TipsOK => AuditTrue
  BY DEF TipsOK
<1> QED
  BY <1>1, TipsInit, TipsStep, PTL DEF Tips!Spec

(***************************************************************************)
(* Tips implements TipLife                                                 *)
(***************************************************************************)

(* A call past its read, and what it will decide *)
Past(c) == c.pc \in {"select", "update"}
Decision(c) == <<c.key, c.fan, c.entity>>

(* What is being decided, call by call *)
LEMMA DecidingIs ==
  /\ \A d : d \in Tips!deciding <=> \E q \in TipRequests : Past(tipReq[q]) /\ d = Decision(tipReq[q])
  /\ \A d : d \in Tips!deciding' <=> \E q \in TipRequests : Past(tipReq'[q]) /\ d = Decision(tipReq'[q])
  BY DEF Tips!deciding, Past, Decision

(* What a step of one call does to what is being decided *)
LEMMA DecidingMoves ==
  ASSUME TipsOK, NEW r \in TipRequests, NEW c \in Tips!Call, tipReq' = [tipReq EXCEPT ![r] = c]
  PROVE  /\ ~Past(tipReq[r]) /\ ~Past(c) => Tips!deciding' = Tips!deciding
         /\ ~Past(tipReq[r]) /\ Past(c) => Tips!deciding' = Tips!deciding \cup {Decision(c)}
         /\ Past(tipReq[r]) /\ Past(c) /\ Decision(c) = Decision(tipReq[r]) =>
              Tips!deciding' = Tips!deciding
         /\ Past(tipReq[r]) /\ ~Past(c) =>
              Tips!deciding' \in {Tips!deciding, Tips!deciding \ {Decision(tipReq[r])}}
<1>1. tipReq'[r] = c /\ \A q \in TipRequests \ {r} : tipReq'[q] = tipReq[q]
  BY TipsShape
<1> DEFINE D == Tips!deciding
           E == Tips!deciding'
<1>2. /\ \A d : d \in D <=> \E q \in TipRequests : Past(tipReq[q]) /\ d = Decision(tipReq[q])
      /\ \A d : d \in E <=> \E q \in TipRequests : Past(tipReq'[q]) /\ d = Decision(tipReq'[q])
  BY DecidingIs
<1> HIDE DEF D, E
<1>3. \A d : d # Decision(c) /\ d # Decision(tipReq[r]) => (d \in E <=> d \in D)
  BY <1>1, <1>2
<1>4. ~Past(tipReq[r]) => \A d : d # Decision(c) => (d \in E <=> d \in D)
  BY <1>1, <1>2
<1>5. ~Past(c) => \A d : d # Decision(tipReq[r]) => (d \in E <=> d \in D)
  BY <1>1, <1>2
<1>6. CASE ~Past(tipReq[r]) /\ ~Past(c)
  <2>1. \A d : d \in E <=> d \in D
    BY <1>1, <1>2, <1>6
  <2> QED
    BY <1>6, <2>1 DEF D, E
<1>7. CASE ~Past(tipReq[r]) /\ Past(c)
  <2>1. Decision(c) \in E
    BY <1>1, <1>2, <1>7, Zenon
  <2>2. E = D \cup {Decision(c)}
    BY <1>4, <1>7, <2>1
  <2> QED
    BY <1>7, <2>2 DEF D, E
<1>8. CASE Past(tipReq[r]) /\ Past(c) /\ Decision(c) = Decision(tipReq[r])
  <2>1. Decision(c) \in E /\ Decision(c) \in D
    BY <1>1, <1>2, <1>8, Zenon
  <2>2. E = D
    BY <1>3, <1>8, <2>1
  <2> QED
    BY <1>8, <2>2 DEF D, E
<1>9. CASE Past(tipReq[r]) /\ ~Past(c)
  <2>1. Decision(tipReq[r]) \in D
    BY <1>2, <1>9, Zenon
  <2>2. E = D \/ E = D \ {Decision(tipReq[r])}
    BY <1>5, <1>9, <2>1
  <2> QED
    BY <1>9, <2>2 DEF D, E
<1> QED
  BY <1>6, <1>7, <1>8, <1>9

(* A step of a call that writes no tip is one that finds its own pending   *)
(* tip, or nothing to TipLife.                                             *)
LEMMA LifeRests ==
  ASSUME TipsOK, NEW r \in TipRequests, NEW c \in Tips!Call, tipReq' = [tipReq EXCEPT ![r] = c],
         UNCHANGED <<owner, status>>, ~Past(tipReq[r]),
         Past(c) => /\ c.key \in Keys /\ c.fan \in Fans /\ c.entity \in Tips!Final
                    /\ status[c.key] = "pending" /\ owner[c.key] = c.fan
  PROVE  [Tips!Life!Next]_(Tips!Life!lifeVars)
<1>1. CASE ~Past(c)
  BY <1>1, DecidingMoves DEF Tips!Life!lifeVars
<1>2. CASE Past(c)
  <2>1. Tips!Life!Find(c.key, c.fan, c.entity)
    BY <1>2, DecidingMoves DEF Tips!Life!Find, Decision
  <2> QED
    BY <1>2, <2>1 DEF Tips!Life!Next, Tips!Life!Final, Tips!Final
<1> QED
  BY <1>1, <1>2

(* The same of a call that goes on or ends *)
LEMMA LifeGoes ==
  ASSUME TipsOK, NEW r \in TipRequests, NEW c \in Tips!Call, ~Past(tipReq[r]),
         c.fan \in Fans, c.key \in Keys, c.entity \in Tips!Final,
         Tips!HaveTip(r, c) \/ Tips!confirmEntity(r, c) \/ Tips!Goto(r, [c EXCEPT !.pc = "raced"]),
         UNCHANGED <<owner, status>>
  PROVE  [Tips!Life!Next]_(Tips!Life!lifeVars)
<1>1. PICK step \in {"raced", "find", "select"} :
        \/ Tips!Goto(r, Tips!Idle)
        \/ /\ Tips!Goto(r, [c EXCEPT !.pc = step])
           /\ step = "select" => owner[c.key] = c.fan /\ status[c.key] = "pending"
  BY DEF Tips!HaveTip, Tips!confirmEntity
<1>2. CASE Tips!Goto(r, Tips!Idle)
  BY <1>2, TipFacts, LifeRests DEF Tips!Goto, Past
<1>3. CASE ~Tips!Goto(r, Tips!Idle)
  <2> DEFINE d == [c EXCEPT !.pc = step]
  <2>1. d \in Tips!Call /\ d.pc = step /\ d.fan = c.fan /\ d.key = c.key /\ d.entity = c.entity
    BY DEF Tips!Call
  <2>2. tipReq' = [tipReq EXCEPT ![r] = d] /\ (step = "select" => owner[c.key] = c.fan /\ status[c.key] = "pending")
    BY <1>1, <1>3 DEF Tips!Goto
  <2> HIDE DEF d
  <2>3. Past(d) => step = "select"
    BY <2>1 DEF Past
  <2> QED
    BY <2>1, <2>2, <2>3, LifeRests
<1> QED
  BY <1>2, <1>3

(* Each statement of the tip service is a step of TipLife: an insert gives *)
(* the tip, the read of a confirmation finds it, the save decides it, and  *)
(* the others change nothing of it.                                        *)
LEMMA LifeStep == TipsOK /\ [Tips!Next]_(Tips!vars) => [Tips!Life!Next]_(Tips!Life!lifeVars)
<1> SUFFICES ASSUME TipsOK, [Tips!Next]_(Tips!vars) PROVE [Tips!Life!Next]_(Tips!Life!lifeVars)
  OBVIOUS
<1>1. ASSUME NEW r \in TipRequests, NEW f \in Fans, NEW k \in Keys, NEW op \in {"intent", "shorthand"},
             NEW s \in Tips!Final, Tips!createIntent(r, f, k, op, s)
      PROVE  [Tips!Life!Next]_(Tips!Life!lifeVars)
  <2> DEFINE c == [pc |-> "insert", op |-> op, fan |-> f, key |-> k, entity |-> s, differs |-> FALSE]
  <2>1. c \in Tips!Call /\ c.pc = "insert" /\ c.fan = f /\ c.key = k /\ c.entity = s
    BY DEF Tips!Call
  <2>2. /\ Tips!Goto(r, c) \/ Tips!HaveTip(r, c)
        /\ UNCHANGED <<owner, status>> /\ ~Past(tipReq[r])
    BY <1>1 DEF Tips!createIntent, Tips!Rows, Past
  <2> HIDE DEF c
  <2>3. CASE Tips!Goto(r, c)
    BY <2>1, <2>2, <2>3, LifeRests DEF Tips!Goto, Past
  <2> QED
    BY <2>1, <2>2, <2>3, LifeGoes
<1>2. ASSUME NEW r \in TipRequests, NEW f \in Fans, NEW k \in Keys, NEW s \in Tips!Final,
             Tips!confirm(r, f, k, s)
      PROVE  [Tips!Life!Next]_(Tips!Life!lifeVars)
  <2> DEFINE c == [pc |-> "find", op |-> "confirm", fan |-> f, key |-> k, entity |-> s, differs |-> FALSE]
  <2>1. c \in Tips!Call /\ c.fan = f /\ c.key = k /\ c.entity = s
    BY DEF Tips!Call
  <2>2. Tips!confirmEntity(r, c) /\ UNCHANGED <<owner, status>> /\ ~Past(tipReq[r])
    BY <1>2 DEF Tips!confirm, Tips!Rows, Past
  <2> HIDE DEF c
  <2> QED
    BY <2>1, <2>2, LifeGoes
<1>3. \A r \in TipRequests : tipReq[r].pc # "idle" =>
        /\ tipReq[r] \in Tips!Call /\ tipReq[r].fan \in Fans /\ tipReq[r].key \in Keys
        /\ tipReq[r].entity \in Tips!Final /\ TipCallOK(r)
  BY TipsShape DEF TipCallOK
<1>4. ASSUME NEW r \in TipRequests, Tips!Insert(r) PROVE [Tips!Life!Next]_(Tips!Life!lifeVars)
  <2> DEFINE d == [tipReq[r] EXCEPT !.pc = "find"]
  <2>0. tipReq[r].pc = "insert" /\ ~Past(tipReq[r])
    BY <1>4 DEF Tips!Insert, Past
  <2>1. CASE owner[tipReq[r].key] # None
    BY <1>3, <1>4, <2>0, <2>1, LifeGoes DEF Tips!Insert
  <2>2. CASE owner[tipReq[r].key] = None
    <3>1. /\ owner' = [owner EXCEPT ![tipReq[r].key] = tipReq[r].fan]
          /\ status' = [status EXCEPT ![tipReq[r].key] = "pending"]
          /\ tipReq' = [tipReq EXCEPT ![r] = d] \/ tipReq' = [tipReq EXCEPT ![r] = Tips!Idle]
      BY <1>4, <2>2 DEF Tips!Insert, Tips!Goto
    <3>2. d \in Tips!Call /\ ~Past(d) /\ Tips!Idle \in Tips!Call /\ ~Past(Tips!Idle)
      BY <1>3, <2>0, TipFacts DEF Tips!Call, Past
    <3> HIDE DEF d
    <3>3. Tips!deciding' = Tips!deciding
      BY <2>0, <3>1, <3>2, DecidingMoves
    <3>4. Tips!Life!Give(tipReq[r].key, tipReq[r].fan)
      BY <1>3, <2>0, <2>2, <3>1, <3>3, TipsShape DEF Tips!Life!Give
    <3> QED
      BY <1>3, <2>0, <3>4 DEF Tips!Life!Next
  <2> QED
    BY <2>1, <2>2
<1>5. ASSUME NEW r \in TipRequests, Tips!RereadWinner(r) \/ Tips!FindTip(r)
      PROVE  [Tips!Life!Next]_(Tips!Life!lifeVars)
  <2>1. /\ tipReq[r].pc # "idle" /\ ~Past(tipReq[r]) /\ UNCHANGED <<owner, status>>
        /\ Tips!HaveTip(r, tipReq[r]) \/ Tips!confirmEntity(r, tipReq[r])
    BY <1>5 DEF Tips!RereadWinner, Tips!FindTip, Tips!Rows, Past
  <2> QED
    BY <1>3, <2>1, LifeGoes
<1>6. ASSUME NEW r \in TipRequests, Tips!SaveSelect(r) PROVE [Tips!Life!Next]_(Tips!Life!lifeVars)
  <2> DEFINE b == tipReq[r].entity # status[tipReq[r].key]
             d == [tipReq[r] EXCEPT !.pc = "update", !.differs = b]
  <2>1. tipReq[r].pc = "select" /\ tipReq' = [tipReq EXCEPT ![r] = d] /\ UNCHANGED <<owner, status>>
    BY <1>6 DEF Tips!SaveSelect, Tips!Goto, Tips!Rows
  <2>2. b \in BOOLEAN
    OBVIOUS
  <2> HIDE DEF b
  <2>3. d \in Tips!Call /\ Past(d) /\ Past(tipReq[r]) /\ Decision(d) = Decision(tipReq[r])
    BY <1>3, <2>1, <2>2 DEF Tips!Call, Past, Decision
  <2> HIDE DEF d
  <2>4. Tips!deciding' = Tips!deciding
    BY <2>1, <2>3, DecidingMoves
  <2> QED
    BY <2>1, <2>4 DEF Tips!Life!lifeVars
<1>7. ASSUME NEW r \in TipRequests, Tips!SaveUpdate(r) PROVE [Tips!Life!Next]_(Tips!Life!lifeVars)
  <2> DEFINE n == tipReq[r].key
             e == tipReq[r].entity
  <2>1. /\ tipReq[r].pc = "update" /\ tipReq' = [tipReq EXCEPT ![r] = Tips!Idle] /\ UNCHANGED owner
        /\ status' = IF tipReq[r].differs THEN [status EXCEPT ![n] = e] ELSE status
    BY <1>7 DEF Tips!SaveUpdate, Tips!Goto
  <2>2. n \in Keys /\ tipReq[r].fan \in Fans /\ e \in Tips!Final
        /\ (~tipReq[r].differs => status[n] \in Tips!Final)
    BY <1>3, <2>1 DEF TipCallOK
  <2>3. Past(tipReq[r]) /\ ~Past(Tips!Idle)
    BY <2>1, TipFacts DEF Past
  <2>4. Tips!deciding' \in {Tips!deciding, Tips!deciding \ {<<n, tipReq[r].fan, e>>}}
    BY <2>1, <2>3, TipFacts, DecidingMoves DEF Decision
  <2>5. <<n, tipReq[r].fan, e>> \in Tips!deciding
    BY <2>3, DecidingIs DEF Decision
  <2>6. Tips!Life!Decide(n, tipReq[r].fan, e)
    BY <2>1, <2>2, <2>4, <2>5 DEF Tips!Life!Decide, Tips!Life!Final, Tips!Final
  <2> QED
    BY <2>2, <2>6 DEF Tips!Life!Next, Tips!Life!Final, Tips!Final
<1>8. ASSUME NEW x \in Keys \X Tips!Actions, Tips!WriteLog(x) PROVE [Tips!Life!Next]_(Tips!Life!lifeVars)
  BY <1>8 DEF Tips!WriteLog, Tips!Life!lifeVars, Tips!deciding
<1>9. CASE Tips!Crash
  <2>1. \A q \in TipRequests : ~Past(tipReq'[q])
    BY <1>9, TipFacts DEF Tips!Crash, Past
  <2>2. Tips!deciding' = {}
    BY <2>1, DecidingIs
  <2> QED
    BY <1>9, <2>2 DEF Tips!Crash, Tips!Life!Next, Tips!Life!Forget
<1>10. CASE UNCHANGED Tips!vars
  BY <1>10 DEF Tips!vars, Tips!Life!lifeVars, Tips!deciding
<1>11. "completed" \in Tips!Final
  BY DEF Tips!Final
<1> QED
  BY <1>1, <1>2, <1>4, <1>5, <1>6, <1>7, <1>8, <1>9, <1>10, <1>11 DEF Tips!Next

(* The tip service implements TipLife: however calls of any fans race,     *)
(* repeat and are lost, a tip stays its fan's and is decided only by calls *)
(* of that fan which found it pending.                                     *)
THEOREM OutcomeTheorem == Tips!Spec => OutcomesImplemented
<1>1. Tips!Init => Tips!Life!Init
  BY TipFacts DEF Tips!Init, Tips!Life!Init, Tips!deciding
<1> QED
  BY <1>1, TipsInit, TipsStep, LifeStep, PTL
     DEF Tips!Spec, OutcomesImplemented, Tips!OutcomesImplemented, Tips!Life!Spec

(* Of TipLife alone: no action changes an outcome nobody is deciding. *)
LEMMA SettledStep ==
  ASSUME NEW k \in Keys, NEW s, Tips!Life!Settled(k, s), status \in [Keys -> {"none", "pending"} \cup Tips!Final],
         [Tips!Life!Next]_(Tips!Life!lifeVars)
  PROVE  Tips!Life!Settled(k, s)'
<1>1. ASSUME NEW j \in Keys, NEW f \in Fans, Tips!Life!Give(j, f) PROVE Tips!Life!Settled(k, s)'
  BY <1>1 DEF Tips!Life!Give, Tips!Life!Settled, Tips!Life!Final
<1>2. ASSUME NEW j \in Keys, NEW f \in Fans, NEW o \in Tips!Life!Final, Tips!Life!Find(j, f, o)
      PROVE  Tips!Life!Settled(k, s)'
  BY <1>2 DEF Tips!Life!Find, Tips!Life!Settled, Tips!Life!Final
<1>3. ASSUME NEW j \in Keys, NEW f \in Fans, NEW o \in Tips!Life!Final, Tips!Life!Decide(j, f, o)
      PROVE  Tips!Life!Settled(k, s)'
  <2>1. j # k
    BY <1>3 DEF Tips!Life!Decide, Tips!Life!Settled
  <2> QED
    BY <1>3, <2>1 DEF Tips!Life!Decide, Tips!Life!Settled
<1>4. CASE Tips!Life!Forget
  BY <1>4 DEF Tips!Life!Forget, Tips!Life!Settled
<1>5. CASE UNCHANGED Tips!Life!lifeVars
  BY <1>5 DEF Tips!Life!lifeVars, Tips!Life!Settled
<1> QED
  BY <1>1, <1>2, <1>3, <1>4, <1>5 DEF Tips!Life!Next

(* An outcome stands for good once no call that found the tip pending is   *)
(* on its way: no repeated, late or conflicting call, and no restart,      *)
(* changes it.                                                             *)
THEOREM OutcomeStands ==
  ASSUME NEW k \in Keys, NEW s \in {"completed", "failed"}
  PROVE  Tips!Spec => []( /\ status[k] = s
                          /\ \A r \in TipRequests : tipReq[r].key = k => tipReq[r].pc \notin {"select", "update"}
                          => [](status[k] = s))
<1> DEFINE Rests == /\ status[k] = s
                    /\ \A r \in TipRequests : tipReq[r].key = k => tipReq[r].pc \notin {"select", "update"}
           Stands == status[k] = s
           Settled == Tips!Life!Settled(k, s)
<1>1. Rests => Settled
  BY DecidingIs DEF Tips!Life!Settled, Tips!Life!Final, Past, Decision
<1>2. Settled => Stands
  BY DEF Tips!Life!Settled
<1>3. TipsOK /\ Settled /\ [Tips!Life!Next]_(Tips!Life!lifeVars) => Settled'
  BY TipsShape, SettledStep
<1>4. Tips!Spec => [][Tips!Life!Next]_(Tips!Life!lifeVars)
  BY OutcomeTheorem DEF OutcomesImplemented, Tips!OutcomesImplemented, Tips!Life!Spec
<1> HIDE DEF Rests, Stands, Settled
<1>5. Tips!Spec => [](Rests => []Stands)
  BY <1>1, <1>2, <1>3, <1>4, TipsInit, TipsStep, PTL DEF Tips!Spec
<1> QED
  BY <1>5 DEF Rests, Stands

-----------------------------------------------------------------------------
(* Rows and calls of messages and tips keep their shape. *)
THEOREM PairTypes == PairSpec => []PairTypeOK
<1>1. PairInit => RowsOK /\ CallsOK /\ TipsOK
  BY ShapeInit, TipsInit DEF PairInit
<1>2. [PairNext]_<<service, vars, tipVars, feeVars>> => [Next]_vars /\ [Tips!Next]_(Tips!vars)
  BY DEF PairNext, tipVars, Tips!vars
<1>3. RowsOK /\ CallsOK /\ TipsOK => PairTypeOK
  BY Typed DEF TipsOK, PairTypeOK
<1> QED
  BY <1>1, <1>2, <1>3, ShapeStep, TipsStep, PTL DEF PairSpec

(* Beside one another messages, tips and fees keep what each keeps alone.  *)
THEOREM PairSafe ==
  PairSpec => /\ [](SentOnce /\ SummaryFollows /\ NoHoles /\ AuditTrue /\ FeeSplits)
              /\ OutcomesImplemented
<1>1. PairInit => Init /\ Tips!Init /\ FeeInit
  BY DEF PairInit
<1>2. [PairNext]_<<service, vars, tipVars, feeVars>> =>
        [Next]_vars /\ [Tips!Next]_(Tips!vars) /\ [FeeNext]_feeVars
  BY DEF PairNext, tipVars, Tips!vars
<1>3. PairSpec => Spec /\ Tips!Spec /\ FeeSpec
  BY <1>1, <1>2, PTL DEF PairSpec, Spec, Tips!Spec, FeeSpec
<1>4. FeeSpec => []FeeSplits
  BY SplitTheorem, PairAssumption
<1> QED
  BY <1>3, <1>4, SentOnceTheorem, SummaryTheorem, NoHolesTheorem, AuditTheorem, OutcomeTheorem, PTL
=============================================================================
