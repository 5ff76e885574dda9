--------------------------- MODULE ServicesProofs ---------------------------
(***************************************************************************)
(* Proofs about the small services, under their names in MCServices, for   *)
(* any number of calls in flight, limit, window, page and bound.           *)
(***************************************************************************)
EXTENDS MCServices, FiniteSetTheorems, TLAPS

-----------------------------------------------------------------------------
(***************************************************************************)
(* Avatar uploads                                                          *)
(***************************************************************************)

(* The URL of an upload in flight is its own until it is saved: no other   *)
(* call holds it, so nobody else deletes its file or saves it.  Its file   *)
(* is there once it is written, and the old one is not once deleted.       *)
Private(r) ==
  LET c == avatarReq[r] IN
  /\ c.url \in 1..uploads /\ c.url # avatarUrl /\ c.url # c.old
  /\ \A q \in Requests \ {r} : c.url # avatarReq[q].url /\ c.url # avatarReq[q].old
  /\ c.url \in files <=> c.pc \in {"select", "update"}
  /\ c.pc # "delete" => c.old \notin files
  /\ c.pc = "update" => c.differs

AvatarCalls ==
  \A r \in Requests :
    /\ avatarReq[r].url \in 0..uploads \cup Elsewhere
    /\ avatarReq[r].old \in 0..uploads \cup Elsewhere
    /\ avatarReq[r].pc \in {"delete", "save"} => avatarReq[r].op = "upload"
    /\ r \in AvatarUpload!Uploading => Private(r)

AvatarOK == AvatarUpload!TypeOK /\ AvatarCalls /\ FilesFollowAvatar

(* An idle call, and the constants *)
LEMMA AvatarFacts ==
  /\ AvatarUpload!Idle \in AvatarUpload!Call /\ MaxUploads \in Nat /\ Elsewhere \cap Nat = {}
  /\ AvatarUpload!Idle.pc = "idle" /\ AvatarUpload!Idle.url = 0 /\ AvatarUpload!Idle.old = 0
  BY ServicesAssumption DEF AvatarUpload!AvatarUploadAssumption, AvatarUpload!Idle, AvatarUpload!Call,
     AvatarUpload!Urls

(* There are no files of the user at the start. *)
LEMMA AvatarInit == AvatarUpload!Init => AvatarOK
<1> SUFFICES ASSUME AvatarUpload!Init PROVE AvatarOK
  OBVIOUS
<1>1. avatarReq \in [Requests -> AvatarUpload!Call] /\ \A r \in Requests : avatarReq[r] = AvatarUpload!Idle
  BY AvatarFacts DEF AvatarUpload!Init
<1>2. AvatarUpload!Uploading = {}
  BY <1>1, AvatarFacts DEF AvatarUpload!Uploading
<1>3. /\ avatarUrl = 0 /\ uploads = 0 /\ files \subseteq Elsewhere /\ strays = {} /\ unsure = FALSE
      /\ 0 \in 0..0 /\ 0 \in 0..MaxUploads
  BY AvatarFacts DEF AvatarUpload!Init
<1>4. AvatarUpload!TypeOK
  BY <1>1, <1>3 DEF AvatarUpload!TypeOK
<1>5. AvatarCalls
  BY <1>1, <1>2, <1>3, AvatarFacts DEF AvatarCalls
<1>6. FilesFollowAvatar
  BY <1>3 DEF FilesFollowAvatar, AvatarUpload!FilesFollowAvatar
<1> QED
  BY <1>4, <1>5, <1>6 DEF AvatarOK

(* A step of one call leaves the others as they are. *)
LEMMA AvatarGoes ==
  ASSUME AvatarOK, NEW r \in Requests, NEW c \in AvatarUpload!Call,
         avatarReq' = [avatarReq EXCEPT ![r] = c]
  PROVE  /\ avatarReq' \in [Requests -> AvatarUpload!Call]
         /\ avatarReq'[r] = c
         /\ \A q \in Requests \ {r} : avatarReq'[q] = avatarReq[q]
         /\ AvatarUpload!Uploading' = (AvatarUpload!Uploading \ {r}) \cup
              (IF c.pc # "idle" /\ c.op = "upload" THEN {r} ELSE {})
<1>1. avatarReq \in [Requests -> AvatarUpload!Call]
  BY DEF AvatarOK, AvatarUpload!TypeOK
<1>2. /\ avatarReq' \in [Requests -> AvatarUpload!Call] /\ avatarReq'[r] = c
      /\ \A q \in Requests \ {r} : avatarReq'[q] = avatarReq[q]
  BY <1>1
<1>3. AvatarUpload!Uploading' = {q \in Requests : avatarReq'[q].pc # "idle" /\ avatarReq'[q].op = "upload"}
  BY DEF AvatarUpload!Uploading
<1> QED
  BY <1>2, <1>3 DEF AvatarUpload!Uploading

(* A call begins to save a URL that is no upload's in flight. *)
LEMMA AvatarEdits ==
  ASSUME AvatarOK, NEW r \in Requests, NEW url \in 0..uploads \cup Elsewhere,
         \A q \in AvatarUpload!Uploading : avatarReq[q].url # url,
         AvatarUpload!Begin(r, [AvatarUpload!Idle EXCEPT !.pc = "select", !.url = url]),
         UNCHANGED uploads
  PROVE  AvatarOK'
<1> DEFINE c == [AvatarUpload!Idle EXCEPT !.pc = "select", !.url = url]
<1>1. uploads \in 0..MaxUploads /\ url \in AvatarUpload!Urls
  BY AvatarFacts DEF AvatarOK, AvatarUpload!TypeOK, AvatarUpload!Urls
<1>2. c \in AvatarUpload!Call /\ c.pc = "select" /\ c.op = "edit" /\ c.url = url /\ c.old = 0
  BY <1>1, AvatarFacts DEF AvatarUpload!Call, AvatarUpload!Idle
<1>3. /\ avatarReq' = [avatarReq EXCEPT ![r] = c] /\ avatarReq[r].pc = "idle"
      /\ UNCHANGED <<avatarUrl, files, uploads, strays, unsure>>
  BY DEF AvatarUpload!Begin
<1> HIDE DEF c
<1>4. /\ avatarReq' \in [Requests -> AvatarUpload!Call] /\ avatarReq'[r] = c
      /\ \A q \in Requests \ {r} : avatarReq'[q] = avatarReq[q]
      /\ AvatarUpload!Uploading' = AvatarUpload!Uploading /\ r \notin AvatarUpload!Uploading
  <2>1. r \notin AvatarUpload!Uploading
    BY <1>3 DEF AvatarUpload!Uploading
  <2>2. /\ avatarReq' \in [Requests -> AvatarUpload!Call] /\ avatarReq'[r] = c
        /\ \A q \in Requests \ {r} : avatarReq'[q] = avatarReq[q]
        /\ AvatarUpload!Uploading' = (AvatarUpload!Uploading \ {r}) \cup
             (IF c.pc # "idle" /\ c.op = "upload" THEN {r} ELSE {})
    BY <1>2, <1>3, AvatarGoes
  <2> QED
    BY <1>2, <2>1, <2>2
<1>5. AvatarUpload!TypeOK'
  BY <1>3, <1>4 DEF AvatarOK, AvatarUpload!TypeOK
<1>6. ASSUME NEW q \in AvatarUpload!Uploading PROVE Private(q)'
  <2>1. q \in Requests /\ q # r /\ Private(q)
    BY <1>4 DEF AvatarOK, AvatarCalls, AvatarUpload!Uploading
  <2>2. avatarReq[q].url # url /\ avatarReq[q].url # 0
    <3>1. uploads \in Nat
      BY <1>1, AvatarFacts
    <3> QED
      BY <2>1, <3>1 DEF Private
  <2>3. avatarReq'[q] = avatarReq[q]
    BY <1>4, <2>1
  <2>4. \A o \in Requests \ {q} : avatarReq[q].url # avatarReq'[o].url /\ avatarReq[q].url # avatarReq'[o].old
    BY <1>2, <1>4, <2>1, <2>2 DEF Private
  <2> QED
    BY <1>3, <2>1, <2>3, <2>4 DEF Private
<1>7. AvatarCalls'
  <2>1. 0 \in 0..uploads
    BY <1>1, AvatarFacts
  <2> QED
    BY <1>2, <1>3, <1>4, <1>6, <2>1 DEF AvatarOK, AvatarCalls
<1>8. FilesFollowAvatar'
  <2>1. \A q \in AvatarUpload!Uploading : avatarReq'[q] = avatarReq[q]
    BY <1>4 DEF AvatarUpload!Uploading
  <2> QED
    BY <1>3, <1>4, <2>1 DEF AvatarOK, FilesFollowAvatar, AvatarUpload!FilesFollowAvatar
<1> QED
  BY <1>5, <1>7, <1>8 DEF AvatarOK

(* A call goes on to its next statement, which may be on the files.        *)
LEMMA AvatarWorks ==
  ASSUME AvatarOK, NEW r \in Requests,
         \/ AvatarUpload!DeleteOld(r) \/ AvatarUpload!SaveFile(r) \/ AvatarUpload!SaveSelect(r)
  PROVE  AvatarOK'
<1> DEFINE d == avatarReq[r]
<1>1. /\ d \in AvatarUpload!Call /\ avatarReq \in [Requests -> AvatarUpload!Call]
      /\ files \subseteq 1..uploads \cup Elsewhere /\ strays \subseteq 1..uploads
  BY DEF AvatarOK, AvatarUpload!TypeOK
<1>2. PICK c \in AvatarUpload!Call :
        /\ avatarReq' = [avatarReq EXCEPT ![r] = c]
        /\ c.url = d.url /\ c.old = d.old /\ c.op = d.op /\ c.pc \in {"save", "select", "update"}
        /\ \/ /\ d.pc = "delete" /\ c.pc = "save" /\ files' = files \ {d.old} /\ strays' = strays \ {d.old}
           \/ d.pc = "save" /\ c.pc = "select" /\ files' = files \cup {d.url} /\ strays' = strays
           \/ /\ d.pc = "select" /\ c.pc = "update" /\ files' = files /\ strays' = strays
              /\ c.differs = (d.url # avatarUrl)
  <2>1. CASE AvatarUpload!DeleteOld(r)
    <3> DEFINE c == [d EXCEPT !.pc = "save"]
    <3>1. c \in AvatarUpload!Call /\ c.pc = "save" /\ c.url = d.url /\ c.old = d.old /\ c.op = d.op
      BY <1>1 DEF AvatarUpload!Call
    <3>2. avatarReq' = [avatarReq EXCEPT ![r] = c]
      BY <1>1, <2>1 DEF AvatarUpload!DeleteOld, AvatarUpload!Goto
    <3> HIDE DEF c
    <3> QED
      BY <2>1, <3>1, <3>2 DEF AvatarUpload!DeleteOld
  <2>2. CASE AvatarUpload!SaveFile(r)
    <3> DEFINE c == [d EXCEPT !.pc = "select"]
    <3>1. c \in AvatarUpload!Call /\ c.pc = "select" /\ c.url = d.url /\ c.old = d.old /\ c.op = d.op
      BY <1>1 DEF AvatarUpload!Call
    <3>2. avatarReq' = [avatarReq EXCEPT ![r] = c]
      BY <1>1, <2>2 DEF AvatarUpload!SaveFile, AvatarUpload!Goto
    <3> HIDE DEF c
    <3> QED
      BY <2>2, <3>1, <3>2 DEF AvatarUpload!SaveFile
  <2>3. CASE AvatarUpload!SaveSelect(r)
    <3> DEFINE c == [d EXCEPT !.pc = "update", !.differs = d.url # avatarUrl]
    <3>1. /\ c \in AvatarUpload!Call /\ c.pc = "update" /\ c.url = d.url /\ c.old = d.old /\ c.op = d.op
          /\ c.differs = (d.url # avatarUrl)
      BY <1>1 DEF AvatarUpload!Call
    <3>2. avatarReq' = [avatarReq EXCEPT ![r] = c]
      BY <1>1, <2>3 DEF AvatarUpload!SaveSelect
    <3> HIDE DEF c
    <3> QED
      BY <2>3, <3>1, <3>2 DEF AvatarUpload!SaveSelect
  <2> QED
    BY <2>1, <2>2, <2>3
<1>3. UNCHANGED <<avatarUrl, uploads, unsure>>
  BY DEF AvatarUpload!DeleteOld, AvatarUpload!SaveFile, AvatarUpload!SaveSelect, AvatarUpload!Goto
<1>4. /\ avatarReq' \in [Requests -> AvatarUpload!Call] /\ avatarReq'[r] = c
      /\ \A q \in Requests \ {r} : avatarReq'[q] = avatarReq[q]
      /\ AvatarUpload!Uploading' = AvatarUpload!Uploading
  <2>1. r \in AvatarUpload!Uploading <=> d.op = "upload"
    BY <1>2 DEF AvatarUpload!Uploading
  <2>2. /\ avatarReq' \in [Requests -> AvatarUpload!Call] /\ avatarReq'[r] = c
        /\ \A q \in Requests \ {r} : avatarReq'[q] = avatarReq[q]
        /\ AvatarUpload!Uploading' = (AvatarUpload!Uploading \ {r}) \cup
             (IF c.pc # "idle" /\ c.op = "upload" THEN {r} ELSE {})
    BY <1>2, AvatarGoes
  <2>3. c.pc # "idle"
    BY <1>2
  <2> QED
    BY <1>2, <2>1, <2>2, <2>3
<1>5. /\ d.pc \in {"delete", "save"} => r \in AvatarUpload!Uploading
      /\ r \in AvatarUpload!Uploading => Private(r)
  BY <1>2 DEF AvatarOK, AvatarCalls, AvatarUpload!Uploading
<1>6. AvatarUpload!TypeOK'
  <2>1. files' \subseteq 1..uploads \cup Elsewhere
    BY <1>1, <1>2, <1>5 DEF Private
  <2> QED
    BY <1>1, <1>2, <1>3, <1>4, <2>1 DEF AvatarOK, AvatarUpload!TypeOK
<1>7. \A q \in Requests :
        /\ avatarReq'[q].url = avatarReq[q].url /\ avatarReq'[q].old = avatarReq[q].old
        /\ avatarReq'[q].op = avatarReq[q].op
  BY <1>2, <1>4
<1>8. ASSUME NEW q \in AvatarUpload!Uploading PROVE Private(q)'
  <2>1. q \in Requests /\ Private(q)
    BY DEF AvatarOK, AvatarCalls, AvatarUpload!Uploading
  <2>2. \A o \in Requests \ {q} : avatarReq'[q].url # avatarReq'[o].url /\ avatarReq'[q].url # avatarReq'[o].old
    BY <1>7, <2>1 DEF Private
  <2>3. CASE q = r
    <3>1. d.url \in files <=> d.pc \in {"select", "update"}
      BY <1>5, <2>3 DEF Private
    <3>2. c.url \in files' <=> c.pc \in {"select", "update"}
      BY <1>2, <1>5, <2>3, <3>1 DEF Private
    <3>3. c.old \notin files'
      BY <1>2, <1>5, <2>3 DEF Private
    <3>4. c.pc = "update" => c.differs
      BY <1>2, <1>5, <2>3 DEF Private
    <3> QED
      BY <1>2, <1>3, <1>4, <1>5, <2>2, <2>3, <3>2, <3>3, <3>4 DEF Private
  <2>4. CASE q # r
    <3>1. avatarReq'[q] = avatarReq[q]
      BY <1>4, <2>1, <2>4
    <3>2. avatarReq[q].url # d.url /\ avatarReq[q].url # d.old
      BY <2>1, <2>4 DEF Private
    <3>3. d.pc = "save" => avatarReq[q].old # d.url
      BY <1>5, <2>1, <2>4 DEF Private
    <3> QED
      BY <1>2, <1>3, <2>1, <2>2, <3>1, <3>2, <3>3 DEF Private
  <2> QED
    BY <2>3, <2>4
<1>9. AvatarCalls'
  BY <1>2, <1>3, <1>4, <1>7, <1>8 DEF AvatarOK, AvatarCalls, AvatarUpload!Uploading
<1>10. FilesFollowAvatar'
  <2>1. {avatarReq'[q].url : q \in AvatarUpload!Uploading} = {avatarReq[q].url : q \in AvatarUpload!Uploading}
    BY <1>7 DEF AvatarUpload!Uploading
  <2>2. files' \ Elsewhere \subseteq
          {avatarUrl} \cup strays' \cup {avatarReq'[q].url : q \in AvatarUpload!Uploading}
    <3>1. files \ Elsewhere \subseteq {avatarUrl} \cup strays \cup {avatarReq[q].url : q \in AvatarUpload!Uploading}
      BY DEF AvatarOK, FilesFollowAvatar, AvatarUpload!FilesFollowAvatar
    <3>2. d.pc = "save" => d.url \in {avatarReq[q].url : q \in AvatarUpload!Uploading}
      BY <1>5
    <3> QED
      BY <1>2, <2>1, <3>1, <3>2
  <2>3. ASSUME avatarUrl \notin files' \cup {0}, ~unsure
        PROVE  \E q \in AvatarUpload!Uploading : avatarReq'[q].pc # "delete" /\ avatarReq'[q].old = avatarUrl
    <3>1. CASE avatarUrl \notin files
      <4>1. PICK q \in AvatarUpload!Uploading : avatarReq[q].pc # "delete" /\ avatarReq[q].old = avatarUrl
        BY <2>3, <3>1 DEF AvatarOK, FilesFollowAvatar, AvatarUpload!FilesFollowAvatar
      <4>2. q \in Requests /\ avatarReq'[q].old = avatarUrl /\ avatarReq'[q].pc # "delete"
        BY <1>2, <1>4, <1>7, <4>1 DEF AvatarUpload!Uploading
      <4> QED
        BY <4>2
    <3>2. CASE avatarUrl \in files
      <4>1. d.pc = "delete" /\ d.old = avatarUrl /\ c.pc = "save"
        BY <1>2, <2>3, <3>2
      <4> QED
        BY <1>2, <1>4, <1>5, <4>1
    <3> QED
      BY <3>1, <3>2
  <2> QED
    BY <1>3, <1>4, <2>2, <2>3 DEF FilesFollowAvatar, AvatarUpload!FilesFollowAvatar
<1> QED
  BY <1>6, <1>9, <1>10 DEF AvatarOK

(* A call saves the URL or dies, and is idle again.                        *)
LEMMA AvatarEnds ==
  ASSUME AvatarOK, NEW r \in Requests, AvatarUpload!SaveUpdate(r) \/ AvatarUpload!Die(r)
  PROVE  AvatarOK'
<1> DEFINE d == avatarReq[r]
<1>1. /\ d \in AvatarUpload!Call /\ avatarReq \in [Requests -> AvatarUpload!Call]
      /\ files \subseteq 1..uploads \cup Elsewhere /\ strays \subseteq 1..uploads
      /\ avatarUrl \in 0..uploads \cup Elsewhere /\ uploads \in 0..MaxUploads /\ unsure \in BOOLEAN
  BY DEF AvatarOK, AvatarUpload!TypeOK
<1>2. /\ avatarReq' = [avatarReq EXCEPT ![r] = AvatarUpload!Idle] /\ d.pc # "idle"
      /\ files' = files /\ uploads' = uploads
  BY DEF AvatarUpload!SaveUpdate, AvatarUpload!Die
<1>3. /\ avatarReq' \in [Requests -> AvatarUpload!Call] /\ avatarReq'[r] = AvatarUpload!Idle
      /\ \A q \in Requests \ {r} : avatarReq'[q] = avatarReq[q]
      /\ AvatarUpload!Uploading' = AvatarUpload!Uploading \ {r}
  <2>1. AvatarUpload!Uploading' = (AvatarUpload!Uploading \ {r}) \cup
          (IF AvatarUpload!Idle.pc # "idle" /\ AvatarUpload!Idle.op = "upload" THEN {r} ELSE {})
    BY <1>2, AvatarFacts, AvatarGoes
  <2> QED
    BY <1>2, <2>1, AvatarFacts, AvatarGoes
<1>4. /\ d.op = "upload" <=> r \in AvatarUpload!Uploading
      /\ r \in AvatarUpload!Uploading => Private(r)
      /\ d.url \in 0..uploads \cup Elsewhere
  BY <1>2 DEF AvatarOK, AvatarCalls, AvatarUpload!Uploading
<1>5. avatarUrl' \in {avatarUrl, d.url}
  BY DEF AvatarUpload!SaveUpdate, AvatarUpload!Die
<1>6. AvatarUpload!TypeOK'
  <2>1. strays' \subseteq 1..uploads
    BY <1>1, <1>4 DEF AvatarUpload!SaveUpdate, AvatarUpload!Die, Private
  <2>2. unsure' \in BOOLEAN
    BY <1>1 DEF AvatarUpload!SaveUpdate, AvatarUpload!Die
  <2> QED
    BY <1>1, <1>2, <1>3, <1>4, <1>5, <2>1, <2>2 DEF AvatarUpload!TypeOK
<1>7. AvatarCalls'
  <2>1. 0 \in 0..uploads
    BY <1>1, AvatarFacts
  <2>2. ASSUME NEW q \in AvatarUpload!Uploading \ {r} PROVE Private(q)'
    <3>1. q \in Requests \ {r} /\ Private(q) /\ avatarReq'[q] = avatarReq[q]
      BY <1>3 DEF AvatarOK, AvatarCalls, AvatarUpload!Uploading
    <3>2. avatarReq[q].url # d.url /\ avatarReq[q].url # 0
      BY <1>1, <3>1, AvatarFacts DEF Private
    <3>3. avatarReq[q].url # avatarUrl'
      BY <1>5, <3>1, <3>2 DEF Private
    <3>4. \A o \in Requests \ {q} : avatarReq[q].url # avatarReq'[o].url /\ avatarReq[q].url # avatarReq'[o].old
      BY <1>3, <3>1, <3>2, AvatarFacts DEF Private
    <3> QED
      BY <1>2, <3>1, <3>3, <3>4 DEF Private
  <2> QED
    BY <1>2, <1>3, <2>1, <2>2, AvatarFacts DEF AvatarOK, AvatarCalls
<1>8. /\ files \ Elsewhere \subseteq {avatarUrl} \cup strays \cup {avatarReq[q].url : q \in AvatarUpload!Uploading}
      /\ avatarUrl \notin files \cup {0} =>
           unsure \/ \E q \in AvatarUpload!Uploading : avatarReq[q].pc # "delete" /\ avatarReq[q].old = avatarUrl
  BY DEF AvatarOK, FilesFollowAvatar, AvatarUpload!FilesFollowAvatar
<1>9. \A q \in AvatarUpload!Uploading \ {r} : avatarReq'[q] = avatarReq[q]
  BY <1>3 DEF AvatarUpload!Uploading
<1>10. files \ Elsewhere \subseteq
         {avatarUrl'} \cup strays' \cup {avatarReq'[q].url : q \in AvatarUpload!Uploading \ {r}}
  <2> SUFFICES ASSUME NEW f \in files \ Elsewhere, f \notin strays', f # avatarUrl'
               PROVE  f \in {avatarReq'[q].url : q \in AvatarUpload!Uploading \ {r}}
    OBVIOUS
  <2>1. strays \subseteq strays' /\ f \notin strays /\ f \in 1..uploads
    BY <1>1 DEF AvatarUpload!SaveUpdate, AvatarUpload!Die
  <2>2. f # avatarUrl
    <3>1. CASE AvatarUpload!SaveUpdate(r)
      <4>1. SUFFICES ASSUME f = avatarUrl PROVE FALSE
        OBVIOUS
      <4>2. avatarUrl' # avatarUrl /\ d.op = "upload" /\ d.old = avatarUrl /\ d.pc = "update"
        BY <2>1, <3>1, <4>1 DEF AvatarUpload!SaveUpdate
      <4> QED
        BY <1>4, <4>1, <4>2 DEF Private
    <3>2. CASE AvatarUpload!Die(r)
      BY <3>2 DEF AvatarUpload!Die
    <3> QED
      BY <3>1, <3>2
  <2>3. PICK q \in AvatarUpload!Uploading : f = avatarReq[q].url
    BY <1>8, <2>1, <2>2
  <2>4. q # r
    <3>1. SUFFICES ASSUME q = r PROVE FALSE
      OBVIOUS
    <3>2. d.op = "upload" /\ Private(r) /\ d.url \in files /\ d.pc \in {"select", "update"}
      BY <1>4, <2>3, <3>1 DEF Private
    <3>3. CASE AvatarUpload!SaveUpdate(r)
      BY <2>3, <3>1, <3>2, <3>3 DEF AvatarUpload!SaveUpdate, Private
    <3>4. CASE AvatarUpload!Die(r)
      BY <2>1, <2>3, <3>1, <3>2, <3>4 DEF AvatarUpload!Die
    <3> QED
      BY <3>3, <3>4
  <2> QED
    BY <1>9, <2>3, <2>4
<1>11. ASSUME avatarUrl' \notin files \cup {0}, ~unsure'
       PROVE  \E q \in AvatarUpload!Uploading \ {r} :
                avatarReq'[q].pc # "delete" /\ avatarReq'[q].old = avatarUrl'
  <2>1. CASE AvatarUpload!SaveUpdate(r)
    <3>1. CASE d.op = "upload"
      <4>1. avatarUrl' = d.url /\ d.url \in files
        BY <1>4, <2>1, <3>1 DEF AvatarUpload!SaveUpdate, Private
      <4> QED
        BY <1>11, <4>1
    <3>2. CASE d.op # "upload"
      <4>1. avatarUrl' = avatarUrl /\ ~unsure /\ r \notin AvatarUpload!Uploading
        BY <1>4, <1>11, <2>1, <3>2 DEF AvatarUpload!SaveUpdate
      <4> QED
        BY <1>8, <1>9, <1>11, <4>1
    <3> QED
      BY <3>1, <3>2
  <2>2. CASE AvatarUpload!Die(r)
    <3>1. avatarUrl' = avatarUrl /\ ~unsure /\ ~(r \in AvatarUpload!Uploading /\ d.pc # "delete" /\ d.old = avatarUrl)
      BY <1>11, <2>2 DEF AvatarUpload!Die
    <3> QED
      BY <1>8, <1>9, <1>11, <3>1
  <2> QED
    BY <2>1, <2>2
<1>12. FilesFollowAvatar'
  BY <1>2, <1>3, <1>10, <1>11 DEF FilesFollowAvatar, AvatarUpload!FilesFollowAvatar
<1> QED
  BY <1>6, <1>7, <1>12 DEF AvatarOK

(* An upload begins, with a URL nobody has seen.                           *)
LEMMA AvatarBegins ==
  ASSUME AvatarOK, NEW r \in Requests, AvatarUpload!uploadAvatar(r)
  PROVE  AvatarOK'
<1> DEFINE c == [AvatarUpload!Idle EXCEPT !.pc = IF avatarUrl = 0 THEN "save" ELSE "delete", !.op = "upload",
                                          !.url = uploads', !.old = avatarUrl]
<1>1. /\ avatarReq \in [Requests -> AvatarUpload!Call] /\ uploads \in Nat
      /\ files \subseteq 1..uploads \cup Elsewhere /\ strays \subseteq 1..uploads
      /\ avatarUrl \in 0..uploads \cup Elsewhere /\ unsure \in BOOLEAN
  BY AvatarFacts DEF AvatarOK, AvatarUpload!TypeOK
<1>2. /\ uploads' = uploads + 1 /\ uploads < MaxUploads /\ avatarReq[r].pc = "idle"
      /\ avatarReq' = [avatarReq EXCEPT ![r] = c]
      /\ UNCHANGED <<avatarUrl, files, strays, unsure>>
  BY DEF AvatarUpload!uploadAvatar, AvatarUpload!Begin
<1>3. /\ c \in AvatarUpload!Call /\ c.pc = (IF avatarUrl = 0 THEN "save" ELSE "delete")
      /\ c.op = "upload" /\ c.url = uploads + 1 /\ c.old = avatarUrl
  <2>1. uploads + 1 \in AvatarUpload!Urls /\ avatarUrl \in AvatarUpload!Urls
    BY <1>1, <1>2, AvatarFacts DEF AvatarUpload!Urls
  <2> QED
    BY <1>2, <2>1, AvatarFacts DEF AvatarUpload!Call, AvatarUpload!Idle
<1> HIDE DEF c
<1>4. /\ avatarReq' \in [Requests -> AvatarUpload!Call] /\ avatarReq'[r] = c
      /\ \A q \in Requests \ {r} : avatarReq'[q] = avatarReq[q]
      /\ AvatarUpload!Uploading' = AvatarUpload!Uploading \cup {r} /\ r \notin AvatarUpload!Uploading
  <2>1. r \notin AvatarUpload!Uploading /\ c.pc # "idle"
    BY <1>2, <1>3 DEF AvatarUpload!Uploading
  <2>2. /\ avatarReq' \in [Requests -> AvatarUpload!Call] /\ avatarReq'[r] = c
        /\ \A q \in Requests \ {r} : avatarReq'[q] = avatarReq[q]
        /\ AvatarUpload!Uploading' = (AvatarUpload!Uploading \ {r}) \cup
             (IF c.pc # "idle" /\ c.op = "upload" THEN {r} ELSE {})
    BY <1>2, <1>3, AvatarGoes
  <2> QED
    BY <1>3, <2>1, <2>2
<1>5. /\ uploads + 1 \notin 0..uploads \cup Elsewhere /\ uploads + 1 \notin files /\ uploads + 1 # avatarUrl
      /\ uploads + 1 \in 1..uploads' /\ 0..uploads \subseteq 0..uploads' /\ 1..uploads \subseteq 1..uploads'
      /\ uploads' \in 0..MaxUploads /\ 0 \notin files
  BY <1>1, <1>2, AvatarFacts
<1>6. AvatarUpload!TypeOK'
  BY <1>1, <1>2, <1>4, <1>5 DEF AvatarUpload!TypeOK
<1>7. \A q \in Requests :
        avatarReq[q].url \in 0..uploads \cup Elsewhere /\ avatarReq[q].old \in 0..uploads \cup Elsewhere
  BY DEF AvatarOK, AvatarCalls
<1>8. Private(r)'
  <2>1. \A q \in Requests \ {r} : uploads + 1 # avatarReq'[q].url /\ uploads + 1 # avatarReq'[q].old
    BY <1>4, <1>5, <1>7
  <2>2. c.pc # "delete" => c.old \notin files
    BY <1>3, <1>5
  <2>3. c.pc \notin {"select", "update"}
    BY <1>3
  <2> QED
    BY <1>2, <1>3, <1>4, <1>5, <2>1, <2>2, <2>3 DEF Private
<1>9. ASSUME NEW q \in AvatarUpload!Uploading PROVE Private(q)'
  <2>1. q \in Requests /\ q # r /\ Private(q) /\ avatarReq'[q] = avatarReq[q]
    BY <1>4 DEF AvatarOK, AvatarCalls, AvatarUpload!Uploading
  <2>2. avatarReq[q].url # uploads + 1 /\ avatarReq[q].url # avatarUrl /\ avatarReq[q].url \in 1..uploads'
    BY <1>5, <1>7, <2>1 DEF Private
  <2>3. \A o \in Requests \ {q} : avatarReq[q].url # avatarReq'[o].url /\ avatarReq[q].url # avatarReq'[o].old
    BY <1>3, <1>4, <2>1, <2>2 DEF Private
  <2> QED
    BY <1>2, <2>1, <2>2, <2>3 DEF Private
<1>10. AvatarCalls'
  <2>1. ASSUME NEW q \in Requests
        PROVE  /\ avatarReq'[q].url \in 0..uploads' \cup Elsewhere /\ avatarReq'[q].old \in 0..uploads' \cup Elsewhere
               /\ avatarReq'[q].pc \in {"delete", "save"} => avatarReq'[q].op = "upload"
    <3>1. CASE q = r
      BY <1>1, <1>2, <1>3, <1>4, <1>5, <3>1
    <3>2. CASE q # r
      BY <1>4, <1>5, <1>7, <3>2 DEF AvatarOK, AvatarCalls
    <3> QED
      BY <3>1, <3>2
  <2> QED
    BY <1>4, <1>8, <1>9, <2>1 DEF AvatarCalls
<1>11. FilesFollowAvatar'
  <2>1. \A q \in AvatarUpload!Uploading : avatarReq'[q] = avatarReq[q]
    BY <1>4 DEF AvatarUpload!Uploading
  <2>2. {avatarReq[q].url : q \in AvatarUpload!Uploading} \subseteq {avatarReq'[q].url : q \in AvatarUpload!Uploading'}
    BY <1>4, <2>1
  <2> QED
    BY <1>2, <1>4, <2>1, <2>2 DEF AvatarOK, FilesFollowAvatar, AvatarUpload!FilesFollowAvatar
<1> QED
  BY <1>6, <1>10, <1>11 DEF AvatarOK

(* Every step of an upload or of another save keeps AvatarOK. *)
LEMMA AvatarStep == AvatarOK /\ [AvatarUpload!Next]_avatarVars => AvatarOK'
<1> SUFFICES ASSUME AvatarOK, [AvatarUpload!Next]_avatarVars PROVE AvatarOK'
  OBVIOUS
<1>1. CASE UNCHANGED avatarVars
  BY <1>1 DEF avatarVars, AvatarOK, AvatarUpload!TypeOK, AvatarCalls, Private, AvatarUpload!Uploading,
     FilesFollowAvatar, AvatarUpload!FilesFollowAvatar
<1>2. ASSUME NEW r \in Requests, NEW url \in AvatarUpload!Urls, AvatarUpload!updateProfile(r, url) PROVE AvatarOK'
  <2>1. url \in 0..uploads \cup Elsewhere /\ \A q \in AvatarUpload!Uploading : avatarReq[q].url # url
    BY <1>2 DEF AvatarUpload!updateProfile, AvatarUpload!Known
  <2> QED
    BY <1>2, <2>1, AvatarEdits DEF AvatarUpload!updateProfile
<1>3. ASSUME NEW r \in Requests, AvatarUpload!updateUser(r) PROVE AvatarOK'
  <2>1. avatarUrl \in 0..uploads \cup Elsewhere
    BY DEF AvatarOK, AvatarUpload!TypeOK
  <2>2. \A q \in AvatarUpload!Uploading : avatarReq[q].url # avatarUrl
    BY DEF AvatarOK, AvatarCalls, Private, AvatarUpload!Uploading
  <2> QED
    BY <1>3, <2>1, <2>2, AvatarEdits DEF AvatarUpload!updateUser
<1> QED
  BY <1>1, <1>2, <1>3, AvatarBegins, AvatarWorks, AvatarEnds
     DEF AvatarUpload!Next, AvatarUpload!avatarVars, avatarVars

(* Also where uploads overlap or die and clients set the URL, the avatar's *)
(* URL names a file and no other file of the user is left, but for the     *)
(* causes FilesFollowAvatar names: each excuses its own URL or file.       *)
THEOREM FilesTheorem == Spec => []FilesFollowAvatar
<1>1. AvatarOK => FilesFollowAvatar
  BY DEF AvatarOK
<1>2. [Next]_vars => [AvatarUpload!Next]_avatarVars
  BY DEF Next, vars, avatarVars
<1> QED
  BY <1>1, <1>2, AvatarInit, AvatarStep, PTL DEF Spec, Init

-----------------------------------------------------------------------------
(***************************************************************************)
(* Notifications                                                           *)
(***************************************************************************)

(* An update under way holds the body it was sent; of the columns it is    *)
(* about to write each is one the body names, at the value it says.        *)
PrefCallOK(r) ==
  LET c == prefReq[r] IN
  /\ c.pc \in {"select", "update"} => pref # None /\ c.op = "patch" /\ c.entity = c.body
  /\ c.pc = "update" => \A k \in c.cols : c.body[k] \in BOOLEAN

PrefShape ==
  /\ pref \in Notifications!Preferences \cup {None}
  /\ prefReq \in [Requests -> Notifications!Call]

PrefOK == PrefShape /\ \A r \in Requests : PrefCallOK(r)

(* An idle call, the defaults, and what None is not *)
LEMMA PrefFacts ==
  /\ Notifications!Idle \in Notifications!Call /\ Notifications!Idle.pc = "idle"
  /\ Notifications!Defaults \in Notifications!Preferences
  /\ Notifications!Empty \in Notifications!Bodies
  /\ None \notin Notifications!Preferences \cup BOOLEAN /\ IsFiniteSet(Requests) /\ MaxMails \in Nat
<1>1. Notifications!Defaults \in Notifications!Preferences
  BY DEF Notifications!Defaults, Notifications!Preferences, Notifications!Columns
<1>2. /\ Notifications!Empty \in Notifications!Bodies
      /\ Notifications!Idle \in Notifications!Call /\ Notifications!Idle.pc = "idle"
  BY DEF Notifications!Idle, Notifications!Call, Notifications!Empty, Notifications!Bodies
<1>3. Notifications!IsFiniteSet(Requests) = IsFiniteSet(Requests)
  BY Zenon DEF Notifications!IsFiniteSet, IsFiniteSet
<1> QED
  BY <1>1, <1>2, <1>3, ServicesAssumption DEF Notifications!NotificationsAssumption

(* There are no preferences at the start. *)
LEMMA PrefInit == Notifications!Init => PrefOK
<1> SUFFICES ASSUME Notifications!Init PROVE PrefOK
  OBVIOUS
<1>1. PrefShape /\ \A r \in Requests : prefReq[r] = Notifications!Idle
  BY PrefFacts DEF Notifications!Init, PrefShape
<1> QED
  BY <1>1, PrefFacts DEF PrefOK, PrefCallOK

(* A step of one call that leaves the row alone, or makes it *)
LEMMA PrefGoes ==
  ASSUME PrefOK, NEW r \in Requests, NEW c \in Notifications!Call,
         prefReq' = [prefReq EXCEPT ![r] = c],
         pref' = pref \/ (pref = None /\ pref' \in Notifications!Preferences), PrefCallOK(r)'
  PROVE  PrefOK'
<1>1. /\ prefReq' \in [Requests -> Notifications!Call] /\ pref' \in Notifications!Preferences \cup {None}
      /\ \A q \in Requests \ {r} : prefReq'[q] = prefReq[q]
  BY DEF PrefOK, PrefShape
<1>2. ASSUME NEW q \in Requests \ {r} PROVE PrefCallOK(q)'
  <2>1. PrefCallOK(q) /\ prefReq'[q] = prefReq[q]
    BY <1>1 DEF PrefOK
  <2>2. CASE pref' = pref
    BY <2>1, <2>2 DEF PrefCallOK
  <2>3. CASE pref = None
    BY <2>1, <2>3 DEF PrefCallOK
  <2> QED
    BY <2>2, <2>3
<1> QED
  BY <1>1, <1>2 DEF PrefOK, PrefShape

(* What a call goes on to do with the row it has found or made *)
LEMMA PrefWith ==
  ASSUME PrefOK, NEW r \in Requests, NEW p \in Notifications!Preferences,
         prefReq' = [prefReq EXCEPT ![r] = Notifications!With(r, p)],
         pref' = p, pref = p \/ pref = None
  PROVE  PrefOK'
<1> DEFINE d == prefReq[r]
<1>1. d \in Notifications!Call /\ d.body \in Notifications!Bodies
  BY DEF PrefOK, PrefShape, Notifications!Call
<1>2. Notifications!Assign(p, d.body) = d.body
  BY <1>1 DEF Notifications!Assign, Notifications!Bodies
<1>3. PICK c \in Notifications!Call :
        /\ prefReq' = [prefReq EXCEPT ![r] = c]
        /\ \/ c.pc = "select" /\ c.op = "patch" /\ c.entity = c.body
           \/ c.pc \in {"mail", "idle"}
  <2>1. CASE d.op = "patch"
    <3> DEFINE c == [d EXCEPT !.pc = "select", !.entity = d.body]
    <3>1. c \in Notifications!Call /\ c.pc = "select" /\ c.op = "patch" /\ c.entity = c.body
      BY <1>1, <2>1 DEF Notifications!Call
    <3>2. Notifications!With(r, p) = c
      BY <1>2, <2>1 DEF Notifications!With
    <3> HIDE DEF c
    <3> QED
      BY <3>1, <3>2
  <2>2. CASE d.op = "notify" /\ p.newSubscriber
    <3> DEFINE c == [d EXCEPT !.pc = "mail"]
    <3>1. c \in Notifications!Call /\ c.pc = "mail"
      BY <1>1 DEF Notifications!Call
    <3>2. Notifications!With(r, p) = c
      BY <2>2 DEF Notifications!With
    <3> HIDE DEF c
    <3> QED
      BY <3>1, <3>2
  <2>3. CASE d.op # "patch" /\ ~(d.op = "notify" /\ p.newSubscriber)
    <3>1. Notifications!With(r, p) = Notifications!Idle
      BY <2>3 DEF Notifications!With
    <3> QED
      BY <3>1, PrefFacts
  <2> QED
    BY <2>1, <2>2, <2>3
<1>4. prefReq'[r] = c
  BY <1>3 DEF PrefOK, PrefShape
<1>5. PrefCallOK(r)'
  BY <1>3, <1>4, PrefFacts DEF PrefCallOK
<1> QED
  BY <1>3, <1>5, PrefGoes

(* Every step keeps PrefOK. *)
LEMMA PrefStep == PrefOK /\ [Notifications!Next]_prefVars => PrefOK'
<1> SUFFICES ASSUME PrefOK, [Notifications!Next]_prefVars PROVE PrefOK'
  OBVIOUS
<1>1. /\ pref \in Notifications!Preferences \cup {None}
      /\ prefReq \in [Requests -> Notifications!Call]
  BY DEF PrefOK, PrefShape
<1>2. ASSUME UNCHANGED <<pref, prefReq>> PROVE PrefOK'
  BY <1>2 DEF PrefOK, PrefShape, PrefCallOK
<1>3. ASSUME NEW r \in Requests, NEW c \in Notifications!Call, pref' = pref,
             prefReq' = [prefReq EXCEPT ![r] = c], c.pc \notin {"select", "update"}
      PROVE  PrefOK'
  <2>1. prefReq'[r] = c
    BY <1>1, <1>3
  <2>2. PrefCallOK(r)'
    BY <1>3, <2>1 DEF PrefCallOK
  <2> QED
    BY <1>3, <2>2, PrefGoes
<1>4. ASSUME NEW r \in Requests, NEW op \in {"get", "patch", "notify", "reset"},
             NEW body \in Notifications!Bodies, Notifications!Begin(r, op, body)
      PROVE  PrefOK'
  <2> DEFINE c == [Notifications!Idle EXCEPT !.pc = "find", !.op = op, !.body = body]
  <2>1. c \in Notifications!Call /\ c.pc = "find"
    BY PrefFacts DEF Notifications!Call, Notifications!Idle
  <2>2. prefReq' = [prefReq EXCEPT ![r] = c] /\ pref' = pref
    BY <1>4 DEF Notifications!Begin
  <2> HIDE DEF c
  <2> QED
    BY <1>3, <2>1, <2>2
<1>5. ASSUME NEW r \in Requests, Notifications!Find(r) PROVE PrefOK'
  <2>1. CASE pref # None
    <3>1. prefReq' = [prefReq EXCEPT ![r] = Notifications!With(r, pref)] /\ pref' = pref
      BY <1>5, <2>1 DEF Notifications!Find
    <3>2. pref \in Notifications!Preferences
      BY <1>1, <2>1
    <3> QED
      BY <3>1, <3>2, PrefWith
  <2>2. CASE pref = None
    <3> DEFINE d == prefReq[r]
               c == [d EXCEPT !.pc = IF d.pc = "find" THEN "default" ELSE "insert"]
    <3>1. prefReq[r] \in Notifications!Call
      BY <1>1
    <3>2. c \in Notifications!Call /\ c.pc \in {"default", "insert"}
      BY <3>1 DEF Notifications!Call
    <3>3. prefReq' = [prefReq EXCEPT ![r] = c] /\ pref' = pref
      BY <1>1, <1>5, <2>2 DEF Notifications!Find
    <3> HIDE DEF c
    <3> QED
      BY <1>3, <3>2, <3>3
  <2> QED
    BY <2>1, <2>2
<1>6. ASSUME NEW r \in Requests, Notifications!InsertDefaults(r) PROVE PrefOK'
  <2>1. CASE pref = None
    <3>1. /\ prefReq' = [prefReq EXCEPT ![r] = Notifications!With(r, Notifications!Defaults)]
          /\ pref' = Notifications!Defaults
      BY <1>6, <2>1 DEF Notifications!InsertDefaults
    <3> QED
      BY <2>1, <3>1, PrefFacts, PrefWith
  <2>2. CASE pref # None
    <3>1. prefReq' = [prefReq EXCEPT ![r] = Notifications!Idle] /\ pref' = pref
      BY <1>6, <2>2 DEF Notifications!InsertDefaults
    <3> QED
      BY <1>3, <3>1, PrefFacts
  <2> QED
    BY <2>1, <2>2
<1>7. ASSUME NEW r \in Requests, Notifications!SaveSelect(r) PROVE PrefOK'
  <2> DEFINE d == prefReq[r]
             C == {k \in Notifications!Columns : d.entity[k] \notin {None, pref[k]}}
             c == [d EXCEPT !.pc = "update", !.cols = C]
  <2>1. d \in Notifications!Call /\ d.pc = "select" /\ PrefCallOK(r)
    BY <1>1, <1>7 DEF Notifications!SaveSelect, PrefOK
  <2>2. C \in SUBSET Notifications!Columns
    OBVIOUS
  <2>3. \A k \in C : d.body[k] \in BOOLEAN
    <3>1. d.entity = d.body /\ d.body \in [Notifications!Columns -> BOOLEAN \cup {None}]
      BY <2>1 DEF PrefCallOK, Notifications!Call, Notifications!Bodies
    <3> QED
      BY <3>1
  <2>4. /\ c \in Notifications!Call /\ c.pc = "update" /\ c.cols = C
        /\ c.op = d.op /\ c.entity = d.entity /\ c.body = d.body
    <3> HIDE DEF C
    <3> QED
      BY <2>1, <2>2 DEF Notifications!Call
  <2>5. prefReq' = [prefReq EXCEPT ![r] = c] /\ pref' = pref
    BY <1>1, <1>7 DEF Notifications!SaveSelect
  <2> HIDE DEF c, C
  <2>6. prefReq'[r] = c
    BY <1>1, <2>4, <2>5
  <2>7. PrefCallOK(r)'
    BY <2>1, <2>3, <2>4, <2>5, <2>6 DEF PrefCallOK
  <2> QED
    BY <2>4, <2>5, <2>7, PrefGoes
<1>8. ASSUME NEW r \in Requests, Notifications!SaveUpdate(r) PROVE PrefOK'
  <2>1. prefReq[r] \in Notifications!Call /\ pref \in Notifications!Preferences /\ PrefCallOK(r)
    BY <1>1, <1>8 DEF Notifications!SaveUpdate, PrefOK, PrefCallOK
  <2>2. pref' \in Notifications!Preferences
    <3>1. \A k \in prefReq[r].cols : prefReq[r].entity[k] \in BOOLEAN
      BY <1>8, <2>1 DEF Notifications!SaveUpdate, PrefCallOK
    <3> QED
      BY <1>8, <2>1, <3>1 DEF Notifications!SaveUpdate, Notifications!Preferences
  <2>3. prefReq' = [prefReq EXCEPT ![r] = Notifications!Idle]
    BY <1>8 DEF Notifications!SaveUpdate
  <2>4. /\ prefReq' \in [Requests -> Notifications!Call] /\ prefReq'[r] = Notifications!Idle
        /\ \A q \in Requests \ {r} : prefReq'[q] = prefReq[q]
    BY <1>1, <2>3, PrefFacts
  <2>5. ASSUME NEW q \in Requests PROVE PrefCallOK(q)'
    <3>1. CASE q = r
      BY <2>4, <3>1, PrefFacts DEF PrefCallOK
    <3>2. CASE q # r
      <4>1. PrefCallOK(q) /\ prefReq'[q] = prefReq[q] /\ pref' # None
        BY <2>2, <2>4, <3>2, PrefFacts DEF PrefOK
      <4> QED
        BY <4>1 DEF PrefCallOK
    <3> QED
      BY <3>1, <3>2
  <2> QED
    BY <2>2, <2>4, <2>5 DEF PrefOK, PrefShape
<1>9. ASSUME NEW r \in Requests, Notifications!forgotPassword(r) PROVE PrefOK'
  <2> DEFINE c == [Notifications!Idle EXCEPT !.pc = "mail", !.op = "reset"]
  <2>1. c \in Notifications!Call /\ c.pc = "mail"
    BY PrefFacts DEF Notifications!Call, Notifications!Idle
  <2>2. prefReq' = [prefReq EXCEPT ![r] = c] /\ pref' = pref
    BY <1>9 DEF Notifications!forgotPassword
  <2> HIDE DEF c
  <2> QED
    BY <1>3, <2>1, <2>2
<1>10. ASSUME NEW r \in Requests, Notifications!send(r) PROVE PrefOK'
  <2> DEFINE c == [prefReq[r] EXCEPT !.pc = "send"]
  <2>1. prefReq[r] \in Notifications!Call
    BY <1>1
  <2>2. c \in Notifications!Call /\ c.pc = "send"
    BY <2>1 DEF Notifications!Call
  <2>3. prefReq' = [prefReq EXCEPT ![r] = c] /\ pref' = pref
    BY <1>1, <1>10 DEF Notifications!send
  <2> HIDE DEF c
  <2> QED
    BY <1>3, <2>2, <2>3
<1>11. ASSUME NEW r \in Requests, NEW status \in {"sent", "failed"}, Notifications!Record(r, status)
       PROVE  PrefOK'
  BY <1>3, <1>11, PrefFacts DEF Notifications!Record
<1>12. CASE Notifications!AnswerLate
  BY <1>2, <1>12 DEF Notifications!AnswerLate
<1>13. ASSUME NEW r \in Requests,
              \/ Notifications!Accept(r) \/ Notifications!Refuse(r) \/ Notifications!Timeout(r)
       PROVE  PrefOK'
  BY <1>11, <1>13 DEF Notifications!Accept, Notifications!Refuse, Notifications!Timeout
<1>14. ASSUME NEW r \in Requests,
              \/ Notifications!getPreferences(r) \/ Notifications!notifyCreatorOfNewSubscriber(r)
              \/ \E body \in Notifications!Bodies : Notifications!updatePreferences(r, body)
       PROVE  PrefOK'
  BY <1>4, <1>14, PrefFacts DEF Notifications!getPreferences, Notifications!notifyCreatorOfNewSubscriber,
     Notifications!updatePreferences
<1>15. CASE UNCHANGED prefVars
  BY <1>2, <1>15 DEF prefVars
<1> QED
  BY <1>5, <1>6, <1>7, <1>8, <1>9, <1>10, <1>12, <1>13, <1>14, <1>15
  DEF Notifications!Next, Notifications!Step

(* A preference that is there changes only when an update that names it    *)
(* saves, and to what its body says, whatever was saved since its read.    *)
THEOREM ChoiceTheorem == Spec => ChoiceKept
<1> DEFINE Kept ==
      \A k \in Notifications!Columns : pref # None /\ pref'[k] # pref[k] =>
        \E r \in Requests : prefReq[r].pc = "update" /\ prefReq[r].body[k] = pref'[k]
<1>1. PrefOK /\ [Notifications!Next]_prefVars => [Kept]_(Notifications!prefVars)
  <2> SUFFICES ASSUME PrefOK, Notifications!Next, pref # None,
                      NEW k \in Notifications!Columns, pref'[k] # pref[k]
               PROVE  \E r \in Requests : prefReq[r].pc = "update" /\ prefReq[r].body[k] = pref'[k]
    BY DEF prefVars, Notifications!prefVars
  <2>1. PICK r \in Requests : Notifications!SaveUpdate(r)
    BY DEF Notifications!Next, Notifications!Step, Notifications!getPreferences, Notifications!Begin,
       Notifications!notifyCreatorOfNewSubscriber, Notifications!updatePreferences, Notifications!Find,
       Notifications!InsertDefaults, Notifications!SaveSelect, Notifications!forgotPassword,
       Notifications!send, Notifications!Record, Notifications!Accept, Notifications!Refuse,
       Notifications!Timeout, Notifications!AnswerLate
  <2> DEFINE c == prefReq[r]
  <2>2. /\ c.pc = "update" /\ c.entity = c.body
        /\ pref' = [j \in Notifications!Columns |-> IF j \in c.cols THEN c.entity[j] ELSE pref[j]]
    BY <2>1 DEF Notifications!SaveUpdate, PrefOK, PrefCallOK
  <2> QED
    BY <2>2
<1>2. [Next]_vars => [Notifications!Next]_prefVars
  BY DEF Next, vars, prefVars
<1> QED
  BY <1>1, <1>2, PrefInit, PrefStep, PTL DEF Spec, Init, ChoiceKept, Notifications!ChoiceKept

(* What the outbox has recorded, what the driver has answered and what it  *)
(* still holds add up; a mail that is adrift is one that timed out.        *)
MailsOK ==
  /\ outbox \in [sent : Nat, failed : Nat]
  /\ adrift \in Nat /\ delivered \in Nat /\ refused \in Nat /\ timedOut \in Nat
  /\ timedOut <= outbox.failed /\ outbox.sent <= delivered
  /\ delivered + adrift <= outbox.sent + timedOut
  /\ delivered + refused + adrift = outbox.sent + outbox.failed

(* No mail has been sent at the start. *)
LEMMA MailsInit == Notifications!Init => MailsOK
  BY DEF Notifications!Init, MailsOK

(* A mail moves from the sender to the driver's answer or to the timer,    *)
(* and is recorded once.                                                   *)
LEMMA MailsStep == MailsOK /\ [Notifications!Next]_prefVars => MailsOK'
<1> SUFFICES ASSUME MailsOK, [Notifications!Next]_prefVars PROVE MailsOK'
  OBVIOUS
<1>1. CASE UNCHANGED Notifications!mailVars
  BY <1>1 DEF Notifications!mailVars, MailsOK
<1>2. ASSUME NEW r \in Requests, Notifications!Accept(r) PROVE MailsOK'
  <2>1. /\ outbox'.sent = outbox.sent + 1 /\ outbox'.failed = outbox.failed
        /\ outbox' \in [sent : Nat, failed : Nat]
    BY <1>2 DEF MailsOK, Notifications!Accept, Notifications!Record
  <2> QED
    BY <1>2, <2>1 DEF MailsOK, Notifications!Accept
<1>3. ASSUME NEW r \in Requests, Notifications!Refuse(r) PROVE MailsOK'
  <2>1. /\ outbox'.sent = outbox.sent /\ outbox'.failed = outbox.failed + 1
        /\ outbox' \in [sent : Nat, failed : Nat]
    BY <1>3 DEF MailsOK, Notifications!Refuse, Notifications!Record
  <2> QED
    BY <1>3, <2>1 DEF MailsOK, Notifications!Refuse
<1>4. ASSUME NEW r \in Requests, Notifications!Timeout(r) PROVE MailsOK'
  <2>1. /\ outbox'.sent = outbox.sent /\ outbox'.failed = outbox.failed + 1
        /\ outbox' \in [sent : Nat, failed : Nat]
    BY <1>4 DEF MailsOK, Notifications!Timeout, Notifications!Record
  <2> QED
    BY <1>4, <2>1 DEF MailsOK, Notifications!Timeout
<1>5. CASE Notifications!AnswerLate
  BY <1>5 DEF MailsOK, Notifications!AnswerLate
<1>6. CASE UNCHANGED prefVars
  BY <1>1, <1>6 DEF prefVars, Notifications!mailVars
<1> QED
  BY <1>1, <1>2, <1>3, <1>4, <1>5, <1>6
  DEF Notifications!Next, Notifications!Step, Notifications!getPreferences, Notifications!Begin,
      Notifications!notifyCreatorOfNewSubscriber, Notifications!updatePreferences, Notifications!Find,
      Notifications!InsertDefaults, Notifications!SaveSelect, Notifications!SaveUpdate,
      Notifications!forgotPassword, Notifications!send

(* The outbox never claims a delivery that did not happen, and misses one  *)
(* only if the driver accepted the mail after its send had timed out.      *)
THEOREM OutboxTheorem == Spec => []OutboxHonest
<1>1. MailsOK => OutboxHonest
  BY DEF MailsOK, OutboxHonest, Notifications!OutboxHonest
<1>2. [Next]_vars => [Notifications!Next]_prefVars
  BY DEF Next, vars, prefVars
<1> QED
  BY <1>1, <1>2, MailsInit, MailsStep, PTL DEF Spec, Init

(* Never more mails than the bound *)
Senders == {r \in Requests : prefReq[r].pc = "send"}
MailsBounded == outbox.sent + outbox.failed + Cardinality(Senders) <= MaxMails

(* The mails started are those recorded and those being sent. *)
LEMMA StartedIs == Notifications!Started = outbox.sent + outbox.failed + Cardinality(Senders)
<1>1. Notifications!Cardinality(Senders) = Cardinality(Senders)
  BY Zenon DEF Notifications!Cardinality, Cardinality
<1> QED
  BY <1>1, Zenon DEF Notifications!Started, Senders

(* Finitely many calls send. *)
LEMMA SendersFinite == IsFiniteSet(Senders) /\ Cardinality(Senders) \in Nat
  BY PrefFacts, FS_Subset, FS_CardinalityType DEF Senders

(* No mail has been started at the start. *)
LEMMA BoundedInit == Notifications!Init => MailsBounded
<1> SUFFICES ASSUME Notifications!Init PROVE MailsBounded
  OBVIOUS
<1>1. Senders = {}
  BY PrefFacts DEF Senders, Notifications!Init
<1> QED
  BY <1>1, FS_EmptySet, PrefFacts DEF MailsBounded, Notifications!Init

(* A mail is started only below the bound, and recording one ends its      *)
(* sending.                                                                *)
LEMMA BoundedStep ==
  PrefOK /\ MailsOK /\ MailsBounded /\ [Notifications!Next]_prefVars => MailsBounded'
<1> SUFFICES ASSUME PrefOK, MailsOK, MailsBounded, [Notifications!Next]_prefVars PROVE MailsBounded'
  OBVIOUS
<1>1. prefReq \in [Requests -> Notifications!Call] /\ outbox.sent \in Nat /\ outbox.failed \in Nat
  BY DEF PrefOK, PrefShape, MailsOK
<1>2. ASSUME Senders' = Senders, outbox' = outbox PROVE MailsBounded'
  BY <1>2 DEF MailsBounded
<1>3. ASSUME NEW r \in Requests, NEW c, prefReq' = [prefReq EXCEPT ![r] = c], c.pc # "send",
             prefReq[r].pc # "send", outbox' = outbox
      PROVE  MailsBounded'
  <2>1. Senders' = Senders
    BY <1>1, <1>3 DEF Senders
  <2> QED
    BY <1>2, <1>3, <2>1
<1>4. ASSUME NEW r \in Requests, Notifications!send(r) PROVE MailsBounded'
  <2>1. Senders' = Senders \cup {r} /\ r \notin Senders
    BY <1>1, <1>4 DEF Senders, Notifications!send
  <2>2. Cardinality(Senders') = Cardinality(Senders) + 1
    BY <2>1, SendersFinite, FS_AddElement
  <2> QED
    BY <1>1, <1>4, <2>2, StartedIs, SendersFinite, PrefFacts
    DEF MailsBounded, Notifications!send, Notifications!mailVars
<1>5. ASSUME NEW r \in Requests, NEW status \in {"sent", "failed"}, Notifications!Record(r, status)
      PROVE  MailsBounded'
  <2>1. Senders' = Senders \ {r} /\ r \in Senders
    BY <1>1, <1>5, PrefFacts DEF Senders, Notifications!Record
  <2>2. Cardinality(Senders') = Cardinality(Senders) - 1
    BY <2>1, SendersFinite, FS_RemoveElement
  <2>3. outbox'.sent + outbox'.failed = outbox.sent + outbox.failed + 1
    BY <1>1, <1>5 DEF MailsOK, Notifications!Record
  <2>4. outbox'.sent \in Nat /\ outbox'.failed \in Nat
    BY <1>1, <1>5 DEF MailsOK, Notifications!Record
  <2> QED
    BY <1>1, <2>2, <2>3, <2>4, SendersFinite, PrefFacts DEF MailsBounded
<1>6. ASSUME NEW r \in Requests, Notifications!Find(r) \/ Notifications!InsertDefaults(r) PROVE MailsBounded'
  <2>1. \A p : Notifications!With(r, p).pc # "send"
    BY <1>1, PrefFacts DEF Notifications!With, Notifications!Call
  <2>2. [prefReq[r] EXCEPT !.pc = IF prefReq[r].pc = "find" THEN "default" ELSE "insert"].pc # "send"
    BY <1>1 DEF Notifications!Call
  <2>3. PICK c : prefReq' = [prefReq EXCEPT ![r] = c] /\ c.pc # "send"
    BY <1>6, <2>1, <2>2, PrefFacts DEF Notifications!Find, Notifications!InsertDefaults
  <2>4. prefReq[r].pc # "send" /\ outbox' = outbox
    BY <1>6 DEF Notifications!Find, Notifications!InsertDefaults, Notifications!mailVars
  <2> QED
    BY <1>3, <2>3, <2>4
<1>7. ASSUME NEW r \in Requests, Notifications!SaveSelect(r) PROVE MailsBounded'
  <2>1. Senders' = Senders /\ outbox' = outbox
    BY <1>1, <1>7 DEF Senders, Notifications!SaveSelect, Notifications!mailVars, Notifications!Call
  <2> QED
    BY <1>2, <2>1
<1>8. ASSUME NEW r \in Requests, Notifications!SaveUpdate(r) PROVE MailsBounded'
  BY <1>3, <1>8, PrefFacts DEF Notifications!SaveUpdate, Notifications!mailVars
<1>9. ASSUME NEW r \in Requests,
             \/ Notifications!forgotPassword(r)
             \/ \E op \in {"get", "patch", "notify"}, body \in Notifications!Bodies : Notifications!Begin(r, op, body)
      PROVE  MailsBounded'
  <2>1. CASE Notifications!forgotPassword(r)
    <3> DEFINE c == [Notifications!Idle EXCEPT !.pc = "mail", !.op = "reset"]
    <3>1. c.pc = "mail"
      BY DEF Notifications!Idle
    <3>2. prefReq' = [prefReq EXCEPT ![r] = c] /\ prefReq[r].pc = "idle" /\ outbox' = outbox
      BY <2>1 DEF Notifications!forgotPassword, Notifications!mailVars
    <3> HIDE DEF c
    <3> QED
      BY <1>3, <3>1, <3>2
  <2>2. ASSUME NEW op \in {"get", "patch", "notify"}, NEW body \in Notifications!Bodies,
               Notifications!Begin(r, op, body)
        PROVE  MailsBounded'
    <3> DEFINE c == [Notifications!Idle EXCEPT !.pc = "find", !.op = op, !.body = body]
    <3>1. c.pc = "find"
      BY DEF Notifications!Idle
    <3>2. prefReq' = [prefReq EXCEPT ![r] = c] /\ prefReq[r].pc = "idle" /\ outbox' = outbox
      BY <2>2 DEF Notifications!Begin, Notifications!mailVars
    <3> HIDE DEF c
    <3> QED
      BY <1>3, <3>1, <3>2
  <2> QED
    BY <1>9, <2>1, <2>2
<1>10. ASSUME NEW r \in Requests,
              \/ Notifications!Accept(r) \/ Notifications!Refuse(r) \/ Notifications!Timeout(r)
       PROVE  MailsBounded'
  BY <1>5, <1>10 DEF Notifications!Accept, Notifications!Refuse, Notifications!Timeout
<1>11. CASE Notifications!AnswerLate \/ UNCHANGED prefVars
  BY <1>2, <1>11 DEF Notifications!AnswerLate, prefVars, Senders
<1>12. ASSUME NEW r \in Requests,
              \/ Notifications!getPreferences(r) \/ Notifications!notifyCreatorOfNewSubscriber(r)
              \/ \E body \in Notifications!Bodies : Notifications!updatePreferences(r, body)
       PROVE  MailsBounded'
  BY <1>9, <1>12, PrefFacts DEF Notifications!getPreferences, Notifications!notifyCreatorOfNewSubscriber,
     Notifications!updatePreferences
<1> QED
  BY <1>4, <1>6, <1>7, <1>8, <1>9, <1>10, <1>11, <1>12 DEF Notifications!Next, Notifications!Step

(* The three invariants make up the type invariant of Notifications. *)
LEMMA NotificationsTyped == PrefOK /\ MailsOK /\ MailsBounded => Notifications!TypeOK
<1> SUFFICES ASSUME PrefOK, MailsOK, MailsBounded PROVE Notifications!TypeOK
  OBVIOUS
<1>1. \A r \in Requests : prefReq[r].pc \in {"select", "update"} => pref # None
  BY DEF PrefOK, PrefCallOK
<1>2. /\ outbox.sent \in 0..MaxMails /\ outbox.failed \in 0..MaxMails
      /\ delivered \in 0..MaxMails /\ refused \in 0..MaxMails
      /\ adrift \in 0..timedOut /\ timedOut \in 0..outbox.failed
  BY SendersFinite, PrefFacts DEF MailsOK, MailsBounded
<1>3. outbox \in [sent : 0..MaxMails, failed : 0..MaxMails]
  BY <1>2 DEF MailsOK
<1> QED
  BY <1>1, <1>2, <1>3 DEF Notifications!TypeOK, PrefOK, PrefShape

(***************************************************************************)
(* Calls end                                                               *)
(***************************************************************************)

(* Where a call may go from each of its statements *)
Onward(step) ==
  CASE step = "idle" -> {"find", "mail"}
    [] step = "find" -> {"default", "select", "mail", "idle"}
    [] step = "default" -> {"insert", "select", "mail", "idle"}
    [] step = "insert" -> {"select", "mail", "idle"}
    [] step = "select" -> {"update"}
    [] step = "update" -> {"idle"}
    [] step = "mail" -> {"send"}
    [] step = "send" -> {"idle"}

(* A call only goes onward, and its own steps and its timer never leave it *)
(* where it was.                                                           *)
LEMMA GoesOnward ==
  ASSUME PrefOK, [Notifications!Next]_prefVars, NEW r \in Requests
  PROVE  /\ prefReq'[r].pc = prefReq[r].pc \/ prefReq'[r].pc \in Onward(prefReq[r].pc)
         /\ Notifications!Step(r) \/ Notifications!Timeout(r) => prefReq'[r].pc # prefReq[r].pc
<1> DEFINE Goes(q) == prefReq'[q].pc \in Onward(prefReq[q].pc) /\ prefReq'[q].pc # prefReq[q].pc
           Others(q) == \A o \in Requests \ {q} : prefReq'[o].pc = prefReq[o].pc
<1>0. prefReq \in [Requests -> Notifications!Call]
  BY DEF PrefOK, PrefShape
<1>1. ASSUME NEW q \in Requests,
             \/ Notifications!Begin(q, "get", Notifications!Empty) \/ Notifications!Begin(q, "notify", Notifications!Empty)
             \/ Notifications!forgotPassword(q)
             \/ \E body \in Notifications!Bodies : Notifications!Begin(q, "patch", body)
      PROVE  Goes(q) /\ Others(q)
  <2>1. PICK c : prefReq' = [prefReq EXCEPT ![q] = c] /\ c.pc \in {"find", "mail"} /\ prefReq[q].pc = "idle"
    BY <1>1 DEF Notifications!Begin, Notifications!forgotPassword, Notifications!Idle
  <2> QED
    BY <1>0, <2>1 DEF Onward
<1>2. ASSUME NEW q \in Requests, NEW p
      PROVE  Notifications!With(q, p).pc \in {"select", "mail", "idle"}
  BY <1>0, PrefFacts DEF Notifications!With, Notifications!Call
<1>3. ASSUME NEW q \in Requests, Notifications!Find(q) PROVE Goes(q) /\ Others(q)
  <2>1. CASE pref # None
    BY <1>0, <1>2, <1>3, <2>1 DEF Notifications!Find, Onward
  <2>2. CASE pref = None
    BY <1>0, <1>3, <2>2 DEF Notifications!Find, Onward, Notifications!Call
  <2> QED
    BY <2>1, <2>2
<1>4. ASSUME NEW q \in Requests, Notifications!InsertDefaults(q) PROVE Goes(q) /\ Others(q)
  BY <1>0, <1>2, <1>4, PrefFacts DEF Notifications!InsertDefaults, Onward
<1>5. ASSUME NEW q \in Requests, Notifications!SaveSelect(q) PROVE Goes(q) /\ Others(q)
  BY <1>0, <1>5 DEF Notifications!SaveSelect, Onward, Notifications!Call
<1>6. ASSUME NEW q \in Requests, Notifications!SaveUpdate(q) PROVE Goes(q) /\ Others(q)
  BY <1>0, <1>6, PrefFacts DEF Notifications!SaveUpdate, Onward
<1>7. ASSUME NEW q \in Requests, Notifications!send(q) PROVE Goes(q) /\ Others(q)
  BY <1>0, <1>7 DEF Notifications!send, Onward, Notifications!Call
<1>8. ASSUME NEW q \in Requests, Notifications!Accept(q) \/ Notifications!Refuse(q) \/ Notifications!Timeout(q)
      PROVE  Goes(q) /\ Others(q)
  BY <1>0, <1>8, PrefFacts DEF Notifications!Accept, Notifications!Refuse, Notifications!Timeout,
     Notifications!Record, Onward
<1>9. CASE Notifications!AnswerLate \/ UNCHANGED prefVars
  <2>1. UNCHANGED prefReq
    BY <1>9 DEF Notifications!AnswerLate, prefVars
  <2>2. ~Notifications!Step(r) /\ ~Notifications!Timeout(r)
    BY <1>3, <1>4, <1>5, <1>6, <1>7, <1>8, <2>1 DEF Notifications!Step
  <2> QED
    BY <2>1, <2>2
<1>10. ASSUME NEW q \in Requests, Goes(q), Others(q)
       PROVE  prefReq'[r].pc = prefReq[r].pc \/ prefReq'[r].pc \in Onward(prefReq[r].pc)
  BY <1>10
<1> HIDE DEF Goes, Others
<1>11. Notifications!Step(r) \/ Notifications!Timeout(r) => Goes(r)
  BY <1>3, <1>4, <1>5, <1>6, <1>7, <1>8 DEF Notifications!Step
<1>12. \/ Notifications!AnswerLate \/ UNCHANGED prefVars
       \/ \E q \in Requests : Goes(q) /\ Others(q)
  BY <1>1, <1>3, <1>4, <1>5, <1>6, <1>7, <1>8
     DEF Notifications!Next, Notifications!Step, Notifications!getPreferences, Notifications!updatePreferences,
         Notifications!notifyCreatorOfNewSubscriber
<1> QED
  BY <1>9, <1>10, <1>11, <1>12 DEF Goes

(* One call: while it is in flight each statement runs and leads onward,   *)
(* and so does its timer, until it ends or the bound on mails is reached.  *)
LEMMA CallEnds ==
  ASSUME NEW r \in Requests
  PROVE  Init /\ [][Next]_vars /\ Notifications!Prompt(r) =>
           (prefReq[r].pc # "idle" ~> prefReq[r].pc = "idle" \/ Notifications!Started = MaxMails)
<1> DEFINE N == Notifications!Next
           I == PrefOK /\ MailsOK /\ MailsBounded
           P(step) == prefReq[r].pc = step
           Full == Notifications!Started = MaxMails
           S == Notifications!Step(r)
           T == Notifications!Timeout(r)
<1>1. /\ I /\ [N]_prefVars /\ P("find") => (P("find") \/ P("default") \/ P("select") \/ P("mail") \/ P("idle"))'
      /\ I /\ [N]_prefVars /\ P("default") => (P("default") \/ P("insert") \/ P("select") \/ P("mail") \/ P("idle"))'
      /\ I /\ [N]_prefVars /\ P("insert") => (P("insert") \/ P("select") \/ P("mail") \/ P("idle"))'
      /\ I /\ [N]_prefVars /\ P("select") => (P("select") \/ P("update"))'
      /\ I /\ [N]_prefVars /\ P("update") => (P("update") \/ P("idle"))'
      /\ I /\ [N]_prefVars /\ P("mail") => (P("mail") \/ P("send"))'
      /\ I /\ [N]_prefVars /\ P("send") => (P("send") \/ P("idle"))'
  BY GoesOnward DEF Onward
<1>2. /\ I /\ [N]_prefVars /\ <<S>>_prefVars /\ P("find") => ~P("find")'
      /\ I /\ [N]_prefVars /\ <<S>>_prefVars /\ P("default") => ~P("default")'
      /\ I /\ [N]_prefVars /\ <<S>>_prefVars /\ P("insert") => ~P("insert")'
      /\ I /\ [N]_prefVars /\ <<S>>_prefVars /\ P("select") => ~P("select")'
      /\ I /\ [N]_prefVars /\ <<S>>_prefVars /\ P("update") => ~P("update")'
      /\ I /\ [N]_prefVars /\ <<S>>_prefVars /\ P("mail") => ~P("mail")'
      /\ I /\ [N]_prefVars /\ <<T>>_prefVars /\ P("send") => ~P("send")'
  BY GoesOnward
<1>3. I => P("idle") \/ P("find") \/ P("default") \/ P("insert") \/ P("select") \/ P("update") \/ P("mail") \/ P("send")
  BY DEF PrefOK, PrefShape, Notifications!Call
<1>4. I /\ ~Notifications!Ready(r) =>
        ~P("find") /\ ~P("default") /\ ~P("insert") /\ ~P("select") /\ ~P("update") /\ (P("mail") => Full)
  <2>1. I => Notifications!Started \in Nat /\ Notifications!Started <= MaxMails
    BY StartedIs, SendersFinite, PrefFacts DEF MailsOK, MailsBounded
  <2> QED
    BY <2>1, PrefFacts DEF Notifications!Ready
<1>5. Init /\ [][Next]_vars => []I /\ [][N]_prefVars
  <2>1. [Next]_vars => [N]_prefVars
    BY DEF Next, vars, prefVars
  <2> QED
    BY <2>1, PrefInit, PrefStep, MailsInit, MailsStep, BoundedInit, BoundedStep, PTL DEF Init
<1> HIDE DEF N, I, Full, S, T
<1>6. Notifications!Prompt(r) => ([]<>~Notifications!Ready(r) \/ []<><<S>>_prefVars) /\ ([]<>~P("send") \/ []<><<T>>_prefVars)
  <2>1. prefReq[r].pc # "send" => ~P("send")
    OBVIOUS
  <2> QED
    BY <2>1, PTL DEF Notifications!Prompt, S, T, prefVars, Notifications!prefVars
<1> HIDE DEF P
<1>7. []I /\ [][N]_prefVars /\ ([]<>~Notifications!Ready(r) \/ []<><<S>>_prefVars) /\ ([]<>~P("send") \/ []<><<T>>_prefVars) => (~P("idle") ~> P("idle") \/ Full)
  BY <1>1, <1>2, <1>3, <1>4, PTL
<1> QED
  BY <1>5, <1>6, <1>7, PTL DEF P, Full

(* Subscribing, asking for a reset and reading or changing preferences end *)
(* although the driver may never answer, as long as a statement that can   *)
(* run does and a timer that runs fires.                                   *)
THEOREM CallsEndTheorem ==
  Init /\ [][Next]_vars /\ (\A r \in Requests : Notifications!Prompt(r)) => CallsEnd
<1> HIDE DEF Init, Next, vars, Notifications!Prompt
<1>1. ASSUME NEW r \in Requests
      PROVE  Init /\ [][Next]_vars /\ Notifications!Prompt(r) =>
               (prefReq[r].pc # "idle" ~> prefReq[r].pc = "idle" \/ Notifications!Started = MaxMails)
  BY CallEnds
<1>2. Init /\ [][Next]_vars /\ (\A r \in Requests : Notifications!Prompt(r)) =>
        \A r \in Requests : prefReq[r].pc # "idle" ~> prefReq[r].pc = "idle" \/ Notifications!Started = MaxMails
  BY <1>1
<1> QED
  BY <1>2 DEF CallsEnd, Notifications!CallsEnd

-----------------------------------------------------------------------------
(***************************************************************************)
(* Rate limits                                                             *)
(***************************************************************************)

(* A call that is about to set the counter has read the value that is      *)
(* there, or none because it had expired, unless another set came between. *)
ReadOK(r) ==
  limitReq[r].pc = "set" /\ r \notin behind =>
    limitReq[r].current = cache.count \/ (limitReq[r].current = 0 /\ cache.expires <= now)

(* The counter was set within the last window, and whoever set it was let  *)
(* through.                                                                *)
CounterOK ==
  cache.count > 0 =>
    /\ cache.expires <= now + windowTicks
    /\ \A t \in RateLimits!Times :
         cache.expires <= t + windowTicks /\ t < cache.expires => allowed[t] > 0

(* The counter in the cache counts, of a window the clock is in, the calls *)
(* let through since the last lapse, if it was set in that window at all.  *)
WindowOK(t) ==
  /\ allowed[t] <= maxRequests * lapses[t] + maxRequests
  /\ now + windowTicks <= t => allowed[t] = 0
  /\ now <= t /\ t < now + windowTicks =>
       allowed[t] <= maxRequests * lapses[t] + (IF t < cache.expires THEN cache.count ELSE 0)

LimitsOK ==
  /\ RateLimits!TypeOK /\ CounterOK
  /\ \A r \in Requests : ReadOK(r)
  /\ \A t \in RateLimits!Times : WindowOK(t)
  /\ refusal # 0 => allowed[refusal] > 0

(* The constants, and products by the limit, which the prover takes as     *)
(* atoms                                                                   *)
LEMMA LimitFacts ==
  /\ maxRequests \in Nat \ {0} /\ windowTicks \in Nat \ {0} /\ MaxTime \in Nat \ {0} /\ MaxRestarts \in Nat
  /\ \A n \in Nat : maxRequests * n \in Nat /\ maxRequests * (n + 1) = maxRequests * n + maxRequests
                    /\ maxRequests * (1 + n) = maxRequests * n + maxRequests
<1>1. /\ maxRequests \in Nat \ {0} /\ windowTicks \in Nat \ {0}
      /\ MaxTime \in Nat \ {0} /\ MaxRestarts \in Nat
  BY ServicesAssumption DEF RateLimits!RateLimitsAssumption
<1>2. \A m, n \in Nat : m * n \in Nat /\ m * (n + 1) = m * n + m /\ m * (1 + n) = m * n + m
  OBVIOUS
<1> QED
  BY <1>1, <1>2

(* The parts of the type invariant the proofs cite *)
LEMMA LimitsShape ==
  ASSUME RateLimits!TypeOK
  PROVE  /\ now \in 1..MaxTime /\ cache.count \in 0..maxRequests /\ cache.expires \in 0..MaxTime + windowTicks
         /\ cache \in [count : 0..maxRequests, expires : 0..MaxTime + windowTicks]
         /\ limitReq \in [Requests -> [pc : {"idle", "set"}, current : 0..maxRequests - 1]]
         /\ \A r \in Requests : limitReq[r].current \in 0..maxRequests - 1
         /\ \A t \in RateLimits!Times : t \in Nat /\ allowed[t] \in Nat /\ lapses[t] \in Nat
         /\ allowed \in [RateLimits!Times -> Nat] /\ lapses \in [RateLimits!Times -> Nat]
         /\ behind \subseteq Requests /\ refusal \in 0..now /\ restarts \in 0..MaxRestarts
<1>1. \A t \in RateLimits!Times : t \in Nat
  BY LimitFacts DEF RateLimits!Times
<1> QED
  BY <1>1 DEF RateLimits!TypeOK, RateLimits!Times

(* The cache is empty at the start. *)
LEMMA LimitsInit == RateLimits!Init => LimitsOK
<1> SUFFICES ASSUME RateLimits!Init PROVE LimitsOK
  OBVIOUS
<1>1. RateLimits!Idle \in [pc : {"idle", "set"}, current : 0..maxRequests - 1] /\ RateLimits!Idle.pc = "idle"
  <2>1. 0 \in 0..maxRequests - 1
    BY LimitFacts
  <2> QED
    BY <2>1 DEF RateLimits!Idle
<1>2. /\ RateLimits!NoCounter \in [count : 0..maxRequests, expires : 0..MaxTime + windowTicks]
      /\ RateLimits!NoCounter.count = 0 /\ RateLimits!NoCounter.expires = 0
  BY LimitFacts DEF RateLimits!NoCounter
<1>3. RateLimits!TypeOK
  <2>1. 1 \in RateLimits!Times /\ 0 \in 0..1 /\ 0 \in 0..MaxRestarts
    BY LimitFacts DEF RateLimits!Times
  <2> QED
    BY <1>1, <1>2, <2>1 DEF RateLimits!Init, RateLimits!TypeOK
<1>4. CounterOK
  BY <1>2 DEF CounterOK, RateLimits!Init
<1>5. \A r \in Requests : ReadOK(r)
  BY <1>1 DEF ReadOK, RateLimits!Init
<1>6. ASSUME NEW t \in RateLimits!Times PROVE WindowOK(t)
  <2>1. allowed[t] = 0 /\ lapses[t] = 0 /\ cache.count = 0
    BY <1>2 DEF RateLimits!Init
  <2> QED
    BY <2>1, LimitFacts DEF WindowOK
<1> QED
  BY <1>3, <1>4, <1>5, <1>6 DEF LimitsOK, RateLimits!Init

(* A call counts on what it read or is a lapse; time closes windows; every *)
(* step keeps LimitsOK.                                                    *)
LEMMA LimitsStep == LimitsOK /\ [RateLimits!Next]_limitVars => LimitsOK'
<1> SUFFICES ASSUME LimitsOK, [RateLimits!Next]_limitVars PROVE LimitsOK'
  OBVIOUS
<1>1. /\ now \in 1..MaxTime /\ cache.count \in 0..maxRequests /\ cache.expires \in 0..MaxTime + windowTicks
      /\ limitReq \in [Requests -> [pc : {"idle", "set"}, current : 0..maxRequests - 1]]
      /\ \A r \in Requests : limitReq[r].current \in 0..maxRequests - 1
      /\ \A t \in RateLimits!Times : t \in Nat /\ allowed[t] \in Nat /\ lapses[t] \in Nat
      /\ allowed \in [RateLimits!Times -> Nat] /\ lapses \in [RateLimits!Times -> Nat]
      /\ behind \subseteq Requests /\ refusal \in 0..now /\ restarts \in 0..MaxRestarts
  BY LimitsShape DEF LimitsOK
<1>2. CASE UNCHANGED limitVars
  BY <1>2 DEF limitVars, LimitsOK, RateLimits!TypeOK, CounterOK, ReadOK, WindowOK
<1>3. ASSUME NEW r \in Requests, RateLimits!canActivate(r) PROVE LimitsOK'
  <2>1. /\ now' = now /\ cache' = cache /\ allowed' = allowed /\ lapses' = lapses /\ restarts' = restarts
    BY <1>3 DEF RateLimits!canActivate
  <2>2. CASE RateLimits!current >= maxRequests /\ refusal' = now /\ limitReq' = limitReq /\ behind' = behind
    <3>1. now < cache.expires /\ cache.count > 0
      BY <1>1, <2>2, LimitFacts DEF RateLimits!current
    <3>2. allowed[now] > 0
      <4>1. now \in RateLimits!Times
        BY <1>1 DEF RateLimits!Times
      <4> QED
        BY <1>1, <3>1, <4>1 DEF LimitsOK, CounterOK
    <3>3. refusal' \in 0..now'
      BY <1>1, <2>1, <2>2
    <3> QED
      BY <2>1, <2>2, <3>2, <3>3 DEF LimitsOK, RateLimits!TypeOK, CounterOK, ReadOK, WindowOK
  <2>3. CASE /\ RateLimits!current < maxRequests
             /\ limitReq' = [limitReq EXCEPT ![r] = [pc |-> "set", current |-> RateLimits!current]]
             /\ behind' = behind \ {r} /\ refusal' = refusal
    <3>1. /\ RateLimits!current \in 0..maxRequests - 1
          /\ RateLimits!current = cache.count \/ (RateLimits!current = 0 /\ cache.expires <= now)
      <4>1. CASE now < cache.expires
        <5>1. RateLimits!current = cache.count
          BY <4>1 DEF RateLimits!current
        <5> QED
          BY <1>1, <2>3, <5>1, LimitFacts
      <4>2. CASE ~(now < cache.expires)
        <5>1. RateLimits!current = 0
          BY <4>2 DEF RateLimits!current
        <5> QED
          BY <1>1, <4>2, <5>1, LimitFacts
      <4> QED
        BY <4>1, <4>2
    <3>2. /\ limitReq' \in [Requests -> [pc : {"idle", "set"}, current : 0..maxRequests - 1]]
          /\ limitReq'[r].current = RateLimits!current
          /\ \A q \in Requests \ {r} : limitReq'[q] = limitReq[q]
      BY <1>1, <2>3, <3>1
    <3>3. RateLimits!TypeOK'
      BY <2>1, <2>3, <3>2 DEF LimitsOK, RateLimits!TypeOK
    <3>4. ASSUME NEW q \in Requests PROVE ReadOK(q)'
      BY <2>1, <2>3, <3>1, <3>2 DEF LimitsOK, ReadOK
    <3> QED
      BY <2>1, <2>3, <3>3, <3>4 DEF LimitsOK, CounterOK, WindowOK
  <2> QED
    BY <1>3, <2>2, <2>3 DEF RateLimits!canActivate
<1>4. ASSUME NEW r \in Requests, RateLimits!SetCounter(r) PROVE LimitsOK'
  <2> DEFINE n == limitReq[r].current
  <2>1. /\ limitReq[r].pc = "set" /\ n \in 0..maxRequests - 1
        /\ cache'.count = n + 1 /\ cache'.expires = now + windowTicks
        /\ cache' = [count |-> n + 1, expires |-> now + windowTicks]
        /\ now' = now /\ refusal' = refusal /\ restarts' = restarts
        /\ limitReq' = [limitReq EXCEPT ![r] = RateLimits!Idle]
    BY <1>1, <1>4 DEF RateLimits!SetCounter, RateLimits!counter
  <2>2. ASSUME NEW t \in RateLimits!Times
        PROVE  /\ allowed'[t] = IF now <= t /\ t < now + windowTicks THEN allowed[t] + 1 ELSE allowed[t]
               /\ lapses'[t] = IF r \in behind /\ now <= t /\ t < now + windowTicks
                               THEN lapses[t] + 1 ELSE lapses[t]
    BY <1>4 DEF RateLimits!SetCounter, RateLimits!CountIn, RateLimits!Open
  <2>3. RateLimits!TypeOK'
    <3>1. cache' \in [count : 0..maxRequests, expires : 0..MaxTime + windowTicks]
      BY <1>1, <2>1, LimitFacts
    <3>2. RateLimits!Idle \in [pc : {"idle", "set"}, current : 0..maxRequests - 1]
      BY LimitFacts DEF RateLimits!Idle
    <3>3. limitReq' \in [Requests -> [pc : {"idle", "set"}, current : 0..maxRequests - 1]]
      BY <1>1, <2>1, <3>2
    <3>4. allowed' \in [RateLimits!Times -> Nat] /\ lapses' \in [RateLimits!Times -> Nat]
      <4>1. \A t \in RateLimits!Times : allowed'[t] \in Nat /\ lapses'[t] \in Nat
        BY <1>1, <2>2
      <4>2. /\ allowed' = [t \in RateLimits!Times |-> allowed'[t]]
            /\ lapses' = [t \in RateLimits!Times |-> lapses'[t]]
        BY <1>4 DEF RateLimits!SetCounter, RateLimits!CountIn
      <4> QED
        BY <4>1, <4>2
    <3>5. behind' \subseteq Requests
      BY <1>1, <1>4 DEF RateLimits!SetCounter
    <3> QED
      BY <1>1, <2>1, <3>1, <3>3, <3>4, <3>5 DEF RateLimits!TypeOK, RateLimits!Times
  <2>4. CounterOK'
    BY <1>1, <2>1, <2>2, LimitFacts DEF CounterOK
  <2>5. ASSUME NEW q \in Requests PROVE ReadOK(q)'
    <3>1. limitReq'[r].pc = "idle" /\ \A p \in Requests \ {r} : limitReq'[p] = limitReq[p]
      BY <1>1, <2>1 DEF RateLimits!Idle
    <3>2. \A p \in Requests \ {r} : limitReq[p].pc = "set" => p \in behind'
      BY <1>4 DEF RateLimits!SetCounter
    <3> QED
      BY <3>1, <3>2 DEF ReadOK
  <2>6. ASSUME NEW t \in RateLimits!Times PROVE WindowOK(t)'
    <3>1. WindowOK(t)
      BY DEF LimitsOK
    <3>2. CASE ~(now <= t /\ t < now + windowTicks)
      BY <1>1, <2>1, <2>2, <3>1, <3>2, LimitFacts DEF WindowOK
    <3>3. CASE (now <= t /\ t < now + windowTicks) /\ r \in behind
      <4>1. allowed[t] <= maxRequests * lapses[t] + maxRequests
        BY <3>1 DEF WindowOK
      <4>2. /\ allowed'[t] = allowed[t] + 1 /\ lapses'[t] = lapses[t] + 1 /\ t < cache'.expires
            /\ maxRequests * lapses'[t] = maxRequests * lapses[t] + maxRequests
            /\ maxRequests * lapses[t] \in Nat
        BY <1>1, <2>1, <2>2, <3>3, LimitFacts
      <4>3. allowed'[t] <= maxRequests * lapses'[t] + 1
        BY <1>1, <4>1, <4>2, LimitFacts
      <4> QED
        BY <1>1, <2>1, <3>3, <4>2, <4>3, LimitFacts DEF WindowOK
    <3>4. CASE (now <= t /\ t < now + windowTicks) /\ r \notin behind
      <4>1. allowed[t] <= maxRequests * lapses[t] + (IF t < cache.expires THEN cache.count ELSE 0)
        BY <3>1, <3>4 DEF WindowOK
      <4>2. n = cache.count \/ (n = 0 /\ cache.expires <= now)
        BY <2>1, <3>4 DEF LimitsOK, ReadOK
      <4>3. /\ allowed'[t] = allowed[t] + 1 /\ lapses'[t] = lapses[t] /\ t < cache'.expires
            /\ maxRequests * lapses[t] \in Nat
        BY <1>1, <2>1, <2>2, <3>4, LimitFacts
      <4>4. allowed[t] <= maxRequests * lapses[t] + n
        BY <1>1, <2>1, <3>4, <4>1, <4>2, <4>3
      <4>5. allowed'[t] <= maxRequests * lapses'[t] + cache'.count
        BY <1>1, <2>1, <4>3, <4>4
      <4>6. maxRequests * lapses'[t] + cache'.count <= maxRequests * lapses'[t] + maxRequests
        BY <2>1, <4>3, LimitFacts
      <4> QED
        BY <1>1, <2>1, <3>4, <4>3, <4>5, <4>6, LimitFacts DEF WindowOK
    <3> QED
      BY <3>2, <3>3, <3>4
  <2>7. refusal' # 0 => allowed'[refusal'] > 0
    <3>1. refusal # 0 => refusal \in RateLimits!Times
      BY <1>1, LimitFacts DEF RateLimits!Times
    <3> QED
      BY <1>1, <2>1, <2>2, <3>1 DEF LimitsOK
  <2> QED
    BY <2>3, <2>4, <2>5, <2>6, <2>7 DEF LimitsOK
<1>5. CASE RateLimits!Tick
  <2>1. /\ now' = now + 1 /\ now < MaxTime /\ cache' = cache /\ limitReq' = limitReq /\ allowed' = allowed
        /\ lapses' = lapses /\ behind' = behind /\ refusal' = refusal /\ restarts' = restarts
    BY <1>5 DEF RateLimits!Tick
  <2>2. RateLimits!TypeOK'
    <3>1. now' \in RateLimits!Times /\ refusal' \in 0..now'
      BY <1>1, <2>1, LimitFacts DEF RateLimits!Times
    <3> QED
      BY <2>1, <3>1 DEF LimitsOK, RateLimits!TypeOK
  <2>3. CounterOK'
    BY <1>1, <2>1, LimitFacts DEF LimitsOK, CounterOK
  <2>4. \A r \in Requests : ReadOK(r)'
    BY <1>1, <2>1 DEF LimitsOK, ReadOK
  <2>5. ASSUME NEW t \in RateLimits!Times PROVE WindowOK(t)'
    <3>1. WindowOK(t) /\ maxRequests * lapses[t] \in Nat
      BY <1>1, LimitFacts DEF LimitsOK
    <3> QED
      BY <1>1, <2>1, <3>1, LimitFacts DEF WindowOK
  <2> QED
    BY <2>1, <2>2, <2>3, <2>4, <2>5 DEF LimitsOK
<1>6. CASE RateLimits!Restart
  <2>1. /\ now' = now /\ cache' = RateLimits!NoCounter /\ limitReq' = [q \in Requests |-> RateLimits!Idle]
        /\ cache'.count = 0 /\ allowed' = allowed /\ behind' = {} /\ refusal' = refusal
        /\ restarts < MaxRestarts /\ restarts' = restarts + 1
    BY <1>6 DEF RateLimits!Restart, RateLimits!NoCounter
  <2>2. ASSUME NEW t \in RateLimits!Times
        PROVE  lapses'[t] = IF now <= t /\ t < now + windowTicks THEN lapses[t] + 1 ELSE lapses[t]
    BY <1>6 DEF RateLimits!Restart, RateLimits!CountIn, RateLimits!Open
  <2>3. RateLimits!TypeOK'
    <3>1. RateLimits!NoCounter \in [count : 0..maxRequests, expires : 0..MaxTime + windowTicks]
      BY LimitFacts DEF RateLimits!NoCounter
    <3>2. RateLimits!Idle \in [pc : {"idle", "set"}, current : 0..maxRequests - 1]
      BY LimitFacts DEF RateLimits!Idle
    <3>3. lapses' \in [RateLimits!Times -> Nat]
      <4>1. \A t \in RateLimits!Times : lapses'[t] \in Nat
        BY <1>1, <2>2
      <4>2. lapses' = [t \in RateLimits!Times |-> lapses'[t]]
        BY <1>6 DEF RateLimits!Restart, RateLimits!CountIn
      <4> QED
        BY <4>1, <4>2
    <3>4. restarts' \in 0..MaxRestarts
      BY <1>1, <2>1, LimitFacts
    <3> QED
      BY <1>1, <2>1, <3>1, <3>2, <3>3, <3>4 DEF RateLimits!TypeOK, RateLimits!Times
  <2>4. CounterOK'
    BY <2>1 DEF CounterOK
  <2>5. \A r \in Requests : ReadOK(r)'
    BY <2>1 DEF ReadOK, RateLimits!Idle
  <2>6. ASSUME NEW t \in RateLimits!Times PROVE WindowOK(t)'
    <3>1. /\ WindowOK(t) /\ maxRequests * lapses[t] \in Nat
          /\ maxRequests * (lapses[t] + 1) = maxRequests * lapses[t] + maxRequests
      BY <1>1, LimitFacts DEF LimitsOK
    <3>2. CASE now <= t /\ t < now + windowTicks
      <4>1. lapses'[t] = lapses[t] + 1 /\ allowed'[t] = allowed[t]
        BY <2>1, <2>2, <3>2
      <4>2. allowed[t] <= maxRequests * lapses'[t]
        BY <1>1, <3>1, <4>1 DEF WindowOK
      <4>3. maxRequests * lapses'[t] \in Nat
        BY <1>1, <4>1, LimitFacts
      <4> QED
        BY <1>1, <2>1, <3>2, <4>1, <4>2, <4>3, LimitFacts DEF WindowOK
    <3>3. CASE ~(now <= t /\ t < now + windowTicks)
      BY <1>1, <2>1, <2>2, <3>1, <3>3, LimitFacts DEF WindowOK
    <3> QED
      BY <3>2, <3>3
  <2> QED
    BY <2>1, <2>3, <2>4, <2>5, <2>6 DEF LimitsOK
<1> QED
  BY <1>2, <1>3, <1>4, <1>5, <1>6 DEF RateLimits!Next

(* No window lets through more calls than the limit, times one more for    *)
(* each lapse in it, whatever the limit, the window and the calls that     *)
(* overlap; and a call is refused only if another was let through within   *)
(* the last window.                                                        *)
THEOREM LimitTheorem == Spec => []LimitHolds
<1>1. LimitsOK => LimitHolds
  <2> SUFFICES ASSUME LimitsOK
               PROVE  /\ \A t \in RateLimits!Times : allowed[t] <= maxRequests * (1 + lapses[t])
                      /\ refusal # 0 => allowed[refusal] > 0
    BY DEF LimitHolds, RateLimits!LimitHolds
  <2>1. ASSUME NEW t \in RateLimits!Times PROVE allowed[t] <= maxRequests * (1 + lapses[t])
    <3>1. lapses[t] \in Nat /\ allowed[t] <= maxRequests * lapses[t] + maxRequests
      BY LimitsShape DEF LimitsOK, WindowOK
    <3> QED
      BY <3>1, LimitFacts
  <2> QED
    BY <2>1 DEF LimitsOK
<1>2. [Next]_vars => [RateLimits!Next]_limitVars
  BY DEF Next, vars, limitVars
<1> QED
  BY <1>1, <1>2, LimitsInit, LimitsStep, PTL DEF Spec, Init

-----------------------------------------------------------------------------
(***************************************************************************)
(* Paging: dates, the order of a list, and the first rows of a set         *)
(***************************************************************************)

(* The constants, and the finitely many rows *)
LEMMA PagingFacts ==
  /\ limit \in Nat \ {0} /\ PerMs \in Nat \ {0} /\ MaxRows \in Nat /\ MaxDate \in Nat
  /\ None \notin Paging!Cursors
  /\ IsFiniteSet(Paging!Ids) /\ Cardinality(Paging!Ids) = MaxRows /\ Paging!Ids \subseteq Nat
<1>1. /\ limit \in Nat \ {0} /\ PerMs \in Nat \ {0} /\ MaxRows \in Nat /\ MaxDate \in Nat
      /\ None \notin Paging!Cursors
  BY ServicesAssumption DEF Paging!PagingAssumption
<1>2. IsFiniteSet(1..MaxRows) /\ Cardinality(1..MaxRows) = MaxRows
  BY <1>1, FS_Interval
<1> QED
  BY <1>1, <1>2 DEF Paging!Ids

(* The instance counts as FiniteSets does. *)
LEMMA SameCardinality == ASSUME NEW S PROVE Paging!Cardinality(S) = Cardinality(S)
  BY Zenon DEF Paging!Cardinality, Cardinality

(* Cutting a date to the millisecond moves it back; cutting it again does  *)
(* nothing more.                                                           *)
LEMMA CutToMs ==
  \A t \in Paging!Dates :
    /\ Paging!ToMs(t) \in Paging!Dates /\ Paging!ToMs(t) <= t
    /\ Paging!ToMs(Paging!ToMs(t)) = Paging!ToMs(t)
<1> SUFFICES ASSUME NEW t \in Paging!Dates
             PROVE  /\ Paging!ToMs(t) \in Paging!Dates /\ Paging!ToMs(t) <= t
                    /\ Paging!ToMs(Paging!ToMs(t)) = Paging!ToMs(t)
  OBVIOUS
<1>1. t \in Nat /\ t <= MaxDate
  BY PagingFacts DEF Paging!Dates
<1>2. t % PerMs \in Nat /\ t % PerMs <= t
  BY <1>1, PagingFacts
<1>3. PICK q \in Nat : t = PerMs * q + (t % PerMs)
  <2>1. t = PerMs * (t \div PerMs) + (t % PerMs) /\ t \div PerMs \in Nat
    BY <1>1, PagingFacts
  <2> QED
    BY <2>1
<1>4. (t - (t % PerMs)) % PerMs = 0
  <2>1. t - (t % PerMs) = PerMs * q
    BY <1>1, <1>2, <1>3, PagingFacts
  <2>2. (PerMs * q) % PerMs = 0
    BY PagingFacts
  <2> QED
    BY <2>1, <2>2
<1> QED
  BY <1>1, <1>2, <1>4, PagingFacts DEF Paging!ToMs, Paging!Dates

(* The dates of a list are ticks, those of a feed or an inbox whole ms. *)
LEMMA ListDates ==
  ASSUME list \in Paging!Lists
  PROVE  /\ Paging!DatesOf(list) \subseteq Paging!Dates
         /\ list \in {"feed", "inbox", "messages"} =>
              \A t \in Paging!DatesOf(list) : list = "messages" \/ Paging!ToMs(t) = t
<1>1. 0 \in Paging!Dates
  BY PagingFacts DEF Paging!Dates
<1>2. CASE list \in {"feed", "inbox"}
  <2>1. Paging!DatesOf(list) = {Paging!ToMs(t) : t \in Paging!Dates}
    BY <1>2 DEF Paging!DatesOf
  <2> QED
    BY <1>2, <2>1, CutToMs
<1>3. CASE list = "messages"
  BY <1>1, <1>3 DEF Paging!DatesOf
<1>4. CASE list \in {"comments", "users"}
  BY <1>4 DEF Paging!DatesOf
<1> QED
  BY <1>2, <1>3, <1>4 DEF Paging!Lists

Dated == list \in Paging!Lists /\ date \in [Paging!Ids -> Paging!DatesOf(list)]

(* The date of a row is one of them. *)
LEMMA DateOf ==
  ASSUME Dated, NEW i \in Paging!Ids
  PROVE  /\ i \in Nat /\ date[i] \in Nat /\ date[i] \in Paging!Dates
         /\ Paging!ToMs(date[i]) \in Nat /\ Paging!ToMs(date[i]) \in Paging!Dates
         /\ Paging!ToMs(date[i]) <= date[i]
         /\ list \in {"feed", "inbox"} => Paging!ToMs(date[i]) = date[i]
<1>1. Paging!Dates \subseteq Nat
  BY PagingFacts DEF Paging!Dates
<1>2. date[i] \in Paging!DatesOf(list)
  BY DEF Dated
<1>3. date[i] \in Paging!Dates /\ (list \in {"feed", "inbox"} => Paging!ToMs(date[i]) = date[i])
  BY <1>2, ListDates DEF Dated
<1> QED
  BY <1>1, <1>3, CutToMs, PagingFacts

(* The order of a list is strict and total. *)
LEMMA ListOrder ==
  ASSUME Dated, NEW i \in Paging!Ids, NEW j \in Paging!Ids, NEW k \in Paging!Ids
  PROVE  /\ ~Paging!Precedes(i, i)
         /\ i = j \/ Paging!Precedes(i, j) \/ Paging!Precedes(j, i)
         /\ Paging!Precedes(i, j) => ~Paging!Precedes(j, i)
         /\ Paging!Precedes(i, j) /\ Paging!Precedes(j, k) => Paging!Precedes(i, k)
<1>1. i \in Nat /\ j \in Nat /\ k \in Nat /\ date[i] \in Nat /\ date[j] \in Nat /\ date[k] \in Nat
  BY DateOf
<1> QED
  BY <1>1 DEF Paging!Precedes

(* What is after a cursor is after the row it was made of, and the other   *)
(* way round unless the cut to the millisecond loses something.            *)
LEMMA AfterCursor ==
  ASSUME Dated, NEW c \in Paging!Ids, NEW i \in Paging!Ids
  PROVE  LET k == [date |-> Paging!ToMs(date[c]), id |-> c] IN
         /\ k \in Paging!Cursors
         /\ Paging!After(i, k) => Paging!Precedes(c, i)
         /\ list \in {"feed", "inbox", "messages"} /\ Paging!Precedes(c, i) => Paging!After(i, k)
<1> DEFINE k == [date |-> Paging!ToMs(date[c]), id |-> c]
<1>1. /\ i \in Nat /\ date[i] \in Nat /\ c \in Nat /\ date[c] \in Nat /\ Paging!ToMs(date[c]) \in Nat
      /\ Paging!ToMs(date[c]) <= date[c]
      /\ list \in {"feed", "inbox"} => Paging!ToMs(date[c]) = date[c]
      /\ Paging!ToMs(date[c]) \in Paging!Dates
  BY DateOf
<1>2. k \in Paging!Cursors /\ k.date = Paging!ToMs(date[c]) /\ k.id = c
  BY <1>1 DEF Paging!Cursors
<1> HIDE DEF k
<1>3. Paging!After(i, k) => Paging!Precedes(c, i)
  BY <1>1, <1>2 DEF Paging!After, Paging!Precedes
<1>4. list \in {"feed", "inbox", "messages"} /\ Paging!Precedes(c, i) => Paging!After(i, k)
  BY <1>1, <1>2 DEF Paging!After, Paging!Precedes
<1> QED
  BY <1>2, <1>3, <1>4 DEF k

(* What comes after a row that is after a cursor comes after the cursor. *)
LEMMA AfterLater ==
  ASSUME Dated, NEW k \in Paging!Cursors, NEW c \in Paging!Ids, NEW i \in Paging!Ids,
         Paging!After(c, k), Paging!Precedes(c, i)
  PROVE  Paging!After(i, k)
<1>1. i \in Nat /\ date[i] \in Nat /\ c \in Nat /\ date[c] \in Nat
  BY DateOf
<1>2. k.date \in Nat /\ k.id \in Nat
  <2>1. k.date \in Paging!Dates /\ k.id \in Paging!Ids
    BY DEF Paging!Cursors
  <2>2. Paging!Dates \subseteq Nat /\ Paging!Ids \subseteq Nat
    BY PagingFacts DEF Paging!Dates
  <2> QED
    BY <2>1, <2>2
<1> QED
  BY <1>1, <1>2 DEF Paging!After, Paging!Precedes

Ahead(i, S) == {j \in S : Paging!Precedes(j, i)}

(* A rank is a number: how many rows of the set precede the row. *)
LEMMA RankIs ==
  ASSUME NEW S \in SUBSET Paging!Ids, NEW i
  PROVE  /\ Paging!Rank(i, S) = Cardinality(Ahead(i, S)) /\ Paging!Rank(i, S) \in Nat
         /\ IsFiniteSet(Ahead(i, S)) /\ IsFiniteSet(S) /\ Cardinality(S) \in Nat
<1>1. Ahead(i, S) \in SUBSET Paging!Ids
  BY DEF Ahead
<1>2. IsFiniteSet(Ahead(i, S)) /\ IsFiniteSet(S)
  BY <1>1, FS_Subset, PagingFacts
<1>3. Paging!Rank(i, S) = Cardinality(Ahead(i, S))
  BY SameCardinality, Zenon DEF Paging!Rank, Ahead
<1> QED
  BY <1>2, <1>3, FS_CardinalityType

(* A row that comes first has the smaller rank. *)
LEMMA RankMonotone ==
  ASSUME Dated, NEW S \in SUBSET Paging!Ids, NEW i \in Paging!Ids, NEW j \in Paging!Ids,
         i = j \/ Paging!Precedes(i, j)
  PROVE  Paging!Rank(i, S) <= Paging!Rank(j, S)
<1>1. Ahead(i, S) \in SUBSET Ahead(j, S)
  BY ListOrder DEF Ahead
<1> QED
  BY <1>1, RankIs, FS_Subset

(* More rows, a rank no smaller *)
LEMMA RankGrows ==
  ASSUME NEW S \in SUBSET Paging!Ids, NEW T \in SUBSET S, NEW i \in Paging!Ids
  PROVE  Paging!Rank(i, T) <= Paging!Rank(i, S)
<1>1. Ahead(i, T) \in SUBSET Ahead(i, S)
  BY DEF Ahead
<1> QED
  BY <1>1, RankIs, FS_Subset

(* A rank is below the number of rows. *)
LEMMA RankBelow ==
  ASSUME Dated, NEW S \in SUBSET Paging!Ids, NEW i \in S
  PROVE  Paging!Rank(i, S) < Cardinality(S)
<1>1. Ahead(i, S) \in SUBSET S /\ i \notin Ahead(i, S)
  BY ListOrder DEF Ahead
<1>2. Cardinality(Ahead(i, S)) <= Cardinality(S) /\ Cardinality(Ahead(i, S)) # Cardinality(S)
  BY <1>1, RankIs, FS_Subset
<1> QED
  BY <1>2, RankIs

(* Of the sets of a family of subsets of a finite set one is minimal. *)
LEMMA MinimalSet ==
  ASSUME NEW M, IsFiniteSet(M), NEW U \in SUBSET (SUBSET M), U # {}
  PROVE  \E x \in U : \A y \in U : ~(y \subseteq x /\ y # x)
<1>1. IsWellFoundedOn(StrictSubsetOrdering(M), FiniteSubsetsOf(M))
  BY FS_StrictSubsetOrderingWellFounded
<1>2. U \subseteq FiniteSubsetsOf(M)
  BY FS_Subset DEF FiniteSubsetsOf
<1>3. \E x \in U : \A y \in U : ~(<<y, x>> \in StrictSubsetOrdering(M))
  BY <1>1, <1>2, WFMin
<1> QED
  BY <1>3 DEF StrictSubsetOrdering

(* A set of rows that is not empty has a first one, *)
LEMMA Earliest ==
  ASSUME Dated, NEW S \in SUBSET Paging!Ids, NEW T \in SUBSET S, T # {}
  PROVE  \E m \in T : \A j \in T : ~Paging!Precedes(j, m)
<1> DEFINE U == {Ahead(x, S) : x \in T}
<1>1. U \in SUBSET (SUBSET S) /\ U # {} /\ IsFiniteSet(S)
  BY RankIs DEF Ahead
<1>2. PICK m \in T : \A y \in U : ~(y \subseteq Ahead(m, S) /\ y # Ahead(m, S))
  <2>1. \E x \in U : \A y \in U : ~(y \subseteq x /\ y # x)
    <3> HIDE DEF U
    <3> QED
      BY <1>1, MinimalSet
  <2> QED
    BY <2>1
<1>3. ASSUME NEW j \in T, Paging!Precedes(j, m) PROVE FALSE
  <2>1. Ahead(j, S) \subseteq Ahead(m, S)
    BY <1>3, ListOrder DEF Ahead
  <2>2. j \in Ahead(m, S) /\ j \notin Ahead(j, S)
    BY <1>3, ListOrder DEF Ahead
  <2> QED
    BY <1>2, <2>1, <2>2
<1> QED
  BY <1>3

(* and a last one. *)
LEMMA Latest ==
  ASSUME Dated, NEW S \in SUBSET Paging!Ids, S # {}
  PROVE  \E m \in S : \A j \in S : j = m \/ Paging!Precedes(j, m)
<1> DEFINE Behind(x) == {j \in S : Paging!Precedes(x, j)}
           U == {Behind(x) : x \in S}
<1>1. U \in SUBSET (SUBSET S) /\ U # {} /\ IsFiniteSet(S)
  BY RankIs
<1>2. PICK m \in S : \A y \in U : ~(y \subseteq Behind(m) /\ y # Behind(m))
  <2>1. \E x \in U : \A y \in U : ~(y \subseteq x /\ y # x)
    <3> HIDE DEF U
    <3> QED
      BY <1>1, MinimalSet
  <2> QED
    BY <2>1
<1>3. ASSUME NEW j \in S, Paging!Precedes(m, j) PROVE FALSE
  <2>1. Behind(j) \subseteq Behind(m)
    BY <1>3, ListOrder
  <2>2. j \in Behind(m) /\ j \notin Behind(j)
    BY <1>3, ListOrder
  <2> QED
    BY <1>2, <2>1, <2>2
<1> QED
  BY <1>3, ListOrder

(* A page is full if it leaves a row out, and that row is after all of it. *)
LEMMA FirstFull ==
  ASSUME Dated, NEW S \in SUBSET Paging!Ids, NEW n \in Nat, NEW i \in S, i \notin Paging!First(n, S)
  PROVE  /\ Cardinality(Paging!First(n, S)) >= n
         /\ \A j \in Paging!First(n, S) : Paging!Precedes(j, i)
<1> DEFINE F == Paging!First(n, S)
<1>1. F \in SUBSET S /\ \A j \in S : j \in F <=> Paging!Rank(j, S) < n
  BY DEF Paging!First
<1>2. ASSUME NEW j \in F PROVE Paging!Precedes(j, i)
  <2>1. Paging!Rank(j, S) \in Nat /\ Paging!Rank(i, S) \in Nat
    BY RankIs
  <2>2. ~(Paging!Rank(i, S) <= Paging!Rank(j, S))
    BY <1>1, <2>1
  <2> QED
    BY <1>1, <2>2, RankMonotone, ListOrder
<1>3. PICK m \in S \ F : \A j \in S \ F : ~Paging!Precedes(j, m)
  <2>1. S \ F # {} /\ S \ F \in SUBSET S
    BY <1>1
  <2> QED
    BY <2>1, Earliest
<1>4. Ahead(m, S) \in SUBSET F
  BY <1>3 DEF Ahead
<1>5. Cardinality(Ahead(m, S)) <= Cardinality(F) /\ Cardinality(F) \in Nat
  BY <1>1, <1>4, RankIs, FS_Subset
<1>6. Paging!Rank(m, S) \in Nat /\ ~(Paging!Rank(m, S) < n) /\ Paging!Rank(m, S) = Cardinality(Ahead(m, S))
  BY <1>1, <1>3, RankIs
<1> QED
  BY <1>2, <1>5, <1>6

(* First(n, S) has n rows at most. *)
LEMMA FirstBound ==
  ASSUME Dated, NEW S \in SUBSET Paging!Ids, NEW n \in Nat
  PROVE  Paging!First(n, S) \in SUBSET S /\ Cardinality(Paging!First(n, S)) <= n
<1> DEFINE F == Paging!First(n, S)
<1>1. F \in SUBSET S /\ \A j \in F : Paging!Rank(j, S) < n
  BY DEF Paging!First
<1>2. CASE F = {}
  BY <1>1, <1>2, FS_EmptySet
<1>3. CASE F # {}
  <2>1. PICK m \in F : \A j \in F : j = m \/ Paging!Precedes(j, m)
    BY <1>1, <1>3, Latest
  <2>2. F \in SUBSET (Ahead(m, S) \cup {m})
    BY <1>1, <2>1 DEF Ahead
  <2>3. /\ IsFiniteSet(Ahead(m, S)) /\ Paging!Rank(m, S) = Cardinality(Ahead(m, S))
        /\ Paging!Rank(m, S) \in Nat
    BY RankIs
  <2>4. /\ IsFiniteSet(Ahead(m, S) \cup {m})
        /\ Cardinality(Ahead(m, S) \cup {m}) <= Cardinality(Ahead(m, S)) + 1
        /\ Cardinality(Ahead(m, S) \cup {m}) \in Nat
    <3>1. IsFiniteSet(Ahead(m, S) \cup {m})
      BY <2>3, FS_AddElement
    <3>2. Cardinality(Ahead(m, S) \cup {m}) <= Cardinality(Ahead(m, S)) + 1
      <4>1. m \notin Ahead(m, S)
        BY <1>1, ListOrder DEF Ahead
      <4>2. Cardinality(Ahead(m, S) \cup {m}) = Cardinality(Ahead(m, S)) + 1
        BY <2>3, <4>1, FS_AddElement
      <4> QED
        BY <2>3, <4>2
    <3> QED
      BY <3>1, <3>2, FS_CardinalityType
  <2>5. Cardinality(F) <= Cardinality(Ahead(m, S) \cup {m}) /\ Cardinality(F) \in Nat
    BY <1>1, <2>2, <2>4, FS_Subset, RankIs
  <2>6. Paging!Rank(m, S) < n
    BY <1>1
  <2> QED
    BY <1>1, <2>3, <2>4, <2>5, <2>6
<1> QED
  BY <1>2, <1>3

(* It has all of them if there are no more than n. *)
LEMMA FirstAll ==
  ASSUME Dated, NEW S \in SUBSET Paging!Ids, NEW n \in Nat, Cardinality(S) <= n
  PROVE  Paging!First(n, S) = S
<1>1. ASSUME NEW i \in S PROVE Paging!Rank(i, S) < n
  BY <1>1, RankBelow, RankIs
<1> QED
  BY <1>1 DEF Paging!First

(* What precedes a row of First(n, S) is in it as well. *)
LEMMA FirstPrefix ==
  ASSUME Dated, NEW S \in SUBSET Paging!Ids, NEW n \in Nat, NEW c \in Paging!First(n, S),
         NEW i \in S, i = c \/ Paging!Precedes(i, c)
  PROVE  i \in Paging!First(n, S)
<1>1. c \in S /\ Paging!Rank(c, S) < n
  BY DEF Paging!First
<1>2. Paging!Rank(i, S) <= Paging!Rank(c, S) /\ Paging!Rank(i, S) \in Nat /\ Paging!Rank(c, S) \in Nat
  BY <1>1, RankMonotone, RankIs
<1> QED
  BY <1>1, <1>2 DEF Paging!First

-----------------------------------------------------------------------------
(***************************************************************************)
(* Paging: what a client has seen                                          *)
(***************************************************************************)

(* What the next page may hold: all, or what is after the cursor *)
Unread(i) == reader.cursor # None => Paging!After(i, reader.cursor)

(* A list with cursors shows no row that did not move a second time: what  *)
(* may still come has not been seen.                                       *)
OnceOK(i) ==
  list # "comments" /\ i \notin moved =>
    /\ seen[i] <= 1
    /\ reader.pc \in {"request", "load"} /\ Unread(i) => seen[i] = 0

(* What stayed in its place has been seen or is still to come: after the   *)
(* cursor, after a page that is full, or, of comments, behind the pages    *)
(* read so far.                                                            *)
KeptOK(i) ==
  /\ list = "comments" /\ seen[i] = 0 =>
       /\ reader.pc # "done"
       /\ reader.pc = "request" => (reader.page - 1) * limit <= Paging!Rank(i, visible)
       /\ reader.pc = "count" => reader.page * limit <= Paging!Rank(i, visible)
  /\ list \notin {"comments", "users"} /\ ~torn =>
       /\ reader.pc = "done" \/ ~Unread(i) => seen[i] > 0
       /\ reader.pc = "load" /\ Unread(i) /\ i \notin reader.rows =>
            Cardinality(reader.rows) > limit /\ \A j \in reader.rows : Paging!Precedes(j, i)

PageOK ==
  /\ reader.pc = "count" => list = "comments"
  /\ reader.pc = "load" =>
       /\ list = "feed"
       /\ \A i \in reader.rows : Unread(i)
       /\ ~torn => reader.rows \subseteq visible

PagingOK ==
  /\ Paging!TypeOK /\ PageOK
  /\ \A i \in Paging!Ids : OnceOK(i)
  /\ \A i \in kept : KeptOK(i)

Readers ==
  [pc : {"request", "load", "count", "done"}, cursor : {None} \cup Paging!Cursors,
   page : 1..MaxRows + 1, rows : SUBSET Paging!Ids]

(* The type invariant with the client's record as a member of a set *)
LEMMA PagingShape ==
  Paging!TypeOK <=>
    /\ Dated /\ visible \subseteq Paging!Ids /\ gone \subseteq Paging!Ids \ visible
    /\ reader \in Readers /\ Cardinality(reader.rows) <= limit + 1
    /\ seen \in [Paging!Ids -> 0..2]
    /\ kept \subseteq visible /\ moved \subseteq Paging!Ids /\ torn \in BOOLEAN
<1>1. Paging!Cardinality(reader.rows) = Cardinality(reader.rows)
  BY SameCardinality
<1> QED
  BY <1>1, Zenon DEF Paging!TypeOK, Dated, Readers

(* The same of the next state *)
LEMMA PagingShapeNext ==
  Paging!TypeOK' <=>
    /\ Dated' /\ visible' \subseteq Paging!Ids /\ gone' \subseteq Paging!Ids \ visible'
    /\ reader' \in Readers /\ Cardinality(reader'.rows) <= limit + 1
    /\ seen' \in [Paging!Ids -> 0..2]
    /\ kept' \subseteq visible' /\ moved' \subseteq Paging!Ids /\ torn' \in BOOLEAN
<1>1. Paging!Cardinality(reader'.rows) = Cardinality(reader'.rows)
  BY SameCardinality
<1> QED
  BY <1>1, Zenon DEF Paging!TypeOK, Dated, Readers

(* The client begins before the first row. *)
LEMMA PagingInit == Paging!Init => PagingOK
<1> SUFFICES ASSUME Paging!Init PROVE PagingOK
  OBVIOUS
<1>1. /\ reader.pc = "request" /\ reader.cursor = None /\ reader.page = 1 /\ reader.rows = {}
      /\ reader \in Readers
  <2>1. 1 \in 1..MaxRows + 1
    BY PagingFacts
  <2> QED
    BY <2>1 DEF Paging!Init, Readers
<1>2. \A i \in Paging!Ids : seen[i] = 0
  BY DEF Paging!Init
<1>3. /\ visible \subseteq Paging!Ids /\ kept = visible
  BY DEF Paging!Init
<1>4. Cardinality(reader.rows) <= limit + 1
  BY <1>1, FS_EmptySet, PagingFacts
<1>5. Paging!TypeOK
  <2>1. seen \in [Paging!Ids -> 0..2]
    BY DEF Paging!Init
  <2> QED
    BY <1>1, <1>3, <1>4, <2>1, PagingShape DEF Paging!Init, Dated
<1>6. PageOK /\ \A i \in Paging!Ids : OnceOK(i)
  BY <1>1, <1>2 DEF PageOK, OnceOK
<1>7. ASSUME NEW i \in kept PROVE KeptOK(i)
  <2>1. Paging!Rank(i, visible) \in Nat
    BY <1>3, RankIs
  <2>2. (reader.page - 1) * limit = 0
    BY <1>1, PagingFacts
  <2>3. Unread(i)
    BY <1>1 DEF Unread
  <2> QED
    BY <1>1, <2>1, <2>2, <2>3 DEF KeptOK
<1> QED
  BY <1>5, <1>6, <1>7 DEF PagingOK

(* A page is full or holds all there is. *)
PageOf(rows) ==
  list \notin {"comments", "users"} /\ ~torn =>
    \A i \in kept : Unread(i) /\ i \notin rows =>
      Cardinality(rows) > limit /\ \A j \in rows : Paging!Precedes(j, i)

(* What a request fetches is a first part of what the client has not read  *)
(* yet.                                                                    *)
LEMMA Fetches ==
  ASSUME PagingOK, reader.pc = "request", list # "comments"
  PROVE  /\ Paging!Fetched \subseteq visible /\ \A i \in Paging!Fetched : Unread(i)
         /\ Cardinality(Paging!Fetched) <= limit + 1
         /\ PageOf(Paging!Fetched)
<1> DEFINE M == {i \in visible : reader.cursor # None => Paging!After(i, reader.cursor)}
           n == IF list = "users" /\ reader.cursor # None THEN limit ELSE limit + 1
<1>1. /\ Dated /\ visible \subseteq Paging!Ids /\ kept \subseteq visible
  BY PagingShape DEF PagingOK
<1>2. Paging!Fetched = Paging!First(n, M)
  BY DEF Paging!Fetched
<1>3. M \in SUBSET Paging!Ids /\ n \in Nat /\ n <= limit + 1 /\ (list # "users" => n = limit + 1)
  <2>1. M \in SUBSET Paging!Ids
    BY <1>1
  <2>2. n = limit \/ n = limit + 1
    OBVIOUS
  <2>3. list # "users" => n = limit + 1
    OBVIOUS
  <2> HIDE DEF M, n
  <2> QED
    BY <2>1, <2>2, <2>3, PagingFacts
<1>4. \A i \in M : Unread(i)
  BY DEF Unread
<1>5. \A i \in kept : Unread(i) => i \in M
  BY <1>1 DEF Unread
<1>6. M \subseteq visible
  OBVIOUS
<1> HIDE DEF M, n
<1>7. Paging!First(n, M) \in SUBSET M /\ Cardinality(Paging!First(n, M)) <= n
  BY <1>1, <1>3, FirstBound
<1>8. Cardinality(Paging!First(n, M)) \in Nat
  BY <1>3, <1>7, RankIs
<1>9. ASSUME list \notin {"comments", "users"}, NEW i \in kept, Unread(i), i \notin Paging!First(n, M)
      PROVE  /\ Cardinality(Paging!First(n, M)) > limit
             /\ \A j \in Paging!First(n, M) : Paging!Precedes(j, i)
  <2>1. i \in M /\ n = limit + 1
    BY <1>3, <1>5, <1>9
  <2>2. /\ Cardinality(Paging!First(n, M)) >= n
        /\ \A j \in Paging!First(n, M) : Paging!Precedes(j, i)
    BY <1>1, <1>3, <1>9, <2>1, FirstFull
  <2> QED
    BY <1>8, <2>1, <2>2, PagingFacts
<1>10. PageOf(Paging!Fetched)
  BY <1>2, <1>9 DEF PageOf
<1>11. Cardinality(Paging!Fetched) <= limit + 1
  BY <1>2, <1>3, <1>7, <1>8, PagingFacts
<1>12. Paging!Fetched \subseteq M
  BY <1>2, <1>7
<1> QED
  BY <1>4, <1>6, <1>10, <1>11, <1>12

(* The answer to a query with a cursor *)
LEMMA Answered ==
  ASSUME PagingOK, NEW rows \in SUBSET Paging!Ids, Paging!Answer(rows), Paging!listUnchanged,
         reader.pc \in {"request", "load"}, list # "comments",
         \A i \in rows : Unread(i), PageOf(rows)
  PROVE  PagingOK'
<1> DEFINE F == Paging!First(limit, rows)
<1>1. /\ Dated /\ visible \subseteq Paging!Ids /\ gone \subseteq Paging!Ids \ visible
      /\ reader \in Readers /\ seen \in [Paging!Ids -> 0..2]
      /\ kept \subseteq visible /\ moved \subseteq Paging!Ids /\ torn \in BOOLEAN
  BY PagingShape DEF PagingOK
<1>2. /\ list' = list /\ date' = date /\ visible' = visible /\ gone' = gone /\ kept' = kept
      /\ moved' = moved /\ torn' = torn
  BY DEF Paging!listUnchanged
<1>3. /\ seen' \in [Paging!Ids -> 0..2]
      /\ \A i \in Paging!Ids : seen'[i] = IF seen[i] < 2 /\ i \in F THEN seen[i] + 1 ELSE seen[i]
  <2>1. seen' = [i \in Paging!Ids |-> IF seen[i] < 2 /\ i \in F THEN seen[i] + 1 ELSE seen[i]]
    BY DEF Paging!Answer, Paging!Shown
  <2>2. \A i \in Paging!Ids : seen[i] \in 0..2
    BY <1>1
  <2> HIDE DEF F
  <2> QED
    BY <2>1, <2>2
<1>4. F \in SUBSET rows /\ limit \in Nat
  BY PagingFacts DEF Paging!First
<1>5. Cardinality({}) <= limit + 1
  BY FS_EmptySet, PagingFacts
<1>6. CASE /\ Cardinality(rows) > limit
           /\ \E c \in rows :
                /\ Paging!EndsPage(c, rows)
                /\ reader' = [reader EXCEPT !.pc = "request", !.rows = {},
                                !.cursor = [date |-> Paging!ToMs(date[c]), id |-> c]]
  <2>1. PICK c \in rows :
          /\ Paging!EndsPage(c, rows)
          /\ reader' = [reader EXCEPT !.pc = "request", !.rows = {},
                          !.cursor = [date |-> Paging!ToMs(date[c]), id |-> c]]
    BY <1>6
  <2> DEFINE k == [date |-> Paging!ToMs(date[c]), id |-> c]
  <2>2. c \in Paging!Ids /\ k \in Paging!Cursors /\ k # None
    BY <1>1, AfterCursor, PagingFacts
  <2>3. ASSUME NEW i \in Paging!Ids
        PROVE  /\ Paging!After(i, k) => Paging!Precedes(c, i)
               /\ list \in {"feed", "inbox", "messages"} /\ Paging!Precedes(c, i) => Paging!After(i, k)
    BY <1>1, <2>2, AfterCursor
  <2> HIDE DEF k
  <2>4. /\ reader'.pc = "request" /\ reader'.rows = {} /\ reader'.cursor = k /\ reader'.page = reader.page
        /\ reader' \in Readers
    BY <1>1, <2>1, <2>2 DEF Readers, k
  <2>5. Paging!TypeOK'
    <3>1. Dated'
      BY <1>1, <1>2 DEF Dated, Paging!DatesOf
    <3> QED
      BY <1>1, <1>2, <1>3, <1>5, <2>4, <3>1, PagingShapeNext
  <2>6. PageOK'
    BY <2>4 DEF PageOK
  <2>7. c \in F /\ \A j \in F : j = c \/ Paging!Precedes(j, c)
    BY <1>1, <1>4, <2>1, <2>2, ListOrder DEF Paging!EndsPage
  <2>8. ASSUME NEW i \in Paging!Ids PROVE Unread(i)' <=> Paging!After(i, k)
    BY <1>2, <2>2, <2>4 DEF Unread, Paging!After
  <2>9. Unread(c)
    BY <1>4, <2>7
  <2>10. ASSUME NEW i \in Paging!Ids, Paging!Precedes(c, i) PROVE Unread(i) /\ i \notin F
    <3>1. i \notin F
      BY <1>1, <1>4, <2>2, <2>7, <2>10, ListOrder
    <3>2. ASSUME reader.cursor # None PROVE Paging!After(i, reader.cursor)
      <4>1. reader.cursor \in Paging!Cursors /\ Paging!After(c, reader.cursor)
        BY <1>1, <2>9, <3>2 DEF Readers, Unread
      <4> QED
        BY <1>1, <2>2, <2>10, <4>1, AfterLater
    <3> QED
      BY <3>1, <3>2 DEF Unread
  <2>11. ASSUME NEW i \in Paging!Ids PROVE OnceOK(i)'
    <3> SUFFICES ASSUME i \notin moved
                 PROVE  seen'[i] <= 1 /\ (Paging!After(i, k) => seen'[i] = 0)
      BY <1>2, <2>8 DEF OnceOK
    <3>1. seen[i] <= 1 /\ (Unread(i) => seen[i] = 0) /\ seen[i] \in 0..2
      BY <1>1 DEF PagingOK, OnceOK
    <3>2. i \in F => Unread(i)
      BY <1>4
    <3>3. Paging!After(i, k) => Unread(i) /\ i \notin F
      BY <2>3, <2>10
    <3> HIDE DEF F
    <3> QED
      BY <1>3, <3>1, <3>2, <3>3
  <2>12. ASSUME NEW i \in kept' PROVE KeptOK(i)'
    <3>1. i \in kept /\ i \in Paging!Ids /\ KeptOK(i) /\ seen[i] \in 0..2
      BY <1>1, <1>2 DEF PagingOK
    <3> SUFFICES ASSUME list \notin {"comments", "users"}, ~torn, ~Paging!After(i, k)
                 PROVE  seen'[i] > 0
      BY <1>2, <2>4, <2>8, <3>1 DEF KeptOK
    <3>2. ~Paging!Precedes(c, i)
      BY <1>1, <2>3, <3>1 DEF Dated, Paging!Lists
    <3>3. i = c \/ Paging!Precedes(i, c)
      BY <1>1, <2>2, <3>1, <3>2, ListOrder
    <3>4. CASE ~Unread(i)
      <4>1. seen[i] > 0
        BY <3>1, <3>4 DEF KeptOK
      <4> HIDE DEF F
      <4> QED
        BY <1>3, <3>1, <4>1
    <3>5. CASE Unread(i)
      <4>1. i \in rows
        <5>1. c \in rows
          BY <1>4, <2>7
        <5> QED
          BY <3>1, <3>2, <3>5, <5>1 DEF PageOf
      <4>2. i \in F
        BY <1>1, <1>4, <2>7, <3>3, <4>1, FirstPrefix
      <4> HIDE DEF F
      <4> QED
        BY <1>3, <3>1, <4>2
    <3> QED
      BY <3>4, <3>5
  <2> QED
    BY <1>1, <1>2, <2>5, <2>6, <2>11, <2>12 DEF PagingOK
<1>7. CASE Cardinality(rows) <= limit /\ reader' = [reader EXCEPT !.pc = "done", !.rows = {}]
  <2>1. /\ reader'.pc = "done" /\ reader'.rows = {} /\ reader' \in Readers
    BY <1>1, <1>7 DEF Readers
  <2>2. Paging!TypeOK'
    <3>1. Dated'
      BY <1>1, <1>2 DEF Dated, Paging!DatesOf
    <3> QED
      BY <1>1, <1>2, <1>3, <1>5, <2>1, <3>1, PagingShapeNext
  <2>3. PageOK'
    BY <2>1 DEF PageOK
  <2>4. ASSUME NEW i \in Paging!Ids PROVE OnceOK(i)'
    <3> SUFFICES ASSUME i \notin moved PROVE seen'[i] <= 1
      BY <1>2, <2>1 DEF OnceOK
    <3>1. seen[i] <= 1 /\ (Unread(i) => seen[i] = 0) /\ seen[i] \in 0..2
      BY <1>1 DEF PagingOK, OnceOK
    <3>2. i \in F => Unread(i)
      BY <1>4
    <3> HIDE DEF F
    <3> QED
      BY <1>3, <3>1, <3>2
  <2>5. ASSUME NEW i \in kept' PROVE KeptOK(i)'
    <3>1. i \in kept /\ i \in Paging!Ids /\ KeptOK(i) /\ seen[i] \in 0..2
      BY <1>1, <1>2 DEF PagingOK
    <3> SUFFICES ASSUME list \notin {"comments", "users"}, ~torn PROVE seen'[i] > 0
      BY <1>2, <2>1 DEF KeptOK
    <3>2. CASE ~Unread(i)
      <4>1. seen[i] > 0
        BY <3>1, <3>2 DEF KeptOK
      <4> HIDE DEF F
      <4> QED
        BY <1>3, <3>1, <4>1
    <3>3. CASE Unread(i)
      <4>1. i \in rows
        BY <1>4, <1>7, <3>1, <3>3, RankIs DEF PageOf
      <4>2. i \in F
        BY <1>1, <1>4, <1>7, <4>1, FirstAll
      <4> HIDE DEF F
      <4> QED
        BY <1>3, <3>1, <4>2
    <3> QED
      BY <3>2, <3>3
  <2> QED
    BY <1>1, <1>2, <2>2, <2>3, <2>4, <2>5 DEF PagingOK
<1> QED
  BY <1>6, <1>7, SameCardinality DEF Paging!Answer

(* Every page, and every row that comes, goes or moves, keeps PagingOK. *)
LEMMA PagingStep == PagingOK /\ [Paging!Next]_listVars => PagingOK'
<1> SUFFICES ASSUME PagingOK, [Paging!Next]_listVars PROVE PagingOK'
  OBVIOUS
<1>1. /\ Dated /\ visible \subseteq Paging!Ids /\ gone \subseteq Paging!Ids \ visible
      /\ reader \in Readers /\ Cardinality(reader.rows) <= limit + 1
      /\ seen \in [Paging!Ids -> 0..2]
      /\ kept \subseteq visible /\ moved \subseteq Paging!Ids /\ torn \in BOOLEAN
      /\ reader.page \in 1..MaxRows + 1 /\ reader.rows \in SUBSET Paging!Ids
  BY PagingShape DEF PagingOK, Readers
<1>2. CASE UNCHANGED listVars
  <2>1. /\ list' = list /\ date' = date /\ visible' = visible /\ gone' = gone /\ reader' = reader
        /\ seen' = seen /\ kept' = kept /\ moved' = moved /\ torn' = torn
    BY <1>2 DEF listVars
  <2>2. Paging!TypeOK'
    <3>1. Dated'
      BY <1>1, <2>1 DEF Dated, Paging!DatesOf
    <3> QED
      BY <1>1, <2>1, <3>1, PagingShapeNext
  <2>3. PageOK' /\ \A i \in Paging!Ids : OnceOK(i)'
    BY <2>1 DEF PagingOK, PageOK, OnceOK, Unread, Paging!After
  <2>4. ASSUME NEW i \in kept' PROVE KeptOK(i)'
    <3>1. KeptOK(i)
      BY <2>1 DEF PagingOK
    <3>2. (Unread(i)' <=> Unread(i)) /\ Paging!Rank(i, visible)' = Paging!Rank(i, visible)
      BY <2>1 DEF Unread, Paging!After, Paging!Rank, Paging!Precedes
    <3>3. ASSUME NEW j PROVE Paging!Precedes(j, i)' <=> Paging!Precedes(j, i)
      BY <2>1 DEF Paging!Precedes
    <3> QED
      BY <2>1, <3>1, <3>2, <3>3 DEF KeptOK
  <2> QED
    BY <2>1, <2>2, <2>3, <2>4 DEF PagingOK
<1>3. CASE Paging!ReadPage
  <2>1. /\ list # "comments" /\ reader.pc = "request"
        /\ Paging!Answer(Paging!Fetched) /\ Paging!listUnchanged
    BY <1>3 DEF Paging!ReadPage
  <2>2. /\ Paging!Fetched \in SUBSET Paging!Ids /\ \A i \in Paging!Fetched : Unread(i)
        /\ PageOf(Paging!Fetched)
    BY <1>1, <2>1, Fetches
  <2> QED
    BY <2>1, <2>2, Answered
<1>4. CASE Paging!LoadRows
  <2>1. /\ reader.pc = "load" /\ list = "feed" /\ Paging!listUnchanged
        /\ Paging!Answer({i \in reader.rows : i \in visible})
    <3>1. {i \in reader.rows : i \in visible} = reader.rows \cap visible
      OBVIOUS
    <3> QED
      BY <1>4, <3>1 DEF Paging!LoadRows, PagingOK, PageOK
  <2> DEFINE rows == reader.rows \cap visible
  <2>2. rows \in SUBSET Paging!Ids /\ \A i \in rows : Unread(i)
    BY <1>1, <2>1 DEF PagingOK, PageOK
  <2>3. PageOf(rows)
    <3> SUFFICES ASSUME ~torn, NEW i \in kept, Unread(i), i \notin rows
                 PROVE  Cardinality(rows) > limit /\ \A j \in rows : Paging!Precedes(j, i)
      BY DEF PageOf
    <3>1. rows = reader.rows
      BY <2>1 DEF PagingOK, PageOK
    <3> HIDE DEF rows
    <3> QED
      BY <2>1, <3>1 DEF PagingOK, KeptOK
  <2>4. Paging!Answer(rows)
    BY <1>4 DEF Paging!LoadRows
  <2> HIDE DEF rows
  <2> QED
    BY <2>1, <2>2, <2>3, <2>4, Answered
<1>5. CASE Paging!SelectIds
  <2>1. /\ list = "feed" /\ reader.pc = "request" /\ seen' = seen /\ Paging!listUnchanged
        /\ list' = list /\ date' = date /\ visible' = visible /\ gone' = gone /\ kept' = kept
        /\ moved' = moved /\ torn' = torn
    BY <1>5 DEF Paging!SelectIds, Paging!listUnchanged
  <2>2. /\ Paging!Fetched \subseteq visible /\ \A i \in Paging!Fetched : Unread(i)
        /\ Cardinality(Paging!Fetched) <= limit + 1
        /\ PageOf(Paging!Fetched)
    BY <2>1, Fetches
  <2>3. PICK F \in SUBSET Paging!Ids : F = Paging!Fetched
    BY <1>1, <2>2
  <2>4. /\ reader'.pc = "load" /\ reader'.rows = F /\ reader'.cursor = reader.cursor
        /\ reader' \in Readers
    BY <1>1, <1>5, <2>3 DEF Paging!SelectIds, Readers
  <2>5. ASSUME NEW i \in Paging!Ids PROVE Unread(i)' <=> Unread(i)
    BY <2>1, <2>4 DEF Unread, Paging!After
  <2>6. Paging!TypeOK'
    <3>1. Dated'
      BY <1>1, <2>1 DEF Dated, Paging!DatesOf
    <3> QED
      BY <1>1, <2>1, <2>2, <2>3, <2>4, <3>1, PagingShapeNext
  <2>7. PageOK'
    BY <2>1, <2>2, <2>3, <2>4, <2>5 DEF PageOK
  <2>8. ASSUME NEW i \in Paging!Ids PROVE OnceOK(i)'
    BY <2>1, <2>4, <2>5 DEF PagingOK, OnceOK
  <2>9. ASSUME NEW i \in kept' PROVE KeptOK(i)'
    <3>1. i \in kept /\ i \in Paging!Ids /\ KeptOK(i)
      BY <1>1, <2>1 DEF PagingOK
    <3>2. ~torn /\ ~Unread(i) => seen[i] > 0
      BY <2>1, <3>1 DEF KeptOK
    <3>3. ~torn /\ Unread(i) /\ i \notin F =>
            Cardinality(F) > limit /\ \A j \in F : Paging!Precedes(j, i)
      BY <2>1, <2>2, <2>3, <3>1 DEF PageOf
    <3>4. ASSUME NEW j PROVE Paging!Precedes(j, i)' <=> Paging!Precedes(j, i)
      BY <2>1 DEF Paging!Precedes
    <3> QED
      BY <2>1, <2>4, <2>5, <3>1, <3>2, <3>3, <3>4 DEF KeptOK
  <2> QED
    BY <2>1, <2>6, <2>7, <2>8, <2>9 DEF PagingOK
<1>6. CASE Paging!ReadComments
  <2>1. /\ list = "comments" /\ reader.pc = "request" /\ Paging!Shown(Paging!Fetched)
        /\ list' = list /\ date' = date /\ visible' = visible /\ gone' = gone /\ kept' = kept
        /\ moved' = moved /\ torn' = torn /\ reader' = [reader EXCEPT !.pc = "count"]
    BY <1>6 DEF Paging!ReadComments, Paging!listUnchanged
  <2>2. /\ reader'.pc = "count" /\ reader'.page = reader.page /\ reader'.rows = reader.rows
        /\ reader' \in Readers
    BY <1>1, <2>1 DEF Readers
  <2>3. PICK F : F = Paging!Fetched
    OBVIOUS
  <2>4. /\ seen' \in [Paging!Ids -> 0..2]
        /\ \A i \in Paging!Ids : seen'[i] = IF seen[i] < 2 /\ i \in F THEN seen[i] + 1 ELSE seen[i]
    <3>1. seen' = [i \in Paging!Ids |-> IF seen[i] < 2 /\ i \in F THEN seen[i] + 1 ELSE seen[i]]
      BY <2>1, <2>3 DEF Paging!Shown
    <3>2. \A i \in Paging!Ids : seen[i] \in 0..2
      BY <1>1
    <3> QED
      BY <3>1, <3>2
  <2>5. Paging!TypeOK'
    <3>1. Dated'
      BY <1>1, <2>1 DEF Dated, Paging!DatesOf
    <3> QED
      BY <1>1, <2>1, <2>2, <2>4, <3>1, PagingShapeNext
  <2>6. PageOK' /\ \A i \in Paging!Ids : OnceOK(i)'
    BY <2>1, <2>2 DEF PageOK, OnceOK
  <2>7. ASSUME NEW i \in kept' PROVE KeptOK(i)'
    <3>1. i \in kept /\ i \in visible /\ i \in Paging!Ids /\ KeptOK(i) /\ seen[i] \in 0..2
      BY <1>1, <2>1 DEF PagingOK
    <3> SUFFICES ASSUME seen'[i] = 0 PROVE reader.page * limit <= Paging!Rank(i, visible)
      <4>1. Paging!Rank(i, visible)' = Paging!Rank(i, visible)
        BY <2>1 DEF Paging!Rank, Paging!Precedes
      <4> QED
        BY <2>1, <2>2, <4>1 DEF KeptOK
    <3>2. seen[i] = 0 /\ i \notin F
      BY <2>4, <3>1
    <3>3. (reader.page - 1) * limit <= Paging!Rank(i, visible)
      BY <2>1, <3>1, <3>2 DEF KeptOK
    <3>4. /\ Paging!Rank(i, visible) \in Nat /\ reader.page * limit \in Nat
          /\ (reader.page - 1) * limit \in Nat
      <4>1. reader.page \in Nat /\ reader.page - 1 \in Nat
        BY <1>1, PagingFacts
      <4>2. reader.page * limit \in Nat /\ (reader.page - 1) * limit \in Nat
        BY <4>1, PagingFacts
      <4>3. Paging!Rank(i, visible) \in Nat
        BY <1>1, RankIs
      <4> QED
        BY <4>2, <4>3
    <3>5. i \notin Paging!First(reader.page * limit, visible) \/ i \in Paging!First((reader.page - 1) * limit, visible)
      BY <2>1, <2>3, <3>2 DEF Paging!Fetched
    <3>6. i \notin Paging!First((reader.page - 1) * limit, visible)
      BY <3>3, <3>4 DEF Paging!First
    <3> QED
      BY <3>1, <3>4, <3>5, <3>6 DEF Paging!First
  <2> QED
    BY <2>1, <2>5, <2>6, <2>7 DEF PagingOK
<1>7. CASE Paging!CountComments
  <2>1. /\ list = "comments" /\ reader.pc = "count" /\ seen' = seen
        /\ list' = list /\ date' = date /\ visible' = visible /\ gone' = gone /\ kept' = kept
        /\ moved' = moved /\ torn' = torn
    BY <1>7 DEF Paging!CountComments, Paging!listUnchanged, PagingOK, PageOK
  <2>2. /\ Cardinality(visible) \in Nat /\ Cardinality(visible) <= MaxRows
        /\ Paging!Cardinality(visible) = Cardinality(visible)
    BY <1>1, RankIs, FS_Subset, SameCardinality, PagingFacts
  <2>3. reader.page * limit \in Nat /\ reader.page <= reader.page * limit
    BY <1>1, PagingFacts
  <2>4. /\ reader'.rows = reader.rows /\ reader' \in Readers
        /\ \/ reader'.pc = "request" /\ reader'.page = reader.page + 1
           \/ reader'.pc = "done" /\ Cardinality(visible) <= reader.page * limit
    <3>1. CASE reader.page * limit < Cardinality(visible)
      <4>1. reader.page + 1 \in 1..MaxRows + 1
        BY <1>1, <2>2, <2>3, <3>1, PagingFacts
      <4>2. reader' = [reader EXCEPT !.pc = "request", !.page = reader.page + 1]
        BY <1>7, <2>2, <3>1 DEF Paging!CountComments
      <4> QED
        BY <1>1, <4>1, <4>2 DEF Readers
    <3>2. CASE ~(reader.page * limit < Cardinality(visible))
      <4>1. reader' = [reader EXCEPT !.pc = "done"]
        BY <1>7, <2>2, <3>2 DEF Paging!CountComments
      <4>2. Cardinality(visible) <= reader.page * limit
        BY <2>2, <2>3, <3>2
      <4> QED
        BY <1>1, <4>1, <4>2 DEF Readers
    <3> QED
      BY <3>1, <3>2
  <2>5. Paging!TypeOK'
    <3>1. Dated'
      BY <1>1, <2>1 DEF Dated, Paging!DatesOf
    <3> QED
      BY <1>1, <2>1, <2>4, <3>1, PagingShapeNext
  <2>6. PageOK' /\ \A i \in Paging!Ids : OnceOK(i)'
    BY <2>1, <2>4 DEF PageOK, OnceOK
  <2>7. ASSUME NEW i \in kept' PROVE KeptOK(i)'
    <3>1. i \in kept /\ i \in visible /\ i \in Paging!Ids /\ KeptOK(i)
      BY <1>1, <2>1 DEF PagingOK
    <3>2. Paging!Rank(i, visible)' = Paging!Rank(i, visible)
      BY <2>1 DEF Paging!Rank, Paging!Precedes
    <3>3. Paging!Rank(i, visible) \in Nat /\ Paging!Rank(i, visible) < Cardinality(visible)
      BY <1>1, <3>1, RankIs, RankBelow
    <3>4. seen[i] = 0 => reader.page * limit <= Paging!Rank(i, visible)
      BY <2>1, <3>1 DEF KeptOK
    <3>5. CASE reader'.pc = "request" /\ reader'.page = reader.page + 1
      <4>1. reader'.page - 1 = reader.page
        BY <1>1, <3>5
      <4> QED
        BY <2>1, <3>2, <3>4, <3>5, <4>1 DEF KeptOK
    <3>6. CASE reader'.pc = "done" /\ Cardinality(visible) <= reader.page * limit
      <4>1. seen[i] # 0
        BY <2>2, <2>3, <3>3, <3>4, <3>6
      <4> QED
        BY <2>1, <4>1 DEF KeptOK
    <3> QED
      BY <2>4, <3>5, <3>6
  <2> QED
    BY <2>1, <2>5, <2>6, <2>7 DEF PagingOK
<1>8. ASSUME NEW r \in Paging!Ids, Paging!Appear(r) PROVE PagingOK'
  <2>1. /\ visible' = visible \cup {r} /\ r \notin visible /\ r \notin gone
        /\ list' = list /\ date' = date /\ gone' = gone /\ reader' = reader
        /\ seen' = seen /\ kept' = kept /\ moved' = moved /\ torn' = torn
    BY <1>8 DEF Paging!Appear, Paging!historyVars
  <2>2. Paging!TypeOK'
    <3>1. Dated'
      BY <1>1, <2>1 DEF Dated, Paging!DatesOf
    <3> QED
      BY <1>1, <2>1, <3>1, PagingShapeNext
  <2>3. PageOK' /\ \A i \in Paging!Ids : OnceOK(i)'
    BY <2>1 DEF PagingOK, PageOK, OnceOK, Unread, Paging!After
  <2>4. ASSUME NEW i \in kept' PROVE KeptOK(i)'
    <3>1. i \in kept /\ i \in Paging!Ids /\ KeptOK(i)
      BY <1>1, <2>1 DEF PagingOK
    <3>2. Paging!Rank(i, visible)' = Paging!Rank(i, visible \cup {r})
      BY <2>1 DEF Paging!Rank, Paging!Precedes
    <3>3. visible \cup {r} \in SUBSET Paging!Ids /\ visible \in SUBSET (visible \cup {r})
      BY <1>1
    <3>4. Paging!Rank(i, visible) <= Paging!Rank(i, visible \cup {r})
      BY <3>1, <3>3, RankGrows
    <3>5. /\ Paging!Rank(i, visible) \in Nat /\ Paging!Rank(i, visible \cup {r}) \in Nat
          /\ reader.page * limit \in Nat /\ (reader.page - 1) * limit \in Nat
      <4>1. reader.page \in Nat /\ reader.page - 1 \in Nat
        BY <1>1, PagingFacts
      <4>2. reader.page * limit \in Nat /\ (reader.page - 1) * limit \in Nat
        BY <4>1, PagingFacts
      <4>3. Paging!Rank(i, visible) \in Nat
        BY <1>1, RankIs
      <4>4. Paging!Rank(i, visible \cup {r}) \in Nat
        BY <3>3, RankIs
      <4> QED
        BY <4>2, <4>3, <4>4
    <3>6. \A n \in Nat : n <= Paging!Rank(i, visible) => n <= Paging!Rank(i, visible)'
      BY <3>2, <3>4, <3>5
    <3>7. Unread(i)' <=> Unread(i)
      BY <2>1 DEF Unread, Paging!After
    <3>8. ASSUME NEW j PROVE Paging!Precedes(j, i)' <=> Paging!Precedes(j, i)
      BY <2>1 DEF Paging!Precedes
    <3> QED
      BY <2>1, <3>1, <3>5, <3>6, <3>7, <3>8 DEF KeptOK
  <2> QED
    BY <2>1, <2>2, <2>3, <2>4 DEF PagingOK
<1>9. ASSUME NEW r \in Paging!Ids, Paging!Delete(r) \/ Paging!Unsubscribe(r) PROVE PagingOK'
  <2>1. /\ list \in {"feed", "users"} /\ r \in visible
        /\ visible' = visible \ {r} /\ kept' = kept \ {r}
        /\ torn' = (torn \/ (reader.pc = "load" /\ r \in reader.rows))
        /\ list' = list /\ date' = date /\ reader' = reader /\ seen' = seen /\ moved' = moved
    BY <1>9 DEF Paging!Delete, Paging!Unsubscribe, Paging!Hide
  <2>2. gone' \subseteq gone \cup {r}
    BY <1>9 DEF Paging!Delete, Paging!Unsubscribe
  <2>3. Paging!TypeOK'
    <3>1. Dated'
      BY <1>1, <2>1 DEF Dated, Paging!DatesOf
    <3> QED
      BY <1>1, <2>1, <2>2, <3>1, PagingShapeNext
  <2>4. \A i \in Paging!Ids : OnceOK(i)'
    BY <2>1 DEF PagingOK, OnceOK, Unread, Paging!After
  <2>5. PageOK'
    BY <1>1, <2>1 DEF PagingOK, PageOK, Unread, Paging!After
  <2>6. ASSUME NEW i \in kept' PROVE KeptOK(i)'
    <3>1. i \in kept /\ KeptOK(i)
      BY <2>1 DEF PagingOK
    <3>2. Unread(i)' <=> Unread(i)
      BY <2>1 DEF Unread, Paging!After
    <3>3. ASSUME NEW j PROVE Paging!Precedes(j, i)' <=> Paging!Precedes(j, i)
      BY <2>1 DEF Paging!Precedes
    <3> QED
      BY <2>1, <3>1, <3>2, <3>3 DEF KeptOK
  <2> QED
    BY <2>1, <2>3, <2>4, <2>5, <2>6 DEF PagingOK
<1>10. ASSUME NEW r \in Paging!Ids, Paging!Touch(r) PROVE PagingOK'
  <2>1. PICK t \in Paging!DatesOf(list) : date' = [date EXCEPT ![r] = t]
    BY <1>10 DEF Paging!Touch
  <2>2. /\ list = "inbox" /\ kept' = kept \ {r} /\ moved' = moved \cup {r}
        /\ list' = list /\ visible' = visible /\ gone' = gone /\ reader' = reader
        /\ seen' = seen /\ torn' = torn
    BY <1>10 DEF Paging!Touch
  <2>3. Dated' /\ \A i \in Paging!Ids \ {r} : date'[i] = date[i]
    BY <1>1, <2>1, <2>2 DEF Dated, Paging!DatesOf
  <2>4. Paging!TypeOK'
    BY <1>1, <2>2, <2>3, PagingShapeNext
  <2>5. PageOK' /\ reader.pc # "load"
    BY <2>2 DEF PagingOK, PageOK
  <2>6. ASSUME NEW i \in Paging!Ids \ {r} PROVE Unread(i)' <=> Unread(i)
    BY <2>2, <2>3 DEF Unread, Paging!After
  <2>7. ASSUME NEW i \in Paging!Ids PROVE OnceOK(i)'
    BY <2>2, <2>6 DEF PagingOK, OnceOK
  <2>8. ASSUME NEW i \in kept' PROVE KeptOK(i)'
    <3>1. i \in kept /\ i \in Paging!Ids \ {r} /\ KeptOK(i)
      BY <1>1, <2>2 DEF PagingOK
    <3> QED
      BY <2>2, <2>5, <2>6, <3>1 DEF KeptOK
  <2> QED
    BY <2>2, <2>4, <2>5, <2>7, <2>8 DEF PagingOK
<1> QED
  BY <1>2, <1>3, <1>4, <1>5, <1>6, <1>7, <1>8, <1>9, <1>10 DEF Paging!Next

(* Whatever comes, goes and moves, and whatever the page size: a client    *)
(* that has read a list to its end has seen every row that stayed in its   *)
(* place (the users, and a feed torn between two statements, excepted),    *)
(* and no row of a list with cursors comes twice unless it moved.          *)
THEOREM PagesTheorem == Spec => []PagesExact
<1>1. PagingOK => PagesExact
  <2> SUFFICES ASSUME PagingOK
               PROVE  /\ reader.pc = "done" /\ list # "users" /\ ~torn => \A i \in kept : seen[i] > 0
                      /\ list # "comments" => \A i \in Paging!Ids \ moved : seen[i] <= 1
    BY DEF PagesExact, Paging!PagesExact
  <2>1. ASSUME reader.pc = "done", list # "users", ~torn, NEW i \in kept PROVE seen[i] > 0
    <3>1. KeptOK(i) /\ seen[i] \in 0..2
      BY PagingShape DEF PagingOK
    <3> QED
      BY <2>1, <3>1 DEF KeptOK
  <2>2. list # "comments" => \A i \in Paging!Ids \ moved : seen[i] <= 1
    BY DEF PagingOK, OnceOK
  <2> QED
    BY <2>1, <2>2
<1>2. [Next]_vars => [Paging!Next]_listVars
  BY DEF Next, vars, listVars
<1> QED
  BY <1>1, <1>2, PagingInit, PagingStep, PTL DEF Spec, Init

-----------------------------------------------------------------------------
(* The four services keep their state well formed. *)
THEOREM ServicesTypes == Spec => []TypeOK
<1>1. AvatarOK /\ PrefOK /\ MailsOK /\ MailsBounded /\ LimitsOK /\ PagingOK => TypeOK
  BY NotificationsTyped DEF TypeOK, AvatarOK, LimitsOK, PagingOK
<1>2. [Next]_vars => /\ [AvatarUpload!Next]_avatarVars /\ [Notifications!Next]_prefVars
                     /\ [RateLimits!Next]_limitVars /\ [Paging!Next]_listVars
  BY DEF Next, vars, avatarVars, prefVars, limitVars, listVars
<1> QED
  BY <1>1, <1>2, AvatarInit, AvatarStep, PrefInit, PrefStep, MailsInit, MailsStep, BoundedInit, BoundedStep,
     LimitsInit, LimitsStep, PagingInit, PagingStep, PTL DEF Spec, Init
=============================================================================
