---------------------------- MODULE AvatarUpload ----------------------------
(***************************************************************************)
(* AvatarUploadService for one user over the files of LocalStorageAdapter, *)
(* beside the other calls that save the user's row.  An upload reads the   *)
(* user, deletes the file of the old avatar, writes the new one and saves  *)
(* its URL; a profile edit may save any URL, or none; every other save of  *)
(* the row writes back the URL it has read.  save is a SELECT, which finds *)
(* whether the URL differs, and an UPDATE if it does.                      *)
(*                                                                         *)
(* A URL is that of an upload, numbered in order, or one of Elsewhere: of  *)
(* another user's file, which is in the same directory, or of no file.     *)
(***************************************************************************)
EXTENDS Naturals, FiniteSets

CONSTANTS
  Requests,   \* calls that may be in flight together
  Elsewhere,  \* URLs of no upload of this user
  MaxUploads  \* bound on uploads

AvatarUploadAssumption == MaxUploads \in Nat /\ Elsewhere \cap Nat = {}

VARIABLES
  avatarUrl,  \* the user's row; 0 is null
  files,      \* files in the upload directory, by their URL
  uploads,    \* uploads so far
  avatarReq,  \* calls in flight
  \* History, read by the property only.
  strays,     \* uploads whose file nobody will delete
  unsure      \* whether the URL is one no upload has just saved, or its file
              \* was deleted by an upload that died

avatarVars == <<avatarUrl, files, uploads, avatarReq, strays, unsure>>

Urls == 0..MaxUploads \cup Elsewhere
Idle == [pc |-> "idle", op |-> "edit", url |-> 0, old |-> 0, differs |-> FALSE]
(* url is the URL to save, old that of the file an upload deletes.         *)
Call == [pc : {"idle", "delete", "save", "select", "update"}, op : {"upload", "edit"},
         url : Urls, old : Urls, differs : BOOLEAN]

TypeOK ==
  /\ uploads \in 0..MaxUploads
  /\ avatarUrl \in 0..uploads \cup Elsewhere
  /\ files \subseteq 1..uploads \cup Elsewhere
  /\ avatarReq \in [Requests -> Call]
  /\ strays \subseteq 1..uploads
  /\ unsure \in BOOLEAN

Init ==
  /\ avatarUrl = 0 /\ uploads = 0
  /\ files \in SUBSET Elsewhere
  /\ avatarReq = [r \in Requests |-> Idle]
  /\ strays = {} /\ unsure = FALSE

-----------------------------------------------------------------------------
Uploading == {r \in Requests : avatarReq[r].pc # "idle" /\ avatarReq[r].op = "upload"}
(* A client cannot guess the random name of a file it has not been told. *)
Known == (0..uploads \cup Elsewhere) \ {avatarReq[r].url : r \in Uploading}

Begin(r, call) ==
  /\ avatarReq[r].pc = "idle"
  /\ avatarReq' = [avatarReq EXCEPT ![r] = call]
  /\ UNCHANGED <<avatarUrl, files, strays, unsure>>

Goto(r, step) ==
  /\ avatarReq' = [avatarReq EXCEPT ![r].pc = step]
  /\ UNCHANGED <<avatarUrl, uploads, unsure>>

(* POST /users/me/avatar: the checks of the file leave no trace. *)
uploadAvatar(r) ==
  /\ uploads < MaxUploads
  /\ uploads' = uploads + 1
  /\ Begin(r, [Idle EXCEPT !.pc = IF avatarUrl = 0 THEN "save" ELSE "delete", !.op = "upload",
                           !.url = uploads', !.old = avatarUrl])

\* Mutant: the old file stays.
DeleteOld_Keeps(r) ==
  /\ avatarReq[r].pc = "delete"
  /\ strays' = strays \ {avatarReq[r].old}
  /\ Goto(r, "save")
  /\ UNCHANGED files

(* delete unlinks whatever file has the URL's last part for a name, and    *)
(* ignores that there is none.                                             *)
DeleteOld(r) ==
  /\ avatarReq[r].pc = "delete"
  /\ files' = files \ {avatarReq[r].old}
  /\ strays' = strays \ {avatarReq[r].old}
  /\ Goto(r, "save")

SaveFile(r) ==
  /\ avatarReq[r].pc = "save"
  /\ files' = files \cup {avatarReq[r].url}
  /\ Goto(r, "select")
  /\ UNCHANGED strays

(* PATCH /users/:id/profile with an avatarUrl, or null; without one the    *)
(* URL is undefined in the entity, and save leaves it out.                 *)
updateProfile(r, url) ==
  /\ url \in Known
  /\ Begin(r, [Idle EXCEPT !.pc = "select", !.url = url])
  /\ UNCHANGED uploads

(* PUT /users/:id, and every other save of a loaded user *)
updateUser(r) ==
  /\ Begin(r, [Idle EXCEPT !.pc = "select", !.url = avatarUrl])
  /\ UNCHANGED uploads

SaveSelect(r) ==
  /\ avatarReq[r].pc = "select"
  /\ avatarReq' = [avatarReq EXCEPT ![r].pc = "update",
                                    ![r].differs = avatarReq[r].url # avatarUrl]
  /\ UNCHANGED <<avatarUrl, files, uploads, strays, unsure>>

(* A URL that is replaced leaves its file behind unless the call is the    *)
(* upload that has deleted it.                                             *)
SaveUpdate(r) ==
  LET c == avatarReq[r]
      deleted == c.op = "upload" /\ c.old = avatarUrl IN
  /\ c.pc = "update"
  /\ avatarUrl' = IF c.differs THEN c.url ELSE avatarUrl
  /\ strays' = IF avatarUrl' # avatarUrl /\ ~deleted THEN strays \cup ({avatarUrl} \cap 1..uploads)
               ELSE strays
  /\ unsure' = IF c.differs THEN c.op # "upload" ELSE unsure
  /\ avatarReq' = [avatarReq EXCEPT ![r] = Idle]
  /\ UNCHANGED <<files, uploads>>

(* A statement or a file operation fails, or the process restarts. *)
Die(r) ==
  LET c == avatarReq[r] IN
  /\ c.pc # "idle"
  /\ strays' = IF r \in Uploading /\ c.pc \in {"select", "update"} THEN strays \cup {c.url} ELSE strays
  /\ unsure' = (unsure \/ (r \in Uploading /\ c.pc # "delete" /\ c.old = avatarUrl))
  /\ avatarReq' = [avatarReq EXCEPT ![r] = Idle]
  /\ UNCHANGED <<avatarUrl, files, uploads>>

Next ==
  \E r \in Requests :
    \/ uploadAvatar(r) \/ DeleteOld(r) \/ SaveFile(r)
    \/ updateUser(r) \/ \E url \in Urls : updateProfile(r, url)
    \/ SaveSelect(r) \/ SaveUpdate(r) \/ Die(r)

-----------------------------------------------------------------------------
(***************************************************************************)
(* Properties                                                              *)
(***************************************************************************)

(* The avatar's URL names a file, also where uploads overlap, unless an    *)
(* upload has deleted that file and is about to replace the URL, one died  *)
(* at that, or the URL was saved by a call that wrote no file for it: a    *)
(* client's own URL, or one another save had read and wrote back.  Every   *)
(* other file of the user is that of an upload in flight, or of one that   *)
(* died, or its URL was replaced by a call that had not deleted it: a      *)
(* profile edit, a write-back, or an upload that overlapped the change.    *)
FilesFollowAvatar ==
  /\ avatarUrl \notin files \cup {0} =>
       unsure \/ \E r \in Uploading : avatarReq[r].pc # "delete" /\ avatarReq[r].old = avatarUrl
  /\ files \ Elsewhere \subseteq
       {avatarUrl} \cup strays \cup {avatarReq[r].url : r \in Uploading}
=============================================================================
