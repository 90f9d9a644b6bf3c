----------------------------- MODULE Attachments -----------------------------
(***************************************************************************)
(* ctf-server: the files of challenges.  A file is an object in the        *)
(* attachments bucket and a row that names it; UploadAttachment and        *)
(* DeleteAttachment (usecase/admin_service.go) write the two one after the *)
(* other, and every upload of a filename to a challenge has the same key.  *)
(*                                                                         *)
(* The calls go through Sessions: they need the session of an admin.       *)
(***************************************************************************)
EXTENDS Sessions

CONSTANTS
  Challenges,  \* challenge ids
  Filenames,
  Uploads      \* attachment ids: one for every upload

ASSUME AttachmentsAssumption ==
  /\ AdminOps = {"CreateChallenge", "DeleteChallenge", "UploadAttachment",
                 "DeleteAttachment"}
  /\ Targets = Challenges \cup Uploads
  /\ Challenges \cap Uploads = {}

VARIABLES
  challenges,  \* the challenges table
  made,        \* challenge ids that were given out
  rows,        \* the attachments table
  s3Key,       \* the key of each upload, once it was asked for
  objects      \* the attachments bucket: the upload whose bytes each key has

files == <<challenges, made, rows, s3Key, objects>>
vars == <<accounts, req, files>>

Keys == Challenges \X Filenames
NoKey == <<None, None>>

\* Every variable has its type, and the tables keep the keys of their schema.
TypeOK ==
  /\ AccountsTypeOK
  /\ challenges \subseteq made /\ made \subseteq Challenges
  /\ rows \subseteq Uploads
  /\ \A i \in rows : s3Key[i][1] \in challenges
  /\ s3Key \in [Uploads -> Keys \cup {NoKey}]
  /\ objects \in [Keys -> Uploads \cup {None}]

Init ==
  /\ InitAccounts
  /\ challenges = {} /\ made = {}
  /\ rows = {}
  /\ s3Key = [i \in Uploads |-> NoKey]
  /\ objects = [k \in Keys |-> None]

Put(k, i) == objects' = [objects EXCEPT ![k] = i]

-----------------------------------------------------------------------------
(* Challenges *)

CreateChallengeRequest(h) ==
  /\ \E c \in Challenges \ made : Call(h, "CreateChallenge", c) /\ made' = made \cup {c}
  /\ UNCHANGED <<accounts, challenges, rows, s3Key, objects>>

DeleteChallengeRequest(h) ==
  /\ \E c \in made : Call(h, "DeleteChallenge", c)
  /\ UNCHANGED <<accounts, files>>

CreateChallenge(h) ==
  /\ At(h, "CreateChallenge", "serve")
  /\ \E o \in Outcomes :
       challenges' = IF o.done THEN challenges \cup {req[h].target} ELSE challenges
  /\ Finish(h)
  /\ UNCHANGED <<accounts, made, rows, s3Key, objects>>

\* The foreign key takes the rows of the attachments along; the objects stay.  (A challenge
\* with submissions or instances is not deleted: that statement fails.)
DeleteChallenge(h) ==
  LET c == req[h].target IN
  /\ At(h, "DeleteChallenge", "serve")
  /\ \E o \in Outcomes :
       /\ challenges' = IF o.done THEN challenges \ {c} ELSE challenges
       /\ rows' = IF o.done THEN {i \in rows : s3Key[i][1] # c} ELSE rows
  /\ Finish(h)
  /\ UNCHANGED <<accounts, made, s3Key, objects>>

-----------------------------------------------------------------------------
(* UploadAttachment *)

\* The attachment's id is generated after the object is stored; it is picked here to tell
\* the bytes of one upload from another's.
UploadAttachmentRequest(h) ==
  /\ \E i \in Uploads, k \in made \X Filenames :
       /\ s3Key[i] = NoKey
       /\ Call(h, "UploadAttachment", i)
       /\ s3Key' = [s3Key EXCEPT ![i] = k]
  /\ UNCHANGED <<accounts, challenges, made, rows, objects>>

FindChallenge(h) ==
  LET c == s3Key[req[h].target][1] IN
  /\ At(h, "UploadAttachment", "serve")
  /\ \/ c \in challenges /\ GoTo(h, "put")
     \/ ("fail" \in Faults \/ c \notin challenges) /\ Finish(h)
  /\ UNCHANGED <<accounts, files>>

\* Mutant: the error of the storage is not looked at.
PutObjectUnchecked(h) ==
  LET i == req[h].target IN
  /\ At(h, "UploadAttachment", "put")
  /\ \E o \in Outcomes : Put(s3Key[i], IF o.done THEN i ELSE objects[s3Key[i]])
  /\ GoTo(h, "insert")
  /\ UNCHANGED <<accounts, challenges, made, rows, s3Key>>

PutObject(h) ==
  LET i == req[h].target IN
  /\ At(h, "UploadAttachment", "put")
  /\ \E o \in Outcomes :
       /\ Put(s3Key[i], IF o.done THEN i ELSE objects[s3Key[i]])
       /\ IF o.said THEN GoTo(h, "insert") ELSE Finish(h)
  /\ UNCHANGED <<accounts, challenges, made, rows, s3Key>>

\* Mutant: a row that cannot be inserted leaves its object.
InsertRowGivesUp(h) ==
  LET i == req[h].target IN
  /\ At(h, "UploadAttachment", "insert")
  /\ \E o \in Outcomes :
       rows' = IF o.done /\ s3Key[i][1] \in challenges THEN rows \cup {i} ELSE rows
  /\ Finish(h)
  /\ UNCHANGED <<accounts, challenges, made, s3Key, objects>>

\* Mutant: the row is inserted without a look at the foreign key.
InsertRowNoKey(h) ==
  /\ At(h, "UploadAttachment", "insert")
  /\ \E o \in Outcomes :
       /\ rows' = IF o.done THEN rows \cup {req[h].target} ELSE rows
       /\ IF o.said THEN Finish(h) ELSE GoTo(h, "undo")
  /\ UNCHANGED <<accounts, challenges, made, s3Key, objects>>

\* The foreign key refuses the row of a challenge that is gone.
InsertRow(h) ==
  LET i == req[h].target
      there == s3Key[i][1] \in challenges
  IN
  /\ At(h, "UploadAttachment", "insert")
  /\ \E o \in Outcomes :
       /\ rows' = IF o.done /\ there THEN rows \cup {i} ELSE rows
       /\ IF o.said /\ there THEN Finish(h) ELSE GoTo(h, "undo")
  /\ UNCHANGED <<accounts, challenges, made, s3Key, objects>>

\* The object is deleted again, in the same context; an error is not looked at.
UndoPut(h) ==
  LET k == s3Key[req[h].target] IN
  /\ At(h, "UploadAttachment", "undo")
  /\ \E o \in Outcomes : Put(k, IF o.done THEN None ELSE objects[k])
  /\ Finish(h)
  /\ UNCHANGED <<accounts, challenges, made, rows, s3Key>>

UploadAttachment(h) == FindChallenge(h) \/ PutObject(h) \/ InsertRow(h) \/ UndoPut(h)

-----------------------------------------------------------------------------
(* DeleteAttachment *)

DeleteAttachmentRequest(h) ==
  /\ \E i \in Uploads : s3Key[i] # NoKey /\ Call(h, "DeleteAttachment", i)
  /\ UNCHANGED <<accounts, files>>

\* The row of the attachment has to name the challenge of the request.
FindAttachment(h) ==
  LET i == req[h].target IN
  /\ At(h, "DeleteAttachment", "serve")
  /\ \E c \in Challenges :
       \/ i \in rows /\ s3Key[i][1] = c /\ GoTo(h, "remove")
       \/ ("fail" \in Faults \/ i \notin rows \/ s3Key[i][1] # c) /\ Finish(h)
  /\ UNCHANGED <<accounts, files>>

\* Deleting an object that is gone is no error.
RemoveObject(h) ==
  LET k == s3Key[req[h].target] IN
  /\ At(h, "DeleteAttachment", "remove")
  /\ \E o \in Outcomes :
       /\ Put(k, IF o.done THEN None ELSE objects[k])
       /\ IF o.said THEN GoTo(h, "row") ELSE Finish(h)
  /\ UNCHANGED <<accounts, challenges, made, rows, s3Key>>

DeleteRow(h) ==
  /\ At(h, "DeleteAttachment", "row")
  /\ \E o \in Outcomes : rows' = IF o.done THEN rows \ {req[h].target} ELSE rows
  /\ Finish(h)
  /\ UNCHANGED <<accounts, challenges, made, s3Key, objects>>

DeleteAttachment(h) == FindAttachment(h) \/ RemoveObject(h) \/ DeleteRow(h)

Requests(h) ==
  \/ CreateChallengeRequest(h) \/ DeleteChallengeRequest(h)
  \/ UploadAttachmentRequest(h) \/ DeleteAttachmentRequest(h)

Next ==
  \/ \E h \in Handlers :
       \/ Accounts(h) /\ UNCHANGED files
       \/ Requests(h)
       \/ CreateChallenge(h) \/ DeleteChallenge(h)
       \/ UploadAttachment(h) \/ DeleteAttachment(h)
  \/ (\E t \in Tokens : Expire(t)) /\ UNCHANGED files
  \/ Kill /\ UNCHANGED files

Spec == Init /\ [][Next]_vars

-----------------------------------------------------------------------------
(* Properties *)

\* Challenges, rows and objects are changed only by calls whose session was an admin's when
\* the interceptor read it; and not by one that came after the session had expired or its
\* Logout had been answered, whatever another call writes to the session meanwhile.
ChangeStep ==
  <<challenges, rows, objects>>' # <<challenges, rows, objects>> =>
    \E h \in Handlers : req[h].admin /\ ~req[h].late /\ req'[h] # req[h]

AuthorisedChanges == [][ChangeStep]_vars

\* The bytes behind the row of an attachment are not those that came with it.
Dead(i) == i \in rows /\ objects[s3Key[i]] # i

\* An attachment loses its bytes in three ways only: another upload to its challenge had the
\* same filename; it is being deleted itself; or its own upload undoes an insert that was
\* executed and answered with an error.
DeadStep ==
  \A i \in Uploads : Dead(i)' /\ ~Dead(i) =>
    \/ \E j \in Uploads \ {i} : s3Key[j] = s3Key[i]
    \/ \E h \in Handlers : req[h].target = i /\ req[h].place \in {"remove", "undo"}

DeadCauses == [][DeadStep]_vars

\* Bytes that no row names and that are not being uploaded.
Orphaned(i) ==
  /\ s3Key[i] # NoKey /\ objects[s3Key[i]] = i /\ i \notin rows
  /\ \A h \in Handlers : ~(req[h].op = "UploadAttachment" /\ req[h].target = i)

\* Bytes are orphaned in four ways only: the challenge is deleted under its attachments;
\* the process dies during the upload; the storage answers an upload that it carried out
\* with an error; or the undoing of an upload fails, as it does when the caller has gone.
OrphanStep ==
  \A i \in Uploads : Orphaned(i)' /\ ~Orphaned(i) =>
    \/ s3Key[i][1] \in challenges \ challenges'
    \/ Kill
    \/ \E h \in Handlers : At(h, "UploadAttachment", "put") /\ req[h].target = i
    \/ \E h \in Handlers : At(h, "UploadAttachment", "undo") /\ req[h].target = i

OrphanCauses == [][OrphanStep]_vars

\* "valid registration" (usecase/user_auth_test.go:119): with a database that answers,
\* a Register whose username is free makes the account.
RegisterStep ==
  \A h \in Handlers : At(h, "Register", "insert") /\ req'[h] # req[h] =>
    \E u \in users' : u.name = req[h].name

FreeNameRegisters == [][RegisterStep]_vars

===============================================================================
