-------------------------- MODULE AttachmentsProofs --------------------------
(***************************************************************************)
(* Sessions and Attachments, for any number of calls, accounts, tokens,    *)
(* challenges, filenames and uploads, and for every set of failures.       *)
(***************************************************************************)
EXTENDS Attachments, TLAPS

Deletes(h, i) == req[h].op = "DeleteAttachment" /\ req[h].target = i
Uploading(h, i) == req[h].op = "UploadAttachment" /\ req[h].target = i

\* What the fields of a call hold, by its procedure.
Filled(r) ==
  /\ r.op \in Public => r.name \in Names /\ r.place # "expired"
  /\ r.op \in AuthOps \cup AdminOps => r.token \in given
  /\ r.op \in {"CreateChallenge", "DeleteChallenge"} => r.target \in made
  /\ r.op \in {"UploadAttachment", "DeleteAttachment"} =>
       r.target \in Uploads /\ s3Key[r.target] \in Keys

\* A call that came late never gets past the interceptor, and a procedure for admins runs
\* on an admin's copy only.
Admitted(r) ==
  /\ r.late => r.token \in out \cup old
  /\ r.op \in AdminOps /\ r.place \notin {"find", "expired"} => r.admin /\ ~r.late

AccountsInv ==
  /\ TypeOK
  /\ \A h \in Handlers : Filled(req[h]) /\ Admitted(req[h])
  /\ \A t \in out : sessions[t] = "none"

\* Until its object is stored the bytes of an upload are nowhere; then they are behind its
\* key, unless another upload has the same key; and while a deletion of it has begun, the
\* upload itself can only be undoing.
Shared(i) == \E j \in Uploads \ {i} : s3Key[j] = s3Key[i]
Before == {"find", "expired", "serve", "put"}

OneUploader ==
  \A g, h \in Handlers, i \in Uploads : Uploading(g, i) /\ Uploading(h, i) => g = h

UploadsInv ==
  \A h \in Handlers, i \in Uploads : Uploading(h, i) =>
    /\ req[h].place # "undo" => i \notin rows
    /\ req[h].place \in Before => objects[s3Key[i]] # i
    /\ req[h].place = "insert" => objects[s3Key[i]] = i \/ Shared(i)

DeletionsInv ==
  \A h \in Handlers, i \in Uploads : Deletes(h, i) =>
    /\ req[h].place \in {"remove", "row"} =>
         \A g \in Handlers : Uploading(g, i) => req[g].place = "undo"
    /\ req[h].place = "row" => objects[s3Key[i]] # i

ObjectsInv == \A k \in Keys : objects[k] # None => s3Key[objects[k]] = k

FilesInv == OneUploader /\ UploadsInv /\ DeletionsInv /\ ObjectsInv

IInv == AccountsInv /\ FilesInv

USE SessionsAssumption, AttachmentsAssumption

-----------------------------------------------------------------------------
(* Types *)

LEMMA AttachmentsInit == Init => IInv
<1> SUFFICES ASSUME Init PROVE IInv
  OBVIOUS
<1>1. NoKey \notin Keys /\ None \notin Uploads
  BY DEF NoKey, Keys, None
<1>2. TypeOK
  BY DEF Init, InitAccounts, TypeOK, AccountsTypeOK, NoKey, None
<1>3. QED
  BY <1>1, <1>2 DEF Init, InitAccounts, IInv, AccountsInv, FilesInv, OneUploader,
     UploadsInv, DeletionsInv, ObjectsInv, Idle, None, Filled,
     Admitted, Public, AuthOps, Uploading, Deletes

(* Calls: one as it begins, one that goes on, and the others meanwhile *)

Places == {"find", "expired", "serve", "put", "insert", "undo", "remove", "row"}
Same(r, q) == /\ r.op = q.op /\ r.name = q.name /\ r.target = q.target
              /\ r.token = q.token /\ r.late = q.late

LEMMA Begun ==
  ASSUME TypeOK, NEW h \in Handlers, NEW op \in AuthOps \cup Public \cup AdminOps,
         NEW n \in Names \cup {None}, NEW t \in Tokens \cup {None},
         NEW x \in Targets \cup {None}, Begin(h, op, n, t, x)
  PROVE  /\ req[h] = Idle
         /\ \E r \in Request :
              /\ req' = [req EXCEPT ![h] = r]
              /\ r.op = op /\ r.name = n /\ r.target = x /\ r.place = "find"
              /\ r.token = t /\ (r.late => t \in out \cup old)
<1> DEFINE r == [op |-> op, place |-> "find", name |-> n, token |-> t, admin |-> FALSE,
                 target |-> x, late |-> t \in out \cup old]
<1>1. r \in Request
  BY SMT DEF Request
<1>2. r.op = op /\ r.name = n /\ r.target = x /\ r.place = "find" /\ r.token = t
  OBVIOUS
<1>3. r.late => t \in out \cup old
  BY Zenon
<1>4. req[h] = Idle /\ req' = [req EXCEPT ![h] = r]
  BY Zenon DEF Begin
<1> HIDE DEF r
<1>5. QED
  BY <1>1, <1>2, <1>3, <1>4

LEMMA Called ==
  ASSUME TypeOK, NEW h \in Handlers, NEW op \in AuthOps \cup AdminOps,
         NEW x \in Targets \cup {None}, Call(h, op, x)
  PROVE  /\ req[h] = Idle
         /\ \E r \in Request :
              /\ req' = [req EXCEPT ![h] = r]
              /\ r.op = op /\ r.target = x /\ r.place = "find"
              /\ r.token \in given /\ (r.late => r.token \in out \cup old)
<1>1. PICK t \in given : Begin(h, op, None, t, x)
  BY DEF Call
<1>2. t \in Tokens
  BY DEF TypeOK, AccountsTypeOK
<1>3. QED
  BY <1>1, <1>2, Begun

LEMMA GoesOn ==
  ASSUME TypeOK, NEW h \in Handlers, req[h] # Idle, NEW p \in Places, GoTo(h, p)
  PROVE  \E r \in Request :
           /\ req' = [req EXCEPT ![h] = r]
           /\ r.place = p /\ Same(r, req[h]) /\ r.admin = req[h].admin
<1>1. PICK q \in Request : q = req[h]
  BY DEF TypeOK, AccountsTypeOK
<1> DEFINE r == [q EXCEPT !.place = p]
<1>2. r \in Request /\ r.place = p /\ Same(r, q) /\ r.admin = q.admin
  BY DEF Request, Same, Places
<1>3. req' = [req EXCEPT ![h] = r]
  BY <1>1 DEF GoTo
<1>4. QED
  BY <1>1, <1>2, <1>3

LEMMA IdleCall ==
  /\ Idle.op = None /\ Filled(Idle) /\ Admitted(Idle) /\ Filled(Idle)' /\ Admitted(Idle)'
  /\ None \notin AuthOps \cup Public \cup AdminOps
  /\ \A h \in Handlers : req[h].op # None => req[h] # Idle
<1>1. None \notin AuthOps \cup Public \cup AdminOps
  BY DEF None, AuthOps, Public
<1>2. Idle.op = None /\ ~Idle.late
  BY DEF Idle
<1>3. None \notin {"CreateChallenge", "DeleteChallenge", "UploadAttachment", "DeleteAttachment"}
  BY DEF None
<1>4. QED
  BY <1>1, <1>2, <1>3 DEF Filled, Admitted

\* Tokens, challenges and keys stay given out, so the other calls keep what they hold.
LEMMA OthersKept ==
  ASSUME AccountsInv, NEW h \in Handlers, NEW r \in Request \cup {Idle},
         req' = [req EXCEPT ![h] = r], Filled(r)', Admitted(r)',
         given \subseteq given', made \subseteq made', out \cup old \subseteq (out \cup old)',
         \A i \in Uploads : s3Key[i] \in Keys => s3Key'[i] \in Keys
  PROVE  /\ req' \in [Handlers -> Request \cup {Idle}]
         /\ (\A g \in Handlers : Filled(req[g]) /\ Admitted(req[g]))'
<1>1. req' \in [Handlers -> Request \cup {Idle}]
  BY DEF AccountsInv, TypeOK, AccountsTypeOK
<1>2. ASSUME NEW g \in Handlers, g # h
      PROVE  (Filled(req[g]) /\ Admitted(req[g]))'
  <2>1. req'[g] = req[g] /\ Filled(req[g]) /\ Admitted(req[g])
    BY <1>2 DEF AccountsInv, TypeOK, AccountsTypeOK
  <2>2. Filled(req[g])'
    BY <2>1 DEF Filled
  <2>3. Admitted(req[g])'
    BY <2>1 DEF Admitted
  <2>4. QED
    BY <2>2, <2>3
<1>3. req'[h] = r
  BY DEF AccountsInv, TypeOK, AccountsTypeOK
<1>4. Filled(req[h])' /\ Admitted(req[h])'
  BY <1>3 DEF Filled, Admitted
<1>5. QED
  BY <1>1, <1>2, <1>4

\* A call that goes on keeps what it holds, too.
LEMMA SelfKept ==
  ASSUME AccountsInv, NEW h \in Handlers, NEW r \in Request, Same(r, req[h]),
         r.op \notin Public \/ r.place # "expired",
         given \subseteq given', made \subseteq made', out \cup old \subseteq (out \cup old)',
         \A i \in Uploads : s3Key[i] \in Keys => s3Key'[i] \in Keys,
         \/ r.place \in {"find", "expired"}
         \/ r.admin = req[h].admin /\ req[h].place \notin {"find", "expired"}
         \/ ~r.late /\ (r.op \in AdminOps => r.admin)
  PROVE  Filled(r)' /\ Admitted(r)'
<1>1. Filled(req[h]) /\ Admitted(req[h])
  BY DEF AccountsInv
<1>2. Filled(r)'
  BY <1>1 DEF Filled, Same
<1>3. Admitted(r)'
  BY <1>1 DEF Admitted, Same
<1>4. QED
  BY <1>2, <1>3

-----------------------------------------------------------------------------
(* Files: most steps take rows and objects away, or leave them *)

LEMMA Steady ==
  ASSUME IInv, UNCHANGED s3Key, rows' \subseteq rows,
         objects' \in [Keys -> Uploads \cup {None}],
         \A k \in Keys : objects'[k] \in {objects[k], None},
         \A g \in Handlers, i \in Uploads : Uploading(g, i)' =>
           /\ Uploading(g, i)
           /\ \/ req'[g].place = req[g].place
              \/ req'[g].place \in Before /\ req[g].place \in Before
           /\ \/ req'[g].place # "insert" \/ Shared(i)
              \/ objects'[s3Key[i]] = objects[s3Key[i]],
         \A g \in Handlers, i \in Uploads :
           Deletes(g, i)' /\ req'[g].place \in {"remove", "row"} =>
             /\ Deletes(g, i)
             /\ \/ req'[g].place = req[g].place
                \/ req[g].place = "remove" /\ objects'[s3Key[i]] = None
  PROVE  FilesInv'
<1>1. OneUploader'
  BY DEF IInv, FilesInv, OneUploader
<1>2. None \notin Uploads
  BY DEF None
<1>3. UploadsInv'
  <2> SUFFICES ASSUME NEW h \in Handlers, NEW i \in Uploads, Uploading(h, i)'
               PROVE  /\ req'[h].place # "undo" => i \notin rows'
                      /\ req'[h].place \in Before => objects'[s3Key[i]] # i
                      /\ req'[h].place = "insert" => objects'[s3Key[i]] = i \/ Shared(i)
    BY DEF UploadsInv, Shared
  <2>1. Uploading(h, i) /\ s3Key[i] \in Keys
    BY DEF IInv, AccountsInv, Filled, Uploading
  <2>2. objects'[s3Key[i]] \in {objects[s3Key[i]], None}
    BY <2>1
  <2>3. QED
    BY <1>2, <2>1, <2>2 DEF IInv, FilesInv, UploadsInv, Before
<1>4. DeletionsInv'
  <2> SUFFICES ASSUME NEW h \in Handlers, NEW i \in Uploads, Deletes(h, i)',
                      req'[h].place \in {"remove", "row"}
               PROVE  /\ \A g \in Handlers : Uploading(g, i)' => req'[g].place = "undo"
                      /\ req'[h].place = "row" => objects'[s3Key[i]] # i
    BY DEF DeletionsInv
  <2>1. /\ Deletes(h, i) /\ s3Key[i] \in Keys
        /\ \/ req'[h].place = req[h].place
           \/ req[h].place = "remove" /\ objects'[s3Key[i]] = None
    BY DEF IInv, AccountsInv, Filled, Deletes
  <2>2. objects'[s3Key[i]] \in {objects[s3Key[i]], None}
    BY <2>1
  <2>3. QED
    BY <1>2, <2>1, <2>2 DEF IInv, FilesInv, DeletionsInv, Before
<1>5. ObjectsInv'
  BY DEF IInv, FilesInv, ObjectsInv
<1>6. QED
  BY <1>1, <1>3, <1>4, <1>5 DEF FilesInv

\* One call finishes, begins or goes on towards its first write.
LEMMA Quiet ==
  ASSUME IInv, NEW h \in Handlers, NEW r \in Request \cup {Idle},
         req' = [req EXCEPT ![h] = r], rows' \subseteq rows, UNCHANGED <<s3Key, objects>>,
         \/ r.op \notin {"UploadAttachment", "DeleteAttachment"}
         \/ r.op = "DeleteAttachment" /\ r.place = "find"
         \/ Same(r, req[h]) /\ r.place \in Before /\ req[h].place \in Before
  PROVE  FilesInv'
<1>1. \A g \in Handlers : req'[g] = IF g = h THEN r ELSE req[g]
  BY DEF IInv, AccountsInv, TypeOK, AccountsTypeOK
<1>2. \A g \in Handlers, i \in Uploads : Uploading(g, i)' =>
        /\ Uploading(g, i)
        /\ \/ req'[g].place = req[g].place
           \/ req'[g].place \in Before /\ req[g].place \in Before
  BY <1>1 DEF Uploading, Same
<1>3. \A g \in Handlers, i \in Uploads :
        Deletes(g, i)' /\ req'[g].place \in {"remove", "row"} =>
          Deletes(g, i) /\ req'[g].place = req[g].place
  BY <1>1 DEF Deletes, Same, Before
<1>4. objects \in [Keys -> Uploads \cup {None}]
  BY DEF IInv, AccountsInv, TypeOK
<1>5. QED
  BY <1>2, <1>3, <1>4, Steady

-----------------------------------------------------------------------------
(* Accounts and sessions *)

AccountTables ==
  /\ users \subseteq [name : Names, email : {""}]
  /\ \A u, v \in users : u.name = v.name \/ u.email = v.email => u = v
  /\ sessions \in [Tokens -> {"none", "user", "admin"}]
  /\ \A t \in Tokens : sessions[t] # "none" => t \in given
  /\ given \subseteq Tokens /\ old \subseteq given /\ out \subseteq given
  /\ \A t \in out : sessions[t] = "none"

FileTables ==
  /\ challenges \subseteq made /\ made \subseteq Challenges
  /\ rows \subseteq Uploads
  /\ \A i \in rows : s3Key[i][1] \in challenges
  /\ s3Key \in [Uploads -> Keys \cup {NoKey}]
  /\ objects \in [Keys -> Uploads \cup {None}]

\* The invariant after a step of one call.
LEMMA Kept ==
  ASSUME IInv, NEW h \in Handlers, NEW r \in Request \cup {Idle},
         req' = [req EXCEPT ![h] = r], Filled(r)', Admitted(r)',
         given \subseteq given', made \subseteq made', out \cup old \subseteq (out \cup old)',
         \A i \in Uploads : s3Key[i] \in Keys => s3Key'[i] \in Keys,
         AccountTables', FileTables', FilesInv'
  PROVE  IInv'
<1>1. /\ req' \in [Handlers -> Request \cup {Idle}]
      /\ (\A g \in Handlers : Filled(req[g]) /\ Admitted(req[g]))'
  BY OthersKept DEF IInv
<1>2. TypeOK'
  BY <1>1 DEF TypeOK, AccountsTypeOK, AccountTables, FileTables
<1>3. QED
  BY <1>1, <1>2 DEF IInv, AccountsInv, AccountTables

LEMMA Tables == IInv => AccountTables /\ FileTables
BY DEF IInv, AccountsInv, TypeOK, AccountsTypeOK, AccountTables, FileTables

\* The same for a step that leaves the files alone.
LEMMA AccountKept ==
  ASSUME IInv, NEW h \in Handlers, NEW r \in Request \cup {Idle},
         req' = [req EXCEPT ![h] = r], Filled(r)', Admitted(r)', UNCHANGED files,
         given \subseteq given', out \cup old \subseteq (out \cup old)', AccountTables',
         \/ r.op \notin {"UploadAttachment", "DeleteAttachment"}
         \/ r.op = "DeleteAttachment" /\ r.place = "find"
         \/ Same(r, req[h]) /\ r.place \in Before /\ req[h].place \in Before
  PROVE  IInv'
<1>1. FilesInv'
  BY Quiet DEF files
<1>2. FileTables'
  BY Tables DEF FileTables, files
<1>3. QED
  BY <1>1, <1>2, Kept DEF files

LEMMA AccountFinished ==
  ASSUME IInv, NEW h \in Handlers, Finish(h), UNCHANGED files,
         given \subseteq given', out \cup old \subseteq (out \cup old)', AccountTables'
  PROVE  IInv'
<1>1. req' = [req EXCEPT ![h] = Idle]
  BY DEF Finish
<1>2. Idle.op \notin {"UploadAttachment", "DeleteAttachment"}
  BY IdleCall DEF None
<1>3. QED
  BY <1>1, <1>2, IdleCall, AccountKept

LEMMA AccountGoesOn ==
  ASSUME IInv, NEW h \in Handlers, req[h].op \in AuthOps \cup Public \cup AdminOps,
         NEW p \in Places, GoTo(h, p), UNCHANGED <<files, accounts>>,
         \/ p = "expired" /\ req[h].place = "find" /\ req[h].op \in AuthOps \cup AdminOps
         \/ p = "put" /\ req[h].place = "serve" /\ req[h].op \in AdminOps
         \/ p = "insert" /\ req[h].op \in Public
  PROVE  IInv'
<1>1. req[h] # Idle
  BY IdleCall
<1>2. PICK r \in Request :
        /\ req' = [req EXCEPT ![h] = r]
        /\ r.place = p /\ Same(r, req[h]) /\ r.admin = req[h].admin
  BY <1>1, GoesOn DEF IInv, AccountsInv
<1>3. /\ given \subseteq given' /\ out \cup old \subseteq (out \cup old)'
      /\ made \subseteq made' /\ \A i \in Uploads : s3Key[i] \in Keys => s3Key'[i] \in Keys
  BY DEF files, accounts
<1>4. req[h].op \in Public /\ p = "insert" => Filled(r)' /\ Admitted(r)' /\ r.op \notin AdminOps
  <2> SUFFICES ASSUME req[h].op \in Public, p = "insert"
               PROVE  Filled(r)' /\ Admitted(r)' /\ r.op \notin AdminOps
    OBVIOUS
  <2>1. r.op \notin AdminOps /\ r.op \notin AuthOps
    BY <1>2 DEF Same, Public, AuthOps
  <2>2. Filled(req[h]) /\ Admitted(req[h])
    BY DEF IInv, AccountsInv
  <2>3. Filled(r)'
    BY <1>2, <2>1, <2>2 DEF Filled, Same
  <2>4. Admitted(r)'
    BY <1>2, <1>3, <2>1, <2>2 DEF Admitted, Same
  <2>5. QED
    BY <2>1, <2>3, <2>4
<1>5. Filled(r)' /\ Admitted(r)'
  <2>1. CASE req[h].op \in Public /\ p = "insert"
    BY <1>4, <2>1
  <2>2. CASE p \in {"expired", "put"} /\ req[h].op \in AuthOps \cup AdminOps
    <3>1. r.op \notin Public
      BY <1>2, <2>2 DEF Same, Public, AuthOps
    <3>2. QED
      BY <1>2, <1>3, <2>2, <3>1, SelfKept DEF IInv
  <2>3. QED
    BY <2>1, <2>2
<1>6. AccountTables'
  BY Tables DEF AccountTables, accounts
<1>7. QED
  BY <1>2, <1>3, <1>4, <1>5, <1>6, AccountKept DEF Before

LEMMA PublicRequestStep ==
  ASSUME IInv, NEW h \in Handlers, PublicRequest(h), UNCHANGED files
  PROVE  IInv'
<1>1. PICK op \in Public, n \in Names : Begin(h, op, n, None, None) /\ UNCHANGED accounts
  BY DEF PublicRequest
<1>2. PICK r \in Request :
        /\ req' = [req EXCEPT ![h] = r]
        /\ r.op = op /\ r.name = n /\ r.place = "find"
        /\ r.token = None /\ (r.late => None \in out \cup old)
  BY <1>1, Begun DEF IInv, AccountsInv
<1>3. r.op \notin AuthOps \cup AdminOps
  BY <1>2 DEF Public, AuthOps
<1>4. None \notin out \cup old
  BY DEF IInv, AccountsInv, TypeOK, AccountsTypeOK, None
<1>5. Filled(r)' /\ Admitted(r)'
  BY <1>2, <1>3, <1>4 DEF Filled, Admitted
<1>6. AccountTables'
  BY <1>1, Tables DEF AccountTables, accounts
<1>7. QED
  BY <1>1, <1>2, <1>3, <1>5, <1>6, AccountKept DEF accounts

\* Calls that ask for nothing that was not there, but an id of a challenge perhaps.
LEMMA CallStep ==
  ASSUME IInv, NEW h \in Handlers, NEW op \in AuthOps \cup AdminOps,
         NEW x \in Targets \cup {None}, Call(h, op, x),
         UNCHANGED <<accounts, challenges, rows, s3Key, objects>>,
         made \subseteq made', made' \subseteq Challenges,
         \/ op \in AuthOps
         \/ op \in {"CreateChallenge", "DeleteChallenge"} /\ x \in made'
         \/ op = "DeleteAttachment" /\ x \in Uploads /\ s3Key[x] \in Keys
  PROVE  IInv'
<1>1. PICK r \in Request :
        /\ req' = [req EXCEPT ![h] = r]
        /\ r.op = op /\ r.target = x /\ r.place = "find"
        /\ r.token \in given /\ (r.late => r.token \in out \cup old)
  BY Called DEF IInv, AccountsInv
<1>2. op \notin Public /\ op # "UploadAttachment"
  BY DEF Public, AuthOps
<1>3. Filled(r)'
  BY <1>1, <1>2 DEF Filled, AuthOps, accounts
<1>4. Admitted(r)'
  BY <1>1 DEF Admitted, accounts
<1>5. FilesInv'
  BY <1>1, <1>2, Quiet
<1>6. AccountTables' /\ FileTables'
  BY Tables DEF AccountTables, FileTables, accounts
<1>7. QED
  BY <1>1, <1>3, <1>4, <1>5, <1>6, Kept DEF accounts

LEMMA RegisterFindStep ==
  ASSUME IInv, NEW h \in Handlers, RegisterFind(h), UNCHANGED files
  PROVE  IInv'
<1>1. req[h].op \in Public /\ UNCHANGED accounts
  BY DEF RegisterFind, At, Public
<1>2. AccountTables'
  BY <1>1, Tables DEF AccountTables, accounts
<1>3. CASE Finish(h)
  BY <1>1, <1>2, <1>3, AccountFinished DEF accounts
<1>4. CASE GoTo(h, "insert")
  BY <1>1, <1>4, AccountGoesOn DEF Places
<1>5. QED
  BY <1>3, <1>4 DEF RegisterFind

LEMMA LoginFindStep ==
  ASSUME IInv, NEW h \in Handlers, LoginFind(h), UNCHANGED files
  PROVE  IInv'
<1>1. req[h].op \in Public /\ UNCHANGED accounts
  BY DEF LoginFind, At, Public
<1>2. AccountTables'
  BY <1>1, Tables DEF AccountTables, accounts
<1>3. CASE Finish(h)
  BY <1>1, <1>2, <1>3, AccountFinished DEF accounts
<1>4. CASE GoTo(h, "insert")
  BY <1>1, <1>4, AccountGoesOn DEF Places
<1>5. QED
  BY <1>3, <1>4 DEF LoginFind

\* The schema's UNIQUE columns.
LEMMA CreateUserStep ==
  ASSUME IInv, NEW h \in Handlers, CreateUser(h), UNCHANGED files
  PROVE  IInv'
<1> DEFINE row == [name |-> req[h].name, email |-> ""]
<1>1. req[h].name \in Names
  BY DEF CreateUser, At, IInv, AccountsInv, Filled, Public
<1>2. row \in [name : Names, email : {""}] /\ row.name = req[h].name /\ row.email = ""
  BY <1>1
<1>3. \/ users' = users
      \/ /\ users' = users \cup {row}
         /\ ~\E u \in users : u.name = row.name \/ u.email = row.email
  BY Zenon DEF CreateUser
<1> HIDE DEF row
<1>4. /\ users' \subseteq [name : Names, email : {""}]
      /\ \A u, v \in users' : u.name = v.name \/ u.email = v.email => u = v
  BY <1>2, <1>3, Tables DEF AccountTables
<1>5. UNCHANGED <<sessions, given, old, out>> /\ Finish(h)
  BY DEF CreateUser
<1>6. AccountTables'
  BY <1>4, <1>5, Tables DEF AccountTables
<1>7. QED
  BY <1>5, <1>6, AccountFinished

LEMMA CreateSessionStep ==
  ASSUME IInv, NEW h \in Handlers, CreateSession(h), UNCHANGED files
  PROVE  IInv'
<1>1. PICK t \in Tokens \ given, o \in Outcomes :
        /\ sessions' = [sessions EXCEPT ![t] = IF o.done THEN "user" ELSE "none"]
        /\ given' = IF o.said THEN given \cup {t} ELSE given
        /\ o.done => o.said
  BY DEF CreateSession
<1>2. UNCHANGED <<users, old, out>> /\ Finish(h)
  BY DEF CreateSession
<1>3. PICK s \in {"none", "user", "admin"} :
        /\ sessions' = [sessions EXCEPT ![t] = s]
        /\ s # "none" => t \in given'
  BY <1>1
<1>4. given \subseteq given' /\ given' \subseteq Tokens
  BY <1>1, Tables DEF AccountTables
<1>5. AccountTables'
  BY <1>2, <1>3, <1>4, Tables DEF AccountTables
<1>6. QED
  BY <1>2, <1>4, <1>5, AccountFinished

\* A step on the row of a token that was given out, which inserts no row.
LEMMA SessionWritten ==
  ASSUME IInv, NEW h \in Handlers, req[h].op \in AuthOps \cup AdminOps,
         NEW s \in {"none", "user", "admin"},
         sessions' = sessions
         \/ (sessions' = [sessions EXCEPT ![req[h].token] = s]
             /\ (s # "none" => sessions[req[h].token] # "none")),
         out' = out \/ (out' = out \cup {req[h].token} /\ sessions'[req[h].token] = "none"),
         UNCHANGED <<users, given, old, files>>, Finish(h)
  PROVE  IInv'
<1>1. req[h].token \in given
  BY DEF IInv, AccountsInv, Filled
<1>2. req[h].token \in Tokens
  BY <1>1, Tables DEF AccountTables
<1>3. /\ sessions' \in [Tokens -> {"none", "user", "admin"}]
      /\ \A t \in Tokens : sessions'[t] # "none" => sessions[t] # "none"
  <2>1. PICK t \in Tokens : t = req[h].token
    BY <1>2
  <2>2. sessions \in [Tokens -> {"none", "user", "admin"}]
    BY Tables DEF AccountTables
  <2>3. CASE sessions' = sessions
    BY <2>2, <2>3
  <2>4. CASE sessions' = [sessions EXCEPT ![t] = s] /\ (s # "none" => sessions[t] # "none")
    BY <2>2, <2>4
  <2>5. QED
    BY <2>1, <2>3, <2>4
<1>4. \A t \in out' : sessions'[t] = "none"
  <2> SUFFICES ASSUME NEW t \in out', sessions'[t] # "none" PROVE FALSE
    OBVIOUS
  <2>1. t \in out
    OBVIOUS
  <2>2. t \in Tokens /\ sessions[t] = "none"
    BY <2>1, Tables DEF AccountTables
  <2>3. QED
    BY <1>3, <2>2
<1>5. AccountTables'
  BY <1>1, <1>3, <1>4, Tables DEF AccountTables
<1>6. QED
  BY <1>5, AccountFinished

LEMMA Answered == \A o \in Outcomes : o.said => o.done
BY DEF Outcomes

LEMMA DeleteExpiredStep ==
  ASSUME IInv, NEW h \in Handlers, DeleteExpired(h), req[h].op \in AuthOps \cup AdminOps,
         UNCHANGED files
  PROVE  IInv'
<1>1. \/ sessions' = sessions
      \/ sessions' = [sessions EXCEPT ![req[h].token] = "none"]
  BY DEF DeleteExpired
<1>2. UNCHANGED <<users, given, old, out>> /\ Finish(h)
  BY DEF DeleteExpired
<1>3. QED
  BY <1>1, <1>2, SessionWritten

LEMMA LogoutStep ==
  ASSUME IInv, NEW h \in Handlers, Logout(h), UNCHANGED files
  PROVE  IInv'
<1>1. PICK o \in Outcomes :
        /\ sessions' = IF o.done THEN [sessions EXCEPT ![req[h].token] = "none"] ELSE sessions
        /\ out' = IF o.said /\ sessions[req[h].token] # "none"
                  THEN out \cup {req[h].token} ELSE out
  BY DEF Logout
<1>2. req[h].op \in AuthOps /\ UNCHANGED <<users, given, old>> /\ Finish(h)
  BY DEF Logout, At, AuthOps
<1>3. req[h].token \in Tokens /\ sessions \in [Tokens -> {"none", "user", "admin"}]
  BY <1>2, Tables DEF IInv, AccountsInv, Filled, AccountTables
<1>4. o.said => sessions'[req[h].token] = "none"
  BY <1>1, <1>3, Answered
<1>5. QED
  BY <1>1, <1>2, <1>4, SessionWritten

LEMMA AdminFlagStep ==
  ASSUME IInv, NEW h \in Handlers, AdminLogin(h) \/ AdminLogout(h), UNCHANGED files
  PROVE  IInv'
<1>1. req[h].op \in AuthOps /\ UNCHANGED <<users, given, old, out>> /\ Finish(h)
  BY DEF AdminLogin, AdminLogout, At, AuthOps
<1>2. \E s \in {"user", "admin"} :
        sessions' = sessions
        \/ (sessions' = [sessions EXCEPT ![req[h].token] = s]
            /\ sessions[req[h].token] # "none")
  BY DEF AdminLogin, AdminLogout, UpdateSession
<1>3. QED
  BY <1>1, <1>2, SessionWritten

LEMMA ServedCall ==
  ASSUME NEW h \in Handlers, req[h] \in Request, NEW admin \in BOOLEAN,
         req' = [req EXCEPT ![h] = Served(@, admin)]
  PROVE  \E r \in Request :
           /\ req' = [req EXCEPT ![h] = r]
           /\ r.place = "serve" /\ Same(r, req[h]) /\ r.admin = admin
<1>1. PICK q \in Request : q = req[h]
  OBVIOUS
<1> DEFINE r == [op |-> q.op, place |-> "serve", name |-> q.name, token |-> q.token,
                 admin |-> admin, target |-> q.target, late |-> q.late]
<1>2. r \in Request
  BY SMT DEF Request
<1>3. r.place = "serve" /\ r.op = q.op /\ r.name = q.name /\ r.target = q.target
      /\ r.token = q.token /\ r.late = q.late /\ r.admin = admin
  BY Zenon
<1>4. req' = [req EXCEPT ![h] = r]
  BY <1>1, Zenon DEF Served
<1> HIDE DEF r
<1>5. QED
  BY <1>1, <1>2, <1>3, <1>4 DEF Same

\* What the interceptor lets through is no late call, and an admin's where it has to be.
LEMMA FindByTokenStep ==
  ASSUME IInv, NEW h \in Handlers, FindByToken(h), req[h].op \in AuthOps \cup AdminOps,
         UNCHANGED files
  PROVE  IInv'
<1> DEFINE t == req[h].token
           admin == sessions[t] = "admin"
<1>1. UNCHANGED accounts /\ req[h].place = "find"
  BY DEF FindByToken
<1>2. AccountTables'
  BY <1>1, Tables DEF AccountTables, accounts
<1>3. CASE Finish(h)
  BY <1>1, <1>2, <1>3, AccountFinished DEF accounts
<1>4. CASE GoTo(h, "expired")
  BY <1>1, <1>4, AccountGoesOn DEF Places
<1>5. CASE /\ sessions[t] # "none" /\ t \notin old /\ requireAdminSession(req[h].op, admin)
           /\ req' = [req EXCEPT ![h] = Served(@, admin)]
  <2>1. req[h] \in Request
    <3>1. req[h] # Idle
      BY IdleCall
    <3>2. QED
      BY <3>1 DEF IInv, AccountsInv, TypeOK, AccountsTypeOK
  <2>2. PICK r \in Request :
          /\ req' = [req EXCEPT ![h] = r]
          /\ r.place = "serve" /\ Same(r, req[h]) /\ (r.admin <=> admin)
    BY <1>5, <2>1, ServedCall
  <2>3. t \notin out
    BY <1>5, Tables DEF AccountTables
  <2>4. ~r.late
    BY <1>5, <2>2, <2>3 DEF Same, IInv, AccountsInv, Admitted
  <2>5. r.op \in AdminOps => r.admin
    BY <1>5, <2>2 DEF Same, requireAdminSession
  <2>6. /\ given \subseteq given' /\ out \cup old \subseteq (out \cup old)'
        /\ made \subseteq made' /\ \A i \in Uploads : s3Key[i] \in Keys => s3Key'[i] \in Keys
    BY <1>1 DEF files, accounts
  <2>7. Filled(r)' /\ Admitted(r)'
    BY <2>2, <2>4, <2>5, <2>6, SelfKept DEF IInv
  <2>8. QED
    BY <1>1, <1>2, <2>2, <2>6, <2>7, AccountKept DEF Before
<1>6. QED
  BY <1>3, <1>4, <1>5 DEF FindByToken

-----------------------------------------------------------------------------
(* Challenges and their files *)

LEMMA FilesFinished ==
  ASSUME IInv, NEW h \in Handlers, Finish(h), UNCHANGED <<accounts, made, s3Key>>,
         FileTables', FilesInv'
  PROVE  IInv'
<1>1. req' = [req EXCEPT ![h] = Idle]
  BY DEF Finish
<1>2. AccountTables'
  BY Tables DEF AccountTables, accounts
<1>3. QED
  BY <1>1, <1>2, IdleCall, Kept DEF accounts

\* With the record of the call that goes on.
LEMMA FilesGoOn ==
  ASSUME IInv, NEW h \in Handlers, req[h].op \in AdminOps, NEW p \in Places, GoTo(h, p),
         req[h].place \notin {"find", "expired"}, UNCHANGED <<accounts, made, s3Key>>
  PROVE  \E r \in Request :
           /\ req' = [req EXCEPT ![h] = r]
           /\ r.place = p /\ Same(r, req[h])
           /\ FileTables' /\ FilesInv' => IInv'
<1>1. req[h] # Idle
  BY IdleCall
<1>2. PICK r \in Request :
        /\ req' = [req EXCEPT ![h] = r]
        /\ r.place = p /\ Same(r, req[h]) /\ r.admin = req[h].admin
  BY <1>1, GoesOn DEF IInv, AccountsInv
<1>3. /\ given \subseteq given' /\ out \cup old \subseteq (out \cup old)'
      /\ made \subseteq made' /\ \A i \in Uploads : s3Key[i] \in Keys => s3Key'[i] \in Keys
  BY DEF accounts
<1>4. Filled(r)' /\ Admitted(r)'
  BY <1>2, <1>3, SelfKept DEF IInv, Same, Public
<1>5. AccountTables'
  BY Tables DEF AccountTables, accounts
<1>6. FileTables' /\ FilesInv' => IInv'
  BY <1>2, <1>3, <1>4, <1>5, Kept
<1>7. QED
  BY <1>2, <1>6

LEMMA CreateChallengeStep ==
  ASSUME IInv, NEW h \in Handlers, CreateChallenge(h)
  PROVE  IInv'
<1>1. Finish(h) /\ UNCHANGED <<accounts, made, rows, s3Key, objects>>
  BY DEF CreateChallenge
<1>2. req[h].target \in made
  BY DEF CreateChallenge, At, IInv, AccountsInv, Filled
<1>3. challenges' = challenges \/ challenges' = challenges \cup {req[h].target}
  BY DEF CreateChallenge
<1>4. FileTables'
  BY <1>1, <1>2, <1>3, Tables DEF FileTables
<1>5. FilesInv'
  BY <1>1, Quiet, IdleCall DEF Finish, None
<1>6. QED
  BY <1>1, <1>4, <1>5, FilesFinished

\* The rows go with their challenge.
LEMMA DeleteChallengeStep ==
  ASSUME IInv, NEW h \in Handlers, DeleteChallenge(h)
  PROVE  IInv'
<1>1. Finish(h) /\ UNCHANGED <<accounts, made, s3Key, objects>>
  BY DEF DeleteChallenge
<1>2. \/ challenges' = challenges /\ rows' = rows
      \/ /\ challenges' = challenges \ {req[h].target}
         /\ rows' = {i \in rows : s3Key[i][1] # req[h].target}
  BY DEF DeleteChallenge
<1>3. FileTables'
  BY <1>1, <1>2, Tables DEF FileTables
<1>4. FilesInv'
  BY <1>1, <1>2, Quiet, IdleCall DEF Finish, None
<1>5. QED
  BY <1>1, <1>3, <1>4, FilesFinished

LEMMA FindChallengeStep ==
  ASSUME IInv, NEW h \in Handlers, FindChallenge(h)
  PROVE  IInv'
<1>1. UNCHANGED <<accounts, files>> /\ req[h].op \in AdminOps /\ req[h].place = "serve"
  BY DEF FindChallenge, At
<1>2. CASE Finish(h)
  BY <1>1, <1>2, Tables, AccountFinished DEF AccountTables, accounts
<1>3. CASE GoTo(h, "put")
  BY <1>1, <1>3, AccountGoesOn DEF Places
<1>4. QED
  BY <1>2, <1>3 DEF FindChallenge

LEMMA DeleteRowStep ==
  ASSUME IInv, NEW h \in Handlers, DeleteRow(h)
  PROVE  IInv'
<1>1. Finish(h) /\ UNCHANGED <<accounts, challenges, made, s3Key, objects>>
  BY DEF DeleteRow
<1>2. rows' \subseteq rows
  BY DEF DeleteRow
<1>3. FileTables'
  BY <1>1, <1>2, Tables DEF FileTables
<1>4. FilesInv'
  BY <1>1, <1>2, Quiet, IdleCall DEF Finish, None
<1>5. QED
  BY <1>1, <1>3, <1>4, FilesFinished

\* What one call does to the others' view of the uploads.
LEMMA OthersStay ==
  ASSUME IInv, NEW h \in Handlers, NEW r \in Request \cup {Idle}, req' = [req EXCEPT ![h] = r]
  PROVE  /\ req'[h] = r
         /\ \A g \in Handlers \ {h} : req'[g] = req[g]
         /\ \A g \in Handlers \ {h}, i \in Uploads :
              /\ Uploading(g, i)' <=> Uploading(g, i)
              /\ Deletes(g, i)' <=> Deletes(g, i)
<1>1. /\ req'[h] = r
      /\ \A g \in Handlers \ {h} : req'[g] = req[g]
  BY DEF IInv, AccountsInv, TypeOK, AccountsTypeOK
<1>2. QED
  BY <1>1 DEF Uploading, Deletes

\* An object is deleted by the call that then finishes or goes on to a row.
LEMMA UndoPutStep ==
  ASSUME IInv, NEW h \in Handlers, UndoPut(h)
  PROVE  IInv'
<1> DEFINE j == req[h].target
           k == s3Key[j]
<1>1. Finish(h) /\ UNCHANGED <<accounts, challenges, made, rows, s3Key>>
  BY DEF UndoPut
<1>2. Uploading(h, j) /\ j \in Uploads /\ k \in Keys
  BY DEF UndoPut, At, IInv, AccountsInv, Filled, Uploading
<1>3. \/ objects' = [objects EXCEPT ![k] = None]
      \/ objects' = [objects EXCEPT ![k] = objects[k]]
  BY DEF UndoPut, Put
<1>4. objects \in [Keys -> Uploads \cup {None}]
  BY Tables DEF FileTables
<1> HIDE DEF k
<1>5. /\ objects' \in [Keys -> Uploads \cup {None}]
      /\ \A l \in Keys : objects'[l] \in {objects[l], None}
      /\ \A l \in Keys \ {k} : objects'[l] = objects[l]
  BY <1>2, <1>3, <1>4
<1>6. /\ ~\E i \in Uploads : Uploading(h, i)' \/ Deletes(h, i)'
      /\ \A g \in Handlers \ {h} : req'[g] = req[g]
      /\ \A g \in Handlers \ {h}, i \in Uploads :
              /\ Uploading(g, i)' <=> Uploading(g, i)
              /\ Deletes(g, i)' <=> Deletes(g, i)
  <2>1. req' = [req EXCEPT ![h] = Idle]
    BY <1>1 DEF Finish
  <2>2. /\ req'[h] = Idle
        /\ \A g \in Handlers \ {h} : req'[g] = req[g]
        /\ \A g \in Handlers \ {h}, i \in Uploads :
             /\ Uploading(g, i)' <=> Uploading(g, i)
             /\ Deletes(g, i)' <=> Deletes(g, i)
    BY <2>1, OthersStay
  <2>3. req'[h].op # "UploadAttachment" /\ req'[h].op # "DeleteAttachment"
    BY <2>2, IdleCall DEF None
  <2>4. \A i \in Uploads : ~Uploading(h, i)' /\ ~Deletes(h, i)'
    BY <2>3 DEF Uploading, Deletes
  <2>5. QED
    BY <2>2, <2>4
<1>7. ASSUME NEW g \in Handlers, NEW i \in Uploads, Uploading(g, i)'
      PROVE  /\ Uploading(g, i) /\ req'[g].place = req[g].place
             /\ Shared(i) \/ objects'[s3Key[i]] = objects[s3Key[i]]
  <2>1. g # h /\ Uploading(g, i) /\ req'[g].place = req[g].place
    BY <1>6, <1>7
  <2>2. i # j
    BY <1>2, <2>1 DEF IInv, FilesInv, OneUploader
  <2>3. s3Key[i] = k => Shared(i)
    BY <1>2, <2>2 DEF Shared, k
  <2>4. s3Key[i] \in Keys
    BY <2>1 DEF IInv, AccountsInv, Filled, Uploading
  <2>5. QED
    BY <1>5, <2>1, <2>3, <2>4
<1>8. \A g \in Handlers, i \in Uploads :
        Deletes(g, i)' => Deletes(g, i) /\ req'[g].place = req[g].place
  BY <1>6
<1>9. FilesInv'
  BY <1>1, <1>5, <1>7, <1>8, Steady
<1>10. FileTables'
  BY <1>1, <1>5, Tables DEF FileTables
<1>11. QED
  BY <1>1, <1>9, <1>10, FilesFinished

\* Whoever deletes an attachment's object, its upload is over or undoing.
LEMMA RemoveObjectStep ==
  ASSUME IInv, NEW h \in Handlers, RemoveObject(h)
  PROVE  IInv'
<1> DEFINE j == req[h].target
           k == s3Key[j]
<1>1. /\ UNCHANGED <<accounts, challenges, made, rows, s3Key>>
      /\ req[h].op \in AdminOps /\ req[h].op = "DeleteAttachment" /\ req[h].place = "remove"
  BY DEF RemoveObject, At
<1>2. Deletes(h, j) /\ j \in Uploads /\ k \in Keys
  BY <1>1 DEF IInv, AccountsInv, Filled, Deletes
<1>3. \/ objects' = [objects EXCEPT ![k] = None] /\ (Finish(h) \/ GoTo(h, "row"))
      \/ objects' = [objects EXCEPT ![k] = objects[k]] /\ Finish(h)
  BY Answered DEF RemoveObject, Put
<1>4. objects \in [Keys -> Uploads \cup {None}]
  BY Tables DEF FileTables
<1> HIDE DEF k
<1>5. /\ objects' \in [Keys -> Uploads \cup {None}]
      /\ \A l \in Keys : objects'[l] \in {objects[l], None}
      /\ \A l \in Keys \ {k} : objects'[l] = objects[l]
  BY <1>2, <1>3, <1>4
<1>6. FileTables'
  BY <1>1, <1>5, Tables DEF FileTables
<1>7. PICK r \in Request \cup {Idle} :
        /\ req' = [req EXCEPT ![h] = r]
        /\ \/ r = Idle /\ Finish(h)
           \/ /\ r.place = "row" /\ Same(r, req[h]) /\ objects'[k] = None
              /\ FileTables' /\ FilesInv' => IInv'
  <2>1. CASE Finish(h)
    BY <2>1 DEF Finish
  <2>2. CASE GoTo(h, "row") /\ objects' = [objects EXCEPT ![k] = None]
    <3>1. objects'[k] = None
      BY <1>2, <1>4, <2>2
    <3>2. QED
      BY <1>1, <2>2, <3>1, FilesGoOn DEF Places
  <2>3. QED
    BY <1>3, <2>1, <2>2
<1>8. ASSUME NEW g \in Handlers, NEW i \in Uploads, Uploading(g, i)'
      PROVE  /\ Uploading(g, i) /\ req'[g].place = req[g].place
             /\ \/ req'[g].place # "insert" \/ Shared(i)
                \/ objects'[s3Key[i]] = objects[s3Key[i]]
  <2>1. g # h
    <3> SUFFICES ASSUME g = h PROVE FALSE
      OBVIOUS
    <3>1. req'[h] = r
      BY <1>7, OthersStay
    <3>2. CASE r = Idle
      <4>1. req'[h].op = None
        BY <3>1, <3>2, IdleCall
      <4>2. req'[h].op = "UploadAttachment"
        BY <1>8 DEF Uploading
      <4>3. QED
        BY <4>1, <4>2 DEF None
    <3>3. CASE Same(r, req[h])
      <4>1. req'[h].op = "DeleteAttachment"
        BY <1>1, <3>1, <3>3 DEF Same
      <4>2. req'[h].op = "UploadAttachment"
        BY <1>8 DEF Uploading
      <4>3. QED
        BY <4>1, <4>2
    <3>4. QED
      BY <1>7, <3>2, <3>3
  <2>2. Uploading(g, i) /\ req'[g].place = req[g].place
    <3>1. req' = [req EXCEPT ![h] = r]
      BY <1>7
    <3>2. req'[g] = req[g] /\ (Uploading(g, i)' <=> Uploading(g, i))
      BY <2>1, <3>1, OthersStay
    <3>3. QED
      BY <1>8, <3>2
  <2>3. i = j => req[g].place # "insert"
    BY <1>1, <1>2, <2>2 DEF IInv, FilesInv, DeletionsInv
  <2>4. i # j /\ s3Key[i] = k => Shared(i)
    BY <1>2 DEF Shared, k
  <2>5. s3Key[i] \in Keys
    BY <2>2 DEF IInv, AccountsInv, Filled, Uploading
  <2>6. QED
    BY <1>5, <2>2, <2>3, <2>4, <2>5
<1>9. ASSUME NEW g \in Handlers, NEW i \in Uploads, Deletes(g, i)'
      PROVE  /\ Deletes(g, i)
             /\ \/ req'[g].place = req[g].place
                \/ req[g].place = "remove" /\ objects'[s3Key[i]] = None
  <2>1. CASE g # h
    BY <1>7, <1>9, <2>1, OthersStay DEF Deletes
  <2>2. CASE g = h
    <3>1. req'[h] = r
      BY <1>7, OthersStay
    <3>2. r.op = "DeleteAttachment" /\ r.target = i
      BY <1>9, <2>2, <3>1 DEF Deletes
    <3>3. r # Idle
      BY <3>2, IdleCall DEF None
    <3>4. i = j /\ objects'[k] = None
      BY <1>7, <3>2, <3>3 DEF Same
    <3>5. QED
      BY <1>1, <1>2, <2>2, <3>4 DEF k
  <2>3. QED
    BY <2>1, <2>2
<1>10. FilesInv'
  BY <1>1, <1>5, <1>8, <1>9, Steady
<1>11. QED
  BY <1>1, <1>6, <1>7, <1>10, FilesFinished

\* A row is only there when its upload is over or undoing.
LEMMA FindAttachmentStep ==
  ASSUME IInv, NEW h \in Handlers, FindAttachment(h)
  PROVE  IInv'
<1>1. /\ UNCHANGED <<accounts, files>>
      /\ req[h].op \in AdminOps /\ req[h].op = "DeleteAttachment" /\ req[h].place = "serve"
  BY DEF FindAttachment, At
<1>2. CASE Finish(h)
  BY <1>1, <1>2, Tables, AccountFinished DEF AccountTables, accounts
<1>3. CASE req[h].target \in rows /\ GoTo(h, "remove")
  <2>1. PICK r \in Request :
          /\ req' = [req EXCEPT ![h] = r]
          /\ r.place = "remove" /\ Same(r, req[h])
          /\ FileTables' /\ FilesInv' => IInv'
    BY <1>1, <1>3, FilesGoOn DEF Places, files
  <2>2. FileTables'
    BY <1>1, Tables DEF FileTables, files
  <2>3. /\ ~\E i \in Uploads : Uploading(h, i)' \/ Uploading(h, i)
        /\ \A i \in Uploads : Deletes(h, i)' => i = req[h].target /\ req'[h].place = "remove"
    <3>1. req'[h] = r
      BY <2>1, OthersStay
    <3>2. QED
      BY <1>1, <2>1, <3>1 DEF Uploading, Deletes, Same
  <2>4. /\ \A g \in Handlers \ {h} : req'[g] = req[g]
        /\ \A g \in Handlers, i \in Uploads : Uploading(g, i)' <=> Uploading(g, i)
        /\ \A g \in Handlers \ {h}, i \in Uploads : Deletes(g, i)' <=> Deletes(g, i)
    <3>1. \A g \in Handlers \ {h} : req'[g] = req[g]
      BY <2>1, OthersStay
    <3>2. QED
      BY <2>3, <3>1 DEF Uploading, Deletes
  <2>5. UNCHANGED <<rows, s3Key, objects>>
    BY <1>1 DEF files
  <2>6. \A g \in Handlers, i \in Uploads : Uploading(g, i) => req'[g] = req[g]
    BY <2>3, <2>4
  <2>7. OneUploader'
    BY <2>4 DEF IInv, FilesInv, OneUploader
  <2>8. UploadsInv'
    BY <2>4, <2>5, <2>6 DEF IInv, FilesInv, UploadsInv, Shared
  <2>9. \A g \in Handlers : Uploading(g, req[h].target) => req[g].place = "undo"
    BY <1>1, <1>3 DEF IInv, FilesInv, UploadsInv, AccountsInv, Filled
  <2>10. DeletionsInv'
    BY <2>3, <2>4, <2>5, <2>6, <2>9 DEF IInv, FilesInv, DeletionsInv
  <2>11. ObjectsInv'
    BY <2>5 DEF IInv, FilesInv, ObjectsInv
  <2>12. QED
    BY <2>1, <2>2, <2>7, <2>8, <2>10, <2>11 DEF FilesInv
<1>4. QED
  BY <1>2, <1>3 DEF FindAttachment

\* The object of an upload that begins to insert is there, and no other's is under its key.
LEMMA PutObjectStep ==
  ASSUME IInv, NEW h \in Handlers, PutObject(h)
  PROVE  IInv'
<1> DEFINE j == req[h].target
           k == s3Key[j]
<1>1. /\ UNCHANGED <<accounts, challenges, made, rows, s3Key>>
      /\ req[h].op \in AdminOps /\ req[h].op = "UploadAttachment" /\ req[h].place = "put"
  BY DEF PutObject, At
<1>2. Uploading(h, j) /\ j \in Uploads /\ k \in Keys /\ j \notin rows
  BY <1>1 DEF IInv, AccountsInv, Filled, Uploading, FilesInv, UploadsInv
<1>3. \/ objects' = [objects EXCEPT ![k] = j] /\ (Finish(h) \/ GoTo(h, "insert"))
      \/ objects' = [objects EXCEPT ![k] = objects[k]] /\ Finish(h)
  BY Answered DEF PutObject, Put
<1>4. objects \in [Keys -> Uploads \cup {None}] /\ None \notin Uploads
  BY Tables DEF FileTables, None
<1> HIDE DEF k
<1>5. /\ objects' \in [Keys -> Uploads \cup {None}]
      /\ \A l \in Keys \ {k} : objects'[l] = objects[l]
      /\ objects'[k] \in {objects[k], j}
  BY <1>2, <1>3, <1>4
<1>6. FileTables'
  BY <1>1, <1>5, Tables DEF FileTables
<1>7. PICK r \in Request \cup {Idle} :
        /\ req' = [req EXCEPT ![h] = r]
        /\ \/ r = Idle /\ Finish(h)
           \/ /\ r.place = "insert" /\ Same(r, req[h]) /\ objects'[k] = j
              /\ FileTables' /\ FilesInv' => IInv'
  <2>1. CASE Finish(h)
    BY <2>1 DEF Finish
  <2>2. CASE GoTo(h, "insert") /\ objects' = [objects EXCEPT ![k] = j]
    <3>1. objects'[k] = j
      BY <1>2, <1>4, <2>2
    <3>2. QED
      BY <1>1, <2>2, <3>1, FilesGoOn DEF Places
  <2>3. QED
    BY <1>3, <2>1, <2>2
<1>8. req'[h] = r /\ \A g \in Handlers \ {h} : req'[g] = req[g]
  BY <1>7, OthersStay
<1>9. ASSUME NEW i \in Uploads, Uploading(h, i)'
      PROVE  i = j /\ req'[h].place = "insert" /\ objects'[k] = j
  <2>1. r.op = "UploadAttachment" /\ r.target = i
    BY <1>8, <1>9 DEF Uploading
  <2>2. r # Idle
    BY <2>1, IdleCall DEF None
  <2>3. QED
    BY <1>7, <1>8, <2>1, <2>2 DEF Same
<1>10. ~\E i \in Uploads : Deletes(h, i)'
  <2>1. Idle.op # "DeleteAttachment"
    BY IdleCall DEF None
  <2>2. QED
    BY <1>1, <1>7, <1>8, <2>1 DEF Deletes, Same
<1>11. OneUploader'
  BY <1>2, <1>8, <1>9 DEF IInv, FilesInv, OneUploader, Uploading
<1>12. UploadsInv'
  <2> SUFFICES ASSUME NEW g \in Handlers, NEW i \in Uploads, Uploading(g, i)'
               PROVE  /\ req'[g].place # "undo" => i \notin rows'
                      /\ req'[g].place \in Before => objects'[s3Key[i]] # i
                      /\ req'[g].place = "insert" => objects'[s3Key[i]] = i \/ Shared(i)
    BY <1>1 DEF UploadsInv, Shared
  <2>1. CASE g = h
    BY <1>1, <1>2, <1>9, <2>1 DEF Before, k
  <2>2. CASE g # h
    <3>1. Uploading(g, i) /\ req'[g].place = req[g].place
      BY <1>8, <2>2 DEF Uploading
    <3>2. i # j
      BY <1>2, <2>2, <3>1 DEF IInv, FilesInv, OneUploader
    <3>3. s3Key[i] = k => Shared(i)
      BY <1>2, <3>2 DEF Shared, k
    <3>4. s3Key[i] \in Keys
      BY <3>1 DEF IInv, AccountsInv, Filled, Uploading
    <3>5. objects'[s3Key[i]] = objects[s3Key[i]] \/ (Shared(i) /\ objects'[s3Key[i]] = j)
      BY <1>5, <3>3, <3>4
    <3>6. QED
      BY <1>1, <3>1, <3>2, <3>5 DEF IInv, FilesInv, UploadsInv, Before
  <2>3. QED
    BY <2>1, <2>2
<1>13. DeletionsInv'
  <2> SUFFICES ASSUME NEW g \in Handlers, NEW i \in Uploads, Deletes(g, i)',
                      req'[g].place \in {"remove", "row"}
               PROVE  /\ \A f \in Handlers : Uploading(f, i)' => req'[f].place = "undo"
                      /\ req'[g].place = "row" => objects'[s3Key[i]] # i
    BY <1>1 DEF DeletionsInv
  <2>1. g # h /\ Deletes(g, i) /\ req'[g].place = req[g].place
    BY <1>8, <1>10 DEF Deletes
  <2>2. i # j
    BY <1>1, <1>2, <2>1 DEF IInv, FilesInv, DeletionsInv
  <2>3. s3Key[i] \in Keys
    BY <2>1 DEF IInv, AccountsInv, Filled, Deletes
  <2>4. objects'[s3Key[i]] \in {objects[s3Key[i]], j}
    BY <1>5, <2>3
  <2>5. \A f \in Handlers : Uploading(f, i)' => f # h /\ Uploading(f, i) /\ req'[f] = req[f]
    BY <1>8, <1>9, <2>2 DEF Uploading
  <2>6. QED
    BY <2>1, <2>2, <2>4, <2>5 DEF IInv, FilesInv, DeletionsInv
<1>14. ObjectsInv'
  BY <1>1, <1>2, <1>5 DEF IInv, FilesInv, ObjectsInv, k
<1>15. FilesInv'
  BY <1>11, <1>12, <1>13, <1>14 DEF FilesInv
<1>16. QED
  BY <1>1, <1>6, <1>7, <1>15, FilesFinished

\* The row is the first of its upload, and it names a challenge that is there.
LEMMA InsertRowStep ==
  ASSUME IInv, NEW h \in Handlers, InsertRow(h)
  PROVE  IInv'
<1> DEFINE j == req[h].target
<1>1. /\ UNCHANGED <<accounts, challenges, made, s3Key, objects>>
      /\ req[h].op \in AdminOps /\ req[h].op = "UploadAttachment" /\ req[h].place = "insert"
  BY DEF InsertRow, At
<1>2. Uploading(h, j) /\ j \in Uploads /\ s3Key[j] \in Keys
  BY <1>1 DEF IInv, AccountsInv, Filled, Uploading
<1>3. /\ rows' = rows \/ (rows' = rows \cup {j} /\ s3Key[j][1] \in challenges)
      /\ Finish(h) \/ GoTo(h, "undo")
  BY DEF InsertRow
<1>4. FileTables'
  BY <1>1, <1>2, <1>3, Tables DEF FileTables
<1>5. PICK r \in Request \cup {Idle} :
        /\ req' = [req EXCEPT ![h] = r]
        /\ \/ r = Idle /\ Finish(h)
           \/ r.place = "undo" /\ Same(r, req[h]) /\ (FileTables' /\ FilesInv' => IInv')
  <2>1. CASE Finish(h)
    BY <2>1 DEF Finish
  <2>2. CASE GoTo(h, "undo")
    BY <1>1, <2>2, FilesGoOn DEF Places
  <2>3. QED
    BY <1>3, <2>1, <2>2
<1>6. req'[h] = r /\ \A g \in Handlers \ {h} : req'[g] = req[g]
  BY <1>5, OthersStay
<1>7. ASSUME NEW i \in Uploads, Uploading(h, i)'
      PROVE  i = j /\ req'[h].place = "undo"
  <2>1. r.op = "UploadAttachment" /\ r.target = i
    BY <1>6, <1>7 DEF Uploading
  <2>2. r # Idle
    BY <2>1, IdleCall DEF None
  <2>3. QED
    BY <1>5, <1>6, <2>1, <2>2 DEF Same
<1>8. ~\E i \in Uploads : Deletes(h, i)'
  <2>1. Idle.op # "DeleteAttachment"
    BY IdleCall DEF None
  <2>2. QED
    BY <1>1, <1>5, <1>6, <2>1 DEF Deletes, Same
<1>9. OneUploader'
  BY <1>2, <1>6, <1>7 DEF IInv, FilesInv, OneUploader, Uploading
<1>10. UploadsInv'
  <2> SUFFICES ASSUME NEW g \in Handlers, NEW i \in Uploads, Uploading(g, i)'
               PROVE  /\ req'[g].place # "undo" => i \notin rows'
                      /\ req'[g].place \in Before => objects[s3Key[i]] # i
                      /\ req'[g].place = "insert" => objects[s3Key[i]] = i \/ Shared(i)
    BY <1>1 DEF UploadsInv, Shared
  <2>1. CASE g = h
    BY <1>7, <2>1 DEF Before
  <2>2. CASE g # h
    <3>1. Uploading(g, i) /\ req'[g] = req[g]
      BY <1>6, <2>2 DEF Uploading
    <3>2. i # j
      BY <1>2, <2>2, <3>1 DEF IInv, FilesInv, OneUploader
    <3>3. QED
      BY <1>3, <3>1, <3>2 DEF IInv, FilesInv, UploadsInv
  <2>3. QED
    BY <2>1, <2>2
<1>11. DeletionsInv'
  <2> SUFFICES ASSUME NEW g \in Handlers, NEW i \in Uploads, Deletes(g, i)',
                      req'[g].place \in {"remove", "row"}
               PROVE  /\ \A f \in Handlers : Uploading(f, i)' => req'[f].place = "undo"
                      /\ req'[g].place = "row" => objects[s3Key[i]] # i
    BY <1>1 DEF DeletionsInv
  <2>1. g # h /\ Deletes(g, i) /\ req'[g] = req[g]
    BY <1>6, <1>8 DEF Deletes
  <2>2. \A f \in Handlers : Uploading(f, i)' => f = h \/ (Uploading(f, i) /\ req'[f] = req[f])
    BY <1>6 DEF Uploading
  <2>3. QED
    BY <1>7, <2>1, <2>2 DEF IInv, FilesInv, DeletionsInv
<1>12. ObjectsInv'
  BY <1>1 DEF IInv, FilesInv, ObjectsInv
<1>13. FilesInv'
  BY <1>9, <1>10, <1>11, <1>12 DEF FilesInv
<1>14. QED
  BY <1>1, <1>4, <1>5, <1>13, FilesFinished

\* An upload's id and key are new: nothing is under them yet.
LEMMA UploadAttachmentRequestStep ==
  ASSUME IInv, NEW h \in Handlers, UploadAttachmentRequest(h)
  PROVE  IInv'
<1>1. PICK j \in Uploads, k \in Keys :
        /\ s3Key[j] = NoKey
        /\ Call(h, "UploadAttachment", j)
        /\ s3Key' = [s3Key EXCEPT ![j] = k]
  <2>1. \A k \in made \X Filenames : k \in Keys
    BY Tables DEF FileTables, Keys
  <2>2. QED
    BY <2>1 DEF UploadAttachmentRequest
<1>2. UNCHANGED <<accounts, challenges, made, rows, objects>>
  BY DEF UploadAttachmentRequest
<1>3. PICK r \in Request :
        /\ req' = [req EXCEPT ![h] = r]
        /\ r.op = "UploadAttachment" /\ r.target = j /\ r.place = "find"
        /\ r.token \in given /\ (r.late => r.token \in out \cup old)
  BY <1>1, Called DEF IInv, AccountsInv
<1>4. NoKey \notin Keys /\ None \notin Challenges /\ NoKey[1] = None /\ None \notin Uploads
  BY DEF NoKey, Keys, None
<1>5. s3Key \in [Uploads -> Keys \cup {NoKey}] /\ objects \in [Keys -> Uploads \cup {None}]
  BY Tables DEF FileTables
<1>6. s3Key'[j] = k /\ \A i \in Uploads \ {j} : s3Key'[i] = s3Key[i]
  BY <1>1, <1>5
<1>7. j \notin rows
  BY <1>1, <1>4, Tables DEF FileTables
<1>8. \A l \in Keys : objects[l] # j
  BY <1>1, <1>4 DEF IInv, FilesInv, ObjectsInv
<1>9. FileTables'
  <2>1. s3Key' \in [Uploads -> Keys \cup {NoKey}]
    BY <1>1, <1>5
  <2>2. \A i \in rows : s3Key'[i][1] \in challenges
    BY <1>6, <1>7, Tables DEF FileTables
  <2>3. QED
    BY <1>2, <2>1, <2>2, Tables DEF FileTables
<1>10. AccountTables'
  BY <1>2, Tables DEF AccountTables, accounts
<1>11. Filled(r)'
  BY <1>2, <1>3, <1>6 DEF Filled, Public, AuthOps, accounts
<1>12. Admitted(r)'
  BY <1>2, <1>3 DEF Admitted, accounts
<1>13. \A i \in Uploads : s3Key[i] \in Keys => s3Key'[i] \in Keys
  BY <1>1, <1>4, <1>6
<1>14. req'[h] = r /\ \A g \in Handlers \ {h} : req'[g] = req[g]
  BY <1>3, OthersStay
<1>15. ASSUME NEW g \in Handlers, NEW i \in Uploads, Uploading(g, i)', g # h
       PROVE  Uploading(g, i) /\ req'[g] = req[g] /\ i # j /\ s3Key[i] \in Keys
  <2>1. Uploading(g, i) /\ req'[g] = req[g]
    BY <1>14, <1>15 DEF Uploading
  <2>2. s3Key[i] \in Keys
    BY <2>1 DEF IInv, AccountsInv, Filled, Uploading
  <2>3. QED
    BY <1>1, <1>4, <2>1, <2>2
<1>16. \A i \in Uploads : Uploading(h, i)' => i = j /\ req'[h].place = "find"
  BY <1>3, <1>14 DEF Uploading
<1>17. ASSUME NEW g \in Handlers, NEW i \in Uploads, Deletes(g, i)'
       PROVE  g # h /\ Deletes(g, i) /\ req'[g] = req[g] /\ i # j /\ s3Key[i] \in Keys
  <2>1. g # h /\ Deletes(g, i) /\ req'[g] = req[g]
    BY <1>3, <1>14, <1>17 DEF Deletes
  <2>2. s3Key[i] \in Keys
    BY <2>1 DEF IInv, AccountsInv, Filled, Deletes
  <2>3. QED
    BY <1>1, <1>4, <2>1, <2>2
<1>18. ASSUME NEW i \in Uploads, i # j, s3Key[i] \in Keys, Shared(i)
       PROVE  Shared(i)'
  <2>1. PICK l \in Uploads \ {i} : s3Key[l] = s3Key[i]
    BY <1>18 DEF Shared
  <2>2. l # j
    BY <1>1, <1>4, <1>18, <2>1
  <2>3. s3Key'[l] = s3Key'[i]
    BY <1>6, <1>18, <2>1, <2>2
  <2>4. QED
    BY <2>3 DEF Shared
<1>19. OneUploader'
  BY <1>15, <1>16 DEF IInv, FilesInv, OneUploader
<1>20. UploadsInv'
  <2> SUFFICES ASSUME NEW g \in Handlers, NEW i \in Uploads, Uploading(g, i)'
               PROVE  /\ req'[g].place # "undo" => i \notin rows
                      /\ req'[g].place \in Before => objects[s3Key'[i]] # i
                      /\ req'[g].place = "insert" => objects[s3Key'[i]] = i \/ Shared(i)'
    BY <1>2 DEF UploadsInv
  <2>1. CASE g = h
    BY <1>6, <1>7, <1>8, <1>16, <2>1
  <2>2. CASE g # h
    <3>1. Uploading(g, i) /\ req'[g] = req[g] /\ i # j /\ s3Key[i] \in Keys
      BY <1>15, <2>2
    <3>2. Shared(i) => Shared(i)'
      BY <1>18, <3>1
    <3>3. s3Key'[i] = s3Key[i]
      BY <1>6, <3>1
    <3>4. QED
      BY <3>1, <3>2, <3>3 DEF IInv, FilesInv, UploadsInv
  <2>3. QED
    BY <2>1, <2>2
<1>21. DeletionsInv'
  <2> SUFFICES ASSUME NEW g \in Handlers, NEW i \in Uploads, Deletes(g, i)',
                      req'[g].place \in {"remove", "row"}
               PROVE  /\ \A f \in Handlers : Uploading(f, i)' => req'[f].place = "undo"
                      /\ req'[g].place = "row" => objects[s3Key'[i]] # i
    BY <1>2 DEF DeletionsInv
  <2>1. g # h /\ Deletes(g, i) /\ req'[g] = req[g] /\ i # j /\ s3Key'[i] = s3Key[i]
    BY <1>6, <1>17
  <2>2. \A f \in Handlers : Uploading(f, i)' => Uploading(f, i) /\ req'[f] = req[f]
    BY <1>15, <1>16, <2>1
  <2>3. QED
    BY <2>1, <2>2 DEF IInv, FilesInv, DeletionsInv
<1>22. ObjectsInv'
  BY <1>2, <1>5, <1>6, <1>8 DEF IInv, FilesInv, ObjectsInv
<1>23. FilesInv'
  BY <1>19, <1>20, <1>21, <1>22 DEF FilesInv
<1>24. QED
  BY <1>2, <1>3, <1>9, <1>10, <1>11, <1>12, <1>13, <1>23, Kept DEF accounts

LEMMA KillStep == IInv /\ Kill /\ UNCHANGED files => IInv'
<1> SUFFICES ASSUME IInv, Kill, UNCHANGED files PROVE IInv'
  OBVIOUS
<1>1. UNCHANGED accounts /\ \A h \in Handlers : req'[h] = Idle
  BY DEF Kill
<1>2. req' \in [Handlers -> Request \cup {Idle}]
  BY DEF Kill
<1>3. \A h \in Handlers, i \in Uploads : ~Uploading(h, i)' /\ ~Deletes(h, i)'
  BY <1>1, IdleCall DEF Uploading, Deletes, None
<1>4. AccountTables' /\ FileTables'
  BY <1>1, Tables DEF AccountTables, FileTables, accounts, files
<1>5. TypeOK'
  BY <1>2, <1>4 DEF TypeOK, AccountsTypeOK, AccountTables, FileTables
<1>6. FilesInv'
  BY <1>3, <1>4, Steady DEF FileTables, files
<1>7. (\A h \in Handlers : Filled(req[h]) /\ Admitted(req[h]))'
  BY <1>1, IdleCall DEF Filled, Admitted
<1>8. QED
  BY <1>4, <1>5, <1>6, <1>7 DEF IInv, AccountsInv, AccountTables

LEMMA ExpireStep ==
  ASSUME IInv, NEW t \in Tokens, Expire(t), UNCHANGED files
  PROVE  IInv'
<1>1. UNCHANGED <<users, sessions, given, out, req>> /\ old' = old \cup {t} /\ t \in given
  BY DEF Expire
<1>2. TypeOK'
  BY <1>1 DEF IInv, AccountsInv, TypeOK, AccountsTypeOK, files
<1>3. ASSUME NEW h \in Handlers PROVE (Filled(req[h]) /\ Admitted(req[h]))'
  <2>1. Filled(req[h]) /\ Admitted(req[h])
    BY DEF IInv, AccountsInv
  <2>2. Filled(req[h])'
    BY <1>1, <2>1 DEF Filled, files
  <2>3. Admitted(req[h])'
    BY <1>1, <2>1 DEF Admitted
  <2>4. QED
    BY <2>2, <2>3
<1>4. \A s \in out' : sessions'[s] = "none"
  BY <1>1 DEF IInv, AccountsInv
<1>5. FilesInv'
  BY <1>1 DEF IInv, FilesInv, OneUploader, UploadsInv, DeletionsInv, ObjectsInv,
     Uploading, Deletes, Shared, files
<1>6. QED
  BY <1>2, <1>3, <1>4, <1>5 DEF IInv, AccountsInv

LEMMA AccountsStep ==
  ASSUME IInv, NEW h \in Handlers, Accounts(h), UNCHANGED files
  PROVE  IInv'
<1>1. CASE PublicRequest(h)
  BY <1>1, PublicRequestStep
<1>2. CASE RegisterFind(h)
  BY <1>2, RegisterFindStep
<1>3. CASE CreateUser(h)
  BY <1>3, CreateUserStep
<1>4. CASE LoginFind(h)
  BY <1>4, LoginFindStep
<1>5. CASE CreateSession(h)
  BY <1>5, CreateSessionStep
<1>6. CASE (\E op \in AuthOps : Call(h, op, None)) /\ UNCHANGED accounts
  <2>1. PICK op \in AuthOps : Call(h, op, None)
    BY <1>6
  <2>2. UNCHANGED <<accounts, challenges, rows, s3Key, objects>>
    BY <1>6 DEF files
  <2>3. made \subseteq made' /\ made' \subseteq Challenges
    BY Tables DEF FileTables, files
  <2>4. op \in AuthOps \cup AdminOps /\ None \in Targets \cup {None}
    BY <2>1
  <2>5. QED
    BY <2>1, <2>2, <2>3, <2>4, CallStep
<1>7. req[h].place \in {"find", "expired"} => req[h] \in Request
  <2>1. Idle.place = "idle"
    BY DEF Idle
  <2>2. QED
    BY <2>1 DEF IInv, AccountsInv, TypeOK, AccountsTypeOK
<1>8. CASE FindByToken(h)
  <2>1. req[h].op \in AuthOps \cup AdminOps
    BY <1>7, <1>8 DEF FindByToken, Request
  <2>2. QED
    BY <1>8, <2>1, FindByTokenStep
<1>9. CASE DeleteExpired(h)
  <2>1. req[h] \in Request /\ req[h].op \notin Public
    BY <1>7, <1>9 DEF DeleteExpired, IInv, AccountsInv, Filled
  <2>2. req[h].op \in AuthOps \cup AdminOps
    BY <2>1 DEF Request
  <2>3. QED
    BY <1>9, <2>2, DeleteExpiredStep
<1>10. CASE Logout(h)
  BY <1>10, LogoutStep
<1>11. CASE AdminLogin(h) \/ AdminLogout(h)
  BY <1>11, AdminFlagStep
<1>12. QED
  BY <1>1, <1>2, <1>3, <1>4, <1>5, <1>6, <1>8, <1>9, <1>10, <1>11 DEF Accounts

LEMMA RequestsStep ==
  ASSUME IInv, NEW h \in Handlers, Requests(h)
  PROVE  IInv'
<1>1. CASE CreateChallengeRequest(h)
  <2>1. PICK c \in Challenges : Call(h, "CreateChallenge", c) /\ made' = made \cup {c}
    BY <1>1 DEF CreateChallengeRequest
  <2>2. UNCHANGED <<accounts, challenges, rows, s3Key, objects>>
    BY <1>1 DEF CreateChallengeRequest
  <2>3. made' \subseteq Challenges
    BY <2>1, Tables DEF FileTables
  <2>4. QED
    BY <2>1, <2>2, <2>3, CallStep
<1>2. CASE DeleteChallengeRequest(h)
  BY <1>2, CallStep, Tables DEF DeleteChallengeRequest, FileTables, files
<1>3. CASE UploadAttachmentRequest(h)
  BY <1>3, UploadAttachmentRequestStep
<1>4. CASE DeleteAttachmentRequest(h)
  <2>1. PICK i \in Uploads : s3Key[i] # NoKey /\ Call(h, "DeleteAttachment", i)
    BY <1>4 DEF DeleteAttachmentRequest
  <2>2. UNCHANGED <<accounts, files>>
    BY <1>4 DEF DeleteAttachmentRequest
  <2>3. s3Key[i] \in Keys /\ made \subseteq Challenges
    BY <2>1, Tables DEF FileTables
  <2>4. QED
    BY <2>1, <2>2, <2>3, CallStep DEF files
<1>5. QED
  BY <1>1, <1>2, <1>3, <1>4 DEF Requests

LEMMA StepKeeps == IInv /\ [Next]_vars => IInv'
<1> SUFFICES ASSUME IInv, [Next]_vars PROVE IInv'
  OBVIOUS
<1>1. ASSUME NEW h \in Handlers, Accounts(h) /\ UNCHANGED files PROVE IInv'
  BY <1>1, AccountsStep
<1>2. ASSUME NEW h \in Handlers, Requests(h) PROVE IInv'
  BY <1>2, RequestsStep
<1>3. ASSUME NEW h \in Handlers, CreateChallenge(h) \/ DeleteChallenge(h) PROVE IInv'
  BY <1>3, CreateChallengeStep, DeleteChallengeStep
<1>4. ASSUME NEW h \in Handlers, UploadAttachment(h) PROVE IInv'
  BY <1>4, FindChallengeStep, PutObjectStep, InsertRowStep, UndoPutStep DEF UploadAttachment
<1>5. ASSUME NEW h \in Handlers, DeleteAttachment(h) PROVE IInv'
  BY <1>5, FindAttachmentStep, RemoveObjectStep, DeleteRowStep DEF DeleteAttachment
<1>6. ASSUME NEW t \in Tokens, Expire(t), UNCHANGED files PROVE IInv'
  BY <1>6, ExpireStep
<1>7. CASE Kill /\ UNCHANGED files
  BY <1>7, KillStep
<1>8. CASE UNCHANGED vars
  <2>1. UNCHANGED <<users, sessions, given, old, out, req>> /\ UNCHANGED files
    BY <1>8 DEF vars, accounts
  <2>2. TypeOK' /\ \A t \in out' : sessions'[t] = "none"
    BY <2>1 DEF IInv, AccountsInv, TypeOK, AccountsTypeOK, files
  <2>3. ASSUME NEW h \in Handlers PROVE (Filled(req[h]) /\ Admitted(req[h]))'
    BY <2>1 DEF IInv, AccountsInv, Filled, Admitted, files
  <2>4. FilesInv'
    BY <2>1 DEF IInv, FilesInv, OneUploader, UploadsInv, DeletionsInv, ObjectsInv,
       Uploading, Deletes, Shared, files
  <2>5. QED
    BY <2>2, <2>3, <2>4 DEF IInv, AccountsInv
<1>9. QED
  BY <1>1, <1>2, <1>3, <1>4, <1>5, <1>6, <1>7, <1>8 DEF Next

THEOREM Invariance == Spec => []IInv
BY AttachmentsInit, StepKeeps, PTL DEF Spec

\* Every variable keeps its type: usernames and emails stay unique, a session is a token's
\* that was given out, and the row of an attachment names a challenge that is there.
THEOREM TypeCorrect == Spec => []TypeOK
<1>1. IInv => TypeOK
  BY DEF IInv, AccountsInv
<1>2. QED
  BY <1>1, Invariance, PTL

-----------------------------------------------------------------------------
(* Who changes what *)

\* The steps that write a challenge, a row or an object are a call's that was served.
LEMMA ServedChange ==
  ASSUME IInv, NEW h \in Handlers, req[h].op \in AdminOps,
         req[h].place \in {"serve", "put", "insert", "undo", "remove", "row"},
         Finish(h) \/ (\E p \in Places : p # req[h].place /\ GoTo(h, p))
  PROVE  ChangeStep
<1>1. req[h].admin /\ ~req[h].late
  BY DEF IInv, AccountsInv, Admitted
<1>2. req[h] # Idle
  BY IdleCall
<1>3. req'[h] # req[h]
  <2>1. CASE Finish(h)
    BY <1>2, <2>1 DEF Finish, IInv, AccountsInv, TypeOK, AccountsTypeOK
  <2>2. ASSUME NEW p \in Places, p # req[h].place, GoTo(h, p) PROVE req'[h] # req[h]
    <3>1. PICK r \in Request : req' = [req EXCEPT ![h] = r] /\ r.place = p
      BY <1>2, <2>2, GoesOn DEF IInv, AccountsInv
    <3>2. req'[h] = r
      BY <3>1, OthersStay
    <3>3. QED
      BY <2>2, <3>1, <3>2
  <2>3. QED
    BY <2>1, <2>2
<1>4. QED
  BY <1>1, <1>3 DEF ChangeStep

LEMMA ChangesAreAuthorised == IInv /\ [Next]_vars => ChangeStep
<1> SUFFICES ASSUME IInv, [Next]_vars PROVE ChangeStep
  OBVIOUS
<1>1. CASE UNCHANGED <<challenges, rows, objects>>
  BY <1>1 DEF ChangeStep
<1>2. CASE UNCHANGED files
  BY <1>1, <1>2 DEF files
<1>3. ASSUME NEW h \in Handlers, Requests(h) PROVE ChangeStep
  BY <1>1, <1>2, <1>3 DEF Requests, CreateChallengeRequest, DeleteChallengeRequest,
     UploadAttachmentRequest, DeleteAttachmentRequest
<1>4. ASSUME NEW h \in Handlers, CreateChallenge(h) \/ DeleteChallenge(h) PROVE ChangeStep
  BY <1>4, ServedChange DEF CreateChallenge, DeleteChallenge, At
<1>5. ASSUME NEW h \in Handlers, UploadAttachment(h) PROVE ChangeStep
  <2>1. CASE FindChallenge(h)
    BY <1>2, <2>1 DEF FindChallenge
  <2>2. CASE PutObject(h)
    BY <2>2, ServedChange DEF PutObject, At, Places
  <2>3. CASE InsertRow(h)
    BY <2>3, ServedChange DEF InsertRow, At, Places
  <2>4. CASE UndoPut(h)
    BY <2>4, ServedChange DEF UndoPut, At
  <2>5. QED
    BY <1>5, <2>1, <2>2, <2>3, <2>4 DEF UploadAttachment
<1>6. ASSUME NEW h \in Handlers, DeleteAttachment(h) PROVE ChangeStep
  <2>1. CASE FindAttachment(h)
    BY <1>2, <2>1 DEF FindAttachment
  <2>2. CASE RemoveObject(h)
    BY <2>2, ServedChange DEF RemoveObject, At, Places
  <2>3. CASE DeleteRow(h)
    BY <2>3, ServedChange DEF DeleteRow, At
  <2>4. QED
    BY <1>6, <2>1, <2>2, <2>3 DEF DeleteAttachment
<1>7. CASE UNCHANGED vars
  BY <1>2, <1>7 DEF vars
<1>8. QED
  BY <1>2, <1>3, <1>4, <1>5, <1>6, <1>7 DEF Next

\* Challenges, rows and objects are changed only by calls whose session was an admin's when
\* the interceptor read it, and by none that came after its token's expiry or its Logout.
THEOREM ChangesAuthorised == Spec => AuthorisedChanges
<1>1. IInv /\ [Next]_vars => [ChangeStep]_vars
  BY ChangesAreAuthorised
<1>2. QED
  BY <1>1, Invariance, PTL DEF Spec, AuthorisedChanges

-----------------------------------------------------------------------------
(* How an attachment loses its bytes *)

LEMMA ObjectWritten ==
  ASSUME IInv, NEW i \in Uploads, Dead(i)', ~Dead(i), UNCHANGED <<rows, s3Key>>,
         NEW j \in Uploads, NEW x, Put(s3Key[j], x), i # j
  PROVE  Shared(i)
<1>1. i \in rows /\ objects[s3Key[i]] = i /\ objects'[s3Key[i]] # i
  BY DEF Dead
<1>2. s3Key[i] \in Keys
  <2>1. s3Key[i] # NoKey
    BY <1>1, Tables DEF FileTables, NoKey, None
  <2>2. QED
    BY <2>1, Tables DEF FileTables
<1>3. s3Key[i] = s3Key[j]
  BY <1>1, <1>2, Tables DEF Put, FileTables
<1>4. QED
  BY <1>3 DEF Shared

LEMMA DeathsExplained == IInv /\ [Next]_vars => DeadStep
<1> SUFFICES ASSUME IInv, [Next]_vars, NEW i \in Uploads, Dead(i)', ~Dead(i)
             PROVE  \/ Shared(i)
                    \/ \E h \in Handlers : req[h].target = i /\ req[h].place \in {"remove", "undo"}
  BY DEF DeadStep, Shared
<1>1. \/ rows' \subseteq rows /\ UNCHANGED <<s3Key, objects>>
      \/ \E h \in Handlers : UploadAttachmentRequest(h)
      \/ \E h \in Handlers : PutObject(h) \/ InsertRow(h) \/ UndoPut(h) \/ RemoveObject(h)
  <2>1. CASE UNCHANGED files
    BY <2>1 DEF files
  <2>2. ASSUME NEW h \in Handlers, Requests(h)
        PROVE  (rows' = rows /\ UNCHANGED <<s3Key, objects>>) \/ UploadAttachmentRequest(h)
    BY <2>2 DEF Requests, CreateChallengeRequest, DeleteChallengeRequest,
       DeleteAttachmentRequest, files
  <2>3. ASSUME NEW h \in Handlers, CreateChallenge(h) \/ DeleteChallenge(h)
        PROVE  rows' \subseteq rows /\ UNCHANGED <<s3Key, objects>>
    BY <2>3 DEF CreateChallenge, DeleteChallenge
  <2>4. ASSUME NEW h \in Handlers, FindChallenge(h) \/ FindAttachment(h)
        PROVE  UNCHANGED files
    BY <2>4 DEF FindChallenge, FindAttachment
  <2>5. ASSUME NEW h \in Handlers, DeleteRow(h)
        PROVE  rows' \subseteq rows /\ UNCHANGED <<s3Key, objects>>
    BY <2>5 DEF DeleteRow
  <2>6. CASE UNCHANGED vars
    BY <2>1, <2>6 DEF vars
  <2>7. QED
    BY <2>1, <2>2, <2>3, <2>4, <2>5, <2>6 DEF Next, UploadAttachment, DeleteAttachment
<1>2. CASE rows' \subseteq rows /\ UNCHANGED <<s3Key, objects>>
  BY <1>2 DEF Dead
<1>3. ASSUME NEW h \in Handlers, UploadAttachmentRequest(h) PROVE FALSE
  <2>1. PICK j \in Uploads, k \in made \X Filenames :
          s3Key[j] = NoKey /\ s3Key' = [s3Key EXCEPT ![j] = k]
    BY <1>3 DEF UploadAttachmentRequest
  <2>2. UNCHANGED <<rows, objects>>
    BY <1>3 DEF UploadAttachmentRequest
  <2>3. j \notin rows
    BY <2>1, Tables DEF FileTables, NoKey, None
  <2>4. s3Key'[i] = s3Key[i]
    BY <2>1, <2>2, <2>3, Tables DEF FileTables, Dead
  <2>5. QED
    BY <2>2, <2>4 DEF Dead
<1>4. ASSUME NEW h \in Handlers, PutObject(h) PROVE Shared(i)
  <2> DEFINE j == req[h].target
  <2>1. Uploading(h, j) /\ j \in Uploads /\ req[h].place = "put" /\ UNCHANGED <<rows, s3Key>>
    BY <1>4 DEF PutObject, At, Uploading, IInv, AccountsInv, Filled
  <2>2. j \notin rows
    BY <2>1 DEF IInv, FilesInv, UploadsInv
  <2>3. i # j
    BY <2>1, <2>2 DEF Dead
  <2>4. PICK x : Put(s3Key[j], x)
    BY <1>4 DEF PutObject
  <2>5. QED
    BY <2>1, <2>3, <2>4, ObjectWritten
<1>5. ASSUME NEW h \in Handlers, InsertRow(h) PROVE Shared(i)
  <2>1. /\ Uploading(h, req[h].target) /\ req[h].target \in Uploads /\ req[h].place = "insert"
        /\ rows' \subseteq rows \cup {req[h].target} /\ UNCHANGED <<s3Key, objects>>
    BY <1>5 DEF InsertRow, At, Uploading, IInv, AccountsInv, Filled
  <2>2. i = req[h].target /\ objects[s3Key[i]] # i
    BY <2>1 DEF Dead
  <2>3. QED
    BY <2>1, <2>2 DEF IInv, FilesInv, UploadsInv
<1>6. ASSUME NEW h \in Handlers, UndoPut(h) \/ RemoveObject(h), req[h].target # i
      PROVE  Shared(i)
  <2>1. /\ req[h].target \in Uploads /\ UNCHANGED <<rows, s3Key>>
        /\ \E x : Put(s3Key[req[h].target], x)
    BY <1>6 DEF UndoPut, RemoveObject, At, IInv, AccountsInv, Filled
  <2>2. QED
    BY <1>6, <2>1, ObjectWritten
<1>7. ASSUME NEW h \in Handlers, UndoPut(h) \/ RemoveObject(h)
      PROVE  Shared(i) \/ (req[h].target = i /\ req[h].place \in {"remove", "undo"})
  BY <1>6, <1>7 DEF UndoPut, RemoveObject, At
<1>8. QED
  BY <1>1, <1>2, <1>3, <1>4, <1>5, <1>7

\* An attachment loses its bytes only to an upload of the same filename, to its own
\* deletion, or to its own upload's undoing.
THEOREM DeathCauses == Spec => DeadCauses
<1>1. IInv /\ [Next]_vars => [DeadStep]_vars
  BY DeathsExplained
<1>2. QED
  BY <1>1, Invariance, PTL DEF Spec, DeadCauses

-----------------------------------------------------------------------------
(* How bytes are orphaned *)

\* They were orphaned already, if their row and their upload did not go in this step.
LEMMA OrphanBefore ==
  ASSUME IInv, NEW i \in Uploads, Orphaned(i)',
         s3Key'[i] = s3Key[i], objects[s3Key[i]] = i \/ objects'[s3Key[i]] # i,
         i \in rows => i \in rows',
         \A h \in Handlers : Uploading(h, i) => Uploading(h, i)' \/ req[h].place \in Before
  PROVE  Orphaned(i)
<1>1. \A h \in Handlers : ~Uploading(h, i)'
  BY DEF Orphaned, Uploading
<1>2. s3Key[i] # NoKey /\ objects[s3Key[i]] = i /\ i \notin rows
  BY DEF Orphaned
<1>3. \A h \in Handlers : ~Uploading(h, i)
  BY <1>1, <1>2 DEF IInv, FilesInv, UploadsInv
<1>4. QED
  BY <1>2, <1>3 DEF Orphaned, Uploading

\* A step of one call that is not, or not yet, storing i.
LEMMA OneMoves ==
  ASSUME NEW h \in Handlers, req \in [Handlers -> Request \cup {Idle}],
         Finish(h) \/ (\E p : GoTo(h, p)) \/ (\E op, n, t, x : Begin(h, op, n, t, x)),
         NEW i \in Uploads, ~Uploading(h, i) \/ req[h].place \in Before
  PROVE  \A g \in Handlers : Uploading(g, i) => Uploading(g, i)' \/ req[g].place \in Before
<1>1. \A g \in Handlers \ {h} : req'[g] = req[g]
  BY DEF Finish, GoTo, Begin
<1>2. QED
  BY <1>1 DEF Uploading

\* Sessions and accounts: whatever the step, one call moves, and one that uploads has not
\* stored anything yet.
LEMMA AccountMoves ==
  ASSUME IInv, NEW h \in Handlers, Accounts(h), NEW i \in Uploads
  PROVE  \A g \in Handlers : Uploading(g, i) => Uploading(g, i)' \/ req[g].place \in Before
<1>1. \/ req[h] = Idle
      \/ req[h].place \in {"find", "expired"}
      \/ req[h].op \in AuthOps \cup Public
  BY DEF Accounts, PublicRequest, Begin, RegisterFind, CreateUser, LoginFind, CreateSession,
     Call, FindByToken, DeleteExpired, Logout, AdminLogin, AdminLogout, At, AuthOps, Public
<1>2. ~Uploading(h, i) \/ req[h].place \in Before
  BY <1>1, IdleCall DEF Before, Uploading, AuthOps, Public, None
<1>3. \A g \in Handlers \ {h} : req'[g] = req[g]
  <2>0. DOMAIN req = Handlers
    BY DEF IInv, AccountsInv, TypeOK, AccountsTypeOK
  <2>1. CASE PublicRequest(h) \/ RegisterFind(h) \/ CreateUser(h) \/ LoginFind(h)
             \/ CreateSession(h)
    BY <2>0, <2>1 DEF PublicRequest, Begin, RegisterFind, CreateUser, LoginFind, CreateSession,
       Finish, GoTo
  <2>2. CASE (\E op \in AuthOps : Call(h, op, None)) \/ FindByToken(h) \/ DeleteExpired(h)
    BY <2>0, <2>2 DEF Call, Begin, FindByToken, DeleteExpired, Finish, GoTo
  <2>3. CASE Logout(h) \/ AdminLogin(h) \/ AdminLogout(h)
    BY <2>0, <2>3 DEF Logout, AdminLogin, AdminLogout, Finish, GoTo
  <2>4. QED
    BY <2>1, <2>2, <2>3 DEF Accounts
<1>4. QED
  BY <1>2, <1>3 DEF Uploading

LEMMA RequestMoves ==
  ASSUME IInv, NEW h \in Handlers, Requests(h), NEW i \in Uploads
  PROVE  \A g \in Handlers : Uploading(g, i) => Uploading(g, i)' \/ req[g].place \in Before
<1>1. PICK op, n, t, x : Begin(h, op, n, t, x)
  BY DEF Requests, CreateChallengeRequest, DeleteChallengeRequest, UploadAttachmentRequest,
     DeleteAttachmentRequest, Call
<1>2. ~Uploading(h, i)
  BY <1>1, IdleCall DEF Begin, Uploading, None
<1>3. QED
  BY <1>1, <1>2, OneMoves DEF IInv, AccountsInv, TypeOK, AccountsTypeOK

LEMMA OrphansExplained == IInv /\ [Next]_vars => OrphanStep
<1> SUFFICES ASSUME IInv, [Next]_vars, NEW i \in Uploads, Orphaned(i)', ~Orphaned(i)
             PROVE  \/ s3Key[i][1] \in challenges \ challenges'
                    \/ Kill
                    \/ \E h \in Handlers : At(h, "UploadAttachment", "put") /\ req[h].target = i
                    \/ \E h \in Handlers : At(h, "UploadAttachment", "undo") /\ req[h].target = i
  BY DEF OrphanStep
<1>1. req \in [Handlers -> Request \cup {Idle}] /\ None \notin Uploads
  BY DEF IInv, AccountsInv, TypeOK, AccountsTypeOK, None
<1>2. ASSUME NEW h \in Handlers, Accounts(h), UNCHANGED files PROVE FALSE
  BY <1>2, AccountMoves, OrphanBefore DEF files
<1>3. ASSUME NEW h \in Handlers, Requests(h) PROVE FALSE
  <2>1. \A g \in Handlers : Uploading(g, i) => Uploading(g, i)' \/ req[g].place \in Before
    BY <1>3, RequestMoves
  <2>2. UNCHANGED <<rows, objects>>
    BY <1>3 DEF Requests, CreateChallengeRequest, DeleteChallengeRequest,
       UploadAttachmentRequest, DeleteAttachmentRequest, files
  <2>3. CASE UNCHANGED s3Key
    BY <2>1, <2>2, <2>3, OrphanBefore
  <2>4. CASE UploadAttachmentRequest(h)
    <3>1. PICK j \in Uploads, k \in made \X Filenames :
            Call(h, "UploadAttachment", j) /\ s3Key' = [s3Key EXCEPT ![j] = k]
      BY <2>4 DEF UploadAttachmentRequest
    <3>2. CASE i = j
      <4>1. PICK r \in Request :
              req' = [req EXCEPT ![h] = r] /\ r.op = "UploadAttachment" /\ r.target = j
        BY <3>1, Called DEF IInv, AccountsInv
      <4>2. req'[h] = r
        BY <4>1, OthersStay
      <4>3. QED
        BY <3>2, <4>1, <4>2 DEF Orphaned
    <3>3. CASE i # j
      <4>1. s3Key'[i] = s3Key[i]
        BY <3>1, <3>3, Tables DEF FileTables
      <4>2. QED
        BY <2>1, <2>2, <4>1, OrphanBefore
    <3>4. QED
      BY <3>2, <3>3
  <2>5. QED
    BY <1>3, <2>3, <2>4 DEF Requests, CreateChallengeRequest, DeleteChallengeRequest,
       DeleteAttachmentRequest, files
<1>4. ASSUME NEW h \in Handlers, CreateChallenge(h) \/ DeleteChallenge(h)
      PROVE  s3Key[i][1] \in challenges \ challenges'
  <2>1. Finish(h) /\ UNCHANGED <<s3Key, objects>> /\ ~Uploading(h, i)
    BY <1>4 DEF CreateChallenge, DeleteChallenge, At, Uploading
  <2>2. \A g \in Handlers : Uploading(g, i) => Uploading(g, i)' \/ req[g].place \in Before
    BY <1>1, <2>1, OneMoves
  <2>3. i \in rows \ rows'
    BY <2>1, <2>2, OrphanBefore
  <2>4. challenges' = challenges \ {req[h].target} /\ s3Key[i][1] = req[h].target
    BY <1>4, <2>3 DEF CreateChallenge, DeleteChallenge
  <2>5. QED
    BY <2>3, <2>4, Tables DEF FileTables
<1>5. ASSUME NEW h \in Handlers, FindChallenge(h) \/ FindAttachment(h) PROVE FALSE
  <2>1. /\ Finish(h) \/ \E p : GoTo(h, p)
        /\ UNCHANGED files /\ req[h].place = "serve"
    BY <1>5 DEF FindChallenge, FindAttachment, At
  <2>2. \A g \in Handlers : Uploading(g, i) => Uploading(g, i)' \/ req[g].place \in Before
    BY <1>1, <2>1, OneMoves DEF Before
  <2>3. QED
    BY <2>1, <2>2, OrphanBefore DEF files
<1>6. ASSUME NEW h \in Handlers, PutObject(h) \/ UndoPut(h), req[h].target # i PROVE FALSE
  <2>1. /\ Finish(h) \/ \E p : GoTo(h, p)
        /\ UNCHANGED <<rows, s3Key>> /\ ~Uploading(h, i)
        /\ req[h].target \in Uploads /\ s3Key[req[h].target] \in Keys
    BY <1>6 DEF PutObject, UndoPut, At, Uploading, IInv, AccountsInv, Filled
  <2>2. \A g \in Handlers : Uploading(g, i) => Uploading(g, i)' \/ req[g].place \in Before
    BY <1>1, <2>1, OneMoves
  <2>3. \E x \in {objects[s3Key[req[h].target]], req[h].target, None} :
          objects' = [objects EXCEPT ![s3Key[req[h].target]] = x]
    BY <1>6 DEF PutObject, UndoPut, Put
  <2>4. s3Key[i] \in Keys
    BY <2>1, Tables DEF Orphaned, FileTables
  <2>5. objects'[s3Key[i]] = i => objects[s3Key[i]] = i
    BY <1>1, <1>6, <2>1, <2>3, <2>4, Tables DEF FileTables
  <2>6. QED
    BY <2>1, <2>2, <2>5, OrphanBefore
<1>7. ASSUME NEW h \in Handlers, PutObject(h) \/ UndoPut(h), req[h].target = i
      PROVE  \/ At(h, "UploadAttachment", "put") /\ req[h].target = i
             \/ At(h, "UploadAttachment", "undo") /\ req[h].target = i
  BY <1>7 DEF PutObject, UndoPut
<1>8. ASSUME NEW h \in Handlers, InsertRow(h) PROVE FALSE
  <2> DEFINE j == req[h].target
  <2>1. /\ req[h].op = "UploadAttachment" /\ UNCHANGED <<s3Key, objects>>
        /\ (Finish(h) /\ j \in rows') \/ GoTo(h, "undo")
        /\ rows \subseteq rows'
    BY <1>8, Answered DEF InsertRow, At
  <2>2. CASE i # j
    <3>1. ~Uploading(h, i)
      BY <2>2 DEF Uploading
    <3>2. \A g \in Handlers : Uploading(g, i) => Uploading(g, i)' \/ req[g].place \in Before
      BY <1>1, <2>1, <3>1, OneMoves
    <3>3. QED
      BY <2>1, <3>2, OrphanBefore
  <2>3. CASE i = j /\ GoTo(h, "undo")
    <3>1. req[h] # Idle
      BY <2>1, IdleCall DEF None
    <3>2. PICK r \in Request : req' = [req EXCEPT ![h] = r] /\ Same(r, req[h])
      BY <2>3, <3>1, GoesOn DEF Places, IInv, AccountsInv
    <3>3. req'[h] = r
      BY <3>2, OthersStay
    <3>4. QED
      BY <2>1, <2>3, <3>2, <3>3 DEF Orphaned, Same
  <2>4. QED
    BY <2>1, <2>2, <2>3 DEF Orphaned
<1>9. ASSUME NEW h \in Handlers, RemoveObject(h) PROVE FALSE
  <2>1. /\ Finish(h) \/ \E p : GoTo(h, p)
        /\ UNCHANGED <<rows, s3Key>> /\ ~Uploading(h, i)
        /\ req[h].target \in Uploads /\ s3Key[req[h].target] \in Keys
    BY <1>9 DEF RemoveObject, At, Uploading, IInv, AccountsInv, Filled
  <2>2. \A g \in Handlers : Uploading(g, i) => Uploading(g, i)' \/ req[g].place \in Before
    BY <1>1, <2>1, OneMoves
  <2>3. \E x \in {objects[s3Key[req[h].target]], None} :
          objects' = [objects EXCEPT ![s3Key[req[h].target]] = x]
    BY <1>9 DEF RemoveObject, Put
  <2>4. s3Key[i] \in Keys
    BY <2>1, Tables DEF Orphaned, FileTables
  <2>5. objects'[s3Key[i]] = i => objects[s3Key[i]] = i
    BY <1>1, <2>1, <2>3, <2>4, Tables DEF FileTables
  <2>6. QED
    BY <2>1, <2>2, <2>5, OrphanBefore
<1>10. ASSUME NEW h \in Handlers, DeleteRow(h) PROVE FALSE
  <2>1. Finish(h) /\ UNCHANGED <<s3Key, objects>> /\ ~Uploading(h, i)
    BY <1>10 DEF DeleteRow, At, Uploading
  <2>2. \A g \in Handlers : Uploading(g, i) => Uploading(g, i)' \/ req[g].place \in Before
    BY <1>1, <2>1, OneMoves
  <2>3. i \in rows /\ i \notin rows'
    BY <2>1, <2>2, OrphanBefore
  <2>4. Deletes(h, i) /\ req[h].place = "row"
    BY <1>10, <2>3 DEF DeleteRow, At, Deletes
  <2>5. objects[s3Key[i]] # i
    BY <2>4 DEF IInv, FilesInv, DeletionsInv
  <2>6. QED
    BY <2>1, <2>5 DEF Orphaned
<1>11. ASSUME UNCHANGED req, UNCHANGED files PROVE FALSE
  BY <1>11, OrphanBefore DEF files, Uploading
<1>12. CASE UNCHANGED vars
  BY <1>11, <1>12 DEF vars
<1>13. ASSUME NEW t \in Tokens, Expire(t), UNCHANGED files PROVE FALSE
  BY <1>11, <1>13 DEF Expire
<1>14. QED
  BY <1>2, <1>3, <1>4, <1>5, <1>6, <1>7, <1>8, <1>9, <1>10, <1>12, <1>13
  DEF Next, UploadAttachment, DeleteAttachment

\* Bytes are orphaned only with their challenge, by the death of the process, by an upload
\* that the storage carried out and answered with an error, or by an undo that failed.
THEOREM OrphansCauses == Spec => OrphanCauses
<1>1. IInv /\ [Next]_vars => [OrphanStep]_vars
  BY OrphansExplained
<1>2. QED
  BY <1>1, Invariance, PTL DEF Spec, OrphanCauses
===============================================================================
