--------------------------- MODULE RegistryProofs ---------------------------
(***************************************************************************)
(* Uploads and Registry, for any number of requests, repositories and      *)
(* digests, for every mix of operations and failures, and for both         *)
(* storages and both stores.                                               *)
(***************************************************************************)
EXTENDS Registry, SequenceTheorems, TLAPS

Committing == {"verify", "place", "rename", "get", "put", "clean"}
Pushing == {"layers", "save blob", "write blob", "fill blob", "associate", "tag", "refer",
            "put refs"}

\* Where the requests of an operation can be, and what they are about.
Proper(op, place) ==
  /\ place = "size" => op = "patch"
  /\ place \in {"write", "copy", "save"} => op \in {"patch", "put", "post"}
  /\ place \in Committing => op \in {"put", "post"}
  /\ place = "link" => op \in {"put", "post", "mount"}
  /\ place = "find" => op \in {"mount", "delete", "untag"}
  /\ place = "unlink" => op = "delete"
  /\ place \in Pushing => op = "manifest"
  /\ place = "remove tag" => op = "untag"

About(q) ==
  /\ q.op = "patch" => q.up \in UploadIds
  /\ q.op \in {"put", "post"} =>
       q.up \in UploadIds \cup Handlers /\ q.repo \in Repos /\ q.dig \in Layers
  /\ q.op = "mount" => q.repo \in Repos /\ q.dig \in Layers
  /\ q.op = "delete" => q.repo \in Repos /\ q.dig \in Digests
  /\ q.op = "manifest" => q.repo \in Repos /\ q.dig \in Manifests
  /\ q.op = "untag" => q.repo \in Repos /\ q.tag \in Tags

\* Only a request that copies its body has a descriptor, and the file is there.
Open(q) ==
  /\ q.place # "copy" => q.file = NoFile
  /\ \A u \in UploadIds \cup Handlers : q.file = InUpload(u) => upload[u] # Absent
  /\ \A d \in Digests : q.file = InBlob(d) => blob[d] # Absent

\* What a request has made sure of before it associates a digest with a repository.
Sure(q) ==
  /\ q.place \in {"link", "associate", "clean"} => Stored(q.dig)
  /\ q.place = "put" => q.body = q.dig
  /\ q.place \in {"copy", "place", "rename"} => backend = "filesystem"
  /\ q.place \in {"save", "get", "put", "clean"} => backend = "s3"

KnownOrDeleted(r, d) == <<r, d>> \in assoc \cup deleted

\* What a push has looked up.
Checked(q) ==
  /\ q.place \in Pushing =>
       \A d \in Needs[q.dig] : d \in q.left \/ KnownOrDeleted(q.repo, d)
  /\ q.place \in Pushing \ {"layers"} => q.left = {}
  /\ q.place \in {"tag", "refer", "put refs"} => KnownOrDeleted(q.repo, q.dig)

Good(q) == Proper(q.op, q.place) /\ About(q) /\ Open(q) /\ Sure(q) /\ Checked(q)

TablesOK ==
  /\ upload \in [UploadIds \cup Handlers -> Contents \cup {Absent}]
  /\ blob \in [Digests -> Contents \cup {Absent}]
  /\ assoc \subseteq Repos \X Digests /\ deleted \subseteq Repos \X Digests
  /\ acked \in [UploadIds -> Nat] /\ raced \subseteq UploadIds
  /\ tag \in [Repos \X Tags -> Manifests \cup {Absent}]
  /\ refs \in [Repos \X Manifests -> Seq(Manifests)]
  /\ announced \subseteq Repos \X Manifests
  /\ boots \in 1..MaxBoots
  /\ mix \in Mixes /\ backend \in {"filesystem", "s3"} /\ store \in {"boltdb", "dynamodb"}

Linked == \A r \in Repos, d \in Digests : InRepo(r, d) => Stored(d)

IInv ==
  /\ TablesOK
  /\ req \in [Handlers -> Request \cup {Idle}]
  /\ \A h \in Handlers : Good(req[h])
  /\ Linked
  /\ MissingWasDeleted

LEMMA IdleKept ==
  ASSUME NEW q, q = Idle
  PROVE  [q EXCEPT !.file = q.file] = q
BY SMT DEF Idle, Ask

USE RegistryAssumption

-----------------------------------------------------------------------------
(* Data *)

LEMMA Distinct ==
  /\ Absent \notin Contents /\ Absent \notin Digests
  /\ \A u, d : InUpload(u) # InBlob(d) /\ InUpload(u) # NoFile /\ InBlob(d) # NoFile
  /\ \A u, v : InUpload(u) = InUpload(v) => u = v
  /\ \A d, e : InBlob(d) = InBlob(e) => d = e
<1>1. Absent \notin Contents
  <2> SUFFICES ASSUME Absent \in Seq(Chunks) PROVE FALSE
    BY DEF Contents
  <2>1. Len(Absent) = 1 /\ Absent[1] = None
    BY DEF Absent
  <2>2. Absent[1] \in Chunks
    BY <2>1, ElementOfSeq
  <2>3. QED
    BY <2>1, <2>2
<1>2. Digests \subseteq Contents
  BY DEF Contents, Digests
<1>3. \A u, d : InUpload(u) # InBlob(d) /\ InUpload(u) # NoFile /\ InBlob(d) # NoFile
  BY DEF InUpload, InBlob, NoFile
<1>4. \A u, v : InUpload(u) = InUpload(v) => u = v
  BY DEF InUpload
<1>5. \A d, e : InBlob(d) = InBlob(e) => d = e
  BY DEF InBlob
<1>6. QED
  BY <1>1, <1>2, <1>3, <1>4, <1>5

LEMMA IdleRequest ==
  /\ Idle.op = None /\ Idle.place = "idle" /\ Idle.file = NoFile
  /\ None \notin Ops /\ Idle \notin Request
<1>1. Idle.op = None /\ Idle.place = "idle" /\ Idle.file = NoFile
  BY DEF Idle, Ask
<1>2. None \notin Ops
  BY DEF None, Ops
<1>3. QED
  BY <1>1, <1>2 DEF Request

\* What a handler has become, it is.
LEMMA GoodNext ==
  ASSUME NEW h \in Handlers, NEW q, req'[h] = q, Good(q)'
  PROVE  Good(req[h])'
<1>1. Proper(q.op, q.place)' /\ About(q)' /\ Open(q)' /\ Sure(q)' /\ Checked(q)'
  BY DEF Good
<1>2. Proper(req[h].op, req[h].place)'
  BY <1>1 DEF Proper
<1>3. About(req[h])'
  BY <1>1 DEF About
<1>4. Open(req[h])'
  BY <1>1 DEF Open
<1>5. Sure(req[h])'
  BY <1>1 DEF Sure, Stored
<1>6. Checked(req[h])'
  BY <1>1 DEF Checked, KnownOrDeleted
<1>7. QED
  BY <1>2, <1>3, <1>4, <1>5, <1>6 DEF Good

LEMMA IdleGood == Good(Idle) /\ Good(Idle)'
<1>1. Idle.op = None /\ Idle.place = "idle" /\ Idle.file = NoFile
  BY IdleRequest
<1>2. Open(Idle) /\ Open(Idle)'
  BY <1>1, Distinct DEF Open
<1>3. QED
  BY <1>1, <1>2 DEF Good, Proper, About, Sure, Checked, Committing, Pushing, None

\* A request out of one that is there, field by field.
LEMMA Goes ==
  ASSUME NEW q \in Request, NEW p \in Places
  PROVE  /\ [q EXCEPT !.place = p] \in Request
         /\ [q EXCEPT !.place = p].place = p
         /\ \A r : r = [q EXCEPT !.place = p] =>
              /\ r.op = q.op /\ r.repo = q.repo /\ r.from = q.from /\ r.up = q.up
              /\ r.dig = q.dig /\ r.body = q.body /\ r.start = q.start /\ r.file = q.file
              /\ r.tag = q.tag /\ r.left = q.left /\ r.seen = q.seen
<1>1. /\ [q EXCEPT !.place = p] \in Request
      /\ [q EXCEPT !.place = p].place = p
  BY DEF Request
<1>2. ASSUME NEW r, r = [q EXCEPT !.place = p]
      PROVE  /\ r.op = q.op /\ r.repo = q.repo /\ r.from = q.from /\ r.up = q.up
             /\ r.dig = q.dig /\ r.body = q.body /\ r.start = q.start /\ r.file = q.file
             /\ r.tag = q.tag /\ r.left = q.left /\ r.seen = q.seen
  BY <1>2 DEF Request
<1>3. QED
  BY <1>1, <1>2

LEMMA RegistryInit == Init => IInv
<1> SUFFICES ASSUME Init PROVE IInv
  OBVIOUS
<1>1. TablesOK
  BY DEF Init, InitUploads, TablesOK, Backends
<1>2. \A h \in Handlers : req[h] = Idle
  BY DEF Init, InitUploads
<1>3. \A h \in Handlers : Good(req[h])
  BY <1>2, IdleGood
<1>4. Linked /\ MissingWasDeleted
  BY DEF Init, InitUploads, Linked, InRepo, MissingWasDeleted
<1>5. QED
  BY <1>1, <1>2, <1>3, <1>4 DEF IInv, Init, InitUploads

-----------------------------------------------------------------------------
(* The requests that a step does not serve *)

LEMMA OthersGood ==
  ASSUME IInv, NEW h \in Handlers, NEW q \in Request \cup {Idle}, Becomes(h, q), Good(q)',
         UNCHANGED backend,
         \A d \in Digests : Stored(d) => Stored(d)',
         backend = "s3" \/ \A u \in UploadIds \cup Handlers :
                             upload[u] # Absent => upload'[u] # Absent,
         assoc \cup deleted \subseteq (assoc \cup deleted)'
  PROVE  /\ req' \in [Handlers -> Request \cup {Idle}]
         /\ \A g \in Handlers : Good(req[g])'
<1>1. req' \in [Handlers -> Request \cup {Idle}] /\ req'[h] = q
      /\ \A g \in Handlers \ {h} : req'[g] = req[g]
  BY DEF Becomes, IInv
<1>2. ASSUME NEW g \in Handlers, g # h PROVE Good(req[g])'
  <2>1. req'[g] = req[g] /\ Good(req[g])
    BY <1>1, <1>2 DEF IInv
  <2>2. Proper(req[g].op, req[g].place)' /\ About(req[g])'
    BY <2>1 DEF Good, Proper, About
  <2>3. Open(req[g])'
    <3>1. CASE backend = "s3"
      <4>1. req[g].place # "copy"
        BY <2>1, <3>1 DEF Good, Sure
      <4>2. QED
        BY <2>1, <4>1, Distinct DEF Good, Open
    <3>2. CASE backend # "s3"
      BY <2>1, <3>2 DEF Good, Open, Stored
    <3>3. QED
      BY <3>1, <3>2
  <2>4. req[g].place \in {"link", "associate", "clean"} => req[g].dig \in Digests
    BY <2>1 DEF Good, Proper, About, Digests, Committing, Pushing
  <2>5. Sure(req[g])'
    BY <2>1, <2>4 DEF Good, Sure
  <2>6. Checked(req[g])'
    BY <2>1 DEF Good, Checked, KnownOrDeleted
  <2>7. QED
    BY <2>2, <2>3, <2>5, <2>6 DEF Good
<1>3. Good(req[h])'
  BY <1>1, GoodNext
<1>4. QED
  BY <1>1, <1>2, <1>3

\* The invariant after a step that serves one request and leaves the uploads that are
\* there, but for S3.
LEMMA Kept ==
  ASSUME IInv, NEW h \in Handlers, NEW q \in Request \cup {Idle}, Becomes(h, q), Good(q)',
         UNCHANGED backend,
         \A d \in Digests : Stored(d) => Stored(d)',
         backend = "s3" \/ \A u \in UploadIds \cup Handlers :
                             upload[u] # Absent => upload'[u] # Absent,
         assoc \cup deleted \subseteq (assoc \cup deleted)',
         TablesOK', Linked', MissingWasDeleted'
  PROVE  IInv'
<1>1. /\ req' \in [Handlers -> Request \cup {Idle}]
      /\ \A g \in Handlers : Good(req[g])'
  BY OthersGood
<1>2. QED
  BY <1>1 DEF IInv

\* One that moves a request and nothing else.
LEMMA Moved ==
  ASSUME IInv, NEW h \in Handlers, NEW q \in Request \cup {Idle}, Becomes(h, q), Good(q),
         UNCHANGED <<backend, store, mix, upload, blob, acked, assoc, deleted, tag, refs,
                     announced, boots>>,
         raced' \subseteq UploadIds
  PROVE  IInv'
<1>1. Good(q)'
  BY DEF Good, Proper, About, Open, Sure, Checked, KnownOrDeleted, Stored
<1>2. TablesOK'
  BY DEF IInv, TablesOK
<1>3. Linked' /\ MissingWasDeleted'
  BY DEF IInv, Linked, InRepo, Stored, MissingWasDeleted
<1>4. \A d \in Digests : Stored(d) => Stored(d)'
  BY DEF Stored
<1>5. QED
  BY <1>1, <1>2, <1>3, <1>4, Kept

Quiet == UNCHANGED <<backend, store, mix, upload, blob, acked, assoc, deleted, raced, tag, refs,
                     announced, boots>>

LEMMA Finished ==
  ASSUME IInv, NEW h \in Handlers, Finish(h), Quiet
  PROVE  IInv'
BY IdleGood, Moved DEF Finish, Quiet, IInv, TablesOK

\* A request that is somewhere is one of the requests.
LEMMA Somewhere ==
  ASSUME IInv, NEW h \in Handlers, req[h].place \in Places
  PROVE  req[h] \in Request /\ Good(req[h])
BY IdleRequest DEF IInv, Places

\* A request goes on to another place of the same operation.
LEMMA GoesOn ==
  ASSUME IInv, NEW h \in Handlers, req[h].place \in Places, NEW p \in Places, GoTo(h, p)
  PROVE  \E q \in Request :
           /\ Becomes(h, q)
           /\ q.place = p /\ q.op = req[h].op /\ q.repo = req[h].repo /\ q.from = req[h].from
           /\ q.up = req[h].up /\ q.dig = req[h].dig /\ q.body = req[h].body
           /\ q.start = req[h].start /\ q.file = req[h].file /\ q.tag = req[h].tag
           /\ q.left = req[h].left /\ q.seen = req[h].seen
<1>1. PICK o \in Request : o = req[h]
  BY Somewhere
<1>2. PICK q \in Request : q = [o EXCEPT !.place = p]
  BY Goes
<1>3. /\ q.place = p /\ q.op = o.op /\ q.repo = o.repo /\ q.from = o.from
      /\ q.up = o.up /\ q.dig = o.dig /\ q.body = o.body
      /\ q.start = o.start /\ q.file = o.file /\ q.tag = o.tag
      /\ q.left = o.left /\ q.seen = o.seen
  BY <1>2, Goes
<1>4. Becomes(h, q)
  BY <1>1, <1>2 DEF GoTo
<1>5. QED
  BY <1>1, <1>3, <1>4

-----------------------------------------------------------------------------
(* Requests as they arrive *)

Still == UNCHANGED <<backend, store, mix, boots>>

LEMMA Asked ==
  ASSUME NEW op \in Ops, NEW p \in Places, NEW r \in Repos \cup {None},
         NEW d \in Digests \cup {<<>>}
  PROVE  /\ Ask(op, p, r, d) \in Request
         /\ Ask(op, p, r, d).op = op /\ Ask(op, p, r, d).place = p
         /\ Ask(op, p, r, d).repo = r /\ Ask(op, p, r, d).dig = d
         /\ Ask(op, p, r, d).file = NoFile /\ Ask(op, p, r, d).left = {}
<1>1. <<>> \in Contents /\ <<>> \in Seq(Manifests)
  BY EmptySeq DEF Contents
<1>2. NoFile \in Files
  BY DEF Files
<1>3. Ask(op, p, r, d) \in Request
  BY <1>1, <1>2, SMT DEF Ask, Request, NoOffset, NoTag
<1>4. /\ Ask(op, p, r, d).op = op /\ Ask(op, p, r, d).place = p
      /\ Ask(op, p, r, d).repo = r /\ Ask(op, p, r, d).dig = d
      /\ Ask(op, p, r, d).file = NoFile /\ Ask(op, p, r, d).left = {}
  BY Zenon DEF Ask
<1>5. QED
  BY <1>3, <1>4

LEMMA Begun ==
  ASSUME IInv, NEW h \in Handlers, NEW q \in Request, Begin(h, q), Still,
         UNCHANGED manifestVars, q.file = NoFile, Proper(q.op, q.place), About(q),
         q.place \in {"size", "write", "find", "layers"},
         q.place = "layers" => q.left = Needs[q.dig]
  PROVE  IInv'
<1>1. Open(q)
  BY Distinct DEF Open
<1>2. Sure(q) /\ Checked(q)
  BY DEF Sure, Checked, Pushing
<1>3. Good(q)
  BY <1>1, <1>2 DEF Good
<1>4. raced' \subseteq UploadIds
  BY DEF Begin, IInv, TablesOK
<1>5. QED
  BY <1>3, <1>4, Moved DEF Begin, Still, manifestVars, blobVars

\* A request with one field more.
LEMMA WithUp ==
  ASSUME NEW q \in Request, NEW u \in UploadIds \cup Handlers,
         NEW r, r = [q EXCEPT !.up = u]
  PROVE  /\ r \in Request /\ r.up = u
         /\ r.op = q.op /\ r.place = q.place /\ r.repo = q.repo /\ r.dig = q.dig
         /\ r.file = q.file
BY DEF Request

LEMMA WithBody ==
  ASSUME NEW q \in Request, NEW c \in Contents,
         NEW r, r = [q EXCEPT !.body = c]
  PROVE  /\ r \in Request /\ r.body = c
         /\ r.op = q.op /\ r.place = q.place /\ r.repo = q.repo /\ r.dig = q.dig
         /\ r.file = q.file /\ r.up = q.up
BY DEF Request

LEMMA PatchRequestStep ==
  ASSUME IInv, NEW h \in Handlers, PatchRequest(h), Still, UNCHANGED manifestVars
  PROVE  IInv'
<1>1. PICK u \in UploadIds, c \in Bodies \ {<<>>}, s \in {NoOffset} \cup 0..MaxLen :
        Begin(h, [Ask("patch", IF s = NoOffset THEN "write" ELSE "size", None, <<>>)
                  EXCEPT !.up = u, !.body = c, !.start = s])
  BY DEF PatchRequest
<1>2. PICK p \in {"write", "size"} : p = IF s = NoOffset THEN "write" ELSE "size"
  OBVIOUS
<1>o. PICK o : o = Ask("patch", p, None, <<>>)
  OBVIOUS
<1>o1. PICK o1 : o1 = [o EXCEPT !.up = u]
  OBVIOUS
<1>o2. PICK o2 : o2 = [o1 EXCEPT !.body = c]
  OBVIOUS
<1>q. PICK q : q = [o2 EXCEPT !.start = s]
  OBVIOUS
<1>3. /\ "patch" \in Ops /\ p \in Places /\ None \in Repos \cup {None}
      /\ <<>> \in Digests \cup {<<>>}
  BY DEF Ops, Places
<1>4. /\ o \in Request /\ o.op = "patch" /\ o.place = p /\ o.file = NoFile
  BY <1>o, <1>3, Asked
<1>c. c \in Contents
  BY DEF Contents
<1>5. /\ o1 \in Request /\ o1.op = "patch" /\ o1.place = p /\ o1.file = NoFile /\ o1.up = u
  BY <1>o1, <1>4, WithUp
<1>8. [o EXCEPT !.up = u, !.body = c, !.start = s] = q
  BY <1>o1, <1>o2, <1>q, <1>4 DEF Request
<1>6. /\ o2 \in Request /\ o2.op = "patch" /\ o2.place = p /\ o2.file = NoFile /\ o2.up = u
  BY <1>o2, <1>5, <1>c, WithBody
<1>7. /\ q \in Request /\ q.op = "patch" /\ q.place = p /\ q.file = NoFile /\ q.up = u
  BY <1>q, <1>6 DEF Request
<1>9. Begin(h, q)
  BY <1>o, <1>1, <1>2, <1>8
<1>10. Proper(q.op, q.place) /\ About(q)
  BY <1>7 DEF Proper, About, Committing, Pushing
<1>11. QED
  BY <1>7, <1>9, <1>10, Begun

\* PUT and POST alike.
LEMMA CommitRequestStep ==
  ASSUME IInv, NEW h \in Handlers, NEW op \in {"put", "post"}, NEW r \in Repos,
         NEW d \in Layers, NEW u \in UploadIds \cup Handlers, NEW c \in Contents,
         Begin(h, [Ask(op, "write", r, d) EXCEPT !.up = u, !.body = c]),
         Still, UNCHANGED manifestVars
  PROVE  IInv'
<1>o. PICK o : o = Ask(op, "write", r, d)
  OBVIOUS
<1>o1. PICK o1 : o1 = [o EXCEPT !.up = u]
  OBVIOUS
<1>q. PICK q : q = [o1 EXCEPT !.body = c]
  OBVIOUS
<1>1. /\ op \in Ops /\ "write" \in Places /\ r \in Repos \cup {None}
      /\ d \in Digests \cup {<<>>}
  BY DEF Ops, Places, Digests
<1>2. /\ o \in Request /\ o.op = op /\ o.place = "write" /\ o.repo = r /\ o.dig = d
      /\ o.file = NoFile
  BY <1>o, <1>1, Asked
<1>3. /\ o1 \in Request /\ o1.op = op /\ o1.place = "write" /\ o1.repo = r /\ o1.dig = d
      /\ o1.file = NoFile /\ o1.up = u
  BY <1>o1, <1>2, WithUp
<1>4. [o EXCEPT !.up = u, !.body = c] = q
  BY <1>o1, <1>q, <1>2 DEF Request
<1>5. /\ q \in Request /\ q.op = op /\ q.place = "write" /\ q.repo = r /\ q.dig = d
      /\ q.file = NoFile /\ q.up = u
  BY <1>q, <1>3, WithBody
<1>6. Begin(h, q)
  BY <1>o, <1>o1, <1>q, <1>4
<1>7. Proper(q.op, q.place) /\ About(q)
  BY <1>5 DEF Proper, About, Committing, Pushing
<1>8. QED
  BY <1>5, <1>6, <1>7, Begun

LEMMA PutRequestStep ==
  ASSUME IInv, NEW h \in Handlers, PutRequest(h), Still, UNCHANGED manifestVars
  PROVE  IInv'
<1>1. PICK u \in UploadIds, c \in Bodies, d \in Layers, r \in Repos :
        Begin(h, [Ask("put", "write", r, d) EXCEPT !.up = u, !.body = c])
  BY DEF PutRequest
<1>2. c \in Contents
  BY DEF Contents
<1>3. QED
  BY <1>1, <1>2, CommitRequestStep

LEMMA PostRequestStep ==
  ASSUME IInv, NEW h \in Handlers, PostRequest(h), Still, UNCHANGED manifestVars
  PROVE  IInv'
<1>1. PICK c \in Layers, d \in Layers, r \in Repos :
        Begin(h, [Ask("post", "write", r, d) EXCEPT !.up = h, !.body = c])
  BY DEF PostRequest
<1>2. c \in Contents
  BY DEF Contents, Digests
<1>3. QED
  BY <1>1, <1>2, CommitRequestStep

LEMMA MountRequestStep ==
  ASSUME IInv, NEW h \in Handlers, MountRequest(h), Still, UNCHANGED manifestVars
  PROVE  IInv'
<1>1. PICK d \in Layers, r \in Repos, from \in Repos \cup {None} :
        Begin(h, [Ask("mount", "find", r, d) EXCEPT !.from = from])
  BY DEF MountRequest
<1>o. PICK o : o = Ask("mount", "find", r, d)
  OBVIOUS
<1>q. PICK q : q = [o EXCEPT !.from = from]
  OBVIOUS
<1>2. /\ "mount" \in Ops /\ "find" \in Places /\ r \in Repos \cup {None}
      /\ d \in Digests \cup {<<>>}
  BY DEF Ops, Places, Digests
<1>3. /\ o \in Request /\ o.op = "mount" /\ o.place = "find" /\ o.repo = r /\ o.dig = d
      /\ o.file = NoFile
  BY <1>o, <1>2, Asked
<1>4. /\ q \in Request /\ q.op = "mount" /\ q.place = "find" /\ q.repo = r /\ q.dig = d
      /\ q.file = NoFile
  BY <1>q, <1>3 DEF Request
<1>5. Begin(h, q)
  BY <1>o, <1>q, <1>1
<1>6. Proper(q.op, q.place) /\ About(q)
  BY <1>4 DEF Proper, About, Committing, Pushing
<1>7. QED
  BY <1>4, <1>5, <1>6, Begun

LEMMA DeleteRequestStep ==
  ASSUME IInv, NEW h \in Handlers, DeleteRequest(h), Still, UNCHANGED manifestVars
  PROVE  IInv'
<1>1. PICK d \in Digests, r \in Repos : Begin(h, Ask("delete", "find", r, d))
  BY DEF DeleteRequest
<1>q. PICK q : q = Ask("delete", "find", r, d)
  OBVIOUS
<1>2. /\ "delete" \in Ops /\ "find" \in Places /\ r \in Repos \cup {None}
      /\ d \in Digests \cup {<<>>}
  BY DEF Ops, Places
<1>3. /\ q \in Request /\ q.op = "delete" /\ q.place = "find" /\ q.repo = r /\ q.dig = d
      /\ q.file = NoFile
  BY <1>q, <1>2, Asked
<1>4. Begin(h, q)
  BY <1>q, <1>1
<1>5. Proper(q.op, q.place) /\ About(q)
  BY <1>3 DEF Proper, About, Committing, Pushing
<1>6. QED
  BY <1>3, <1>4, <1>5, Begun

LEMMA WithTag ==
  ASSUME NEW q \in Request, NEW t \in Tags \cup {NoTag},
         NEW r, r = [q EXCEPT !.tag = t]
  PROVE  /\ r \in Request /\ r.tag = t
         /\ r.op = q.op /\ r.place = q.place /\ r.repo = q.repo /\ r.dig = q.dig
         /\ r.file = q.file
BY DEF Request

LEMMA WithLeft ==
  ASSUME NEW q \in Request, NEW l \in SUBSET Layers,
         NEW r, r = [q EXCEPT !.left = l]
  PROVE  /\ r \in Request /\ r.left = l
         /\ r.op = q.op /\ r.place = q.place /\ r.repo = q.repo /\ r.from = q.from
         /\ r.up = q.up /\ r.dig = q.dig /\ r.body = q.body /\ r.start = q.start
         /\ r.file = q.file /\ r.tag = q.tag /\ r.seen = q.seen
BY DEF Request

LEMMA PutManifestRequestStep ==
  ASSUME IInv, NEW h \in Handlers, PutManifestRequest(h), Still
  PROVE  IInv'
<1>1. PICK m \in Manifests, r \in Repos, t \in mix.tags \cup {NoTag} :
        /\ Begin(h, [Ask("manifest", "layers", r, m) EXCEPT !.tag = t, !.left = Needs[m]])
        /\ UNCHANGED manifestVars
  BY DEF PutManifestRequest
<1>o. PICK o : o = Ask("manifest", "layers", r, m)
  OBVIOUS
<1>o1. PICK o1 : o1 = [o EXCEPT !.tag = t]
  OBVIOUS
<1>l. PICK l : l = Needs[m]
  OBVIOUS
<1>q. PICK q : q = [o1 EXCEPT !.left = l]
  OBVIOUS
<1>2. t \in Tags \cup {NoTag}
  BY DEF IInv, TablesOK
<1>2a. l \in SUBSET Layers
  BY <1>l
<1>3. /\ "manifest" \in Ops /\ "layers" \in Places /\ r \in Repos \cup {None}
      /\ m \in Digests \cup {<<>>}
  BY DEF Ops, Places, Digests
<1>4. /\ o \in Request /\ o.op = "manifest" /\ o.place = "layers" /\ o.repo = r /\ o.dig = m
      /\ o.file = NoFile
  BY <1>o, <1>3, Asked
<1>5. /\ o1 \in Request /\ o1.op = "manifest" /\ o1.place = "layers" /\ o1.repo = r
      /\ o1.dig = m /\ o1.file = NoFile
  BY <1>o1, <1>2, <1>4 DEF Request
<1>6. [o EXCEPT !.tag = t, !.left = l] = q
  BY <1>o1, <1>q, <1>4 DEF Request
<1>7. /\ q \in Request /\ q.op = "manifest" /\ q.place = "layers" /\ q.repo = r
      /\ q.dig = m /\ q.file = NoFile /\ q.left = l
  BY <1>q, <1>2a, <1>5 DEF Request
<1>8. Begin(h, q)
  BY <1>o, <1>l, <1>1, <1>6
<1>9. Proper(q.op, q.place) /\ About(q)
  BY <1>7 DEF Proper, About, Committing, Pushing
<1>10. QED
  BY <1>1, <1>l, <1>7, <1>8, <1>9, Begun

LEMMA DeleteTagRequestStep ==
  ASSUME IInv, NEW h \in Handlers, DeleteTagRequest(h), Still
  PROVE  IInv'
<1>1. PICK r \in Repos, t \in mix.tags :
        /\ Begin(h, [Ask("untag", "find", r, <<>>) EXCEPT !.tag = t])
        /\ UNCHANGED manifestVars
  BY DEF DeleteTagRequest
<1>o. PICK o : o = Ask("untag", "find", r, <<>>)
  OBVIOUS
<1>q. PICK q : q = [o EXCEPT !.tag = t]
  OBVIOUS
<1>2. t \in Tags
  BY DEF IInv, TablesOK
<1>3. /\ "untag" \in Ops /\ "find" \in Places /\ r \in Repos \cup {None}
      /\ <<>> \in Digests \cup {<<>>}
  BY DEF Ops, Places
<1>4. /\ o \in Request /\ o.op = "untag" /\ o.place = "find" /\ o.repo = r /\ o.file = NoFile
  BY <1>o, <1>3, Asked
<1>5. /\ q \in Request /\ q.op = "untag" /\ q.place = "find" /\ q.repo = r /\ q.file = NoFile
      /\ q.tag = t
  BY <1>q, <1>2, <1>4, WithTag
<1>6. Begin(h, q)
  BY <1>o, <1>q, <1>1
<1>7. Proper(q.op, q.place) /\ About(q)
  BY <1>2, <1>5 DEF Proper, About, Committing, Pushing
<1>8. QED
  BY <1>1, <1>5, <1>6, <1>7, Begun

-----------------------------------------------------------------------------
(* Requests that go on *)

\* What a request must know to go on to place p.
Ready(h, p) ==
  /\ req[h].place # "copy"
  /\ Proper(req[h].op, p)
  /\ p \in {"link", "associate", "clean"} => blob'[req[h].dig] # Absent
  /\ p = "put" => req[h].body = req[h].dig
  /\ p \in {"copy", "place", "rename"} => backend = "filesystem"
  /\ p \in {"save", "get", "put", "clean"} => backend = "s3"
  /\ p \in Pushing =>
       \A d \in Needs[req[h].dig] : d \in req[h].left \/ KnownOrDeleted(req[h].repo, d)
  /\ p \in Pushing \ {"layers"} => req[h].left = {}
  /\ p \in {"tag", "refer", "put refs"} =>
       <<req[h].repo, req[h].dig>> \in assoc' \cup deleted'

LEMMA Onward ==
  ASSUME IInv, NEW h \in Handlers, req[h].place \in Places, NEW p \in Places, GoTo(h, p),
         Ready(h, p), UNCHANGED backend, assoc \cup deleted \subseteq (assoc \cup deleted)'
  PROVE  \E q \in Request : Becomes(h, q) /\ Good(q)'
<1>1. PICK q \in Request :
        /\ Becomes(h, q)
        /\ q.place = p /\ q.op = req[h].op /\ q.repo = req[h].repo /\ q.from = req[h].from
        /\ q.up = req[h].up /\ q.dig = req[h].dig /\ q.body = req[h].body
        /\ q.start = req[h].start /\ q.file = req[h].file /\ q.tag = req[h].tag
        /\ q.left = req[h].left /\ q.seen = req[h].seen
  BY GoesOn
<1>2. Good(req[h])
  BY Somewhere
<1>3. Proper(q.op, q.place)'
  BY <1>1 DEF Ready, Proper
<1>4. About(q)'
  BY <1>1, <1>2 DEF Good, About
<1>5. Open(q)'
  <2>1. req[h].place # "copy" /\ Open(req[h])
    BY <1>2 DEF Good, Ready
  <2>2. q.file = NoFile
    BY <1>1, <2>1 DEF Open
  <2>3. \A i \in UploadIds \cup Handlers \cup Digests : NoFile # InUpload(i) /\ NoFile # InBlob(i)
    BY Distinct
  <2>4. QED
    BY <2>2, <2>3 DEF Open
<1>6. Sure(q)'
  BY <1>1 DEF Ready, Sure, Stored
<1>7. Checked(q)'
  BY <1>1 DEF Ready, Checked, KnownOrDeleted
<1>8. QED
  BY <1>1, <1>3, <1>4, <1>5, <1>6, <1>7 DEF Good

LEMMA Advanced ==
  ASSUME IInv, NEW h \in Handlers, req[h].place \in Places, NEW p \in Places, GoTo(h, p),
         Ready(h, p), Quiet
  PROVE  IInv'
<1>1. /\ UNCHANGED backend
      /\ \A d \in Digests : Stored(d) => Stored(d)'
      /\ \A u \in UploadIds \cup Handlers : upload[u] # Absent => upload'[u] # Absent
      /\ assoc \cup deleted \subseteq (assoc \cup deleted)'
  BY DEF Quiet, Stored
<1>2. PICK q \in Request : Becomes(h, q) /\ Good(q)'
  BY <1>1, Onward
<1>3. TablesOK'
  BY DEF IInv, TablesOK, Quiet
<1>4. Linked' /\ MissingWasDeleted'
  BY DEF IInv, Linked, InRepo, Stored, MissingWasDeleted, Quiet
<1>5. QED
  BY <1>1, <1>2, <1>3, <1>4, Kept

LEMMA PatchSizeStep ==
  ASSUME IInv, NEW h \in Handlers, PatchSize(h), Still, UNCHANGED manifestVars
  PROVE  IInv'
<1>1. Quiet
  BY DEF PatchSize, Still, manifestVars, blobVars, Quiet
<1>2. req[h].place = "size" /\ "size" \in Places /\ "write" \in Places
  BY DEF PatchSize, At, Places
<1>3. CASE Finish(h)
  BY <1>1, <1>3, Finished
<1>4. CASE GoTo(h, "write")
  <2>1. Good(req[h])
    BY <1>2, Somewhere
  <2>2. Ready(h, "write")
    BY <1>2, <2>1 DEF Ready, Good, Proper, Committing, Pushing
  <2>3. QED
    BY <1>1, <1>2, <1>4, <2>2, Advanced
<1>5. QED
  BY <1>3, <1>4 DEF PatchSize

LEMMA WriteFetchStep ==
  ASSUME IInv, NEW h \in Handlers, WriteFetch(h), Still, UNCHANGED manifestVars
  PROVE  IInv'
<1>1. Quiet
  BY DEF WriteFetch, Still, manifestVars, blobVars, Quiet
<1>2. req[h].place = "write" /\ "write" \in Places /\ "save" \in Places /\ backend = "s3"
  BY DEF WriteFetch, At, Places
<1>3. req[h] \in Request /\ Good(req[h])
  BY <1>2, Somewhere
<1>4. PICK old \in {Content(upload[req[h].up])} \cup (IF Fails("storage") THEN {<<>>} ELSE {}) :
        Becomes(h, [req[h] EXCEPT !.place = "save", !.body = old \o @])
  BY DEF WriteFetch
<1>5. req[h].op \in {"patch", "put", "post"} /\ req[h].up \in UploadIds \cup Handlers
  BY <1>2, <1>3 DEF Good, Proper, About
<1>6. upload[req[h].up] \in Contents \cup {Absent} /\ <<>> \in Contents
  BY <1>5, EmptySeq DEF IInv, TablesOK, Contents
<1>7. old \in Contents
  BY <1>4, <1>6 DEF Content
<1>8. PICK b : b = old \o req[h].body
  OBVIOUS
<1>9. b \in Contents
  BY <1>3, <1>7, <1>8, ConcatProperties DEF Contents, Request
<1>10. PICK o : o = [req[h] EXCEPT !.place = "save"]
  OBVIOUS
<1>11. PICK q : q = [o EXCEPT !.body = b]
  OBVIOUS
<1>12. /\ o \in Request /\ o.place = "save" /\ o.op = req[h].op /\ o.up = req[h].up
       /\ o.repo = req[h].repo /\ o.dig = req[h].dig /\ o.file = req[h].file
       /\ o.left = req[h].left /\ o.tag = req[h].tag /\ o.body = req[h].body
  BY <1>2, <1>3, <1>10 DEF Request
<1>13. /\ q \in Request /\ q.place = "save" /\ q.op = req[h].op /\ q.up = req[h].up
       /\ q.repo = req[h].repo /\ q.dig = req[h].dig /\ q.file = req[h].file
       /\ q.left = req[h].left /\ q.tag = req[h].tag
  BY <1>9, <1>11, <1>12 DEF Request
<1>14. [req[h] EXCEPT !.place = "save", !.body = old \o @] = q
  BY <1>3, <1>8, <1>10, <1>11 DEF Request
<1>15. Becomes(h, q)
  BY <1>4, <1>14
<1>16. Good(q)
  <2>1. Proper(q.op, q.place) /\ About(q)
    BY <1>3, <1>5, <1>13 DEF Good, Proper, About, Committing, Pushing
  <2>2. Open(q)
    BY <1>2, <1>3, <1>13 DEF Good, Open
  <2>3. Sure(q) /\ Checked(q)
    BY <1>2, <1>13 DEF Sure, Checked, Pushing
  <2>4. QED
    BY <2>1, <2>2, <2>3 DEF Good
<1>17. QED
  BY <1>1, <1>13, <1>15, <1>16, Moved DEF Quiet, IInv, TablesOK

LEMMA CommitVerifyStep ==
  ASSUME IInv, NEW h \in Handlers, CommitVerify(h), Still, UNCHANGED manifestVars
  PROVE  IInv'
<1>1. Quiet
  BY DEF CommitVerify, Still, manifestVars, blobVars, Quiet
<1>2. /\ req[h].place = "verify" /\ "verify" \in Places /\ "place" \in Places
      /\ backend = "filesystem"
  BY DEF CommitVerify, At, Places
<1>3. CASE Finish(h)
  BY <1>1, <1>3, Finished
<1>4. CASE GoTo(h, "place")
  <2>1. Good(req[h])
    BY <1>2, Somewhere
  <2>2. Ready(h, "place")
    BY <1>2, <2>1 DEF Ready, Good, Proper, Committing, Pushing
  <2>3. QED
    BY <1>1, <1>2, <1>4, <2>2, Advanced
<1>5. QED
  BY <1>3, <1>4 DEF CommitVerify

LEMMA CommitGetStep ==
  ASSUME IInv, NEW h \in Handlers, CommitGet(h), Still, UNCHANGED manifestVars
  PROVE  IInv'
<1>1. Quiet
  BY DEF CommitGet, Still, manifestVars, blobVars, Quiet
<1>2. req[h].place = "get" /\ "get" \in Places /\ "put" \in Places
  BY DEF CommitGet, At, Places
<1>3. req[h] \in Request /\ Good(req[h])
  BY <1>2, Somewhere
<1>4. CASE Finish(h)
  BY <1>1, <1>4, Finished
<1>5. CASE /\ upload[req[h].up] = req[h].dig
           /\ Becomes(h, [req[h] EXCEPT !.place = "put", !.body = upload[req[h].up]])
  <2>1. req[h].op \in {"put", "post"} /\ req[h].dig \in Layers
    BY <1>2, <1>3 DEF Good, Proper, About, Committing
  <2>2. PICK b : b = upload[req[h].up]
    OBVIOUS
  <2>3. b \in Contents /\ b = req[h].dig
    BY <1>5, <2>1, <2>2 DEF Contents, Digests
  <2>4. PICK o : o = [req[h] EXCEPT !.place = "put"]
    OBVIOUS
  <2>5. PICK q : q = [o EXCEPT !.body = b]
    OBVIOUS
  <2>6. /\ o \in Request /\ o.place = "put" /\ o.op = req[h].op /\ o.up = req[h].up
        /\ o.repo = req[h].repo /\ o.dig = req[h].dig /\ o.file = req[h].file
        /\ o.left = req[h].left /\ o.tag = req[h].tag
    BY <1>2, <1>3, <2>4 DEF Request
  <2>7. /\ q \in Request /\ q.place = "put" /\ q.op = req[h].op /\ q.up = req[h].up
        /\ q.repo = req[h].repo /\ q.dig = req[h].dig /\ q.file = req[h].file
        /\ q.left = req[h].left /\ q.tag = req[h].tag /\ q.body = b
    BY <2>3, <2>5, <2>6 DEF Request
  <2>8. [req[h] EXCEPT !.place = "put", !.body = b] = q
    BY <1>3, <2>4, <2>5 DEF Request
  <2>9. Becomes(h, q)
    BY <1>5, <2>2, <2>8
  <2>10. Proper(q.op, q.place) /\ About(q)
    BY <1>3, <2>1, <2>7 DEF Good, Proper, About, Committing, Pushing
  <2>11. Open(q)
    BY <1>2, <1>3, <2>7 DEF Good, Open
  <2>12. Sure(q) /\ Checked(q)
    BY <1>2, <1>3, <2>3, <2>7 DEF Good, Sure, Checked, Pushing
  <2>13. QED
    BY <1>1, <2>7, <2>9, <2>10, <2>11, <2>12, Moved DEF Good, Quiet, IInv, TablesOK
<1>6. QED
  BY <1>4, <1>5 DEF CommitGet

LEMMA MountFindStep ==
  ASSUME IInv, NEW h \in Handlers, MountFind(h), Still, UNCHANGED manifestVars
  PROVE  IInv'
<1>1. Quiet
  BY DEF MountFind, Still, manifestVars, blobVars, Quiet
<1>2. req[h].place = "find" /\ req[h].op = "mount" /\ "find" \in Places /\ "link" \in Places
  BY DEF MountFind, At, Places
<1>3. req[h] \in Request /\ Good(req[h])
  BY <1>2, Somewhere
<1>4. CASE Finish(h)
  BY <1>1, <1>4, Finished
<1>5. CASE /\ IF req[h].from = None THEN Stored(req[h].dig) ELSE InRepo(req[h].from, req[h].dig)
           /\ GoTo(h, "link")
  <2>1. req[h].dig \in Digests /\ req[h].from \in Repos \cup {None}
    BY <1>2, <1>3 DEF Good, About, Digests, Request
  <2>2. Stored(req[h].dig)
    BY <1>5, <2>1 DEF IInv, Linked
  <2>3. Ready(h, "link")
    BY <1>1, <1>2, <2>2 DEF Ready, Proper, Committing, Pushing, Stored, Quiet
  <2>4. QED
    BY <1>1, <1>2, <1>5, <2>3, Advanced
<1>6. QED
  BY <1>4, <1>5 DEF MountFind

LEMMA CheckLayersStep ==
  ASSUME IInv, NEW h \in Handlers, CheckLayers(h), Still
  PROVE  IInv'
<1>1. Quiet
  BY DEF CheckLayers, Still, manifestVars, blobVars, Quiet
<1>2. req[h].place = "layers" /\ "layers" \in Places /\ "save blob" \in Places
  BY DEF CheckLayers, At, Places
<1>3. req[h] \in Request /\ Good(req[h])
  BY <1>2, Somewhere
<1>4. CASE Finish(h)
  BY <1>1, <1>4, Finished
<1>5. CASE req[h].left = {} /\ GoTo(h, "save blob")
  <2>1. /\ req[h].op = "manifest"
        /\ \A d \in Needs[req[h].dig] : d \in req[h].left \/ KnownOrDeleted(req[h].repo, d)
    BY <1>2, <1>3 DEF Good, Proper, Checked, Pushing
  <2>2. Proper(req[h].op, "save blob")
    BY <2>1 DEF Proper, Committing, Pushing
  <2>3. Ready(h, "save blob")
    BY <1>2, <1>5, <2>1, <2>2 DEF Ready
  <2>4. QED
    BY <1>1, <1>2, <1>5, <2>3, Advanced
<1>6. ASSUME NEW d \in req[h].left, InRepo(req[h].repo, d),
             Becomes(h, [req[h] EXCEPT !.left = @ \ {d}])
      PROVE  IInv'
  <2>1. PICK l : l = req[h].left \ {d}
    OBVIOUS
  <2>2. PICK q : q = [req[h] EXCEPT !.left = l]
    OBVIOUS
  <2>3. l \in SUBSET Layers
    BY <1>3, <2>1 DEF Request
  <2>4. /\ q \in Request /\ q.place = "layers" /\ q.op = req[h].op /\ q.repo = req[h].repo
        /\ q.dig = req[h].dig /\ q.up = req[h].up /\ q.file = req[h].file
        /\ q.tag = req[h].tag /\ q.left = l
    BY <1>2, <1>3, <2>2, <2>3 DEF Request
  <2>5. Becomes(h, q)
    BY <1>3, <1>6, <2>1, <2>2 DEF Request
  <2>6. Proper(q.op, q.place) /\ About(q) /\ Open(q)
    BY <1>2, <1>3, <2>4 DEF Good, Proper, About, Open
  <2>7. Sure(q)
    BY <2>4 DEF Sure
  <2>8. Checked(q)
    BY <1>2, <1>3, <1>6, <2>1, <2>4 DEF Good, Checked, KnownOrDeleted, InRepo, Pushing
  <2>9. QED
    BY <1>1, <2>4, <2>5, <2>6, <2>7, <2>8, Moved DEF Good, Quiet, IInv, TablesOK
<1>7. QED
  BY <1>4, <1>5, <1>6 DEF CheckLayers

LEMMA SaveBlobStep ==
  ASSUME IInv, NEW h \in Handlers, SaveBlob(h), Still
  PROVE  IInv'
<1>1. Quiet
  BY DEF SaveBlob, Still, manifestVars, blobVars, Quiet
<1>2. /\ req[h].place = "save blob" /\ "save blob" \in Places /\ "associate" \in Places
      /\ "write blob" \in Places
  BY DEF SaveBlob, At, Places
<1>3. Good(req[h])
  BY <1>2, Somewhere
<1>4. CASE Finish(h)
  BY <1>1, <1>4, Finished
<1>5. CASE Stored(req[h].dig) /\ GoTo(h, "associate")
  <2>1. Ready(h, "associate")
    BY <1>1, <1>2, <1>3, <1>5
    DEF Ready, Good, Proper, Checked, Committing, Pushing, Stored, Quiet
  <2>2. QED
    BY <1>1, <1>2, <1>5, <2>1, Advanced
<1>6. CASE GoTo(h, "write blob")
  <2>1. Ready(h, "write blob")
    BY <1>2, <1>3 DEF Ready, Good, Proper, Checked, Committing, Pushing
  <2>2. QED
    BY <1>1, <1>2, <1>6, <2>1, Advanced
<1>7. QED
  BY <1>4, <1>5, <1>6 DEF SaveBlob

-----------------------------------------------------------------------------
(* Steps that change contents *)

Rest == UNCHANGED <<backend, store, mix, assoc, deleted, raced, tag, refs, announced, boots>>

LEMMA ContentTables ==
  ASSUME IInv, Rest,
         upload' \in [UploadIds \cup Handlers -> Contents \cup {Absent}],
         blob' \in [Digests -> Contents \cup {Absent}],
         acked' \in [UploadIds -> Nat],
         \A d \in Digests : Stored(d) => Stored(d)'
  PROVE  TablesOK' /\ Linked' /\ MissingWasDeleted'
<1>1. TablesOK'
  BY DEF Rest, IInv, TablesOK
<1>2. Linked'
  BY DEF Rest, IInv, TablesOK, Linked, InRepo
<1>3. MissingWasDeleted'
  BY DEF Rest, IInv, MissingWasDeleted
<1>4. QED
  BY <1>1, <1>2, <1>3

LEMMA ContentKept ==
  ASSUME IInv, Rest, NEW h \in Handlers, NEW q \in Request \cup {Idle}, Becomes(h, q), Good(q)',
         upload' \in [UploadIds \cup Handlers -> Contents \cup {Absent}],
         blob' \in [Digests -> Contents \cup {Absent}],
         acked' \in [UploadIds -> Nat],
         \A d \in Digests : Stored(d) => Stored(d)',
         backend = "s3" \/ \A u \in UploadIds \cup Handlers :
                             upload[u] # Absent => upload'[u] # Absent
  PROVE  IInv'
<1>1. TablesOK' /\ Linked' /\ MissingWasDeleted'
  BY ContentTables
<1>2. UNCHANGED backend /\ assoc \cup deleted \subseteq (assoc \cup deleted)'
  BY DEF Rest
<1>3. QED
  BY <1>1, <1>2, Kept

LEMMA ContentAdvanced ==
  ASSUME IInv, Rest, NEW h \in Handlers, req[h].place \in Places, NEW p \in Places, GoTo(h, p),
         Ready(h, p),
         upload' \in [UploadIds \cup Handlers -> Contents \cup {Absent}],
         blob' \in [Digests -> Contents \cup {Absent}],
         acked' \in [UploadIds -> Nat],
         \A d \in Digests : Stored(d) => Stored(d)',
         backend = "s3" \/ \A u \in UploadIds \cup Handlers :
                             upload[u] # Absent => upload'[u] # Absent
  PROVE  IInv'
<1>1. UNCHANGED backend /\ assoc \cup deleted \subseteq (assoc \cup deleted)'
  BY DEF Rest
<1>2. PICK q \in Request : Becomes(h, q) /\ Good(q)'
  BY <1>1, Onward
<1>3. QED
  BY <1>2, ContentKept

LEMMA ContentFinished ==
  ASSUME IInv, Rest, NEW h \in Handlers, Finish(h),
         upload' \in [UploadIds \cup Handlers -> Contents \cup {Absent}],
         blob' \in [Digests -> Contents \cup {Absent}],
         acked' \in [UploadIds -> Nat],
         \A d \in Digests : Stored(d) => Stored(d)',
         backend = "s3" \/ \A u \in UploadIds \cup Handlers :
                             upload[u] # Absent => upload'[u] # Absent
  PROVE  IInv'
<1>1. Becomes(h, Idle) /\ Good(Idle)' /\ Idle \in Request \cup {Idle}
  BY IdleGood DEF Finish
<1>2. QED
  BY <1>1, ContentKept

\* After the body was written.
LEMMA WrittenGood ==
  ASSUME IInv, NEW h \in Handlers, req[h].place \in {"copy", "save"},
         Written(h, req[h].up), UNCHANGED backend
  PROVE  /\ acked' \in [UploadIds -> Nat]
         /\ \E q \in Request \cup {Idle} : Becomes(h, q) /\ Good(q)'
<1>1. req[h] \in Request /\ Good(req[h])
  BY Somewhere DEF Places
<1>2. CASE req[h].op = "patch"
  <2>1. req[h].up \in UploadIds
    BY <1>1, <1>2 DEF Good, About
  <2>2. acked' \in [UploadIds -> Nat]
    <3>1. acked \in [UploadIds -> Nat]
      BY DEF IInv, TablesOK
    <3>2. acked' = acked \/ acked' = [acked EXCEPT ![req[h].up] = @ + 1]
      BY <1>2 DEF Written
    <3>3. QED
      BY <2>1, <3>1, <3>2
  <2>3. Becomes(h, Idle)
    BY <1>2 DEF Written, Finish
  <2>4. QED
    BY <2>2, <2>3, IdleGood
<1>3. CASE req[h].op # "patch"
  <2>1. UNCHANGED acked
    BY <1>3 DEF Written
  <2>2. req[h].op \in {"put", "post"}
    BY <1>1, <1>3 DEF Good, Proper
  <2>3. PICK o : o = [req[h] EXCEPT !.place = "verify"]
    OBVIOUS
  <2>4. PICK q : q = [o EXCEPT !.file = NoFile]
    OBVIOUS
  <2>5. "verify" \in Places /\ NoFile \in Files
    BY DEF Places, Files
  <2>6. /\ o \in Request /\ o.place = "verify" /\ o.op = req[h].op /\ o.up = req[h].up
        /\ o.repo = req[h].repo /\ o.dig = req[h].dig /\ o.tag = req[h].tag
    BY <1>1, <2>3, <2>5 DEF Request
  <2>7. /\ q \in Request /\ q.place = "verify" /\ q.op = req[h].op /\ q.up = req[h].up
        /\ q.repo = req[h].repo /\ q.dig = req[h].dig /\ q.tag = req[h].tag
        /\ q.file = NoFile
    BY <2>4, <2>5, <2>6 DEF Request
  <2>8. [req[h] EXCEPT !.place = "verify", !.file = NoFile] = q
    BY <1>1, <2>3, <2>4 DEF Request
  <2>9. Becomes(h, q)
    BY <1>3, <2>8 DEF Written
  <2>10. Proper(q.op, q.place)' /\ About(q)'
    BY <1>1, <2>2, <2>7 DEF Good, Proper, About, Committing, Pushing
  <2>11. Open(q)'
    BY <2>7, Distinct DEF Open
  <2>12. Sure(q)' /\ Checked(q)'
    BY <2>7 DEF Sure, Checked, Pushing
  <2>13. Good(q)'
    BY <2>10, <2>11, <2>12 DEF Good
  <2>14. QED
    BY <2>1, <2>7, <2>9, <2>13 DEF IInv, TablesOK
<1>4. QED
  BY <1>2, <1>3

LEMMA WriteOpenStep ==
  ASSUME IInv, NEW h \in Handlers, WriteOpen(h), Still, UNCHANGED manifestVars
  PROVE  IInv'
<1>1. Rest /\ UNCHANGED <<blob, acked>>
  BY DEF WriteOpen, Still, manifestVars, Rest
<1>2. /\ req[h].place = "write" /\ "write" \in Places /\ "copy" \in Places
      /\ backend = "filesystem"
  BY DEF WriteOpen, At, Places
<1>3. req[h] \in Request /\ Good(req[h])
  BY <1>2, Somewhere
<1>4. CASE Finish(h) /\ UNCHANGED upload
  <2>1. Quiet
    BY <1>1, <1>4 DEF Rest, Quiet
  <2>2. QED
    BY <1>4, <2>1, Finished
<1>5. CASE /\ upload' = [upload EXCEPT ![req[h].up] = Content(@)]
           /\ Becomes(h, [req[h] EXCEPT !.place = "copy", !.file = InUpload(req[h].up)])
  <2>1. req[h].op \in {"patch", "put", "post"} /\ req[h].up \in UploadIds \cup Handlers
    BY <1>2, <1>3 DEF Good, Proper, About
  <2>2. PICK u : u = req[h].up
    OBVIOUS
  <2>3. upload[u] \in Contents \cup {Absent} /\ <<>> \in Contents
    BY <2>1, <2>2, EmptySeq DEF IInv, TablesOK, Contents
  <2>4. Content(upload[u]) \in Contents
    BY <2>3 DEF Content
  <2>5. /\ upload' \in [UploadIds \cup Handlers -> Contents \cup {Absent}]
        /\ upload'[u] \in Contents
        /\ \A v \in UploadIds \cup Handlers : v # u => upload'[v] = upload[v]
    BY <1>5, <2>1, <2>2, <2>4 DEF IInv, TablesOK
  <2>6. \A v \in UploadIds \cup Handlers : upload[v] # Absent => upload'[v] # Absent
    BY <2>5, Distinct
  <2>7. PICK o : o = [req[h] EXCEPT !.place = "copy"]
    OBVIOUS
  <2>8. PICK q : q = [o EXCEPT !.file = InUpload(u)]
    OBVIOUS
  <2>9. InUpload(u) \in Files
    BY <2>1, <2>2 DEF Files
  <2>10. /\ o \in Request /\ o.place = "copy" /\ o.op = req[h].op /\ o.up = req[h].up
         /\ o.repo = req[h].repo /\ o.dig = req[h].dig /\ o.tag = req[h].tag
    BY <1>2, <1>3, <2>7 DEF Request
  <2>11. /\ q \in Request /\ q.place = "copy" /\ q.op = req[h].op /\ q.up = req[h].up
         /\ q.repo = req[h].repo /\ q.dig = req[h].dig /\ q.tag = req[h].tag
         /\ q.file = InUpload(u)
    BY <2>8, <2>9, <2>10 DEF Request
  <2>12. [req[h] EXCEPT !.place = "copy", !.file = InUpload(u)] = q
    BY <1>3, <2>7, <2>8 DEF Request
  <2>13. Becomes(h, q)
    BY <1>5, <2>2, <2>12
  <2>14. Proper(q.op, q.place)' /\ About(q)'
    BY <1>3, <2>1, <2>11 DEF Good, Proper, About, Committing, Pushing
  <2>15. Open(q)'
    BY <2>5, <2>11, Distinct DEF Open
  <2>16. Sure(q)' /\ Checked(q)'
    BY <1>1, <1>2, <2>11 DEF Sure, Checked, Pushing, Rest
  <2>17. Good(q)'
    BY <2>14, <2>15, <2>16 DEF Good
  <2>18. /\ blob' \in [Digests -> Contents \cup {Absent}]
         /\ acked' \in [UploadIds -> Nat]
         /\ \A d \in Digests : Stored(d) => Stored(d)'
    BY <1>1 DEF IInv, TablesOK, Stored
  <2>19. QED
    BY <1>1, <2>5, <2>6, <2>11, <2>13, <2>17, <2>18, ContentKept
<1>6. QED
  BY <1>4, <1>5 DEF WriteOpen

\* The file behind a descriptor that is there gets more content and stays.
LEMMA Appended ==
  ASSUME IInv, NEW h \in Handlers, req[h].place = "copy", NEW c \in Contents,
         AppendTo(req[h].file, c)
  PROVE  /\ upload' \in [UploadIds \cup Handlers -> Contents \cup {Absent}]
         /\ blob' \in [Digests -> Contents \cup {Absent}]
         /\ \A d \in Digests : Stored(d) => Stored(d)'
         /\ \A u \in UploadIds \cup Handlers : upload[u] # Absent => upload'[u] # Absent
<1>1. Good(req[h])
  BY Somewhere DEF Places
<1>2. \A s \in Contents : s \o c \in Contents
  BY ConcatProperties DEF Contents
<1>3. /\ upload \in [UploadIds \cup Handlers -> Contents \cup {Absent}]
      /\ blob \in [Digests -> Contents \cup {Absent}]
  BY DEF IInv, TablesOK
<1>4. PICK f : f = req[h].file
  OBVIOUS
<1>5. /\ \A u \in UploadIds \cup Handlers : f = InUpload(u) => upload[u] \in Contents
      /\ \A d \in Digests : f = InBlob(d) => blob[d] \in Contents
  BY <1>1, <1>3, <1>4 DEF Good, Open
<1>6. /\ upload' = [u \in UploadIds \cup Handlers |->
                      IF f = InUpload(u) THEN upload[u] \o c ELSE upload[u]]
      /\ blob' = [d \in Digests |-> IF f = InBlob(d) THEN blob[d] \o c ELSE blob[d]]
  BY <1>3, <1>4 DEF AppendTo
<1>7. \A u \in UploadIds \cup Handlers :
        /\ upload'[u] \in Contents \cup {Absent}
        /\ upload[u] # Absent => upload'[u] # Absent
  <2> SUFFICES ASSUME NEW u \in UploadIds \cup Handlers
               PROVE  /\ upload'[u] \in Contents \cup {Absent}
                      /\ upload[u] # Absent => upload'[u] # Absent
    OBVIOUS
  <2>1. CASE f = InUpload(u)
    <3>1. upload'[u] = upload[u] \o c /\ upload[u] \in Contents
      BY <1>5, <1>6, <2>1
    <3>2. upload'[u] \in Contents
      BY <1>2, <3>1
    <3>3. QED
      BY <3>2, Distinct
  <2>2. CASE f # InUpload(u)
    BY <1>3, <1>6, <2>2
  <2>3. QED
    BY <2>1, <2>2
<1>8. \A d \in Digests :
        /\ blob'[d] \in Contents \cup {Absent}
        /\ blob[d] # Absent => blob'[d] # Absent
  <2> SUFFICES ASSUME NEW d \in Digests
               PROVE  /\ blob'[d] \in Contents \cup {Absent}
                      /\ blob[d] # Absent => blob'[d] # Absent
    OBVIOUS
  <2>1. CASE f = InBlob(d)
    <3>1. blob'[d] = blob[d] \o c /\ blob[d] \in Contents
      BY <1>5, <1>6, <2>1
    <3>2. blob'[d] \in Contents
      BY <1>2, <3>1
    <3>3. QED
      BY <3>2, Distinct
  <2>2. CASE f # InBlob(d)
    BY <1>3, <1>6, <2>2
  <2>3. QED
    BY <2>1, <2>2
<1>9. QED
  BY <1>6, <1>7, <1>8 DEF Stored

LEMMA WriteCopyStep ==
  ASSUME IInv, NEW h \in Handlers, WriteCopy(h), Still, UNCHANGED manifestVars
  PROVE  IInv'
<1>1. Rest
  BY DEF WriteCopy, Still, manifestVars, Rest
<1>2. req[h].place = "copy" /\ "copy" \in Places
  BY DEF WriteCopy, At, Places
<1>3. req[h] \in Request
  BY <1>2, Somewhere
<1>4. PICK c \in Contents :
        /\ AppendTo(req[h].file, c)
        /\ Written(h, req[h].up) \/ (Finish(h) /\ UNCHANGED acked)
  <2>1. req[h].body \in Contents
    BY <1>3 DEF Request
  <2>2. \A n \in 0..Len(req[h].body) : SubSeq(req[h].body, 1, n) \in Contents
    <3> SUFFICES ASSUME NEW n \in 0..Len(req[h].body)
                 PROVE  SubSeq(req[h].body, 1, n) \in Contents
      OBVIOUS
    <3>1. \A i \in 1..n : i \in 1..Len(req[h].body)
      BY <2>1, LenProperties DEF Contents
    <3>2. QED
      BY <2>1, <3>1, LenProperties, SubSeqProperties DEF Contents
  <2>3. QED
    BY <2>1, <2>2 DEF WriteCopy
<1>5. /\ upload' \in [UploadIds \cup Handlers -> Contents \cup {Absent}]
      /\ blob' \in [Digests -> Contents \cup {Absent}]
      /\ \A d \in Digests : Stored(d) => Stored(d)'
      /\ \A u \in UploadIds \cup Handlers : upload[u] # Absent => upload'[u] # Absent
  BY <1>2, <1>4, Appended
<1>6. CASE Written(h, req[h].up)
  <2>1. UNCHANGED backend
    BY <1>1 DEF Rest
  <2>2. /\ acked' \in [UploadIds -> Nat]
        /\ \E q \in Request \cup {Idle} : Becomes(h, q) /\ Good(q)'
    BY <1>2, <1>6, <2>1, WrittenGood
  <2>3. QED
    BY <1>1, <1>5, <2>2, ContentKept
<1>7. CASE Finish(h) /\ UNCHANGED acked
  <2>1. acked' \in [UploadIds -> Nat]
    BY <1>7 DEF IInv, TablesOK
  <2>2. QED
    BY <1>1, <1>5, <1>7, <2>1, ContentFinished
<1>8. QED
  BY <1>4, <1>6, <1>7

LEMMA WriteSaveStep ==
  ASSUME IInv, NEW h \in Handlers, WriteSave(h), Still, UNCHANGED manifestVars
  PROVE  IInv'
<1>1. Rest /\ UNCHANGED blob
  BY DEF WriteSave, Still, manifestVars, Rest
<1>2. req[h].place = "save" /\ "save" \in Places
  BY DEF WriteSave, At, Places
<1>3. req[h] \in Request /\ Good(req[h])
  BY <1>2, Somewhere
<1>4. backend = "s3"
  BY <1>2, <1>3 DEF Good, Sure
<1>5. /\ upload' \in [UploadIds \cup Handlers -> Contents \cup {Absent}]
      /\ blob' \in [Digests -> Contents \cup {Absent}]
      /\ \A d \in Digests : Stored(d) => Stored(d)'
  <2>1. req[h].body \in Contents
    BY <1>3 DEF Request
  <2>2. upload' \in {upload, [upload EXCEPT ![req[h].up] = req[h].body]}
    BY DEF WriteSave
  <2>3. upload' \in [UploadIds \cup Handlers -> Contents \cup {Absent}]
    BY <2>1, <2>2 DEF IInv, TablesOK
  <2>4. QED
    BY <1>1, <2>3 DEF IInv, TablesOK, Stored
<1>6. CASE Written(h, req[h].up)
  <2>1. UNCHANGED backend
    BY <1>1 DEF Rest
  <2>2. /\ acked' \in [UploadIds -> Nat]
        /\ \E q \in Request \cup {Idle} : Becomes(h, q) /\ Good(q)'
    BY <1>2, <1>6, <2>1, WrittenGood
  <2>3. QED
    BY <1>1, <1>4, <1>5, <2>2, ContentKept
<1>7. CASE Finish(h) /\ UNCHANGED acked
  <2>1. acked' \in [UploadIds -> Nat]
    BY <1>7 DEF IInv, TablesOK
  <2>2. QED
    BY <1>1, <1>4, <1>5, <1>7, <2>1, ContentFinished
<1>8. QED
  BY <1>6, <1>7 DEF WriteSave

-----------------------------------------------------------------------------
(* CommitBlob *)

LEMMA Forgotten ==
  ASSUME IInv, NEW u \in UploadIds \cup Handlers, Forget(u)
  PROVE  /\ upload' \in [UploadIds \cup Handlers -> Contents \cup {Absent}]
         /\ acked' \in [UploadIds -> Nat]
         /\ \A v \in UploadIds \cup Handlers : v # u => upload'[v] = upload[v]
<1>1. /\ upload \in [UploadIds \cup Handlers -> Contents \cup {Absent}]
      /\ acked \in [UploadIds -> Nat]
  BY DEF IInv, TablesOK
<1>2. /\ upload' = [upload EXCEPT ![u] = Absent]
      /\ acked' = [v \in UploadIds |-> IF v = u THEN 0 ELSE acked[v]]
  BY DEF Forget
<1>3. acked' \in [UploadIds -> Nat]
  BY <1>1, <1>2
<1>4. QED
  BY <1>1, <1>2, <1>3

\* A request whose descriptor's file has another name, or none.
LEMMA Renamed ==
  ASSUME IInv, NEW g \in Handlers, NEW f \in Files, NEW r, r = [req[g] EXCEPT !.file = f],
         req[g].file = NoFile => f = NoFile,
         \A u \in UploadIds \cup Handlers : f = InUpload(u) => upload'[u] # Absent,
         \A d \in Digests : f = InBlob(d) => blob'[d] # Absent,
         UNCHANGED <<backend, assoc, deleted>>,
         \A d \in Digests : Stored(d) => Stored(d)'
  PROVE  r \in Request \cup {Idle} /\ Good(r)'
<1>1. req[g] \in Request \cup {Idle} /\ Good(req[g])
  BY DEF IInv
<1>2. CASE req[g] = Idle
  <2>1. f = NoFile
    BY <1>2, IdleRequest
  <2>2. PICK q : q = Idle
    OBVIOUS
  <2>3. q.file = NoFile /\ [q EXCEPT !.file = q.file] = q
    BY <2>2, IdleKept, IdleRequest
  <2>4. r = Idle
    BY <1>2, <2>1, <2>2, <2>3
  <2>5. QED
    BY <2>4, IdleGood
<1>3. CASE req[g] \in Request
  <2>1. /\ r \in Request /\ r.place = req[g].place /\ r.op = req[g].op /\ r.up = req[g].up
        /\ r.repo = req[g].repo /\ r.dig = req[g].dig /\ r.tag = req[g].tag
        /\ r.left = req[g].left /\ r.body = req[g].body /\ r.file = f
    BY <1>3 DEF Request
  <2>2. Proper(r.op, r.place)' /\ About(r)'
    BY <1>1, <2>1 DEF Good, Proper, About
  <2>3. Open(r)'
    BY <1>1, <2>1 DEF Good, Open
  <2>4. req[g].place \in {"link", "associate", "clean"} => req[g].dig \in Digests
    BY <1>1 DEF Good, Proper, About, Digests, Committing, Pushing
  <2>5. Sure(r)'
    BY <1>1, <2>1, <2>4 DEF Good, Sure
  <2>6. Checked(r)'
    BY <1>1, <2>1 DEF Good, Checked, KnownOrDeleted
  <2>7. QED
    BY <2>1, <2>2, <2>3, <2>5, <2>6 DEF Good
<1>4. QED
  BY <1>1, <1>2, <1>3

\* The requests after a step that changes several of them.
LEMMA Regrouped ==
  ASSUME NEW h \in Handlers, DOMAIN req' = Handlers, req' = [g \in Handlers |-> req'[g]],
         NEW r \in Request, req'[h] = r, Good(r)',
         \A g \in Handlers \ {h} : \E q \in Request \cup {Idle} : req'[g] = q /\ Good(q)'
  PROVE  req' \in [Handlers -> Request \cup {Idle}] /\ \A g \in Handlers : Good(req[g])'
<1>1. \A g \in Handlers : \E q \in Request \cup {Idle} : req'[g] = q /\ Good(q)'
  OBVIOUS
<1>2. \A g \in Handlers : Good(req[g])'
  <2> TAKE g \in Handlers
  <2>1. PICK q : req'[g] = q /\ Good(q)'
    BY <1>1
  <2>2. Proper(req[g].op, req[g].place)' /\ About(req[g])'
    BY <2>1 DEF Good, Proper, About
  <2>3. Open(req[g])'
    BY <2>1 DEF Good, Open
  <2>4. Sure(req[g])' /\ Checked(req[g])'
    BY <2>1 DEF Good, Sure, Checked, KnownOrDeleted, Stored
  <2>5. QED
    BY <2>2, <2>3, <2>4 DEF Good
<1>3. QED
  BY <1>1, <1>2

\* The request that commits, as it goes on to associate the blob.
LEMMA Committed ==
  ASSUME IInv, NEW h \in Handlers, req[h].place \in {"place", "rename"},
         UNCHANGED backend, blob'[req[h].dig] # Absent,
         NEW r, r = [req[h] EXCEPT !.place = "link"]
  PROVE  r \in Request /\ Good(r)'
<1>1. req[h] \in Request /\ Good(req[h]) /\ "link" \in Places
  BY Somewhere DEF Places
<1>2. /\ r \in Request /\ r.place = "link" /\ r.op = req[h].op /\ r.up = req[h].up
      /\ r.repo = req[h].repo /\ r.dig = req[h].dig /\ r.tag = req[h].tag
      /\ r.file = req[h].file
  BY <1>1 DEF Request
<1>3. Proper(r.op, r.place)' /\ About(r)'
  BY <1>1, <1>2 DEF Good, Proper, About, Committing, Pushing
<1>4. Open(r)'
  BY <1>1, <1>2, Distinct DEF Good, Open
<1>5. Sure(r)' /\ Checked(r)'
  BY <1>2 DEF Sure, Checked, Pushing, Stored
<1>6. QED
  BY <1>2, <1>3, <1>4, <1>5 DEF Good

LEMMA CommitPlaceStep ==
  ASSUME IInv, NEW h \in Handlers, CommitPlace(h), Still, UNCHANGED manifestVars
  PROVE  IInv'
<1>1. Rest /\ UNCHANGED blob
  BY DEF CommitPlace, Still, manifestVars, Rest
<1>2. /\ req[h].place = "place" /\ "place" \in Places /\ "link" \in Places
      /\ "rename" \in Places
  BY DEF CommitPlace, At, Places
<1>3. req[h] \in Request /\ Good(req[h])
  BY <1>2, Somewhere
<1>4. /\ req[h].op \in {"put", "post"} /\ req[h].up \in UploadIds \cup Handlers
      /\ req[h].dig \in Digests /\ backend = "filesystem"
  BY <1>2, <1>3 DEF Good, Proper, About, Sure, Committing, Digests
<1>5. CASE GoTo(h, "rename") /\ UNCHANGED <<upload, acked>>
  <2>1. Quiet
    BY <1>1, <1>5 DEF Rest, Quiet
  <2>2. Ready(h, "rename")
    BY <1>2, <1>4 DEF Ready, Proper, Committing, Pushing
  <2>3. QED
    BY <1>2, <1>5, <2>1, <2>2, Advanced
<1>6. CASE Stored(req[h].dig) /\ GoTo(h, "link") /\ UNCHANGED <<upload, acked>>
  <2>1. Quiet
    BY <1>1, <1>6 DEF Rest, Quiet
  <2>2. Ready(h, "link")
    BY <1>1, <1>2, <1>4, <1>6 DEF Ready, Proper, Committing, Pushing, Stored
  <2>3. QED
    BY <1>2, <1>6, <2>1, <2>2, Advanced
<1>7. CASE /\ Stored(req[h].dig)
           /\ Forget(req[h].up)
           /\ req' = [g \in Handlers |->
                        IF g = h THEN [req[h] EXCEPT !.place = "link"]
                        ELSE IF req[g].file = InUpload(req[h].up)
                             THEN [req[g] EXCEPT !.file = NoFile] ELSE req[g]]
  <2>1. /\ upload' \in [UploadIds \cup Handlers -> Contents \cup {Absent}]
        /\ acked' \in [UploadIds -> Nat]
        /\ \A v \in UploadIds \cup Handlers : v # req[h].up => upload'[v] = upload[v]
    BY <1>4, <1>7, Forgotten
  <2>2. /\ blob' \in [Digests -> Contents \cup {Absent}]
        /\ \A d \in Digests : Stored(d) => Stored(d)'
    BY <1>1 DEF IInv, TablesOK, Stored
  <2>3. TablesOK' /\ Linked' /\ MissingWasDeleted'
    BY <1>1, <2>1, <2>2, ContentTables
  <2>4. UNCHANGED <<backend, assoc, deleted>> /\ NoFile \in Files
    BY <1>1 DEF Rest, Files
  <2>5. PICK r : r = [req[h] EXCEPT !.place = "link"]
    OBVIOUS
  <2>6. r \in Request /\ Good(r)'
    BY <1>1, <1>2, <1>7, <2>4, <2>5, Committed DEF Stored
  <2>7. \A g \in Handlers \ {h} :
          \E q \in Request \cup {Idle} : req'[g] = q /\ Good(q)'
    <3> SUFFICES ASSUME NEW g \in Handlers \ {h}
                 PROVE  \E q \in Request \cup {Idle} : req'[g] = q /\ Good(q)'
      OBVIOUS
    <3>1. CASE req[g].file = InUpload(req[h].up)
      <4>1. PICK q : q = [req[g] EXCEPT !.file = NoFile]
        OBVIOUS
      <4>2. q \in Request \cup {Idle} /\ Good(q)'
        BY <2>2, <2>4, <4>1, Distinct, Renamed
      <4>3. QED
        BY <1>7, <3>1, <4>1, <4>2
    <3>2. CASE req[g].file # InUpload(req[h].up)
      <4>1. PICK q \in Request \cup {Idle} : q = req[g]
        BY DEF IInv
      <4>2. Good(q) /\ q.file # InUpload(req[h].up)
        BY <3>2, <4>1 DEF IInv
      <4>3. Open(q)'
        BY <1>1, <1>4, <2>1, <4>2 DEF Good, Open
      <4>4. Proper(q.op, q.place)' /\ About(q)' /\ Sure(q)' /\ Checked(q)'
        BY <1>1, <4>2 DEF Good, Proper, About, Sure, Checked, Stored, KnownOrDeleted, Rest
      <4>5. QED
        BY <1>7, <3>2, <4>1, <4>3, <4>4 DEF Good
    <3>3. QED
      BY <3>1, <3>2
  <2>8. req'[h] = r
    BY <1>7, <2>5
  <2>9. req' \in [Handlers -> Request \cup {Idle}] /\ \A g \in Handlers : Good(req[g])'
    BY <1>7, <2>6, <2>7, <2>8, Regrouped
  <2>10. QED
    BY <2>3, <2>9 DEF IInv
<1>8. QED
  BY <1>5, <1>6, <1>7 DEF CommitPlace

LEMMA CommitRenameStep ==
  ASSUME IInv, NEW h \in Handlers, CommitRename(h), Still, UNCHANGED manifestVars
  PROVE  IInv'
<1>1. Rest
  BY DEF CommitRename, Still, manifestVars, Rest
<1>2. req[h].place = "rename" /\ "rename" \in Places
  BY DEF CommitRename, At, Places
<1>3. req[h] \in Request /\ Good(req[h])
  BY <1>2, Somewhere
<1>4. PICK u, d : u = req[h].up /\ d = req[h].dig
  OBVIOUS
<1>5. u \in UploadIds \cup Handlers /\ d \in Digests
  BY <1>2, <1>3, <1>4 DEF Good, Proper, About, Committing, Digests
<1>6. CASE Finish(h) /\ UNCHANGED blobVars
  <2>1. Quiet
    BY <1>1, <1>6 DEF Rest, Quiet, blobVars
  <2>2. QED
    BY <1>6, <2>1, Finished
<1>7. CASE /\ upload[u] # Absent
           /\ blob' = [blob EXCEPT ![d] = upload[u]]
           /\ Forget(u)
           /\ req' = [g \in Handlers |->
                        IF g = h THEN [req[h] EXCEPT !.place = "link"]
                        ELSE [req[g] EXCEPT !.file =
                                IF @ = InUpload(u) THEN InBlob(d)
                                ELSE IF @ = InBlob(d) THEN NoFile ELSE @]]
  <2>1. /\ upload' \in [UploadIds \cup Handlers -> Contents \cup {Absent}]
        /\ acked' \in [UploadIds -> Nat]
        /\ \A v \in UploadIds \cup Handlers : v # u => upload'[v] = upload[v]
    BY <1>5, <1>7, Forgotten
  <2>2. /\ blob' \in [Digests -> Contents \cup {Absent}] /\ blob'[d] # Absent
        /\ \A e \in Digests : blob[e] # Absent => blob'[e] # Absent
    BY <1>5, <1>7 DEF IInv, TablesOK
  <2>3. \A e \in Digests : Stored(e) => Stored(e)'
    BY <2>2 DEF Stored
  <2>4. TablesOK' /\ Linked' /\ MissingWasDeleted'
    BY <1>1, <2>1, <2>2, <2>3, ContentTables
  <2>5. UNCHANGED <<backend, assoc, deleted>>
    BY <1>1 DEF Rest
  <2>6. PICK r : r = [req[h] EXCEPT !.place = "link"]
    OBVIOUS
  <2>7. r \in Request /\ Good(r)'
    BY <1>2, <1>4, <2>2, <2>5, <2>6, Committed
  <2>8. \A g \in Handlers \ {h} :
          \E q \in Request \cup {Idle} : req'[g] = q /\ Good(q)'
    <3> SUFFICES ASSUME NEW g \in Handlers \ {h}
                 PROVE  \E q \in Request \cup {Idle} : req'[g] = q /\ Good(q)'
      OBVIOUS
    <3>1. PICK f : f = IF req[g].file = InUpload(u) THEN InBlob(d)
                       ELSE IF req[g].file = InBlob(d) THEN NoFile ELSE req[g].file
      OBVIOUS
    <3>2. PICK q : q = [req[g] EXCEPT !.file = f]
      OBVIOUS
    <3>3. req'[g] = q
      BY <1>7, <3>1, <3>2
    <3>4. /\ req[g].file \in Files /\ Open(req[g])
      BY IdleRequest DEF IInv, Good, Request, Files
    <3>5. f \in Files
      BY <1>5, <3>1, <3>4 DEF Files
    <3>6. req[g].file = NoFile => f = NoFile
      BY <3>1, Distinct
    <3>7. \A v \in UploadIds \cup Handlers : f = InUpload(v) => upload'[v] # Absent
      <4> SUFFICES ASSUME NEW v \in UploadIds \cup Handlers, f = InUpload(v)
                   PROVE  upload'[v] # Absent
        OBVIOUS
      <4>1. req[g].file = InUpload(v) /\ InUpload(v) # InUpload(u)
        BY <3>1, Distinct
      <4>2. upload[v] # Absent /\ v # u
        BY <3>4, <4>1 DEF Open
      <4>3. QED
        BY <2>1, <4>2
    <3>8. \A e \in Digests : f = InBlob(e) => blob'[e] # Absent
      <4> SUFFICES ASSUME NEW e \in Digests, f = InBlob(e)
                   PROVE  blob'[e] # Absent
        OBVIOUS
      <4>1. CASE e = d
        BY <2>2, <4>1
      <4>2. CASE e # d
        <5>1. req[g].file = InBlob(e)
          BY <3>1, <4>2, Distinct
        <5>2. QED
          BY <2>2, <3>4, <5>1 DEF Open
      <4>3. QED
        BY <4>1, <4>2
    <3>9. q \in Request \cup {Idle} /\ Good(q)'
      BY <2>3, <2>5, <3>2, <3>5, <3>6, <3>7, <3>8, Renamed
    <3>10. QED
      BY <3>3, <3>9
  <2>9. req'[h] = r
    BY <1>7, <2>6
  <2>10. req' \in [Handlers -> Request \cup {Idle}] /\ \A g \in Handlers : Good(req[g])'
    BY <1>7, <2>7, <2>8, <2>9, Regrouped
  <2>11. QED
    BY <2>4, <2>10 DEF IInv
<1>8. QED
  BY <1>4, <1>6, <1>7 DEF CommitRename

LEMMA CommitHeadStep ==
  ASSUME IInv, NEW h \in Handlers, CommitHead(h), Still, UNCHANGED manifestVars
  PROVE  IInv'
<1>1. Rest /\ UNCHANGED blob
  BY DEF CommitHead, Still, manifestVars, Rest
<1>2. /\ req[h].place = "verify" /\ "verify" \in Places /\ "link" \in Places
      /\ "get" \in Places /\ backend = "s3"
  BY DEF CommitHead, At, Places
<1>3. req[h] \in Request /\ Good(req[h])
  BY <1>2, Somewhere
<1>4. /\ req[h].op \in {"put", "post"} /\ req[h].up \in UploadIds \cup Handlers
      /\ req[h].dig \in Digests
  BY <1>2, <1>3 DEF Good, Proper, About, Committing, Digests
<1>5. /\ blob' \in [Digests -> Contents \cup {Absent}]
      /\ \A d \in Digests : Stored(d) => Stored(d)'
  BY <1>1 DEF IInv, TablesOK, Stored
<1>6. CASE Stored(req[h].dig) /\ Forget(req[h].up) /\ GoTo(h, "link")
  <2>1. /\ upload' \in [UploadIds \cup Handlers -> Contents \cup {Absent}]
        /\ acked' \in [UploadIds -> Nat]
    BY <1>4, <1>6, Forgotten
  <2>2. Ready(h, "link")
    BY <1>1, <1>2, <1>4, <1>6 DEF Ready, Proper, Committing, Pushing, Stored
  <2>3. QED
    BY <1>1, <1>2, <1>5, <1>6, <2>1, <2>2, ContentAdvanced
<1>7. CASE Stored(req[h].dig) /\ UNCHANGED <<upload, acked>> /\ GoTo(h, "link")
  <2>1. Quiet
    BY <1>1, <1>7 DEF Rest, Quiet
  <2>2. Ready(h, "link")
    BY <1>1, <1>2, <1>4, <1>7 DEF Ready, Proper, Committing, Pushing, Stored
  <2>3. QED
    BY <1>2, <1>7, <2>1, <2>2, Advanced
<1>8. CASE UNCHANGED <<upload, acked>> /\ GoTo(h, "get")
  <2>1. Quiet
    BY <1>1, <1>8 DEF Rest, Quiet
  <2>2. Ready(h, "get")
    BY <1>2, <1>4 DEF Ready, Proper, Committing, Pushing
  <2>3. QED
    BY <1>2, <1>8, <2>1, <2>2, Advanced
<1>9. QED
  BY <1>6, <1>7, <1>8 DEF CommitHead

LEMMA CommitPutStep ==
  ASSUME IInv, NEW h \in Handlers, CommitPut(h), Still, UNCHANGED manifestVars
  PROVE  IInv'
<1>1. Rest /\ UNCHANGED <<upload, acked>>
  BY DEF CommitPut, Still, manifestVars, Rest
<1>2. req[h].place = "put" /\ "put" \in Places /\ "clean" \in Places
  BY DEF CommitPut, At, Places
<1>3. req[h] \in Request /\ Good(req[h])
  BY <1>2, Somewhere
<1>4. /\ req[h].op \in {"put", "post"} /\ req[h].dig \in Digests
      /\ req[h].body \in Contents /\ backend = "s3"
  BY <1>2, <1>3 DEF Good, Proper, About, Sure, Committing, Digests, Request
<1>5. blob' = blob \/ blob' = [blob EXCEPT ![req[h].dig] = req[h].body]
  BY DEF CommitPut
<1>6. /\ blob' \in [Digests -> Contents \cup {Absent}]
      /\ \A d \in Digests : Stored(d) => Stored(d)'
  BY <1>4, <1>5, Distinct DEF IInv, TablesOK, Stored
<1>7. /\ upload' \in [UploadIds \cup Handlers -> Contents \cup {Absent}]
      /\ acked' \in [UploadIds -> Nat]
  BY <1>1 DEF IInv, TablesOK
<1>8. CASE blob' = [blob EXCEPT ![req[h].dig] = req[h].body] /\ GoTo(h, "clean")
  <2>1. blob'[req[h].dig] # Absent
    BY <1>4, <1>8, Distinct DEF IInv, TablesOK
  <2>2. Ready(h, "clean")
    BY <1>2, <1>4, <2>1 DEF Ready, Proper, Committing, Pushing
  <2>3. QED
    BY <1>1, <1>2, <1>4, <1>6, <1>7, <1>8, <2>2, ContentAdvanced
<1>9. CASE Finish(h)
  BY <1>1, <1>4, <1>6, <1>7, <1>9, ContentFinished
<1>10. QED
  BY <1>8, <1>9 DEF CommitPut

LEMMA CommitCleanStep ==
  ASSUME IInv, NEW h \in Handlers, CommitClean(h), Still, UNCHANGED manifestVars
  PROVE  IInv'
<1>1. Rest /\ UNCHANGED blob
  BY DEF CommitClean, Still, manifestVars, Rest
<1>2. /\ req[h].place = "clean" /\ "clean" \in Places /\ "link" \in Places
      /\ GoTo(h, "link")
  BY DEF CommitClean, At, Places
<1>3. req[h] \in Request /\ Good(req[h])
  BY <1>2, Somewhere
<1>4. /\ req[h].op \in {"put", "post"} /\ req[h].up \in UploadIds \cup Handlers
      /\ Stored(req[h].dig) /\ backend = "s3"
  BY <1>2, <1>3 DEF Good, Proper, About, Sure, Committing
<1>5. /\ blob' \in [Digests -> Contents \cup {Absent}]
      /\ \A d \in Digests : Stored(d) => Stored(d)'
  BY <1>1 DEF IInv, TablesOK, Stored
<1>6. /\ upload' \in [UploadIds \cup Handlers -> Contents \cup {Absent}]
      /\ acked' \in [UploadIds -> Nat]
  <2>1. CASE Forget(req[h].up)
    BY <1>4, <2>1, Forgotten
  <2>2. CASE UNCHANGED <<upload, acked>>
    BY <2>2 DEF IInv, TablesOK
  <2>3. QED
    BY <2>1, <2>2 DEF CommitClean
<1>7. Ready(h, "link")
  BY <1>1, <1>2, <1>4 DEF Ready, Proper, Committing, Pushing, Stored
<1>8. QED
  BY <1>1, <1>2, <1>4, <1>5, <1>6, <1>7, ContentAdvanced

-----------------------------------------------------------------------------
(* Steps that change the tables *)

LEMMA TablesFinished ==
  ASSUME IInv, NEW h \in Handlers, Finish(h), UNCHANGED <<backend, upload, blob>>,
         assoc \cup deleted \subseteq (assoc \cup deleted)',
         TablesOK', Linked', MissingWasDeleted'
  PROVE  IInv'
<1>1. Becomes(h, Idle) /\ Good(Idle)' /\ Idle \in Request \cup {Idle}
  BY IdleGood DEF Finish
<1>2. /\ \A d \in Digests : Stored(d) => Stored(d)'
      /\ \A u \in UploadIds \cup Handlers : upload[u] # Absent => upload'[u] # Absent
  BY DEF Stored
<1>3. QED
  BY <1>1, <1>2, Kept

LEMMA TablesAdvanced ==
  ASSUME IInv, NEW h \in Handlers, req[h].place \in Places, NEW p \in Places, GoTo(h, p),
         Ready(h, p), UNCHANGED <<backend, upload, blob>>,
         assoc \cup deleted \subseteq (assoc \cup deleted)',
         TablesOK', Linked', MissingWasDeleted'
  PROVE  IInv'
<1>1. PICK q \in Request : Becomes(h, q) /\ Good(q)'
  BY Onward
<1>2. /\ \A d \in Digests : Stored(d) => Stored(d)'
      /\ \A u \in UploadIds \cup Handlers : upload[u] # Absent => upload'[u] # Absent
  BY DEF Stored
<1>3. QED
  BY <1>1, <1>2, Kept

\* Everything but the tables of the associations.
Tables == UNCHANGED <<backend, store, mix, upload, blob, acked, raced, tag, refs, announced, boots>>

LEMMA Linking ==
  ASSUME IInv, Tables, UNCHANGED deleted, NEW r \in Repos, NEW d \in Digests, Stored(d),
         d \in Manifests => \A l \in Needs[d] : KnownOrDeleted(r, l),
         assoc' = assoc \/ assoc' = assoc \cup {<<r, d>>}
  PROVE  /\ TablesOK' /\ Linked' /\ MissingWasDeleted'
         /\ assoc \cup deleted \subseteq (assoc \cup deleted)'
<1>1. assoc \cup deleted \subseteq (assoc \cup deleted)'
  BY DEF Tables
<1>2. TablesOK'
  BY DEF Tables, IInv, TablesOK
<1>3. Linked'
  BY DEF Tables, IInv, Linked, InRepo, Stored
<1>4. MissingWasDeleted'
  BY DEF Tables, IInv, MissingWasDeleted, KnownOrDeleted
<1>5. QED
  BY <1>1, <1>2, <1>3, <1>4

LEMMA Unlinking ==
  ASSUME IInv, Tables, NEW r \in Repos, NEW d \in Digests, Unlink(r, d)
  PROVE  /\ TablesOK' /\ Linked' /\ MissingWasDeleted'
         /\ assoc \cup deleted \subseteq (assoc \cup deleted)'
<1>1. assoc' = assoc \ {<<r, d>>} /\ deleted' = deleted \cup {<<r, d>>}
  BY DEF Unlink
<1>2. assoc \cup deleted \subseteq (assoc \cup deleted)'
  BY <1>1
<1>3. TablesOK'
  BY <1>1 DEF Tables, IInv, TablesOK
<1>4. Linked'
  BY <1>1 DEF Tables, IInv, Linked, InRepo, Stored
<1>5. MissingWasDeleted'
  BY <1>1 DEF Tables, IInv, MissingWasDeleted
<1>6. QED
  BY <1>2, <1>3, <1>4, <1>5

LEMMA AddBlobStep ==
  ASSUME IInv, NEW h \in Handlers, AddBlob(h), Still, UNCHANGED manifestVars
  PROVE  IInv'
<1>1. Tables /\ UNCHANGED deleted
  BY DEF AddBlob, Still, manifestVars, blobVars, Tables
<1>2. req[h].place = "link" /\ "link" \in Places
  BY DEF AddBlob, At, Places
<1>3. Good(req[h])
  BY <1>2, Somewhere
<1>4. req[h].repo \in Repos /\ req[h].dig \in Layers /\ Stored(req[h].dig)
  BY <1>2, <1>3 DEF Good, Proper, About, Sure
<1>5. assoc' = assoc \/ assoc' = assoc \cup {<<req[h].repo, req[h].dig>>}
  BY DEF AddBlob
<1>6. /\ TablesOK' /\ Linked' /\ MissingWasDeleted'
      /\ assoc \cup deleted \subseteq (assoc \cup deleted)'
  BY <1>1, <1>4, <1>5, Linking DEF Digests
<1>7. QED
  BY <1>1, <1>6, TablesFinished DEF AddBlob, Tables

LEMMA DeleteFindStep ==
  ASSUME IInv, NEW h \in Handlers, DeleteFind(h), Still, UNCHANGED manifestVars
  PROVE  IInv'
<1>1. Tables
  BY DEF DeleteFind, Still, manifestVars, blobVars, Tables
<1>2. req[h].place = "find" /\ req[h].op = "delete" /\ "find" \in Places /\ "unlink" \in Places
  BY DEF DeleteFind, At, Places
<1>3. Good(req[h])
  BY <1>2, Somewhere
<1>4. req[h].repo \in Repos /\ req[h].dig \in Digests
  BY <1>2, <1>3 DEF Good, About
<1>5. CASE Unlink(req[h].repo, req[h].dig) /\ Finish(h)
  BY <1>1, <1>4, <1>5, Unlinking, TablesFinished DEF Tables
<1>6. CASE GoTo(h, "unlink") /\ UNCHANGED <<assoc, deleted>>
  <2>1. Quiet
    BY <1>1, <1>6 DEF Tables, Quiet
  <2>2. Ready(h, "unlink")
    BY <1>2 DEF Ready, Proper, Committing, Pushing
  <2>3. QED
    BY <1>2, <1>6, <2>1, <2>2, Advanced
<1>7. CASE Finish(h) /\ UNCHANGED <<assoc, deleted>>
  <2>1. Quiet
    BY <1>1, <1>7 DEF Tables, Quiet
  <2>2. QED
    BY <1>7, <2>1, Finished
<1>8. QED
  BY <1>5, <1>6, <1>7 DEF DeleteFind

LEMMA DeleteUnlinkStep ==
  ASSUME IInv, NEW h \in Handlers, DeleteUnlink(h), Still, UNCHANGED manifestVars
  PROVE  IInv'
<1>1. Tables
  BY DEF DeleteUnlink, Still, manifestVars, blobVars, Tables
<1>2. req[h].place = "unlink" /\ "unlink" \in Places
  BY DEF DeleteUnlink, At, Places
<1>3. Good(req[h])
  BY <1>2, Somewhere
<1>4. req[h].repo \in Repos /\ req[h].dig \in Digests
  BY <1>2, <1>3 DEF Good, Proper, About
<1>5. Finish(h)
  BY DEF DeleteUnlink
<1>6. CASE Unlink(req[h].repo, req[h].dig)
  BY <1>1, <1>4, <1>5, <1>6, Unlinking, TablesFinished DEF Tables
<1>7. CASE UNCHANGED <<assoc, deleted>>
  <2>1. Quiet
    BY <1>1, <1>7 DEF Tables, Quiet
  <2>2. QED
    BY <1>5, <2>1, Finished
<1>8. QED
  BY <1>6, <1>7 DEF DeleteUnlink

-----------------------------------------------------------------------------
(* PutManifests *)

\* The content of a digest is written.
LEMMA Rewritten ==
  ASSUME IInv, NEW d \in Digests, NEW c \in Contents,
         blob' = blob \/ blob' = [blob EXCEPT ![d] = c]
  PROVE  /\ blob' \in [Digests -> Contents \cup {Absent}]
         /\ \A e \in Digests : Stored(e) => Stored(e)'
         /\ blob' = [blob EXCEPT ![d] = c] => blob'[d] # Absent
<1>1. blob \in [Digests -> Contents \cup {Absent}]
  BY DEF IInv, TablesOK
<1>2. CASE blob' = blob
  <2>1. ASSUME blob' = [blob EXCEPT ![d] = c] PROVE blob'[d] # Absent
    BY <1>1, <2>1, Distinct
  <2>2. QED
    BY <1>1, <1>2, <2>1 DEF Stored
<1>3. CASE blob' = [blob EXCEPT ![d] = c]
  <2>1. /\ blob' \in [Digests -> Contents \cup {Absent}] /\ blob'[d] = c
        /\ \A e \in Digests : e # d => blob'[e] = blob[e]
    BY <1>1, <1>3
  <2>2. QED
    BY <2>1, Distinct DEF Stored
<1>4. QED
  BY <1>2, <1>3

LEMMA WriteBlobStep ==
  ASSUME IInv, NEW h \in Handlers, WriteBlob(h), Still
  PROVE  IInv'
<1>1. Rest /\ UNCHANGED <<upload, acked>>
  BY DEF WriteBlob, Still, manifestVars, Rest
<1>2. /\ req[h].place = "write blob" /\ "write blob" \in Places /\ "associate" \in Places
      /\ "fill blob" \in Places
  BY DEF WriteBlob, At, Places
<1>3. Good(req[h])
  BY <1>2, Somewhere
<1>4. PICK d : d = req[h].dig
  OBVIOUS
<1>5. d \in Digests /\ d \in Contents /\ <<>> \in Contents
  BY <1>2, <1>3, <1>4, EmptySeq DEF Good, Proper, About, Pushing, Digests, Contents
<1>6. /\ upload' \in [UploadIds \cup Handlers -> Contents \cup {Absent}]
      /\ acked' \in [UploadIds -> Nat]
      /\ \A u \in UploadIds \cup Handlers : upload[u] # Absent => upload'[u] # Absent
  BY <1>1 DEF IInv, TablesOK
<1>7. CASE blob' = [blob EXCEPT ![d] = d] /\ GoTo(h, "associate")
  <2>1. /\ blob' \in [Digests -> Contents \cup {Absent}]
        /\ \A e \in Digests : Stored(e) => Stored(e)'
        /\ blob'[d] # Absent
    BY <1>5, <1>7, Rewritten
  <2>2. Ready(h, "associate")
    BY <1>2, <1>3, <1>4, <2>1 DEF Ready, Good, Proper, Checked, Committing, Pushing
  <2>3. QED
    BY <1>1, <1>2, <1>6, <1>7, <2>1, <2>2, ContentAdvanced
<1>8. CASE blob' = [blob EXCEPT ![d] = <<>>] /\ GoTo(h, "fill blob")
  <2>1. /\ blob' \in [Digests -> Contents \cup {Absent}]
        /\ \A e \in Digests : Stored(e) => Stored(e)'
    BY <1>5, <1>8, Rewritten
  <2>2. Ready(h, "fill blob")
    BY <1>2, <1>3, <1>4 DEF Ready, Good, Proper, Checked, Committing, Pushing
  <2>3. QED
    BY <1>1, <1>2, <1>6, <1>8, <2>1, <2>2, ContentAdvanced
<1>9. CASE /\ blob' \in {blob, [blob EXCEPT ![d] = IF backend = "s3" THEN d ELSE <<>>]}
           /\ Finish(h)
  <2>1. PICK c \in Contents : c = IF backend = "s3" THEN d ELSE <<>>
    BY <1>5
  <2>2. /\ blob' \in [Digests -> Contents \cup {Absent}]
        /\ \A e \in Digests : Stored(e) => Stored(e)'
    BY <1>5, <1>9, <2>1, Rewritten
  <2>3. QED
    BY <1>1, <1>6, <1>9, <2>2, ContentFinished
<1>10. QED
  BY <1>4, <1>7, <1>8, <1>9 DEF WriteBlob

LEMMA FillBlobStep ==
  ASSUME IInv, NEW h \in Handlers, FillBlob(h), Still
  PROVE  IInv'
<1>1. Rest /\ UNCHANGED <<upload, acked>>
  BY DEF FillBlob, Still, manifestVars, Rest
<1>2. req[h].place = "fill blob" /\ "fill blob" \in Places /\ "associate" \in Places
  BY DEF FillBlob, At, Places
<1>3. Good(req[h])
  BY <1>2, Somewhere
<1>4. PICK d : d = req[h].dig
  OBVIOUS
<1>5. d \in Digests /\ d \in Contents
  BY <1>2, <1>3, <1>4 DEF Good, Proper, About, Pushing, Digests, Contents
<1>6. /\ upload' \in [UploadIds \cup Handlers -> Contents \cup {Absent}]
      /\ acked' \in [UploadIds -> Nat]
      /\ \A u \in UploadIds \cup Handlers : upload[u] # Absent => upload'[u] # Absent
  BY <1>1 DEF IInv, TablesOK
<1>7. CASE blob' = [blob EXCEPT ![d] = d] /\ GoTo(h, "associate")
  <2>1. /\ blob' \in [Digests -> Contents \cup {Absent}]
        /\ \A e \in Digests : Stored(e) => Stored(e)'
        /\ blob'[d] # Absent
    BY <1>5, <1>7, Rewritten
  <2>2. Ready(h, "associate")
    BY <1>2, <1>3, <1>4, <2>1 DEF Ready, Good, Proper, Checked, Committing, Pushing
  <2>3. QED
    BY <1>1, <1>2, <1>6, <1>7, <2>1, <2>2, ContentAdvanced
<1>8. CASE Finish(h) /\ UNCHANGED blob
  <2>1. Quiet
    BY <1>1, <1>8 DEF Rest, Quiet
  <2>2. QED
    BY <1>8, <2>1, Finished
<1>9. QED
  BY <1>4, <1>7, <1>8 DEF FillBlob

LEMMA AddManifestStep ==
  ASSUME IInv, NEW h \in Handlers, AddManifest(h), Still
  PROVE  IInv'
<1>1. Tables /\ UNCHANGED deleted
  BY DEF AddManifest, Still, manifestVars, blobVars, Tables
<1>2. req[h].place = "associate" /\ "associate" \in Places /\ "tag" \in Places
  BY DEF AddManifest, At, Places
<1>3. Good(req[h])
  BY <1>2, Somewhere
<1>4. /\ req[h].repo \in Repos /\ req[h].dig \in Manifests /\ Stored(req[h].dig)
      /\ req[h].left = {}
      /\ \A d \in Needs[req[h].dig] : KnownOrDeleted(req[h].repo, d)
  BY <1>2, <1>3 DEF Good, Proper, About, Sure, Checked, Pushing
<1>5. assoc' = assoc \/ assoc' = assoc \cup {<<req[h].repo, req[h].dig>>}
  BY DEF AddManifest
<1>6. /\ TablesOK' /\ Linked' /\ MissingWasDeleted'
      /\ assoc \cup deleted \subseteq (assoc \cup deleted)'
  BY <1>1, <1>4, <1>5, Linking DEF Digests
<1>7. CASE Finish(h)
  BY <1>1, <1>6, <1>7, TablesFinished DEF Tables
<1>8. CASE assoc' = assoc \cup {<<req[h].repo, req[h].dig>>} /\ GoTo(h, "tag")
  <2>1. Ready(h, "tag")
    BY <1>2, <1>3, <1>4, <1>8 DEF Ready, Good, Proper, Committing, Pushing
  <2>2. QED
    BY <1>1, <1>2, <1>6, <1>8, <2>1, TablesAdvanced DEF Tables
<1>9. QED
  BY <1>7, <1>8 DEF AddManifest

\* Everything but the tables of the tags and the referrers.
Links == UNCHANGED <<backend, store, mix, upload, blob, acked, assoc, deleted, raced, boots>>

LEMMA Tagging ==
  ASSUME IInv, Links, UNCHANGED <<refs, announced>>, NEW r \in Repos, NEW t \in Tags,
         NEW d \in Manifests \cup {Absent}, d # Absent => KnownOrDeleted(r, d),
         tag' = tag \/ tag' = [tag EXCEPT ![<<r, t>>] = d]
  PROVE  /\ TablesOK' /\ Linked' /\ MissingWasDeleted'
         /\ assoc \cup deleted \subseteq (assoc \cup deleted)'
<1>1. tag \in [Repos \X Tags -> Manifests \cup {Absent}]
  BY DEF IInv, TablesOK
<1>2. tag' \in [Repos \X Tags -> Manifests \cup {Absent}]
  BY <1>1
<1>3. TablesOK'
  BY <1>2 DEF Links, IInv, TablesOK
<1>4. Linked'
  BY DEF Links, IInv, Linked, InRepo, Stored
<1>5. ASSUME NEW s \in Repos, NEW v \in Tags, tag'[<<s, v>>] # Absent
      PROVE  <<s, tag'[<<s, v>>]>> \in assoc \cup deleted
  <2>1. CASE tag'[<<s, v>>] = tag[<<s, v>>]
    BY <1>5, <2>1 DEF IInv, MissingWasDeleted
  <2>2. CASE tag'[<<s, v>>] # tag[<<s, v>>]
    <3>1. tag' = [tag EXCEPT ![<<r, t>>] = d] /\ <<s, v>> \in Repos \X Tags
      BY <2>2
    <3>2. <<s, v>> = <<r, t>> /\ tag'[<<s, v>>] = d
      BY <1>1, <2>2, <3>1
    <3>3. QED
      BY <1>5, <3>2 DEF KnownOrDeleted
  <2>3. QED
    BY <2>1, <2>2
<1>6. MissingWasDeleted'
  BY <1>5 DEF Links, IInv, MissingWasDeleted
<1>7. QED
  BY <1>3, <1>4, <1>6 DEF Links

LEMMA SaveTagStep ==
  ASSUME IInv, NEW h \in Handlers, SaveTag(h), Still
  PROVE  IInv'
<1>1. Links /\ UNCHANGED <<refs, announced>>
  BY DEF SaveTag, Still, blobVars, Links
<1>2. req[h].place = "tag" /\ "tag" \in Places /\ "refer" \in Places
  BY DEF SaveTag, At, Places
<1>3. req[h] \in Request /\ Good(req[h])
  BY <1>2, Somewhere
<1>4. /\ req[h].repo \in Repos /\ req[h].dig \in Manifests
      /\ KnownOrDeleted(req[h].repo, req[h].dig)
      /\ req[h].tag \in Tags \cup {NoTag}
  BY <1>2, <1>3 DEF Good, Proper, About, Checked, Pushing, Request
<1>5. \/ tag' = tag
      \/ /\ req[h].tag \in Tags
         /\ tag' = [tag EXCEPT ![<<req[h].repo, req[h].tag>>] = req[h].dig]
  BY <1>4 DEF SaveTag
<1>6. /\ TablesOK' /\ Linked' /\ MissingWasDeleted'
      /\ assoc \cup deleted \subseteq (assoc \cup deleted)'
  <2>1. CASE tag' = tag
    BY <1>1, <2>1 DEF Links, IInv, TablesOK, Linked, InRepo, Stored, MissingWasDeleted
  <2>2. CASE tag' # tag
    BY <1>1, <1>4, <1>5, <2>2, Tagging
  <2>3. QED
    BY <2>1, <2>2
<1>7. CASE Finish(h)
  BY <1>1, <1>6, <1>7, TablesFinished DEF Links
<1>8. CASE GoTo(h, "refer")
  <2>1. Ready(h, "refer")
    BY <1>1, <1>2, <1>3 DEF Ready, Good, Proper, Checked, Committing, Pushing, Links,
                            KnownOrDeleted
  <2>2. QED
    BY <1>1, <1>2, <1>6, <1>8, <2>1, TablesAdvanced DEF Links
<1>9. QED
  BY <1>7, <1>8 DEF SaveTag

\* A referrer is added to a list, and its push may be answered.
LEMMA Referring ==
  ASSUME IInv, Links, UNCHANGED tag, NEW r \in Repos, NEW m \in Manifests,
         NEW n \in Manifests, NEW list \in Seq(Manifests),
         refs' = refs \/ refs' = [refs EXCEPT ![<<r, n>>] = Append(list, m)],
         announced' = announced \/ announced' = announced \cup {<<r, m>>}
  PROVE  /\ TablesOK' /\ Linked' /\ MissingWasDeleted'
         /\ assoc \cup deleted \subseteq (assoc \cup deleted)'
<1>1. refs \in [Repos \X Manifests -> Seq(Manifests)]
  BY DEF IInv, TablesOK
<1>2. PICK l : l = Append(list, m)
  OBVIOUS
<1>3. l \in Seq(Manifests)
  BY <1>2, AppendProperties
<1>4. refs' = refs \/ refs' = [refs EXCEPT ![<<r, n>>] = l]
  BY <1>2
<1>5. refs' \in [Repos \X Manifests -> Seq(Manifests)]
  BY <1>1, <1>3, <1>4
<1>6. announced' \subseteq Repos \X Manifests
  BY DEF IInv, TablesOK
<1>7. TablesOK'
  BY <1>5, <1>6 DEF Links, IInv, TablesOK
<1>8. Linked' /\ MissingWasDeleted'
  BY DEF Links, IInv, Linked, InRepo, Stored, MissingWasDeleted
<1>9. QED
  BY <1>7, <1>8 DEF Links

\* A push that refers to nothing, and one whose answer is all that is left.
LEMMA ReferredNothing ==
  ASSUME IInv, NEW h \in Handlers, req[h].repo \in Repos, req[h].dig \in Manifests,
         Links, UNCHANGED <<tag, refs>>, Finish(h),
         announced' = announced \/ announced' = announced \cup {<<req[h].repo, req[h].dig>>}
  PROVE  IInv'
<1>1. TablesOK'
  BY DEF Links, IInv, TablesOK
<1>2. Linked' /\ MissingWasDeleted'
  BY DEF Links, IInv, Linked, InRepo, Stored, MissingWasDeleted
<1>3. QED
  BY <1>1, <1>2, TablesFinished DEF Links

LEMMA AddReferenceStep ==
  ASSUME IInv, NEW h \in Handlers, AddReference(h), Still
  PROVE  IInv'
<1>1. Links /\ UNCHANGED tag
  BY DEF AddReference, Still, blobVars, Links
<1>2. req[h].place = "refer" /\ "refer" \in Places /\ "put refs" \in Places
  BY DEF AddReference, At, Places
<1>3. req[h] \in Request /\ Good(req[h])
  BY <1>2, Somewhere
<1>4. /\ req[h].repo \in Repos /\ req[h].dig \in Manifests
      /\ Subject[req[h].dig] \in Manifests \cup {Absent}
  BY <1>2, <1>3 DEF Good, Proper, About, Pushing
<1>5. CASE Created(h) /\ UNCHANGED refs
  BY <1>1, <1>4, <1>5, ReferredNothing DEF Created
<1>6. CASE Finish(h) /\ UNCHANGED <<refs, announced>>
  BY <1>1, <1>4, <1>6, ReferredNothing
<1>k. PICK k : k = <<req[h].repo, Subject[req[h].dig]>>
  OBVIOUS
<1>l. Subject[req[h].dig] # Absent => refs[k] \in Seq(Manifests)
  BY <1>4, <1>k DEF IInv, TablesOK
<1>7. CASE /\ Subject[req[h].dig] # Absent
           /\ refs' = [refs EXCEPT ![k] = Append(@, req[h].dig)]
           /\ Created(h)
  <2>1. refs' = [refs EXCEPT ![k] = Append(refs[k], req[h].dig)]
    BY <1>7
  <2>2. announced' = announced \/ announced' = announced \cup {<<req[h].repo, req[h].dig>>}
    BY <1>7 DEF Created
  <2>3. /\ TablesOK' /\ Linked' /\ MissingWasDeleted'
        /\ assoc \cup deleted \subseteq (assoc \cup deleted)'
    BY <1>1, <1>4, <1>k, <1>l, <1>7, <2>1, <2>2, Referring
  <2>4. QED
    BY <1>1, <1>7, <2>3, TablesFinished DEF Links, Created
<1>8. CASE /\ Subject[req[h].dig] # Absent
           /\ Becomes(h, [req[h] EXCEPT !.place = "put refs", !.seen = refs[k]])
           /\ UNCHANGED <<refs, announced>>
  <2>1. PICK l : l = refs[k]
    OBVIOUS
  <2>2. PICK o : o = [req[h] EXCEPT !.place = "put refs"]
    OBVIOUS
  <2>3. PICK q : q = [o EXCEPT !.seen = l]
    OBVIOUS
  <2>4. l \in Seq(Manifests)
    BY <1>l, <1>8, <2>1
  <2>5. /\ o \in Request /\ o.place = "put refs" /\ o.op = req[h].op /\ o.up = req[h].up
        /\ o.repo = req[h].repo /\ o.dig = req[h].dig /\ o.file = req[h].file
        /\ o.left = req[h].left /\ o.tag = req[h].tag
    BY <1>2, <1>3, <2>2 DEF Request
  <2>6. /\ q \in Request /\ q.place = "put refs" /\ q.op = req[h].op /\ q.up = req[h].up
        /\ q.repo = req[h].repo /\ q.dig = req[h].dig /\ q.file = req[h].file
        /\ q.left = req[h].left /\ q.tag = req[h].tag
    BY <2>3, <2>4, <2>5 DEF Request
  <2>7. [req[h] EXCEPT !.place = "put refs", !.seen = l] = q
    BY <1>3, <2>2, <2>3 DEF Request
  <2>8. Becomes(h, q)
    BY <1>8, <2>1, <2>7
  <2>9. Proper(q.op, q.place) /\ About(q)
    BY <1>2, <1>3, <2>6 DEF Good, Proper, About, Committing, Pushing
  <2>10. Open(q)
    BY <1>2, <1>3, <2>6 DEF Good, Open
  <2>11. Sure(q) /\ Checked(q)
    BY <1>2, <1>3, <2>6 DEF Good, Sure, Checked, Pushing
  <2>12. Quiet
    BY <1>1, <1>8 DEF Links, Quiet
  <2>13. Good(q)
    BY <2>9, <2>10, <2>11 DEF Good
  <2>14. QED
    BY <2>6, <2>8, <2>12, <2>13, Moved DEF Quiet, IInv, TablesOK
<1>9. QED
  BY <1>5, <1>6, <1>7, <1>8, <1>k DEF AddReference

LEMMA PutReferencesStep ==
  ASSUME IInv, NEW h \in Handlers, PutReferences(h), Still
  PROVE  IInv'
<1>1. Links /\ UNCHANGED tag
  BY DEF PutReferences, Still, blobVars, Links
<1>2. req[h].place = "put refs" /\ "put refs" \in Places
  BY DEF PutReferences, At, Places
<1>3. req[h] \in Request /\ Good(req[h])
  BY <1>2, Somewhere
<1>4. /\ req[h].repo \in Repos /\ req[h].dig \in Manifests
      /\ req[h].seen \in Seq(Manifests)
      /\ Subject[req[h].dig] \in Manifests \cup {Absent}
  BY <1>2, <1>3 DEF Good, Proper, About, Pushing, Request
<1>k. PICK k : k = <<req[h].repo, Subject[req[h].dig]>>
  OBVIOUS
<1>5. /\ Finish(h)
      /\ announced' = announced \/ announced' = announced \cup {<<req[h].repo, req[h].dig>>}
      /\ refs' = refs \/ refs' = [refs EXCEPT ![k] = Append(req[h].seen, req[h].dig)]
  BY <1>k DEF PutReferences, Created
<1>6. CASE Subject[req[h].dig] \in Manifests
  <2>1. /\ TablesOK' /\ Linked' /\ MissingWasDeleted'
        /\ assoc \cup deleted \subseteq (assoc \cup deleted)'
    BY <1>1, <1>4, <1>k, <1>5, <1>6, Referring
  <2>2. QED
    BY <1>1, <1>5, <2>1, TablesFinished DEF Links
<1>7. CASE Subject[req[h].dig] = Absent
  <2>1. k \notin Repos \X Manifests
    BY <1>4, <1>k, <1>7, Distinct DEF Digests
  <2>2. refs' = refs
    BY <1>5, <2>1 DEF IInv, TablesOK
  <2>3. QED
    BY <1>1, <1>4, <1>5, <2>2, ReferredNothing
<1>8. QED
  BY <1>4, <1>6, <1>7

LEMMA DeleteTagFindStep ==
  ASSUME IInv, NEW h \in Handlers, DeleteTagFind(h), Still
  PROVE  IInv'
<1>1. Links /\ UNCHANGED <<refs, announced>>
  BY DEF DeleteTagFind, Still, blobVars, Links
<1>2. /\ req[h].place = "find" /\ req[h].op = "untag" /\ "find" \in Places
      /\ "remove tag" \in Places
  BY DEF DeleteTagFind, At, Places
<1>3. Good(req[h])
  BY <1>2, Somewhere
<1>4. req[h].repo \in Repos /\ req[h].tag \in Tags
  BY <1>2, <1>3 DEF Good, About
<1>5. CASE tag' = [tag EXCEPT ![<<req[h].repo, req[h].tag>>] = Absent] /\ Finish(h)
  <2>1. /\ TablesOK' /\ Linked' /\ MissingWasDeleted'
        /\ assoc \cup deleted \subseteq (assoc \cup deleted)'
    BY <1>1, <1>4, <1>5, Tagging
  <2>2. QED
    BY <1>1, <1>5, <2>1, TablesFinished DEF Links
<1>6. CASE GoTo(h, "remove tag") /\ UNCHANGED tag
  <2>1. Quiet
    BY <1>1, <1>6 DEF Links, Quiet
  <2>2. Ready(h, "remove tag")
    BY <1>2 DEF Ready, Proper, Committing, Pushing
  <2>3. QED
    BY <1>2, <1>6, <2>1, <2>2, Advanced
<1>7. CASE Finish(h) /\ UNCHANGED tag
  <2>1. Quiet
    BY <1>1, <1>7 DEF Links, Quiet
  <2>2. QED
    BY <1>7, <2>1, Finished
<1>8. QED
  BY <1>5, <1>6, <1>7 DEF DeleteTagFind

LEMMA DeleteTagRemoveStep ==
  ASSUME IInv, NEW h \in Handlers, DeleteTagRemove(h), Still
  PROVE  IInv'
<1>1. Links /\ UNCHANGED <<refs, announced>> /\ Finish(h)
  BY DEF DeleteTagRemove, Still, blobVars, Links
<1>2. req[h].place = "remove tag" /\ "remove tag" \in Places
  BY DEF DeleteTagRemove, At, Places
<1>3. Good(req[h])
  BY <1>2, Somewhere
<1>4. req[h].repo \in Repos /\ req[h].tag \in Tags
  BY <1>2, <1>3 DEF Good, Proper, About
<1>5. CASE tag' = [tag EXCEPT ![<<req[h].repo, req[h].tag>>] = Absent]
  <2>1. /\ TablesOK' /\ Linked' /\ MissingWasDeleted'
        /\ assoc \cup deleted \subseteq (assoc \cup deleted)'
    BY <1>1, <1>4, <1>5, Tagging
  <2>2. QED
    BY <1>1, <2>1, TablesFinished DEF Links
<1>6. CASE UNCHANGED tag
  <2>1. Quiet
    BY <1>1, <1>6 DEF Links, Quiet
  <2>2. QED
    BY <1>1, <2>1, Finished
<1>7. QED
  BY <1>5, <1>6 DEF DeleteTagRemove

-----------------------------------------------------------------------------
(* Every step *)

LEMMA RestartStep ==
  ASSUME IInv, Restart, UNCHANGED <<backend, store, mix>>
  PROVE  IInv'
<1>1. /\ boots' \in 1..MaxBoots
      /\ UNCHANGED <<upload, blob, acked, assoc, deleted, raced, tag, refs, announced>>
  BY DEF Restart, blobVars, manifestVars, IInv, TablesOK
<1>2. TablesOK'
  BY <1>1 DEF IInv, TablesOK
<1>3. Linked' /\ MissingWasDeleted'
  BY <1>1 DEF IInv, Linked, InRepo, Stored, MissingWasDeleted
<1>4. req' = [h \in Handlers |-> Idle]
  BY DEF Restart
<1>5. ASSUME NEW h \in Handlers PROVE Good(req[h])'
  <2>1. req'[h] = Idle /\ Good(Idle)'
    BY <1>4, IdleGood
  <2>2. QED
    BY <2>1, GoodNext
<1>6. QED
  BY <1>2, <1>3, <1>4, <1>5 DEF IInv

LEMMA UploadStep ==
  ASSUME IInv, NEW h \in Handlers, UploadNext(h), Still, UNCHANGED manifestVars
  PROVE  IInv'
<1>1. CASE PatchBlobUpload(h)
  BY <1>1, PatchRequestStep, PatchSizeStep DEF PatchBlobUpload
<1>2. CASE PutBlobUpload(h)
  BY <1>2, PutRequestStep DEF PutBlobUpload
<1>3. CASE PostBlobUploads(h)
  BY <1>3, PostRequestStep, MountRequestStep, MountFindStep DEF PostBlobUploads
<1>4. CASE UploadBlob(h)
  BY <1>4, WriteOpenStep, WriteCopyStep, WriteFetchStep, WriteSaveStep DEF UploadBlob
<1>5. CASE CommitBlob(h)
  BY <1>5, CommitVerifyStep, CommitPlaceStep, CommitRenameStep, CommitHeadStep,
     CommitGetStep, CommitPutStep, CommitCleanStep DEF CommitBlob
<1>6. CASE AddBlob(h)
  BY <1>6, AddBlobStep
<1>7. CASE DeleteBlob(h)
  BY <1>7, DeleteRequestStep, DeleteFindStep, DeleteUnlinkStep DEF DeleteBlob
<1>8. QED
  BY <1>1, <1>2, <1>3, <1>4, <1>5, <1>6, <1>7 DEF UploadNext

LEMMA ManifestStep ==
  ASSUME IInv, NEW h \in Handlers, PutManifests(h) \/ DeleteTag(h), Still
  PROVE  IInv'
<1>1. CASE PutManifests(h)
  BY <1>1, PutManifestRequestStep, CheckLayersStep, SaveBlobStep, WriteBlobStep,
     FillBlobStep, AddManifestStep, SaveTagStep, AddReferenceStep, PutReferencesStep
  DEF PutManifests
<1>2. CASE DeleteTag(h)
  BY <1>2, DeleteTagRequestStep, DeleteTagFindStep, DeleteTagRemoveStep DEF DeleteTag
<1>3. QED
  BY <1>1, <1>2

LEMMA Stuttered ==
  ASSUME IInv, UNCHANGED vars
  PROVE  IInv'
<1>1. /\ Still /\ req' = req
      /\ UNCHANGED <<upload, blob, acked, assoc, deleted, raced, tag, refs, announced>>
  BY DEF vars, Still
<1>2. TablesOK' /\ Linked' /\ MissingWasDeleted'
  BY <1>1 DEF Still, IInv, TablesOK, Linked, InRepo, Stored, MissingWasDeleted
<1>3. ASSUME NEW h \in Handlers PROVE Good(req[h])'
  <2>1. Good(req[h]) /\ req'[h] = req[h]
    BY <1>1 DEF IInv
  <2>2. Proper(req[h].op, req[h].place)' /\ About(req[h])'
    BY <2>1 DEF Good, Proper, About
  <2>3. Open(req[h])'
    BY <1>1, <2>1 DEF Good, Open
  <2>4. Sure(req[h])' /\ Checked(req[h])'
    BY <1>1, <2>1 DEF Still, Good, Sure, Checked, KnownOrDeleted, Stored
  <2>5. QED
    BY <2>2, <2>3, <2>4 DEF Good
<1>4. QED
  BY <1>1, <1>2, <1>3 DEF IInv

LEMMA RegistryStep == IInv /\ [Next]_vars => IInv'
<1> SUFFICES ASSUME IInv, [Next]_vars PROVE IInv'
  OBVIOUS
<1>1. CASE UNCHANGED vars
  BY <1>1, Stuttered
<1>2. ASSUME NEW h \in Handlers, UploadNext(h), UNCHANGED manifestVars,
             UNCHANGED <<backend, store, mix, boots>>
      PROVE  IInv'
  BY <1>2, UploadStep DEF Still
<1>3. ASSUME NEW h \in Handlers, PutManifests(h) \/ DeleteTag(h),
             UNCHANGED <<backend, store, mix, boots>>
      PROVE  IInv'
  BY <1>3, ManifestStep DEF Still
<1>4. CASE Restart /\ UNCHANGED <<backend, store, mix>>
  BY <1>4, RestartStep
<1>5. QED
  BY <1>1, <1>2, <1>3, <1>4 DEF Next

-----------------------------------------------------------------------------
(* Theorems *)

\* What a request has made sure of at each place, in every reachable state.
THEOREM KnowledgeKept == Spec => []IInv
<1>1. Init => IInv
  BY RegistryInit
<1>2. IInv /\ [Next]_vars => IInv'
  BY RegistryStep
<1>3. QED
  BY <1>1, <1>2, PTL DEF Spec

\* The registry's variables keep their types, and a descriptor's file is there under its
\* name, whatever other requests rename and remove.
THEOREM TypeCorrect == Spec => []TypeOK
<1>1. IInv => TypeOK
  <2> SUFFICES ASSUME IInv PROVE TypeOK
    OBVIOUS
  <2>1. \A h \in Handlers : Open(req[h])
    BY DEF IInv, Good
  <2>2. QED
    BY <2>1 DEF IInv, TablesOK, TypeOK, Open
<1>2. QED
  BY <1>1, KnowledgeKept, PTL

\* No push and no mount, whatever fails or comes in between, leaves a manifest without
\* its layers or a tag without its manifest, unless a DELETE has removed them.
THEOREM MissingDeleted == Spec => []MissingWasDeleted
<1>1. IInv => MissingWasDeleted
  BY DEF IInv
<1>2. QED
  BY <1>1, KnowledgeKept, PTL

-----------------------------------------------------------------------------
(* ContentStore *)

LEMMA PromiseSame ==
  ASSUME UNCHANGED <<backend, blob, assoc>>
  PROVE  UNCHANGED Promise!vars
BY DEF Promise!vars

LEMMA PromiseStore ==
  ASSUME IInv, NEW d \in Digests, blob' = [blob EXCEPT ![d] = d], UNCHANGED <<backend, assoc>>
  PROVE  Promise!Next
<1>1. /\ blob'[d] = d /\ d # Absent
      /\ \A e \in Digests : e # d => blob'[e] = blob[e]
  BY Distinct DEF IInv, TablesOK
<1>2. {e \in Digests : blob'[e] # Absent} = {e \in Digests : blob[e] # Absent} \cup {d}
  BY <1>1
<1>3. {e \in Digests : blob'[e] = e} = {e \in Digests : blob[e] = e} \cup {d}
  BY <1>1
<1>4. Promise!Store(d)
  BY <1>2, <1>3 DEF Promise!Store
<1>5. QED
  BY <1>4 DEF Promise!Next

LEMMA PromiseAlter ==
  ASSUME backend = "filesystem", NEW d \in Digests, blob'[d] # Absent,
         \A e \in Digests : e # d => blob'[e] = blob[e], UNCHANGED <<backend, assoc>>
  PROVE  Promise!Next
<1>1. {e \in Digests : blob'[e] # Absent} = {e \in Digests : blob[e] # Absent} \cup {d}
  OBVIOUS
<1>2. {e \in Digests : blob'[e] = e}
        \in {{e \in Digests : blob[e] = e}, {e \in Digests : blob[e] = e} \cup {d},
             {e \in Digests : blob[e] = e} \ {d}}
  <2>1. CASE blob'[d] = d
    BY <2>1
  <2>2. CASE blob'[d] # d
    BY <2>2
  <2>3. QED
    BY <2>1, <2>2
<1>3. Promise!Alter(d)
  BY <1>1, <1>2 DEF Promise!Alter
<1>4. QED
  BY <1>3 DEF Promise!Next

LEMMA PromiseLink ==
  ASSUME NEW r \in Repos, NEW d \in Digests, Stored(d), assoc' = assoc \cup {<<r, d>>},
         UNCHANGED <<backend, blob>>
  PROVE  Promise!Next
<1>1. Promise!Link(r, d)
  BY DEF Promise!Link, Stored
<1>2. QED
  BY <1>1 DEF Promise!Next

LEMMA PromiseUnlink ==
  ASSUME NEW r \in Repos, NEW d \in Digests, assoc' = assoc \ {<<r, d>>},
         UNCHANGED <<backend, blob>>
  PROVE  Promise!Next
<1>1. Promise!Unlink(r, d)
  BY DEF Promise!Unlink
<1>2. QED
  BY <1>1 DEF Promise!Next

Promised == [Promise!Next]_(Promise!vars)

LEMMA PromiseQuiet ==
  ASSUME UNCHANGED <<backend, blob, assoc>>
  PROVE  Promised
BY PromiseSame DEF Promised

LEMMA PromiseWriteCopy ==
  ASSUME IInv, NEW h \in Handlers, WriteCopy(h), UNCHANGED backend
  PROVE  Promised
<1>1. req[h].place = "copy" /\ UNCHANGED assoc
  BY DEF WriteCopy, At
<1>2. req[h] \in Request /\ Good(req[h])
  BY <1>1, Somewhere DEF Places
<1>3. backend = "filesystem" /\ blob \in [Digests -> Contents \cup {Absent}]
  BY <1>1, <1>2 DEF Good, Sure, IInv, TablesOK
<1>4. PICK f : f = req[h].file
  OBVIOUS
<1>5. PICK c \in Contents : AppendTo(f, c)
  <2>1. req[h].body \in Contents
    BY <1>2 DEF Request
  <2>2. \A n \in 0..Len(req[h].body) : SubSeq(req[h].body, 1, n) \in Contents
    <3> SUFFICES ASSUME NEW n \in 0..Len(req[h].body)
                 PROVE  SubSeq(req[h].body, 1, n) \in Contents
      OBVIOUS
    <3>1. \A i \in 1..n : i \in 1..Len(req[h].body)
      BY <2>1, LenProperties DEF Contents
    <3>2. QED
      BY <2>1, <3>1, LenProperties, SubSeqProperties DEF Contents
  <2>3. QED
    BY <1>4, <2>1, <2>2 DEF WriteCopy
<1>6. blob' = [d \in Digests |-> IF f = InBlob(d) THEN blob[d] \o c ELSE blob[d]]
  BY <1>5 DEF AppendTo
<1>7. CASE \E d \in Digests : f = InBlob(d)
  <2>1. PICK d \in Digests : f = InBlob(d)
    BY <1>7
  <2>2. blob[d] # Absent
    BY <1>2, <1>4, <2>1 DEF Good, Open
  <2>3. \A d2 \in Digests : Stored(d2) => Stored(d2)'
    BY <1>1, <1>4, <1>5, Appended
  <2>4. blob'[d] # Absent
    BY <2>2, <2>3 DEF Stored
  <2>5. \A e \in Digests : e # d => blob'[e] = blob[e]
    BY <1>6, <2>1, Distinct
  <2>6. QED
    BY <1>1, <1>3, <2>4, <2>5, PromiseAlter DEF Promised
<1>8. CASE \A d \in Digests : f # InBlob(d)
  <2>1. blob' = blob
    BY <1>3, <1>6, <1>8
  <2>2. QED
    BY <1>1, <2>1, PromiseQuiet
<1>9. QED
  BY <1>7, <1>8

LEMMA PromiseCommit ==
  ASSUME IInv, NEW h \in Handlers, CommitRename(h) \/ CommitPut(h), UNCHANGED backend
  PROVE  Promised
<1>1. req[h].place \in {"rename", "put"} /\ UNCHANGED assoc
  BY DEF CommitRename, CommitPut, At
<1>2. Good(req[h])
  BY <1>1, Somewhere DEF Places
<1>3. req[h].dig \in Digests /\ req[h].up \in UploadIds \cup Handlers
  BY <1>1, <1>2 DEF Good, Proper, About, Committing, Digests
<1>4. CASE UNCHANGED blob
  BY <1>1, <1>4, PromiseQuiet
<1>5. CASE CommitRename(h) /\ blob' # blob
  <2>1. upload[req[h].up] # Absent /\ blob' = [blob EXCEPT ![req[h].dig] = upload[req[h].up]]
    BY <1>5 DEF CommitRename, blobVars
  <2>2. /\ blob'[req[h].dig] # Absent
        /\ \A e \in Digests : e # req[h].dig => blob'[e] = blob[e]
    BY <1>3, <2>1 DEF IInv, TablesOK
  <2>3. backend = "filesystem"
    BY <1>2, <1>5 DEF Good, Sure, CommitRename, At
  <2>4. QED
    BY <1>1, <1>3, <2>2, <2>3, PromiseAlter DEF Promised
<1>6. CASE CommitPut(h) /\ blob' # blob
  <2>1. req[h].body = req[h].dig
    BY <1>2, <1>6 DEF Good, Sure, CommitPut, At
  <2>2. blob' = [blob EXCEPT ![req[h].dig] = req[h].dig]
    BY <1>6, <2>1 DEF CommitPut
  <2>3. QED
    BY <1>1, <1>3, <2>2, PromiseStore DEF Promised
<1>7. QED
  BY <1>4, <1>5, <1>6

LEMMA PromiseManifestBlob ==
  ASSUME IInv, NEW h \in Handlers, WriteBlob(h) \/ FillBlob(h), UNCHANGED backend
  PROVE  Promised
<1>1. req[h].place \in {"write blob", "fill blob"} /\ UNCHANGED assoc
  BY DEF WriteBlob, FillBlob, At
<1>2. Good(req[h])
  BY <1>1, Somewhere DEF Places
<1>3. PICK d : d = req[h].dig
  OBVIOUS
<1>4. d \in Digests /\ backend \in {"filesystem", "s3"}
  BY <1>1, <1>2, <1>3 DEF Good, Proper, About, Pushing, Digests, IInv, TablesOK
<1>5. \/ UNCHANGED blob
      \/ blob' = [blob EXCEPT ![d] = d]
      \/ backend = "filesystem" /\ blob' = [blob EXCEPT ![d] = <<>>]
  BY <1>3, <1>4 DEF WriteBlob, FillBlob
<1>6. CASE UNCHANGED blob
  BY <1>1, <1>6, PromiseQuiet
<1>7. CASE blob' = [blob EXCEPT ![d] = d]
  BY <1>1, <1>4, <1>7, PromiseStore DEF Promised
<1>8. CASE backend = "filesystem" /\ blob' = [blob EXCEPT ![d] = <<>>]
  <2>1. blob'[d] = <<>> /\ \A e \in Digests : e # d => blob'[e] = blob[e]
    BY <1>4, <1>8 DEF IInv, TablesOK
  <2>2. <<>> # Absent
    <3>1. <<>> \in Contents
      BY EmptySeq DEF Contents
    <3>2. QED
      BY <3>1, Distinct
  <2>3. QED
    BY <1>1, <1>4, <1>8, <2>1, <2>2, PromiseAlter DEF Promised
<1>9. QED
  BY <1>5, <1>6, <1>7, <1>8

LEMMA PromiseLinks ==
  ASSUME IInv, NEW h \in Handlers,
         AddBlob(h) \/ AddManifest(h) \/ DeleteFind(h) \/ DeleteUnlink(h), UNCHANGED backend
  PROVE  Promised
<1>1. UNCHANGED blob
  BY DEF AddBlob, AddManifest, DeleteFind, DeleteUnlink, blobVars
<1>2. /\ req[h].place \in {"link", "associate", "find", "unlink"}
      /\ req[h].place = "find" => req[h].op = "delete"
  BY DEF AddBlob, AddManifest, DeleteFind, DeleteUnlink, At
<1>3. Good(req[h])
  BY <1>2, Somewhere DEF Places
<1>4. req[h].repo \in Repos /\ req[h].dig \in Digests
  BY <1>2, <1>3 DEF Good, Proper, About, Pushing, Digests
<1>5. CASE UNCHANGED assoc
  BY <1>1, <1>5, PromiseQuiet
<1>6. CASE (AddBlob(h) \/ AddManifest(h)) /\ assoc' # assoc
  <2>1. req[h].place \in {"link", "associate"}
    BY <1>6 DEF AddBlob, AddManifest, At
  <2>2. Stored(req[h].dig)
    BY <1>3, <2>1 DEF Good, Sure
  <2>3. assoc' = assoc \cup {<<req[h].repo, req[h].dig>>}
    BY <1>6 DEF AddBlob, AddManifest
  <2>4. QED
    BY <1>1, <1>4, <2>2, <2>3, PromiseLink DEF Promised
<1>7. CASE (DeleteFind(h) \/ DeleteUnlink(h)) /\ assoc' # assoc
  <2>1. assoc' = assoc \ {<<req[h].repo, req[h].dig>>}
    BY <1>7 DEF DeleteFind, DeleteUnlink, Unlink
  <2>2. QED
    BY <1>1, <1>4, <2>1, PromiseUnlink DEF Promised
<1>8. QED
  BY <1>5, <1>6, <1>7

LEMMA PromiseUpload ==
  ASSUME IInv, NEW h \in Handlers, UploadNext(h), UNCHANGED backend
  PROVE  Promised
<1>1. CASE PatchBlobUpload(h)
  <2>1. CASE PatchRequest(h)
    <3>1. PICK r : Begin(h, r)
      BY <2>1 DEF PatchRequest
    <3>2. UNCHANGED <<backend, blob, assoc>>
      BY <3>1 DEF Begin, blobVars
    <3>3. QED
      BY <3>2, PromiseQuiet
  <2>2. CASE PatchSize(h)
    <3>1. UNCHANGED <<backend, blob, assoc>>
      BY <2>2 DEF PatchSize, blobVars
    <3>2. QED
      BY <3>1, PromiseQuiet
  <2>3. QED
    BY <1>1, <2>1, <2>2 DEF PatchBlobUpload
<1>2. CASE PutBlobUpload(h)
  BY <1>2, PromiseQuiet DEF PutBlobUpload, PutRequest, Begin, blobVars
<1>3. CASE PostBlobUploads(h)
  BY <1>3, PromiseQuiet
  DEF PostBlobUploads, PostRequest, MountRequest, MountFind, Begin, blobVars
<1>4. CASE UploadBlob(h)
  <2>1. CASE WriteCopy(h)
    BY <2>1, PromiseWriteCopy
  <2>2. CASE WriteOpen(h) \/ WriteFetch(h) \/ WriteSave(h)
    BY <2>2, PromiseQuiet DEF WriteOpen, WriteFetch, WriteSave, blobVars
  <2>3. QED
    BY <1>4, <2>1, <2>2 DEF UploadBlob
<1>5. CASE CommitBlob(h)
  <2>1. CASE CommitRename(h) \/ CommitPut(h)
    BY <2>1, PromiseCommit
  <2>2. CASE CommitVerify(h) \/ CommitPlace(h) \/ CommitHead(h) \/ CommitGet(h) \/ CommitClean(h)
    BY <2>2, PromiseQuiet
    DEF CommitVerify, CommitPlace, CommitHead, CommitGet, CommitClean, blobVars
  <2>3. QED
    BY <1>5, <2>1, <2>2 DEF CommitBlob
<1>6. CASE AddBlob(h)
  BY <1>6, PromiseLinks
<1>7. CASE DeleteBlob(h)
  <2>1. CASE DeleteRequest(h)
    BY <2>1, PromiseQuiet DEF DeleteRequest, Begin, blobVars
  <2>2. QED
    BY <1>7, <2>1, PromiseLinks DEF DeleteBlob
<1>8. QED
  BY <1>1, <1>2, <1>3, <1>4, <1>5, <1>6, <1>7 DEF UploadNext

LEMMA PromiseManifest ==
  ASSUME IInv, NEW h \in Handlers, PutManifests(h) \/ DeleteTag(h), UNCHANGED backend
  PROVE  Promised
<1>1. CASE PutManifestRequest(h)
  BY <1>1, PromiseQuiet DEF PutManifestRequest, Begin, blobVars
<1>2. CASE CheckLayers(h) \/ SaveBlob(h) \/ SaveTag(h) \/ AddReference(h) \/ PutReferences(h)
  BY <1>2, PromiseQuiet DEF CheckLayers, SaveBlob, SaveTag, AddReference, PutReferences, blobVars
<1>3. CASE WriteBlob(h) \/ FillBlob(h)
  BY <1>3, PromiseManifestBlob
<1>4. CASE AddManifest(h)
  BY <1>4, PromiseLinks
<1>5. CASE DeleteTagRequest(h)
  BY <1>5, PromiseQuiet DEF DeleteTagRequest, Begin, blobVars
<1>6. CASE DeleteTagFind(h) \/ DeleteTagRemove(h)
  BY <1>6, PromiseQuiet DEF DeleteTagFind, DeleteTagRemove, blobVars
<1>7. QED
  BY <1>1, <1>2, <1>3, <1>4, <1>5, <1>6 DEF PutManifests, DeleteTag

\* Every step of the registry is one of ContentStore's or leaves its state alone: a blob
\* is associated with a repository only when it is stored, a stored blob is never lost,
\* and on S3 no content but the digest's own is ever written under it.
THEOREM PromiseKept == Spec => KeepsPromise
<1>1. Init => Promise!Init
  <2> SUFFICES ASSUME Init PROVE Promise!Init
    OBVIOUS
  <2>1. /\ assoc = {} /\ \A d \in Digests : blob[d] = Absent
    BY DEF Init, InitUploads
  <2>2. {d \in Digests : blob[d] # Absent} = {} /\ {d \in Digests : blob[d] = d} = {}
    BY <2>1, Distinct
  <2>3. QED
    BY <2>1, <2>2 DEF Promise!Init
<1>2. IInv /\ [Next]_vars => [Promise!Next]_(Promise!vars)
  <2> SUFFICES ASSUME IInv, [Next]_vars PROVE Promised
    BY DEF Promised
  <2>1. CASE UNCHANGED vars
    BY <2>1, PromiseQuiet DEF vars
  <2>2. CASE Restart /\ UNCHANGED backend
    BY <2>2, PromiseQuiet DEF Restart, blobVars
  <2>3. QED
    BY <2>1, <2>2, PromiseUpload, PromiseManifest DEF Next
<1>3. QED
  BY <1>1, <1>2, KnowledgeKept, PTL DEF Spec, KeepsPromise, Promise!Spec
===============================================================================
