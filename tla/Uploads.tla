------------------------------ MODULE Uploads ------------------------------
(***************************************************************************)
(* ctf-registry: uploads and blobs (handler/blobupload.go, handler/blob.go *)
(* over storage/filesystem and storage/s3).                                *)
(*                                                                         *)
(* A blob is a sequence of chunks and its digest is that sequence itself:  *)
(* two contents have the same digest exactly when they are equal.  A       *)
(* request is a sequence of calls of the storage and the store; requests   *)
(* are served concurrently and nothing is locked.  On the filesystem an    *)
(* upload is appended to through a descriptor, which follows the file when *)
(* a commit renames it; on S3 an object is read, extended in memory and    *)
(* written back.  Module Registry adds manifests and has the next-state    *)
(* relation.                                                               *)
(***************************************************************************)
EXTENDS Integers, Sequences, FiniteSets

CONSTANTS
  Handlers,   \* requests served at the same time
  Repos,
  Chunks,
  UploadIds,  \* ids POST has given out to clients
  Bodies,     \* contents a client sends in one request
  Layers,     \* digests of the blobs clients commit
  Manifests,  \* digests of the manifests clients push
  MaxLen,     \* bounds the model: chunks in an upload
  Mixes       \* bounds the model: what clients do together and what fails meanwhile

Ops == {"patch", "put", "post", "mount", "delete", "manifest", "untag"}
FaultKinds == {"storage", "store", "client", "kill"}
Digests == Layers \cup Manifests

VARIABLES
  backend,  \* STORAGE_BACKEND, fixed when the server starts
  store,    \* STORE_BACKEND, likewise
  mix,      \* operations of the clients, their repositories and digests, and failures
  upload,   \* contents of uploads/
  blob,     \* contents of blobs/
  assoc,    \* repositories' blobs: the table of AddBlob, LinkBlob and DeleteBlob
  req,      \* what each handler is doing
  served,   \* requests accepted so far
  acked,    \* history: chunks put in the upload and answered with 202
  raced,    \* history: uploads two requests have worked on at once
  deleted   \* history: associations some DELETE has removed

blobVars == <<upload, blob, acked>>

None == "none"
Absent == <<None>>
NoOffset == -1
NoTag == 0
InUpload(u) == <<"upload", u>>
InBlob(d) == <<"blob", d>>
NoFile == <<"nothing">>  \* no descriptor, or one of a file that was unlinked

\* A request for a digest of a repository.
Ask(op, place, repo, dig) ==
  [op |-> op, place |-> place, repo |-> repo, from |-> None, up |-> None, dig |-> dig,
   body |-> <<>>, start |-> NoOffset, file |-> NoFile, tag |-> NoTag, left |-> {}, seen |-> <<>>]
Idle == Ask(None, "idle", None, <<>>)

\* The environment of the process names the backends.
Backends ==
  /\ backend \in mix.backends
  /\ store \in mix.stores

InitUploads ==
  /\ mix \in Mixes
  /\ Backends
  /\ upload = [u \in UploadIds \cup Handlers |-> Absent]
  /\ blob = [d \in Digests |-> Absent]
  /\ assoc = {}
  /\ req = [h \in Handlers |-> Idle]
  /\ served = 0
  /\ acked = [u \in UploadIds |-> 0]
  /\ raced = {}
  /\ deleted = {}

At(h, place) == req[h].place = place
Becomes(h, r) == req' = [req EXCEPT ![h] = r]
GoTo(h, place) == Becomes(h, [req[h] EXCEPT !.place = place])
Finish(h) == Becomes(h, Idle)
Fails(f) == f \in mix.faults
\* IsExistBlob of the store and of the storage
InRepo(r, d) == <<r, d>> \in assoc
Stored(d) == blob[d] # Absent

Content(c) == IF c = Absent THEN <<>> ELSE c
InFlight(u) == {h \in Handlers : req[h].up = u}

\* bound: what a mix of clients asks of the server
Begin(h, r) ==
  /\ r.op \in mix.ops /\ r.repo \in mix.repos \cup {None}
  /\ r.dig \in mix.digests \cup {<<>>}
  /\ served < mix.requests /\ served' = served + 1
  /\ req[h] = Idle
  /\ Becomes(h, r)
  /\ raced' = IF InFlight(r.up) # {} THEN raced \cup ({r.up} \cap UploadIds) ELSE raced
  /\ UNCHANGED <<blobVars, assoc, deleted>>

-----------------------------------------------------------------------------
(* PATCH: one more chunk *)

\* A PATCH names the offset of its chunk (Content-Range) or none.
\* bound: an upload grows to MaxLen chunks
PatchRequest(h) ==
  \E u \in UploadIds, c \in Bodies \ {<<>>}, s \in {NoOffset} \cup 0..MaxLen :
    /\ Len(Content(upload[u])) + Cardinality(InFlight(u)) < MaxLen
    /\ Begin(h, [Ask("patch", IF s = NoOffset THEN "write" ELSE "size", None, <<>>)
                  EXCEPT !.up = u, !.body = c, !.start = s])

\* 0 for an upload that is not there; S3 takes any error for that.
UploadSizes(u) ==
  {Len(Content(upload[u]))} \cup (IF backend = "s3" /\ Fails("storage") THEN {0} ELSE {})

\* A chunk that does not start at the end of the upload is refused.
PatchSize(h) ==
  /\ At(h, "size")
  /\ \/ req[h].start \in UploadSizes(req[h].up) /\ GoTo(h, "write")
     \/ UploadSizes(req[h].up) # {req[h].start} /\ Finish(h)
     \/ Fails("storage") /\ Finish(h)
  /\ UNCHANGED <<blobVars, assoc, deleted, raced, served>>

-----------------------------------------------------------------------------
(* UploadBlob *)

\* The body is written: PATCH answers 202, PUT and POST go on to commit.
Written(h, up) ==
  IF req[h].op = "patch"
  THEN /\ Finish(h)
       /\ acked' = IF backend = "s3" \/ req[h].file = InUpload(up)
                   THEN [acked EXCEPT ![up] = @ + 1] ELSE acked
  ELSE /\ Becomes(h, [req[h] EXCEPT !.place = "verify", !.file = NoFile])
       /\ UNCHANGED acked

\* Filesystem: open for appending, created if need be ...
WriteOpen(h) ==
  LET u == req[h].up IN
  /\ At(h, "write") /\ backend = "filesystem"
  /\ \/ /\ upload' = [upload EXCEPT ![u] = Content(@)]
        /\ Becomes(h, [req[h] EXCEPT !.place = "copy", !.file = InUpload(u)])
     \/ Fails("storage") /\ Finish(h) /\ UNCHANGED upload
  /\ UNCHANGED <<blob, acked, assoc, deleted, raced, served>>

\* The file a descriptor was opened on gets more content, under whatever name it has.
AppendTo(file, c) ==
  /\ upload' = [u \in DOMAIN upload |->
                  IF file = InUpload(u) THEN upload[u] \o c ELSE upload[u]]
  /\ blob' = [d \in Digests |-> IF file = InBlob(d) THEN blob[d] \o c ELSE blob[d]]

\* Mutant: the file is opened without O_APPEND.
WriteCopyOver(h) ==
  /\ At(h, "copy")
  /\ upload' = [upload EXCEPT ![req[h].up] = req[h].body]
  /\ Written(h, req[h].up)
  /\ UNCHANGED <<blob, assoc, deleted, raced, served>>

\* ... copy the body to its end and look at the upload's size: an error if another
\* request has committed it.  A client that goes away leaves what it had sent.
WriteCopy(h) ==
  LET u == req[h].up IN
  /\ At(h, "copy")
  /\ \/ /\ AppendTo(req[h].file, req[h].body)
        /\ \/ upload[u] # Absent /\ Written(h, u)
           \/ upload[u] = Absent /\ Finish(h) /\ UNCHANGED acked
     \/ /\ Fails("client")
        /\ \E n \in 0..Len(req[h].body) : AppendTo(req[h].file, SubSeq(req[h].body, 1, n))
        /\ Finish(h) /\ UNCHANGED acked
  /\ UNCHANGED <<assoc, deleted, raced, served>>

\* S3: the object read so far, nothing if any of the two reads fails ...
WriteFetch(h) ==
  /\ At(h, "write") /\ backend = "s3"
  /\ \E old \in {Content(upload[req[h].up])} \cup (IF Fails("storage") THEN {<<>>} ELSE {}) :
       Becomes(h, [req[h] EXCEPT !.place = "save", !.body = old \o @])
  /\ UNCHANGED <<blobVars, assoc, deleted, raced, served>>

\* ... is written back with the body added.
WriteSave(h) ==
  LET u == req[h].up IN
  /\ At(h, "save")
  /\ \/ upload' = [upload EXCEPT ![u] = req[h].body] /\ Written(h, u)
     \/ /\ Fails("storage") \/ Fails("client")
        /\ upload' \in {upload, [upload EXCEPT ![u] = req[h].body]}
        /\ Finish(h) /\ UNCHANGED acked
  /\ UNCHANGED <<blob, assoc, deleted, raced, served>>

UploadBlob(h) == WriteOpen(h) \/ WriteCopy(h) \/ WriteFetch(h) \/ WriteSave(h)

-----------------------------------------------------------------------------
(* CommitBlob *)

\* The upload's name is gone.
Forget(u) ==
  /\ upload' = [upload EXCEPT ![u] = Absent]
  /\ acked' = [v \in UploadIds |-> IF v = u THEN 0 ELSE acked[v]]

\* Filesystem: the content is compared with the digest ...
CommitVerify(h) ==
  /\ At(h, "verify") /\ backend = "filesystem"
  /\ IF upload[req[h].up] = req[h].dig THEN GoTo(h, "place") ELSE Finish(h)
  /\ UNCHANGED <<blobVars, assoc, deleted, raced, served>>

\* ... an upload of a blob that exists is removed; whether that works is not asked ...
CommitPlace(h) ==
  LET u == req[h].up IN
  /\ At(h, "place")
  /\ \/ ~Stored(req[h].dig) /\ GoTo(h, "rename") /\ UNCHANGED <<upload, acked>>
     \/ /\ Stored(req[h].dig) /\ Fails("storage")
        /\ GoTo(h, "link") /\ UNCHANGED <<upload, acked>>
     \/ /\ Stored(req[h].dig)
        /\ Forget(u)
        /\ req' = [g \in Handlers |->
                     IF g = h THEN [req[h] EXCEPT !.place = "link"]
                     ELSE IF req[g].file = InUpload(u) THEN [req[g] EXCEPT !.file = NoFile]
                     ELSE req[g]]
  /\ UNCHANGED <<blob, assoc, deleted, raced, served>>

\* Mutant: descriptors stay with the upload's name.
CommitRenameByName(h) ==
  /\ At(h, "rename") /\ upload[req[h].up] # Absent
  /\ blob' = [blob EXCEPT ![req[h].dig] = upload[req[h].up]]
  /\ Forget(req[h].up)
  /\ GoTo(h, "link")
  /\ UNCHANGED <<assoc, deleted, raced, served>>

\* ... and any other is renamed, whatever it holds by now: descriptors of the upload
\* write to the blob from here on, and those of a blob that is replaced to nothing.
CommitRename(h) ==
  LET u == req[h].up
      d == req[h].dig
      Moved(file) == IF file = InUpload(u) THEN InBlob(d)
                     ELSE IF file = InBlob(d) THEN NoFile ELSE file IN
  /\ At(h, "rename")
  /\ \/ /\ upload[u] # Absent
        /\ blob' = [blob EXCEPT ![d] = upload[u]]
        /\ Forget(u)
        /\ req' = [g \in Handlers |->
                     IF g = h THEN [req[h] EXCEPT !.place = "link"]
                     ELSE [req[g] EXCEPT !.file = Moved(@)]]
     \/ /\ upload[u] = Absent \/ Fails("storage")
        /\ Finish(h)
        /\ UNCHANGED blobVars
  /\ UNCHANGED <<assoc, deleted, raced, served>>

\* S3: the upload of a blob that exists is deleted, unverified ...
CommitHead(h) ==
  /\ At(h, "verify") /\ backend = "s3"
  /\ \/ /\ Stored(req[h].dig)
        /\ Forget(req[h].up) \/ (Fails("storage") /\ UNCHANGED <<upload, acked>>)
        /\ GoTo(h, "link")
     \/ /\ ~Stored(req[h].dig) \/ Fails("storage")
        /\ GoTo(h, "get")
        /\ UNCHANGED <<upload, acked>>
  /\ UNCHANGED <<blob, assoc, deleted, raced, served>>

\* Mutant: what was read is stored without a look at the digest.
CommitGetUnverified(h) ==
  /\ At(h, "get")
  /\ IF upload[req[h].up] # Absent
     THEN Becomes(h, [req[h] EXCEPT !.place = "put", !.body = upload[req[h].up]])
     ELSE Finish(h)
  /\ UNCHANGED <<blobVars, assoc, deleted, raced, served>>

\* ... any other is read and compared ...
CommitGet(h) ==
  /\ At(h, "get")
  /\ \/ /\ upload[req[h].up] = req[h].dig
        /\ Becomes(h, [req[h] EXCEPT !.place = "put", !.body = upload[req[h].up]])
     \/ upload[req[h].up] # req[h].dig /\ Finish(h)
     \/ Fails("storage") /\ Finish(h)
  /\ UNCHANGED <<blobVars, assoc, deleted, raced, served>>

\* ... what was read is written under the digest ...
CommitPut(h) ==
  /\ At(h, "put")
  /\ \/ blob' = [blob EXCEPT ![req[h].dig] = req[h].body] /\ GoTo(h, "clean")
     \/ /\ Fails("storage")
        /\ blob' \in {blob, [blob EXCEPT ![req[h].dig] = req[h].body]}
        /\ Finish(h)
  /\ UNCHANGED <<upload, acked, assoc, deleted, raced, served>>

\* ... and the upload deleted, with what others have added to it meanwhile.
CommitClean(h) ==
  /\ At(h, "clean")
  /\ Forget(req[h].up) \/ (Fails("storage") /\ UNCHANGED <<upload, acked>>)
  /\ GoTo(h, "link")
  /\ UNCHANGED <<blob, assoc, deleted, raced, served>>

CommitBlob(h) == \/ CommitVerify(h) \/ CommitPlace(h) \/ CommitRename(h)
                 \/ CommitHead(h) \/ CommitGet(h) \/ CommitPut(h) \/ CommitClean(h)

-----------------------------------------------------------------------------
(* PUT and POST *)

\* The last chunk, which may be empty, and the digest the whole must have.
PutRequest(h) ==
  \E u \in UploadIds, c \in Bodies, d \in Layers, r \in Repos :
    /\ Len(Content(upload[u])) + Cardinality(InFlight(u)) < MaxLen
    /\ Begin(h, [Ask("put", "write", r, d) EXCEPT !.up = u, !.body = c])

\* A monolithic upload has an id nobody else knows: the handler stands for it.
\* bound: one left over, after a failure, for each handler
PostRequest(h) ==
  \E c \in Layers, d \in Layers, r \in Repos :
    /\ upload[h] = Absent
    /\ Begin(h, [Ask("post", "write", r, d) EXCEPT !.up = h, !.body = c])

\* Mount from another repository, or from wherever the blob is.
MountRequest(h) ==
  \E d \in Layers, r \in Repos, from \in Repos \cup {None} :
    /\ from # r
    /\ Begin(h, [Ask("mount", "find", r, d) EXCEPT !.from = from])

\* Mutant: the source repository is not asked.
MountFindAnywhere(h) ==
  /\ At(h, "find") /\ req[h].op = "mount"
  /\ GoTo(h, "link")
  /\ UNCHANGED <<blobVars, assoc, deleted, raced, served>>

\* A blob that is not found, or on S3 not looked up, becomes an ordinary upload.
MountFind(h) ==
  LET d == req[h].dig
      found == IF req[h].from = None THEN Stored(d) ELSE InRepo(req[h].from, d) IN
  /\ At(h, "find") /\ req[h].op = "mount"
  /\ \/ found /\ GoTo(h, "link")
     \/ (~found \/ Fails("storage") \/ Fails("store")) /\ Finish(h)
  /\ UNCHANGED <<blobVars, assoc, deleted, raced, served>>

\* AddBlob and LinkBlob: the last step of PUT, POST and a mount.
AddBlob(h) ==
  /\ At(h, "link")
  /\ \/ assoc' = assoc \cup {<<req[h].repo, req[h].dig>>}
     \/ Fails("store") /\ UNCHANGED assoc
  /\ Finish(h)
  /\ UNCHANGED <<blobVars, deleted, raced, served>>

\* DELETE of a blob or a manifest removes the repository's association and nothing
\* else: in one transaction of boltdb, in a read and a delete of dynamodb.
DeleteRequest(h) ==
  \E d \in Digests, r \in Repos :
    Begin(h, Ask("delete", "find", r, d))

Unlink(r, d) ==
  /\ assoc' = assoc \ {<<r, d>>}
  /\ deleted' = deleted \cup {<<r, d>>}

DeleteFind(h) ==
  LET there == InRepo(req[h].repo, req[h].dig) IN
  /\ At(h, "find") /\ req[h].op = "delete"
  /\ \/ there /\ store = "boltdb" /\ Unlink(req[h].repo, req[h].dig) /\ Finish(h)
     \/ there /\ store = "dynamodb" /\ GoTo(h, "unlink") /\ UNCHANGED <<assoc, deleted>>
     \/ (~there \/ Fails("store")) /\ Finish(h) /\ UNCHANGED <<assoc, deleted>>
  /\ UNCHANGED <<blobVars, raced, served>>

DeleteUnlink(h) ==
  /\ At(h, "unlink")
  /\ \/ Unlink(req[h].repo, req[h].dig)
     \/ Fails("store") /\ UNCHANGED <<assoc, deleted>>
  /\ Finish(h)
  /\ UNCHANGED <<blobVars, raced, served>>

DeleteBlob(h) == DeleteRequest(h) \/ DeleteFind(h) \/ DeleteUnlink(h)

PatchBlobUpload(h) == PatchRequest(h) \/ PatchSize(h)
PutBlobUpload(h) == PutRequest(h)
PostBlobUploads(h) == PostRequest(h) \/ MountRequest(h) \/ MountFind(h)

UploadNext(h) ==
  \/ PatchBlobUpload(h) \/ PutBlobUpload(h) \/ PostBlobUploads(h)
  \/ UploadBlob(h) \/ CommitBlob(h) \/ AddBlob(h) \/ DeleteBlob(h)

-----------------------------------------------------------------------------
(* GET *)

\* ReadBlobToWriter sends the bytes while it verifies them: what is sent is what is there.
ReadBlobToWriter(d) == blob[d]

GetBlobs(r, d) == IF InRepo(r, d) THEN ReadBlobToWriter(d) ELSE Absent
=============================================================================
