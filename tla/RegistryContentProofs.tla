------------------------- MODULE RegistryContentProofs -------------------------
(***************************************************************************)
(* What the contents of the registry are: layers, manifests and uploads    *)
(* answered with 202 are damaged only where Registry says, a referrer is   *)
(* lost only to a push that had read the list before, and a page of tags   *)
(* is what follows the one before.  The invariant of RegistryProofs, which *)
(* says what requests know of the tables, is joined by one that says what  *)
(* they know of the contents.                                              *)
(***************************************************************************)
EXTENDS RegistryProofs, FiniteSetTheorems

\* Requests that have one upload between them are known to.
Alone ==
  \A g, h \in Handlers : g # h /\ req[g].up = req[h].up => req[g].up \in raced \cup {None}

\* What a request has to do with uploads: a monolithic upload is its own; its descriptor
\* is of its upload, or of a layer others have made of it; nobody has changed what it has
\* verified; what it is about to write back has every chunk that was answered; and it
\* reads a list of referrers to write it back only in dynamodb.
Fine(h, q) ==
  /\ q.up \in Handlers => q.up = h
  /\ \A u \in UploadIds \cup Handlers : q.file = InUpload(u) => q.up = u
  /\ \A d \in Digests : q.file = InBlob(d) => d \in Layers /\ q.up \in raced
  /\ q.place \in {"place", "rename"} => q.up \in raced \/ upload[q.up] = q.dig
  /\ q.op = "patch" => Len(q.body) > 0
  /\ q.place = "save" /\ q.up \in UploadIds \ raced =>
       \/ Fails("storage")
       \/ Len(q.body) >= acked[q.up] + (IF q.op = "patch" THEN 1 ELSE 0)
  /\ q.place = "put refs" => store = "dynamodb"

LayersOK ==
  \A d \in Layers : blob[d] \in {Absent, d} \/ (backend = "filesystem" /\ raced # {})

Filling(m) == \E h \in Handlers : At(h, "fill blob") /\ req[h].dig = m
ManifestsOK ==
  \A m \in Manifests :
    \/ blob[m] \in {Absent, m}
    \/ backend = "filesystem" /\ (Filling(m) \/ boots > 1 \/ Fails("storage"))

AckedOK ==
  \A u \in UploadIds :
    \/ backend = "s3" /\ (u \in raced \/ Fails("storage"))
    \/ upload[u] = Absent /\ acked[u] = 0
    \/ upload[u] # Absent /\ Len(upload[u]) >= acked[u]

CInv ==
  /\ Alone
  /\ \A h \in Handlers : Fine(h, req[h])
  /\ LayersOK /\ ManifestsOK /\ AckedOK

USE RegistryAssumption

-----------------------------------------------------------------------------
(* The requests that a step does not serve *)

LEMMA FineIdle ==
  ASSUME NEW h \in Handlers
  PROVE  Fine(h, Idle) /\ Fine(h, Idle)'
<1>1. Idle.op = None /\ Idle.place = "idle" /\ Idle.file = NoFile /\ Idle.up = None
  BY DEF Idle, Ask
<1>2. Fine(h, Idle)
  BY <1>1, Distinct DEF Fine, None
<1>3. Fine(h, Idle)'
  BY <1>1, Distinct DEF Fine, None
<1>4. QED
  BY <1>2, <1>3

LEMMA ContentInit == Init => CInv
<1> SUFFICES ASSUME Init PROVE CInv
  OBVIOUS
<1>1. \A h \in Handlers : req[h] = Idle /\ Idle.up = None
  BY DEF Init, InitUploads, Idle, Ask
<1>2. Alone
  BY <1>1 DEF Alone
<1>3. \A h \in Handlers : Fine(h, req[h])
  BY <1>1, FineIdle
<1>4. LayersOK /\ ManifestsOK
  BY DEF Init, InitUploads, LayersOK, ManifestsOK, Digests
<1>5. AckedOK
  BY DEF Init, InitUploads, AckedOK
<1>6. QED
  BY <1>2, <1>3, <1>4, <1>5 DEF CInv

\* A request that works on an upload has one.
LEMMA HasUpload ==
  ASSUME IInv, NEW h \in Handlers,
         req[h].place \in {"size", "write", "copy", "save"} \cup Committing
  PROVE  req[h] \in Request /\ req[h].up \in UploadIds \cup Handlers /\ req[h].up # None
<1>1. req[h] \in Request /\ Good(req[h])
  BY Somewhere DEF Places, Committing
<1>2. req[h].op \in {"patch", "put", "post"}
  BY <1>1 DEF Good, Proper, Committing
<1>3. QED
  BY <1>1, <1>2 DEF Good, About

\* What a step leaves alone: the uploads that are not the request's own.
Apart(h) ==
  /\ UNCHANGED <<backend, store, mix>>
  /\ raced \subseteq raced'
  /\ \A u \in UploadIds \cup Handlers : u = req[h].up \/ upload'[u] = upload[u]
  /\ \A u \in UploadIds : u = req[h].up \/ acked'[u] = acked[u]

LEMMA FineOthers ==
  ASSUME IInv, CInv, NEW h \in Handlers, Apart(h), NEW g \in Handlers \ {h}, NEW q,
         q.up = req[g].up, q.op = req[g].op, q.place = req[g].place, q.dig = req[g].dig,
         q.body = req[g].body,
         \A u \in UploadIds \cup Handlers : q.file = InUpload(u) => q.up = u,
         \A d \in Digests : q.file = InBlob(d) => d \in Layers /\ q.up \in raced'
  PROVE  Fine(g, q)'
<1>1. Fine(g, req[g])
  BY DEF CInv
<1>2. raced \subseteq raced' /\ UNCHANGED <<store, mix>>
  BY DEF Apart
<1>3. CASE req[g].up = req[h].up
  <2>1. req[g].up \in raced \cup {None}
    BY <1>3 DEF CInv, Alone
  <2>2. q.place \in {"place", "rename", "save"} => q.up \in raced'
    BY <1>2, <2>1, HasUpload DEF Committing
  <2>3. QED
    BY <1>1, <1>2, <2>2 DEF Fine
<1>4. CASE req[g].up # req[h].up
  <2>1. q.place \in {"place", "rename"} => q.up \in raced' \/ upload'[q.up] = q.dig
    <3>1. ASSUME q.place \in {"place", "rename"}, q.up \notin raced'
          PROVE  upload'[q.up] = q.dig
      <4>1. q.up \in UploadIds \cup Handlers
        BY <3>1, HasUpload DEF Committing
      <4>2. upload'[q.up] = upload[q.up]
        BY <1>4, <4>1 DEF Apart
      <4>3. upload[q.up] = q.dig
        BY <1>1, <1>2, <3>1 DEF Fine
      <4>4. QED
        BY <4>2, <4>3
    <3>2. QED
      BY <3>1
  <2>2. q.up \in UploadIds => acked'[q.up] = acked[q.up]
    BY <1>4 DEF Apart
  <2>3. QED
    BY <1>1, <1>2, <2>1, <2>2 DEF Fine, Fails
<1>5. QED
  BY <1>3, <1>4

\* The invariant after a step that serves one request.
LEMMA Served ==
  ASSUME IInv, CInv, NEW h \in Handlers, Apart(h), NEW q, Becomes(h, q), Fine(h, q)',
         q.up \in {req[h].up, None},
         LayersOK', ManifestsOK', AckedOK'
  PROVE  CInv'
<1>1. req'[h] = q /\ \A g \in Handlers \ {h} : req'[g] = req[g]
  BY DEF Becomes, IInv
<1>2. raced \subseteq raced' /\ UNCHANGED store
  BY DEF Apart
<1>3. Alone'
  <2> SUFFICES ASSUME NEW f \in Handlers, NEW g \in Handlers, f # g, req'[f].up = req'[g].up
               PROVE  req'[f].up \in raced' \cup {None}
    BY DEF Alone
  <2>1. CASE f = h
    BY <1>1, <1>2, <2>1 DEF CInv, Alone
  <2>2. CASE g = h
    BY <1>1, <1>2, <2>2 DEF CInv, Alone
  <2>3. CASE f # h /\ g # h
    BY <1>1, <1>2, <2>3 DEF CInv, Alone
  <2>4. QED
    BY <2>1, <2>2, <2>3
<1>4. ASSUME NEW g \in Handlers PROVE Fine(g, req[g])'
  <2>1. CASE g = h
    BY <1>1, <2>1 DEF Fine, Fails
  <2>2. CASE g # h
    <3>1. PICK r : r = req[g]
      OBVIOUS
    <3>2. Fine(g, r)
      BY <3>1 DEF CInv
    <3>3. Fine(g, r)'
      <4>1. /\ r.up = req[g].up /\ r.op = req[g].op /\ r.place = req[g].place
            /\ r.dig = req[g].dig /\ r.body = req[g].body
        BY <3>1
      <4>2. /\ \A u \in UploadIds \cup Handlers : r.file = InUpload(u) => r.up = u
            /\ \A d \in Digests : r.file = InBlob(d) => d \in Layers /\ r.up \in raced
        BY <3>2 DEF Fine
      <4>3. \A d \in Digests : r.file = InBlob(d) => d \in Layers /\ r.up \in raced'
        BY <1>2, <4>2
      <4>4. QED
        BY <2>2, <4>1, <4>2, <4>3, FineOthers
    <3>4. req'[g] = r
      BY <1>1, <2>2, <3>1
    <3>5. QED
      BY <3>3, <3>4 DEF Fine, Fails
  <2>3. QED
    BY <2>1, <2>2
<1>5. QED
  BY <1>3, <1>4 DEF CInv

-----------------------------------------------------------------------------
(* Steps that leave contents alone *)

\* A manifest that somebody is about to fill is still, unless it is filled.
LEMMA ManifestsStay ==
  ASSUME IInv, CInv, NEW h \in Handlers, UNCHANGED <<backend, store, mix, boots>>,
         \A g \in Handlers \ {h} : req'[g].place = req[g].place /\ req'[g].dig = req[g].dig,
         req[h].place # "fill blob",
         \A m \in Manifests : blob'[m] = blob[m]
  PROVE  ManifestsOK'
<1> SUFFICES ASSUME NEW m \in Manifests
             PROVE  \/ blob'[m] \in {Absent, m}
                    \/ backend' = "filesystem" /\ (Filling(m)' \/ boots' > 1 \/ Fails("storage")')
  BY DEF ManifestsOK
<1>1. CASE Filling(m)
  <2>1. PICK g \in Handlers : At(g, "fill blob") /\ req[g].dig = m
    BY <1>1 DEF Filling
  <2>2. g # h /\ req'[g].place = "fill blob" /\ req'[g].dig = m
    BY <2>1 DEF At
  <2>3. Filling(m)'
    BY <2>2 DEF Filling, At
  <2>4. QED
    BY <2>3 DEF CInv, ManifestsOK
<1>2. CASE ~Filling(m)
  BY <1>2 DEF CInv, ManifestsOK, Fails
<1>3. QED
  BY <1>1, <1>2

LEMMA LayersStay ==
  ASSUME CInv, UNCHANGED backend, raced \subseteq raced', \A d \in Layers : blob'[d] = blob[d]
  PROVE  LayersOK'
BY DEF CInv, LayersOK

LEMMA AckedStay ==
  ASSUME CInv, UNCHANGED <<backend, store, mix, upload, acked>>, raced \subseteq raced'
  PROVE  AckedOK'
BY DEF CInv, AckedOK, Fails

Untouched == UNCHANGED <<backend, store, mix, upload, blob, acked, raced, boots>>

LEMMA Unwritten ==
  ASSUME IInv, CInv, NEW h \in Handlers, NEW q, Becomes(h, q), Fine(h, q), Untouched,
         q.up \in {req[h].up, None}, req[h].place # "fill blob"
  PROVE  CInv'
<1>1. Apart(h)
  BY DEF Untouched, Apart
<1>2. Fine(h, q)'
  BY DEF Untouched, Fine, Fails
<1>3. \A g \in Handlers \ {h} : req'[g] = req[g]
  BY DEF Becomes, IInv
<1>4. ManifestsOK'
  BY <1>3, ManifestsStay DEF Untouched
<1>5. LayersOK' /\ AckedOK'
  BY LayersStay, AckedStay DEF Untouched
<1>6. QED
  BY <1>1, <1>2, <1>4, <1>5, Served

LEMMA Ended ==
  ASSUME IInv, CInv, NEW h \in Handlers, Finish(h), Untouched, req[h].place # "fill blob"
  PROVE  CInv'
<1>1. Idle.up = None /\ Fine(h, Idle)
  BY FineIdle DEF Idle, Ask
<1>2. QED
  BY <1>1, Unwritten DEF Finish

\* A request goes on; what it must know of its upload is said for where it goes.
LEMMA FineOnward ==
  ASSUME IInv, CInv, NEW h \in Handlers, req[h].place \in Places, NEW p \in Places,
         NEW q, q = [req[h] EXCEPT !.place = p],
         p \notin {"save", "put refs"},
         p \in {"place", "rename"} => req[h].up \in raced \/ upload[req[h].up] = req[h].dig
  PROVE  Fine(h, q) /\ q.up = req[h].up
<1>1. req[h] \in Request
  BY Somewhere
<1>2. /\ q.place = p /\ q.op = req[h].op /\ q.up = req[h].up /\ q.dig = req[h].dig
      /\ q.body = req[h].body /\ q.file = req[h].file
  BY <1>1 DEF Request
<1>3. Fine(h, req[h])
  BY DEF CInv
<1>4. QED
  BY <1>2, <1>3 DEF Fine

LEMMA Went ==
  ASSUME IInv, CInv, NEW h \in Handlers, req[h].place \in Places, NEW p \in Places, GoTo(h, p),
         Untouched, req[h].place # "fill blob", p \notin {"save", "put refs"},
         p \in {"place", "rename"} => req[h].up \in raced \/ upload[req[h].up] = req[h].dig
  PROVE  CInv'
<1>1. PICK q : q = [req[h] EXCEPT !.place = p]
  OBVIOUS
<1>2. Fine(h, q) /\ q.up = req[h].up
  BY <1>1, FineOnward
<1>3. QED
  BY <1>1, <1>2, Unwritten DEF GoTo

\* A request comes: it has an upload of its own, one of the clients', or none.
LEMMA Came ==
  ASSUME IInv, CInv, NEW h \in Handlers, NEW q, Begin(h, q),
         UNCHANGED <<backend, store, mix, boots>>,
         q.file = NoFile, q.place \in {"size", "write", "find", "layers"},
         q.up \in UploadIds \cup {h, None},
         q.op = "patch" => Len(q.body) > 0
  PROVE  CInv'
<1>1. /\ UNCHANGED <<upload, blob, acked>> /\ req[h] = Idle /\ Becomes(h, q)
      /\ raced \subseteq raced'
  BY DEF Begin, blobVars
<1>2. req'[h] = q /\ \A g \in Handlers \ {h} : req'[g] = req[g]
  BY <1>1 DEF Becomes, IInv
<1>3. Fine(h, q)'
  BY Distinct DEF Fine
<1>4. ASSUME NEW g \in Handlers \ {h}, req[g].up = q.up
      PROVE  q.up \in raced' \cup {None}
  <2>1. CASE q.up = h
    <3>1. Fine(g, req[g])
      BY DEF CInv
    <3>2. QED
      BY <1>4, <2>1, <3>1 DEF Fine
  <2>2. CASE q.up \in UploadIds
    <3>1. InFlight(q.up) # {}
      BY <1>4 DEF InFlight
    <3>2. QED
      BY <2>2, <3>1 DEF Begin
  <2>3. QED
    BY <2>1, <2>2
<1>5. Alone'
  <2> SUFFICES ASSUME NEW f \in Handlers, NEW g \in Handlers, f # g, req'[f].up = req'[g].up
               PROVE  req'[f].up \in raced' \cup {None}
    BY DEF Alone
  <2>1. CASE f = h
    BY <1>2, <1>4, <2>1
  <2>2. CASE g = h
    BY <1>2, <1>4, <2>2
  <2>3. CASE f # h /\ g # h
    BY <1>1, <1>2, <2>3 DEF CInv, Alone
  <2>4. QED
    BY <2>1, <2>2, <2>3
<1>6. ASSUME NEW g \in Handlers PROVE Fine(g, req[g])'
  <2>1. CASE g = h
    BY <1>2, <1>3, <2>1 DEF Fine, Fails
  <2>2. CASE g # h
    <3>1. Fine(g, req[g]) /\ req'[g] = req[g]
      BY <1>2, <2>2 DEF CInv
    <3>2. QED
      BY <1>1, <3>1 DEF Fine, Fails
  <2>3. QED
    BY <2>1, <2>2
<1>7. ManifestsOK'
  BY <1>1, <1>2, IdleRequest, ManifestsStay
<1>8. LayersOK' /\ AckedOK'
  BY <1>1, LayersStay, AckedStay
<1>9. QED
  BY <1>5, <1>6, <1>7, <1>8 DEF CInv

-----------------------------------------------------------------------------
(* Requests as they arrive *)

LEMMA ContentRequests ==
  ASSUME IInv, CInv, NEW h \in Handlers, Still,
         \/ PatchRequest(h) \/ PutRequest(h) \/ PostRequest(h) \/ MountRequest(h)
         \/ DeleteRequest(h) \/ PutManifestRequest(h) \/ DeleteTagRequest(h)
  PROVE  CInv'
<1> USE DEF Still
<1>1. CASE PatchRequest(h)
  <2>1. PICK u \in UploadIds, c \in Bodies \ {<<>>}, s \in {NoOffset} \cup 0..MaxLen :
          Begin(h, [Ask("patch", IF s = NoOffset THEN "write" ELSE "size", None, <<>>)
                    EXCEPT !.up = u, !.body = c, !.start = s])
    BY <1>1 DEF PatchRequest
  <2>2. PICK p \in {"write", "size"} : p = IF s = NoOffset THEN "write" ELSE "size"
    OBVIOUS
  <2>3. PICK q : q = [Ask("patch", p, None, <<>>) EXCEPT !.up = u, !.body = c, !.start = s]
    OBVIOUS
  <2>4. q.op = "patch" /\ q.place = p /\ q.up = u /\ q.body = c /\ q.file = NoFile
    BY <2>3 DEF Ask
  <2>5. Len(c) > 0
    <3>1. c \in Seq(Chunks) /\ c # <<>>
      OBVIOUS
    <3>2. QED
      BY <3>1, EmptySeq, LenProperties
  <2>6. Begin(h, q)
    BY <2>1, <2>2, <2>3
  <2>7. QED
    BY <2>4, <2>5, <2>6, Came
<1>2. CASE PutRequest(h)
  <2>1. PICK u \in UploadIds, c \in Bodies, d \in Layers, r \in Repos :
          Begin(h, [Ask("put", "write", r, d) EXCEPT !.up = u, !.body = c])
    BY <1>2 DEF PutRequest
  <2>2. PICK q : q = [Ask("put", "write", r, d) EXCEPT !.up = u, !.body = c]
    OBVIOUS
  <2>3. q.op = "put" /\ q.place = "write" /\ q.up = u /\ q.file = NoFile
    BY <2>2 DEF Ask
  <2>4. QED
    BY <2>1, <2>2, <2>3, Came
<1>3. CASE PostRequest(h)
  <2>1. PICK c \in Layers, d \in Layers, r \in Repos :
          Begin(h, [Ask("post", "write", r, d) EXCEPT !.up = h, !.body = c])
    BY <1>3 DEF PostRequest
  <2>2. PICK q : q = [Ask("post", "write", r, d) EXCEPT !.up = h, !.body = c]
    OBVIOUS
  <2>3. q.op = "post" /\ q.place = "write" /\ q.up = h /\ q.file = NoFile
    BY <2>2 DEF Ask
  <2>4. QED
    BY <2>1, <2>2, <2>3, Came
<1>4. CASE MountRequest(h)
  <2>1. PICK d \in Layers, r \in Repos, from \in Repos \cup {None} :
          Begin(h, [Ask("mount", "find", r, d) EXCEPT !.from = from])
    BY <1>4 DEF MountRequest
  <2>2. PICK q : q = [Ask("mount", "find", r, d) EXCEPT !.from = from]
    OBVIOUS
  <2>3. q.op = "mount" /\ q.place = "find" /\ q.up = None /\ q.file = NoFile
    BY <2>2 DEF Ask
  <2>4. QED
    BY <2>1, <2>2, <2>3, Came
<1>5. CASE DeleteRequest(h)
  <2>1. PICK d \in Digests, r \in Repos : Begin(h, Ask("delete", "find", r, d))
    BY <1>5 DEF DeleteRequest
  <2>2. PICK q : q = Ask("delete", "find", r, d)
    OBVIOUS
  <2>3. q.op = "delete" /\ q.place = "find" /\ q.up = None /\ q.file = NoFile
    BY <2>2 DEF Ask
  <2>4. QED
    BY <2>1, <2>2, <2>3, Came
<1>6. CASE PutManifestRequest(h)
  <2>1. PICK m \in Manifests, r \in Repos, t \in mix.tags \cup {NoTag} :
          Begin(h, [Ask("manifest", "layers", r, m) EXCEPT !.tag = t, !.left = Needs[m]])
    BY <1>6 DEF PutManifestRequest
  <2>2. PICK q : q = [Ask("manifest", "layers", r, m) EXCEPT !.tag = t, !.left = Needs[m]]
    OBVIOUS
  <2>3. q.op = "manifest" /\ q.place = "layers" /\ q.up = None /\ q.file = NoFile
    BY <2>2 DEF Ask
  <2>4. QED
    BY <2>1, <2>2, <2>3, Came
<1>7. CASE DeleteTagRequest(h)
  <2>1. PICK r \in Repos, t \in mix.tags :
          Begin(h, [Ask("untag", "find", r, <<>>) EXCEPT !.tag = t])
    BY <1>7 DEF DeleteTagRequest
  <2>2. PICK q : q = [Ask("untag", "find", r, <<>>) EXCEPT !.tag = t]
    OBVIOUS
  <2>3. q.op = "untag" /\ q.place = "find" /\ q.up = None /\ q.file = NoFile
    BY <2>2 DEF Ask
  <2>4. QED
    BY <2>1, <2>2, <2>3, Came
<1>8. QED
  BY <1>1, <1>2, <1>3, <1>4, <1>5, <1>6, <1>7

-----------------------------------------------------------------------------
(* Requests that go on *)

LEMMA ContentLooks ==
  ASSUME IInv, CInv, NEW h \in Handlers, Still,
         \/ PatchSize(h) \/ MountFind(h) \/ AddBlob(h) \/ DeleteFind(h) \/ DeleteUnlink(h)
         \/ SaveBlob(h) \/ AddManifest(h) \/ SaveTag(h) \/ DeleteTagFind(h)
         \/ DeleteTagRemove(h) \/ PutReferences(h)
  PROVE  CInv'
<1>1. Untouched
  BY DEF PatchSize, MountFind, AddBlob, DeleteFind, DeleteUnlink, SaveBlob, AddManifest,
         SaveTag, DeleteTagFind, DeleteTagRemove, PutReferences, blobVars, Still, Untouched
<1>2. /\ req[h].place \in {"size", "find", "link", "unlink", "save blob", "associate", "tag",
                           "put refs", "remove tag"}
      /\ req[h].place \in Places /\ req[h].place # "fill blob"
  BY DEF PatchSize, MountFind, AddBlob, DeleteFind, DeleteUnlink, SaveBlob, AddManifest,
         SaveTag, DeleteTagFind, DeleteTagRemove, PutReferences, At, Places
<1>3. \/ Finish(h)
      \/ \E p \in {"write", "link", "unlink", "associate", "write blob", "tag", "refer",
                   "remove tag"} : GoTo(h, p)
  BY DEF PatchSize, MountFind, AddBlob, DeleteFind, DeleteUnlink, SaveBlob, AddManifest,
         SaveTag, DeleteTagFind, DeleteTagRemove, PutReferences, Created
<1>4. CASE Finish(h)
  BY <1>1, <1>2, <1>4, Ended
<1>5. ASSUME NEW p \in {"write", "link", "unlink", "associate", "write blob", "tag", "refer",
                        "remove tag"}, GoTo(h, p)
      PROVE  CInv'
  <2>1. p \in Places /\ p \notin {"save", "place", "rename", "put refs"}
    BY DEF Places
  <2>2. QED
    BY <1>1, <1>2, <1>5, <2>1, Went
<1>6. QED
  BY <1>3, <1>4, <1>5

LEMMA ContentVerify ==
  ASSUME IInv, CInv, NEW h \in Handlers, Still, CommitVerify(h)
  PROVE  CInv'
<1>1. Untouched
  BY DEF CommitVerify, blobVars, Still, Untouched
<1>2. req[h].place = "verify" /\ "verify" \in Places /\ "place" \in Places
  BY DEF CommitVerify, At, Places
<1>3. CASE Finish(h)
  BY <1>1, <1>2, <1>3, Ended
<1>4. CASE upload[req[h].up] = req[h].dig /\ GoTo(h, "place")
  BY <1>1, <1>2, <1>4, Went
<1>5. QED
  BY <1>3, <1>4 DEF CommitVerify

LEMMA ContentGet ==
  ASSUME IInv, CInv, NEW h \in Handlers, Still, CommitGet(h)
  PROVE  CInv'
<1>1. Untouched
  BY DEF CommitGet, blobVars, Still, Untouched
<1>2. req[h].place = "get" /\ "get" \in Places
  BY DEF CommitGet, At, Places
<1>3. req[h] \in Request /\ Good(req[h]) /\ Fine(h, req[h])
  BY <1>2, Somewhere DEF CInv
<1>4. CASE Finish(h)
  BY <1>1, <1>2, <1>4, Ended
<1>5. CASE Becomes(h, [req[h] EXCEPT !.place = "put", !.body = upload[req[h].up]])
  <2>1. PICK q : q = [req[h] EXCEPT !.place = "put", !.body = upload[req[h].up]]
    OBVIOUS
  <2>2. /\ q.op = req[h].op /\ q.place = "put" /\ q.up = req[h].up /\ q.file = req[h].file
    BY <1>3, <2>1 DEF Request
  <2>3. q.op # "patch"
    BY <1>2, <1>3, <2>2 DEF Good, Proper, Committing
  <2>4. Fine(h, q)
    BY <1>3, <2>2, <2>3 DEF Fine
  <2>5. QED
    BY <1>1, <1>2, <1>5, <2>1, <2>2, <2>4, Unwritten
<1>6. QED
  BY <1>4, <1>5 DEF CommitGet

LEMMA ContentLayers ==
  ASSUME IInv, CInv, NEW h \in Handlers, Still, CheckLayers(h)
  PROVE  CInv'
<1>1. Untouched
  BY DEF CheckLayers, blobVars, Still, Untouched
<1>2. /\ req[h].place = "layers" /\ "layers" \in Places /\ "save blob" \in Places
  BY DEF CheckLayers, At, Places
<1>3. req[h] \in Request /\ Fine(h, req[h])
  BY <1>2, Somewhere DEF CInv
<1>4. CASE Finish(h)
  BY <1>1, <1>2, <1>4, Ended
<1>5. CASE GoTo(h, "save blob")
  BY <1>1, <1>2, <1>5, Went
<1>6. ASSUME NEW d \in req[h].left, Becomes(h, [req[h] EXCEPT !.left = @ \ {d}])
      PROVE  CInv'
  <2>1. PICK q : q = [req[h] EXCEPT !.left = @ \ {d}]
    OBVIOUS
  <2>2. /\ q.op = req[h].op /\ q.place = req[h].place /\ q.up = req[h].up
        /\ q.file = req[h].file /\ q.body = req[h].body /\ q.dig = req[h].dig
    BY <1>3, <2>1 DEF Request
  <2>3. Fine(h, q)
    BY <1>3, <2>2 DEF Fine
  <2>4. QED
    BY <1>1, <1>2, <1>6, <2>1, <2>2, <2>3, Unwritten
<1>7. QED
  BY <1>4, <1>5, <1>6 DEF CheckLayers

LEMMA ContentReference ==
  ASSUME IInv, CInv, NEW h \in Handlers, Still, AddReference(h)
  PROVE  CInv'
<1>1. Untouched
  BY DEF AddReference, blobVars, Still, Untouched
<1>2. req[h].place = "refer" /\ "refer" \in Places
  BY DEF AddReference, At, Places
<1>3. req[h] \in Request /\ Fine(h, req[h])
  BY <1>2, Somewhere DEF CInv
<1>4. CASE Finish(h)
  BY <1>1, <1>2, <1>4, Ended
<1>5. CASE /\ store = "dynamodb"
           /\ Becomes(h, [req[h] EXCEPT !.place = "put refs",
                                        !.seen = refs[<<req[h].repo, Subject[req[h].dig]>>]])
  <2>1. PICK q : q = [req[h] EXCEPT !.place = "put refs",
                                    !.seen = refs[<<req[h].repo, Subject[req[h].dig]>>]]
    OBVIOUS
  <2>2. /\ q.op = req[h].op /\ q.place = "put refs" /\ q.up = req[h].up
        /\ q.file = req[h].file /\ q.body = req[h].body
    BY <1>3, <2>1 DEF Request
  <2>3. Fine(h, q)
    BY <1>3, <1>5, <2>2 DEF Fine
  <2>4. QED
    BY <1>1, <1>2, <1>5, <2>1, <2>2, <2>3, Unwritten
<1>6. QED
  BY <1>4, <1>5 DEF AddReference, Created

LEMMA ContentFetch ==
  ASSUME IInv, CInv, NEW h \in Handlers, Still, WriteFetch(h)
  PROVE  CInv'
<1>1. Untouched
  BY DEF WriteFetch, blobVars, Still, Untouched
<1>2. req[h].place = "write" /\ "write" \in Places /\ backend = "s3"
  BY DEF WriteFetch, At, Places
<1>3. req[h] \in Request /\ Fine(h, req[h]) /\ req[h].up \in UploadIds \cup Handlers
  BY <1>2, Somewhere, HasUpload DEF CInv
<1>4. PICK old \in {Content(upload[req[h].up])} \cup (IF Fails("storage") THEN {<<>>} ELSE {}) :
        Becomes(h, [req[h] EXCEPT !.place = "save", !.body = old \o @])
  BY DEF WriteFetch
<1>5. PICK b : b = old \o req[h].body
  OBVIOUS
<1>6. PICK q : q = [req[h] EXCEPT !.place = "save", !.body = b]
  OBVIOUS
<1>7. Becomes(h, q)
  BY <1>3, <1>4, <1>5, <1>6 DEF Request
<1>8. /\ q.op = req[h].op /\ q.place = "save" /\ q.up = req[h].up /\ q.file = req[h].file
      /\ q.body = b
  BY <1>3, <1>6 DEF Request
<1>9. upload[req[h].up] \in Contents \cup {Absent} /\ <<>> \in Contents /\ Len(<<>>) = 0
  BY <1>3, EmptySeq DEF IInv, TablesOK, Contents
<1>10. old \in Contents /\ req[h].body \in Contents
  BY <1>3, <1>4, <1>9 DEF Content, Request
<1>11. Len(b) = Len(old) + Len(req[h].body) /\ Len(old) \in Nat /\ Len(req[h].body) \in Nat
  BY <1>5, <1>10, ConcatProperties, LenProperties DEF Contents
<1>12. q.op = "patch" => Len(req[h].body) > 0
  BY <1>3, <1>8 DEF Fine
<1>13. ASSUME q.up \in UploadIds \ raced, ~Fails("storage")
       PROVE  Len(old) >= acked[q.up]
  <2>1. old = Content(upload[q.up])
    BY <1>4, <1>8, <1>13
  <2>2. \/ upload[q.up] = Absent /\ acked[q.up] = 0
        \/ upload[q.up] # Absent /\ Len(upload[q.up]) >= acked[q.up]
    BY <1>13 DEF CInv, AckedOK
  <2>3. QED
    BY <1>9, <2>1, <2>2 DEF Content
<1>14. ASSUME q.up \in UploadIds \ raced, ~Fails("storage")
       PROVE  Len(b) >= acked[q.up] + (IF q.op = "patch" THEN 1 ELSE 0)
  <2>1. acked[q.up] \in Nat
    BY <1>14 DEF IInv, TablesOK
  <2>2. CASE q.op = "patch"
    BY <1>11, <1>12, <1>13, <1>14, <2>1, <2>2
  <2>3. CASE q.op # "patch"
    BY <1>11, <1>13, <1>14, <2>1, <2>3
  <2>4. QED
    BY <2>2, <2>3
<1>15. q.op = "patch" => Len(b) > 0
  BY <1>11, <1>12
<1>16. Fine(h, q)
  BY <1>3, <1>8, <1>14, <1>15 DEF Fine
<1>17. QED
  BY <1>1, <1>2, <1>7, <1>8, <1>16, Unwritten

-----------------------------------------------------------------------------
(* Uploads are written *)

\* The answered chunks of one upload.
AckedIn(u) ==
  \/ backend = "s3" /\ (u \in raced \/ Fails("storage"))
  \/ upload[u] = Absent /\ acked[u] = 0
  \/ upload[u] # Absent /\ Len(upload[u]) >= acked[u]

LEMMA AckedApart ==
  ASSUME CInv, NEW h \in Handlers, Apart(h), NEW w, w = req[h].up,
         w \in UploadIds => AckedIn(w)'
  PROVE  AckedOK'
<1> SUFFICES ASSUME NEW u \in UploadIds PROVE AckedIn(u)'
  BY DEF AckedOK, AckedIn
<1>1. CASE u = req[h].up
  BY <1>1
<1>2. CASE u # req[h].up
  <2>1. AckedIn(u)
    BY DEF CInv, AckedOK, AckedIn
  <2>2. QED
    BY <1>2, <2>1 DEF Apart, AckedIn, Fails
<1>3. QED
  BY <1>1, <1>2

\* The request whose body was written.
LEMMA FineWritten ==
  ASSUME IInv, CInv, NEW h \in Handlers, req[h].place \in {"copy", "save"},
         Written(h, req[h].up)
  PROVE  \E q : Becomes(h, q) /\ Fine(h, q)' /\ q.up \in {req[h].up, None}
<1>1. req[h] \in Request /\ Fine(h, req[h])
  BY Somewhere DEF CInv, Places
<1>2. CASE req[h].op = "patch"
  <2>1. Becomes(h, Idle) /\ Idle.up = None
    BY <1>2 DEF Written, Finish, Idle, Ask
  <2>2. QED
    BY <2>1, FineIdle
<1>3. CASE req[h].op # "patch"
  <2>1. PICK q : q = [req[h] EXCEPT !.place = "verify", !.file = NoFile]
    OBVIOUS
  <2>2. /\ q.op = req[h].op /\ q.place = "verify" /\ q.up = req[h].up /\ q.file = NoFile
    BY <1>1, <2>1 DEF Request
  <2>3. Fine(h, q)'
    BY <1>1, <1>3, <2>2, Distinct DEF Fine
  <2>4. QED
    BY <1>3, <2>1, <2>2, <2>3 DEF Written
<1>4. QED
  BY <1>2, <1>3

LEMMA ContentOpen ==
  ASSUME IInv, CInv, NEW h \in Handlers, Still, WriteOpen(h)
  PROVE  CInv'
<1>1. /\ UNCHANGED <<backend, store, mix, boots, blob, acked, raced>> /\ backend = "filesystem"
  BY DEF WriteOpen, Still
<1>2. req[h].place = "write" /\ "write" \in Places
  BY DEF WriteOpen, At, Places
<1>3. /\ req[h] \in Request /\ Fine(h, req[h]) /\ req[h].up \in UploadIds \cup Handlers
  BY <1>2, Somewhere, HasUpload DEF CInv
<1>4. CASE Finish(h) /\ UNCHANGED upload
  <2>1. Untouched
    BY <1>1, <1>4 DEF Untouched
  <2>2. QED
    BY <1>2, <1>4, <2>1, Ended
<1>5. CASE /\ upload' = [upload EXCEPT ![req[h].up] = Content(@)]
           /\ Becomes(h, [req[h] EXCEPT !.place = "copy", !.file = InUpload(req[h].up)])
  <2>1. PICK u : u = req[h].up
    OBVIOUS
  <2>2. PICK q : q = [req[h] EXCEPT !.place = "copy", !.file = InUpload(u)]
    OBVIOUS
  <2>3. /\ q.op = req[h].op /\ q.place = "copy" /\ q.up = u /\ q.file = InUpload(u)
        /\ q.body = req[h].body
    BY <1>3, <2>1, <2>2 DEF Request
  <2>4. upload[u] \in Contents \cup {Absent} /\ <<>> \in Contents /\ Len(<<>>) = 0
    BY <1>3, <2>1, EmptySeq DEF IInv, TablesOK, Contents
  <2>5. /\ upload'[u] = Content(upload[u]) /\ upload'[u] \in Contents
        /\ \A v \in UploadIds \cup Handlers : v = u \/ upload'[v] = upload[v]
    BY <1>3, <1>5, <2>1, <2>4 DEF IInv, TablesOK, Content
  <2>6. Apart(h)
    BY <1>1, <2>1, <2>5 DEF Apart
  <2>7. Fine(h, q)'
    <3>1. /\ u \in Handlers => u = h
          /\ q.op = "patch" => Len(q.body) > 0
      BY <1>3, <2>1, <2>3 DEF Fine
    <3>2. /\ \A v \in UploadIds \cup Handlers : q.file = InUpload(v) => q.up = v
          /\ \A d \in Digests : q.file # InBlob(d)
      BY <1>3, <2>1, <2>3, Distinct
    <3>3. QED
      BY <2>3, <3>1, <3>2 DEF Fine
  <2>8. u \in UploadIds => AckedIn(u)'
    <3> SUFFICES ASSUME u \in UploadIds PROVE AckedIn(u)'
      OBVIOUS
    <3>1. \/ upload[u] = Absent /\ acked[u] = 0
          \/ upload[u] # Absent /\ Len(upload[u]) >= acked[u]
      BY <1>1 DEF CInv, AckedOK
    <3>2. upload'[u] # Absent
      BY <2>5, Distinct
    <3>3. Len(upload'[u]) >= acked[u]
      BY <2>4, <2>5, <3>1 DEF Content
    <3>4. QED
      BY <1>1, <3>2, <3>3 DEF AckedIn
  <2>9. AckedOK'
    BY <2>1, <2>6, <2>8, AckedApart
  <2>10. LayersOK'
    BY <1>1, LayersStay
  <2>11. \A g \in Handlers \ {h} : req'[g] = req[g]
    BY <1>5 DEF Becomes, IInv
  <2>12. ManifestsOK'
    BY <1>1, <1>2, <2>11, ManifestsStay
  <2>13. QED
    BY <1>5, <2>1, <2>2, <2>3, <2>6, <2>7, <2>9, <2>10, <2>12, Served
<1>6. QED
  BY <1>4, <1>5 DEF WriteOpen

LEMMA ContentCopy ==
  ASSUME IInv, CInv, NEW h \in Handlers, Still, WriteCopy(h)
  PROVE  CInv'
<1>1. /\ UNCHANGED <<backend, store, mix, boots, raced>> /\ req[h].place = "copy"
  BY DEF WriteCopy, Still, At
<1>2. req[h] \in Request /\ Fine(h, req[h]) /\ Good(req[h])
  BY <1>1, Somewhere DEF CInv, Places
<1>3. backend = "filesystem" /\ req[h].up \in UploadIds \cup Handlers
  BY <1>1, <1>2, HasUpload DEF Good, Sure
<1>4. PICK f, u : f = req[h].file /\ u = req[h].up
  OBVIOUS
<1>5. PICK c \in Contents :
        /\ AppendTo(f, c)
        /\ (c = req[h].body /\ Written(h, u)) \/ (Finish(h) /\ UNCHANGED acked)
  <2>1. req[h].body \in Contents
    BY <1>2 DEF Request
  <2>2. \A n \in 0..Len(req[h].body) : SubSeq(req[h].body, 1, n) \in Contents
    <3> SUFFICES ASSUME NEW n \in 0..Len(req[h].body)
                 PROVE  SubSeq(req[h].body, 1, n) \in Contents
      OBVIOUS
    <3>1. \A i \in 1..n : i \in 1..Len(req[h].body)
      BY <2>1, LenProperties DEF Contents
    <3>2. QED
      BY <2>1, <3>1, LenProperties, SubSeqProperties DEF Contents
  <2>3. QED
    BY <1>4, <2>1, <2>2 DEF WriteCopy
<1>6. /\ upload \in [UploadIds \cup Handlers -> Contents \cup {Absent}]
      /\ blob \in [Digests -> Contents \cup {Absent}] /\ acked \in [UploadIds -> Nat]
  BY DEF IInv, TablesOK
<1>7. /\ upload' = [v \in UploadIds \cup Handlers |->
                      IF f = InUpload(v) THEN upload[v] \o c ELSE upload[v]]
      /\ blob' = [d \in Digests |-> IF f = InBlob(d) THEN blob[d] \o c ELSE blob[d]]
  BY <1>5, <1>6 DEF AppendTo
<1>8. /\ \A v \in UploadIds \cup Handlers : v = u \/ upload'[v] = upload[v]
      /\ f # InUpload(u) => upload'[u] = upload[u]
  BY <1>2, <1>3, <1>4, <1>7 DEF Fine
<1>9. /\ acked' = acked
      \/ /\ req[h].op = "patch" /\ c = req[h].body /\ f = InUpload(u)
         /\ acked' = [acked EXCEPT ![u] = @ + 1]
  BY <1>3, <1>4, <1>5 DEF Written
<1>10. Apart(h)
  BY <1>1, <1>4, <1>6, <1>8, <1>9 DEF Apart
<1>11. ASSUME u \in UploadIds PROVE AckedIn(u)'
  <2>1. \/ upload[u] = Absent /\ acked[u] = 0
        \/ upload[u] # Absent /\ Len(upload[u]) >= acked[u]
    BY <1>3, <1>11 DEF CInv, AckedOK
  <2>2. CASE f = InUpload(u)
    <3>1. upload[u] \in Contents /\ upload[u] # Absent
      BY <1>2, <1>3, <1>4, <1>6, <2>2 DEF Good, Open
    <3>2. upload'[u] = upload[u] \o c
      BY <1>3, <1>4, <1>7, <2>2
    <3>3. /\ upload'[u] \in Contents /\ Len(upload'[u]) = Len(upload[u]) + Len(c)
          /\ Len(upload[u]) \in Nat /\ Len(c) \in Nat
      BY <1>5, <3>1, <3>2, ConcatProperties, LenProperties DEF Contents
    <3>4. upload'[u] # Absent
      BY <3>3, Distinct
    <3>5. acked'[u] = acked[u] \/ (acked'[u] = acked[u] + 1 /\ Len(c) > 0)
      BY <1>2, <1>6, <1>9, <1>11 DEF Fine
    <3>6. Len(upload'[u]) >= acked'[u]
      BY <1>6, <1>11, <2>1, <3>1, <3>3, <3>5
    <3>7. QED
      BY <3>4, <3>6 DEF AckedIn
  <2>3. CASE f # InUpload(u)
    BY <1>8, <1>9, <2>1, <2>3 DEF AckedIn
  <2>4. QED
    BY <2>2, <2>3
<1>12. AckedOK'
  BY <1>4, <1>10, <1>11, AckedApart
<1>13. \A d \in Digests : f = InBlob(d) => d \in Layers /\ u \in raced
  BY <1>2, <1>4 DEF Fine
<1>14. LayersOK'
  <2>1. CASE raced # {}
    BY <1>1, <1>3, <2>1 DEF LayersOK
  <2>2. CASE raced = {}
    <3>1. \A d \in Layers : blob'[d] = blob[d]
      BY <1>7, <1>13, <2>2 DEF Digests
    <3>2. QED
      BY <1>1, <3>1, LayersStay
  <2>3. QED
    BY <2>1, <2>2
<1>15. \A m \in Manifests : blob'[m] = blob[m]
  BY <1>7, <1>13 DEF Digests
<1>16. \E q : Becomes(h, q) /\ Fine(h, q)' /\ q.up \in {req[h].up, None}
  <2>1. CASE Written(h, u)
    BY <1>1, <1>4, <2>1, FineWritten
  <2>2. CASE Finish(h)
    <3>1. Becomes(h, Idle) /\ Idle.up = None
      BY <2>2 DEF Finish, Idle, Ask
    <3>2. QED
      BY <3>1, FineIdle
  <2>3. QED
    BY <1>5, <2>1, <2>2
<1>17. ManifestsOK'
  <2>1. \A g \in Handlers \ {h} : req'[g] = req[g]
    BY <1>16 DEF Becomes, IInv
  <2>2. QED
    BY <1>1, <1>15, <2>1, ManifestsStay
<1>18. QED
  BY <1>10, <1>12, <1>14, <1>16, <1>17, Served

LEMMA ContentSave ==
  ASSUME IInv, CInv, NEW h \in Handlers, Still, WriteSave(h)
  PROVE  CInv'
<1>1. /\ UNCHANGED <<backend, store, mix, boots, raced, blob>> /\ req[h].place = "save"
  BY DEF WriteSave, Still, At
<1>2. req[h] \in Request /\ Fine(h, req[h]) /\ Good(req[h])
  BY <1>1, Somewhere DEF CInv, Places
<1>3. backend = "s3" /\ req[h].up \in UploadIds \cup Handlers
  BY <1>1, <1>2, HasUpload DEF Good, Sure
<1>4. PICK u, c : u = req[h].up /\ c = req[h].body
  OBVIOUS
<1>5. /\ upload \in [UploadIds \cup Handlers -> Contents \cup {Absent}]
      /\ acked \in [UploadIds -> Nat] /\ c \in Contents
  BY <1>2, <1>4 DEF IInv, TablesOK, Request
<1>6. \/ upload' = [upload EXCEPT ![u] = c] /\ Written(h, u)
      \/ /\ upload' = upload \/ upload' = [upload EXCEPT ![u] = c]
         /\ Finish(h) /\ UNCHANGED acked
  BY <1>4 DEF WriteSave
<1>7. /\ \A v \in UploadIds \cup Handlers : v = u \/ upload'[v] = upload[v]
      /\ upload'[u] = upload[u] \/ upload'[u] = c
  BY <1>3, <1>4, <1>5, <1>6
<1>8. \/ acked' = acked
      \/ /\ req[h].op = "patch" /\ acked' = [acked EXCEPT ![u] = @ + 1]
         /\ upload'[u] = c
  BY <1>3, <1>4, <1>5, <1>6 DEF Written
<1>9. Apart(h)
  BY <1>1, <1>4, <1>5, <1>7, <1>8 DEF Apart
<1>10. ASSUME u \in UploadIds PROVE AckedIn(u)'
  <2>1. CASE u \in raced \/ Fails("storage")
    BY <1>1, <1>3, <2>1 DEF AckedIn, Fails
  <2>2. CASE u \notin raced /\ ~Fails("storage")
    <3>1. Len(c) >= acked[u] + (IF req[h].op = "patch" THEN 1 ELSE 0)
      BY <1>1, <1>2, <1>4, <1>10, <2>2 DEF Fine
    <3>2. acked[u] \in Nat /\ Len(c) \in Nat /\ c # Absent
      BY <1>5, <1>10, LenProperties, Distinct DEF Contents
    <3>3. CASE upload'[u] = c
      <4>1. acked'[u] = acked[u] \/ (req[h].op = "patch" /\ acked'[u] = acked[u] + 1)
        BY <1>5, <1>8, <1>10
      <4>2. Len(c) >= acked'[u]
        BY <3>1, <3>2, <4>1
      <4>3. QED
        BY <3>2, <3>3, <4>2 DEF AckedIn
    <3>4. CASE upload'[u] = upload[u] /\ upload'[u] # c
      <4>1. acked' = acked
        BY <1>8, <3>4
      <4>2. \/ upload[u] = Absent /\ acked[u] = 0
            \/ upload[u] # Absent /\ Len(upload[u]) >= acked[u]
        BY <1>10, <2>2 DEF CInv, AckedOK
      <4>3. QED
        BY <3>4, <4>1, <4>2 DEF AckedIn
    <3>5. QED
      BY <1>7, <3>3, <3>4
  <2>3. QED
    BY <2>1, <2>2
<1>11. AckedOK'
  BY <1>4, <1>9, <1>10, AckedApart
<1>12. LayersOK'
  BY <1>1, LayersStay
<1>13. \E q : Becomes(h, q) /\ Fine(h, q)' /\ q.up \in {req[h].up, None}
  <2>1. CASE Written(h, u)
    BY <1>1, <1>4, <2>1, FineWritten
  <2>2. CASE Finish(h)
    <3>1. Becomes(h, Idle) /\ Idle.up = None
      BY <2>2 DEF Finish, Idle, Ask
    <3>2. QED
      BY <3>1, FineIdle
  <2>3. QED
    BY <1>6, <2>1, <2>2
<1>14. ManifestsOK'
  <2>1. \A g \in Handlers \ {h} : req'[g] = req[g]
    BY <1>13 DEF Becomes, IInv
  <2>2. QED
    BY <1>1, <2>1, ManifestsStay
<1>15. QED
  BY <1>9, <1>11, <1>12, <1>13, <1>14, Served

-----------------------------------------------------------------------------
(* Uploads are committed *)

\* An upload's name is gone, and with it the chunks that were answered.
LEMMA ForgottenApart ==
  ASSUME IInv, CInv, NEW h \in Handlers, UNCHANGED <<backend, store, mix, raced>>,
         req[h].up \in UploadIds \cup Handlers,
         Forget(req[h].up) \/ UNCHANGED <<upload, acked>>
  PROVE  Apart(h) /\ AckedOK'
<1>1. /\ upload \in [UploadIds \cup Handlers -> Contents \cup {Absent}]
      /\ acked \in [UploadIds -> Nat]
  BY DEF IInv, TablesOK
<1>2. CASE UNCHANGED <<upload, acked>>
  BY <1>2, AckedStay DEF Apart
<1>3. CASE Forget(req[h].up)
  <2>1. PICK u : u = req[h].up
    OBVIOUS
  <2>2. /\ upload' = [upload EXCEPT ![u] = Absent]
        /\ acked' = [v \in UploadIds |-> IF v = u THEN 0 ELSE acked[v]]
    BY <1>3, <2>1 DEF Forget
  <2>3. Apart(h)
    BY <1>1, <2>1, <2>2 DEF Apart
  <2>4. u \in UploadIds => AckedIn(u)'
    BY <1>1, <2>2 DEF AckedIn
  <2>5. QED
    BY <2>1, <2>3, <2>4, AckedApart
<1>4. QED
  BY <1>2, <1>3

\* S3 deletes the upload and goes on.
LEMMA ContentForget ==
  ASSUME IInv, CInv, NEW h \in Handlers, req[h].place \in Committing, NEW p \in Places,
         p \notin {"save", "place", "rename", "put refs"}, GoTo(h, p),
         UNCHANGED <<backend, store, mix, boots, raced, blob>>,
         Forget(req[h].up) \/ UNCHANGED <<upload, acked>>
  PROVE  CInv'
<1>1. req[h] \in Request /\ Fine(h, req[h]) /\ req[h].up \in UploadIds \cup Handlers
  BY HasUpload DEF CInv
<1>2. Apart(h) /\ AckedOK'
  BY <1>1, ForgottenApart
<1>3. PICK q : q = [req[h] EXCEPT !.place = p]
  OBVIOUS
<1>4. /\ q.op = req[h].op /\ q.place = p /\ q.up = req[h].up /\ q.file = req[h].file
      /\ q.body = req[h].body
  BY <1>1, <1>3 DEF Request
<1>5. Fine(h, q)'
  BY <1>1, <1>4 DEF Fine
<1>6. LayersOK'
  BY LayersStay
<1>7. \A g \in Handlers \ {h} : req'[g] = req[g]
  BY DEF GoTo, Becomes, IInv
<1>8. ManifestsOK'
  BY <1>7, ManifestsStay DEF Committing
<1>9. QED
  BY <1>2, <1>3, <1>4, <1>5, <1>6, <1>8, Served DEF GoTo

LEMMA ContentHead ==
  ASSUME IInv, CInv, NEW h \in Handlers, Still, CommitHead(h)
  PROVE  CInv'
<1>1. /\ UNCHANGED <<backend, store, mix, boots, raced, blob>> /\ req[h].place \in Committing
  BY DEF CommitHead, Still, At, Committing
<1>2. \E p \in {"link", "get"} : GoTo(h, p)
  BY DEF CommitHead
<1>3. Forget(req[h].up) \/ UNCHANGED <<upload, acked>>
  BY DEF CommitHead
<1>4. {"link", "get"} \subseteq Places
  BY DEF Places
<1>5. QED
  BY <1>1, <1>2, <1>3, <1>4, ContentForget

LEMMA ContentClean ==
  ASSUME IInv, CInv, NEW h \in Handlers, Still, CommitClean(h)
  PROVE  CInv'
<1>1. /\ UNCHANGED <<backend, store, mix, boots, raced, blob>> /\ req[h].place \in Committing
      /\ GoTo(h, "link") /\ "link" \in Places
  BY DEF CommitClean, Still, At, Committing, Places
<1>2. Forget(req[h].up) \/ UNCHANGED <<upload, acked>>
  BY DEF CommitClean
<1>3. QED
  BY <1>1, <1>2, ContentForget

\* S3 writes what it has compared with the digest.
LEMMA ContentPut ==
  ASSUME IInv, CInv, NEW h \in Handlers, Still, CommitPut(h)
  PROVE  CInv'
<1>1. /\ UNCHANGED <<backend, store, mix, boots, raced, upload, acked>> /\ req[h].place = "put"
  BY DEF CommitPut, Still, At
<1>2. /\ req[h] \in Request /\ Fine(h, req[h]) /\ Good(req[h])
      /\ "put" \in Places /\ "clean" \in Places
  BY <1>1, Somewhere DEF CInv, Places
<1>3. PICK d : d = req[h].dig
  OBVIOUS
<1>4. d \in Layers /\ req[h].body = d
  BY <1>1, <1>2, <1>3 DEF Good, Proper, About, Sure, Committing
<1>5. blob' = blob \/ blob' = [blob EXCEPT ![d] = d]
  BY <1>3, <1>4 DEF CommitPut
<1>6. \A e \in Digests : blob'[e] = blob[e] \/ (e = d /\ blob'[e] = d)
  BY <1>5 DEF IInv, TablesOK
<1>7. LayersOK'
  BY <1>1, <1>6 DEF CInv, LayersOK, Digests
<1>8. \A m \in Manifests : blob'[m] = blob[m]
  BY <1>4, <1>6 DEF Digests
<1>9. Apart(h) /\ AckedOK'
  BY <1>1, AckedStay DEF Apart
<1>10. \E q : Becomes(h, q) /\ Fine(h, q)' /\ q.up \in {req[h].up, None}
  <2>1. CASE Finish(h)
    <3>1. Becomes(h, Idle) /\ Idle.up = None
      BY <2>1 DEF Finish, Idle, Ask
    <3>2. QED
      BY <3>1, FineIdle
  <2>2. CASE GoTo(h, "clean")
    <3>1. PICK q : q = [req[h] EXCEPT !.place = "clean"]
      OBVIOUS
    <3>2. /\ q.op = req[h].op /\ q.place = "clean" /\ q.up = req[h].up /\ q.file = req[h].file
          /\ q.body = req[h].body
      BY <1>2, <3>1 DEF Request
    <3>3. Fine(h, q)'
      BY <1>1, <1>2, <3>2 DEF Fine
    <3>4. QED
      BY <2>2, <3>1, <3>2, <3>3 DEF GoTo
  <2>3. QED
    BY <2>1, <2>2 DEF CommitPut
<1>11. ManifestsOK'
  <2>1. \A g \in Handlers \ {h} : req'[g] = req[g]
    BY <1>10 DEF Becomes, IInv
  <2>2. QED
    BY <1>1, <1>8, <2>1, ManifestsStay
<1>12. QED
  BY <1>7, <1>9, <1>10, <1>11, Served

\* A commit changes the descriptors of other requests.
LEMMA Shared ==
  ASSUME IInv, CInv, NEW h \in Handlers, Apart(h), NEW q, req'[h] = q, Fine(h, q)',
         q.up = req[h].up,
         \A g \in Handlers \ {h} :
           \E r : /\ req'[g] = r
                  /\ r.up = req[g].up /\ r.op = req[g].op /\ r.place = req[g].place
                  /\ r.dig = req[g].dig /\ r.body = req[g].body
                  /\ \A u \in UploadIds \cup Handlers : r.file = InUpload(u) => r.up = u
                  /\ \A d \in Digests : r.file = InBlob(d) => d \in Layers /\ r.up \in raced'
  PROVE  Alone' /\ \A g \in Handlers : Fine(g, req[g])'
<1>1. raced \subseteq raced'
  BY DEF Apart
<1>2. \A g \in Handlers : req'[g].up = req[g].up
  OBVIOUS
<1>3. Alone'
  BY <1>1, <1>2 DEF CInv, Alone
<1>4. ASSUME NEW g \in Handlers PROVE Fine(g, req[g])'
  <2>1. CASE g = h
    BY <2>1 DEF Fine, Fails
  <2>2. CASE g # h
    <3>1. PICK r : /\ req'[g] = r
                   /\ r.up = req[g].up /\ r.op = req[g].op /\ r.place = req[g].place
                   /\ r.dig = req[g].dig /\ r.body = req[g].body
                   /\ \A u \in UploadIds \cup Handlers : r.file = InUpload(u) => r.up = u
                   /\ \A d \in Digests :
                        r.file = InBlob(d) => d \in Layers /\ r.up \in raced'
      BY <2>2
    <3>2. Fine(g, r)'
      BY <2>2, <3>1, FineOthers
    <3>3. QED
      BY <3>1, <3>2 DEF Fine, Fails
  <2>3. QED
    BY <2>1, <2>2
<1>5. QED
  BY <1>3, <1>4

LEMMA Refiled ==
  ASSUME IInv, NEW g \in Handlers, NEW f, NEW r, r = [req[g] EXCEPT !.file = f]
  PROVE  /\ r.up = req[g].up /\ r.op = req[g].op /\ r.place = req[g].place
         /\ r.dig = req[g].dig /\ r.body = req[g].body /\ r.file = f
<1>1. CASE req[g] \in Request
  BY <1>1 DEF Request
<1>2. CASE req[g] = Idle
  BY <1>2 DEF Idle, Ask
<1>3. QED
  BY <1>1, <1>2 DEF IInv

LEMMA ContentPlace ==
  ASSUME IInv, CInv, NEW h \in Handlers, Still, CommitPlace(h)
  PROVE  CInv'
<1>1. /\ UNCHANGED <<backend, store, mix, boots, raced, blob>> /\ req[h].place = "place"
      /\ "place" \in Places /\ "rename" \in Places /\ "link" \in Places
  BY DEF CommitPlace, Still, At, Places
<1>2. /\ req[h] \in Request /\ Fine(h, req[h]) /\ req[h].up \in UploadIds \cup Handlers
  BY <1>1, HasUpload DEF CInv, Committing
<1>3. CASE UNCHANGED <<upload, acked>> /\ (GoTo(h, "rename") \/ GoTo(h, "link"))
  <2>1. Untouched
    BY <1>1, <1>3 DEF Untouched
  <2>2. req[h].up \in raced \/ upload[req[h].up] = req[h].dig
    BY <1>1, <1>2 DEF Fine
  <2>3. QED
    BY <1>1, <1>3, <2>1, <2>2, Went
<1>4. CASE /\ Forget(req[h].up)
           /\ req' = [g \in Handlers |->
                        IF g = h THEN [req[h] EXCEPT !.place = "link"]
                        ELSE IF req[g].file = InUpload(req[h].up)
                             THEN [req[g] EXCEPT !.file = NoFile] ELSE req[g]]
  <2>1. Apart(h) /\ AckedOK'
    BY <1>1, <1>2, <1>4, ForgottenApart
  <2>2. PICK q : q = [req[h] EXCEPT !.place = "link"]
    OBVIOUS
  <2>3. /\ q.op = req[h].op /\ q.place = "link" /\ q.up = req[h].up /\ q.file = req[h].file
        /\ q.body = req[h].body
    BY <1>2, <2>2 DEF Request
  <2>4. Fine(h, q)' /\ req'[h] = q
    BY <1>1, <1>2, <1>4, <2>2, <2>3 DEF Fine
  <2>5. \A g \in Handlers \ {h} :
          \E r : /\ req'[g] = r
                 /\ r.up = req[g].up /\ r.op = req[g].op /\ r.place = req[g].place
                 /\ r.dig = req[g].dig /\ r.body = req[g].body
                 /\ \A u \in UploadIds \cup Handlers : r.file = InUpload(u) => r.up = u
                 /\ \A d \in Digests : r.file = InBlob(d) => d \in Layers /\ r.up \in raced'
    <3> SUFFICES ASSUME NEW g \in Handlers \ {h}
                 PROVE  \E r : 
                   /\ req'[g] = r
                   /\ r.up = req[g].up /\ r.op = req[g].op /\ r.place = req[g].place
                   /\ r.dig = req[g].dig /\ r.body = req[g].body
                   /\ \A u \in UploadIds \cup Handlers : r.file = InUpload(u) => r.up = u
                   /\ \A d \in Digests : r.file = InBlob(d) => d \in Layers /\ r.up \in raced'
      OBVIOUS
    <3>1. CASE req[g].file = InUpload(req[h].up)
      <4>1. PICK r : r = [req[g] EXCEPT !.file = NoFile]
        OBVIOUS
      <4>2. /\ r.up = req[g].up /\ r.op = req[g].op /\ r.place = req[g].place
            /\ r.dig = req[g].dig /\ r.body = req[g].body /\ r.file = NoFile
        BY <4>1, Refiled
      <4>3. req'[g] = r
        BY <1>4, <3>1, <4>1
      <4>4. QED
        BY <4>2, <4>3, Distinct
    <3>2. CASE req[g].file # InUpload(req[h].up)
      <4>1. req'[g] = req[g]
        BY <1>4, <3>2
      <4>2. Fine(g, req[g])
        BY DEF CInv
      <4>3. QED
        BY <1>1, <4>1, <4>2 DEF Fine
    <3>3. QED
      BY <3>1, <3>2
  <2>6. Alone' /\ \A g \in Handlers : Fine(g, req[g])'
    BY <2>1, <2>3, <2>4, <2>5, Shared
  <2>7. LayersOK'
    BY <1>1, LayersStay
  <2>8. \A g \in Handlers \ {h} : req'[g].place = req[g].place /\ req'[g].dig = req[g].dig
    BY <2>5
  <2>9. ManifestsOK'
    BY <1>1, <2>8, ManifestsStay
  <2>10. QED
    BY <2>1, <2>6, <2>7, <2>9 DEF CInv
<1>5. QED
  BY <1>3, <1>4 DEF CommitPlace

LEMMA ContentRename ==
  ASSUME IInv, CInv, NEW h \in Handlers, Still, CommitRename(h)
  PROVE  CInv'
<1>1. /\ UNCHANGED <<backend, store, mix, boots, raced>> /\ req[h].place = "rename"
  BY DEF CommitRename, Still, At
<1>2. /\ req[h] \in Request /\ Fine(h, req[h]) /\ Good(req[h])
      /\ req[h].up \in UploadIds \cup Handlers /\ req[h].up # None
  BY <1>1, Somewhere, HasUpload DEF CInv, Committing, Places
<1>3. PICK u, d : u = req[h].up /\ d = req[h].dig
  OBVIOUS
<1>4. d \in Layers /\ backend = "filesystem"
  BY <1>1, <1>2, <1>3 DEF Good, Proper, About, Sure, Committing
<1>5. CASE Finish(h) /\ UNCHANGED blobVars
  <2>1. Untouched
    BY <1>1, <1>5 DEF Untouched, blobVars
  <2>2. QED
    BY <1>1, <1>5, <2>1, Ended
<1>6. CASE /\ blob' = [blob EXCEPT ![d] = upload[u]]
           /\ Forget(u)
           /\ req' = [g \in Handlers |->
                        IF g = h THEN [req[h] EXCEPT !.place = "link"]
                        ELSE [req[g] EXCEPT !.file =
                                IF @ = InUpload(u) THEN InBlob(d)
                                ELSE IF @ = InBlob(d) THEN NoFile ELSE @]]
  <2>1. Apart(h) /\ AckedOK'
    BY <1>1, <1>2, <1>3, <1>6, ForgottenApart
  <2>2. PICK q : q = [req[h] EXCEPT !.place = "link"]
    OBVIOUS
  <2>3. /\ q.op = req[h].op /\ q.place = "link" /\ q.up = req[h].up /\ q.file = req[h].file
        /\ q.body = req[h].body
    BY <1>2, <2>2 DEF Request
  <2>4. Fine(h, q)' /\ req'[h] = q
    BY <1>1, <1>2, <1>6, <2>2, <2>3 DEF Fine
  <2>5. \A g \in Handlers \ {h} :
          \E r : /\ req'[g] = r
                 /\ r.up = req[g].up /\ r.op = req[g].op /\ r.place = req[g].place
                 /\ r.dig = req[g].dig /\ r.body = req[g].body
                 /\ \A v \in UploadIds \cup Handlers : r.file = InUpload(v) => r.up = v
                 /\ \A e \in Digests : r.file = InBlob(e) => e \in Layers /\ r.up \in raced'
    <3> SUFFICES ASSUME NEW g \in Handlers \ {h}
                 PROVE  \E r : 
                   /\ req'[g] = r
                   /\ r.up = req[g].up /\ r.op = req[g].op /\ r.place = req[g].place
                   /\ r.dig = req[g].dig /\ r.body = req[g].body
                   /\ \A v \in UploadIds \cup Handlers : r.file = InUpload(v) => r.up = v
                   /\ \A e \in Digests : r.file = InBlob(e) => e \in Layers /\ r.up \in raced'
      OBVIOUS
    <3>1. PICK f : f = IF req[g].file = InUpload(u) THEN InBlob(d)
                       ELSE IF req[g].file = InBlob(d) THEN NoFile ELSE req[g].file
      OBVIOUS
    <3>2. PICK r : r = [req[g] EXCEPT !.file = f]
      OBVIOUS
    <3>3. req'[g] = r
      BY <1>6, <3>1, <3>2
    <3>4. /\ r.up = req[g].up /\ r.op = req[g].op /\ r.place = req[g].place
          /\ r.dig = req[g].dig /\ r.body = req[g].body /\ r.file = f
      BY <3>2, Refiled
    <3>5. Fine(g, req[g])
      BY DEF CInv
    <3>6. CASE req[g].file = InUpload(u)
      <4>1. req[g].up = u
        BY <1>2, <1>3, <3>5, <3>6 DEF Fine
      <4>2. u \in raced
        BY <1>2, <1>3, <4>1 DEF CInv, Alone
      <4>3. f = InBlob(d)
        BY <3>1, <3>6
      <4>4. \A e \in Digests : f = InBlob(e) => e \in Layers
        BY <1>4, <4>3, Distinct
      <4>5. \A v \in UploadIds \cup Handlers : f # InUpload(v)
        BY <4>3, Distinct
      <4>6. QED
        BY <1>1, <3>3, <3>4, <4>1, <4>2, <4>4, <4>5
    <3>7. CASE req[g].file # InUpload(u)
      <4>1. f = NoFile \/ f = req[g].file
        BY <3>1, <3>7
      <4>2. CASE f = NoFile
        BY <3>3, <3>4, <4>2, Distinct
      <4>3. CASE f = req[g].file
        <5>0. /\ \A v \in UploadIds \cup Handlers : req[g].file = InUpload(v) => req[g].up = v
              /\ \A e \in Digests : req[g].file = InBlob(e) => e \in Layers /\ req[g].up \in raced
          BY <3>5 DEF Fine
        <5>1. /\ \A v \in UploadIds \cup Handlers : r.file = InUpload(v) => r.up = v
              /\ \A e \in Digests : r.file = InBlob(e) => e \in Layers /\ r.up \in raced'
          BY <1>1, <3>4, <4>3, <5>0
        <5>2. QED
          BY <3>3, <3>4, <5>1
      <4>4. QED
        BY <4>1, <4>2, <4>3
    <3>8. QED
      BY <3>6, <3>7
  <2>6. Alone' /\ \A g \in Handlers : Fine(g, req[g])'
    BY <2>1, <2>3, <2>4, <2>5, Shared
  <2>7. /\ blob'[d] = upload[u]
        /\ \A e \in Digests : e # d => blob'[e] = blob[e]
    BY <1>4, <1>6 DEF IInv, TablesOK, Digests
  <2>8. u \in raced \/ upload[u] = d
    BY <1>1, <1>2, <1>3 DEF Fine
  <2>9. LayersOK'
    BY <1>1, <1>4, <2>7, <2>8 DEF CInv, LayersOK, Digests
  <2>10. \A g \in Handlers \ {h} : req'[g].place = req[g].place /\ req'[g].dig = req[g].dig
    BY <2>5
  <2>11. \A m \in Manifests : blob'[m] = blob[m]
    BY <1>4, <2>7 DEF Digests
  <2>12. ManifestsOK'
    BY <1>1, <2>10, <2>11, ManifestsStay
  <2>13. QED
    BY <2>1, <2>6, <2>9, <2>12 DEF CInv
<1>7. QED
  BY <1>3, <1>5, <1>6 DEF CommitRename

-----------------------------------------------------------------------------
(* Manifests are written *)

LEMMA ContentWriteBlob ==
  ASSUME IInv, CInv, NEW h \in Handlers, Still, WriteBlob(h) \/ FillBlob(h)
  PROVE  CInv'
<1>1. /\ UNCHANGED <<backend, store, mix, boots, raced, upload, acked>>
      /\ req[h].place \in {"write blob", "fill blob"} /\ req[h].place \in Places
      /\ "fill blob" \in Places /\ "associate" \in Places
  BY DEF WriteBlob, FillBlob, Still, At, Places
<1>2. req[h] \in Request /\ Fine(h, req[h]) /\ Good(req[h])
  BY <1>1, Somewhere DEF CInv
<1>3. PICK d : d = req[h].dig
  OBVIOUS
<1>4. d \in Manifests /\ backend \in {"filesystem", "s3"}
  BY <1>1, <1>2, <1>3 DEF Good, Proper, About, Pushing, IInv, TablesOK
<1>5. Apart(h) /\ AckedOK'
  BY <1>1, AckedStay DEF Apart
<1>6. \E q : /\ Becomes(h, q) /\ Fine(h, q)' /\ q.up \in {req[h].up, None}
             /\ GoTo(h, "fill blob") => q.place = "fill blob" /\ q.dig = d
  <2>1. CASE Finish(h) /\ ~GoTo(h, "fill blob")
    <3>1. Becomes(h, Idle) /\ Idle.up = None
      BY <2>1 DEF Finish, Idle, Ask
    <3>2. QED
      BY <2>1, <3>1, FineIdle
  <2>2. ASSUME NEW p \in {"fill blob", "associate"}, GoTo(h, p),
               GoTo(h, "fill blob") => p = "fill blob"
        PROVE  \E q : /\ Becomes(h, q) /\ Fine(h, q)' /\ q.up \in {req[h].up, None}
                      /\ GoTo(h, "fill blob") => q.place = "fill blob" /\ q.dig = d
    <3>1. PICK q : q = [req[h] EXCEPT !.place = p]
      OBVIOUS
    <3>2. /\ q.op = req[h].op /\ q.place = p /\ q.up = req[h].up /\ q.file = req[h].file
          /\ q.body = req[h].body /\ q.dig = req[h].dig
      BY <1>2, <3>1 DEF Request
    <3>3. Fine(h, q)'
      BY <1>1, <1>2, <3>2 DEF Fine
    <3>4. QED
      BY <1>3, <2>2, <3>1, <3>2, <3>3 DEF GoTo
  <2>3. QED
    BY <2>1, <2>2 DEF WriteBlob, FillBlob
<1>7. \A e \in Digests : e # d => blob'[e] = blob[e]
  BY <1>3, <1>4 DEF WriteBlob, FillBlob, IInv, TablesOK, Digests
<1>8. LayersOK'
  <2>1. \A e \in Layers : blob'[e] = blob[e]
    BY <1>4, <1>7 DEF Digests
  <2>2. QED
    BY <1>1, <2>1, LayersStay
<1>9. \/ blob'[d] = d
      \/ /\ backend = "filesystem"
         /\ GoTo(h, "fill blob") \/ Fails("storage")
      \/ /\ blob'[d] = blob[d] /\ Fails("storage")
         /\ blob[d] \in {Absent, d}
  BY <1>3, <1>4 DEF WriteBlob, FillBlob, IInv, TablesOK, Digests, CInv, ManifestsOK
<1>10. ManifestsOK'
  <2> SUFFICES ASSUME NEW m \in Manifests
               PROVE  \/ blob'[m] \in {Absent, m}
                      \/ /\ backend' = "filesystem"
                         /\ Filling(m)' \/ boots' > 1 \/ Fails("storage")'
    BY DEF ManifestsOK
  <2>1. PICK q : /\ Becomes(h, q)
                 /\ GoTo(h, "fill blob") => q.place = "fill blob" /\ q.dig = d
    BY <1>6
  <2>2. req'[h] = q /\ \A g \in Handlers \ {h} : req'[g] = req[g]
    BY <2>1 DEF Becomes, IInv
  <2>3. CASE m = d
    <3>1. CASE GoTo(h, "fill blob") /\ backend = "filesystem"
      <4>1. Filling(m)'
        BY <2>1, <2>2, <2>3, <3>1 DEF Filling, At
      <4>2. QED
        BY <1>1, <3>1, <4>1
    <3>2. CASE ~(GoTo(h, "fill blob") /\ backend = "filesystem")
      BY <1>1, <1>9, <2>3, <3>2 DEF Fails
    <3>3. QED
      BY <3>1, <3>2
  <2>4. CASE m # d
    <3>1. blob'[m] = blob[m]
      BY <1>7, <2>4 DEF Digests
    <3>2. CASE Filling(m)
      <4>1. PICK g \in Handlers : At(g, "fill blob") /\ req[g].dig = m
        BY <3>2 DEF Filling
      <4>2. g # h /\ req'[g] = req[g]
        BY <1>3, <2>2, <2>4, <4>1
      <4>3. Filling(m)'
        BY <4>1, <4>2 DEF Filling, At
      <4>4. QED
        BY <1>1, <3>1, <4>3 DEF CInv, ManifestsOK
    <3>3. CASE ~Filling(m)
      BY <1>1, <3>1, <3>3 DEF CInv, ManifestsOK, Fails
    <3>4. QED
      BY <3>2, <3>3
  <2>5. QED
    BY <2>3, <2>4
<1>11. QED
  BY <1>5, <1>6, <1>8, <1>10, Served

-----------------------------------------------------------------------------
(* Every step *)

LEMMA ContentRestart ==
  ASSUME IInv, CInv, Restart, UNCHANGED <<backend, store, mix>>
  PROVE  CInv'
<1>1. /\ UNCHANGED <<backend, store, mix, upload, blob, acked, raced>> /\ boots' > 1
  BY DEF Restart, blobVars, IInv, TablesOK
<1>2. \A h \in Handlers : req'[h] = Idle /\ Idle.up = None
  BY DEF Restart, Idle, Ask
<1>3. Alone'
  BY <1>2 DEF Alone
<1>4. ASSUME NEW h \in Handlers PROVE Fine(h, req[h])'
  <2>1. req'[h] = Idle /\ Fine(h, Idle)'
    BY <1>2, FineIdle
  <2>2. QED
    BY <2>1 DEF Fine, Fails
<1>5. LayersOK' /\ AckedOK'
  BY <1>1, LayersStay, AckedStay
<1>6. ManifestsOK'
  BY <1>1 DEF CInv, ManifestsOK
<1>7. QED
  BY <1>3, <1>4, <1>5, <1>6 DEF CInv

LEMMA ContentServed ==
  ASSUME IInv, CInv, NEW h \in Handlers, Still,
         UploadNext(h) \/ PutManifests(h) \/ DeleteTag(h)
  PROVE  CInv'
<1>1. CASE UploadNext(h)
  BY <1>1, ContentRequests, ContentLooks, ContentOpen, ContentCopy, ContentFetch, ContentSave,
     ContentVerify, ContentPlace, ContentRename, ContentHead, ContentGet, ContentPut, ContentClean
  DEF UploadNext, PatchBlobUpload, PutBlobUpload, PostBlobUploads, UploadBlob, CommitBlob,
      DeleteBlob
<1>2. CASE PutManifests(h)
  BY <1>2, ContentRequests, ContentLooks, ContentLayers, ContentWriteBlob, ContentReference
  DEF PutManifests
<1>3. CASE DeleteTag(h)
  BY <1>3, ContentRequests, ContentLooks DEF DeleteTag
<1>4. QED
  BY <1>1, <1>2, <1>3

LEMMA ContentStep == IInv /\ CInv /\ [Next]_vars => CInv'
<1> SUFFICES ASSUME IInv, CInv, [Next]_vars PROVE CInv'
  OBVIOUS
<1>1. CASE UNCHANGED vars
  <2>1. /\ UNCHANGED <<backend, store, mix, upload, blob, acked, raced, boots>> /\ req' = req
    BY <1>1 DEF vars
  <2>2. Alone' /\ LayersOK' /\ AckedOK'
    BY <2>1, LayersStay, AckedStay DEF CInv, Alone
  <2>3. ManifestsOK'
    BY <2>1 DEF CInv, ManifestsOK, Filling, At, Fails
  <2>4. \A h \in Handlers : Fine(h, req[h])'
    BY <2>1 DEF CInv, Fine, Fails
  <2>5. QED
    BY <2>2, <2>3, <2>4 DEF CInv
<1>2. ASSUME NEW h \in Handlers, UploadNext(h) \/ PutManifests(h) \/ DeleteTag(h),
             UNCHANGED <<backend, store, mix, boots>>
      PROVE  CInv'
  BY <1>2, ContentServed DEF Still
<1>3. CASE Restart /\ UNCHANGED <<backend, store, mix>>
  BY <1>3, ContentRestart
<1>4. QED
  BY <1>1, <1>2, <1>3 DEF Next

-----------------------------------------------------------------------------
(* Referrers *)

\* An answered referrer refers to something.
AnnouncedRefer ==
  \A r \in Repos, m \in Manifests : <<r, m>> \in announced => Subject[m] \in Manifests

\* The one list that changes, to what was read and the manifest.
\* A push that refers to something: what it adds to the list and whether it is answered.
Refers(h, list) ==
  LET m == req[h].dig
      k == <<req[h].repo, Subject[m]>> IN
  \/ refs' = refs /\ announced' = announced
  \/ /\ refs' = [refs EXCEPT ![k] = Append(list, m)]
     /\ announced' = announced \/ announced' = announced \cup {<<req[h].repo, m>>}

LEMMA LostHow ==
  ASSUME IInv, AnnouncedRefer, NEW h \in Handlers,
         req[h].repo \in Repos, req[h].dig \in Manifests, Subject[req[h].dig] \in Manifests,
         NEW list \in Seq(Manifests), Refers(h, list),
         NEW r \in Repos, NEW m \in Manifests, LostReferrer(r, m)', ~LostReferrer(r, m)
  PROVE  /\ r = req[h].repo /\ Subject[m] = Subject[req[h].dig]
         /\ list # refs[<<r, Subject[m]>>]
<1>1. PICK r0, m0, k : r0 = req[h].repo /\ m0 = req[h].dig /\ k = <<r0, Subject[m0]>>
  OBVIOUS
<1>2. r0 \in Repos /\ m0 \in Manifests /\ Subject[m0] \in Manifests
  BY <1>1
<1>3. \/ refs' = refs /\ announced' = announced
      \/ /\ refs' = [refs EXCEPT ![k] = Append(list, m0)]
         /\ announced' = announced \/ announced' = announced \cup {<<r0, m0>>}
  BY <1>1 DEF Refers
<1>4. refs \in [Repos \X Manifests -> Seq(Manifests)] /\ k \in Repos \X Manifests
  BY <1>1, <1>2 DEF IInv, TablesOK
<1>5. <<r, m>> \in announced' /\ ~Listed(r, m)'
  BY DEF LostReferrer
<1>6. PICK old, new : old = refs[<<r, Subject[m]>>] /\ new = refs'[<<r, Subject[m]>>]
  OBVIOUS
<1>7. ~\E i \in 1..Len(new) : new[i] = m
  BY <1>5, <1>6 DEF Listed, GetReferrers
<1>8. <<r, m>> \in announced => \E i \in 1..Len(old) : old[i] = m
  BY <1>6 DEF LostReferrer, Listed, GetReferrers
<1>9. refs' = [refs EXCEPT ![k] = Append(list, m0)]
  <2>1. CASE refs' = refs /\ announced' = announced
    BY <1>5, <1>6, <1>7, <1>8, <2>1
  <2>2. QED
    BY <1>3, <2>1
<1>10. PICK l : l = Append(list, m0)
  OBVIOUS
<1>11. /\ l \in Seq(Manifests) /\ Len(l) = Len(list) + 1 /\ Len(list) \in Nat
       /\ l[Len(list) + 1] = m0 /\ \A i \in 1..Len(list) : l[i] = list[i]
  BY <1>2, <1>10, AppendProperties, LenProperties
<1>12. refs'[k] = l /\ \A j \in Repos \X Manifests : j # k => refs'[j] = refs[j]
  BY <1>4, <1>9, <1>10
<1>13. CASE <<r, Subject[m]>> # k
  <2>1. <<r, m>> \in announced
    BY <1>5, <1>1, <1>3, <1>13
  <2>2. <<r, Subject[m]>> \in Repos \X Manifests
    BY <2>1 DEF AnnouncedRefer
  <2>3. new = old
    BY <1>6, <1>12, <1>13, <2>2
  <2>4. QED
    BY <1>7, <1>8, <2>1, <2>3
<1>14. CASE <<r, Subject[m]>> = k
  <2>1. new = l /\ old = refs[k]
    BY <1>6, <1>12, <1>14
  <2>2. m # m0
    <3>1. Len(list) + 1 \in 1..Len(l)
      BY <1>11
    <3>2. QED
      BY <1>7, <1>11, <2>1, <3>1
  <2>3. <<r, m>> \in announced
    BY <1>3, <1>5, <2>2
  <2>4. PICK i \in 1..Len(old) : old[i] = m
    BY <1>8, <2>3
  <2>5. list # refs[k]
    <3>1. ASSUME list = refs[k] PROVE FALSE
      <4>1. i \in 1..Len(list) /\ list[i] = m
        BY <2>1, <2>4, <3>1
      <4>2. i \in 1..Len(l) /\ l[i] = m
        BY <1>11, <4>1
      <4>3. QED
        BY <1>7, <2>1, <4>2
    <3>2. QED
      BY <3>1
  <2>6. QED
    BY <1>1, <1>14, <2>5
<1>15. QED
  BY <1>13, <1>14

LEMMA ReferHow ==
  ASSUME IInv, NEW h \in Handlers, AddReference(h) \/ PutReferences(h)
  PROVE  /\ req[h] \in Request /\ req[h].repo \in Repos /\ req[h].dig \in Manifests
         /\ Subject[req[h].dig] \in Manifests \cup {Absent}
         /\ Subject[req[h].dig] = Absent => refs' = refs /\ announced' = announced
         /\ AddReference(h) /\ Subject[req[h].dig] \in Manifests =>
              Refers(h, refs[<<req[h].repo, Subject[req[h].dig]>>])
         /\ PutReferences(h) /\ Subject[req[h].dig] \in Manifests => Refers(h, req[h].seen)
<1>1. req[h].place \in {"refer", "put refs"} /\ req[h].place \in Places
  BY DEF AddReference, PutReferences, At, Places
<1>2. req[h] \in Request /\ Good(req[h])
  BY <1>1, Somewhere
<1>3. req[h].repo \in Repos /\ req[h].dig \in Manifests
  BY <1>1, <1>2 DEF Good, Proper, About, Pushing
<1>4. Subject[req[h].dig] \in Manifests \cup {Absent}
  BY <1>3
<1>5. PICK k : k = <<req[h].repo, Subject[req[h].dig]>>
  OBVIOUS
<1>6. ASSUME Subject[req[h].dig] = Absent PROVE refs' = refs /\ announced' = announced
  <2>1. k \notin Repos \X Manifests
    BY <1>5, <1>6, Distinct DEF Digests
  <2>2. \A l : [refs EXCEPT ![k] = l] = refs
    BY <2>1 DEF IInv, TablesOK
  <2>3. CASE AddReference(h)
    BY <1>6, <2>3 DEF AddReference, Created
  <2>4. CASE PutReferences(h)
    <3>1. refs' = refs \/ refs' = [refs EXCEPT ![k] = Append(req[h].seen, req[h].dig)]
      BY <1>5, <2>4 DEF PutReferences
    <3>2. announced' = announced
      BY <1>6, <2>4 DEF PutReferences, Created
    <3>3. QED
      BY <2>2, <3>1, <3>2
  <2>5. QED
    BY <2>3, <2>4
<1>7. ASSUME Subject[req[h].dig] \in Manifests PROVE Subject[req[h].dig] # Absent
  BY <1>7, Distinct DEF Digests
<1>8. ASSUME AddReference(h), Subject[req[h].dig] \in Manifests PROVE Refers(h, refs[k])
  <2>1. \/ refs' = refs /\ announced' = announced
        \/ /\ refs' = [refs EXCEPT ![k] = Append(@, req[h].dig)]
           /\ announced' = announced \cup {<<req[h].repo, req[h].dig>>}
    BY <1>5, <1>7, <1>8 DEF AddReference, Created
  <2>2. QED
    BY <1>5, <2>1 DEF Refers
<1>9. ASSUME PutReferences(h), Subject[req[h].dig] \in Manifests
      PROVE  Refers(h, req[h].seen)
  BY <1>7, <1>9 DEF PutReferences, Created, Refers
<1>10. QED
  BY <1>2, <1>3, <1>4, <1>5, <1>6, <1>8, <1>9

\* Nothing else touches the list of referrers or answers a push.
LEMMA ReferElse ==
  ASSUME [Next]_vars
  PROVE  \/ UNCHANGED <<refs, announced>>
         \/ \E h \in Handlers : (AddReference(h) \/ PutReferences(h)) /\ UNCHANGED store
<1>1. CASE UNCHANGED vars
  BY <1>1 DEF vars
<1>2. CASE Restart
  BY <1>2 DEF Restart, manifestVars
<1>3. ASSUME NEW h \in Handlers, UploadNext(h) /\ UNCHANGED manifestVars
      PROVE  UNCHANGED <<refs, announced>>
  BY <1>3 DEF manifestVars
<1>4. ASSUME NEW h \in Handlers, PutManifests(h)
      PROVE  UNCHANGED <<refs, announced>> \/ AddReference(h) \/ PutReferences(h)
  <2>1. CASE PutManifestRequest(h)
    BY <2>1 DEF PutManifestRequest, manifestVars
  <2>2. CASE CheckLayers(h) \/ SaveBlob(h) \/ WriteBlob(h)
    BY <2>2 DEF CheckLayers, SaveBlob, WriteBlob, manifestVars
  <2>3. CASE FillBlob(h) \/ AddManifest(h) \/ SaveTag(h)
    BY <2>3 DEF FillBlob, AddManifest, SaveTag, manifestVars
  <2>4. QED
    BY <1>4, <2>1, <2>2, <2>3 DEF PutManifests
<1>5. ASSUME NEW h \in Handlers, DeleteTag(h) PROVE UNCHANGED <<refs, announced>>
  BY <1>5 DEF DeleteTag, DeleteTagRequest, DeleteTagFind, DeleteTagRemove, manifestVars
<1>6. QED
  BY <1>1, <1>2, <1>3, <1>4, <1>5 DEF Next

LEMMA AnnouncedReferStep == IInv /\ AnnouncedRefer /\ [Next]_vars => AnnouncedRefer'
<1> SUFFICES ASSUME IInv, AnnouncedRefer, [Next]_vars PROVE AnnouncedRefer'
  OBVIOUS
<1>1. CASE announced' = announced
  BY <1>1 DEF AnnouncedRefer
<1>2. CASE announced' # announced
  <2>1. PICK h \in Handlers : AddReference(h) \/ PutReferences(h)
    BY <1>2, ReferElse
  <2>2. /\ req[h].dig \in Manifests /\ Subject[req[h].dig] \in Manifests
        /\ announced' = announced \cup {<<req[h].repo, req[h].dig>>}
    BY <1>2, <2>1, ReferHow DEF Refers
  <2>3. QED
    BY <2>2 DEF AnnouncedRefer
<1>3. QED
  BY <1>1, <1>2

LEMMA LostStep == IInv /\ CInv /\ AnnouncedRefer /\ [Next]_vars => LostReferrerStep
<1> SUFFICES ASSUME IInv, CInv, AnnouncedRefer, [Next]_vars,
                    NEW r \in Repos, NEW m \in Manifests,
                    LostReferrer(r, m)', ~LostReferrer(r, m)
             PROVE  /\ store = "dynamodb"
                    /\ \E h \in Handlers : /\ At(h, "put refs") /\ req[h].repo = r
                                           /\ Subject[req[h].dig] = Subject[m]
                                           /\ req[h].seen # refs[<<r, Subject[m]>>]
  BY DEF LostReferrerStep
<1>1. ~UNCHANGED <<refs, announced>>
  BY DEF LostReferrer, Listed, GetReferrers
<1>2. PICK h \in Handlers : AddReference(h) \/ PutReferences(h)
  BY <1>1, ReferElse
<1>3. /\ req[h].repo \in Repos /\ req[h].dig \in Manifests /\ req[h] \in Request
      /\ Subject[req[h].dig] \in Manifests
  BY <1>1, <1>2, ReferHow
<1>4. PICK k : k = <<req[h].repo, Subject[req[h].dig]>>
  OBVIOUS
<1>5. refs[k] \in Seq(Manifests) /\ req[h].seen \in Seq(Manifests)
  BY <1>3, <1>4 DEF IInv, TablesOK, Request
<1>6. ~AddReference(h)
  <2>1. ASSUME AddReference(h) PROVE FALSE
    <3>1. Refers(h, refs[k])
      BY <1>3, <1>4, <2>1, ReferHow
    <3>2. /\ r = req[h].repo /\ Subject[m] = Subject[req[h].dig]
          /\ refs[k] # refs[<<r, Subject[m]>>]
      BY <1>3, <1>5, <3>1, LostHow
    <3>3. QED
      BY <1>4, <3>2
  <2>2. QED
    BY <2>1
<1>7. PutReferences(h) /\ Refers(h, req[h].seen)
  BY <1>2, <1>3, <1>6, ReferHow
<1>8. /\ r = req[h].repo /\ Subject[m] = Subject[req[h].dig]
      /\ req[h].seen # refs[<<r, Subject[m]>>]
  BY <1>3, <1>5, <1>7, LostHow
<1>9. At(h, "put refs")
  BY <1>7 DEF PutReferences
<1>10. store = "dynamodb"
  BY <1>9 DEF CInv, Fine, At
<1>11. QED
  BY <1>8, <1>9, <1>10

-----------------------------------------------------------------------------
(* Theorems *)

\* What requests know of the contents of the registry is so in every state.
THEOREM ContentsKnown == Spec => [](IInv /\ CInv /\ AnnouncedRefer)
<1>1. Init => AnnouncedRefer
  BY DEF Init, AnnouncedRefer
<1>2. Init => IInv /\ CInv /\ AnnouncedRefer
  BY <1>1, RegistryInit, ContentInit
<1>3. IInv /\ CInv /\ AnnouncedRefer /\ [Next]_vars => (IInv /\ CInv /\ AnnouncedRefer)'
  BY RegistryStep, ContentStep, AnnouncedReferStep
<1>4. QED
  BY <1>2, <1>3, PTL DEF Spec

\* A layer whose content is not its digest's is answered only on the filesystem, and only
\* when two requests have worked on one upload at once (filesystem.go:105).
THEOREM LayersKept == Spec => []LayersIntact
<1>1. CInv => LayersIntact
  <2> SUFFICES ASSUME CInv, NEW r \in Repos, NEW d \in Layers,
                      GetBlobs(r, d) \notin {Absent, d}
               PROVE  backend = "filesystem" /\ raced # {}
    BY DEF LayersIntact
  <2>1. blob[d] \notin {Absent, d}
    BY DEF GetBlobs, ReadBlobToWriter
  <2>2. QED
    BY <2>1 DEF CInv, LayersOK
<1>2. QED
  BY <1>1, ContentsKnown, PTL

\* A tag leads to an incomplete manifest only on the filesystem, while a push writes it,
\* or when a write has failed or died (filesystem.go:117).
THEOREM ManifestsKept == Spec => []ManifestsIntact
<1>1. IInv /\ CInv => ManifestsIntact
  <2> SUFFICES ASSUME IInv, CInv, NEW r \in Repos, NEW t \in Tags,
                      GetManifests(r, t) \notin {Absent, ReadTag(r, t)}
               PROVE  /\ backend = "filesystem"
                      /\ \/ \E h \in Handlers : At(h, "fill blob") /\ req[h].dig = ReadTag(r, t)
                         \/ boots > 1 \/ Fails("storage")
    BY DEF ManifestsIntact
  <2>1. ReadTag(r, t) = tag[<<r, t>>] /\ tag[<<r, t>>] \in Manifests \cup {Absent}
    BY DEF ReadTag, IInv, TablesOK
  <2>2. ReadTag(r, t) \in Digests /\ blob[ReadTag(r, t)] \notin {Absent, ReadTag(r, t)}
    BY DEF GetManifests, ByDigest, ReadBlob
  <2>3. ReadTag(r, t) \in Manifests
    BY <2>1, <2>2, Distinct
  <2>4. QED
    BY <2>2, <2>3 DEF CInv, ManifestsOK, Filling
<1>2. QED
  BY <1>1, ContentsKnown, PTL

\* A chunk answered with 202 is in its upload; only S3 may lose it, to another request on
\* the upload or to a read that failed (s3.go:129).
THEOREM AckedChunksKept == Spec => []AckedKept
<1>1. IInv /\ CInv => AckedKept
  <2> SUFFICES ASSUME IInv, CInv, NEW u \in UploadIds,
                      upload[u] # Absent, Len(upload[u]) < acked[u]
               PROVE  backend = "s3" /\ (u \in raced \/ Fails("storage"))
    BY DEF AckedKept
  <2>1. upload[u] \in Contents /\ acked[u] \in Nat
    BY DEF IInv, TablesOK
  <2>2. Len(upload[u]) \in Nat
    BY <2>1, LenProperties DEF Contents
  <2>3. QED
    BY <2>1, <2>2 DEF CInv, AckedOK
<1>2. QED
  BY <1>1, ContentsKnown, PTL

\* A referrer whose push was answered with 201 stays listed; only dynamodb loses it, to a
\* push that had read the list before it was added (dynamo.go:296).
THEOREM ReferrersListed == Spec => ReferrersKept
<1>1. IInv /\ CInv /\ AnnouncedRefer /\ [Next]_vars => [LostReferrerStep]_vars
  BY LostStep
<1>2. QED
  BY <1>1, ContentsKnown, PTL DEF Spec, ReferrersKept

-----------------------------------------------------------------------------
(* Sets of numbers in order *)

\* A finite set of numbers.
Numbers(S) == IsFiniteSet(S) /\ \A t \in S : t \in Nat

\* How many of a set are not after t.
UpTo(tags, t) == {u \in tags : u <= t}
Rank(tags, t) == Cardinality(UpTo(tags, t))

\* The rank of a member is a place in the order.
LEMMA RankRange ==
  ASSUME NEW S, Numbers(S), NEW t \in S
  PROVE  /\ Cardinality(S) \in Nat /\ Rank(S, t) \in Nat
         /\ 1 <= Rank(S, t) /\ Rank(S, t) <= Cardinality(S)
<1>1. UpTo(S, t) \in SUBSET S /\ t \in UpTo(S, t)
  BY DEF UpTo, Numbers
<1>2. Cardinality(S) \in Nat
  BY FS_CardinalityType DEF Numbers
<1>3. IsFiniteSet(UpTo(S, t)) /\ Cardinality(UpTo(S, t)) <= Cardinality(S)
  BY <1>1, FS_Subset DEF Numbers
<1>4. Cardinality(UpTo(S, t)) \in Nat
  BY <1>3, FS_CardinalityType DEF Numbers
<1>5. Cardinality(UpTo(S, t)) # 0
  BY <1>1, <1>3, FS_EmptySet DEF Numbers
<1>6. QED
  BY <1>2, <1>3, <1>4, <1>5 DEF Rank

\* Who comes later has more of them up to itself.
LEMMA RankGrows ==
  ASSUME NEW S, Numbers(S), NEW s \in S, NEW t \in S, s < t
  PROVE  Rank(S, s) < Rank(S, t)
<1>0. s \in Nat /\ t \in Nat /\ \A u \in S : u \in Nat
  BY DEF Numbers
<1>1. UpTo(S, s) \in SUBSET UpTo(S, t) /\ t \in UpTo(S, t) /\ t \notin UpTo(S, s)
  <2>1. \A u \in S : u <= s => u <= t
    BY <1>0
  <2>2. UpTo(S, s) \subseteq UpTo(S, t)
    BY <2>1 DEF UpTo
  <2>3. t <= t /\ ~(t <= s)
    BY <1>0
  <2>4. QED
    BY <2>2, <2>3 DEF UpTo
<1>2. UpTo(S, t) \in SUBSET S
  BY DEF UpTo, Numbers
<1>3. IsFiniteSet(UpTo(S, t))
  BY <1>2, FS_Subset DEF Numbers
<1>4. /\ Cardinality(UpTo(S, s)) <= Cardinality(UpTo(S, t))
      /\ Cardinality(UpTo(S, s)) # Cardinality(UpTo(S, t))
  BY <1>1, <1>3, FS_Subset DEF Numbers
<1>5. Rank(S, s) \in Int /\ Rank(S, t) \in Int
  BY RankRange
<1>6. QED
  BY <1>4, <1>5 DEF Rank

\* Each place in the order is somebody's.
LEMMA RankTaken ==
  ASSUME NEW S, Numbers(S), NEW i \in 1..Cardinality(S)
  PROVE  \E t \in S : Rank(S, t) = i
<1> DEFINE n == Cardinality(S)
           f == [t \in S |-> Rank(S, t)]
<1>1. f \in [S -> 1..n]
  BY RankRange
<1>2. ASSUME NEW s \in S, NEW t \in S, s # t PROVE f[s] # f[t]
  <2>1. s < t \/ t < s
    BY <1>2 DEF Numbers
  <2>2. Rank(S, s) < Rank(S, t) \/ Rank(S, t) < Rank(S, s)
    BY <2>1, RankGrows
  <2>3. Rank(S, s) \in Int /\ Rank(S, t) \in Int
    BY RankRange
  <2>4. QED
    BY <2>2, <2>3
<1>3. f \in Injection(S, 1..n)
  BY <1>1, <1>2 DEF Injection, IsInjective
<1>4. n \in Nat
  BY FS_CardinalityType DEF Numbers
<1>5. IsFiniteSet(1..n) /\ Cardinality(1..n) = n
  BY <1>4, FS_Interval
<1>6. f \in Surjection(S, 1..n)
  BY <1>3, <1>5, FS_Injection
<1>7. \E t \in S : f[t] = i
  BY <1>6 DEF Surjection
<1>8. QED
  BY <1>7

\* At each place of the order is the one whose rank it is, and each one is at its rank.
LEMMA InOrderRank ==
  ASSUME NEW S, Numbers(S), NEW i \in 1..Cardinality(S)
  PROVE  InOrder(S)[i] \in S /\ Rank(S, InOrder(S)[i]) = i
<1>1. InOrder(S)[i] = CHOOSE t \in S : Rank(S, t) = i
  BY DEF InOrder, Rank, UpTo
<1>2. QED
  BY <1>1, RankTaken

LEMMA InOrderIs ==
  ASSUME NEW S, Numbers(S), NEW t \in S
  PROVE  InOrder(S)[Rank(S, t)] = t
<1> DEFINE s == InOrder(S)[Rank(S, t)]
<1>1. s \in S /\ Rank(S, s) = Rank(S, t)
  BY RankRange, InOrderRank
<1>2. Rank(S, t) \in Int
  BY RankRange
<1>3. ~(s < t) /\ ~(t < s)
  BY <1>1, <1>2, RankGrows
<1>4. s \in Nat /\ t \in Nat
  BY <1>1 DEF Numbers
<1>5. QED
  BY <1>3, <1>4

\* What a page after t is taken from.
Later(tags, t) == {u \in tags : u > t}

\* After t they come in the same order, t's rank earlier.
LEMMA LaterRank ==
  ASSUME NEW S, Numbers(S), NEW t \in S
  PROVE  /\ IsFiniteSet(Later(S, t))
         /\ Cardinality(Later(S, t)) = Cardinality(S) - Rank(S, t)
         /\ \A u \in Later(S, t) : Rank(Later(S, t), u) = Rank(S, u) - Rank(S, t)
<1>1. ASSUME NEW U, U \subseteq S, UpTo(S, t) \subseteq U
      PROVE  /\ IsFiniteSet(U \ UpTo(S, t))
             /\ Cardinality(U \ UpTo(S, t)) = Cardinality(U) - Rank(S, t)
  <2>1. U \in SUBSET S
    BY <1>1
  <2>2. IsFiniteSet(U)
    BY <2>1, FS_Subset DEF Numbers
  <2>3. U \cap UpTo(S, t) = UpTo(S, t)
    BY <1>1
  <2>4. QED
    BY <2>2, <2>3, FS_Difference DEF Rank
<1>2. S \ UpTo(S, t) = Later(S, t)
  BY DEF UpTo, Later, Numbers
<1>3. ASSUME NEW u \in Later(S, t)
      PROVE  Rank(Later(S, t), u) = Rank(S, u) - Rank(S, t)
  <2>1. UpTo(S, u) \subseteq S /\ UpTo(S, t) \subseteq UpTo(S, u)
    BY DEF UpTo, Later, Numbers
  <2>2. UpTo(S, u) \ UpTo(S, t) = UpTo(Later(S, t), u)
    BY DEF UpTo, Later, Numbers
  <2>3. QED
    BY <1>1, <2>1, <2>2 DEF Rank
<1>4. UpTo(S, t) \subseteq S
  BY DEF UpTo, Numbers
<1>5. QED
  BY <1>1, <1>2, <1>3, <1>4

\* So the order of those after t is the rest of the order.
LEMMA LaterInOrder ==
  ASSUME NEW S, Numbers(S), NEW t \in S,
         NEW k \in 1..Cardinality(Later(S, t))
  PROVE  InOrder(Later(S, t))[k] = InOrder(S)[Rank(S, t) + k]
<1> DEFINE R == Later(S, t)
           i == Rank(S, t)
           v == InOrder(S)[i + k]
<1>1. /\ Numbers(R) /\ Cardinality(R) = Cardinality(S) - i
      /\ \A u \in R : Rank(R, u) = Rank(S, u) - i
  BY LaterRank DEF Later, Numbers
<1>2. Cardinality(S) \in Nat /\ i \in 1..Cardinality(S) /\ k \in Nat
  BY FS_CardinalityType, RankRange
<1>3. i + k \in 1..Cardinality(S)
  BY <1>1, <1>2
<1>4. v \in S /\ Rank(S, v) = i + k
  BY <1>3, InOrderRank
<1>5. v > t
  <2>1. v # t
    BY <1>2, <1>4
  <2>2. ~(v < t)
    BY <1>2, <1>4, RankGrows
  <2>3. QED
    BY <1>4, <2>1, <2>2 DEF Numbers
<1>6. v \in R /\ Rank(R, v) = k
  BY <1>1, <1>2, <1>4, <1>5 DEF Later, Numbers
<1>7. QED
  BY <1>1, <1>6, InOrderIs

-----------------------------------------------------------------------------
(* The pages of the tag list *)

LEMMA TagsAreNumbers ==
  ASSUME NEW r
  PROVE  Numbers(TagsOf(r)) /\ NoTag \notin TagsOf(r)
<1>1. TagsOf(r) \in SUBSET Tags
  BY DEF TagsOf
<1>2. Tags \subseteq Nat \ {NoTag} /\ IsFiniteSet(Tags)
  BY RegistryAssumption
<1>3. IsFiniteSet(TagsOf(r))
  BY <1>1, <1>2, FS_Subset
<1>4. QED
  BY <1>1, <1>2, <1>3 DEF Numbers

\* Names are different, no name is the empty one, and a tag is its own name only in dynamodb.
LEMMA Names ==
  ASSUME NEW r, NEW s, NEW t
  PROVE  /\ Listing(r, s) = Listing(r, t) => s = t
         /\ Listing(r, t) # NoLast
         /\ store = "boltdb" => Listing(r, t) # <<s>>
         /\ store # "boltdb" => Listing(r, t) = <<t>>
BY SMT DEF Listing, NoLast

ListingsOf(r) == {Listing(r, t) : t \in Nat}

\* A list of names has the names in the order of the tags.
LEMMA ListingsSeq ==
  ASSUME NEW r, NEW S, Numbers(S)
  PROVE  /\ Listings(r, S) \in Seq(ListingsOf(r)) /\ Len(Listings(r, S)) = Cardinality(S)
         /\ Cardinality(S) \in Nat
         /\ \A i \in 1..Cardinality(S) : Listings(r, S)[i] = Listing(r, InOrder(S)[i])
<1>1. Cardinality(S) \in Nat
  BY FS_CardinalityType DEF Numbers
<1>2. ASSUME NEW i \in 1..Cardinality(S) PROVE Listing(r, InOrder(S)[i]) \in ListingsOf(r)
  BY InOrderRank DEF ListingsOf, Numbers
<1>3. Listings(r, S) \in [1..Cardinality(S) -> ListingsOf(r)]
  BY <1>2 DEF Listings
<1>4. QED
  BY <1>1, <1>3 DEF Listings

\* A name that is nowhere but at the end, or not at all, leaves the list as it is.
LEMMA FromLastNone ==
  ASSUME NEW list, NEW last, \A i \in 1..Len(list) - 1 : list[i] # last
  PROVE  FromLast(list, last) = list
BY DEF FromLast

\* What is left after a tag that is not the final one.
LEMMA FromLastSome ==
  ASSUME NEW r, NEW S, Numbers(S), NEW t \in S, Rank(S, t) # Cardinality(S)
  PROVE  FromLast(Listings(r, S), Listing(r, t)) = Listings(r, Later(S, t))
<1> DEFINE list == Listings(r, S)
           R == Later(S, t)
           at == Rank(S, t)
<1>1. /\ list \in Seq(ListingsOf(r)) /\ Len(list) = Cardinality(S) /\ Cardinality(S) \in Nat
      /\ \A i \in 1..Cardinality(S) : list[i] = Listing(r, InOrder(S)[i])
  BY ListingsSeq
<1>2. at \in Nat /\ 1 <= at /\ at <= Cardinality(S)
  BY RankRange
<1>3. at \in 1..Len(list) - 1 /\ list[at] = Listing(r, t)
  BY <1>1, <1>2, InOrderIs
<1>4. ASSUME NEW i \in 1..Len(list), list[i] = Listing(r, t) PROVE i = at
  <2>1. i \in 1..Cardinality(S)
    BY <1>1
  <2>2. InOrder(S)[i] = t
    BY <1>1, <1>4, <2>1, Names
  <2>3. QED
    BY <2>1, <2>2, InOrderRank
<1>5. at \in 1..Len(list)
  BY <1>1, <1>2
<1>6. (CHOOSE i \in 1..Len(list) : list[i] = Listing(r, t)) = at
  BY <1>3, <1>4, <1>5
<1>7. FromLast(list, Listing(r, t)) = After(list, at)
  BY <1>3, <1>6 DEF FromLast
<1>8. /\ Numbers(R) /\ Cardinality(R) = Cardinality(S) - at
      /\ Listings(r, R) \in Seq(ListingsOf(r)) /\ Len(Listings(r, R)) = Cardinality(R)
      /\ \A k \in 1..Cardinality(R) : Listings(r, R)[k] = Listing(r, InOrder(R)[k])
  <2>1. Numbers(R) /\ Cardinality(R) = Cardinality(S) - at
    BY LaterRank DEF Later, Numbers
  <2>2. QED
    BY <2>1, ListingsSeq
<1>9. /\ After(list, at) \in Seq(ListingsOf(r)) /\ Len(After(list, at)) = Len(list) - at
      /\ \A k \in 1..Len(list) - at : After(list, at)[k] = list[at + k]
  <2>1. \A i \in at + 1..Len(list) : list[i] \in ListingsOf(r)
    BY <1>1, <1>2, ElementOfSeq
  <2>2. at + 1 \in Int /\ Len(list) \in Int /\ at + 1 <= Len(list)
    BY <1>1, <1>3
  <2>3. /\ SubSeq(list, at + 1, Len(list)) \in Seq(ListingsOf(r))
        /\ Len(SubSeq(list, at + 1, Len(list))) = Len(list) - (at + 1) + 1
        /\ \A k \in 1..Len(list) - (at + 1) + 1 :
             SubSeq(list, at + 1, Len(list))[k] = list[at + 1 + k - 1]
    BY <2>1, <2>2, SubSeqProperties
  <2>4. After(list, at) = SubSeq(list, at + 1, Len(list))
    BY DEF After
  <2>5. Len(list) - (at + 1) + 1 = Len(list) - at
    BY <2>2, <1>2
  <2>6. ASSUME NEW k \in 1..Len(list) - at
        PROVE  SubSeq(list, at + 1, Len(list))[k] = list[at + k]
    <3>1. k \in 1..Len(list) - (at + 1) + 1 /\ at + 1 + k - 1 = at + k
      BY <1>2, <2>2, <2>5
    <3>2. QED
      BY <2>3, <3>1
  <2>7. QED
    BY <2>3, <2>4, <2>5, <2>6
<1>10. ASSUME NEW k \in 1..Cardinality(R)
       PROVE  After(list, at)[k] = Listings(r, R)[k]
  <2>1. InOrder(R)[k] = InOrder(S)[at + k]
    BY LaterInOrder
  <2>2. at + k \in 1..Cardinality(S) /\ k \in 1..Len(list) - at
    BY <1>1, <1>2, <1>8
  <2>3. After(list, at)[k] = Listing(r, InOrder(S)[at + k])
    BY <1>1, <1>9, <2>2
  <2>4. Listings(r, R)[k] = Listing(r, InOrder(R)[k])
    BY <1>8
  <2>5. QED
    BY <2>1, <2>3, <2>4
<1>11. Len(After(list, at)) = Len(Listings(r, R))
  BY <1>1, <1>8, <1>9
<1>12. Len(After(list, at)) = Cardinality(R)
  BY <1>8, <1>11
<1>13. After(list, at) = Listings(r, R)
  BY <1>8, <1>9, <1>10, <1>11, <1>12, SeqEqual
<1>14. QED
  BY <1>7, <1>13

\* A page is the whole of what is left, or the first n, or what boltdb makes of too large an n.
LEMMA Cutting ==
  ASSUME NEW N, NEW list, NEW last, NEW rest \in Seq(N), NEW n \in Nat,
         store \in {"boltdb", "dynamodb"}, FromLast(list, last) = rest
  PROVE  \/ GetTagList(list, n, last) = IF n = 0 \/ n > Len(rest) THEN rest ELSE First(rest, n)
         \/ store = "boltdb" /\ n > Len(rest)
<1>1. Len(rest) \in Nat /\ First(rest, Len(rest)) = rest
  BY LenProperties, SubSeqFull DEF First
<1>2. CASE store = "boltdb"
  BY <1>1, <1>2 DEF GetTagList, GetTagListBolt
<1>3. CASE store = "dynamodb"
  BY <1>1, <1>3 DEF GetTagList, GetTagListDynamo
<1>4. QED
  BY <1>2, <1>3

\* A page depends on what is left after `last' only.
LEMMA SamePage ==
  ASSUME NEW list, NEW n, NEW last, NEW other, FromLast(list, last) = FromLast(list, other)
  PROVE  GetTagList(list, n, last) = GetTagList(list, n, other)
BY DEF GetTagList, GetTagListBolt, GetTagListDynamo

\* Before the final tag the page comes from those after it; after the final tag, and for a
\* name that is not listed, from the whole list.
LEMMA Pages ==
  ASSUME NEW r, NEW n \in Nat, NEW t \in TagsOf(r) \cup {NoTag},
         store \in {"boltdb", "dynamodb"}
  PROVE  PageFollows(r, n, t)
<1> DEFINE S == TagsOf(r)
           list == Listings(r, S)
           rest == Listings(r, Later(S, t))
           page(last) == GetTagList(list, n, last)
           listed == IF t = NoTag THEN NoLast ELSE Listing(r, t)
           Page == \/ page(listed) = IF n = 0 \/ n > Len(rest) THEN rest ELSE First(rest, n)
                   \/ Len(list) > 0 /\ listed = list[Len(list)] /\ page(listed) = page(NoLast)
                   \/ store = "boltdb" /\ n > Len(rest)
           ByName == page(<<t>>) = page(IF store = "boltdb" THEN NoLast ELSE listed)
<1>1. Numbers(S) /\ NoTag \notin S
  BY TagsAreNumbers
<1>2. /\ list \in Seq(ListingsOf(r)) /\ Len(list) = Cardinality(S) /\ Cardinality(S) \in Nat
      /\ \A i \in 1..Cardinality(S) : list[i] = Listing(r, InOrder(S)[i])
  BY <1>1, ListingsSeq
<1>3. FromLast(list, NoLast) = list
  <2>1. \A i \in 1..Len(list) - 1 : list[i] # NoLast
    BY <1>2, Names
  <2>2. QED
    BY <2>1, FromLastNone
<1>4. ByName
  <2>1. CASE store = "boltdb"
    <3>1. ASSUME NEW i \in 1..Len(list) - 1 PROVE list[i] # <<t>>
      <4>1. i \in 1..Cardinality(S)
        BY <1>2
      <4>2. list[i] = Listing(r, InOrder(S)[i])
        BY <1>2, <4>1
      <4>3. QED
        BY <2>1, <4>2, Names
    <3>2. FromLast(list, <<t>>) = list
      BY <3>1, FromLastNone
    <3>3. QED
      BY <1>3, <2>1, <3>2, SamePage
  <2>2. CASE store # "boltdb" /\ t # NoTag
    BY <2>2, Names
  <2>3. CASE store # "boltdb" /\ t = NoTag
    <3>1. ASSUME NEW i \in 1..Len(list) - 1 PROVE list[i] # <<t>>
      <4>1. i \in 1..Cardinality(S)
        BY <1>2
      <4>2. InOrder(S)[i] # t
        BY <1>1, <2>3, <4>1, InOrderRank
      <4>3. list[i] = Listing(r, InOrder(S)[i])
        BY <1>2, <4>1
      <4>4. Listing(r, InOrder(S)[i]) = <<InOrder(S)[i]>> /\ Listing(r, t) = <<t>>
        BY <2>3, Names
      <4>5. QED
        BY <4>2, <4>3, <4>4, Names
    <3>2. FromLast(list, <<t>>) = list
      BY <3>1, FromLastNone
    <3>3. QED
      BY <1>3, <2>3, <3>2, SamePage
  <2>4. QED
    BY <2>1, <2>2, <2>3
<1>5. Page
  <2>1. CASE t = NoTag
    <3>1. Later(S, t) = S
      <4>1. \A u \in S : u \in Nat /\ u # 0 /\ t = 0
        BY <1>1, <2>1 DEF Numbers, NoTag
      <4>2. \A u \in S : u > t
        BY <4>1
      <4>3. QED
        BY <4>2 DEF Later
    <3>2. QED
      BY <1>2, <1>3, <2>1, <3>1, Cutting
  <2>2. CASE t \in S /\ Rank(S, t) # Cardinality(S)
    <3>1. FromLast(list, Listing(r, t)) = rest
      BY <1>1, <2>2, FromLastSome
    <3>2. Numbers(Later(S, t))
      BY <1>1, <2>2, LaterRank DEF Later, Numbers
    <3>3. rest \in Seq(ListingsOf(r))
      BY <3>2, ListingsSeq
    <3>4. listed = Listing(r, t)
      BY <1>1, <2>2
    <3>5. QED
      BY <3>1, <3>3, <3>4, Cutting
  <2>3. CASE t \in S /\ Rank(S, t) = Cardinality(S)
    <3>1. listed = Listing(r, t)
      BY <1>1, <2>3
    <3>2. Rank(S, t) \in 1..Cardinality(S) /\ InOrder(S)[Rank(S, t)] = t
      BY <1>1, <2>3, RankRange, InOrderIs
    <3>3. Len(list) > 0 /\ listed = list[Len(list)]
      BY <1>2, <2>3, <3>1, <3>2
    <3>4. ASSUME NEW i \in 1..Len(list) - 1 PROVE list[i] # listed
      <4>1. i \in 1..Cardinality(S) /\ i # Cardinality(S)
        BY <1>2
      <4>2. Rank(S, InOrder(S)[i]) = i
        BY <1>1, <4>1, InOrderRank
      <4>3. InOrder(S)[i] # t
        BY <2>3, <4>1, <4>2
      <4>4. QED
        BY <1>2, <3>1, <4>1, <4>3, Names
    <3>5. FromLast(list, listed) = list
      BY <3>4, FromLastNone
    <3>6. QED
      BY <1>3, <3>3, <3>5, SamePage
  <2>4. QED
    BY <2>1, <2>2, <2>3
<1>6. QED
  BY <1>4, <1>5 DEF PageFollows, TagList, Later

\* A page of the tag list is what follows `last', but after the final tag, when the list
\* starts over, and in boltdb past the end, for any number of tags and every limit
\* (bbolt.go:113, dynamo.go:230).
THEOREM PagesAlways == Spec => []PagesFollow
<1>1. IInv => PagesFollow
  <2> SUFFICES ASSUME IInv, NEW r \in Repos, NEW n \in Limit,
                      NEW t \in TagsOf(r) \cup {NoTag}
               PROVE  PageFollows(r, n, t)
    BY DEF PagesFollow
  <2>1. n \in Nat
    BY FS_CardinalityType, RegistryAssumption DEF Limit
  <2>2. store \in {"boltdb", "dynamodb"}
    BY DEF IInv, TablesOK
  <2>3. QED
    BY <2>1, <2>2, Pages
<1>2. QED
  BY <1>1, KnowledgeKept, PTL
===============================================================================
