------------------------------ MODULE Registry ------------------------------
(***************************************************************************)
(* ctf-registry: manifests, tags and referrers (handler/manifest.go,       *)
(* handler/tag.go over store/boltstore and store/dynamostore), composed    *)
(* with the uploads of module Uploads.                                     *)
(*                                                                         *)
(* A push checks the layers, stores the manifest as a blob, associates it  *)
(* with the repository, moves the tag and adds a referrer, one call after  *)
(* the other; a failure or a death in between leaves what was done.        *)
(***************************************************************************)
EXTENDS Uploads

CONSTANTS
  Tags,      \* numbered in the order of their names
  Needs,     \* the blobs a manifest names as layers and config
  Subject,   \* the digest a manifest refers to, or None
  MaxBoots   \* bounds the model: how often the server is started

ASSUME RegistryAssumption ==
  /\ \A m \in Mixes :
       /\ m.ops \subseteq Ops /\ m.faults \subseteq FaultKinds
       /\ m.backends \subseteq {"filesystem", "s3"} /\ m.stores \subseteq {"boltdb", "dynamodb"}
       /\ m.tags \subseteq Tags
  /\ None \notin Chunks \cup Repos \cup UploadIds \cup Handlers
  /\ UploadIds \cap Handlers = {}
  /\ Bodies \cup Digests \subseteq Seq(Chunks)
  /\ Layers \cap Manifests = {} /\ <<>> \notin Digests
  /\ Tags \subseteq Nat \ {NoTag} /\ IsFiniteSet(Tags)
  /\ MaxLen \in Nat /\ MaxBoots \in Nat \ {0}
  /\ Needs \in [Manifests -> SUBSET Layers]
  /\ Subject \in [Manifests -> Manifests \cup {Absent}]

VARIABLES
  tag,        \* the digest a repository's tag names
  refs,       \* descriptors of the manifests that refer to a digest, in order
  boots,      \* history: starts of the server
  announced   \* history: referrers whose push was answered with 201

manifestVars == <<tag, refs, announced>>
vars == <<backend, store, mix, upload, blob, assoc, req, served, acked, raced, deleted,
          tag, refs, boots, announced>>

Init ==
  /\ InitUploads
  /\ tag = [k \in Repos \X Tags |-> Absent]
  /\ refs = [k \in Repos \X Manifests |-> <<>>]
  /\ boots = 1
  /\ announced = {}

-----------------------------------------------------------------------------
(* PutManifests *)

\* Under a tag or under its own digest.
PutManifestRequest(h) ==
  \E m \in Manifests, r \in Repos, t \in mix.tags \cup {NoTag} :
    /\ Begin(h, [Ask("manifest", "layers", r, m) EXCEPT !.tag = t, !.left = Needs[m]])
    /\ UNCHANGED manifestVars

\* Mutant: the answer is not looked at, only the error.
CheckLayersAnswered(h) ==
  /\ At(h, "layers")
  /\ \/ req[h].left = {} /\ GoTo(h, "save blob")
     \/ \E d \in req[h].left : Becomes(h, [req[h] EXCEPT !.left = @ \ {d}])
  /\ UNCHANGED <<blobVars, assoc, deleted, raced, served, manifestVars>>

\* Every layer and the config must be in the repository, one look at each.
CheckLayers(h) ==
  /\ At(h, "layers")
  /\ \/ req[h].left = {} /\ GoTo(h, "save blob")
     \/ \E d \in req[h].left :
          \/ InRepo(req[h].repo, d) /\ Becomes(h, [req[h] EXCEPT !.left = @ \ {d}])
          \/ (~InRepo(req[h].repo, d) \/ Fails("store")) /\ Finish(h)
  /\ UNCHANGED <<blobVars, assoc, deleted, raced, served, manifestVars>>

\* SaveBlob: a blob that exists is left alone; S3 takes any error for "does not exist".
SaveBlob(h) ==
  LET d == req[h].dig IN
  /\ At(h, "save blob")
  /\ \/ Stored(d) /\ GoTo(h, "associate")
     \/ (~Stored(d) \/ (backend = "s3" /\ Fails("storage"))) /\ GoTo(h, "write blob")
     \/ Fails("storage") /\ Finish(h)
  /\ UNCHANGED <<blobVars, assoc, deleted, raced, served, manifestVars>>

\* S3 writes an object as a whole; the filesystem truncates or creates the file ...
WriteBlob(h) ==
  LET d == req[h].dig IN
  /\ At(h, "write blob")
  /\ \/ /\ backend = "s3"
        /\ blob' = [blob EXCEPT ![d] = d]
        /\ GoTo(h, "associate")
     \/ /\ backend = "filesystem"
        /\ blob' = [blob EXCEPT ![d] = <<>>]
        /\ GoTo(h, "fill blob")
     \/ /\ Fails("storage")
        /\ blob' \in {blob, [blob EXCEPT ![d] = IF backend = "s3" THEN d ELSE <<>>]}
        /\ Finish(h)
  /\ UNCHANGED <<upload, acked, assoc, deleted, raced, served, manifestVars>>

\* Mutant: an error of the write is not looked at.
FillBlobUnchecked(h) ==
  /\ At(h, "fill blob")
  /\ blob' \in {blob, [blob EXCEPT ![req[h].dig] = req[h].dig]}
  /\ GoTo(h, "associate")
  /\ UNCHANGED <<upload, acked, assoc, deleted, raced, served, manifestVars>>

\* ... and then writes it.
FillBlob(h) ==
  LET d == req[h].dig IN
  /\ At(h, "fill blob")
  /\ \/ blob' = [blob EXCEPT ![d] = d] /\ GoTo(h, "associate")
     \/ Fails("storage") /\ Finish(h) /\ UNCHANGED blob
  /\ UNCHANGED <<upload, acked, assoc, deleted, raced, served, manifestVars>>

AddManifest(h) ==
  /\ At(h, "associate")
  /\ \/ assoc' = assoc \cup {<<req[h].repo, req[h].dig>>} /\ GoTo(h, "tag")
     \/ Fails("store") /\ Finish(h) /\ assoc' \in {assoc, assoc \cup {<<req[h].repo, req[h].dig>>}}
  /\ UNCHANGED <<blobVars, deleted, raced, served, manifestVars>>

SaveTag(h) ==
  LET k == <<req[h].repo, req[h].tag>> IN
  /\ At(h, "tag")
  /\ \/ req[h].tag = NoTag /\ GoTo(h, "refer") /\ UNCHANGED tag
     \/ req[h].tag # NoTag /\ tag' = [tag EXCEPT ![k] = req[h].dig] /\ GoTo(h, "refer")
     \/ /\ req[h].tag # NoTag /\ Fails("store")
        /\ tag' \in {tag, [tag EXCEPT ![k] = req[h].dig]}
        /\ Finish(h)
  /\ UNCHANGED <<blobVars, assoc, deleted, raced, served, refs, announced>>

\* The push is answered with 201.
Created(h) ==
  /\ Finish(h)
  /\ announced' = IF Subject[req[h].dig] = Absent THEN announced
                  ELSE announced \cup {<<req[h].repo, req[h].dig>>}

\* Mutant: boltdb reads the list in a transaction of its own.
AddReferenceTwoTransactions(h) ==
  /\ At(h, "refer")
  /\ \/ Subject[req[h].dig] = Absent /\ Created(h)
     \/ /\ Subject[req[h].dig] # Absent
        /\ Becomes(h, [req[h] EXCEPT !.place = "put refs",
                                     !.seen = refs[<<req[h].repo, Subject[req[h].dig]>>]])
        /\ UNCHANGED announced
  /\ UNCHANGED <<refs, blobVars, assoc, deleted, raced, served, tag>>

\* AddReference: the list is read, added to and written back, in one transaction of
\* boltdb ...
AddReference(h) ==
  LET m == req[h].dig
      k == <<req[h].repo, Subject[m]>> IN
  /\ At(h, "refer")
  /\ \/ Subject[m] = Absent /\ Created(h) /\ UNCHANGED refs
     \/ /\ Subject[m] # Absent /\ store = "boltdb"
        /\ refs' = [refs EXCEPT ![k] = Append(@, m)]
        /\ Created(h)
     \/ /\ Subject[m] # Absent /\ store = "dynamodb"
        /\ Becomes(h, [req[h] EXCEPT !.place = "put refs", !.seen = refs[k]])
        /\ UNCHANGED <<refs, announced>>
     \/ Subject[m] # Absent /\ Fails("store") /\ Finish(h) /\ UNCHANGED <<refs, announced>>
  /\ UNCHANGED <<blobVars, assoc, deleted, raced, served, tag>>

\* ... and in a get and a put of dynamodb.
PutReferences(h) ==
  LET m == req[h].dig
      k == <<req[h].repo, Subject[m]>> IN
  /\ At(h, "put refs")
  /\ \/ refs' = [refs EXCEPT ![k] = Append(req[h].seen, m)] /\ Created(h)
     \/ /\ Fails("store")
        /\ refs' \in {refs, [refs EXCEPT ![k] = Append(req[h].seen, m)]}
        /\ Finish(h) /\ UNCHANGED announced
  /\ UNCHANGED <<blobVars, assoc, deleted, raced, served, tag>>

PutManifests(h) == \/ PutManifestRequest(h) \/ CheckLayers(h) \/ SaveBlob(h) \/ WriteBlob(h)
                   \/ FillBlob(h) \/ AddManifest(h) \/ SaveTag(h) \/ AddReference(h)
                   \/ PutReferences(h)

-----------------------------------------------------------------------------
(* DeleteManifests by tag; by digest it is DeleteBlob *)

DeleteTagRequest(h) ==
  \E r \in Repos, t \in mix.tags :
    /\ Begin(h, [Ask("untag", "find", r, <<>>) EXCEPT !.tag = t])
    /\ UNCHANGED manifestVars

DeleteTagFind(h) ==
  LET k == <<req[h].repo, req[h].tag>> IN
  /\ At(h, "find") /\ req[h].op = "untag"
  /\ \/ tag[k] # Absent /\ store = "boltdb" /\ tag' = [tag EXCEPT ![k] = Absent] /\ Finish(h)
     \/ tag[k] # Absent /\ store = "dynamodb" /\ GoTo(h, "remove tag") /\ UNCHANGED tag
     \/ (tag[k] = Absent \/ Fails("store")) /\ Finish(h) /\ UNCHANGED tag
  /\ UNCHANGED <<blobVars, assoc, deleted, raced, served, refs, announced>>

\* Whatever the tag names by now.
DeleteTagRemove(h) ==
  /\ At(h, "remove tag")
  /\ \/ tag' = [tag EXCEPT ![<<req[h].repo, req[h].tag>>] = Absent]
     \/ Fails("store") /\ UNCHANGED tag
  /\ Finish(h)
  /\ UNCHANGED <<blobVars, assoc, deleted, raced, served, refs, announced>>

DeleteTag(h) == DeleteTagRequest(h) \/ DeleteTagFind(h) \/ DeleteTagRemove(h)

-----------------------------------------------------------------------------

\* The server dies: requests are lost where they are, files and tables stay.
Restart ==
  /\ Fails("kill") /\ boots < MaxBoots
  /\ \E h \in Handlers : req[h] # Idle
  /\ boots' = boots + 1
  /\ req' = [h \in Handlers |-> Idle]
  /\ UNCHANGED <<blobVars, assoc, deleted, raced, served, manifestVars>>

Next ==
  /\ UNCHANGED <<backend, store, mix>>
  /\ \/ \E h \in Handlers :
          /\ \/ UploadNext(h) /\ UNCHANGED manifestVars
             \/ PutManifests(h) \/ DeleteTag(h)
          /\ UNCHANGED boots
     \/ Restart

Spec == Init /\ [][Next]_vars
-----------------------------------------------------------------------------
(* GET *)

\* By digest or by tag; the bytes are not verified.
ReadBlob(d) == blob[d]
ReadTag(r, ref) == IF ref \in Tags THEN tag[<<r, ref>>] ELSE Absent
ByDigest(r, d) == IF d \in Digests /\ InRepo(r, d) THEN ReadBlob(d) ELSE Absent
GetManifests(r, ref) == ByDigest(r, ReadTag(r, ref))

GetReferrers(r, d) == refs[<<r, d>>]

\* Tags in order: the i-th has i of them up to itself.
InOrder(tags) ==
  [i \in 1..Cardinality(tags) |->
     CHOOSE t \in tags : Cardinality({u \in tags : u <= t}) = i]

\* A repository's tags in order, as the store names them: boltdb lists its whole keys,
\* repository and tag.
TagsOf(r) == {t \in Tags : tag[<<r, t>>] # Absent}
Listing(r, t) == IF store = "boltdb" THEN <<r, t>> ELSE <<t>>
Listings(r, tags) == [i \in 1..Cardinality(tags) |-> Listing(r, InOrder(tags)[i])]
TagList(r) == Listings(r, TagsOf(r))

Limit == {0} \cup 1..Cardinality(Tags) + 1  \* n; 0: not given
NoLast == <<>>
After(list, i) == SubSeq(list, i + 1, Len(list))
First(list, n) == SubSeq(list, 1, n)

\* Mutant: the page starts with `last'.
FromLastAgain(list, last) ==
  IF \E i \in 1..Len(list) - 1 : list[i] = last
  THEN After(list, (CHOOSE i \in 1..Len(list) : list[i] = last) - 1) ELSE list

\* What is left of the list after `last'; all of it if `last' is not there or at the end.
FromLast(list, last) ==
  IF \E i \in 1..Len(list) - 1 : list[i] = last
  THEN After(list, CHOOSE i \in 1..Len(list) : list[i] = last) ELSE list

\* boltdb cuts whatever the length: past the end the cut fails, or hands out empty
\* names where the list's memory is longer than the list.
Cut == << <<>> >>
GetTagListBolt(list, n, last) ==
  LET rest == FromLast(list, last) IN
  CASE n = 0         -> rest
    [] n > Len(rest) -> Cut
    [] OTHER         -> First(rest, n)

GetTagListDynamo(list, n, last) ==
  LET rest == FromLast(list, last) IN
  IF n > 0 /\ Len(rest) > n THEN First(rest, n) ELSE rest

GetTagList(list, n, last) ==
  IF store = "boltdb" THEN GetTagListBolt(list, n, last) ELSE GetTagListDynamo(list, n, last)

-----------------------------------------------------------------------------
(* Properties *)

Contents == Seq(Chunks)
Files == {NoFile} \cup {InUpload(u) : u \in UploadIds \cup Handlers} \cup {InBlob(d) : d \in Digests}
Places == {"size", "write", "copy", "save", "verify", "place", "rename", "get", "put", "clean",
           "link", "find", "unlink", "layers", "save blob", "write blob", "fill blob",
           "associate", "tag", "refer", "put refs", "remove tag"}
Request == [op : Ops, place : Places, repo : Repos \cup {None}, from : Repos \cup {None},
            up : UploadIds \cup Handlers \cup {None}, dig : Digests \cup {<<>>},
            body : Contents, start : {NoOffset} \cup 0..MaxLen, file : Files,
            tag : Tags \cup {NoTag}, left : SUBSET Layers, seen : Seq(Manifests)]

\* Every variable has its type, and a descriptor's file is there under its name.
TypeOK ==
  /\ upload \in [UploadIds \cup Handlers -> Contents \cup {Absent}]
  /\ blob \in [Digests -> Contents \cup {Absent}]
  /\ assoc \subseteq Repos \X Digests /\ deleted \subseteq Repos \X Digests
  /\ req \in [Handlers -> Request \cup {Idle}]
  /\ \A h \in Handlers, u \in UploadIds \cup Handlers :
       req[h].file = InUpload(u) => upload[u] # Absent
  /\ \A h \in Handlers, d \in Digests : req[h].file = InBlob(d) => blob[d] # Absent
  /\ acked \in [UploadIds -> Nat] /\ raced \subseteq UploadIds
  /\ tag \in [Repos \X Tags -> Manifests \cup {Absent}]
  /\ refs \in [Repos \X Manifests -> Seq(Manifests)]
  /\ announced \subseteq Repos \X Manifests
  /\ boots \in 1..MaxBoots

\* The registry keeps the promise of ContentStore over every interleaving and failure:
\* a repository never has a blob that is not stored; a stored blob is never lost, and on
\* S3 its content is always the one its digest names.
Promise == INSTANCE ContentStore WITH
             careless <- backend = "filesystem",
             stored <- {d \in Digests : blob[d] # Absent},
             intact <- {d \in Digests : blob[d] = d},
             linked <- assoc
KeepsPromise == Promise!Spec

\* GET answers with a layer whose content is not what its digest names, which it finds
\* out after it has sent it, only on the filesystem and only if two requests have worked
\* on one upload at once: CommitBlob renames what another has changed since it was
\* verified, or a PATCH goes on writing after the rename (filesystem.go:105).
LayersIntact ==
  \A r \in Repos, d \in Layers :
    GetBlobs(r, d) \notin {Absent, d} => backend = "filesystem" /\ raced # {}

\* A tag leads to an incomplete manifest only while a push writes it, or after a write
\* that failed or died: SaveBlob leaves what it finds alone (filesystem.go:117).
ManifestsIntact ==
  \A r \in Repos, t \in Tags :
    GetManifests(r, t) \notin {Absent, ReadTag(r, t)} =>
      /\ backend = "filesystem"
      /\ \/ \E h \in Handlers : At(h, "fill blob") /\ req[h].dig = ReadTag(r, t)
         \/ boots > 1 \/ Fails("storage")

\* A chunk that was answered with 202 is in its upload for as long as that is there.
\* Only S3 may lose it, to another request on the upload or to a read that failed
\* (s3.go:129).
AckedKept ==
  \A u \in UploadIds : upload[u] # Absent /\ Len(upload[u]) < acked[u] =>
    backend = "s3" /\ (u \in raced \/ Fails("storage"))

\* What a manifest or a tag of a repository names is in the repository, unless a DELETE
\* has removed it: no push, whatever fails or comes in between, leaves a manifest
\* without its layers or a tag without its manifest.
MissingWasDeleted ==
  /\ \A r \in Repos, m \in Manifests, d \in Layers :
       <<r, m>> \in assoc /\ d \in Needs[m] => <<r, d>> \in assoc \cup deleted
  /\ \A r \in Repos, t \in Tags :
       tag[<<r, t>>] # Absent => <<r, tag[<<r, t>>]>> \in assoc \cup deleted

Listed(r, m) ==
  LET list == GetReferrers(r, Subject[m]) IN \E i \in 1..Len(list) : list[i] = m
LostReferrer(r, m) == <<r, m>> \in announced /\ ~Listed(r, m)

\* A referrer whose push was answered with 201 stays listed.  Only dynamodb may lose it,
\* to a push that had read the list before (dynamo.go:296).
LostReferrerStep ==
  \A r \in Repos, m \in Manifests : LostReferrer(r, m)' /\ ~LostReferrer(r, m) =>
    /\ store = "dynamodb"
    /\ \E h \in Handlers : /\ At(h, "put refs") /\ req[h].repo = r
                           /\ Subject[req[h].dig] = Subject[m]
                           /\ req[h].seen # refs[<<r, Subject[m]>>]
ReferrersKept == [][LostReferrerStep]_vars

\* A page of the tag list is what follows `last', a tag as it was listed, at most n of
\* them ("limit(default: -1), last: optional", store.go:12).  It is not after the final tag,
\* when the list starts over (bbolt.go:127, dynamo.go:269), and in boltdb past the end of
\* the list.  Given by the tag's own name, boltdb never finds `last' (bbolt.go:126).
PageFollows(r, n, t) ==
  LET list == TagList(r)
      rest == Listings(r, {u \in TagsOf(r) : u > t})
      page(last) == GetTagList(list, n, last)
      listed == IF t = NoTag THEN NoLast ELSE Listing(r, t) IN
  /\ \/ page(listed) = IF n = 0 \/ n > Len(rest) THEN rest ELSE First(rest, n)
     \/ Len(list) > 0 /\ listed = list[Len(list)] /\ page(listed) = page(NoLast)
     \/ store = "boltdb" /\ n > Len(rest)
  /\ page(<<t>>) = page(IF store = "boltdb" THEN NoLast ELSE listed)
PagesFollow ==
  \A r \in Repos, n \in Limit : \A t \in TagsOf(r) \cup {NoTag} : PageFollows(r, n, t)
=============================================================================
