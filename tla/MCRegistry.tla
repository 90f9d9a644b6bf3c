---- MODULE MCRegistry ----
(* Small instances of Registry for TLC. *)
EXTENDS Registry, TLC

CONSTANTS a, b, m1, m2, m3, r1, r2

MCLayers == {<<a>>, <<a, b>>}
MCManifests == {<<m1>>, <<m2>>, <<m3>>}
MCBodies == {<<>>, <<a>>, <<b>>}
\* m1 is an image, m2 and m3 are signatures of it
MCNeeds == (<<m1>> :> {<<a>>}) @@ (<<m2>> :> {}) @@ (<<m3>> :> {})
MCSubject == (<<m1>> :> Absent) @@ (<<m2>> :> <<m1>>) @@ (<<m3>> :> <<m1>>)
Mix(ops, repos, digests, tags, stores, faults, requests) ==
  [ops |-> ops, repos |-> repos, digests |-> digests, tags |-> tags, faults |-> faults,
   backends |-> {"filesystem", "s3"}, stores |-> stores, requests |-> requests]
MCMixes ==
  { \* chunks and commits of one upload
    Mix({"patch", "put"}, {r1}, {<<a>>, <<a, b>>}, {}, {"boltdb"}, {"client"}, 4),
    Mix({"patch", "put"}, {r1}, {<<a, b>>}, {}, {"boltdb"}, {"storage"}, 3),
    \* blobs in two repositories
    Mix({"post", "mount", "delete"}, {r1, r2}, {<<a>>, <<a, b>>}, {}, {"boltdb", "dynamodb"},
        {"client", "storage", "store", "kill"}, 3),
    \* an image with its layer
    Mix({"post", "manifest", "delete"}, {r1}, {<<a>>, <<m1>>}, {1}, {"boltdb", "dynamodb"},
        {"storage", "store", "kill"}, 4),
    \* signatures of an image
    Mix({"manifest"}, {r1}, {<<m2>>, <<m3>>}, {}, {"boltdb", "dynamodb"}, {"store"}, 3),
    \* tags
    Mix({"manifest", "untag", "delete"}, {r1}, {<<m2>>}, {1, 2, 3}, {"boltdb", "dynamodb"}, {}, 4) }
Symmetry == Permutations(Handlers) \cup Permutations(UploadIds)
====
