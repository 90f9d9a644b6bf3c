# A verification of quickctf

quickctf is a capture-the-flag platform: players start instances of challenges
(Docker containers), submit flags and see the ranking; admins write challenges,
upload attachments and have images built from archives. This directory holds TLA+
models of its services, the instances TLC checks, and theorems about the models
that TLAPS checks. Paths below are relative to the repository.

## 1. Inventory

    browser -> ctf-server -> ctf-manager -> ctf-runner (one per host) -> Docker
                   |  |           |                                        |
                   |  |         MySQL (manager's table)                    |
                   |  MySQL (server's tables), S3 (attachments, logs)      |
                   Redis (queue, results, log channel)                     |
                      |                                                    |
                 ctf-builder -> Docker build -> ctf-registry  <--- pull ---+

| component | code | state | operations | what is hard |
|---|---|---|---|---|
| runner | `ctf-runner/service` | `usedPorts` in memory; the daemon's containers | Start, Stop, Destroy, Status, logs | no lock on `usedPorts`; several Docker calls per request; memory lost at a restart |
| manager | `ctf-manager` | instance table, `nextRunner`, mutex, connections | Start, Stop, Destroy, Status, log streams, Cleanup at SIGTERM | row and container change in separate steps, either fails; lock taken twice; a stream that outlasts a shutdown |
| player instances | `ctf-server/usecase/client_challenge.go` | the server's own instance table | Start, Stop, Status | look up, call the manager, write: no transaction; a second table that should agree with the manager's; addresses that are used again |
| flags and challenges | `client_challenge.go`, `admin_service.go` | challenges, submissions | SubmitFlag; create, edit, delete a challenge | check, then insert; admin edits in between |
| build pipeline | `builder_client.go`, `ctf-builder`, `StreamBuildLog` | Redis list and keys, local image tag, registry tag | enqueue, work, report, publish, stream | queue and status written in separate commands, each of which the client may send twice; shutdown in mid-job; subscribe after look; keys that expire |
| build logs | `ctf-builder/storage`, `ctf-server/infrastructure/storage` | S3 objects | put, get | best effort |
| sessions | `user_auth.go`, `admin_auth.go`, `auth_interceptor.go` | users and sessions tables | Register, Login, Logout, AdminLogin, AdminLogout, the interceptor | session read once per call; expiry, logout and a second admin call in between |
| attachments | `admin_service.go`, `s3.go` | attachments and challenges tables, S3 objects | upload, delete, sign URL; delete a challenge | object and row in two steps, with a compensation; the key is shared by equal file names; cascades |
| registry, blobs | `ctf-registry/handler/blob*.go`, `storage/*` | uploads, blobs, repositories' blobs | POST, PATCH, PUT, mount, GET, DELETE | verify, then rename; a descriptor that follows the file; read, add and write back on S3 |
| registry, manifests | `handler/manifest.go`, `handler/tag.go`, `store/*` | tags, references | PUT, GET, DELETE, list, referrers | five calls in turn, each may fail; read, add and write back on DynamoDB; paging |
| the rest | handlers, generated code, client, logging, connections | none of their own | conversion | - |

What makes each correct:

- runner: a port is in use by at most one instance and comes back when the instance
  is gone; ids are given out for containers that were started.
- manager: a row for each container and a container for each row; a state column that
  does not contradict the container; runners take turns; requests and shutdown end.
- player instances: a player reaches no one else's instance; one instance for a player
  and challenge; no container that nobody can reach; the server's id is the manager's.
- flags: points once; a solve is for good; no submission without its challenge.
- builds: each job built as often as it was pushed; every job ends with a final result that stays; the
  registry serves what is reported; a log stream ends.
- sessions: what is admitted was logged in and is not expired; admin only after activation.
- attachments: every row has its object, no object stays behind; changes are an admin's.
- registry: a blob's content has its digest and stays; a chunk that was accepted stays;
  a manifest's layers are there, its tags and referrers lead to it.

`PROJECT.json` lists the hazards one by one at the line where they bite, with the
property that covers each, or the reason none does yet.

## 2. Modules

| module | what it models | extends |
|---|---|---|
| `Runner` | ctf-runner and its Docker daemon | |
| `RunnerProofs` | theorems about `Runner` | `Runner`, `TLAPS` |
| `Manager` | ctf-manager, its table, mutex, log streams, shutdown, the runners' answers | |
| `Leases` | the abstract specification: the life of an instance as the manager's callers may rely on it | |
| `ManagerProofs` | theorems about `Manager`, among them the refinement of `Leases` | `Manager`, `FiniteSetTheorems`, `TLAPS` |
| `Instances` | ctf-server's player instances, the manager's answers | |
| `CalmInstances` | the behaviours of `Instances` in which a player asks for one thing at a time of a challenge | `Instances` |
| `InstancesProofs` | theorems about `Instances` and `CalmInstances` | `CalmInstances`, `TLAPS` |
| `BuildQueue` | Redis with lost answers and expiring keys, workers, daemon tag, registry tag, log streams | |
| `JobBoard` | the abstract specification: the builds as an admin may rely on them | |
| `BuildQueueProofs` | theorems about `BuildQueue`, among them the refinement of `JobBoard` | `BuildQueue`, `SequenceTheorems`, `FiniteSetTheorems`, `TLAPS` |
| `Submissions` | SubmitFlag and the admin's challenges | |
| `SubmissionsProofs` | theorems about `Submissions` | `Submissions`, `TLAPS` |
| `Sessions` | accounts, sessions and the interceptor; no behaviour of its own | |
| `Attachments` | attachments and their challenges, behind the interceptor of `Sessions`; the specification of both | `Sessions` |
| `AttachmentsProofs` | theorems about `Attachments` | `Attachments`, `TLAPS` |
| `Uploads` | ctf-registry's uploads and blobs on both storages; no behaviour of its own | |
| `Registry` | manifests, tags, referrers and tag lists on both stores; the specification of the whole registry | `Uploads` |
| `RegistryProofs` | theorems about `Registry`: types, tables, the refinement of `ContentStore` | `Registry`, `SequenceTheorems`, `TLAPS` |
| `RegistryContentProofs` | theorems about the contents `Registry` serves | `RegistryProofs` |
| `ContentStore` | the abstract specification: what the registry promises of blobs | |
| `MC*` | the instances for TLC: symmetry, bounds and the mixes of clients of `MCRegistry`; constants are in the `.cfg` files | the module |

Every module sees the services below it through the answers they can give, so that
each service is checked with every behaviour of the next: `Instances` gives the manager
more freedom than `Manager` has, `Manager` gives a runner more than `Runner` has.

A definition beginning with `\* Mutant:` is a plausible slip in the operator after it,
no part of the model; each property is violated when one of them takes the place of the
original, which shows that the property depends on that piece of code.

### Runner

A handler `h` is a goroutine serving an RPC; `pc[h]` is the statement it is at. `used` is
`usedPorts`; each loop iteration that reads a slot and the write that marks it are steps
of their own, because nothing locks the slice (selectPort and freePort race; a racing
write of a boolean has no other outcome than one of the orders). Each call to Docker is
a step. `docker` is the daemon: status, the host port asked for, the one published. A
container that is not running has no binding, Docker does not publish a port twice, and
host port 0 means any port - which is what an unset `MIN_OPEN_PORT` asks for. `Restart`
is a new process: `used` is fresh, the containers are as they were. `slot`, `target` and
`seen` are the handlers' local variables; `known` is what callers have been told.

### Manager

`req[h]` is a request: operation, place, instance, the state column it read (`snap`), the
runner's answer (`reply`). `row`/`at` is the table, `box` the instance's container. `mu`
is held only by `CleanupLock` to be visible: `selectRunner` holds it for one step.
`CleanupFindAll` is the body of Cleanup: with a row it blocks in `getRunnerByURL`
(`phase = "stuck"`) since a `sync.RWMutex` is not reentrant, and only `Kill` leaves. Update
writes the state column of a row that is there; an insert, update or delete that fails is
logged and the answer is "success" all the same.

StreamInstanceLogs is a request that begins like the others (`FindByID`, `GetRunnerByURL`) and
then stays at `follow`: the lines it forwards are not modelled, only what ends it - the log ends
with its container or with the connection to the runner (`LogsEnd`), or the caller hangs up
(`LogsHangUp`). `GracefulStop` waits for every request, and so for such a stream: when Cleanup
found no row it has closed the connections, and the stream fails; when its query failed they are
left open, and the process ends with the container or the caller's interest (`HeldOpen`).

`Leases` is the abstract specification: an instance is `none`, `live`, `ended`, `over` or
`lost`, and its id has been `told` or not. `Manager` implements it with `told` as it is and
`lease[i]` as `LeaseOf(i)`:

    none    no container, or its start is under way and has no row yet
    live    a row and a running container
    ended   a row and a container that has ended
    over    the container has been removed, whether or not the row is left
    lost    a container, no row, and no start under way

A step of the manager is a step of one instance, or of several when the process dies. Being
`lost` comes right after `none` and only when a call can fail or the process be stopped
(`Losing`): failures of a stop or of a removal, and programs that end, lose nothing.

### Instances

`row` is the server's table keyed by `instance_id`; `addr` is the row's host and port, `started`
is `started_at` (of two rows with the same second either comes first). `address` is where the
container of an id was published: the addresses are a small set and are used again, as a
runner's ports are. Docker gives a port to one running container of its host at a time, so two
that run have two addresses, unless there are runners on several hosts: each of them says
"localhost" (`runner.go:166`), and then two may answer under one address (`"hosts"` in `Faults`,
which no run allows: `docker-compose.yml:146` has one runner). A container that ended before the
runner looked for its port has none. `mgr` says what the manager and the runner have for an
id: row and container (`live`, `ended`), a container only (`lost`), a row only (`ghost`).
`owner` records for whom an id was started: it is not in the code and no guard reads it.
A restart calls the manager again, drops the id it returns and writes the new host and
port under the old one, as the code does. The status update writes back the copy read
before the call, host and port included.

What a player is shown is the row as the status request read it (`copy`). `OwnInstancesOnly`
says that it is an address some instance of the player's was started at, and that as long as
the row's instance runs it is that instance's and nobody else answers there. It does not say
more, because the code does not do more: a row outlives its instance after a failed delete, a
lost answer or when the program in the container ends, is shown still, and the port may by then
be another player's.

### BuildQueue

Jobs are numbered by their first RPush. Redis executes commands one at a time, so each command
is a step: RPush, the job's info, LPush, LTrim, the initial status. It executes a command while
the caller waits for it, or not at all. An answer can be lost though the command was executed
(`AnswerLost`, `MaxLost` times): go-redis then sends it again, up to three times by default
(neither `builder_client.go:66` nor `redis.go:30` sets MaxRetries), or gives up. So a job can be
in the queue twice (`PushAgain`; `pushes` counts its RPushes), twice in the list, and a worker's
status be written again (`ReportAgain`). An EnqueueBuild that gives up after an RPush that was
executed tells the admin of a failure while the job is in the queue.

`ExpireResult` and `ExpireInfo` let a key run out: a worker's status is kept for a day
(`ctf-builder/queue/redis.go:94`), the initial status and the info for seven
(`builder_client.go:120`, 140). A key does not run out between two commands of EnqueueBuild or of
a report, nor a final status under a stream that reads it every two seconds: a day is longer than
these. `lapsed` and `expired` tell a key that ran out from one that never was, and an unfinished
status from a final one; `ListBuildLogs` and `OpenStream` see both as absent.

`worker[w]` is a
builder process: `cancelled` is its context after SIGTERM, looked at between jobs only,
and a cancelled context makes every later Redis write fail. `image` is what the local tag
names, `registry` what the registry serves: all jobs are for one challenge. `watch` is a
StreamBuildLog call: it looks at the result, subscribes, then waits for a message or the
two-second poll. A message is delivered to whoever is subscribed when it is published.

`JobBoard` is the abstract specification: jobs are posted, taken in turn, settled when their
builder is through with them or gone, and an admin is told of a verdict. `Board` maps the
queue to the jobs that wait, a worker's job to the one being built from the answer of BLPop
to the report of the result, a final status to the verdict, and what a log stream ends with to
what is told. `Drop` is an answer of BLPop that Redis loses, a second `Post` an RPush sent again.
`Void` is the late initial status: the verdict of a settled job goes, also when a stream has
shown it already, for the list shows a job before its initial status is written. `Expire` is a key
that runs out, `Renew` a report that is sent again, with the verdict an admin may have been told.
Of a job that was pushed twice the board promises only that it is taken in turn: what its second
builder writes replaces what was there (`Muddle`).

### Submissions

`flag` is the challenges table, `subs` the correctness of a user's rows, newest first.
SubmitFlag is three statements: challenge, earlier submissions, insert. The flag is
compared with the copy from the first. Foreign keys are guards: an insert for a challenge
that is gone fails, and so does deleting a challenge that has submissions. `late` is not
in the code: it marks a request that came after its pair was solved.

### Sessions and Attachments

`users` and `sessions` are the tables (a session's row is its `is_admin`), `given` the
tokens that logins made, `old` those past their `expires_at`, `out` those whose Logout was
answered; nothing in the model reads `out`. A call with a token goes through
`FindByToken`: the row is read once, an expired one is deleted and refused, and what the
handler goes on with is the copy (`admin`). AdminLogin and AdminLogout write the flag only
if the copy says otherwise. A procedure for admins begins with `requireAdminSession` on the
copy. A statement has the outcomes of `Outcomes`: executed and answered, not executed, or
executed and answered with an error; the last two are also what a caller who has gone makes
of the rest of his call. `late` is not in the code: it marks a call that came after its
token had expired or its Logout had been answered.

`objects[k]` is the upload whose bytes the bucket has under `k`, a challenge and a filename
(`helpers.go:21`). UploadAttachment is four steps (challenge, object, row, and the
compensation when the row was refused), DeleteAttachment three. The foreign keys are in
`InsertRow` (a challenge that is gone) and `DeleteChallenge` (the rows go with it). An id
stands for an upload from its request on, so that bytes can be told apart by it.

### Uploads and Registry

A blob is the sequence of its chunks and its digest is that sequence: two contents have one
digest exactly when they are equal. `backend` and `store` are the two environment
variables. `upload` and `blob` are the two directories or prefixes, `assoc` the table of
repositories' blobs, `tag` and `refs` the other two. `req[h]` is a request with its
local variables; `file` is its descriptor, which on the filesystem follows the file: a
commit renames it while another request writes on (`InBlob`), or removes its name
(`NoFile`). Each call of a storage or a store is a step, and a step of its own each read and
each write inside it that another request can come between; a transaction of BoltDB is one
step. On the filesystem a PATCH is one write. A call fails if the run's mix allows it, and a
write that failed may have been done. `acked`, `raced`, `deleted` and `announced` are not in
the code: chunks answered with 202, uploads on which two requests worked at once,
associations a DELETE removed and referrers answered with 201.

`GetManifests`, `GetReferrers`, `GetBlobs` and `GetTagList` change nothing and are operators;
the properties say what they answer in every state that is reached.

`ContentStore` is the abstract specification of the blobs: a digest is stored, and then
stays; it is linked to a repository when it is stored; and the content is intact unless
the store is `careless`. `Registry` implements it under the mapping

    careless <- backend = "filesystem"
    stored   <- {d \in Digests : blob[d] # Absent}
    intact   <- {d \in Digests : blob[d] = d}
    linked   <- assoc

so S3 never has content under a wrong digest and the filesystem may: a descriptor writes
on after the rename, and a manifest is truncated before it is written. `LayersIntact` and
`ManifestsIntact` say when.

## 3. What the runs check

`f` in the tables stands for `Faults`, the outside failures a run allows.

| run | instance | properties | what it shows |
|---|---|---|---|
| `runner` | 2 requests, 3 containers, ports 0-1 with 1 and 9 as Docker's choice for 0, every f, 1 restart (2.6 M states) | `TypeOK`, `HandlersConsistent`, `LeakCauses`, `UnreservedCauses` | ids are given out only for containers that started; a slot is lost only when a start fails after selectPort, when an instance stops before it is destroyed, or when port 0 was asked for; a taken slot looks free only after a restart, a failed removal, or a freePort that hits another's slot |
| `manager` | 2 requests, 2 instances, 2 runners, every f, 1 restart (2.0 M) | `TypeOK`, `StoppedIsStopped`, `Balanced`, `OrphanCauses`, `GhostCauses`, `KeepsLeases` | "stopped" is never said of a running container, starts take turns; the few causes for which a row and its container part; the manager implements `Leases`: a row is written only after its runner succeeded, and its container is in reach from then on until it is removed |
| `manager_live` | 2 requests, 2 instances, 1 runner, f = db, sigterm (515 k) | `AnsweredUnlessStuck`, `ShutdownUnlessStuck` | every request ends and so does every shutdown, unless Cleanup has locked itself out or a log stream follows a container that runs, over a connection that Cleanup has not closed |
| `manager_shutdown` | 1 request, 1 instance, f = sigterm | `ShutdownCompletes` (violated) | finding 1 |
| `instances` | 2 requests, 2 pairs, 2 addresses, 2 ids, every f but hosts; or calm (requests for one pair in turn, f without db and odd) with 3 ids (2.6 M) | `TypeOK`, `OwnInstancesOnly`, `OneRowWhenCalm`, `StrandedCauses` | whatever interleaves and fails, a player holds ids and is shown addresses of instances of their own only, and the address of an instance that runs is its own, though addresses are used again; a container is stranded only by a failed or lost start, a restart, a failed insert or a death, or a false "destroyed"; a player has one row for a challenge while his requests for it come one after the other and the database answers, whatever others do beside |
| `instances_restart` | 1 request, 1 pair, 2 ids, 2 addresses, f = exit | `SameAsManager` (violated) | finding 2 |
| `build` | 2 workers, 2 jobs, one of them with a stream, 1 lost answer, every f but sigterm and abandon (1.2 M up to `View`) | `TypeOK`, `ShownIsResult`, `ResultCauses`, `KeepsBoard` | the pipeline implements `JobBoard`: jobs are built in the order of their RPush and as often as they were pushed, also when workers die; a final result is rewritten only by the late initial status, its expiry, and the second build of a job whose RPush was sent again; but for these the status a log stream ends with is the job's result and stays so |
| `build_calm` | 1 worker, 2 jobs, list of 1, f = abandon, build, push, sigterm, expire (920 k) | `KeepsMaxListed`, `ForgottenCauses`, `LatestServed`, `StreamEnds` | a failed build or push is reported, only a shutdown or the late initial status forgets a job; the registry never goes back; the newest jobs are listed until their keys expire; streams end |
| `submissions` | 3 requests, 2 users, 1 challenge, 2 flags, 4 rows, f = db (150 k) | `TypeOK`, `LateNeverStored`, `NoDanglingRow`, `SolvedForGood` | a request after the solve stores nothing although earlier ones still may; no row without its challenge; a solve stays |
| `registry` | 2 requests at a time, 3 or 4 in all, 6 mixes of operations and f, both storages and stores, 1 restart (419 k) | `TypeOK`, `LayersIntact`, `ManifestsIntact`, `AckedKept`, `MissingWasDeleted`, `PagesFollow`, `KeepsPromise`, `ReferrersKept` | the registry implements `ContentStore`; wrong content is served only from the filesystem and only after a race on an upload or a broken write of a manifest; an accepted chunk is lost on S3 only; nothing but a DELETE leaves a manifest without its layers; a referrer is lost on DynamoDB only; a page of tags follows the one before except past the ends |
| `attachments` | 2 calls, 1 account, 2 tokens, 1 challenge, 2 filenames, 2 uploads, every f (1.56 M) | `TypeOK`, `AuthorisedChanges`, `DeadCauses`, `OrphanCauses` | challenges and files change on behalf of admitted admins only, never for a call that came after its logout; the few causes for which a row and its bytes part |
| `register` | 1 call, 2 names, no f | `FreeNameRegisters` (violated) | finding 3 |

### Bounds

- *Requests at a time*: two, three for submissions. The services keep nothing per request
  but local variables, and every property is about a pair of requests on one instance,
  slot or pair; the third submission lets a late wrong one follow two that raced.
- *Containers, instances, ids, jobs*: identifiers are used once, so their number bounds
  the length of a behaviour. Two give a first instance and its successor, three in the
  runner let a third container take the port of a second that was destroyed twice.
  A start is taken only while an identifier is left, so that the bound never blocks a
  request in the middle. In `instances` a behaviour that is not calm leaves one of the three ids
  unused, and the clock of a calm one changes once at most (`MCNext`).
- *Addresses*: two, so that an instance gets the address of one that has ended while the row of
  that one is there, and a third one that does not.
- *Ports*: two, one of them port 0: enough for a full range, for a published port outside
  the range and for one that belongs to the other slot. `RunnerProofs` has every range.
- *Restarts, boots*: one (`MaxBoots` = 2 counts the first start), after which memory and the
  world disagree; a second adds nothing the first does not show.
- *Tokens, uploads, filenames*: two tokens let one be logged out, expire or lose its flag while
  the other's call runs; two uploads with two filenames share a key or do not. One account
  and one challenge: the second account cannot be made (finding 3), and a
  challenge's id is used once, as a key is no other challenge's. `AttachmentsProofs` has every number.
- *Mixes* of the registry: what clients do together, on which repositories and digests and
  with which failures: chunks and commits of one upload with clients that go away, and again
  with a storage that fails; blobs of two repositories; an image with its layer; signatures of one
  image; tags. Operations that share no variable are not mixed. *requests* (3 or 4 in
  all) lets a third and a fourth come after two that raced; *MaxLen* is 3 chunks, one more than
  the largest digest, so that an upload can grow past what it should be.
- *MaxListed*: 100 in the code, 1 here with two jobs, so that the list overflows.
- *MaxLost*: one answer of Redis that is lost and whose command is sent again: enough for a job
  in the queue twice, with two workers on it, or for a report that is repeated after the late
  initial status or a poll. *Watched*: one job's log is streamed, for streams do not meet.
- *View* (`MCBuildQueue`): states of `build` that differ in `info`, `list` and the images only are one;
  no guard of the other variables' steps reads these, and no property of the run but `TypeOK`.
  `build_calm` has no view.
- *MaxRows*: the number of submissions a user sends for a challenge.
- *Deadlock* is not checked where the identifiers run out, the range is full or the process
  is down for good and the model may stop. The `BuildQueue` runs check it.
- Symmetry is used only for sets of interchangeable model values and never in a run with
  a liveness property.

### Fairness

`Manager!FairSpec` is weakly fair to each request's next step, to the body of Cleanup and to
GracefulStop: goroutines that can run are run, every RPC and statement returns (with an error,
if need be), and GracefulStop returns once the requests have. A log stream that can end does, as
its caller reads what it is sent. It is not fair to requests, to the end of a container or a
caller who hangs up, to signals, kills or boots. A request waiting for the mutex is disabled
while Cleanup holds it, so weak fairness is enough as nobody takes the lock over and over.

`BuildQueue!FairSpec` is weakly fair to the rest of EnqueueBuild, to a worker's step and to a
log stream's: a builder's loop pops again when it is idle, a build and a push end, the ticker
fires. A command whose answer is lost is sent again or given up, and answers are lost `MaxLost`
times, so this ends. Nothing forces an admin to enqueue a build or to open a stream, or a worker
that was shut down to come back (no restart policy in `docker-compose.yml`).

## 4. Findings

1. **A shutdown with an instance never ends** (`manager_shutdown`). Cleanup locks `mu`
   (`ctf-manager/service/manager.go:357`) and calls `getRunnerByURL` (371), which takes the
   read lock of the same mutex (82). Requests that look up a runner wait too.
2. **A restarted instance is under the wrong id** (`instances_restart`). The restart
   discards the id (`client_challenge.go:105`) that `domain/instance.go:10` calls the
   "same as manager InstanceID"; the next status request reads "stopped" for the old id
   and marks the running instance stopped; the new container cannot be destroyed.
3. **Only the first account can register** (`register`). The repository inserts the email
   '' for every account (`user_repository.go:24`) into a column that is UNIQUE
   (`ctf_server_schema.sql:6`); the "valid registration" of `user_auth_test.go:119` has a
   repository without the column.

Also met while modelling; the causes in the properties' definitions name them:

- *runner*: port leaks and double use (`LeakCauses`, `UnreservedCauses`).
- *manager*: after a failed query in Cleanup an open log stream holds up the shutdown
  (`ShutdownUnlessStuck`).
- *server*: rows that outlive their instance are shown with a port that may be another player's
  (`client_challenge.go:201`, 216). A lookup that fails counts as no instance
  (`client_challenge.go:97`). Two overlapping correct submissions are both awarded
  (`client_challenge.go:82`; the test at `client_challenge_test.go:278` has them one after the
  other). AdminLogin and AdminLogout answer a failure as they answer success. The compensation
  of an upload runs in the context of the caller (`admin_service.go:156`), so that it fails just
  when the caller has gone; two uploads of one filename share an object (`helpers.go:21`).
- *builds*: an RPush that is sent again queues the job twice (`builder_client.go:66`, 104); the
  second build may change the result that was shown, and bring an older image back. A built job
  leaves ListBuildLogs after a day (`redis.go:94`) though its entry, its info and its log are
  kept. EnqueueBuild writes "pending" last (`builder_client.go:140`), over the result of a
  worker that was quicker. BUILD_COMPLETE messages are split so that the stream ends with an
  unspecified status; the job of a worker that is shut down stays "building".
- *registry*: S3's `isErrorType` takes any error for "not found" (`s3.go:376`), and a commit of
  a digest that exists is not verified (`s3.go:173`). GET sends a blob before it has verified
  it. BoltDB's tag list answers whole keys instead of names, and past the end of the list fails
  or adds empty names. DELETE of a manifest leaves its tags. GET of a manifest encodes the JSON
  anew (`manifest.go:158`), so its bytes need not have its digest.

## 5. What is proved

All constants are arbitrary, under the modules' named assumptions.

`RunnerProofs`, from `RunnerAssumption` (`MinPort <= MaxPort`, published ports are not 0):

- `TypeCorrect`: `Spec => []TypeOK`. The index of selectPort and of freePort stays in the
  range for every range, the ends included.
- `ConsistentAlways`: `Spec => []HandlersConsistent`. The property is inductive together
  with `TypeOK`: it says what a handler may assume between its calls to Docker.
- `LeaksExplained`, `UnreservedExplained`: the two action properties, by cases on the
  action that changes `used`, the containers or a handler's place, from that invariant. The
  argument needs `HandlersConsistent` where a removal follows an inspection without a
  binding: such a container does not run, so its slot was lost earlier and is not lost now.

`ManagerProofs`, from `ManagerAssumption` (at least one runner, as the code's modulo needs, and one
boot):

- `TypeCorrect`, `RowsNamed`, `StoppedRight`. `MInv` adds to the types what a request knows
  of its instance (`Good`): while a start is at work nobody else has its instance and nobody was
  told of it; later requests are about an instance somebody was told of, and what its runner
  answered is still so when they write it down, since a container that has stopped or gone does
  not come back. `Known` is what this makes of an instance whoever works on it: the row of an
  instance nobody was told of is empty, and a "stopped" one does not run.
- `OrphansExplained`, `GhostsExplained`: by cases on the step of `Next` that changes a row, a
  container or the request that is in between, from `MInv`.
- `LeasesKept`: `KeepsLeases`, the refinement of `Leases`. `LInv` adds to `MInv` what the mapping
  needs: connections are closed only after a SIGTERM; a removed container's id had been told; a
  start that failed after its container was created did so for a failure of `Losing`; and
  (`Sound`) the row a later request found is there until the container is removed, so that a
  removal never hits a container that is lost. `LifeGoes` then follows one instance through a
  step: either a start is at work on it, alone (`StarterSaves`, `StarterFails`), or nobody
  starts it and what `HowChanged` lists is a step of its life (`Unstarted`), or a start takes
  it, which no container was ever created for (`StarterNew`).
- `TurnsTaken`: `Balanced` for every number of runners. The invariant `Even` says more than
  `Balanced`: the runners before `nextRunner` were chosen once more than the rest. The number of
  starts a runner was chosen for is a cardinality, so the proof uses the library's facts on
  finite sets.

`InstancesProofs`, from `InstancesAssumption` (the kinds of values are distinct):

- `InstancesTyped`, `OwnInstancesAlways`: `TypeOK` and `OwnInstancesOnly` hold always.
  Neither is inductive. The invariant `IInv` adds what a request holds at each place
  (`Good`), in particular that the *copy* of a row it read leads to the request's own pair:
  the status update writes the copy back. It also adds that an id the manager has not given
  out is owned by nobody. So an id that is owned never changes hands, and what other requests
  hold stays good whatever one request does: `OthersGood` and `SameRowsGood` state this once,
  and each action's proof cites them. `LInv` adds that two containers that run have two addresses
  (if there is one host), and that a row and a copy have the address of their instance while it
  runs: a launch takes an address nobody runs at, an instance that has ended does not run again,
  and only a restart writes another address, into the row of an instance that has ended.
- `StrandedExplained`: `StrandedCauses`. `SInv` adds that a request about to delete a row was told
  that its container is gone (StopInstance) or had lost its row or could not be inspected
  (GetInstanceStatus), and that this is still so: hence StopInstance strands nothing.
- `OneRowAlways`: `OneRowWhenCalm`, of the behaviours of `CalmInstances`: the requests for one pair
  come one after the other, without `db` and `odd`, while those for other pairs interleave, the
  server dies and the manager fails. `OInv` adds to `IInv` that a request on its way to an
  insert has found no row, and that no row says "unknown"; what one request found stays true,
  since no other request is about its pair.

`BuildQueueProofs`, from `BuildQueueAssumption` (numbers are numbers):

- `TakenOnceAlways`, `ShownAlways`, `ResultCausesAlways`. `TakenOnce` is what they rest on: a job whose
  RPush was executed once is taken by one worker, once; no run lists it, for `KeepsBoard` would
  not hold without it. The invariant `BInv` says it job by job (`JInv`): a job nobody pushed is
  nowhere; and of one pushed once (`OnceInv`), when anybody has seen how it ended - a final
  status, an expired one, a stream told of it - it is in no queue and with no worker that will
  still report it first, and a worker that reports again writes what it wrote. Of a job pushed
  twice nothing but its types is known, which is why the properties except it.
- `BoardKept`: `KeepsBoard`, the refinement of `JobBoard`. `GInv` adds to `BInv` that without a failing
  Redis nobody sends a command again (`Resent`), so that only a lossy board is posted to twice,
  and what a worker that reports has to report (`HasOutcome`). Every step is then mapped: one lemma
  for EnqueueBuild, five for what the workers' steps do (take a job, keep it, settle it, report
  again, write an unfinished status), one for the streams and one for the expiry.
- `TypeCorrect` from the same invariant.
- `ForgottenExplained`: `ForgottenCauses`, from `BInv`, `HasOutcome` and `Over` (a key expires only when
  EnqueueBuild is over, so that a pending job is not taken for one that was settled).
- `LatestServedAlways`: `LatestServed`, if there are finitely many workers. While every job was pushed
  once at most (`EachOnce`) and with one worker `InOrder` holds: the queue is increasing and
  behind the worker's job, that is not behind the image, the image not behind the registry's;
  the worker pushes its own job's image, for no other build can move the tag in between. Pushes
  are never undone, so a state with `EachOnce` has only such states before it.
- `KeepsMaxListedAlways`: `KeepsMaxListed`, for every limit. `ListInv` says, while Redis answers, that
  nothing is pushed or listed twice, that a job that should be listed is or the list is full, and
  that the list is too long only by jobs about to trim it or abandoned; `Over` that a key that is
  absent when EnqueueBuild is done has expired. The cardinalities come from the library's theorems.
- `Pushed`, `Popped` and `Trimmed` say what Append, Tail and LTrim do to a queue's elements.

`SubmissionsProofs`, from `SubmissionsAssumption` ("no challenge" is not a flag):

- `TypeCorrect`, `LateAlways`, `NoDanglingAlways`, `SolvedAlways`. `SInv` adds that the pair of
  a late request is solved: rows are only put in front of others, and a challenge with rows
  cannot be deleted, so a pair that is solved stays so until the request looks.

`AttachmentsProofs`, from `SessionsAssumption` and `AttachmentsAssumption` (the kinds of ids are
distinct):

- `TypeCorrect`, `ChangesAuthorised`, `DeathCauses`, `OrphansCauses`: all four properties of the
  run. `IInv` is `AccountsInv` (types; what a call is at each place; a call at work was
  admitted, an admin's if its procedure is for admins, and not late; a token whose Logout
  was answered has no session, for UpdateSession never brings a row back) and `FilesInv`:
  an upload is served by one call, as its key is set when it comes and never again; the row
  of an upload is there only when its call is over or about to undo; a call that deletes an
  attachment is past the upload; and the bytes under a key belong to an upload of that
  key. The causes follow by cases on the action that takes the bytes or the row away.

`RegistryProofs`, from `RegistryAssumption` (digests are contents, no empty one among them; the
kinds of ids are distinct; a manifest needs no manifest):

- `TypeCorrect`, `MissingDeleted`, `PromiseKept`. `IInv` says what a request has made sure of at each
  place: a digest is stored before it is linked or associated, a push has looked up every layer
  it needs before it tags, and only a request that copies a body on the filesystem has a
  descriptor, whose file is there. Hence what is linked is stored, and only a DELETE leaves a
  gap. `PromiseKept` is the refinement: the initial states of `Registry` map to initial states of
  `ContentStore`, and each step to a step or a stutter, S3 being the case that is not careless.

`RegistryContentProofs`, from the same assumption and `IInv`:

- `LayersKept`, `ManifestsKept`, `AckedChunksKept`. `CInv` follows a content from the request that
  makes it: two requests are on one upload only if it is `raced`; between the check of a digest
  and the rename an upload that is not raced keeps what was checked; a manifest that is
  incomplete is being filled by a push, or a write failed or died. What LayersIntact, ManifestsIntact
  and AckedKept excuse is just what breaks these.
- `ReferrersListed`: by cases on the step that changes `refs`. Only a push on DynamoDB writes back a
  list it read in an earlier step; on BoltDB both are one transaction, which only adds.
  `ContentsKnown` is the invariant itself.
- `PagesAlways`: `PagesFollow`, for any number of tags and every n. A recursive definition of a
  sorted list could not be proved about, so `InOrder` says where a tag is: its place is the number
  of tags up to it. `RankTaken` shows by cardinalities that each place is taken, `LaterInOrder`
  that the tags after one come in the same order, and `FromLastSome` that what the code cuts off
  after `last` is just those.

Every safety invariant and action property of the runs is proved. Only model-checked: liveness
(`AnsweredUnlessStuck`, `ShutdownUnlessStuck`, `StreamEnds`), for fairness and ENABLED are out of
the prover's reach.

## 6. What is not modelled

- *Expiry of instances*: `FindExpired`, the TTL columns and `Active = false` have no caller in the
  code: nothing expires an instance.
- *A command that Redis executes after its caller has gone on*: go-redis closes a connection it
  stops waiting on; a command still on its way then is taken for one that was not executed.
- *BuildImageSync* is called by nothing.
- *Contents*: image layers, log text, flags' spelling, points, hashes, the JSON of manifests, the
  filter of referrers by artifact type.
- *StreamInstanceLogs* and *GetInstanceStatus* of the runner change no state; they are in
  `Manager` as `OpenLogs` and `RunnerReports`.
- *Runners on several hosts* in `Instances`: the deployment has one. `InstancesProofs` has them,
  with what is then lost of `OwnInstancesOnly`.
- *No caller*: ActivateAdmin, DeactivateAdmin, ValidateToken and DeleteByUserID of the
  sessions; the storages' own DeleteBlob. GetBlobUploads only reports a size.
- *UpdateChallenge* is in `Submissions` and not again in `Attachments`: it touches no
  key there. UploadChallengeImage hands an archive to the builds of `BuildQueue`.
- *Handlers that read, client, logging, connection set-up*: no state of their own. The
  generated code under `gen/` is half of the Go lines and has none either.

## 7. Plan

Done: `Runner`, `Manager`, `Instances`, `BuildQueue`, `Submissions`, `Sessions` with
`Attachments`, `Uploads` with `Registry` over `ContentStore`, `Leases` over `Manager`, `JobBoard`
over `BuildQueue`, and the proofs of all of them. What is left, in this order:

1. An abstract specification of the runner's ports with `Runner` as its implementation:
   `PortPool` (a pool that hands out what is free; `Runner` without faults, serial).
2. `Platform`: `Instances` over `Manager` with the manager's answers computed, not chosen.
