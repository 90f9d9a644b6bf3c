----------------------------- MODULE BuildQueue -----------------------------
(***************************************************************************)
(* The build pipeline: ctf-server enqueues a job in Redis, a ctf-builder   *)
(* worker pops it, builds and pushes the image, writes the result back and *)
(* publishes the end; an admin's log stream waits for it.                  *)
(*                                                                         *)
(* Redis executes one command at a time, so every command is a step, and a *)
(* command is executed while its caller waits for it or not at all.  The   *)
(* client sends a command again whose answer is lost (go-redis does so by  *)
(* default): the same command is then executed twice.  Jobs are numbered   *)
(* in the order of their first RPush, all are for one challenge and hence  *)
(* one image tag, and the workers share one Docker daemon.                 *)
(***************************************************************************)
EXTENDS Integers, Sequences, FiniteSets

CONSTANTS
  Workers,    \* ctf-builder processes
  MaxJobs,    \* bounds the model
  MaxListed,  \* jobs kept in build:jobs (100 in the code)
  MaxLost,    \* bounds the model
  Watched,    \* jobs whose log somebody streams
  Faults      \* which outside failures can happen

FaultKinds == {"redis", "abandon", "build", "push", "crash", "sigterm", "expire"}

ASSUME BuildQueueAssumption ==
  /\ MaxJobs \in Nat /\ MaxListed \in Nat \ {0} /\ MaxLost \in Nat
  /\ Watched \subseteq 1 .. MaxJobs
  /\ Faults \subseteq FaultKinds

Jobs == 1 .. MaxJobs
None == 0

VARIABLES
  queue,     \* build:queue, oldest first
  pushes,    \* how often each job's RPush was executed
  result,    \* build:result:<job>, its status
  info,      \* build:job:info:<job>
  list,      \* build:jobs, newest first
  lost,      \* answers of Redis that were lost although it executed the command
  enq,       \* how far EnqueueBuild of each job is
  worker,    \* what each worker is doing
  image,     \* the job whose build the local tag names
  registry,  \* the job whose image the registry serves under the tag
  watch,     \* a StreamBuildLog call for each job
  shown      \* the status its last message carried

redis == <<queue, pushes, result, info, list, lost>>
images == <<image, registry>>
stream == <<watch, shown>>
vars == <<redis, enq, worker, images, stream>>

Final == {"success", "failed"}
\* A key that is absent was never written ("none") or has expired: "lapsed" is an
\* unfinished status that did, "expired" a final one.
Stored == {"pending", "building"} \cup Final
Results == {"none", "lapsed", "expired"} \cup Stored
Idle == [place |-> "loop", job |-> None, outcome |-> "none", cancelled |-> FALSE]
WorkerState == [place : {"loop", "pop", "begin", "build", "push", "report",
                         "again", "publish", "save", "off"},
                job : Jobs \cup {None}, outcome : Final \cup {"none"}, cancelled : BOOLEAN]

\* Every variable has its type.
TypeOK ==
  /\ queue \in Seq(Jobs)
  /\ result \in [Jobs -> Results]
  /\ pushes \in [Jobs -> Nat] /\ lost \in 0 .. MaxLost
  /\ info \in [Jobs -> {"none", "set", "expired"}]
  /\ list \in Seq(Jobs)
  /\ enq \in [Jobs -> {"none", "push", "info", "list", "trim", "pending", "done", "failed"}]
  /\ worker \in [Workers -> WorkerState]
  /\ \A w \in Workers : worker[w].job = None <=> worker[w].place \in {"loop", "pop", "off"}
  /\ image \in Jobs \cup {None} /\ registry \in Jobs \cup {None}
  /\ watch \in [Jobs -> {"none", "open", "subscribed", "notified", "ended"}]
  /\ shown \in [Jobs -> {"none", "unspecified"} \cup Final]

Init ==
  /\ queue = <<>> /\ list = <<>> /\ lost = 0
  /\ pushes = [j \in Jobs |-> 0]
  /\ info = [j \in Jobs |-> "none"]
  /\ result = [j \in Jobs |-> "none"]
  /\ enq = [j \in Jobs |-> "none"]
  /\ worker = [w \in Workers |-> Idle]
  /\ image = None /\ registry = None
  /\ watch = [j \in Jobs |-> "none"]
  /\ shown = [j \in Jobs |-> "none"]

Elements(s) == {s[k] : k \in DOMAIN s}

\* The answer of a command that Redis executed is lost, and the client sends the command
\* again, or gives up after some attempts (four by default).
AnswerLost == "redis" \in Faults /\ lost < MaxLost /\ lost' = lost + 1

-----------------------------------------------------------------------------
(* EnqueueBuild *)

Goes(j, place) == enq' = [enq EXCEPT ![j] = place]

Counts(j) == pushes' = [pushes EXCEPT ![j] = @ + 1]

\* Mutant: LPush, at the end BLPop takes from.
PushJobFront(j) ==
  /\ enq[j] = "none" /\ \A k \in 1 .. (j - 1) : enq[k] # "none"
  /\ queue' = <<j>> \o queue
  /\ Counts(j)
  /\ Goes(j, "info")
  /\ UNCHANGED <<result, info, list, lost, worker, images, stream>>

\* An RPush that Redis executes.
Sent(j) ==
  /\ queue' = Append(queue, j)
  /\ Counts(j)
  /\ (Goes(j, "info") /\ UNCHANGED lost) \/ (Goes(j, "push") /\ AnswerLost)
  /\ UNCHANGED <<result, info, list, worker, images, stream>>

\* RPush of the job; a job whose RPush is never executed never exists.
PushJob(j) ==
  /\ enq[j] = "none" /\ \A k \in 1 .. (j - 1) : enq[k] # "none"
  /\ Sent(j)

\* Without an answer the client sends the RPush again, and the job is in the queue once
\* more; or it gives up, and the admin is told that a job failed which is in the queue.
PushAgain(j) ==
  /\ enq[j] = "push"
  /\ \/ Sent(j)
     \/ Goes(j, "failed") /\ UNCHANGED <<redis, worker, images, stream>>

\* A failure to save the job's info, or to list it, is only logged.  Sending this SET again
\* changes nothing, nobody else writes the key; nor does sending the LTrim below again,
\* which cuts off what would be cut off anyway.
SetJobInfo(j) ==
  /\ enq[j] = "info"
  /\ info' = [info EXCEPT ![j] = "set"] \/ ("redis" \in Faults /\ UNCHANGED info)
  /\ Goes(j, "list")
  /\ UNCHANGED <<queue, pushes, result, list, lost, worker, images, stream>>

\* Mutant: LTrim keeps one too few.
TrimOneTooMany(s) == SubSeq(s, 1, IF Len(s) < MaxListed THEN Len(s) ELSE MaxListed - 1)

\* LTrim 0 99.
Trim(s) == SubSeq(s, 1, IF Len(s) < MaxListed THEN Len(s) ELSE MaxListed)

\* LPush, too, can be executed again.
ListJob(j) ==
  /\ enq[j] = "list"
  /\ \/ list' = <<j>> \o list /\ Goes(j, "trim") /\ UNCHANGED lost
     \/ list' = <<j>> \o list /\ UNCHANGED enq /\ AnswerLost
     \/ "redis" \in Faults /\ Goes(j, "trim") /\ UNCHANGED <<list, lost>>
  /\ UNCHANGED <<queue, pushes, result, info, worker, images, stream>>

\* The trimming happens whether or not the job could be listed; its own failure is not
\* looked at.
TrimList(j) ==
  /\ enq[j] = "trim"
  /\ list' = Trim(list) \/ ("redis" \in Faults /\ UNCHANGED list)
  /\ Goes(j, "pending")
  /\ UNCHANGED <<queue, pushes, result, info, lost, worker, images, stream>>

\* The job has been in the queue all along; its initial status is written last.
SetPending(j) ==
  /\ enq[j] = "pending"
  /\ \/ /\ result' = [result EXCEPT ![j] = "pending"]
        /\ (Goes(j, "done") /\ UNCHANGED lost) \/ (UNCHANGED enq /\ AnswerLost)
     \/ "redis" \in Faults /\ Goes(j, "failed") /\ UNCHANGED <<result, lost>>
  /\ UNCHANGED <<queue, pushes, info, list, worker, images, stream>>

\* The caller goes away or the server dies: the rest is not done.
Abandon(j) ==
  /\ "abandon" \in Faults
  /\ enq[j] \in {"info", "list", "trim", "pending"}
  /\ Goes(j, "failed")
  /\ UNCHANGED <<redis, worker, images, stream>>

EnqueueBuild(j) ==
  PushAgain(j) \/ SetJobInfo(j) \/ ListJob(j) \/ TrimList(j) \/ SetPending(j)

\* LRange 0 99, of which a job is shown whose info and result are in Redis.
ListBuildLogs ==
  {j \in Jobs : /\ \E k \in DOMAIN list : k <= MaxListed /\ list[k] = j
               /\ info[j] = "set" /\ result[j] \in Stored}

-----------------------------------------------------------------------------
(* The worker *)

Becomes(w, place, job, outcome) ==
  worker' = [worker EXCEPT ![w] = [place |-> place, job |-> job, outcome |-> outcome,
                                   cancelled |-> @.cancelled]]
Moves(w, place, outcome) == Becomes(w, place, worker[w].job, outcome)

\* SetBuildResult: with a cancelled context, or a failing Redis, nothing is written,
\* and the error is ignored.
SetBuildResult(w, status) ==
  \/ ~worker[w].cancelled /\ result' = [result EXCEPT ![worker[w].job] = status]
  \/ (worker[w].cancelled \/ "redis" \in Faults) /\ UNCHANGED result

\* Start: the context is looked at between jobs only.
Loop(w) ==
  /\ worker[w].place = "loop"
  /\ Moves(w, IF worker[w].cancelled THEN "off" ELSE "pop", "none")
  /\ UNCHANGED <<redis, enq, images, stream>>

\* Mutant: the job is read and stays in the queue.
DequeueJobPeeks(w) ==
  /\ worker[w].place = "pop" /\ queue # <<>>
  /\ Becomes(w, "begin", Head(queue), "none")
  /\ UNCHANGED <<redis, enq, images, stream>>

\* BLPop: a call under way when the context is cancelled still pops.  Its answer can
\* be lost; the next call, the client's or the loop's, takes the next job.
DequeueJob(w) ==
  /\ worker[w].place = "pop" /\ queue # <<>>
  /\ queue' = Tail(queue)
  /\ \/ Becomes(w, "begin", Head(queue), "none")
     \/ "redis" \in Faults /\ Moves(w, "loop", "none")
  /\ UNCHANGED <<pushes, result, info, list, lost, enq, images, stream>>

\* Mutant: no job is taken for a job.
DequeueNothingGoesOn(w) ==
  /\ worker[w].place = "pop" /\ queue = <<>>
  /\ Moves(w, "begin", "none")
  /\ UNCHANGED <<redis, enq, images, stream>>

\* ... after five seconds, or on an error, it gives up.
DequeueNothing(w) ==
  /\ worker[w].place = "pop"
  /\ queue = <<>> \/ worker[w].cancelled \/ "redis" \in Faults
  /\ Moves(w, "loop", "none")
  /\ UNCHANGED <<redis, enq, images, stream>>

\* Sent again, "building" is written again.
BeginJob(w) ==
  /\ worker[w].place = "begin"
  /\ SetBuildResult(w, "building")
  /\ (Moves(w, "build", "none") /\ UNCHANGED lost) \/ (UNCHANGED worker /\ AnswerLost)
  /\ UNCHANGED <<queue, pushes, info, list, enq, images, stream>>

\* A build that fails late has tagged the image already.
BuildImage(w) ==
  /\ worker[w].place = "build"
  /\ \/ ~worker[w].cancelled /\ image' = worker[w].job /\ Moves(w, "push", "none")
     \/ /\ worker[w].cancelled \/ "build" \in Faults
        /\ image' \in {image, worker[w].job} /\ Moves(w, "report", "failed")
  /\ UNCHANGED <<redis, enq, registry, stream>>

\* Mutant: a failed push is not noticed.
PushImageUnchecked(w) ==
  /\ worker[w].place = "push"
  /\ \/ ~worker[w].cancelled /\ registry' = image
     \/ (worker[w].cancelled \/ "push" \in Faults) /\ UNCHANGED registry
  /\ Moves(w, "report", "success")
  /\ UNCHANGED <<redis, enq, image, stream>>

\* Mutant: a failed push ends the job without a result.
PushImageReturns(w) ==
  /\ worker[w].place = "push"
  /\ \/ ~worker[w].cancelled /\ registry' = image /\ Moves(w, "report", "success")
     \/ /\ worker[w].cancelled \/ "push" \in Faults
        /\ UNCHANGED registry /\ Becomes(w, "loop", None, "none")
  /\ UNCHANGED <<redis, enq, image, stream>>

\* ImageTag and ImagePush: what is pushed is what the local tag names now.  A push that
\* fails may have reached the registry.
PushImage(w) ==
  /\ worker[w].place = "push"
  /\ \/ ~worker[w].cancelled /\ registry' = image /\ Moves(w, "report", "success")
     \/ /\ worker[w].cancelled \/ "push" \in Faults
        /\ registry' \in {registry, image} /\ Moves(w, "report", "failed")
  /\ UNCHANGED <<redis, enq, image, stream>>

\* The outcome is written; when the answer is lost, it is written again.
Report(w) ==
  /\ worker[w].place = "report"
  /\ \/ /\ SetBuildResult(w, worker[w].outcome)
        /\ Moves(w, "publish", worker[w].outcome) /\ UNCHANGED lost
     \/ /\ ~worker[w].cancelled
        /\ result' = [result EXCEPT ![worker[w].job] = worker[w].outcome]
        /\ Moves(w, "again", worker[w].outcome) /\ AnswerLost
  /\ UNCHANGED <<queue, pushes, info, list, enq, images, stream>>

ReportAgain(w) ==
  /\ worker[w].place = "again"
  /\ SetBuildResult(w, worker[w].outcome)
  /\ \/ Moves(w, "publish", worker[w].outcome) /\ UNCHANGED lost
     \/ UNCHANGED worker /\ AnswerLost
  /\ UNCHANGED <<queue, pushes, info, list, enq, images, stream>>

\* BUILD_COMPLETE reaches a stream that is subscribed at this moment.
Publish(w) ==
  LET j == worker[w].job IN
  /\ worker[w].place = "publish"
  /\ \/ /\ ~worker[w].cancelled /\ watch[j] = "subscribed"
        /\ watch' = [watch EXCEPT ![j] = "notified"]
     \/ /\ worker[w].cancelled \/ watch[j] # "subscribed" \/ "redis" \in Faults
        /\ UNCHANGED watch
  /\ Moves(w, "save", "none")
  /\ UNCHANGED <<redis, enq, images, shown>>

\* saveBuildLog: its errors are logged, and the stored log is not modelled.
SaveBuildLog(w) ==
  /\ worker[w].place = "save"
  /\ Becomes(w, "loop", None, "none")
  /\ UNCHANGED <<redis, enq, images, stream>>

Worker(w) ==
  \/ Loop(w) \/ DequeueJob(w) \/ DequeueNothing(w)
  \/ BeginJob(w) \/ BuildImage(w) \/ PushImage(w)
  \/ Report(w) \/ ReportAgain(w) \/ Publish(w) \/ SaveBuildLog(w)

\* The process dies with its job, and comes back.
Crash(w) ==
  /\ "crash" \in Faults
  /\ worker[w].job # None
  /\ worker' = [worker EXCEPT ![w] = Idle]
  /\ UNCHANGED <<redis, enq, images, stream>>

Sigterm(w) ==
  /\ "sigterm" \in Faults
  /\ worker[w].place # "off" /\ ~worker[w].cancelled
  /\ worker' = [worker EXCEPT ![w] = [@ EXCEPT !.cancelled = TRUE]]
  /\ UNCHANGED <<redis, enq, images, stream>>

Boot(w) ==
  /\ worker[w].place = "off"
  /\ worker' = [worker EXCEPT ![w] = Idle]
  /\ UNCHANGED <<redis, enq, images, stream>>

-----------------------------------------------------------------------------
(* StreamBuildLog *)

Ends(j, status) ==
  /\ watch' = [watch EXCEPT ![j] = "ended"]
  /\ shown' = [shown EXCEPT ![j] = status]

\* GetBuildStatus first: a finished job needs no subscription, and for one without a
\* status the call fails.  An admin has the job's id from EnqueueBuild's answer, or from
\* the list, which can show it from ListJob on.
OpenStream(j) ==
  /\ j \in Watched /\ watch[j] = "none" /\ result[j] \in Stored
  /\ enq[j] \in {"list", "trim", "pending", "done", "failed"}
  /\ \/ result[j] \in Final /\ Ends(j, result[j])
     \/ result[j] \notin Final /\ watch' = [watch EXCEPT ![j] = "open"] /\ UNCHANGED shown
  /\ UNCHANGED <<redis, enq, worker, images>>

Subscribe(j) ==
  /\ watch[j] = "open"
  /\ watch' = [watch EXCEPT ![j] = "subscribed"]
  /\ UNCHANGED <<redis, enq, worker, images, shown>>

\* "BUILD_COMPLETE:<status>:<detail>" is split in two parts: what follows the first
\* colon is no status, and the stream ends with UNSPECIFIED.
Receive(j) ==
  /\ watch[j] = "notified"
  /\ Ends(j, "unspecified")
  /\ UNCHANGED <<redis, enq, worker, images>>

\* Mutant: only a success ends the poll.
PollSuccessOnly(j) ==
  /\ watch[j] \in {"subscribed", "notified"}
  /\ result[j] = "success"
  /\ Ends(j, result[j])
  /\ UNCHANGED <<redis, enq, worker, images>>

\* Mutant: the two branches of the poll send the same status.
PollSameStatus(j) ==
  /\ watch[j] \in {"subscribed", "notified"}
  /\ result[j] \in Final
  /\ Ends(j, "success")
  /\ UNCHANGED <<redis, enq, worker, images>>

\* The ticker: every two seconds the result is read; an unfinished one, or none, changes
\* nothing.
Poll(j) ==
  /\ watch[j] \in {"subscribed", "notified"}
  /\ result[j] \in Final
  /\ Ends(j, result[j])
  /\ UNCHANGED <<redis, enq, worker, images>>

-----------------------------------------------------------------------------
(* Expiry *)

\* A status is kept for a day (a worker's) or for seven (the initial one); neither runs
\* out while EnqueueBuild or a worker that wrote it is waiting for the answer, nor a
\* final one under a stream that reads it every two seconds.
ExpireResult(j) ==
  /\ "expire" \in Faults
  /\ enq[j] \in {"done", "failed"}
  /\ \A w \in Workers : ~(worker[w].place = "again" /\ worker[w].job = j)
  /\ \/ /\ result[j] \in {"pending", "building"}
        /\ result' = [result EXCEPT ![j] = "lapsed"]
     \/ /\ result[j] \in Final /\ watch[j] \in {"none", "ended"}
        /\ result' = [result EXCEPT ![j] = "expired"]
  /\ UNCHANGED <<queue, pushes, info, list, lost, enq, worker, images, stream>>

\* A job's info is kept for seven days.
ExpireInfo(j) ==
  /\ "expire" \in Faults
  /\ enq[j] \in {"done", "failed"}
  /\ info[j] = "set"
  /\ info' = [info EXCEPT ![j] = "expired"]
  /\ UNCHANGED <<queue, pushes, result, list, lost, enq, worker, images, stream>>

Next ==
  \/ \E j \in Jobs : PushJob(j) \/ EnqueueBuild(j) \/ Abandon(j)
  \/ \E w \in Workers : Worker(w) \/ Crash(w) \/ Sigterm(w) \/ Boot(w)
  \/ \E j \in Jobs : OpenStream(j) \/ Subscribe(j) \/ Receive(j) \/ Poll(j)
  \/ \E j \in Jobs : ExpireResult(j) \/ ExpireInfo(j)

Spec == Init /\ [][Next]_vars

\* Goroutines that can run do; builds and pushes end; no job has to be enqueued and no
\* stream opened.
FairSpec ==
  /\ Spec
  /\ \A j \in Jobs : WF_vars(EnqueueBuild(j))
  /\ \A w \in Workers : WF_vars(Worker(w))
  /\ \A j \in Jobs : WF_vars(Subscribe(j)) /\ WF_vars(Receive(j)) /\ WF_vars(Poll(j))

-----------------------------------------------------------------------------
(* Properties *)

\* A worker in these places will still report on its job.
Active == {"begin", "build", "push", "report"}

\* A job whose RPush was executed once is taken by one worker, once: it is in the queue
\* once, with no worker and without a final result, or with one worker, or behind both.
TakenOnce ==
  \A j \in Jobs : pushes[j] <= 1 =>
    /\ \A a, b \in DOMAIN queue : queue[a] = j /\ queue[b] = j => a = b
    /\ \A v, w \in Workers : worker[v].job = j /\ worker[w].job = j => v = w
    /\ j \in Elements(queue) =>
         /\ result[j] \notin Final \cup {"expired"}
         /\ \A w \in Workers : worker[w].job # j

Board == INSTANCE JobBoard WITH
           Builders <- Workers,
           Nobody <- None,
           Lossy <- "redis" \in Faults,
           posted <- pushes,
           waiting <- queue,
           building <- [w \in Workers |-> IF worker[w].place \in Active THEN worker[w].job
                                          ELSE None],
           verdict <- [j \in Jobs |-> IF result[j] \in Final \cup {"expired"} THEN result[j]
                                      ELSE "none"],
           told <- shown

\* The pipeline keeps the promise of JobBoard: whichever workers die, lose their answers or
\* are overtaken by EnqueueBuild, jobs are built in the order of their RPush, each as often
\* as it was pushed; a job pushed once gets a final status from its worker's report only,
\* and keeps it unless the initial status comes late or the key expires; an admin is told
\* nothing while such a job is built and then its result.
KeepsBoard == Board!Spec

\* A finished result is rewritten in three ways only: by the initial status EnqueueBuild
\* writes last, which comes late when a worker was quick (builder_client.go:128-140), by
\* the expiry of its key, and by a worker that has a job whose RPush was executed twice
\* (builder_client.go:104).
ResultStep ==
  \A j \in Jobs : result[j] \in Final /\ result'[j] # result[j] =>
    \/ enq[j] = "pending" /\ result'[j] = "pending"
    \/ result'[j] = "expired"
    \/ /\ pushes[j] > 1
       /\ \E w \in Workers : worker[w].job = j /\ worker[w].place \in {"begin", "report", "again"}

ResultCauses == [][ResultStep]_vars

\* A job whose result is still to be written, and one that never had a final result, or
\* lost it to the initial status, and for which nobody will write one.
Underway(j) ==
  \/ j \in Elements(queue)
  \/ \E w \in Workers : worker[w].job = j /\ worker[w].place \in Active
Forgotten(j) == enq[j] # "none" /\ ~Underway(j) /\ result[j] \notin Final \cup {"expired"}

\* A job is forgotten only when a worker dies with it, is shut down during it, loses
\* Redis, or is overtaken by the initial status.  A failed build or push is not forgotten.
ForgottenStep ==
  \A j \in Jobs : Forgotten(j)' /\ ~Forgotten(j) =>
    \/ "redis" \in Faults \/ "crash" \in Faults
    \/ \E w \in Workers : worker[w].job = j /\ worker[w].cancelled
    \/ enq[j] = "pending" /\ result[j] \in Final

ForgottenCauses == [][ForgottenStep]_vars

\* With one worker, and while no RPush was executed twice, the registry never goes back to
\* the image of an older job, and a job is reported successful only while the registry
\* serves its image.
LatestServedStep ==
  Cardinality(Workers) = 1 /\ (\A j \in Jobs : pushes[j] <= 1) =>
    /\ registry' >= registry
    /\ \A j \in Jobs : result'[j] = "success" /\ result[j] # "success" => registry = j

LatestServed == [][LatestServedStep]_vars

\* A job whose info or status was written and has expired.
Outlived(j) == info[j] = "expired" \/ result[j] \in {"lapsed", "expired"}

\* Without Redis failures a job that was enqueued is shown by ListBuildLogs until
\* MaxListed other jobs have taken its place or one of its keys expires (after a day,
\* once it is built: queue/redis.go:94), and the list is longer than MaxListed only by
\* jobs whose EnqueueBuild is about to trim it or was abandoned there.
KeepsMaxListed ==
  "redis" \notin Faults =>
    /\ \A j \in Jobs : enq[j] = "done" =>
         \/ j \in ListBuildLogs \/ Outlived(j)
         \/ Cardinality(Elements(list) \ {j}) >= MaxListed
    /\ Len(list) <= MaxListed + Cardinality({j \in Jobs : enq[j] \in {"trim", "failed"}})

\* A log stream that ends with "success" or "failed" tells the result of its job, and no
\* later one contradicts it: the result stays, is undone by an initial status that comes
\* late, or expires, unless the job's RPush was executed twice and the second build ends
\* otherwise.
ShownIsResult ==
  \A j \in Jobs : shown[j] \in Final =>
    result[j] \in {shown[j], "pending", "lapsed", "expired"} \/ pushes[j] > 1

\* A log stream ends, whatever the build's outcome and however its steps interleave with
\* the subscription and with a shutdown, unless its job was forgotten or every worker is
\* down.
StreamEnds ==
  \A j \in Jobs : watch[j] \in {"open", "subscribed"} ~>
    (watch[j] = "ended" \/ Forgotten(j) \/ \A w \in Workers : worker[w].place = "off")
=============================================================================
