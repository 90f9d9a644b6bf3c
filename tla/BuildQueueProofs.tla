--------------------------- MODULE BuildQueueProofs ---------------------------
(***************************************************************************)
(* BuildQueue, for any number of workers and jobs, any number of lost      *)
(* answers and any length of the list: a job pushed once is taken once, a  *)
(* result changes in the listed ways, a stream tells the truth, a job is   *)
(* forgotten in the listed ways only, the list keeps what it should, and   *)
(* one worker never brings back an older image.                            *)
(***************************************************************************)
EXTENDS BuildQueue, SequenceTheorems, FiniteSetTheorems, TLAPS

Once(j) == pushes[j] <= 1

\* A job nobody has pushed is nowhere.
Unseen(j) ==
  /\ enq[j] = "none" <=> pushes[j] = 0
  /\ pushes[j] = 0 =>
       /\ j \notin Elements(queue) /\ result[j] = "none"
       /\ watch[j] = "none" /\ shown[j] = "none"
       /\ \A w \in Workers : worker[w].job # j

Single(q, j) == \A a, b \in DOMAIN q : q[a] = j /\ q[b] = j => a = b

\* Nobody has the job before him any more, and somebody has seen how it ended.
Settled(j) ==
  /\ pushes[j] > 0 /\ j \notin Elements(queue)
  /\ \A w \in Workers : worker[w].job = j => worker[w].place \notin Active
Ended(j) ==
  \/ result[j] \in Final \cup {"expired"}
  \/ shown[j] # "none" \/ watch[j] = "notified"

\* What is known of a job whose RPush was executed once.
OnceInv(j) ==
  /\ Single(queue, j)
  /\ \A v, w \in Workers : worker[v].job = j /\ worker[w].job = j => v = w
  /\ j \in Elements(queue) => \A w \in Workers : worker[w].job # j
  /\ Ended(j) => Settled(j)
  /\ \A w \in Workers : worker[w].job = j /\ worker[w].place = "again" =>
       /\ result[j] \in {worker[w].outcome, "pending"}
       /\ shown[j] \in Final => shown[j] = worker[w].outcome
  /\ shown[j] \in Final => result[j] \in {shown[j], "pending", "lapsed", "expired"}

\* The inductive invariant, job by job: a job whose end somebody has seen is settled, and
\* a job that is settled stays so unless its RPush is executed again.
JInv(j) ==
  /\ Unseen(j)
  /\ Once(j) => OnceInv(j)
  /\ shown[j] # "none" => watch[j] = "ended"

BInv == TypeOK /\ \A j \in Jobs : JInv(j)

EnqPlaces == {"none", "push", "info", "list", "trim", "pending", "done", "failed"}
WatchPlaces == {"none", "open", "subscribed", "notified", "ended"}

-----------------------------------------------------------------------------
(* Sequences *)

LEMMA Pushed ==
  ASSUME NEW q \in Seq(Jobs), NEW j \in Jobs, NEW r, r = Append(q, j)
  PROVE  /\ r \in Seq(Jobs)
         /\ Elements(r) = Elements(q) \cup {j}
         /\ \A k \in Jobs : k # j /\ Single(q, k) => Single(r, k)
         /\ j \notin Elements(q) => Single(r, j)
<1>1. /\ r \in Seq(Jobs) /\ Len(q) \in Nat /\ Len(r) = Len(q) + 1
      /\ DOMAIN q = 1 .. Len(q) /\ DOMAIN r = 1 .. Len(r)
      /\ r[Len(q) + 1] = j
      /\ \A k \in 1 .. Len(q) : r[k] = q[k]
  OBVIOUS
<1>2. \A k \in DOMAIN r : (k \in DOMAIN q /\ r[k] = q[k]) \/ (k = Len(q) + 1 /\ r[k] = j)
  BY <1>1
<1>3. \A k \in DOMAIN q : q[k] \in Elements(q) /\ k \in DOMAIN r /\ r[k] = q[k]
  BY <1>1 DEF Elements
<1>4. Len(q) + 1 \in DOMAIN r
  BY <1>1
<1>5. Elements(r) = Elements(q) \cup {j}
  BY <1>1, <1>2, <1>3, <1>4 DEF Elements
<1>6. \A k \in Jobs : k # j /\ Single(q, k) => Single(r, k)
  BY <1>2 DEF Single
<1>7. j \notin Elements(q) => Single(r, j)
  BY <1>2, <1>3 DEF Single
<1>8. QED
  BY <1>1, <1>5, <1>6, <1>7

LEMMA Popped ==
  ASSUME NEW q \in Seq(Jobs), q # <<>>, NEW r, r = Tail(q)
  PROVE  /\ r \in Seq(Jobs)
         /\ Head(q) \in Jobs /\ Head(q) \in Elements(q)
         /\ Elements(r) \subseteq Elements(q) /\ Elements(q) \ {Head(q)} \subseteq Elements(r)
         /\ \A k \in Jobs : Single(q, k) => Single(r, k)
         /\ Single(q, Head(q)) => Head(q) \notin Elements(r)
<1>1. /\ r \in Seq(Jobs) /\ Len(q) \in Nat \ {0} /\ Len(r) = Len(q) - 1
      /\ DOMAIN q = 1 .. Len(q) /\ DOMAIN r = 1 .. Len(r)
      /\ Head(q) = q[1]
      /\ \A k \in 1 .. Len(r) : r[k] = q[k + 1]
  BY EmptySeq
<1>2. \A k \in DOMAIN r : k + 1 \in DOMAIN q /\ k + 1 # 1 /\ r[k] = q[k + 1]
  BY <1>1
<1>3. \A k \in DOMAIN q : k = 1 \/ (k - 1 \in DOMAIN r /\ r[k - 1] = q[k])
  <2>1. TAKE k \in DOMAIN q
  <2>2. k \in Int /\ 1 <= k /\ k <= Len(q)
    BY <1>1
  <2>3. CASE k # 1
    <3>1. k - 1 \in 1 .. Len(r) /\ (k - 1) + 1 = k
      BY <1>1, <2>2, <2>3
    <3>2. QED
      BY <1>1, <3>1
  <2>4. QED
    BY <2>3
<1>4. 1 \in DOMAIN q
  BY <1>1
<1>5. Elements(r) \subseteq Elements(q)
  BY <1>2 DEF Elements
<1>6. ASSUME NEW x \in Elements(q), x # Head(q)
      PROVE  x \in Elements(r)
  <2>1. PICK k \in DOMAIN q : x = q[k]
    BY <1>6 DEF Elements
  <2>2. k # 1
    BY <1>1, <1>6, <2>1
  <2>3. QED
    BY <1>3, <2>1, <2>2 DEF Elements
<1>7. \A k \in Jobs : Single(q, k) => Single(r, k)
  <2>1. SUFFICES ASSUME NEW k \in Jobs, Single(q, k), NEW a \in DOMAIN r, NEW b \in DOMAIN r,
                        r[a] = k, r[b] = k
                 PROVE  a = b
    BY DEF Single
  <2>2. a \in Int /\ b \in Int /\ (a + 1 = b + 1 => a = b)
    BY <1>1
  <2>3. QED
    BY <1>2, <2>1, <2>2 DEF Single
<1>8. Single(q, Head(q)) => Head(q) \notin Elements(r)
  BY <1>1, <1>2, <1>4 DEF Single, Elements
<1>9. Head(q) \in Jobs /\ Head(q) \in Elements(q)
  BY <1>1, <1>4 DEF Elements
<1>10. QED
  BY <1>1, <1>5, <1>6, <1>7, <1>8, <1>9

LEMMA Trimmed == \A s \in Seq(Jobs) : Trim(s) \in Seq(Jobs)
<1>1. TAKE s \in Seq(Jobs)
<1>2. Len(s) \in Nat /\ MaxListed \in Nat /\ MaxListed >= 1
  BY BuildQueueAssumption
<1>3. CASE Len(s) < MaxListed
  BY <1>2, <1>3, SubSeqProperties DEF Trim
<1>4. CASE ~(Len(s) < MaxListed)
  BY <1>2, <1>4, SubSeqProperties DEF Trim
<1>5. QED
  BY <1>3, <1>4

-----------------------------------------------------------------------------
(* Jobs a step leaves alone *)

Quiet(j) ==
  /\ pushes'[j] = pushes[j] /\ (enq'[j] = "none" <=> enq[j] = "none")
  /\ result'[j] = result[j] /\ watch'[j] = watch[j] /\ shown'[j] = shown[j]
  /\ Single(queue, j) => Single(queue', j)
  /\ j \in Elements(queue') => j \in Elements(queue)
  /\ \A w \in Workers : worker'[w].job = j =>
       /\ worker[w].job = j
       /\ worker'[w].place \in Active => worker[w].place \in Active
       /\ worker'[w].place = "again" =>
            worker[w].place = "again" /\ worker'[w].outcome = worker[w].outcome

LEMMA QuietKept ==
  ASSUME NEW j \in Jobs, JInv(j), Quiet(j)
  PROVE  JInv(j)'
<1>1. Unseen(j)'
  BY DEF JInv, Unseen, Quiet, Elements
<1>2. Once(j)' => Once(j)
  BY DEF Once, Quiet
<1>3. ASSUME OnceInv(j) PROVE OnceInv(j)'
  <2>1. Single(queue, j)'
    BY <1>3 DEF OnceInv, Quiet, Single
  <2>2. (\A v, w \in Workers : worker[v].job = j /\ worker[w].job = j => v = w)'
    BY <1>3 DEF OnceInv, Quiet
  <2>3. (j \in Elements(queue) => \A w \in Workers : worker[w].job # j)'
    BY <1>3 DEF OnceInv, Quiet, Elements
  <2>4. (Ended(j) => Settled(j))'
    BY <1>3 DEF OnceInv, Quiet, Elements, Ended, Settled
  <2>5. (\A w \in Workers : worker[w].job = j /\ worker[w].place = "again" =>
           /\ result[j] \in {worker[w].outcome, "pending"}
           /\ shown[j] \in Final => shown[j] = worker[w].outcome)'
    BY <1>3 DEF OnceInv, Quiet
  <2>6. (shown[j] \in Final => result[j] \in {shown[j], "pending", "lapsed", "expired"})'
    BY <1>3 DEF OnceInv, Quiet
  <2>7. QED
    BY <2>1, <2>2, <2>3, <2>4, <2>5, <2>6 DEF OnceInv
<1>4. (shown[j] # "none" => watch[j] = "ended")'
  BY DEF JInv, Quiet
<1>5. QED
  BY <1>1, <1>2, <1>3, <1>4 DEF JInv

\* A job that was pushed before.
LEMMA SeenKept ==
  ASSUME NEW j \in Jobs, pushes[j] # 0, UNCHANGED pushes, enq'[j] # "none",
         Once(j) => OnceInv(j)', shown'[j] # "none" => watch'[j] = "ended"
  PROVE  JInv(j)'
BY DEF JInv, Unseen, Once

LEMMA SameQueue ==
  ASSUME UNCHANGED queue, NEW j
  PROVE  /\ Single(queue, j) => Single(queue', j)
         /\ Elements(queue') = Elements(queue)
BY DEF Single, Elements

LEMMA LostBounded ==
  ASSUME TypeOK, UNCHANGED lost \/ AnswerLost
  PROVE  lost' \in 0 .. MaxLost
BY BuildQueueAssumption DEF TypeOK, AnswerLost

LEMMA NoneIsNoJob == None \notin Jobs
BY BuildQueueAssumption DEF None, Jobs

-----------------------------------------------------------------------------
(* Workers *)

\* What Becomes does to a worker, and that it leaves the others alone.
Turned(w, place, job, outcome) ==
  /\ worker' \in [Workers -> WorkerState]
  /\ worker'[w].place = place /\ worker'[w].job = job /\ worker'[w].outcome = outcome
  /\ \A v \in Workers \ {w} : worker'[v] = worker[v]

Places == {"loop", "pop", "begin", "build", "push", "report", "again", "publish", "save", "off"}

LEMMA BecomesTurns ==
  ASSUME TypeOK, NEW w \in Workers, NEW place \in Places, NEW job \in Jobs \cup {None},
         NEW outcome \in Final \cup {"none"}, Becomes(w, place, job, outcome)
  PROVE  Turned(w, place, job, outcome)
<1>1. PICK cancelled \in BOOLEAN : cancelled = worker[w].cancelled
  BY DEF TypeOK, WorkerState
<1>2. PICK new : new = [place |-> place, job |-> job, outcome |-> outcome,
                        cancelled |-> cancelled]
  OBVIOUS
<1>3. new \in WorkerState /\ new.place = place /\ new.job = job /\ new.outcome = outcome
  BY <1>1, <1>2 DEF WorkerState, Places
<1>4. worker' = [worker EXCEPT ![w] = new]
  BY <1>1, <1>2 DEF Becomes, TypeOK
<1>5. QED
  BY <1>3, <1>4 DEF Turned, TypeOK

LEMMA MovesTurns ==
  ASSUME TypeOK, NEW w \in Workers, NEW place \in Places,
         NEW outcome \in Final \cup {"none"}, Moves(w, place, outcome)
  PROVE  Turned(w, place, worker[w].job, outcome)
BY BecomesTurns DEF Moves, TypeOK, WorkerState

LEMMA IdleTurns ==
  ASSUME TypeOK, NEW w \in Workers, worker' = [worker EXCEPT ![w] = Idle]
  PROVE  Turned(w, "loop", None, "none")
<1>1. Idle \in WorkerState /\ Idle.place = "loop" /\ Idle.job = None /\ Idle.outcome = "none"
  BY DEF Idle, WorkerState
<1>2. QED
  BY <1>1 DEF Turned, TypeOK

LEMMA StaysTurns ==
  ASSUME TypeOK, NEW w \in Workers, UNCHANGED worker
  PROVE  Turned(w, worker[w].place, worker[w].job, worker[w].outcome)
BY DEF Turned, TypeOK

LEMMA SigtermTurns ==
  ASSUME TypeOK, NEW w \in Workers, Sigterm(w)
  PROVE  Turned(w, worker[w].place, worker[w].job, worker[w].outcome)
<1>1. PICK old, new : /\ old = worker[w] /\ old \in WorkerState
                      /\ new = [old EXCEPT !.cancelled = TRUE]
  BY DEF TypeOK
<1>2. new \in WorkerState /\ new.place = old.place /\ new.job = old.job /\ new.outcome = old.outcome
  BY <1>1 DEF WorkerState
<1>3. worker' = [worker EXCEPT ![w] = new]
  BY <1>1 DEF Sigterm, TypeOK
<1>4. QED
  BY <1>1, <1>2, <1>3 DEF Turned, TypeOK

LEMMA JobsAndPlaces ==
  ASSUME TypeOK, NEW w \in Workers, NEW place, NEW job, NEW outcome,
         Turned(w, place, job, outcome), job = None <=> place \in {"loop", "pop", "off"}
  PROVE  \A v \in Workers : worker'[v].job = None <=> worker'[v].place \in {"loop", "pop", "off"}
BY DEF TypeOK, Turned

\* A worker without a job disturbs nothing.
LEMMA WithoutJob ==
  ASSUME BInv, NEW w \in Workers, NEW place \in {"loop", "pop", "off"}, NEW outcome,
         Turned(w, place, None, outcome),
         UNCHANGED queue \/ (queue # <<>> /\ queue' = Tail(queue)),
         UNCHANGED <<pushes, result, info, list, lost, enq, images, stream>>
  PROVE  BInv'
<1>1. UNCHANGED <<pushes, result, info, list, lost, enq, image, registry, watch, shown>>
  BY DEF images, stream
<1>2. /\ queue' \in Seq(Jobs) /\ Elements(queue') \subseteq Elements(queue)
      /\ \A j \in Jobs : Single(queue, j) => Single(queue', j)
  BY SameQueue, Popped DEF BInv, TypeOK
<1>3. TypeOK'
  <2>1. \A v \in Workers : worker'[v].job = None <=> worker'[v].place \in {"loop", "pop", "off"}
    BY JobsAndPlaces DEF BInv
  <2>2. worker' \in [Workers -> WorkerState]
    BY DEF Turned
  <2>3. QED
    BY <1>1, <1>2, <2>1, <2>2 DEF BInv, TypeOK
<1>4. \A j \in Jobs : \A v \in Workers : worker'[v].job = j => worker'[v] = worker[v]
  BY NoneIsNoJob DEF Turned
<1>5. \A j \in Jobs : Quiet(j)
  BY <1>1, <1>2, <1>4 DEF Quiet
<1>6. QED
  BY <1>3, <1>5, QuietKept DEF BInv

\* A worker that keeps its job may write its result and tell its stream: the other jobs
\* are left alone.
LEMMA WithJob ==
  ASSUME BInv, NEW w \in Workers, NEW job \in Jobs, job = worker[w].job,
         NEW place, place \notin {"loop", "pop", "off"}, NEW outcome,
         Turned(w, place, job, outcome),
         result' \in [Jobs -> Results], watch' \in [Jobs -> WatchPlaces],
         \A j \in Jobs : j # job => result'[j] = result[j] /\ watch'[j] = watch[j],
         image' \in Jobs \cup {None}, registry' \in Jobs \cup {None},
         UNCHANGED lost \/ AnswerLost,
         UNCHANGED <<queue, pushes, info, list, enq, shown>>,
         Once(job) => OnceInv(job)',
         watch[job] = "ended" => watch'[job] = "ended"
  PROVE  BInv'
<1>1. TypeOK'
  <2>1. \A v \in Workers : worker'[v].job = None <=> worker'[v].place \in {"loop", "pop", "off"}
    BY JobsAndPlaces, NoneIsNoJob DEF BInv
  <2>2. lost' \in 0 .. MaxLost
    BY LostBounded DEF BInv
  <2>3. worker' \in [Workers -> WorkerState]
    BY DEF Turned
  <2>4. QED
    BY <2>1, <2>2, <2>3 DEF BInv, TypeOK, WatchPlaces
<1>2. pushes[job] # 0 /\ enq[job] # "none"
  BY DEF BInv, JInv, Unseen
<1>3. JInv(job)'
  BY <1>2, SeenKept DEF BInv, JInv
<1>4. ASSUME NEW j \in Jobs, j # job PROVE JInv(j)'
  <2>1. \A v \in Workers : worker'[v].job = j => worker'[v] = worker[v]
    BY <1>4 DEF Turned
  <2>2. Quiet(j)
    BY <1>4, <2>1, SameQueue DEF Quiet
  <2>3. QED
    BY <2>2, QuietKept DEF BInv
<1>5. QED
  BY <1>1, <1>3, <1>4 DEF BInv

\* A worker with a job pushed once is the only one who has it, and nobody has seen its
\* end before the report.
LEMMA Alone ==
  ASSUME BInv, NEW w \in Workers, NEW job \in Jobs, job = worker[w].job, Once(job)
  PROVE  /\ OnceInv(job) /\ job \notin Elements(queue) /\ pushes[job] \in Nat /\ pushes[job] > 0
         /\ \A v \in Workers : worker[v].job = job => v = w
         /\ worker[w].place \in Active => ~Ended(job)
<1>1. OnceInv(job)
  BY DEF BInv, JInv
<1>2. pushes[job] \in Nat /\ pushes[job] # 0
  BY DEF BInv, TypeOK, JInv, Unseen
<1>3. QED
  BY <1>1, <1>2 DEF OnceInv, Settled

\* From taking the job to reporting it, a worker writes nothing final.
LEMMA Working ==
  ASSUME BInv, NEW w \in Workers, NEW job \in Jobs, job = worker[w].job, Once(job),
         NEW place \in Active, NEW outcome, Turned(w, place, job, outcome),
         worker[w].place \in Active,
         result' = result \/ result' = [result EXCEPT ![job] = "building"],
         UNCHANGED <<queue, pushes, watch, shown>>
  PROVE  OnceInv(job)'
<1>1. /\ OnceInv(job) /\ job \notin Elements(queue) /\ ~Ended(job)
      /\ \A v \in Workers : worker[v].job = job => v = w
  BY Alone
<1>2. /\ worker'[w].place = place
      /\ \A v \in Workers : worker'[v].job = job => v = w
  BY <1>1 DEF Turned
<1>3. result'[job] \notin Final \cup {"expired"} /\ shown[job] = "none" /\ watch[job] # "notified"
  BY <1>1 DEF BInv, TypeOK, Ended, Final
<1>4. ~Ended(job)'
  BY <1>3 DEF Ended
<1>5. Single(queue, job)' /\ job \notin Elements(queue)'
  BY <1>1 DEF OnceInv, Single, Elements
<1>6. "again" \notin Active /\ "none" \notin Final
  BY DEF Active, Final
<1>7. QED
  BY <1>2, <1>3, <1>4, <1>5, <1>6 DEF OnceInv

\* A worker that reports leaves its job settled.
LEMMA Reporting ==
  ASSUME BInv, NEW w \in Workers, NEW job \in Jobs, job = worker[w].job, Once(job),
         NEW place \in {"again", "publish"}, Turned(w, place, job, worker[w].outcome),
         worker[w].place \in {"report", "again"},
         \/ result' = [result EXCEPT ![job] = worker[w].outcome]
         \/ result' = result /\ (place = "publish" \/ worker[w].place = "again"),
         UNCHANGED <<queue, pushes, watch, shown>>
  PROVE  OnceInv(job)'
<1>1. /\ OnceInv(job) /\ job \notin Elements(queue) /\ pushes[job] \in Nat /\ pushes[job] > 0
      /\ \A v \in Workers : worker[v].job = job => v = w
      /\ worker[w].place \in Active => ~Ended(job)
  BY Alone
<1>2. /\ worker'[w].place = place /\ worker'[w].outcome = worker[w].outcome
      /\ \A v \in Workers : worker'[v].job = job => v = w
  BY <1>1 DEF Turned
<1>3. Single(queue, job)' /\ job \notin Elements(queue)'
  BY <1>1 DEF OnceInv, Single, Elements
<1>4. "again" \notin Active /\ "publish" \notin Active /\ "report" \in Active
  BY DEF Active
<1>5. Settled(job)'
  BY <1>1, <1>2, <1>3, <1>4 DEF Settled
<1>6. result'[job] = worker[w].outcome \/ result'[job] = result[job]
  BY DEF BInv, TypeOK
<1>7. shown[job] \in Final => shown[job] = worker[w].outcome /\ worker[w].place = "again"
  BY <1>1, <1>4 DEF OnceInv, Ended, Final
<1>8. (\A v \in Workers : worker[v].job = job /\ worker[v].place = "again" =>
         /\ result[job] \in {worker[v].outcome, "pending"}
         /\ shown[job] \in Final => shown[job] = worker[v].outcome)'
  <2>1. place = "again" => result'[job] \in {worker[w].outcome, "pending"}
    BY <1>1 DEF OnceInv, BInv, TypeOK
  <2>2. QED
    BY <1>2, <1>7, <2>1
<1>9. (shown[job] \in Final => result[job] \in {shown[job], "pending", "lapsed", "expired"})'
  BY <1>1, <1>6, <1>7 DEF OnceInv
<1>10. QED
  BY <1>2, <1>3, <1>5, <1>8, <1>9 DEF OnceInv

\* A worker that publishes has reported.
LEMMA Publishing ==
  ASSUME BInv, NEW w \in Workers, NEW job \in Jobs, job = worker[w].job, Once(job),
         NEW outcome, Turned(w, "save", job, outcome), worker[w].place = "publish",
         UNCHANGED <<queue, pushes, result, shown>>
  PROVE  OnceInv(job)'
<1>1. /\ OnceInv(job) /\ job \notin Elements(queue) /\ pushes[job] \in Nat /\ pushes[job] > 0
      /\ \A v \in Workers : worker[v].job = job => v = w
  BY Alone
<1>2. worker'[w].place = "save" /\ \A v \in Workers : worker'[v].job = job => v = w
  BY <1>1 DEF Turned
<1>3. Single(queue, job)' /\ job \notin Elements(queue)'
  BY <1>1 DEF OnceInv, Single, Elements
<1>4. Settled(job)'
  BY <1>1, <1>2, <1>3 DEF Settled, Active
<1>5. QED
  BY <1>1, <1>2, <1>3, <1>4 DEF OnceInv

\* A worker's steps.  Those without a job:
LEMMA JoblessSteps ==
  ASSUME BInv, NEW w \in Workers,
         Loop(w) \/ DequeueNothing(w) \/ SaveBuildLog(w) \/ Crash(w) \/ Boot(w)
  PROVE  BInv'
<1>1. TypeOK /\ (worker[w].job = None <=> worker[w].place \in {"loop", "pop", "off"})
  BY DEF BInv, TypeOK
<1>2. CASE Loop(w)
  <2>1. PICK place \in {"off", "pop"} : Moves(w, place, "none")
    BY <1>2 DEF Loop
  <2>2. Turned(w, place, None, "none")
    BY <1>1, <1>2, <2>1, MovesTurns DEF Loop, Places
  <2>3. QED
    BY <1>2, <2>2, WithoutJob DEF Loop, redis
<1>3. CASE DequeueNothing(w)
  <2>1. Turned(w, "loop", None, "none")
    BY <1>1, <1>3, MovesTurns DEF DequeueNothing, Places
  <2>2. QED
    BY <1>3, <2>1, WithoutJob DEF DequeueNothing, redis
<1>4. CASE SaveBuildLog(w)
  <2>1. Turned(w, "loop", None, "none")
    BY <1>1, <1>4, BecomesTurns DEF SaveBuildLog, Places
  <2>2. QED
    BY <1>4, <2>1, WithoutJob DEF SaveBuildLog, redis
<1>5. CASE Crash(w) \/ Boot(w)
  <2>1. Turned(w, "loop", None, "none")
    BY <1>1, <1>5, IdleTurns DEF Crash, Boot
  <2>2. QED
    BY <1>5, <2>1, WithoutJob DEF Crash, Boot, redis
<1>6. QED
  BY <1>2, <1>3, <1>4, <1>5

\* A job that is taken and was pushed once was in the queue once, with no worker, and
\* nobody has seen its end.
LEMMA DequeueStep ==
  ASSUME BInv, NEW w \in Workers, DequeueJob(w)
  PROVE  BInv'
<1>1. TypeOK /\ worker[w].job = None /\ worker[w].place = "pop"
  BY DEF BInv, TypeOK, DequeueJob
<1>2. queue \in Seq(Jobs) /\ queue # <<>> /\ queue' = Tail(queue)
  BY DEF BInv, TypeOK, DequeueJob
<1>3. PICK job \in Jobs :
        /\ job = Head(queue) /\ job \in Elements(queue)
        /\ queue' \in Seq(Jobs) /\ Elements(queue') \subseteq Elements(queue)
        /\ \A k \in Jobs : Single(queue, k) => Single(queue', k)
        /\ Single(queue, job) => job \notin Elements(queue')
  BY <1>2, Popped
<1>4. UNCHANGED <<pushes, result, info, list, lost, enq, image, registry, watch, shown>>
  BY DEF DequeueJob, images, stream
<1>5. CASE Moves(w, "loop", "none")
  <2>1. Turned(w, "loop", None, "none")
    BY <1>1, <1>5, MovesTurns DEF Places
  <2>2. QED
    BY <1>2, <2>1, WithoutJob DEF DequeueJob
<1>6. CASE Becomes(w, "begin", job, "none")
  <2>1. Turned(w, "begin", job, "none")
    BY <1>1, <1>6, BecomesTurns DEF Places
  <2>2. TypeOK'
    <3>1. \A v \in Workers :
            worker'[v].job = None <=> worker'[v].place \in {"loop", "pop", "off"}
      BY <1>1, <2>1, NoneIsNoJob, JobsAndPlaces
    <3>2. worker' \in [Workers -> WorkerState]
      BY <2>1 DEF Turned
    <3>3. QED
      BY <1>3, <1>4, <3>1, <3>2 DEF BInv, TypeOK
  <2>3. pushes[job] # 0 /\ enq[job] # "none"
    BY <1>3 DEF BInv, JInv, Unseen
  <2>4. ASSUME Once(job) PROVE OnceInv(job)'
    <3>1. OnceInv(job)
      BY <2>4 DEF BInv, JInv
    <3>2. /\ Single(queue', job) /\ job \notin Elements(queue') /\ ~Ended(job)
          /\ \A v \in Workers : worker[v].job # job
      BY <1>3, <3>1 DEF OnceInv, Settled
    <3>3. /\ worker'[w].place = "begin"
          /\ \A v \in Workers : worker'[v].job = job => v = w
      BY <2>1, <3>2 DEF Turned
    <3>4. ~Ended(job)' /\ shown'[job] \notin Final
      BY <1>4, <3>2 DEF Ended, Final
    <3>5. Single(queue, job)' /\ job \notin Elements(queue)'
      BY <3>2 DEF Single, Elements
    <3>6. QED
      BY <3>3, <3>4, <3>5 DEF OnceInv
  <2>5. JInv(job)'
    BY <1>4, <2>3, <2>4, SeenKept DEF BInv, JInv
  <2>6. ASSUME NEW j \in Jobs, j # job PROVE JInv(j)'
    <3>1. \A v \in Workers : worker'[v].job = j => worker'[v] = worker[v]
      BY <2>1, <2>6 DEF Turned
    <3>2. Quiet(j)
      BY <1>3, <1>4, <3>1 DEF Quiet
    <3>3. QED
      BY <3>2, QuietKept DEF BInv
  <2>7. QED
    BY <2>2, <2>5, <2>6 DEF BInv
<1>7. QED
  BY <1>3, <1>5, <1>6 DEF DequeueJob

\* Steps with a job.
LEMMA SameWatch ==
  ASSUME BInv, UNCHANGED watch
  PROVE  watch' \in [Jobs -> WatchPlaces]
BY DEF BInv, TypeOK, WatchPlaces

LEMMA Written ==
  ASSUME BInv, NEW j \in Jobs, NEW status \in Results,
         result' = result \/ result' = [result EXCEPT ![j] = status]
  PROVE  result' \in [Jobs -> Results] /\ \A k \in Jobs : k # j => result'[k] = result[k]
BY DEF BInv, TypeOK

LEMMA JobSteps ==
  ASSUME BInv, NEW w \in Workers,
         \/ BeginJob(w) \/ BuildImage(w) \/ PushImage(w)
         \/ Report(w) \/ ReportAgain(w) \/ Publish(w)
  PROVE  BInv'
<1>1. PICK job \in Jobs : job = worker[w].job
  BY DEF BInv, TypeOK, WorkerState, BeginJob, BuildImage, PushImage, Report, ReportAgain, Publish
<1>2. /\ TypeOK /\ worker[w].outcome \in Final \cup {"none"}
      /\ image \in Jobs \cup {None} /\ registry \in Jobs \cup {None}
      /\ {"begin", "build", "push", "report"} = Active /\ Active \subseteq Places
  BY DEF BInv, TypeOK, WorkerState, Active, Places
<1>3. CASE BeginJob(w)
  <2>1. PICK place \in {"begin", "build"}, outcome \in Final \cup {"none"} :
          Turned(w, place, job, outcome)
    BY <1>1, <1>2, <1>3, MovesTurns, StaysTurns DEF BeginJob
  <2>2. result' = result \/ result' = [result EXCEPT ![job] = "building"]
    BY <1>1, <1>3 DEF BeginJob, SetBuildResult
  <2>3. "building" \in Results /\ (UNCHANGED lost \/ AnswerLost)
    BY <1>3 DEF BeginJob, Results, Stored
  <2>4. UNCHANGED <<queue, pushes, info, list, enq, image, registry, watch, shown>>
    BY <1>3 DEF BeginJob, images, stream
  <2>5. Once(job) => OnceInv(job)'
    BY <1>1, <1>2, <1>3, <2>1, <2>2, <2>4, Working DEF BeginJob
  <2>6. result' \in [Jobs -> Results] /\ \A k \in Jobs : k # job => result'[k] = result[k]
    BY <2>2, Written DEF Results, Stored
  <2>7. QED
    BY <1>1, <1>2, <2>1, <2>3, <2>4, <2>5, <2>6, SameWatch, WithJob
<1>4. CASE BuildImage(w) \/ PushImage(w)
  <2>1. PICK place \in {"push", "report"}, outcome \in Final \cup {"none"} :
          Turned(w, place, job, outcome)
    BY <1>1, <1>2, <1>4, MovesTurns DEF BuildImage, PushImage, Final
  <2>2. image' \in Jobs \cup {None} /\ registry' \in Jobs \cup {None}
    BY <1>1, <1>2, <1>4 DEF BuildImage, PushImage
  <2>3. UNCHANGED <<queue, pushes, result, info, list, lost, enq, watch, shown>>
    BY <1>4 DEF BuildImage, PushImage, redis, stream
  <2>4. worker[w].place \in Active
    BY <1>2, <1>4 DEF BuildImage, PushImage
  <2>5. Once(job) => OnceInv(job)'
    BY <1>1, <1>2, <2>1, <2>3, <2>4, Working
  <2>6. result' \in [Jobs -> Results] /\ \A k \in Jobs : k # job => result'[k] = result[k]
    BY <1>2, <2>3 DEF TypeOK
  <2>7. QED
    BY <1>1, <2>1, <2>2, <2>3, <2>5, <2>6, SameWatch, WithJob
<1>5. CASE Report(w) \/ ReportAgain(w)
  <2>1. UNCHANGED <<queue, pushes, info, list, enq, image, registry, watch, shown>>
    BY <1>5 DEF Report, ReportAgain, images, stream
  <2>2. PICK place \in {"again", "publish"} :
          /\ Turned(w, place, job, worker[w].outcome)
          /\ \/ result' = [result EXCEPT ![job] = worker[w].outcome]
             \/ result' = result /\ (place = "publish" \/ worker[w].place = "again")
    <3>1. CASE Moves(w, "publish", worker[w].outcome)
      <4>1. Turned(w, "publish", job, worker[w].outcome)
        BY <1>1, <1>2, <3>1, MovesTurns DEF Places
      <4>2. QED
        BY <1>1, <1>5, <4>1 DEF Report, ReportAgain, SetBuildResult
    <3>2. CASE Report(w) /\ Moves(w, "again", worker[w].outcome)
      <4>1. Turned(w, "again", job, worker[w].outcome) /\ ~Turned(w, "publish", job, worker[w].outcome)
        BY <1>1, <1>2, <3>2, MovesTurns DEF Places, Turned
      <4>2. ~Moves(w, "publish", worker[w].outcome)
        BY <1>1, <1>2, <4>1, MovesTurns DEF Places
      <4>3. QED
        BY <1>1, <3>2, <4>1, <4>2 DEF Report
    <3>3. CASE ReportAgain(w) /\ UNCHANGED worker
      <4>1. Turned(w, "again", job, worker[w].outcome)
        BY <1>1, <1>2, <3>3, StaysTurns DEF ReportAgain
      <4>2. QED
        BY <1>1, <3>3, <4>1 DEF ReportAgain, SetBuildResult
    <3>4. QED
      BY <1>5, <3>1, <3>2, <3>3 DEF Report, ReportAgain
  <2>3. UNCHANGED lost \/ AnswerLost
    BY <1>5 DEF Report, ReportAgain
  <2>4. worker[w].place \in {"report", "again"}
    BY <1>5 DEF Report, ReportAgain
  <2>5. Once(job) => OnceInv(job)'
    BY <1>1, <2>1, <2>2, <2>4, Reporting
  <2>6. worker[w].outcome \in Results
    BY <1>2 DEF Results, Stored, Final
  <2>7. result' \in [Jobs -> Results] /\ \A k \in Jobs : k # job => result'[k] = result[k]
    BY <2>2, <2>6, Written
  <2>8. QED
    BY <1>1, <1>2, <2>1, <2>2, <2>3, <2>5, <2>7, SameWatch, WithJob
<1>6. CASE Publish(w)
  <2>1. Turned(w, "save", job, "none")
    BY <1>1, <1>2, <1>6, MovesTurns DEF Publish, Places
  <2>2. UNCHANGED <<queue, pushes, result, info, list, lost, enq, image, registry, shown>>
    BY <1>6 DEF Publish, redis, images
  <2>3. /\ watch' \in [Jobs -> WatchPlaces]
        /\ \A j \in Jobs : j # job => watch'[j] = watch[j]
        /\ watch[job] = "ended" => watch'[job] = "ended"
    BY <1>1, <1>2, <1>6 DEF Publish, TypeOK, WatchPlaces
  <2>4. Once(job) => OnceInv(job)'
    BY <1>1, <1>6, <2>1, <2>2, Publishing DEF Publish
  <2>5. result' \in [Jobs -> Results]
    BY <1>2, <2>2 DEF TypeOK
  <2>6. QED
    BY <1>1, <1>2, <2>1, <2>2, <2>3, <2>4, <2>5, WithJob
<1>7. QED
  BY <1>3, <1>4, <1>5, <1>6

LEMMA SigtermStep ==
  ASSUME BInv, NEW w \in Workers, Sigterm(w)
  PROVE  BInv'
<1>1. Turned(w, worker[w].place, worker[w].job, worker[w].outcome)
  BY SigtermTurns DEF BInv
<1>2. UNCHANGED <<queue, pushes, result, info, list, lost, enq, image, registry, watch, shown>>
  BY DEF Sigterm, redis, images, stream
<1>3. \A v \in Workers : worker'[v].place = worker[v].place /\ worker'[v].job = worker[v].job
                         /\ worker'[v].outcome = worker[v].outcome
  BY <1>1 DEF Turned
<1>4. TypeOK'
  <2>1. worker' \in [Workers -> WorkerState]
    BY <1>1 DEF Turned
  <2>2. QED
    BY <1>2, <1>3, <2>1 DEF BInv, TypeOK
<1>5. \A j \in Jobs : Quiet(j)
  BY <1>2, <1>3, SameQueue DEF Quiet
<1>6. QED
  BY <1>4, <1>5, QuietKept DEF BInv

-----------------------------------------------------------------------------
(* EnqueueBuild *)

LEMMA EnqTyped ==
  ASSUME TypeOK, NEW j \in Jobs, NEW place \in EnqPlaces, Goes(j, place)
  PROVE  /\ enq' \in [Jobs -> EnqPlaces]
         /\ enq'[j] = place /\ \A k \in Jobs : k # j => enq'[k] = enq[k]
BY DEF TypeOK, Goes, EnqPlaces

\* What EnqueueBuild does after the RPush: of what the invariant looks at only the result
\* changes, to "pending".
LEMMA Enqueued ==
  ASSUME BInv, NEW j \in Jobs, enq[j] # "none",
         NEW place \in EnqPlaces \ {"none"}, Goes(j, place) \/ UNCHANGED enq,
         result' = result \/ result' = [result EXCEPT ![j] = "pending"],
         info' \in [Jobs -> {"none", "set", "expired"}], list' \in Seq(Jobs),
         UNCHANGED lost \/ AnswerLost,
         UNCHANGED <<queue, pushes, worker, images, stream>>
  PROVE  BInv'
<1>1. /\ enq' \in [Jobs -> EnqPlaces] /\ enq'[j] # "none"
      /\ \A k \in Jobs : k # j => enq'[k] = enq[k]
  BY EnqTyped DEF BInv, TypeOK, EnqPlaces
<1>2. /\ result' \in [Jobs -> Results]
      /\ \A k \in Jobs : k # j => result'[k] = result[k]
      /\ result'[j] = result[j] \/ result'[j] = "pending"
  BY DEF BInv, TypeOK, Results, Stored
<1>3. UNCHANGED <<queue, pushes, worker, image, registry, watch, shown>>
  BY DEF images, stream
<1>4. TypeOK'
  <2>1. lost' \in 0 .. MaxLost
    BY LostBounded DEF BInv
  <2>2. QED
    BY <1>1, <1>2, <1>3, <2>1 DEF BInv, TypeOK, EnqPlaces
<1>5. pushes[j] # 0
  BY DEF BInv, JInv, Unseen
<1>6. ASSUME Once(j) PROVE OnceInv(j)'
  <2>1. OnceInv(j)
    BY <1>6 DEF BInv, JInv
  <2>2. Ended(j)' => Ended(j)
    BY <1>2, <1>3 DEF Ended, Final
  <2>3. Settled(j) => Settled(j)'
    BY <1>3, SameQueue DEF Settled, Elements
  <2>4. Single(queue, j)' /\ (j \in Elements(queue) => \A w \in Workers : worker[w].job # j)'
    BY <1>3, <2>1 DEF OnceInv, Single, Elements
  <2>5. QED
    BY <1>2, <1>3, <2>1, <2>2, <2>3, <2>4 DEF OnceInv
<1>7. JInv(j)'
  BY <1>1, <1>3, <1>5, <1>6, SeenKept DEF BInv, JInv
<1>8. ASSUME NEW k \in Jobs, k # j PROVE JInv(k)'
  <2>1. Quiet(k)
    BY <1>1, <1>2, <1>3, <1>8, SameQueue DEF Quiet
  <2>2. QED
    BY <2>1, QuietKept DEF BInv
<1>9. QED
  BY <1>4, <1>7, <1>8 DEF BInv

LEMMA SentStep ==
  ASSUME BInv, NEW j \in Jobs, Sent(j), enq[j] \in {"none", "push"}
  PROVE  BInv'
<1>1. UNCHANGED <<result, info, list, worker, image, registry, watch, shown>>
  BY DEF Sent, images, stream
<1>2. /\ queue' \in Seq(Jobs) /\ Elements(queue') = Elements(queue) \cup {j}
      /\ \A k \in Jobs : k # j /\ Single(queue, k) => Single(queue', k)
      /\ j \notin Elements(queue) => Single(queue', j)
  BY Pushed DEF BInv, TypeOK, Sent
<1>3. PICK place \in {"info", "push"} : Goes(j, place)
  BY DEF Sent
<1>4. /\ enq' \in [Jobs -> EnqPlaces] /\ enq'[j] # "none"
      /\ \A k \in Jobs : k # j => enq'[k] = enq[k]
  BY <1>3, EnqTyped DEF BInv, EnqPlaces
<1>5. /\ pushes' \in [Jobs -> Nat] /\ pushes[j] \in Nat /\ pushes'[j] = pushes[j] + 1
      /\ \A k \in Jobs : k # j => pushes'[k] = pushes[k]
  BY DEF BInv, TypeOK, Sent, Counts
<1>6. TypeOK'
  <2>1. lost' \in 0 .. MaxLost
    BY LostBounded DEF BInv, Sent
  <2>2. QED
    BY <1>1, <1>2, <1>4, <1>5, <2>1 DEF BInv, TypeOK, EnqPlaces
<1>7. ASSUME Once(j)' PROVE OnceInv(j)'
  <2>1. pushes[j] = 0
    BY <1>5, <1>7 DEF Once
  <2>2. /\ j \notin Elements(queue) /\ result[j] = "none"
        /\ watch[j] = "none" /\ shown[j] = "none"
        /\ \A w \in Workers : worker[w].job # j
    BY <2>1 DEF BInv, JInv, Unseen
  <2>3. ~Ended(j)' /\ shown'[j] \notin Final
    BY <1>1, <2>2 DEF Ended, Final
  <2>4. Single(queue, j)'
    BY <1>2, <2>2 DEF Single
  <2>5. QED
    BY <1>1, <2>2, <2>3, <2>4 DEF OnceInv
<1>8. JInv(j)'
  BY <1>1, <1>4, <1>5, <1>7 DEF BInv, JInv, Unseen
<1>9. ASSUME NEW k \in Jobs, k # j PROVE JInv(k)'
  <2>1. Quiet(k)
    BY <1>1, <1>2, <1>4, <1>5, <1>9 DEF Quiet
  <2>2. QED
    BY <2>1, QuietKept DEF BInv
<1>10. QED
  BY <1>6, <1>8, <1>9 DEF BInv

LEMMA EnqueueSteps ==
  ASSUME BInv, NEW j \in Jobs, PushJob(j) \/ EnqueueBuild(j) \/ Abandon(j)
  PROVE  BInv'
<1>1. info \in [Jobs -> {"none", "set", "expired"}] /\ list \in Seq(Jobs)
  BY DEF BInv, TypeOK
<1>2. CASE PushJob(j)
  BY <1>2, SentStep DEF PushJob
<1>3. CASE PushAgain(j)
  <2>1. CASE Sent(j)
    BY <1>3, <2>1, SentStep DEF PushAgain
  <2>2. CASE Goes(j, "failed") /\ UNCHANGED <<redis, worker, images, stream>>
    BY <1>1, <1>3, <2>2, Enqueued DEF PushAgain, redis, EnqPlaces
  <2>3. QED
    BY <1>3, <2>1, <2>2 DEF PushAgain
<1>4. CASE SetJobInfo(j)
  <2>1. info' \in [Jobs -> {"none", "set", "expired"}]
    BY <1>1, <1>4 DEF SetJobInfo
  <2>2. QED
    BY <1>1, <1>4, <2>1, Enqueued DEF SetJobInfo, EnqPlaces
<1>5. CASE ListJob(j)
  <2>1. <<j>> \o list \in Seq(Jobs)
    BY <1>1
  <2>2. list' \in Seq(Jobs) /\ (UNCHANGED lost \/ AnswerLost) /\ (Goes(j, "trim") \/ UNCHANGED enq)
    BY <1>1, <1>5, <2>1 DEF ListJob
  <2>3. QED
    BY <1>1, <1>5, <2>2, Enqueued DEF ListJob, EnqPlaces
<1>6. CASE TrimList(j)
  BY <1>1, <1>6, Trimmed, Enqueued DEF TrimList, EnqPlaces
<1>7. CASE SetPending(j)
  <2>1. PICK place \in {"done", "failed"} : Goes(j, place) \/ UNCHANGED enq
    BY <1>7 DEF SetPending
  <2>2. /\ result' = result \/ result' = [result EXCEPT ![j] = "pending"]
        /\ UNCHANGED lost \/ AnswerLost
    BY <1>7 DEF SetPending
  <2>3. QED
    BY <1>1, <1>7, <2>1, <2>2, Enqueued DEF SetPending, EnqPlaces
<1>8. CASE Abandon(j)
  BY <1>1, <1>8, Enqueued DEF Abandon, redis, EnqPlaces
<1>9. QED
  BY <1>2, <1>3, <1>4, <1>5, <1>6, <1>7, <1>8 DEF EnqueueBuild

-----------------------------------------------------------------------------
(* StreamBuildLog and the expiry of keys *)

\* A stream of a job that was pushed goes on, or ends with the job's result or without one.
LEMMA Streamed ==
  ASSUME BInv, NEW j \in Jobs, enq[j] # "none", watch[j] # "ended",
         NEW place \in {"open", "subscribed", "ended"},
         watch' = [watch EXCEPT ![j] = place],
         \/ shown' = shown
         \/ /\ place = "ended"
            /\ \E status \in {"unspecified"} \cup Final :
                 /\ status \in Final => result[j] = status
                 /\ status = "unspecified" => watch[j] = "notified"
                 /\ shown' = [shown EXCEPT ![j] = status],
         UNCHANGED <<redis, enq, worker, images>>
  PROVE  BInv'
<1>1. UNCHANGED <<queue, pushes, result, info, list, lost, enq, worker, image, registry>>
  BY DEF redis, images
<1>2. /\ watch' \in [Jobs -> WatchPlaces] /\ watch'[j] = place
      /\ \A k \in Jobs : k # j => watch'[k] = watch[k]
  BY DEF BInv, TypeOK, WatchPlaces
<1>3. pushes[j] # 0 /\ shown[j] = "none"
  BY DEF BInv, JInv, Unseen
<1>4. /\ shown' \in [Jobs -> {"none", "unspecified"} \cup Final]
      /\ \A k \in Jobs : k # j => shown'[k] = shown[k]
      /\ shown'[j] \in Final => result[j] = shown'[j]
      /\ shown'[j] # "none" => place = "ended" /\ Ended(j)
  <2>1. shown \in [Jobs -> {"none", "unspecified"} \cup Final] /\ "none" \notin Final
    BY DEF BInv, TypeOK, Final
  <2>2. CASE shown' = shown
    BY <1>3, <2>1, <2>2
  <2>3. CASE shown' # shown
    <3>1. PICK status \in {"unspecified"} \cup Final :
            /\ status \in Final => result[j] = status
            /\ status = "unspecified" => watch[j] = "notified"
            /\ shown' = [shown EXCEPT ![j] = status] /\ place = "ended"
      BY <2>3
    <3>2. /\ shown' \in [Jobs -> {"none", "unspecified"} \cup Final]
          /\ shown'[j] = status /\ \A k \in Jobs : k # j => shown'[k] = shown[k]
      BY <2>1, <3>1
    <3>3. Ended(j)
      BY <3>1 DEF Ended
    <3>4. QED
      BY <3>1, <3>2, <3>3
  <2>4. QED
    BY <2>2, <2>3
<1>5. TypeOK'
  BY <1>1, <1>2, <1>4 DEF BInv, TypeOK, WatchPlaces
<1>6. ASSUME Once(j) PROVE OnceInv(j)'
  <2>1. OnceInv(j)
    BY <1>6 DEF BInv, JInv
  <2>2. Ended(j)' => Ended(j)
    BY <1>1, <1>2, <1>4 DEF Ended
  <2>3. Settled(j) => Settled(j)'
    BY <1>1, SameQueue DEF Settled, Elements
  <2>4. Single(queue, j)' /\ (j \in Elements(queue) => \A w \in Workers : worker[w].job # j)'
    BY <1>1, <2>1 DEF OnceInv, Single, Elements
  <2>5. (\A w \in Workers : worker[w].job = j /\ worker[w].place = "again" =>
           /\ result[j] \in {worker[w].outcome, "pending"}
           /\ shown[j] \in Final => shown[j] = worker[w].outcome)'
    BY <1>1, <1>4, <2>1 DEF OnceInv, Final
  <2>6. QED
    BY <1>1, <1>4, <2>1, <2>2, <2>3, <2>4, <2>5 DEF OnceInv
<1>7. JInv(j)'
  BY <1>1, <1>2, <1>3, <1>4, <1>6, SeenKept
<1>8. ASSUME NEW k \in Jobs, k # j PROVE JInv(k)'
  <2>1. Quiet(k)
    BY <1>1, <1>2, <1>4, <1>8, SameQueue DEF Quiet
  <2>2. QED
    BY <2>1, QuietKept DEF BInv
<1>9. QED
  BY <1>5, <1>7, <1>8 DEF BInv

LEMMA StreamSteps ==
  ASSUME BInv, NEW j \in Jobs, OpenStream(j) \/ Subscribe(j) \/ Receive(j) \/ Poll(j)
  PROVE  BInv'
<1>1. watch[j] # "none" => enq[j] # "none"
  BY DEF BInv, JInv, Unseen
<1>2. CASE OpenStream(j)
  <2>1. enq[j] # "none" /\ watch[j] # "ended" /\ UNCHANGED <<redis, enq, worker, images>>
    BY <1>2 DEF OpenStream
  <2>2. CASE result[j] \in Final /\ Ends(j, result[j])
    BY <2>1, <2>2, Streamed DEF Ends, Final
  <2>3. CASE watch' = [watch EXCEPT ![j] = "open"] /\ UNCHANGED shown
    BY <2>1, <2>3, Streamed
  <2>4. QED
    BY <1>2, <2>2, <2>3 DEF OpenStream
<1>3. CASE Subscribe(j)
  BY <1>1, <1>3, Streamed DEF Subscribe
<1>4. CASE Receive(j)
  BY <1>1, <1>4, Streamed DEF Receive, Ends, Final
<1>5. CASE Poll(j)
  BY <1>1, <1>5, Streamed DEF Poll, Ends, Final
<1>6. QED
  BY <1>2, <1>3, <1>4, <1>5

LEMMA ExpireSteps ==
  ASSUME BInv, NEW j \in Jobs, ExpireResult(j) \/ ExpireInfo(j)
  PROVE  BInv'
<1>1. UNCHANGED <<queue, pushes, list, lost, enq, worker, image, registry, watch, shown>>
  BY DEF ExpireResult, ExpireInfo, images, stream
<1>2. /\ result' \in [Jobs -> Results] /\ info' \in [Jobs -> {"none", "set", "expired"}]
      /\ \A k \in Jobs : k # j => result'[k] = result[k]
  BY DEF BInv, TypeOK, Results, ExpireResult, ExpireInfo
<1>3. TypeOK'
  BY <1>1, <1>2 DEF BInv, TypeOK
<1>4. ASSUME NEW k \in Jobs, k # j \/ ExpireInfo(j) PROVE JInv(k)'
  <2>1. result'[k] = result[k]
    BY <1>2, <1>4 DEF ExpireInfo
  <2>2. Quiet(k)
    BY <1>1, <2>1, SameQueue DEF Quiet
  <2>3. QED
    BY <2>2, QuietKept DEF BInv
<1>5. ASSUME ExpireResult(j) PROVE JInv(j)'
  <2>1. /\ enq[j] # "none" /\ \A w \in Workers : ~(worker[w].place = "again" /\ worker[w].job = j)
        /\ \/ result[j] \in {"pending", "building"} /\ result'[j] = "lapsed"
           \/ result[j] \in Final /\ result'[j] = "expired"
    BY <1>5 DEF ExpireResult, BInv, TypeOK
  <2>2. pushes[j] # 0
    BY <2>1 DEF BInv, JInv, Unseen
  <2>3. ASSUME Once(j) PROVE OnceInv(j)'
    <3>1. OnceInv(j)
      BY <2>3 DEF BInv, JInv
    <3>2. Ended(j)' => Ended(j)
      BY <1>1, <2>1 DEF Ended, Final
    <3>3. Settled(j) => Settled(j)'
      BY <1>1, SameQueue DEF Settled, Elements
    <3>4. Single(queue, j)' /\ (j \in Elements(queue) => \A w \in Workers : worker[w].job # j)'
      BY <1>1, <3>1 DEF OnceInv, Single, Elements
    <3>5. QED
      BY <1>1, <2>1, <3>1, <3>2, <3>3, <3>4 DEF OnceInv
  <2>4. QED
    BY <1>1, <2>1, <2>2, <2>3, SeenKept DEF BInv, JInv
<1>6. QED
  BY <1>3, <1>4, <1>5 DEF BInv

-----------------------------------------------------------------------------
(* The theorems *)

LEMMA BInitially == Init => BInv
<1>1. HAVE Init
<1>2. TypeOK
  BY <1>1, BuildQueueAssumption DEF Init, TypeOK, Results, WorkerState, Idle
<1>3. Elements(queue) = {} /\ DOMAIN queue = {}
  BY <1>1 DEF Init, Elements
<1>4. \A w \in Workers : worker[w].job = None
  BY <1>1 DEF Init, Idle
<1>5. ASSUME NEW j \in Jobs PROVE JInv(j)
  <2>1. Unseen(j)
    BY <1>1, <1>3, <1>4, NoneIsNoJob DEF Init, Unseen
  <2>2. ~Ended(j) /\ shown[j] \notin Final
    BY <1>1 DEF Init, Ended, Final
  <2>3. OnceInv(j)
    BY <1>3, <1>4, <2>2, NoneIsNoJob DEF OnceInv, Single
  <2>4. QED
    BY <1>1, <2>1, <2>3 DEF Init, JInv
<1>6. QED
  BY <1>2, <1>5 DEF BInv

LEMMA BInductive ==
  ASSUME BInv, [Next]_vars
  PROVE  BInv'
<1>1. CASE \E j \in Jobs : PushJob(j) \/ EnqueueBuild(j) \/ Abandon(j)
  BY <1>1, EnqueueSteps
<1>2. CASE \E w \in Workers : Worker(w) \/ Crash(w) \/ Sigterm(w) \/ Boot(w)
  BY <1>2, JoblessSteps, DequeueStep, JobSteps, SigtermStep DEF Worker
<1>3. CASE \E j \in Jobs : OpenStream(j) \/ Subscribe(j) \/ Receive(j) \/ Poll(j)
  BY <1>3, StreamSteps
<1>4. CASE \E j \in Jobs : ExpireResult(j) \/ ExpireInfo(j)
  BY <1>4, ExpireSteps
<1>5. CASE UNCHANGED vars
  <2>1. UNCHANGED <<queue, pushes, result, info, list, lost, enq, worker, image, registry,
                    watch, shown>>
    BY <1>5 DEF vars, redis, images, stream
  <2>2. TypeOK'
    BY <2>1 DEF BInv, TypeOK
  <2>3. \A j \in Jobs : Quiet(j)
    BY <2>1, SameQueue DEF Quiet
  <2>4. QED
    BY <2>2, <2>3, QuietKept DEF BInv
<1>6. QED
  BY <1>1, <1>2, <1>3, <1>4, <1>5 DEF Next

\* The inductive invariant holds in every reachable state of the pipeline.
THEOREM BInvAlways == Spec => []BInv
BY BInitially, BInductive, PTL DEF Spec

\* Queue, statuses, workers, images and streams keep their types, for every size.
THEOREM TypeCorrect == Spec => []TypeOK
<1>1. BInv => TypeOK
  BY DEF BInv
<1>2. QED
  BY <1>1, BInvAlways, PTL

\* A job whose RPush was executed once is taken by one worker, once, and not after it has a
\* final result, however many workers share the queue and whichever of them die or lose
\* their answers; a job is pushed twice when Redis loses the answer of its RPush
\* (queue/redis.go:71-85, builder_client.go:104).
THEOREM TakenOnceAlways == Spec => []TakenOnce
<1>1. BInv => TakenOnce
  <2>1. SUFFICES ASSUME BInv, NEW j \in Jobs, Once(j)
                 PROVE  /\ \A a, b \in DOMAIN queue : queue[a] = j /\ queue[b] = j => a = b
                        /\ \A v, w \in Workers : worker[v].job = j /\ worker[w].job = j => v = w
                        /\ j \in Elements(queue) =>
                             /\ result[j] \notin Final \cup {"expired"}
                             /\ \A w \in Workers : worker[w].job # j
    BY DEF TakenOnce, Once
  <2>2. OnceInv(j)
    BY <2>1 DEF BInv, JInv
  <2>3. QED
    BY <2>2 DEF OnceInv, Single, Ended, Settled
<1>2. QED
  BY <1>1, BInvAlways, PTL

\* The status a log stream ends with is the job's result, and no other final one takes its
\* place while the job's RPush was executed once (admin_service.go:319-378).
THEOREM ShownAlways == Spec => []ShownIsResult
<1>1. BInv => ShownIsResult
  <2>1. SUFFICES ASSUME BInv, NEW j \in Jobs, shown[j] \in Final, ~(pushes[j] > 1)
                 PROVE  result[j] \in {shown[j], "pending", "lapsed", "expired"}
    BY DEF ShownIsResult
  <2>2. Once(j)
    BY <2>1 DEF Once, BInv, TypeOK
  <2>3. QED
    BY <2>1, <2>2 DEF BInv, JInv, OnceInv
<1>2. QED
  BY <1>1, BInvAlways, PTL

\* Only the initial status, written last by EnqueueBuild, the expiry of the key, and a
\* worker whose job was pushed twice overwrite a final result (builder_client.go:104,
\* 130-144, queue/redis.go:94).
THEOREM ResultCausesAlways == Spec => ResultCauses
<1>1. ASSUME BInv, [Next]_vars
      PROVE  ResultStep
  <2>1. SUFFICES ASSUME NEW j \in Jobs, result[j] \in Final, result'[j] # result[j],
                        result'[j] # "expired", ~(enq[j] = "pending" /\ result'[j] = "pending")
                 PROVE  /\ pushes[j] > 1
                        /\ \E w \in Workers : worker[w].job = j
                             /\ worker[w].place \in {"begin", "report", "again"}
    BY DEF ResultStep
  <2>2. CASE \E k \in Jobs : PushJob(k) \/ EnqueueBuild(k) \/ Abandon(k)
    <3>1. PICK k \in Jobs : SetPending(k)
      BY <2>1, <2>2 DEF PushJob, PushAgain, Sent, EnqueueBuild, Abandon, SetJobInfo, ListJob,
                        TrimList, redis
    <3>2. QED
      BY <1>1, <2>1, <3>1 DEF SetPending, BInv, TypeOK
  <2>3. CASE \E w \in Workers : Worker(w) \/ Crash(w) \/ Sigterm(w) \/ Boot(w)
    <3>1. PICK w \in Workers : BeginJob(w) \/ Report(w) \/ ReportAgain(w)
      BY <2>1, <2>3 DEF Worker, Loop, DequeueJob, DequeueNothing, BuildImage, PushImage,
                        Publish, SaveBuildLog, Crash, Sigterm, Boot, redis
    <3>2. /\ worker[w].job = j /\ worker[w].place \in {"begin", "report", "again"}
          /\ worker[w].place = "again" => result'[j] = worker[w].outcome
      BY <1>1, <2>1, <3>1 DEF BeginJob, Report, ReportAgain, SetBuildResult, BInv, TypeOK
    <3>3. CASE Once(j)
      <4>1. OnceInv(j) /\ (worker[w].place \in Active => ~Ended(j))
        BY <1>1, <3>2, <3>3, Alone
      <4>2. worker[w].place = "again"
        BY <2>1, <3>2, <4>1 DEF Ended, Active
      <4>3. QED
        BY <2>1, <3>2, <4>1, <4>2 DEF OnceInv, Final
    <3>4. CASE ~Once(j)
      BY <1>1, <3>2, <3>4 DEF Once, BInv, TypeOK
    <3>5. QED
      BY <3>3, <3>4
  <2>4. CASE \E k \in Jobs : OpenStream(k) \/ Subscribe(k) \/ Receive(k) \/ Poll(k)
    BY <2>1, <2>4 DEF OpenStream, Subscribe, Receive, Poll, redis
  <2>5. CASE \E k \in Jobs : ExpireResult(k) \/ ExpireInfo(k)
    BY <1>1, <2>1, <2>5 DEF ExpireResult, ExpireInfo, BInv, TypeOK, Final
  <2>6. CASE UNCHANGED vars
    BY <2>1, <2>6 DEF vars, redis
  <2>7. QED
    BY <1>1, <2>2, <2>3, <2>4, <2>5, <2>6 DEF Next
<1>2. QED
  BY <1>1, BInvAlways, PTL DEF Spec, ResultCauses

-----------------------------------------------------------------------------
(* Forgotten jobs *)

\* A job that goes on as it was: whoever had it has it, and its result is not undone.
LEMMA WasForgotten ==
  ASSUME BInv, NEW j \in Jobs, Forgotten(j)', enq[j] # "none",
         j \in Elements(queue) => j \in Elements(queue'),
         \A w \in Workers : worker[w].job = j /\ worker[w].place \in Active =>
           worker'[w].job = j /\ worker'[w].place \in Active,
         result[j] \in Final \cup {"expired"} => result'[j] \in Final \cup {"expired"}
  PROVE  Forgotten(j)
BY DEF Forgotten, Underway, Elements

\* A key expires when EnqueueBuild is over.
Over == \A j \in Jobs : result[j] \in {"lapsed", "expired"} => enq[j] \in {"done", "failed"}

\* A worker that reports has an outcome to report.
HasOutcome ==
  \A w \in Workers : worker[w].place \in {"report", "again"} => worker[w].outcome \in Final

FInv == BInv /\ Over /\ HasOutcome

LEMMA ForgottenByEnqueue ==
  ASSUME BInv, Over, NEW j \in Jobs, Forgotten(j)', ~Forgotten(j),
         NEW k \in Jobs, PushJob(k) \/ EnqueueBuild(k) \/ Abandon(k)
  PROVE  enq[j] = "pending" /\ result[j] \in Final
<1>1. worker' = worker /\ \A i \in Jobs : i # k => enq'[i] = enq[i]
  BY DEF PushJob, PushAgain, Sent, EnqueueBuild, SetJobInfo, ListJob, TrimList, SetPending,
         Abandon, Goes, BInv, TypeOK
<1>2. CASE Sent(k)
  <2>1. Elements(queue') = Elements(queue) \cup {k}
    BY <1>2, Pushed DEF Sent, BInv, TypeOK
  <2>2. j # k
    BY <2>1 DEF Forgotten, Underway, Elements
  <2>3. enq[j] # "none"
    BY <1>1, <2>2 DEF Forgotten
  <2>4. QED
    BY <1>1, <1>2, <2>1, <2>3, WasForgotten DEF Sent
<1>3. CASE ~Sent(k)
  <2>1. enq[k] # "none" /\ queue' = queue
    BY <1>3 DEF PushJob, PushAgain, EnqueueBuild, SetJobInfo, ListJob, TrimList, SetPending,
                Abandon, redis
  <2>2. enq[j] # "none"
    BY <1>1, <2>1 DEF Forgotten
  <2>3. result[j] \in Final \cup {"expired"} /\ result'[j] \notin Final \cup {"expired"}
    BY <1>1, <2>1, <2>2 DEF Forgotten, Underway, Elements
  <2>4. SetPending(k)
    BY <1>3, <2>3 DEF PushJob, PushAgain, EnqueueBuild, SetJobInfo, ListJob, TrimList, Abandon,
                      redis
  <2>5. j = k
    BY <2>3, <2>4 DEF SetPending, BInv, TypeOK
  <2>6. enq[j] = "pending"
    BY <2>4, <2>5 DEF SetPending
  <2>7. QED
    BY <2>3, <2>6 DEF Over
<1>4. QED
  BY <1>2, <1>3

LEMMA OutcomeKept ==
  ASSUME BInv, HasOutcome, [Next]_vars
  PROVE  HasOutcome'
<1>1. \A w \in Workers : worker[w] \in WorkerState
  BY DEF BInv, TypeOK
<1>2. CASE UNCHANGED worker
  BY <1>2 DEF HasOutcome
<1>3. ASSUME NEW w \in Workers, NEW new, worker' = [worker EXCEPT ![w] = new],
             new.place \in {"report", "again"} => new.outcome \in Final
      PROVE  HasOutcome'
  BY <1>3 DEF HasOutcome, BInv, TypeOK
<1>4. ASSUME NEW w \in Workers, NEW place, NEW job, NEW outcome,
             Becomes(w, place, job, outcome), place \in {"report", "again"} => outcome \in Final
      PROVE  HasOutcome'
  <2>1. PICK new : new = [place |-> place, job |-> job, outcome |-> outcome,
                          cancelled |-> worker[w].cancelled]
    OBVIOUS
  <2>2. worker' = [worker EXCEPT ![w] = new]
    BY <1>4, <2>1 DEF Becomes, BInv, TypeOK
  <2>3. new.place \in {"report", "again"} => new.outcome \in Final
    BY <1>4, <2>1
  <2>4. QED
    BY <1>3, <2>2, <2>3
<1>5. ASSUME NEW w \in Workers, Worker(w) PROVE HasOutcome'
  <2>1. CASE Loop(w)
    BY <1>4, <2>1 DEF Loop, Moves
  <2>2. CASE DequeueJob(w)
    BY <1>4, <2>2 DEF DequeueJob, Moves
  <2>3. CASE DequeueNothing(w) \/ BeginJob(w)
    BY <1>2, <1>4, <2>3 DEF DequeueNothing, BeginJob, Moves
  <2>4. CASE BuildImage(w) \/ PushImage(w)
    BY <1>4, <2>4 DEF BuildImage, PushImage, Moves, Final
  <2>5. CASE Report(w)
    <3>1. worker[w].outcome \in Final
      BY <2>5 DEF HasOutcome, Report
    <3>2. QED
      BY <1>4, <2>5, <3>1 DEF Report, Moves
  <2>6. CASE ReportAgain(w) \/ Publish(w) \/ SaveBuildLog(w)
    BY <1>2, <1>4, <2>6 DEF ReportAgain, Publish, SaveBuildLog, Moves
  <2>7. QED
    BY <1>5, <2>1, <2>2, <2>3, <2>4, <2>5, <2>6 DEF Worker
<1>6. ASSUME NEW w \in Workers, Crash(w) \/ Boot(w) PROVE HasOutcome'
  <2>1. Idle.place \notin {"report", "again"}
    BY DEF Idle
  <2>2. QED
    BY <1>3, <1>6, <2>1 DEF Crash, Boot
<1>7. ASSUME NEW w \in Workers, Sigterm(w) PROVE HasOutcome'
  <2>1. PICK old, new : /\ old = worker[w] /\ old \in WorkerState
                        /\ new = [old EXCEPT !.cancelled = TRUE]
    BY <1>1
  <2>2. new.place = old.place /\ new.outcome = old.outcome
    BY <2>1 DEF WorkerState
  <2>3. worker' = [worker EXCEPT ![w] = new]
    BY <1>7, <2>1 DEF Sigterm, BInv, TypeOK
  <2>4. QED
    BY <1>3, <2>1, <2>2, <2>3 DEF HasOutcome
<1>8. CASE \E j \in Jobs : PushJob(j) \/ EnqueueBuild(j) \/ Abandon(j)
  BY <1>2, <1>8 DEF PushJob, PushAgain, Sent, EnqueueBuild, SetJobInfo, ListJob, TrimList,
                    SetPending, Abandon
<1>9. CASE \E j \in Jobs : OpenStream(j) \/ Subscribe(j) \/ Receive(j) \/ Poll(j)
  BY <1>2, <1>9 DEF OpenStream, Subscribe, Receive, Poll
<1>10. CASE \E j \in Jobs : ExpireResult(j) \/ ExpireInfo(j)
  BY <1>2, <1>10 DEF ExpireResult, ExpireInfo
<1>11. QED
  BY <1>2, <1>5, <1>6, <1>7, <1>8, <1>9, <1>10 DEF Next, vars

LEMMA OverKept ==
  ASSUME BInv, Over, [Next]_vars
  PROVE  Over'
<1>1. ASSUME UNCHANGED enq, \A j \in Jobs : result'[j] = result[j] \/ result'[j] \in Stored
      PROVE  Over'
  BY <1>1 DEF Over, Stored, Final
<1>2. ASSUME NEW j \in Jobs, EnqueueBuild(j) \/ PushJob(j) \/ Abandon(j) PROVE Over'
  <2>1. enq[j] \notin {"done", "failed"}
    BY <1>2 DEF EnqueueBuild, PushJob, PushAgain, SetJobInfo, ListJob, TrimList, SetPending,
                Abandon
  <2>2. \A k \in Jobs : k # j => enq'[k] = enq[k]
    BY <1>2 DEF EnqueueBuild, PushJob, PushAgain, Sent, SetJobInfo, ListJob, TrimList, SetPending,
                Abandon, Goes, BInv, TypeOK
  <2>3. \A k \in Jobs : result'[k] = result[k] \/ (k = j /\ result'[k] = "pending")
    BY <1>2 DEF EnqueueBuild, PushJob, PushAgain, Sent, SetJobInfo, ListJob, TrimList, SetPending,
                Abandon, BInv, TypeOK, redis
  <2>4. QED
    BY <2>1, <2>2, <2>3 DEF Over
<1>3. ASSUME NEW w \in Workers, Worker(w) \/ Crash(w) \/ Sigterm(w) \/ Boot(w) PROVE Over'
  <2>1. UNCHANGED enq
    BY <1>3 DEF Worker, Loop, DequeueJob, DequeueNothing, BeginJob, BuildImage, PushImage, Report,
                ReportAgain, Publish, SaveBuildLog, Crash, Sigterm, Boot
  <2>2. worker[w].outcome \in Final \cup {"none"}
    BY DEF BInv, TypeOK, WorkerState
  <2>3. \A j \in Jobs : result'[j] = result[j] \/ result'[j] \in {"building", worker[w].outcome}
    BY <1>3 DEF Worker, Loop, DequeueJob, DequeueNothing, BeginJob, BuildImage, PushImage, Report,
                ReportAgain, Publish, SaveBuildLog, Crash, Sigterm, Boot, SetBuildResult, redis,
                BInv, TypeOK
  <2>4. QED
    BY <2>1, <2>2, <2>3 DEF Over, Final
<1>4. CASE \E j \in Jobs : OpenStream(j) \/ Subscribe(j) \/ Receive(j) \/ Poll(j)
  BY <1>1, <1>4 DEF OpenStream, Subscribe, Receive, Poll, redis
<1>5. CASE \E j \in Jobs : ExpireResult(j) \/ ExpireInfo(j)
  BY <1>5 DEF ExpireResult, ExpireInfo, Over, BInv, TypeOK
<1>6. CASE UNCHANGED vars
  BY <1>1, <1>6 DEF vars, redis
<1>7. QED
  BY <1>2, <1>3, <1>4, <1>5, <1>6 DEF Next

LEMMA FInvAlways == Spec => []FInv
<1>1. Init => Over /\ HasOutcome
  BY DEF Init, Over, HasOutcome, Idle
<1>2. BInv /\ Over /\ HasOutcome /\ [Next]_vars => Over' /\ HasOutcome'
  BY OutcomeKept, OverKept
<1>3. QED
  BY <1>1, <1>2, BInvAlways, PTL DEF Spec, FInv

\* What a worker's step does to its own job.
LEMMA ForgottenByWorker ==
  ASSUME BInv, HasOutcome, NEW j \in Jobs, Forgotten(j)', ~Forgotten(j),
         NEW w \in Workers, Worker(w) \/ Crash(w) \/ Sigterm(w) \/ Boot(w)
  PROVE  \/ "redis" \in Faults \/ "crash" \in Faults
         \/ worker[w].job = j /\ worker[w].cancelled
<1>1. /\ TypeOK /\ (worker[w].job = None <=> worker[w].place \in {"loop", "pop", "off"})
      /\ worker[w].outcome \in Final \cup {"none"}
  BY DEF BInv, TypeOK, WorkerState
<1>2. enq' = enq /\ enq[j] # "none" /\ j # None
  BY NoneIsNoJob DEF Worker, Loop, DequeueJob, DequeueNothing, BeginJob, BuildImage, PushImage,
     Report, ReportAgain, Publish, SaveBuildLog, Crash, Sigterm, Boot, Forgotten
<1>3. ASSUME NEW place, NEW job, NEW outcome, Turned(w, place, job, outcome), queue' = queue,
             \/ worker[w].place \notin Active
             \/ place \in Active /\ job = worker[w].job,
             result[j] \in Final \cup {"expired"} => result'[j] \in Final \cup {"expired"}
      PROVE  FALSE
  BY <1>2, <1>3, WasForgotten DEF Turned, Elements
<1>4. CASE Loop(w) \/ DequeueNothing(w)
  <2>1. PICK place \in {"loop", "off", "pop"} : Moves(w, place, "none")
    BY <1>4 DEF Loop, DequeueNothing
  <2>2. Turned(w, place, worker[w].job, "none")
    BY <1>1, <2>1, MovesTurns DEF Places
  <2>3. worker[w].place \notin Active
    BY <1>4 DEF Loop, DequeueNothing, Active
  <2>4. QED
    BY <1>3, <1>4, <2>2, <2>3 DEF Loop, DequeueNothing, redis
<1>5. CASE SaveBuildLog(w)
  <2>1. Turned(w, "loop", None, "none") /\ worker[w].place \notin Active
    BY <1>1, <1>5, BecomesTurns DEF SaveBuildLog, Places, Active
  <2>2. QED
    BY <1>3, <1>5, <2>1 DEF SaveBuildLog, redis
<1>6. CASE Boot(w)
  <2>1. Turned(w, "loop", None, "none") /\ worker[w].place \notin Active
    BY <1>1, <1>6, IdleTurns DEF Boot, Active
  <2>2. QED
    BY <1>3, <1>6, <2>1 DEF Boot, redis
<1>7. CASE DequeueJob(w)
  <2>1. CASE "redis" \notin Faults
    <3>1. queue \in Seq(Jobs) /\ queue # <<>> /\ queue' = Tail(queue) /\ worker[w].job = None
      BY <1>1, <1>7 DEF DequeueJob, TypeOK
    <3>2. Head(queue) \in Jobs /\ Elements(queue) \ {Head(queue)} \subseteq Elements(queue')
      BY <3>1, Popped
    <3>3. Turned(w, "begin", Head(queue), "none")
      BY <1>1, <1>7, <2>1, <3>2, BecomesTurns DEF DequeueJob, Places
    <3>4. j # Head(queue)
      BY <3>3 DEF Turned, Forgotten, Underway, Active
    <3>5. \A v \in Workers : worker[v].job = j => worker'[v] = worker[v]
      BY <1>2, <3>1, <3>3 DEF Turned
    <3>6. QED
      BY <1>2, <1>7, <3>2, <3>4, <3>5, WasForgotten DEF DequeueJob
  <2>2. QED
    BY <2>1
<1>8. CASE BeginJob(w)
  <2>1. PICK place \in {"begin", "build"}, outcome \in Final \cup {"none"} :
          Turned(w, place, worker[w].job, outcome)
    BY <1>1, <1>8, MovesTurns, StaysTurns DEF BeginJob, Places
  <2>2. place \in Active
    BY DEF Active
  <2>3. worker[w].job # j
    BY <2>1, <2>2 DEF Turned, Forgotten, Underway
  <2>4. result'[j] = result[j]
    BY <1>8, <2>3 DEF BeginJob, SetBuildResult, BInv, TypeOK
  <2>5. QED
    BY <1>3, <1>8, <2>1, <2>2, <2>4 DEF BeginJob
<1>9. CASE BuildImage(w) \/ PushImage(w)
  <2>1. PICK place \in {"push", "report"}, outcome \in Final \cup {"none"} :
          Turned(w, place, worker[w].job, outcome)
    BY <1>1, <1>9, MovesTurns DEF BuildImage, PushImage, Places, Final
  <2>2. place \in Active
    BY DEF Active
  <2>3. QED
    BY <1>3, <1>9, <2>1, <2>2 DEF BuildImage, PushImage, redis
<1>10. CASE Publish(w)
  <2>1. Turned(w, "save", worker[w].job, "none") /\ worker[w].place \notin Active
    BY <1>1, <1>10, MovesTurns DEF Publish, Places, Active
  <2>2. QED
    BY <1>3, <1>10, <2>1 DEF Publish, redis
<1>11. CASE Sigterm(w)
  <2>1. Turned(w, worker[w].place, worker[w].job, worker[w].outcome)
    BY <1>1, <1>11, SigtermTurns
  <2>2. QED
    BY <1>3, <1>11, <2>1 DEF Sigterm, redis
<1>12. CASE Report(w)
  <2>1. worker[w].outcome \in Final
    BY <1>12 DEF Report, HasOutcome
  <2>2. CASE worker[w].job # j
    <3>1. result'[j] = result[j] /\ queue' = queue
      BY <1>12, <2>2 DEF Report, SetBuildResult, BInv, TypeOK
    <3>2. PICK place \in {"again", "publish"} :
            Turned(w, place, worker[w].job, worker[w].outcome)
      BY <1>1, <1>12, MovesTurns DEF Report, Places
    <3>3. \A v \in Workers : worker[v].job = j => worker'[v] = worker[v]
      BY <2>2, <3>2 DEF Turned
    <3>4. QED
      BY <1>2, <3>1, <3>3, WasForgotten
  <2>3. CASE worker[w].job = j /\ ~worker[w].cancelled /\ "redis" \notin Faults
    <3>1. result'[j] = worker[w].outcome
      BY <1>12, <2>3 DEF Report, SetBuildResult, BInv, TypeOK
    <3>2. QED
      BY <2>1, <3>1 DEF Forgotten
  <2>4. QED
    BY <2>2, <2>3
<1>13. CASE ReportAgain(w)
  <2>1. worker[w].outcome \in Final /\ worker[w].place \notin Active
    BY <1>13 DEF ReportAgain, HasOutcome, Active
  <2>2. result'[j] = result[j] \/ result'[j] = worker[w].outcome
    BY <1>13 DEF ReportAgain, SetBuildResult, BInv, TypeOK
  <2>3. \E place : Turned(w, place, worker[w].job, worker[w].outcome)
    BY <1>1, <1>13, MovesTurns, StaysTurns DEF ReportAgain, Places
  <2>4. QED
    BY <1>3, <1>13, <2>1, <2>2, <2>3 DEF ReportAgain
<1>14. QED
  BY <1>4, <1>5, <1>6, <1>7, <1>8, <1>9, <1>10, <1>11, <1>12, <1>13 DEF Worker, Crash

\* A job is left without a result in the listed ways only, however many workers there
\* are: a failed build or push is always reported (worker.go, builder_client.go:128-140).
THEOREM ForgottenExplained == Spec => ForgottenCauses
<1>1. ASSUME FInv, [Next]_vars
      PROVE  ForgottenStep
  <2>0. BInv /\ Over /\ HasOutcome
    BY <1>1 DEF FInv
  <2>1. SUFFICES ASSUME NEW j \in Jobs, Forgotten(j)', ~Forgotten(j)
                 PROVE  \/ "redis" \in Faults \/ "crash" \in Faults
                        \/ \E w \in Workers : worker[w].job = j /\ worker[w].cancelled
                        \/ enq[j] = "pending" /\ result[j] \in Final
    BY DEF ForgottenStep
  <2>2. CASE \E k \in Jobs : PushJob(k) \/ EnqueueBuild(k) \/ Abandon(k)
    BY <2>0, <2>1, <2>2, ForgottenByEnqueue
  <2>3. CASE \E w \in Workers : Worker(w) \/ Crash(w) \/ Sigterm(w) \/ Boot(w)
    BY <2>0, <2>1, <2>3, ForgottenByWorker
  <2>4. CASE \E k \in Jobs : OpenStream(k) \/ Subscribe(k) \/ Receive(k) \/ Poll(k)
    BY <2>1, <2>4 DEF OpenStream, Subscribe, Receive, Poll, redis, Forgotten, Underway, Elements
  <2>5. CASE \E k \in Jobs : ExpireResult(k) \/ ExpireInfo(k)
    <3>1. queue' = queue /\ worker' = worker /\ enq' = enq
      BY <2>5 DEF ExpireResult, ExpireInfo
    <3>2. result[j] \in Final \cup {"expired"} => result'[j] \in Final \cup {"expired"}
      BY <2>0, <2>5 DEF ExpireResult, ExpireInfo, BInv, TypeOK, Final
    <3>3. enq[j] # "none"
      BY <2>1, <3>1 DEF Forgotten
    <3>4. QED
      BY <2>0, <2>1, <3>1, <3>2, <3>3, WasForgotten
  <2>6. CASE UNCHANGED vars
    BY <2>1, <2>6 DEF vars, redis, Forgotten, Underway, Elements
  <2>7. QED
    BY <1>1, <2>2, <2>3, <2>4, <2>5, <2>6 DEF Next
<1>2. QED
  BY <1>1, FInvAlways, PTL DEF Spec, ForgottenCauses

-----------------------------------------------------------------------------
(* One worker *)

\* With one worker, and every job pushed once, jobs are pushed, taken and built in their
\* order: the queue is behind the worker's job, and that is not behind the images; what the
\* worker pushes is its own job's image, and what it reports as a success is served.
InOrder ==
  /\ \A a, b \in DOMAIN queue : a < b => queue[a] < queue[b]
  /\ \A j, k \in Jobs : enq[j] = "none" /\ j < k => enq[k] = "none"
  /\ image \in Jobs => enq[image] # "none"
  /\ registry <= image
  /\ \A j \in Elements(queue) : image < j /\ \A w \in Workers : worker[w].job < j
  /\ \A w \in Workers :
       /\ worker[w].job # None => image <= worker[w].job
       /\ worker[w].place = "push" => image = worker[w].job
       /\ worker[w].place \in {"report", "again"} /\ worker[w].outcome = "success" =>
            registry = worker[w].job

EachOnce == \A j \in Jobs : Once(j)

LEMMA JobsAreNumbers ==
  ASSUME BInv
  PROVE  /\ \A j \in Jobs : j \in Nat /\ j > 0
         /\ image \in Nat /\ registry \in Nat
         /\ \A w \in Workers : worker[w].job \in Nat /\ worker[w].job \in Jobs \cup {None}
<1>1. \A j \in Jobs : j \in Nat /\ j > 0
  BY BuildQueueAssumption DEF Jobs
<1>2. QED
  BY <1>1 DEF BInv, TypeOK, WorkerState, None

\* Steps that neither push nor build.
LEMMA OrderKept ==
  ASSUME BInv, InOrder, UNCHANGED <<queue, worker, image, registry>>,
         \A j \in Jobs : enq'[j] = "none" <=> enq[j] = "none"
  PROVE  InOrder'
BY DEF InOrder, Elements

LEMMA PushInOrder ==
  ASSUME BInv, InOrder, NEW j \in Jobs, PushJob(j)
  PROVE  InOrder'
<1>1. /\ enq[j] = "none" /\ \A k \in 1 .. (j - 1) : enq[k] # "none"
      /\ queue' = Append(queue, j)
      /\ worker' = worker /\ image' = image /\ registry' = registry
      /\ \E place \in {"info", "push"} : enq' = [enq EXCEPT ![j] = place]
  BY DEF PushJob, Sent, Goes, images
<1>2. \A k \in Jobs : k \in Nat /\ k > 0
  BY JobsAreNumbers
<1>3. \A k \in Jobs : enq[k] # "none" => k < j
  BY <1>1, <1>2 DEF InOrder
<1>4. /\ queue \in Seq(Jobs) /\ \A k \in Elements(queue) : k \in Jobs /\ enq[k] # "none"
  <2>1. queue \in Seq(Jobs)
    BY DEF BInv, TypeOK
  <2>2. \A k \in Elements(queue) : k \in Jobs
    BY <2>1 DEF Elements
  <2>3. QED
    BY <2>1, <2>2 DEF BInv, JInv, Unseen
<1>5. /\ Len(queue) \in Nat /\ DOMAIN queue = 1 .. Len(queue)
      /\ DOMAIN queue' = 1 .. (Len(queue) + 1)
      /\ queue'[Len(queue) + 1] = j
      /\ \A k \in 1 .. Len(queue) : queue'[k] = queue[k] /\ queue[k] \in Elements(queue)
  BY <1>1, <1>4 DEF Elements
<1>6. \A a, b \in DOMAIN queue' : a < b => queue'[a] < queue'[b]
  <2>1. TAKE a, b \in DOMAIN queue'
  <2>2. HAVE a < b
  <2>3. a \in 1 .. Len(queue)
    BY <1>5, <2>2
  <2>4. CASE b \in 1 .. Len(queue)
    BY <1>5, <2>2, <2>3, <2>4 DEF InOrder
  <2>5. CASE b = Len(queue) + 1
    BY <1>3, <1>4, <1>5, <2>3, <2>5
  <2>6. QED
    BY <1>5, <2>4, <2>5
<1>7. Elements(queue') = Elements(queue) \cup {j}
  BY <1>1, <1>4, Pushed
<1>8. enq'[j] # "none" /\ \A k \in Jobs : k # j => enq'[k] = enq[k]
  BY <1>1 DEF BInv, TypeOK
<1>9. (\A i, k \in Jobs : enq[i] = "none" /\ i < k => enq[k] = "none")'
  <2>1. SUFFICES ASSUME NEW i \in Jobs, NEW k \in Jobs, enq'[i] = "none", i < k
                 PROVE  enq'[k] = "none"
    OBVIOUS
  <2>2. i # j /\ enq[i] = "none" /\ enq[k] = "none"
    BY <1>8, <2>1 DEF InOrder
  <2>3. k # j
    BY <1>1, <1>2, <2>1, <2>2
  <2>4. QED
    BY <1>8, <2>2, <2>3
<1>10. image < j /\ \A w \in Workers : worker[w].job < j
  <2>1. image \in Jobs => image < j
    BY <1>3 DEF InOrder
  <2>2. \A w \in Workers : worker[w].job \in Jobs => worker[w].job < j
    BY <1>3 DEF BInv, JInv, Unseen
  <2>3. QED
    BY <1>2, <2>1, <2>2, JobsAreNumbers DEF BInv, TypeOK, WorkerState, None
<1>11. (\A k \in Elements(queue) : image < k /\ \A w \in Workers : worker[w].job < k)'
  BY <1>1, <1>7, <1>10 DEF InOrder, Elements
<1>12. QED
  BY <1>1, <1>6, <1>8, <1>9, <1>11 DEF InOrder

\* The one worker's step with the job it has.
LEMMA WorkInOrder ==
  ASSUME BInv, InOrder, NEW w, Workers = {w}, UNCHANGED <<queue, enq>>,
         worker'[w].job \in {worker[w].job, None},
         image' = image \/ (image' = worker[w].job /\ worker[w].job # None),
         registry' = registry \/ (registry' = image /\ image' = image),
         worker'[w].place = "push" => image' = worker'[w].job,
         worker'[w].place \in {"report", "again"} /\ worker'[w].outcome = "success" =>
           registry' = worker'[w].job
  PROVE  InOrder' /\ registry <= registry'
<1>1. /\ image \in Nat /\ registry \in Nat /\ worker[w].job \in Nat
      /\ worker[w].job \in Jobs \cup {None} /\ registry <= image
      /\ worker[w].job # None => image <= worker[w].job
  BY JobsAreNumbers DEF InOrder
<1>2. image' \in Nat /\ image <= image' /\ registry' \in Nat /\ registry <= registry'
      /\ registry' <= image'
  BY <1>1
<1>3. Elements(queue') = Elements(queue)
  BY DEF Elements
<1>4. \A j \in Elements(queue) : j \in Nat /\ j > 0
  BY JobsAreNumbers DEF Elements, BInv, TypeOK
<1>5. (\A j \in Elements(queue) : image < j /\ \A v \in Workers : worker[v].job < j)'
  BY <1>3, <1>4 DEF InOrder, None
<1>6. image' \in Jobs => enq'[image'] # "none"
  BY <1>1 DEF InOrder, BInv, JInv, Unseen
<1>7. worker'[w].job # None => image' <= worker'[w].job
  BY <1>1
<1>8. QED
  BY <1>2, <1>5, <1>6, <1>7 DEF InOrder

\* What is known of the worker after it moves.
LEMMA BecomesExactly ==
  ASSUME BInv, NEW w \in Workers, NEW place, NEW job, NEW outcome,
         Becomes(w, place, job, outcome)
  PROVE  /\ worker'[w].place = place /\ worker'[w].job = job
         /\ worker'[w].outcome = outcome
<1>1. PICK new : new = [place |-> place, job |-> job, outcome |-> outcome,
                        cancelled |-> worker[w].cancelled]
  OBVIOUS
<1>2. worker' = [worker EXCEPT ![w] = new]
  BY <1>1 DEF Becomes, BInv, TypeOK
<1>3. QED
  BY <1>1, <1>2 DEF BInv, TypeOK

LEMMA DequeueInOrder ==
  ASSUME BInv, EachOnce, InOrder, NEW w, Workers = {w}, DequeueJob(w)
  PROVE  InOrder'
<1>1. /\ queue # <<>> /\ queue' = Tail(queue) /\ enq' = enq
      /\ image' = image /\ registry' = registry /\ w \in Workers
  BY DEF DequeueJob, images
<1>2. queue \in Seq(Jobs)
  BY DEF BInv, TypeOK
<1>3. PICK job \in Jobs : job = Head(queue) /\ job \in Elements(queue)
  BY <1>1, <1>2, Popped
<1>4. Elements(queue') \subseteq Elements(queue) /\ job \notin Elements(queue')
  <2>1. Single(queue, job)
    BY DEF EachOnce, BInv, JInv, OnceInv
  <2>2. QED
    BY <1>1, <1>2, <1>3, <2>1, Popped
<1>5. /\ Len(queue) \in Nat \ {0} /\ DOMAIN queue = 1 .. Len(queue) /\ job = queue[1]
      /\ DOMAIN queue' = 1 .. (Len(queue) - 1)
      /\ \A k \in 1 .. (Len(queue) - 1) : queue'[k] = queue[k + 1]
  BY <1>1, <1>2, <1>3, EmptySeq
<1>6. \A a, b \in DOMAIN queue' : a < b => queue'[a] < queue'[b]
  <2>1. TAKE a, b \in DOMAIN queue'
  <2>2. a + 1 \in DOMAIN queue /\ b + 1 \in DOMAIN queue /\ (a < b => a + 1 < b + 1)
    BY <1>5
  <2>3. QED
    BY <1>5, <2>2 DEF InOrder
<1>7. \A k \in Elements(queue') : job < k
  <2>1. TAKE k \in Elements(queue')
  <2>2. PICK a \in DOMAIN queue : queue[a] = k /\ k # job
    BY <1>4 DEF Elements
  <2>3. 1 \in DOMAIN queue /\ 1 < a
    BY <1>5, <2>2
  <2>4. queue[1] < queue[a]
    BY <2>2, <2>3 DEF InOrder
  <2>5. QED
    BY <1>5, <2>2, <2>4
<1>8. /\ worker'[w].place \notin {"push", "report", "again"}
      /\ worker'[w].job = job \/ worker'[w].job = None
  <2>1. worker[w].job = None
    BY DEF DequeueJob, BInv, TypeOK
  <2>2. CASE Becomes(w, "begin", job, "none")
    BY <2>2, BecomesExactly
  <2>3. CASE Moves(w, "loop", "none")
    BY <2>1, <2>3, BecomesExactly DEF Moves
  <2>4. QED
    BY <1>3, <2>2, <2>3 DEF DequeueJob
<1>9. \A k \in Elements(queue') : image < k /\ worker'[w].job < k
  <2>1. \A k \in Elements(queue') : k \in Nat /\ k > 0 /\ image < k
    <3>1. Elements(queue) \subseteq Jobs
      BY <1>2 DEF Elements
    <3>2. \A k \in Elements(queue) : image < k
      BY DEF InOrder
    <3>3. QED
      BY <1>4, <3>1, <3>2, JobsAreNumbers
  <2>2. QED
    BY <1>7, <1>8, <2>1 DEF None
<1>10. worker'[w].job # None => image <= worker'[w].job
  <2>1. image < job
    BY <1>3 DEF InOrder
  <2>2. QED
    BY <1>8, <2>1, JobsAreNumbers
<1>11. QED
  BY <1>1, <1>6, <1>8, <1>9, <1>10 DEF InOrder

LEMMA WorkerInOrder ==
  ASSUME BInv, EachOnce, InOrder, NEW w, Workers = {w},
         Worker(w) \/ Crash(w) \/ Sigterm(w) \/ Boot(w)
  PROVE  InOrder' /\ registry <= registry'
<1>1. /\ w \in Workers /\ worker[w].job \in Jobs \cup {None} /\ worker[w] \in WorkerState
      /\ worker[w].job = None <=> worker[w].place \in {"loop", "pop", "off"}
      /\ worker[w].place = "push" => image = worker[w].job
      /\ worker[w].place \in {"report", "again"} /\ worker[w].outcome = "success" =>
           registry = worker[w].job
      /\ registry \in Nat
  BY JobsAreNumbers DEF BInv, TypeOK, InOrder
<1>2. CASE DequeueJob(w)
  BY <1>1, <1>2, DequeueInOrder DEF DequeueJob, images
<1>3. CASE UNCHANGED worker /\ (BeginJob(w) \/ ReportAgain(w))
  <2>1. UNCHANGED <<queue, enq, image, registry>> /\ worker[w].place \in {"begin", "again"}
    BY <1>3 DEF BeginJob, ReportAgain, images
  <2>2. QED
    BY <1>1, <1>3, <2>1, WorkInOrder
<1>4. CASE Loop(w) \/ DequeueNothing(w) \/ BeginJob(w) \/ Report(w) \/ ReportAgain(w) \/ Publish(w)
  <2>1. UNCHANGED <<queue, enq, image, registry>>
    BY <1>4 DEF Loop, DequeueNothing, BeginJob, Report, ReportAgain, Publish, redis, images
  <2>2. CASE Report(w) /\ Moves(w, "again", worker[w].outcome)
    <3>1. /\ worker'[w].job = worker[w].job /\ worker'[w].place = "again"
          /\ worker'[w].outcome = worker[w].outcome /\ worker[w].place = "report"
      BY <1>1, <2>2, BecomesExactly DEF Moves, Report
    <3>2. QED
      BY <1>1, <2>1, <3>1, WorkInOrder
  <2>3. CASE ~(Report(w) /\ Moves(w, "again", worker[w].outcome)) /\ ~UNCHANGED worker
    <3>1. PICK place, outcome :
            /\ Moves(w, place, outcome)
            /\ place \in {"off", "pop", "loop", "build", "publish", "save"}
      BY <1>4, <2>3 DEF Loop, DequeueNothing, BeginJob, Report, ReportAgain, Publish
    <3>2. worker'[w].job = worker[w].job /\ worker'[w].place \notin {"push", "report", "again"}
      BY <1>1, <3>1, BecomesExactly DEF Moves
    <3>3. QED
      BY <2>1, <3>2, WorkInOrder
  <2>4. CASE UNCHANGED worker
    BY <1>1, <2>1, <2>4, WorkInOrder
  <2>5. QED
    BY <2>2, <2>3, <2>4
<1>5. CASE BuildImage(w)
  <2>1. UNCHANGED <<queue, enq, registry>> /\ worker[w].job # None
    BY <1>1, <1>5 DEF BuildImage, redis
  <2>2. CASE image' = worker[w].job /\ Moves(w, "push", "none")
    BY <1>1, <2>1, <2>2, BecomesExactly, WorkInOrder DEF Moves
  <2>3. CASE image' \in {image, worker[w].job} /\ Moves(w, "report", "failed")
    BY <1>1, <2>1, <2>3, BecomesExactly, WorkInOrder DEF Moves
  <2>4. QED
    BY <1>5, <2>2, <2>3 DEF BuildImage
<1>6. CASE PushImage(w)
  <2>1. UNCHANGED <<queue, enq, image>> /\ image = worker[w].job
    BY <1>1, <1>6 DEF PushImage, redis
  <2>2. CASE registry' = image /\ Moves(w, "report", "success")
    BY <1>1, <2>1, <2>2, BecomesExactly, WorkInOrder DEF Moves
  <2>3. CASE registry' \in {registry, image} /\ Moves(w, "report", "failed")
    BY <1>1, <2>1, <2>3, BecomesExactly, WorkInOrder DEF Moves
  <2>4. QED
    BY <1>6, <2>2, <2>3 DEF PushImage
<1>7. CASE SaveBuildLog(w)
  <2>1. UNCHANGED <<queue, enq, image, registry>>
    BY <1>7 DEF SaveBuildLog, redis, images
  <2>2. QED
    BY <1>1, <1>7, <2>1, BecomesExactly, WorkInOrder DEF SaveBuildLog
<1>8. CASE Crash(w) \/ Boot(w)
  <2>1. UNCHANGED <<queue, enq, image, registry>>
    BY <1>8 DEF Crash, Boot, redis, images
  <2>2. worker'[w] = Idle
    BY <1>1, <1>8 DEF Crash, Boot, BInv, TypeOK
  <2>3. worker'[w].job = None /\ worker'[w].place = "loop"
    BY <2>2 DEF Idle
  <2>4. QED
    BY <2>1, <2>3, WorkInOrder
<1>9. CASE Sigterm(w)
  <2>1. UNCHANGED <<queue, enq, image, registry>>
    BY <1>9 DEF Sigterm, redis, images
  <2>2. Turned(w, worker[w].place, worker[w].job, worker[w].outcome)
    BY <1>1, <1>9, SigtermTurns DEF BInv
  <2>3. QED
    BY <1>1, <2>1, <2>2, WorkInOrder DEF Turned
<1>10. QED
  BY <1>2, <1>4, <1>5, <1>6, <1>7, <1>8, <1>9 DEF Worker

\* An RPush that is executed again makes a job pushed twice.
LEMMA SentTwice ==
  ASSUME BInv, NEW j \in Jobs, enq[j] = "push", Sent(j)
  PROVE  ~EachOnce'
<1>1. pushes[j] \in Nat \ {0} /\ pushes'[j] = pushes[j] + 1
  BY DEF BInv, TypeOK, JInv, Unseen, Sent, Counts
<1>2. QED
  BY <1>1 DEF EachOnce, Once

LEMMA EveryStepInOrder ==
  ASSUME BInv, EachOnce, EachOnce', InOrder, NEW w, Workers = {w}, [Next]_vars
  PROVE  InOrder' /\ registry <= registry'
<1>1. registry \in Nat
  BY JobsAreNumbers
<1>2. ASSUME NEW j \in Jobs, PushJob(j) PROVE InOrder' /\ registry <= registry'
  BY <1>1, <1>2, PushInOrder DEF PushJob, Sent, images
<1>3. ASSUME NEW j \in Jobs, EnqueueBuild(j) \/ Abandon(j)
      PROVE  InOrder' /\ registry <= registry'
  <2>0. ~(PushAgain(j) /\ Sent(j))
    BY SentTwice DEF PushAgain
  <2>1. UNCHANGED <<queue, worker, image, registry>>
    BY <1>3, <2>0 DEF EnqueueBuild, PushAgain, SetJobInfo, ListJob, TrimList, SetPending, Abandon,
                      redis, images
  <2>2. \A k \in Jobs : enq'[k] = "none" <=> enq[k] = "none"
    BY <1>3, <2>0 DEF EnqueueBuild, PushAgain, SetJobInfo, ListJob, TrimList, SetPending, Abandon,
                      Goes, BInv, TypeOK
  <2>3. QED
    BY <1>1, <2>1, <2>2, OrderKept
<1>4. ASSUME NEW j \in Jobs,
             \/ OpenStream(j) \/ Subscribe(j) \/ Receive(j) \/ Poll(j)
             \/ ExpireResult(j) \/ ExpireInfo(j)
      PROVE  InOrder' /\ registry <= registry'
  <2>1. UNCHANGED <<queue, worker, image, registry, enq>>
    BY <1>4 DEF OpenStream, Subscribe, Receive, Poll, ExpireResult, ExpireInfo, redis, images
  <2>2. QED
    BY <1>1, <2>1, OrderKept
<1>5. CASE UNCHANGED vars
  <2>1. UNCHANGED <<queue, worker, image, registry, enq>>
    BY <1>5 DEF vars, redis, images
  <2>2. QED
    BY <1>1, <2>1, OrderKept
<1>6. QED
  BY <1>2, <1>3, <1>4, <1>5, WorkerInOrder DEF Next

LEMMA SuccessIsServed ==
  ASSUME BInv, InOrder, NEW w, Workers = {w}, [Next]_vars,
         NEW j \in Jobs, result'[j] = "success", result[j] # "success"
  PROVE  registry = j
<1>1. CASE \E k \in Jobs : PushJob(k) \/ EnqueueBuild(k) \/ Abandon(k)
  BY <1>1 DEF PushJob, PushAgain, Sent, EnqueueBuild, Abandon, SetJobInfo, ListJob, TrimList,
              SetPending, redis, BInv, TypeOK
<1>2. CASE Worker(w) \/ Crash(w) \/ Sigterm(w) \/ Boot(w)
  <2>1. BeginJob(w) \/ Report(w) \/ ReportAgain(w)
    BY <1>2 DEF Worker, Loop, DequeueJob, DequeueNothing, BuildImage, PushImage,
                Publish, SaveBuildLog, Crash, Sigterm, Boot, redis
  <2>2. CASE BeginJob(w)
    BY <2>2 DEF BeginJob, SetBuildResult, BInv, TypeOK
  <2>3. CASE Report(w) \/ ReportAgain(w)
    BY <2>3 DEF Report, ReportAgain, SetBuildResult, BInv, TypeOK, InOrder
  <2>4. QED
    BY <2>1, <2>2, <2>3
<1>3. CASE \E k \in Jobs : OpenStream(k) \/ Subscribe(k) \/ Receive(k) \/ Poll(k)
  BY <1>3 DEF OpenStream, Subscribe, Receive, Poll, redis
<1>4. CASE \E k \in Jobs : ExpireResult(k) \/ ExpireInfo(k)
  BY <1>4 DEF ExpireResult, ExpireInfo, BInv, TypeOK
<1>5. CASE UNCHANGED vars
  BY <1>5 DEF vars, redis
<1>6. QED
  BY <1>1, <1>2, <1>3, <1>4, <1>5 DEF Next

OneInOrder == Cardinality(Workers) = 1 /\ EachOnce => InOrder

LEMMA OnlySent ==
  ASSUME [Next]_vars, pushes' # pushes
  PROVE  \E j \in Jobs : Sent(j)
<1>1. CASE \E j \in Jobs : PushJob(j) \/ EnqueueBuild(j) \/ Abandon(j)
  BY <1>1 DEF PushJob, PushAgain, EnqueueBuild, SetJobInfo, ListJob, TrimList, SetPending,
              Abandon, redis
<1>2. CASE \E w \in Workers : Worker(w) \/ Crash(w) \/ Sigterm(w) \/ Boot(w)
  BY <1>2 DEF Worker, Loop, DequeueJob, DequeueNothing, BeginJob, BuildImage, PushImage,
              Report, ReportAgain, Publish, SaveBuildLog, Crash, Sigterm, Boot, redis
<1>3. CASE \E j \in Jobs : OpenStream(j) \/ Subscribe(j) \/ Receive(j) \/ Poll(j)
  BY <1>3 DEF OpenStream, Subscribe, Receive, Poll, redis
<1>4. CASE \E j \in Jobs : ExpireResult(j) \/ ExpireInfo(j)
  BY <1>4 DEF ExpireResult, ExpireInfo
<1>5. CASE UNCHANGED vars
  BY <1>5 DEF vars, redis
<1>6. QED
  BY <1>1, <1>2, <1>3, <1>4, <1>5 DEF Next

\* An RPush once executed is never undone.
LEMMA OnceBefore ==
  ASSUME BInv, [Next]_vars, EachOnce'
  PROVE  EachOnce
<1>1. CASE pushes' = pushes
  BY <1>1 DEF EachOnce, Once
<1>2. ASSUME NEW k \in Jobs, Sent(k) PROVE EachOnce
  BY <1>2 DEF Sent, Counts, EachOnce, Once, BInv, TypeOK
<1>3. QED
  BY <1>1, <1>2, OnlySent

\* With one worker process, and until an RPush is executed twice, the registry never falls
\* back to an older build, and a success is reported while its image is served, whatever
\* fails (worker.go:64-257).
THEOREM LatestServedAlways ==
  ASSUME IsFiniteSet(Workers)
  PROVE  Spec => LatestServed
<1>1. Cardinality(Workers) = 1 => \E w : Workers = {w}
  BY FS_Singleton
<1>2. Init => OneInOrder
  <2>1. HAVE Init
  <2>2. DOMAIN queue = {} /\ Elements(queue) = {} /\ image = 0 /\ registry = 0
    BY <2>1 DEF Init, Elements, None
  <2>3. image \notin Jobs
    BY <2>2, NoneIsNoJob DEF None
  <2>4. \A w \in Workers : worker[w].job = None /\ worker[w].place = "loop"
    BY <2>1 DEF Init, Idle
  <2>5. \A j \in Jobs : enq[j] = "none"
    BY <2>1 DEF Init
  <2>6. QED
    BY <2>2, <2>3, <2>4, <2>5 DEF OneInOrder, InOrder
<1>3. BInv /\ OneInOrder /\ [Next]_vars => OneInOrder'
  <2>1. SUFFICES ASSUME BInv, OneInOrder, [Next]_vars, Cardinality(Workers) = 1, EachOnce'
                 PROVE  InOrder'
    BY DEF OneInOrder
  <2>2. EachOnce
    BY <2>1, OnceBefore
  <2>3. QED
    BY <1>1, <2>1, <2>2, EveryStepInOrder DEF OneInOrder
<1>4. BInv /\ OneInOrder /\ [Next]_vars => LatestServedStep
  <2>1. SUFFICES ASSUME BInv, OneInOrder, [Next]_vars, Cardinality(Workers) = 1, EachOnce
                 PROVE  /\ registry' >= registry
                        /\ \A j \in Jobs : result'[j] = "success" /\ result[j] # "success"
                             => registry = j
    BY DEF LatestServedStep, EachOnce, Once
  <2>2. PICK w : Workers = {w}
    BY <1>1, <2>1
  <2>3. InOrder
    BY <2>1 DEF OneInOrder
  <2>4. registry <= registry'
    <3>1. CASE EachOnce'
      BY <2>1, <2>2, <2>3, <3>1, EveryStepInOrder
    <3>2. CASE ~EachOnce'
      <4>1. PICK j \in Jobs : Sent(j)
        BY <2>1, <3>2, OnlySent DEF EachOnce, Once
      <4>2. QED
        BY <2>1, <4>1, JobsAreNumbers DEF Sent, images
    <3>3. QED
      BY <3>1, <3>2
  <2>5. registry \in Nat /\ registry' \in Nat
    <3>1. BInv'
      BY <2>1, BInductive
    <3>2. \A j \in Jobs : j \in Nat
      BY <2>1, JobsAreNumbers
    <3>3. QED
      BY <2>1, <3>1, <3>2 DEF BInv, TypeOK, None
  <2>6. QED
    BY <2>1, <2>2, <2>3, <2>4, <2>5, SuccessIsServed
<1>5. QED
  BY <1>2, <1>3, <1>4, BInvAlways, PTL DEF Spec, LatestServed

-----------------------------------------------------------------------------
(* The list of jobs *)

\* Jobs by which the list may be too long.
Untrimmed == {j \in Jobs : enq[j] \in {"trim", "failed"}}

\* No job is pushed twice, listed twice or listed before its time; one that should be
\* listed is, or the list is full.
ListInv ==
  /\ \A j \in Jobs : enq[j] # "push"
  /\ \A a, b \in DOMAIN list : list[a] = list[b] => a = b
  /\ \A j \in Jobs : enq[j] \in {"none", "info", "list"} => j \notin Elements(list)
  /\ \A j \in Jobs : enq[j] \in {"list", "trim", "pending", "done"} =>
       info[j] \in {"set", "expired"}
  /\ \A j \in Jobs : enq[j] = "done" => result[j] # "none"
  /\ \A j \in Jobs : enq[j] \in {"trim", "pending", "done"} =>
       j \in Elements(list) \/ Len(list) >= MaxListed
  /\ Len(list) <= MaxListed + Cardinality(Untrimmed)

LEMMA UntrimmedFinite == Untrimmed \subseteq Jobs /\ IsFiniteSet(Untrimmed)
                         /\ Cardinality(Untrimmed) \in Nat
<1>1. IsFiniteSet(Jobs)
  BY BuildQueueAssumption, FS_Interval DEF Jobs
<1>2. Untrimmed \subseteq Jobs
  BY DEF Untrimmed
<1>3. QED
  BY <1>1, <1>2, FS_Subset, FS_CardinalityType

LEMMA LengthCounts ==
  ASSUME NEW s \in Seq(Jobs), \A a, b \in DOMAIN s : s[a] = s[b] => a = b
  PROVE  Cardinality(Elements(s)) = Len(s)
<1>1. Len(s) \in Nat /\ DOMAIN s = 1 .. Len(s) /\ s \in [1 .. Len(s) -> Elements(s)]
  BY DEF Elements
<1>2. s \in Bijection(1 .. Len(s), Elements(s))
  BY <1>1 DEF Bijection, Injection, Surjection, IsInjective, Elements
<1>3. QED
  BY <1>1, <1>2, FS_CountingElements DEF ExistsBijection

\* Trim keeps the front of the list.
LEMMA TrimKeeps ==
  ASSUME NEW s \in Seq(Jobs), NEW t, t = Trim(s),
         \A a, b \in DOMAIN s : s[a] = s[b] => a = b
  PROVE  /\ Len(t) <= MaxListed /\ Elements(t) \subseteq Elements(s)
         /\ \A a, b \in DOMAIN t : t[a] = t[b] => a = b
         /\ (Len(s) < MaxListed /\ Elements(t) = Elements(s)) \/ Len(t) = MaxListed
<1>1. PICK n \in Nat : n = IF Len(s) < MaxListed THEN Len(s) ELSE MaxListed
  BY BuildQueueAssumption
<1>2. n <= Len(s) /\ n <= MaxListed /\ Len(s) \in Nat /\ MaxListed \in Nat
  BY <1>1, BuildQueueAssumption
<1>3. t = SubSeq(s, 1, n)
  BY <1>1 DEF Trim
<1>4. /\ DOMAIN s = 1 .. Len(s) /\ DOMAIN t = 1 .. n /\ Len(t) = n
      /\ \A k \in 1 .. n : t[k] = s[k] /\ k \in DOMAIN s
  BY <1>2, <1>3, SubSeqProperties
<1>5. Elements(t) \subseteq Elements(s)
  BY <1>4 DEF Elements
<1>6. Len(s) < MaxListed => Elements(t) = Elements(s)
  BY <1>1, <1>4 DEF Elements
<1>7. ~(Len(s) < MaxListed) => Len(t) = MaxListed
  BY <1>1, <1>4
<1>8. QED
  BY <1>2, <1>4, <1>5, <1>6, <1>7

\* Steps that neither list nor push a job.
LEMMA SameList ==
  ASSUME ListInv, UNCHANGED <<list, enq>>,
         \A j \in Jobs : info'[j] = info[j] \/ info'[j] = "expired",
         \A j \in Jobs : result'[j] = "none" => result[j] = "none"
  PROVE  ListInv'
BY DEF ListInv, Elements, Untrimmed

LEMMA EnqueueLists ==
  ASSUME BInv, ListInv, "redis" \notin Faults,
         NEW j \in Jobs, PushJob(j) \/ EnqueueBuild(j) \/ Abandon(j)
  PROVE  ListInv'
<1>1. list \in Seq(Jobs) /\ Len(list) \in Nat /\ MaxListed \in Nat
  BY BuildQueueAssumption DEF BInv, TypeOK
<1>2. enq \in [Jobs -> EnqPlaces] /\ ~AnswerLost /\ ~PushAgain(j)
  BY DEF BInv, TypeOK, EnqPlaces, AnswerLost, ListInv, PushAgain
<1>3. IsFiniteSet(Untrimmed) /\ Cardinality(Untrimmed) \in Nat
  BY UntrimmedFinite
<1>4. CASE PushJob(j) \/ SetJobInfo(j) \/ SetPending(j)
  <2>1. PICK place \in {"info", "list", "done"} :
          /\ enq' = [enq EXCEPT ![j] = place] /\ list' = list
          /\ \/ place = "info" /\ enq[j] = "none" /\ info' = info /\ result' = result
             \/ /\ place = "list" /\ enq[j] = "info" /\ info' = [info EXCEPT ![j] = "set"]
                /\ result' = result
             \/ /\ place = "done" /\ enq[j] = "pending" /\ info' = info
                /\ result' = [result EXCEPT ![j] = "pending"]
    BY <1>2, <1>4 DEF PushJob, Sent, SetJobInfo, SetPending, Goes
  <2>2. Untrimmed' = Untrimmed
    BY <1>2, <2>1 DEF Untrimmed
  <2>3. \A k \in Jobs : result'[k] = "none" => result[k] = "none" /\ (place # "done" \/ k # j)
    BY <2>1 DEF BInv, TypeOK
  <2>4. /\ enq'[j] = place /\ \A k \in Jobs : k # j => enq'[k] = enq[k]
        /\ Elements(list') = Elements(list)
    BY <1>2, <2>1 DEF Elements
  <2>5. (\A k \in Jobs : enq[k] \in {"none", "info", "list"} => k \notin Elements(list))'
    BY <2>1, <2>4 DEF ListInv
  <2>6. (\A k \in Jobs : enq[k] \in {"list", "trim", "pending", "done"} =>
           info[k] \in {"set", "expired"})'
    BY <2>1, <2>4 DEF ListInv, BInv, TypeOK
  <2>7. (\A k \in Jobs : enq[k] = "done" => result[k] # "none")'
    BY <2>1, <2>3, <2>4 DEF ListInv
  <2>8. (\A k \in Jobs : enq[k] \in {"trim", "pending", "done"} =>
           k \in Elements(list) \/ Len(list) >= MaxListed)'
    BY <2>1, <2>4 DEF ListInv
  <2>9. (\A k \in Jobs : enq[k] # "push")'
    BY <2>1, <2>4 DEF ListInv
  <2>10. QED
    BY <2>1, <2>2, <2>5, <2>6, <2>7, <2>8, <2>9 DEF ListInv
<1>5. CASE ListJob(j)
  <2>1. /\ enq[j] = "list" /\ list' = <<j>> \o list /\ enq' = [enq EXCEPT ![j] = "trim"]
        /\ info' = info /\ result' = result
    BY <1>2, <1>5 DEF ListJob, Goes
  <2>2. /\ Len(list') = Len(list) + 1
        /\ DOMAIN list = 1 .. Len(list) /\ DOMAIN list' = 1 .. (Len(list) + 1)
        /\ list'[1] = j /\ \A k \in 1 .. Len(list) : list'[k + 1] = list[k]
    BY <1>1, <2>1
  <2>3. \A k \in DOMAIN list' :
          \/ k = 1 /\ list'[k] = j
          \/ k - 1 \in DOMAIN list /\ list'[k] = list[k - 1]
    <3>1. TAKE k \in DOMAIN list'
    <3>2. k # 1 => k - 1 \in 1 .. Len(list) /\ (k - 1) + 1 = k
      BY <1>1, <2>2
    <3>3. QED
      BY <2>2, <3>2
  <2>4. \A k \in DOMAIN list : k + 1 \in DOMAIN list' /\ list'[k + 1] = list[k]
    BY <1>1, <2>2
  <2>5. 1 \in DOMAIN list'
    BY <1>1, <2>2
  <2>6. Elements(list') = Elements(list) \cup {j}
    BY <2>2, <2>3, <2>4, <2>5 DEF Elements
  <2>7. j \notin Elements(list)
    BY <2>1 DEF ListInv
  <2>8. \A a, b \in DOMAIN list' : list'[a] = list'[b] => a = b
    <3>1. TAKE a, b \in DOMAIN list'
    <3>2. a \in Int /\ b \in Int /\ (a - 1 = b - 1 => a = b)
      BY <2>2
    <3>3. \A k \in DOMAIN list : list[k] # j
      BY <2>7 DEF Elements
    <3>4. QED
      BY <2>3, <3>2, <3>3 DEF ListInv
  <2>9. enq'[j] = "trim" /\ \A k \in Jobs : k # j => enq'[k] = enq[k]
    BY <1>2, <2>1
  <2>10. Untrimmed' = Untrimmed \cup {j} /\ j \notin Untrimmed
    BY <2>1, <2>9 DEF Untrimmed
  <2>11. Cardinality(Untrimmed') = Cardinality(Untrimmed) + 1
    BY <1>3, <2>10, FS_AddElement
  <2>12. Len(list') <= MaxListed + Cardinality(Untrimmed')
    BY <1>1, <1>3, <2>2, <2>11 DEF ListInv
  <2>13. (\A k \in Jobs : enq[k] \in {"trim", "pending", "done"} =>
            k \in Elements(list) \/ Len(list) >= MaxListed)'
    BY <1>1, <2>2, <2>6, <2>9 DEF ListInv
  <2>14. QED
    BY <2>1, <2>6, <2>8, <2>9, <2>12, <2>13 DEF ListInv
<1>6. CASE TrimList(j)
  <2>1. /\ enq[j] = "trim" /\ list' = Trim(list) /\ enq' = [enq EXCEPT ![j] = "pending"]
        /\ info' = info /\ result' = result
    BY <1>6 DEF TrimList, Goes
  <2>2. \A a, b \in DOMAIN list : list[a] = list[b] => a = b
    BY DEF ListInv
  <2>3. /\ Len(list') <= MaxListed /\ Elements(list') \subseteq Elements(list)
        /\ \A a, b \in DOMAIN list' : list'[a] = list'[b] => a = b
        /\ (Len(list) < MaxListed /\ Elements(list') = Elements(list)) \/ Len(list') = MaxListed
    BY <1>1, <2>1, <2>2, TrimKeeps
  <2>4. enq'[j] = "pending" /\ \A k \in Jobs : k # j => enq'[k] = enq[k]
    BY <1>2, <2>1
  <2>5. Untrimmed' \subseteq Untrimmed
    BY <2>1, <2>4 DEF Untrimmed
  <2>6. Cardinality(Untrimmed') \in Nat
    BY <1>3, <2>5, FS_Subset, FS_CardinalityType
  <2>7. Len(list') \in Nat
    BY <1>1, <2>1, Trimmed
  <2>8. Len(list') <= MaxListed + Cardinality(Untrimmed')
    BY <1>1, <2>3, <2>6, <2>7
  <2>9. (\A k \in Jobs : enq[k] \in {"trim", "pending", "done"} =>
           k \in Elements(list) \/ Len(list) >= MaxListed)'
    <3>1. CASE Len(list') = MaxListed
      BY <1>1, <3>1
    <3>2. CASE Len(list) < MaxListed /\ Elements(list') = Elements(list)
      <4>1. ~(Len(list) >= MaxListed)
        BY <1>1, <3>2
      <4>2. QED
        BY <2>1, <2>4, <3>2, <4>1 DEF ListInv
    <3>3. QED
      BY <2>3, <3>1, <3>2
  <2>10. (\A k \in Jobs : enq[k] \in {"none", "info", "list"} => k \notin Elements(list))'
    BY <2>3, <2>4 DEF ListInv
  <2>11. (\A k \in Jobs : enq[k] \in {"list", "trim", "pending", "done"} =>
            info[k] \in {"set", "expired"})'
    BY <2>1, <2>4 DEF ListInv
  <2>12. (\A k \in Jobs : enq[k] = "done" => result[k] # "none")'
    BY <2>1, <2>4 DEF ListInv
  <2>13. (\A a, b \in DOMAIN list : list[a] = list[b] => a = b)'
    BY <2>3
  <2>14. (Len(list) <= MaxListed + Cardinality(Untrimmed))'
    BY <2>8
  <2>15. (\A k \in Jobs : enq[k] # "push")'
    BY <2>4 DEF ListInv
  <2>16. QED
    BY ONLY <2>9, <2>10, <2>11, <2>12, <2>13, <2>14, <2>15 DEF ListInv
<1>7. CASE Abandon(j)
  <2>1. /\ enq[j] \in {"info", "list", "trim", "pending"} /\ enq' = [enq EXCEPT ![j] = "failed"]
        /\ list' = list /\ info' = info /\ result' = result
    BY <1>7 DEF Abandon, Goes, redis
  <2>2. enq'[j] = "failed" /\ \A k \in Jobs : k # j => enq'[k] = enq[k]
    BY <1>2, <2>1
  <2>3. Untrimmed' = Untrimmed \cup {j}
    BY <2>2 DEF Untrimmed
  <2>4. /\ Cardinality(Untrimmed') \in Nat
        /\ Cardinality(Untrimmed) <= Cardinality(Untrimmed')
    <3>1. Cardinality(Untrimmed \cup {j}) =
            IF j \in Untrimmed THEN Cardinality(Untrimmed) ELSE Cardinality(Untrimmed) + 1
      BY ONLY <1>3, FS_AddElement
    <3>2. QED
      BY ONLY <1>3, <2>3, <3>1
  <2>5. Len(list') <= MaxListed + Cardinality(Untrimmed')
    BY <1>1, <1>3, <2>1, <2>4 DEF ListInv
  <2>6. QED
    BY <2>1, <2>2, <2>5 DEF ListInv, Elements
<1>8. QED
  BY <1>2, <1>4, <1>5, <1>6, <1>7 DEF EnqueueBuild

LEMMA EveryStepLists ==
  ASSUME FInv, ListInv, "redis" \notin Faults, [Next]_vars
  PROVE  ListInv'
<1>0. BInv /\ HasOutcome
  BY DEF FInv
<1>1. CASE \E j \in Jobs : PushJob(j) \/ EnqueueBuild(j) \/ Abandon(j)
  BY <1>0, <1>1, EnqueueLists
<1>2. ASSUME NEW w \in Workers, Worker(w) \/ Crash(w) \/ Sigterm(w) \/ Boot(w)
      PROVE  ListInv'
  <2>1. UNCHANGED <<list, info, enq>>
    BY <1>2 DEF Worker, Loop, DequeueJob, DequeueNothing, BeginJob, BuildImage, PushImage,
                Report, ReportAgain, Publish, SaveBuildLog, Crash, Sigterm, Boot, redis
  <2>2. \/ result' = result
        \/ result' = [result EXCEPT ![worker[w].job] = "building"]
        \/ /\ result' = [result EXCEPT ![worker[w].job] = worker[w].outcome]
           /\ worker[w].outcome \in Final
    BY <1>0, <1>2 DEF Worker, Loop, DequeueJob, DequeueNothing, BeginJob, BuildImage, PushImage,
                Report, ReportAgain, Publish, SaveBuildLog, Crash, Sigterm, Boot, redis, SetBuildResult,
                HasOutcome
  <2>3. \A j \in Jobs : result'[j] = "none" => result[j] = "none"
    BY <1>0, <2>2 DEF BInv, TypeOK, Final
  <2>4. QED
    BY <2>1, <2>3, SameList
<1>3. CASE \E j \in Jobs : OpenStream(j) \/ Subscribe(j) \/ Receive(j) \/ Poll(j)
  BY <1>3, SameList DEF OpenStream, Subscribe, Receive, Poll, redis
<1>4. CASE \E j \in Jobs : ExpireResult(j) \/ ExpireInfo(j)
  <2>1. UNCHANGED <<list, enq>>
    BY <1>4 DEF ExpireResult, ExpireInfo
  <2>2. \A j \in Jobs : info'[j] = info[j] \/ info'[j] = "expired"
    BY <1>0, <1>4 DEF ExpireResult, ExpireInfo, BInv, TypeOK
  <2>3. \A j \in Jobs : result'[j] = "none" => result[j] = "none"
    BY <1>0, <1>4 DEF ExpireResult, ExpireInfo, BInv, TypeOK
  <2>4. QED
    BY <2>1, <2>2, <2>3, SameList
<1>5. CASE UNCHANGED vars
  BY <1>5, SameList DEF vars, redis
<1>6. QED
  BY <1>1, <1>2, <1>3, <1>4, <1>5 DEF Next

ListInvUnless == "redis" \notin Faults => ListInv

\* However many jobs are enqueued, abandoned and trimmed at once, a job drops out of the
\* builds an admin sees only when MaxListed other ones are there or one of its keys has
\* expired (builder_client.go:101-144, 289-330, queue/redis.go:94).
THEOREM KeepsMaxListedAlways == Spec => []KeepsMaxListed
<1>1. Init => ListInvUnless
  <2>1. HAVE Init
  <2>2. DOMAIN list = {} /\ Elements(list) = {} /\ Len(list) = 0
    BY <2>1 DEF Init, Elements
  <2>3. Len(list) <= MaxListed + Cardinality(Untrimmed)
    BY <2>2, UntrimmedFinite, BuildQueueAssumption
  <2>4. QED
    BY <2>1, <2>2, <2>3 DEF Init, ListInv, ListInvUnless
<1>2. FInv /\ ListInvUnless /\ [Next]_vars => ListInvUnless'
  BY EveryStepLists DEF ListInvUnless
<1>3. FInv /\ ListInvUnless => KeepsMaxListed
  <2>1. SUFFICES ASSUME BInv, ListInv
                 PROVE  /\ \A j \in Jobs : enq[j] = "done" =>
                             \/ j \in ListBuildLogs \/ Outlived(j)
                             \/ Cardinality(Elements(list) \ {j}) >= MaxListed
                        /\ Len(list) <= MaxListed + Cardinality(Untrimmed)
    BY DEF ListInvUnless, KeepsMaxListed, Untrimmed, FInv
  <2>2. ASSUME NEW j \in Jobs, enq[j] = "done", j \notin ListBuildLogs, ~Outlived(j)
        PROVE  Cardinality(Elements(list) \ {j}) >= MaxListed
    <3>1. /\ list \in Seq(Jobs) /\ \A a, b \in DOMAIN list : list[a] = list[b] => a = b
          /\ \A k \in DOMAIN list : k <= MaxListed => list[k] # j
      <4>1. info[j] = "set" /\ result[j] \in Stored
        BY <2>1, <2>2 DEF ListInv, Outlived, BInv, TypeOK, Results
      <4>2. QED
        BY <2>1, <2>2, <4>1 DEF ListInv, ListBuildLogs, BInv, TypeOK
    <3>2. Cardinality(Elements(list)) = Len(list) /\ IsFiniteSet(Elements(list))
      <4>1. IsFiniteSet(Jobs)
        BY BuildQueueAssumption, FS_Interval DEF Jobs
      <4>2. Elements(list) \subseteq Jobs
        BY <3>1 DEF Elements
      <4>3. QED
        BY <3>1, <4>1, <4>2, LengthCounts, FS_Subset
    <3>3. CASE j \notin Elements(list)
      <4>1. Elements(list) \ {j} = Elements(list)
        BY <3>3
      <4>2. Len(list) >= MaxListed
        BY <2>1, <2>2, <3>3 DEF ListInv
      <4>3. QED
        BY <3>2, <4>1, <4>2
    <3>4. CASE j \in Elements(list)
      <4>1. Len(list) > MaxListed
        BY <3>1, <3>4, BuildQueueAssumption DEF Elements
      <4>2. Cardinality(Elements(list) \ {j}) = Cardinality(Elements(list)) - 1
        BY <3>2, <3>4, FS_RemoveElement
      <4>3. QED
        BY <3>1, <3>2, <4>1, <4>2, BuildQueueAssumption
    <3>5. QED
      BY <3>3, <3>4
  <2>3. QED
    BY <2>1, <2>2 DEF ListInv
<1>4. QED
  BY <1>1, <1>2, <1>3, FInvAlways, PTL DEF Spec

-----------------------------------------------------------------------------
(* The board of jobs *)

\* What JobBoard sees of the pipeline.
Building == [w \in Workers |-> IF worker[w].place \in Active THEN worker[w].job ELSE None]
Verdicts == [j \in Jobs |-> IF result[j] \in Final \cup {"expired"} THEN result[j] ELSE "none"]

\* Only a Redis that fails makes anybody send a command again.
Resent ==
  "redis" \notin Faults =>
    (\A j \in Jobs : enq[j] # "push") /\ \A w \in Workers : worker[w].place # "again"

GInv == BInv /\ HasOutcome /\ Resent

BoardStays == UNCHANGED <<pushes, queue, Building, Verdicts, shown>>

LEMMA SameBoard == BoardStays => UNCHANGED Board!vars
BY DEF BoardStays, Board!vars, Building, Verdicts

LEMMA SettledBoard ==
  ASSUME NEW j \in Jobs, Settled(j)
  PROVE  Board!Settled(j)
<1>1. \A k \in DOMAIN queue : queue[k] # j
  BY DEF Settled, Elements
<1>2. \A w \in Workers : Building[w] # j
  BY NoneIsNoJob DEF Settled, Building
<1>3. QED
  BY <1>1, <1>2 DEF Settled, Board!Settled, Building

\* A job somebody has seen the end of is settled on the board, or doubled.
LEMMA EndedBoard ==
  ASSUME BInv, NEW j \in Jobs, Ended(j)
  PROVE  Board!Settled(j) \/ Board!Doubled(j)
<1>1. CASE Once(j)
  BY <1>1, SettledBoard DEF BInv, JInv, OnceInv
<1>2. CASE ~Once(j)
  BY <1>2 DEF Once, Board!Doubled, BInv, TypeOK
<1>3. QED
  BY <1>1, <1>2

LEMMA BuildingTurned ==
  ASSUME TypeOK, NEW w \in Workers, NEW place, NEW job, NEW outcome,
         Turned(w, place, job, outcome)
  PROVE  /\ Building' = [Building EXCEPT ![w] = IF place \in Active THEN job ELSE None]
         /\ Building[w] = IF worker[w].place \in Active THEN worker[w].job ELSE None
<1>1. PICK f : f = Building
  OBVIOUS
<1>2. /\ f = [v \in Workers |-> IF worker[v].place \in Active THEN worker[v].job ELSE None]
      /\ Building' = [v \in Workers |-> IF worker'[v].place \in Active THEN worker'[v].job ELSE None]
  BY <1>1 DEF Building
<1>3. \A v \in Workers : v # w => worker'[v] = worker[v]
  BY DEF Turned
<1>4. worker'[w].place = place /\ worker'[w].job = job
  BY DEF Turned
<1>5. Building' = [f EXCEPT ![w] = IF place \in Active THEN job ELSE None]
  BY <1>2, <1>3, <1>4
<1>6. QED
  BY <1>1, <1>2, <1>5

LEMMA BuildingSame ==
  ASSUME TypeOK, NEW w \in Workers, NEW place, NEW job, NEW outcome,
         Turned(w, place, job, outcome),
         \/ worker[w].place \in Active /\ place \in Active /\ job = worker[w].job
         \/ worker[w].place \notin Active /\ place \notin Active
  PROVE  Building' = Building
<1>1. \A v \in Workers : v # w => worker'[v] = worker[v]
  BY DEF Turned
<1>2. (IF worker'[w].place \in Active THEN worker'[w].job ELSE None) =
        (IF worker[w].place \in Active THEN worker[w].job ELSE None)
  BY DEF Turned
<1>3. \A v \in Workers :
        (IF worker'[v].place \in Active THEN worker'[v].job ELSE None) =
        (IF worker[v].place \in Active THEN worker[v].job ELSE None)
  BY <1>1, <1>2
<1>4. QED
  BY <1>3 DEF Building

LEMMA VerdictSame == UNCHANGED result => Verdicts' = Verdicts
BY DEF Verdicts

LEMMA VerdictWritten ==
  ASSUME TypeOK, NEW j \in Jobs, NEW status \in Results \ {"lapsed"},
         result' = [result EXCEPT ![j] = status]
  PROVE  Verdicts' = [Verdicts EXCEPT ![j] =
                        IF status \in Final \cup {"expired"} THEN status ELSE "none"]
BY DEF TypeOK, Verdicts

\* An unfinished status takes the place of another one, of the result of a settled job, or
\* of a doubled job's.
LEMMA BoardUnfinished ==
  ASSUME BInv, NEW j \in Jobs, NEW status \in {"pending", "building"},
         result' = [result EXCEPT ![j] = status],
         UNCHANGED <<pushes, queue, Building, shown>>
  PROVE  Board!Void(j) \/ Board!Muddle(j) \/ BoardStays
<1>1. Verdicts' = [Verdicts EXCEPT ![j] = "none"]
  BY VerdictWritten DEF BInv, Results, Stored, Final
<1>2. CASE result[j] \in Final \cup {"expired"}
  <2>1. Board!Settled(j) \/ Board!Doubled(j)
    BY <1>2, EndedBoard DEF Ended
  <2>2. QED
    BY <1>1, <2>1 DEF Board!Void, Board!Muddle, Board!Judge, Building, Verdicts
<1>3. CASE result[j] \notin Final \cup {"expired"}
  <2>1. Verdicts' = Verdicts
    BY <1>1, <1>3 DEF Verdicts
  <2>2. QED
    BY <2>1 DEF BoardStays
<1>4. QED
  BY <1>2, <1>3

LEMMA BoardEnqueue ==
  ASSUME GInv, NEW j \in Jobs, PushJob(j) \/ EnqueueBuild(j) \/ Abandon(j)
  PROVE  Board!Post(j) \/ Board!Void(j) \/ Board!Muddle(j) \/ BoardStays
<1>1. BInv /\ UNCHANGED <<worker, shown>>
  BY DEF GInv, PushJob, PushAgain, Sent, EnqueueBuild, SetJobInfo, ListJob, TrimList, SetPending,
         Abandon, stream
<1>2. Building' = Building
  BY <1>1 DEF Building
<1>3. CASE Sent(j)
  <2>1. pushes[j] = 0 \/ "redis" \in Faults
    <3>1. pushes'[j] # pushes[j]
      BY <1>1, <1>3 DEF Sent, Counts, BInv, TypeOK
    <3>2. enq[j] \in {"none", "push"}
      BY <3>1 DEF PushJob, PushAgain, EnqueueBuild, SetJobInfo, ListJob, TrimList, SetPending,
                  Abandon, redis
    <3>3. enq[j] = "none" => pushes[j] = 0
      BY <1>1 DEF BInv, JInv, Unseen
    <3>4. enq[j] = "push" => "redis" \in Faults
      BY DEF GInv, Resent
    <3>5. QED
      BY <3>2, <3>3, <3>4
  <2>2. /\ queue' = Append(queue, j) /\ pushes' = [pushes EXCEPT ![j] = @ + 1]
        /\ Verdicts' = Verdicts
    BY <1>3, VerdictSame DEF Sent, Counts
  <2>3. QED
    BY <1>1, <1>2, <2>1, <2>2 DEF Board!Post, Building, Verdicts
<1>4. CASE ~Sent(j)
  <2>1. UNCHANGED <<pushes, queue>>
    BY <1>4 DEF PushJob, PushAgain, EnqueueBuild, SetJobInfo, ListJob, TrimList, SetPending,
                Abandon, redis
  <2>2. CASE UNCHANGED result
    BY <1>1, <1>2, <2>1, <2>2, VerdictSame DEF BoardStays
  <2>3. CASE ~UNCHANGED result
    <3>1. result' = [result EXCEPT ![j] = "pending"]
      BY <1>4, <2>3 DEF PushJob, PushAgain, EnqueueBuild, SetJobInfo, ListJob, TrimList,
                        SetPending, Abandon, redis
    <3>2. QED
      BY <1>1, <1>2, <2>1, <3>1, BoardUnfinished
  <2>4. QED
    BY <2>2, <2>3
<1>5. QED
  BY <1>3, <1>4

LEMMA BoardDequeue ==
  ASSUME BInv, NEW w \in Workers, DequeueJob(w)
  PROVE  Board!Take(w) \/ Board!Drop
<1>1. /\ queue # <<>> /\ queue' = Tail(queue) /\ worker[w].job = None
      /\ worker[w].place \notin Active /\ UNCHANGED <<pushes, result, shown>>
  BY DEF DequeueJob, BInv, TypeOK, stream, Active
<1>2. Verdicts' = Verdicts
  BY <1>1, VerdictSame
<1>3. Head(queue) \in Jobs /\ TypeOK
  BY <1>1, Popped DEF BInv, TypeOK
<1>4. CASE Becomes(w, "begin", Head(queue), "none")
  <2>1. Turned(w, "begin", Head(queue), "none")
    BY <1>3, <1>4, BecomesTurns DEF Places
  <2>2. Building[w] = None /\ Building' = [Building EXCEPT ![w] = Head(queue)]
    BY <1>1, <1>3, <2>1, BuildingTurned DEF Active
  <2>3. QED
    BY <1>1, <1>2, <2>2 DEF Board!Take, Building, Verdicts
<1>5. CASE "redis" \in Faults /\ Moves(w, "loop", "none")
  <2>1. Turned(w, "loop", worker[w].job, "none")
    BY <1>3, <1>5, MovesTurns DEF Places
  <2>2. Building' = Building
    BY <1>1, <1>3, <2>1, BuildingSame DEF Active
  <2>3. QED
    BY <1>1, <1>2, <1>5, <2>2 DEF Board!Drop, Building, Verdicts
<1>6. QED
  BY <1>4, <1>5 DEF DequeueJob

\* A worker that reports, or dies with its job.
LEMMA BoardSettles ==
  ASSUME BInv, NEW w \in Workers, NEW place, NEW job, NEW outcome, Turned(w, place, job, outcome),
         worker[w].place \in Active, place \notin Active,
         \/ result' = result
         \/ worker[w].outcome \in Final /\ result' = [result EXCEPT ![worker[w].job] = worker[w].outcome],
         UNCHANGED <<pushes, queue, shown>>
  PROVE  \E j \in Jobs : Board!Settle(w, j)
<1>1. PICK j \in Jobs : j = worker[w].job
  BY DEF BInv, TypeOK, WorkerState, Active
<1>2. Building[w] = j /\ Building' = [Building EXCEPT ![w] = None]
  BY <1>1, BuildingTurned DEF BInv
<1>3. Verdicts' = Verdicts \/ \E v \in Final : Verdicts' = [Verdicts EXCEPT ![j] = v]
  <2>1. CASE result' = result
    BY <2>1, VerdictSame
  <2>2. CASE worker[w].outcome \in Final /\ result' = [result EXCEPT ![j] = worker[w].outcome]
    <3>1. Verdicts' = [Verdicts EXCEPT ![j] = worker[w].outcome]
      BY <2>2, VerdictWritten DEF BInv, Results, Stored, Final
    <3>2. QED
      BY <2>2, <3>1
  <2>3. QED
    BY <1>1, <2>1, <2>2
<1>4. Board!Settle(w, j)
  BY <1>2, <1>3 DEF Board!Settle, Board!Judge, Board!Final, Final, Building, Verdicts
<1>5. QED
  BY <1>4

\* A worker that reports again.
LEMMA BoardRenews ==
  ASSUME GInv, NEW w \in Workers, ReportAgain(w)
  PROVE  (\E j \in Jobs : Board!Renew(j) \/ Board!Muddle(j)) \/ BoardStays
<1>1. PICK j \in Jobs : j = worker[w].job
  BY DEF GInv, BInv, TypeOK, WorkerState, ReportAgain
<1>2. /\ TypeOK /\ worker[w].outcome \in Final /\ worker[w].place = "again"
      /\ "redis" \in Faults /\ UNCHANGED <<pushes, queue, shown>>
  BY DEF GInv, BInv, HasOutcome, Resent, ReportAgain, stream
<1>3. Building' = Building
  <2>1. PICK place \in {"again", "publish"} : Turned(w, place, worker[w].job, worker[w].outcome)
    BY <1>2, MovesTurns, StaysTurns DEF ReportAgain, Places
  <2>2. QED
    BY <1>2, <2>1, BuildingSame DEF Active
<1>4. CASE result' = result
  BY <1>2, <1>3, <1>4, VerdictSame DEF BoardStays
<1>5. CASE result' = [result EXCEPT ![j] = worker[w].outcome]
  <2>1. Verdicts' = [Verdicts EXCEPT ![j] = worker[w].outcome]
    BY <1>2, <1>5, VerdictWritten DEF Results, Stored, Final
  <2>2. CASE Once(j)
    <3>1. OnceInv(j)
      BY <2>2 DEF GInv, BInv, JInv
    <3>2. shown[j] \in Final => shown[j] = worker[w].outcome
      BY <1>1, <1>2, <3>1 DEF OnceInv
    <3>3. Settled(j)
      <4>1. j \notin Elements(queue) /\ \A v \in Workers : worker[v].job = j => v = w
        BY <1>1, <2>2, Alone DEF GInv
      <4>2. pushes[j] > 0
        BY <1>1, <2>2, Alone DEF GInv
      <4>3. QED
        BY <1>2, <4>1, <4>2 DEF Settled, Active
    <3>4. Board!Settled(j)
      BY <3>3, SettledBoard
    <3>5. Board!Renew(j)
      BY <1>2, <1>3, <2>1, <3>2, <3>4
         DEF Board!Renew, Board!Judge, Board!Final, Final, Building, Verdicts
    <3>6. QED
      BY <3>5
  <2>3. CASE ~Once(j)
    <3>1. Board!Doubled(j)
      BY <1>2, <2>3 DEF Once, Board!Doubled, TypeOK
    <3>2. Board!Muddle(j)
      BY <1>2, <1>3, <2>1, <3>1
         DEF Board!Muddle, Board!Judge, Board!Final, Final, Building, Verdicts
    <3>3. QED
      BY <3>2
  <2>4. QED
    BY <2>2, <2>3
<1>6. QED
  BY <1>1, <1>4, <1>5 DEF ReportAgain, SetBuildResult

LEMMA BoardWorker ==
  ASSUME GInv, NEW w \in Workers, Worker(w) \/ Crash(w) \/ Sigterm(w) \/ Boot(w)
  PROVE  \/ Board!Take(w) \/ Board!Drop \/ BoardStays
         \/ \E j \in Jobs : \/ Board!Settle(w, j) \/ Board!Void(j)
                            \/ Board!Renew(j) \/ Board!Muddle(j)
<1>1. /\ BInv /\ TypeOK /\ (worker[w].job = None <=> worker[w].place \in {"loop", "pop", "off"})
      /\ worker[w].job \in Jobs \cup {None} /\ worker[w].outcome \in Final \cup {"none"}
  BY DEF GInv, BInv, TypeOK, WorkerState
<1>2. ASSUME NEW place, NEW job, NEW outcome, Turned(w, place, job, outcome),
             \/ worker[w].place \in Active /\ place \in Active /\ job = worker[w].job
             \/ worker[w].place \notin Active /\ place \notin Active,
             UNCHANGED <<pushes, queue, result, shown>>
      PROVE  BoardStays
  BY <1>1, <1>2, BuildingSame, VerdictSame DEF BoardStays
<1>3. CASE Loop(w) \/ DequeueNothing(w)
  <2>1. PICK place \in {"off", "pop", "loop"} : Moves(w, place, "none")
    BY <1>3 DEF Loop, DequeueNothing
  <2>2. Turned(w, place, worker[w].job, "none") /\ place \notin Active
    BY <1>1, <2>1, MovesTurns DEF Places, Active
  <2>3. worker[w].place \notin Active /\ UNCHANGED <<pushes, queue, result, shown>>
    BY <1>3 DEF Loop, DequeueNothing, Active, redis, stream
  <2>4. QED
    BY <1>2, <2>2, <2>3
<1>4. CASE SaveBuildLog(w)
  <2>1. Turned(w, "loop", None, "none") /\ "loop" \notin Active
    BY <1>1, <1>4, BecomesTurns DEF SaveBuildLog, Places, Active
  <2>2. worker[w].place \notin Active /\ UNCHANGED <<pushes, queue, result, shown>>
    BY <1>4 DEF SaveBuildLog, Active, redis, stream
  <2>3. QED
    BY <1>2, <2>1, <2>2
<1>5. CASE Crash(w) \/ Boot(w)
  <2>1. Turned(w, "loop", None, "none") /\ "loop" \notin Active
        /\ UNCHANGED <<pushes, queue, result, shown>>
    BY <1>1, <1>5, IdleTurns DEF Crash, Boot, Active, redis, stream
  <2>2. CASE worker[w].place \in Active
    BY <1>1, <2>1, <2>2, BoardSettles
  <2>3. CASE worker[w].place \notin Active
    BY <1>2, <2>1, <2>3
  <2>4. QED
    BY <2>2, <2>3
<1>6. CASE Sigterm(w)
  <2>1. Turned(w, worker[w].place, worker[w].job, worker[w].outcome)
    BY <1>1, <1>6, SigtermTurns
  <2>2. UNCHANGED <<pushes, queue, result, shown>>
    BY <1>6 DEF Sigterm, redis, stream
  <2>3. QED
    BY <1>2, <2>1, <2>2
<1>7. CASE BeginJob(w)
  <2>1. PICK place \in {"begin", "build"}, outcome \in Final \cup {"none"} :
          Turned(w, place, worker[w].job, outcome)
    BY <1>1, <1>7, MovesTurns, StaysTurns DEF BeginJob, Places
  <2>2. worker[w].place \in Active /\ place \in Active /\ UNCHANGED <<pushes, queue, shown>>
    BY <1>7 DEF BeginJob, Active, stream
  <2>3. CASE UNCHANGED result
    BY <1>2, <2>1, <2>2, <2>3
  <2>4. CASE ~UNCHANGED result
    <3>1. result' = [result EXCEPT ![worker[w].job] = "building"] /\ worker[w].job \in Jobs
      BY <1>1, <1>7, <2>4 DEF BeginJob, SetBuildResult
    <3>2. Building' = Building
      BY <1>1, <2>1, <2>2, BuildingSame
    <3>3. QED
      BY <1>1, <2>2, <3>1, <3>2, BoardUnfinished
  <2>5. QED
    BY <2>3, <2>4
<1>8. CASE BuildImage(w) \/ PushImage(w)
  <2>1. PICK place \in {"push", "report"}, outcome \in Final \cup {"none"} :
          Turned(w, place, worker[w].job, outcome)
    BY <1>1, <1>8, MovesTurns DEF BuildImage, PushImage, Places, Final
  <2>2. worker[w].place \in Active /\ place \in Active /\ UNCHANGED <<pushes, queue, result, shown>>
    BY <1>8 DEF BuildImage, PushImage, Active, redis, stream
  <2>3. QED
    BY <1>2, <2>1, <2>2
<1>9. CASE Report(w)
  <2>1. PICK place \in {"again", "publish"} : Turned(w, place, worker[w].job, worker[w].outcome)
    BY <1>1, <1>9, MovesTurns DEF Report, Places
  <2>2. worker[w].place \in Active /\ place \notin Active /\ UNCHANGED <<pushes, queue, shown>>
    BY <1>9 DEF Report, Active, stream
  <2>3. /\ worker[w].outcome \in Final
        /\ \/ result' = result
           \/ result' = [result EXCEPT ![worker[w].job] = worker[w].outcome]
    BY <1>9 DEF Report, SetBuildResult, GInv, HasOutcome
  <2>4. QED
    BY <1>1, <2>1, <2>2, <2>3, BoardSettles
<1>10. CASE Publish(w)
  <2>1. Turned(w, "save", worker[w].job, "none")
    BY <1>1, <1>10, MovesTurns DEF Publish, Places
  <2>2. /\ worker[w].place \notin Active /\ "save" \notin Active
        /\ UNCHANGED <<pushes, queue, result, shown>>
    BY <1>10 DEF Publish, Active, redis
  <2>3. QED
    BY <1>2, <2>1, <2>2
<1>11. CASE DequeueJob(w)
  BY <1>1, <1>11, BoardDequeue
<1>12. CASE ReportAgain(w)
  BY <1>12, BoardRenews
<1>13. QED
  BY <1>3, <1>4, <1>5, <1>6, <1>7, <1>8, <1>9, <1>10, <1>11, <1>12 DEF Worker

LEMMA BoardStream ==
  ASSUME BInv, NEW j \in Jobs, OpenStream(j) \/ Subscribe(j) \/ Receive(j) \/ Poll(j)
  PROVE  Board!Tell(j) \/ BoardStays
<1>1. UNCHANGED <<queue, pushes, result, worker>> /\ shown[j] = "none"
  BY DEF OpenStream, Subscribe, Receive, Poll, redis, BInv, JInv
<1>2. UNCHANGED <<queue, pushes, Building, Verdicts>>
  BY <1>1 DEF Building, Verdicts
<1>3. CASE result[j] \in Final /\ Ends(j, result[j])
  <2>1. Board!Settled(j) \/ Board!Doubled(j)
    BY <1>3, EndedBoard DEF Ended
  <2>2. Verdicts[j] = result[j] /\ shown' = [shown EXCEPT ![j] = result[j]]
    BY <1>3 DEF Verdicts, Ends
  <2>3. QED
    BY <1>1, <1>2, <1>3, <2>1, <2>2 DEF Board!Tell, Board!Final, Final, Building, Verdicts
<1>4. CASE Receive(j)
  <2>1. Board!Settled(j) \/ Board!Doubled(j)
    BY <1>4, EndedBoard DEF Ended, Receive
  <2>2. shown' = [shown EXCEPT ![j] = "unspecified"]
    BY <1>4 DEF Receive, Ends
  <2>3. QED
    BY <1>1, <1>2, <2>1, <2>2 DEF Board!Tell, Building, Verdicts
<1>5. CASE UNCHANGED shown
  BY <1>2, <1>5 DEF BoardStays
<1>6. QED
  BY <1>3, <1>4, <1>5 DEF OpenStream, Subscribe, Poll

LEMMA BoardExpire ==
  ASSUME BInv, NEW j \in Jobs, ExpireResult(j) \/ ExpireInfo(j)
  PROVE  Board!Expire(j) \/ BoardStays
<1>1. UNCHANGED <<pushes, queue, worker, shown>> /\ TypeOK
  BY DEF ExpireResult, ExpireInfo, stream, BInv
<1>2. Building' = Building
  BY <1>1 DEF Building
<1>3. CASE result[j] \in Final /\ result' = [result EXCEPT ![j] = "expired"]
  <2>1. Verdicts[j] \in Final /\ Verdicts' = [Verdicts EXCEPT ![j] = "expired"]
    BY <1>1, <1>3, VerdictWritten DEF Verdicts, Results
  <2>2. QED
    BY <1>1, <1>2, <2>1 DEF Board!Expire, Board!Judge, Board!Final, Final, Building, Verdicts
<1>4. CASE result[j] \in {"pending", "building"} /\ result' = [result EXCEPT ![j] = "lapsed"]
  <2>1. Verdicts' = Verdicts
    BY <1>1, <1>4 DEF Verdicts, Final, TypeOK
  <2>2. QED
    BY <1>1, <1>2, <2>1 DEF BoardStays
<1>5. CASE UNCHANGED result
  BY <1>1, <1>2, <1>5, VerdictSame DEF BoardStays
<1>6. QED
  BY <1>3, <1>4, <1>5 DEF ExpireResult, ExpireInfo

LEMMA BoardStep ==
  ASSUME GInv, [Next]_vars
  PROVE  Board!Next \/ BoardStays
<1>1. BInv
  BY DEF GInv
<1>2. CASE \E j \in Jobs : PushJob(j) \/ EnqueueBuild(j) \/ Abandon(j)
  BY <1>2, BoardEnqueue DEF Board!Next
<1>3. CASE \E w \in Workers : Worker(w) \/ Crash(w) \/ Sigterm(w) \/ Boot(w)
  BY <1>3, BoardWorker DEF Board!Next
<1>4. CASE \E j \in Jobs : OpenStream(j) \/ Subscribe(j) \/ Receive(j) \/ Poll(j)
  BY <1>1, <1>4, BoardStream DEF Board!Next
<1>5. CASE \E j \in Jobs : ExpireResult(j) \/ ExpireInfo(j)
  BY <1>1, <1>5, BoardExpire DEF Board!Next
<1>6. CASE UNCHANGED vars
  BY <1>6 DEF vars, redis, stream, BoardStays, Building, Verdicts
<1>7. QED
  BY <1>2, <1>3, <1>4, <1>5, <1>6 DEF Next

LEMMA ResentKept ==
  ASSUME BInv, Resent, [Next]_vars
  PROVE  Resent'
<1>1. SUFFICES ASSUME "redis" \notin Faults
               PROVE  (\A j \in Jobs : enq'[j] # "push") /\ \A w \in Workers : worker'[w].place # "again"
  BY DEF Resent
<1>2. (\A j \in Jobs : enq[j] # "push") /\ (\A w \in Workers : worker[w].place # "again") /\ ~AnswerLost
  BY <1>1 DEF Resent, AnswerLost
<1>3. ASSUME NEW j \in Jobs, PushJob(j) \/ EnqueueBuild(j) \/ Abandon(j)
      PROVE  (\A k \in Jobs : enq'[k] # "push") /\ worker' = worker
  <2>1. worker' = worker
    BY <1>3 DEF PushJob, PushAgain, Sent, EnqueueBuild, SetJobInfo, ListJob, TrimList, SetPending,
                Abandon
  <2>2. UNCHANGED enq \/ \E place \in EnqPlaces \ {"push"} : Goes(j, place)
    BY <1>2, <1>3 DEF PushJob, PushAgain, Sent, EnqueueBuild, SetJobInfo, ListJob, TrimList,
                      SetPending, Abandon, EnqPlaces
  <2>3. QED
    BY <1>2, <2>1, <2>2 DEF Goes, BInv, TypeOK
<1>4. ASSUME NEW w \in Workers, Worker(w) \/ Crash(w) \/ Sigterm(w) \/ Boot(w)
      PROVE  enq' = enq /\ \A v \in Workers : worker'[v].place # "again"
  <2>1. enq' = enq
    BY <1>4 DEF Worker, Loop, DequeueJob, DequeueNothing, BeginJob, BuildImage, PushImage,
                Report, ReportAgain, Publish, SaveBuildLog, Crash, Sigterm, Boot
  <2>2. \A v \in Workers : v # w => worker'[v] = worker[v]
    BY <1>4 DEF Worker, Loop, DequeueJob, DequeueNothing, BeginJob, BuildImage, PushImage,
                Report, ReportAgain, Publish, SaveBuildLog, Crash, Sigterm, Boot, Moves, Becomes,
                BInv, TypeOK
  <2>3. CASE Worker(w)
    <3>1. \/ worker' = worker
          \/ \E place, job, outcome : Becomes(w, place, job, outcome) /\ place # "again"
      BY <1>2, <2>3 DEF Worker, Loop, DequeueJob, DequeueNothing, BeginJob, BuildImage, PushImage,
                        Report, ReportAgain, Publish, SaveBuildLog, Moves
    <3>2. worker'[w].place # "again"
      BY <1>2, <3>1, BecomesExactly
    <3>3. QED
      BY <1>2, <2>1, <2>2, <3>2
  <2>4. CASE Crash(w) \/ Boot(w)
    BY <1>2, <2>1, <2>2, <2>4, IdleTurns DEF Crash, Boot, Turned, BInv
  <2>5. CASE Sigterm(w)
    BY <1>2, <2>1, <2>2, <2>5, SigtermTurns DEF Turned, BInv
  <2>6. QED
    BY <1>4, <2>3, <2>4, <2>5
<1>5. CASE \E j \in Jobs : \/ OpenStream(j) \/ Subscribe(j) \/ Receive(j) \/ Poll(j)
                           \/ ExpireResult(j) \/ ExpireInfo(j)
  BY <1>2, <1>5 DEF OpenStream, Subscribe, Receive, Poll, ExpireResult, ExpireInfo
<1>6. CASE UNCHANGED vars
  BY <1>2, <1>6 DEF vars
<1>7. QED
  BY <1>2, <1>3, <1>4, <1>5, <1>6 DEF Next

LEMMA GInvAlways == Spec => []GInv
<1>1. Init => Resent
  BY DEF Init, Resent, Idle
<1>2. FInv /\ Resent /\ [Next]_vars => Resent'
  BY ResentKept DEF FInv
<1>3. FInv /\ Resent => GInv
  BY DEF FInv, GInv
<1>4. QED
  BY <1>1, <1>2, <1>3, FInvAlways, PTL DEF Spec

\* For any number of workers and jobs, jobs are built in the order of their RPush, each as
\* often as it was pushed; a job pushed once gets a final status with its worker's report
\* only, and an admin is told nothing while it is built and then its result
\* (builder_client.go:101-144, worker.go:81-240).
THEOREM BoardKept == Spec => KeepsBoard
<1>1. Init => Board!Init
  BY DEF Init, Board!Init, Idle, Active, Final
<1>2. GInv /\ [Next]_vars => [Board!Next]_(Board!vars)
  BY BoardStep, SameBoard
<1>3. QED
  BY <1>1, <1>2, GInvAlways, PTL DEF Spec, KeepsBoard, Board!Spec
=============================================================================
