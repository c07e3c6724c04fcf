------------------------------ MODULE JobQueue ------------------------------
(***************************************************************************)
(* Background jobs: JobQueue of core/infra/queue.py, the in-process one.   *)
(* A job is a record others read and a task of the event loop; the two     *)
(* part when the task is cancelled outside of the handler.                 *)
(***************************************************************************)
EXTENDS Integers, FiniteSets, Sequences, SequencesExt

CONSTANTS
    Jobs,        \* bound: the jobs of a behaviour
    MaxWorkers,  \* QUEUE_MAX_WORKERS
    MaxRetries   \* Job.max_retries

ASSUME JobQueueAssumption == IsFiniteSet(Jobs) /\ MaxWorkers \in Nat \ {0} /\ MaxRetries \in Nat

Terminal == {"succeeded", "failed", "cancelled"}

VARIABLES
    status,     \* Job.status of the jobs in _jobs; "none" for the others
    retries,    \* Job.retry_count
    task,       \* where each runner is
    stopping,   \* the tasks cancel() was called on
    letters     \* dead letters written per job

jobVars == <<status, retries, task, stopping, letters>>

JobTypeOK ==
    /\ status \in [Jobs -> {"none", "pending", "running", "pruned"} \cup Terminal]
    /\ retries \in [Jobs -> 0..(MaxRetries + 1)]
    /\ task \in [Jobs -> {"none", "waiting", "handler", "backoff", "done"}]
    /\ stopping \subseteq Jobs
    /\ letters \in [Jobs -> Nat]

JobInit ==
    /\ status = [j \in Jobs |-> "none"]
    /\ retries = [j \in Jobs |-> 0]
    /\ task = [j \in Jobs |-> "none"]
    /\ stopping = {}
    /\ letters = [j \in Jobs |-> 0]

Holding == {j \in Jobs : task[j] \in {"handler", "backoff"}}

Submit(j) ==
    /\ task[j] = "none"
    /\ status' = [status EXCEPT ![j] = "pending"]
    /\ task' = [task EXCEPT ![j] = "waiting"]
    /\ UNCHANGED <<retries, stopping, letters>>

\* The runner gets a slot.
StartJob(j) ==
    /\ task[j] = "waiting" /\ j \notin stopping
    /\ Cardinality(Holding) < MaxWorkers
    /\ status' = [status EXCEPT ![j] = "running"]
    /\ task' = [task EXCEPT ![j] = "handler"]
    /\ UNCHANGED <<retries, stopping, letters>>

Succeed(j) ==
    /\ task[j] = "handler"
    /\ status' = [status EXCEPT ![j] = "succeeded"]
    /\ task' = [task EXCEPT ![j] = "done"]
    /\ UNCHANGED <<retries, stopping, letters>>

\* The handler raised: again after a pause, or for good, with a dead letter
\* unless that cannot be written.
Fail(j) ==
    /\ task[j] = "handler"
    /\ retries' = [retries EXCEPT ![j] = @ + 1]
    /\ IF retries[j] < MaxRetries
       THEN task' = [task EXCEPT ![j] = "backoff"] /\ UNCHANGED <<status, letters>>
       ELSE /\ task' = [task EXCEPT ![j] = "done"]
            /\ status' = [status EXCEPT ![j] = "failed"]
            /\ \E written \in {0, 1} : letters' = [letters EXCEPT ![j] = @ + written]
    /\ UNCHANGED stopping

\* The pause is over; the slot was held through it.
Retry(j) ==
    /\ task[j] = "backoff" /\ j \notin stopping
    /\ task' = [task EXCEPT ![j] = "handler"]
    /\ UNCHANGED <<status, retries, stopping, letters>>

Cancel(j) ==
    /\ task[j] \in {"waiting", "handler", "backoff"}
    /\ stopping' = stopping \cup {j}
    /\ UNCHANGED <<status, retries, task, letters>>

\* The cancellation arrives where the task waits.  Only the handler's wait has
\* an except clause: elsewhere the job keeps the status it had.
JobCancelled(j) ==
    /\ j \in stopping /\ task[j] \in {"waiting", "handler", "backoff"}
    /\ task' = [task EXCEPT ![j] = "done"]
    /\ status' = [status EXCEPT ![j] = IF task[j] = "handler" THEN "cancelled" ELSE @]
    /\ UNCHANGED <<retries, stopping, letters>>

\* shutdown cancels what there is.
ShutdownJobs ==
    /\ \E j \in Jobs \ stopping : task[j] \in {"waiting", "handler", "backoff"}
    /\ stopping' = stopping \cup {j \in Jobs : task[j] \in {"waiting", "handler", "backoff"}}
    /\ UNCHANGED <<status, retries, task, letters>>

\* Faulty variant: whatever is old is dropped.
PruneAll(j) ==
    /\ status[j] \notin {"none", "pruned"}
    /\ status' = [status EXCEPT ![j] = "pruned"]
    /\ UNCHANGED <<retries, task, stopping, letters>>

Prune(j) ==
    /\ status[j] \in Terminal
    /\ status' = [status EXCEPT ![j] = "pruned"]
    /\ UNCHANGED <<retries, task, stopping, letters>>

Advance(j) == StartJob(j) \/ Succeed(j) \/ Fail(j) \/ Retry(j) \/ JobCancelled(j)

JobNext ==
    \/ \E j \in Jobs : Submit(j) \/ Advance(j) \/ Cancel(j) \/ Prune(j)
    \/ ShutdownJobs

JobSpec == JobInit /\ [][JobNext]_jobVars

\* The event loop runs every task; a handler returns.
JobFairness == \A j \in Jobs : WF_jobVars(Advance(j))
-----------------------------------------------------------------------------
(* Properties.                                                              *)

\* A job that nobody cancels comes to its end, whatever fails and however few
\* the slots: one that waits for a retry keeps a slot, and gives it back.
JobsSettle == \A j \in Jobs : status[j] = "pending" ~> (status[j] \in Terminal \cup {"pruned"} \/ j \in stopping)

\* A dead letter is the record of a job that used up its retries, one each.
LettersAreFailures ==
    \A j \in Jobs : letters[j] > 0 => letters[j] = 1 /\ task[j] = "done" /\ retries[j] = MaxRetries + 1

\* What a client reads of a job does not change once it is final, nor does a
\* job disappear before that.
FinalIsFinal ==
    [][\A j \in Jobs :
          /\ status[j] \in Terminal => status'[j] \in {status[j], "pruned"}
          /\ status'[j] = "pruned" => status[j] \in Terminal \cup {"pruned"}]_jobVars

\* A job ends, and its record tells how, once and for all.
JobsHold == JobsSettle /\ []LettersAreFailures /\ FinalIsFinal
-----------------------------------------------------------------------------
(***************************************************************************)
(* Background jobs when Redis is configured: RedisJobQueue of              *)
(* core/infra/queue.py.  The ids of waiting jobs are a list in Redis that  *)
(* every server pops from; what a job does, and its record, stay with the  *)
(* server it was submitted to.  Of the record other servers read a copy in *)
(* the shared cache.  The hash that heartbeats refresh is never read, and  *)
(* left out, as is a pop that fails or times out and is tried again.       *)
(***************************************************************************)

CONSTANTS
    Servers,     \* bound: servers that share the Redis
    RedisJobs,   \* bound: the jobs of a behaviour
    Slots,       \* the workers of one server, max_workers of them
    MaxLosses    \* bound: pushes that fail, restarts of Redis and servers that die

Ended == {"succeeded", "failed", "cancelled"}
NoServer == "none"

ASSUME RedisQueueAssumption ==
    /\ IsFiniteSet(RedisJobs) /\ MaxLosses \in Nat
    /\ NoServer \notin Servers /\ RedisJobs \cap {"unstarted", "pops", "ended"} = {}

VARIABLES
    waitingIds, \* the list in Redis; lpush on the left, brpop on the right
    entry,      \* per job: its record in _jobs, and its push task in _tasks
    copied,     \* per job: the status in the shared cache
    handlers,   \* per server: _handlers
    worker,     \* per server and slot: its loop
    serving,    \* per server: "up", "stopping" once shutdown was called, "gone"
    ran,        \* history: how often a job's handler was started
    missed      \* history: jobs whose id got lost, and how many losses there were

redisVars == <<waitingIds, entry, copied, handlers, worker, serving, ran, missed>>

Unsubmitted == [at |-> NoServer, status |-> "none", push |-> "none"]

RedisTypeOK ==
    /\ waitingIds \in Seq(RedisJobs)
    /\ entry \in [RedisJobs -> [at : Servers \cup {NoServer}, status : {"none", "pending", "running"} \cup Ended,
                                push : {"none", "sending", "over"}]]
    /\ copied \in [RedisJobs -> {"none", "pending", "running"} \cup Ended]
    /\ \A s \in Servers : handlers[s] \subseteq RedisJobs
    /\ worker \in [Servers -> [Slots -> RedisJobs \cup {"unstarted", "pops", "ended"}]]
    /\ serving \in [Servers -> {"up", "stopping", "gone"}]
    /\ missed.jobs \subseteq RedisJobs /\ missed.losses \in 0..MaxLosses

RedisInit ==
    /\ waitingIds = <<>>
    /\ entry = [j \in RedisJobs |-> Unsubmitted]
    /\ copied = [j \in RedisJobs |-> "none"]
    /\ handlers = [s \in Servers |-> {}]
    /\ worker = [s \in Servers |-> [k \in Slots |-> "unstarted"]]
    /\ serving = [s \in Servers |-> "up"]
    /\ ran = [j \in RedisJobs |-> 0]
    /\ missed = [jobs |-> {}, losses |-> 0]

Loses(jobs) == missed.losses < MaxLosses /\ missed' = [jobs |-> missed.jobs \cup jobs, losses |-> missed.losses + 1]
Misses(jobs) == missed' = [missed EXCEPT !.jobs = @ \cup jobs]

\* The second half of _persist, "best-effort": a write to the cache that fails is swallowed.
Mirrored(j, what) == copied' \in {copied, [copied EXCEPT ![j] = what]}

\* _persist: the record, and its copy in the cache.
Becomes(j, what) ==
    /\ entry' = [entry EXCEPT ![j].status = what]
    /\ Mirrored(j, what)

\* The first submission starts the workers.
SubmitTo(s, j) ==
    /\ serving[s] = "up" /\ entry[j] = Unsubmitted
    /\ entry' = [entry EXCEPT ![j] = [at |-> s, status |-> "pending", push |-> "sending"]]
    /\ Mirrored(j, "pending")
    /\ handlers' = [handlers EXCEPT ![s] = @ \cup {j}]
    /\ worker' = [worker EXCEPT ![s] = [k \in Slots |-> IF @[k] = "unstarted" THEN "pops" ELSE @[k]]]
    /\ UNCHANGED <<waitingIds, serving, ran, missed>>

Sending(j) == entry[j].push = "sending" /\ serving[entry[j].at] # "gone"

PushLands(j) ==
    /\ Sending(j)
    /\ waitingIds' = <<j>> \o waitingIds
    /\ entry' = [entry EXCEPT ![j].push = "over"]
    /\ UNCHANGED <<copied, handlers, worker, serving, ran, missed>>

\* Nobody looks at the task when it has failed.
PushFails(j) ==
    /\ Sending(j)
    /\ Loses({j})
    /\ entry' = [entry EXCEPT ![j].push = "over"]
    /\ UNCHANGED <<waitingIds, copied, handlers, worker, serving, ran>>

\* cancel finds the push and not the job; where it was sent already, it counts.
CancelJob(j) ==
    /\ Sending(j)
    /\ entry' = [entry EXCEPT ![j].push = "over"]
    /\ \/ waitingIds' = <<j>> \o waitingIds /\ UNCHANGED missed
       \/ Misses({j}) /\ UNCHANGED waitingIds
    /\ UNCHANGED <<copied, handlers, worker, serving, ran>>

\* Faulty variant: the id is read, and stays in the list until the job has ended.
PopPeeking(s, k) ==
    /\ worker[s][k] = "pops" /\ waitingIds # <<>>
    /\ LET j == Last(waitingIds) IN
       /\ UNCHANGED waitingIds
       /\ IF entry[j].at = s /\ ran[j] < 2
          THEN /\ worker' = [worker EXCEPT ![s][k] = j]
               /\ Becomes(j, "running")
               /\ ran' = [ran EXCEPT ![j] = @ + 1]
               /\ UNCHANGED missed
          ELSE Misses({j}) /\ UNCHANGED <<worker, entry, copied, ran>>
    /\ UNCHANGED <<handlers, serving>>

\* The oldest id, whoever submitted it; without a handler here it is dropped.
Pop(s, k) ==
    /\ worker[s][k] = "pops" /\ waitingIds # <<>>
    /\ LET j == Last(waitingIds) IN
       /\ waitingIds' = Front(waitingIds)
       /\ handlers' = [handlers EXCEPT ![s] = @ \ {j}]
       /\ IF j \in handlers[s]
          THEN /\ worker' = [worker EXCEPT ![s][k] = j]
               /\ Becomes(j, "running")
               /\ ran' = [ran EXCEPT ![j] = @ + 1]
               /\ UNCHANGED missed
          ELSE Misses({j}) /\ UNCHANGED <<worker, entry, copied, ran>>
    /\ UNCHANGED <<serving>>

\* Faulty variant: the worker is done with the queue when it is done with a job.
FinishesForGood(s, k) ==
    /\ worker[s][k] \in RedisJobs
    /\ \E outcome \in {"succeeded", "failed"} : Becomes(worker[s][k], outcome)
    /\ worker' = [worker EXCEPT ![s][k] = "ended"]
    /\ UNCHANGED <<waitingIds, handlers, serving, ran, missed>>

\* The handler returns or raises; there is no second attempt here.
Finishes(s, k) ==
    /\ worker[s][k] \in RedisJobs
    /\ \E outcome \in {"succeeded", "failed"} : Becomes(worker[s][k], outcome)
    /\ worker' = [worker EXCEPT ![s][k] = "pops"]
    /\ UNCHANGED <<waitingIds, handlers, serving, ran, missed>>

Busy(s) == {worker[s][k] : k \in Slots} \cap RedisJobs
OfServer(s) == {j \in RedisJobs : entry[j].at = s}

\* shutdown cancels the workers and the pushes: a push that was sent already counts, and an id
\* that was popped already for a worker that only waits is gone with it.  A worker whose job is
\* cancelled has caught that, and pops the next.
ShutdownRedis(s) ==
    /\ serving[s] = "up"
    /\ serving' = [serving EXCEPT ![s] = "stopping"]
    /\ LET pushes == {j \in OfServer(s) : Sending(j)}
           popping == \E k \in Slots : worker[s][k] = "pops"
       IN  \E landed \in SUBSET pushes, taken \in BOOLEAN :
              LET listed == SetToSeq(landed) \o waitingIds IN
              /\ taken => popping /\ listed # <<>>
              /\ waitingIds' = IF taken THEN Front(listed) ELSE listed
              /\ Misses((pushes \ landed) \cup (IF taken THEN {Last(listed)} ELSE {}))
    /\ entry' = [j \in RedisJobs |->
                    [entry[j] EXCEPT !.push = IF j \in OfServer(s) THEN "over" ELSE @,
                                     !.status = IF j \in Busy(s) THEN "cancelled" ELSE @]]
    /\ \E told \in SUBSET Busy(s) :
          copied' = [j \in RedisJobs |-> IF j \in told THEN "cancelled" ELSE copied[j]]
    /\ worker' = [worker EXCEPT ![s] = [k \in Slots |-> IF @[k] \in RedisJobs THEN "pops" ELSE "ended"]]
    /\ UNCHANGED <<handlers, ran>>

\* The process ends, after shutdown or without it; what it knew of its jobs is gone.
Exits(s) ==
    /\ serving[s] # "gone"
    /\ IF serving[s] = "up" THEN Loses({}) ELSE UNCHANGED missed
    /\ serving' = [serving EXCEPT ![s] = "gone"]
    /\ handlers' = [handlers EXCEPT ![s] = {}]
    /\ worker' = [worker EXCEPT ![s] = [k \in Slots |-> "ended"]]
    /\ UNCHANGED <<waitingIds, entry, copied, ran>>

\* Redis keeps nothing on disk (docker-compose.yml): the list goes, and the cache that is beside it.
RedisForgets ==
    /\ waitingIds # <<>> \/ \E j \in RedisJobs : copied[j] # "none"
    /\ waitingIds' = <<>> /\ Loses(Range(waitingIds))
    /\ copied' = [j \in RedisJobs |-> "none"]
    /\ UNCHANGED <<entry, handlers, worker, serving, ran>>

\* A copy outlives its writing by JOB_RESULT_TTL_SECONDS, whatever the job does.
CopyExpires(j) ==
    /\ copied[j] # "none"
    /\ copied' = [copied EXCEPT ![j] = "none"]
    /\ UNCHANGED <<waitingIds, entry, handlers, worker, serving, ran, missed>>

RedisNext ==
    \/ \E j \in RedisJobs :
          \/ PushLands(j) \/ PushFails(j) \/ CancelJob(j) \/ CopyExpires(j)
          \/ \E s \in Servers : SubmitTo(s, j)
    \/ \E s \in Servers :
          \/ ShutdownRedis(s) \/ Exits(s)
          \/ \E k \in Slots : Pop(s, k) \/ Finishes(s, k)
    \/ RedisForgets

RedisSpec == RedisInit /\ [][RedisNext]_redisVars

\* A server that is up runs its tasks, and its handlers return.
RedisFairness ==
    /\ \A j \in RedisJobs : WF_redisVars(PushLands(j))
    /\ \A s \in Servers, k \in Slots : WF_redisVars(Pop(s, k)) /\ WF_redisVars(Finishes(s, k))
-----------------------------------------------------------------------------
(* Properties.                                                              *)

StaysUp(j) == entry[j].at # NoServer /\ serving[entry[j].at] = "up"

\* A job is begun once at most, however many servers and workers pop from the list.
BegunOnce == \A j \in RedisJobs : ran[j] <= 1

\* A job is running where exactly one worker of its server has it, and no worker has another's.
RunningIsAttended ==
    \A j \in RedisJobs :
        LET having == {sk \in Servers \X Slots : worker[sk[1]][sk[2]] = j} IN
        /\ \A sk \in having : sk[1] = entry[j].at /\ entry[j].status = "running"
        /\ entry[j].status = "running" /\ serving[entry[j].at] # "gone" => Cardinality(having) = 1

\* A job that waits can still be found: it is being pushed or in the list, once, and its server has
\* its handler, unless its id got lost.
PendingIsQueued ==
    \A j \in RedisJobs :
        entry[j].status = "pending" /\ StaysUp(j) /\ j \notin missed.jobs =>
            /\ j \in handlers[entry[j].at]
            /\ entry[j].push # "sending" => Cardinality({i \in DOMAIN waitingIds : waitingIds[i] = j}) = 1

\* What a copy may say of a record: nothing, or what was true of it once, but never an end it had not.
Past(state) ==
    {"none", state} \cup (IF state \in {"running"} \cup Ended THEN {"pending"} ELSE {})
                    \cup (IF state \in Ended THEN {"running"} ELSE {})

\* What the other servers are told of a job is true of it or was; who reads that it succeeded, failed
\* or was cancelled reads how it ended, whatever writes got lost and wherever its server went.
CopiesTellThePast == \A j \in RedisJobs : copied[j] \in Past(entry[j].status)

\* The jobs of several servers that pop from one list.
RedisJobsHold == BegunOnce /\ RunningIsAttended /\ PendingIsQueued /\ CopiesTellThePast

\* A job that is submitted comes to its end, unless its id got lost or its server went.
RedisJobsSettle ==
    \A j \in RedisJobs :
        entry[j].status = "pending" ~> (entry[j].status \in Ended \/ j \in missed.jobs \/ ~StaysUp(j))
=============================================================================
