----------------------------- MODULE Provisioning -----------------------------
(***************************************************************************)
(* How an organisation comes to have models: the first requests of its     *)
(* members insert its row and enqueue a training job in one transaction    *)
(* (ensure_org and current_tenant in auth.py), workers fetch, train and    *)
(* finish jobs (jobs.py), a periodic task queues stalled jobs again, and an *)
(* operator may train by hand (magenta tenant provision).                  *)
(*                                                                         *)
(* The queue is Procrastinate's, in the same database.  What the code      *)
(* relies on is modelled here: a queueing lock is unique among jobs to do,  *)
(* a lock among jobs being done, and a job's status is all the queue knows *)
(* of who is doing it.                                                     *)
(***************************************************************************)
EXTENDS Integers, FiniteSets

CONSTANTS
    Requests, Orgs, Workers, None,
    MaxAttempts,   \* retry=3
    MaxMishaps     \* bound: events that disturb the normal course

ASSUME ProvisioningAssumption ==
    /\ IsFiniteSet(Requests)
    /\ None \notin Requests \cup Orgs \cup Workers
    /\ MaxAttempts \in Nat /\ MaxMishaps \in Nat

VARIABLES
    pc,       \* where each request is in current_tenant
    org,      \* its organisation
    orgs,     \* rows of ORGANIZATIONS
    jobs,     \* rows of procrastinate_jobs, by the request that enqueued them
    stage,    \* what each worker process is doing
    task,     \* the job it has fetched, None when training by hand
    target,   \* the organisation it trains for
    tries,    \* the job's attempts when it was fetched
    alone,    \* has it had its open file to itself?
    together, \* history: organisations that two have trained for at once
    fresh,    \* is its heartbeat recent?
    disk,     \* the organisation's model files
    count     \* of each kind of mishap

request == <<pc, org>>
training == <<stage, task, target, tries, alone, together>>
vars == <<request, orgs, jobs, training, fresh, disk, count>>

-----------------------------------------------------------------------------

Locations == {"idle", "insert", "defer", "commit_new", "commit_old",
              "resolved", "failed"}
Stages == {"idle", "open_risk", "write_risk", "open_uplift", "write_uplift",
           "finish"}
Files == {"risk", "uplift"}
Statuses == {"none", "todo", "doing", "succeeded", "failed", "removed"}
Job == [status : Statuses, attempts : Nat, owner : Workers \cup {None}]
NoJob == [status |-> "none", attempts |-> 0, owner |-> None]

\* A transaction fails, a worker is killed, the heartbeat of a live worker lapses,
\* a training raises, an operator trains by hand.
Mishaps == {"rollback", "death", "lapse", "error", "manual"}

TypeOK ==
    /\ pc \in [Requests -> Locations] /\ org \in [Requests -> Orgs \cup {None}]
    /\ orgs \subseteq Orgs /\ jobs \in [Requests -> Job]
    /\ stage \in [Workers -> Stages]
    /\ task \in [Workers -> Requests \cup {None}]
    /\ target \in [Workers -> Orgs \cup {None}]
    /\ tries \in [Workers -> Nat]
    /\ alone \in [Workers -> BOOLEAN] /\ together \subseteq Orgs
    /\ fresh \in [Workers -> BOOLEAN]
    /\ disk \in [Orgs -> [Files -> {"missing", "torn", "saved"}]]
    /\ count \in [Mishaps -> Nat]

Once(mishap) ==
    /\ count["rollback"] + count["death"] + count["lapse"] + count["error"]
          + count["manual"] < MaxMishaps
    /\ count' = [count EXCEPT ![mishap] = @ + 1]

-----------------------------------------------------------------------------
(* A request: one transaction *)

At(r, loc) == pc[r] = loc
Goto(r, loc) == pc' = [pc EXCEPT ![r] = loc]

\* Transactions that have inserted a row and not yet committed.
Holds(r) == pc[r] \in {"defer", "commit_new"}

Arrive(r) ==
    /\ At(r, "idle")
    /\ \E o \in Orgs : org' = [org EXCEPT ![r] = o]
    /\ Goto(r, "insert")
    /\ UNCHANGED <<orgs, jobs, training, fresh, disk, count>>

InsertAndCommit(r) ==         \* variant: the row is committed before the job
    /\ At(r, "insert") /\ \A q \in Requests : Holds(q) => org[q] # org[r]
    /\ Goto(r, IF org[r] \in orgs THEN "commit_old" ELSE "defer")
    /\ orgs' = orgs \cup {org[r]}
    /\ UNCHANGED <<org, jobs, training, fresh, disk, count>>

\* INSERT ... ON CONFLICT DO NOTHING waits for an uncommitted row of the same
\* key; rowcount is 1 when there is none in the end.
Insert(r) ==
    /\ At(r, "insert") /\ \A q \in Requests : Holds(q) => org[q] # org[r]
    /\ Goto(r, IF org[r] \in orgs THEN "commit_old" ELSE "defer")
    /\ UNCHANGED <<org, orgs, jobs, training, fresh, disk, count>>

QueueingLockOfTask(o) == "train_tenant_models"  \* variant: the task's default

\* queueing_lock=org_id
QueueingLock(o) == o

Enqueued(lock) ==
    \E q \in Requests : jobs[q].status = "todo" /\ QueueingLock(org[q]) = lock

\* train_tenant_models_job.defer; AlreadyEnqueued ends the request.
Defer(r) ==
    /\ At(r, "defer")
    /\ Goto(r, IF Enqueued(QueueingLock(org[r])) THEN "failed" ELSE "commit_new")
    /\ UNCHANGED <<org, orgs, jobs, training, fresh, disk, count>>

Commit(r) ==
    /\ \/ /\ At(r, "commit_new")
          /\ orgs' = orgs \cup {org[r]}
          /\ jobs' = [jobs EXCEPT ![r] = [NoJob EXCEPT !.status = "todo"]]
       \/ At(r, "commit_old") /\ UNCHANGED <<orgs, jobs>>
    /\ Goto(r, "resolved")
    /\ UNCHANGED <<org, training, fresh, disk, count>>

\* The connection or the process is lost before the commit.
Rollback(r) ==
    /\ Once("rollback")
    /\ pc[r] \in {"insert", "defer", "commit_new", "commit_old"}
    /\ Goto(r, "failed")
    /\ UNCHANGED <<org, orgs, jobs, training, fresh, disk>>

-----------------------------------------------------------------------------
(* Worker processes.  The periodic task runs on a worker that is idle:     *)
(* a worker has one job at a time.                                         *)

Idle(w) == stage[w] = "idle"
Move(w, s) == stage' = [stage EXCEPT ![w] = s]

\* Who trains for an organisation, on a job or by hand.
TrainersOf(o) == {w \in Workers : ~Idle(w) /\ target[w] = o}

\* train_tenant_models is called.
Start(w, o) ==
    /\ Idle(w)
    /\ Move(w, "open_risk")
    /\ target' = [target EXCEPT ![w] = o]
    /\ together' = IF TrainersOf(o) = {} THEN together ELSE together \cup {o}

\* The training is over and its locals with it.
Rest(w) ==
    /\ Move(w, "idle")
    /\ task' = [task EXCEPT ![w] = None] /\ target' = [target EXCEPT ![w] = None]
    /\ tries' = [tries EXCEPT ![w] = 0] /\ alone' = [alone EXCEPT ![w] = FALSE]
    /\ UNCHANGED together

\* lock=org_id: no other job of the organisation is being done.
LockIsFree(o) == \A q \in Requests : ~(jobs[q].status = "doing" /\ org[q] = o)

Fetch(w, r) ==
    /\ jobs[r].status = "todo" /\ LockIsFree(org[r])
    /\ jobs' = [jobs EXCEPT ![r].status = "doing", ![r].owner = w]
    /\ Start(w, org[r])
    /\ task' = [task EXCEPT ![w] = r]
    /\ tries' = [tries EXCEPT ![w] = jobs[r].attempts]
    /\ UNCHANGED <<request, orgs, alone, fresh, disk, count>>

\* magenta tenant provision, in a process of its own, past the queue.
Provision(w, o) ==
    /\ Once("manual")
    /\ Start(w, o)
    /\ UNCHANGED <<request, orgs, jobs, task, tries, alone, fresh, disk>>

\* joblib.dump opens the live file, which empties it under any other writer; from
\* then on neither has it to itself.
Open(w, at, file, next) ==
    LET others == {v \in TrainersOf(target[w]) \ {w} : stage[v] = next}
    IN /\ stage[w] = at
       /\ Move(w, next)
       /\ disk' = [disk EXCEPT ![target[w]][file] = "torn"]
       /\ alone' = [v \in Workers |-> IF v = w THEN others = {} ELSE alone[v] /\ v \notin others]
       /\ UNCHANGED <<request, orgs, jobs, task, target, tries, together, fresh, count>>

\* It has written all.  Each writer writes from the beginning, at its own pace and
\* not the same bytes (tenant provision's --n, LightGBM's threads), so what two have
\* written at once may be whole or not; which, is settled as they close it.
Close(w, at, file, next) ==
    /\ stage[w] = at
    /\ Move(w, next)
    /\ \E mark \in (IF alone[w] THEN {"saved"} ELSE {"saved", "torn"}) :
          disk' = [disk EXCEPT ![target[w]][file] = mark]
    /\ alone' = [alone EXCEPT ![w] = FALSE]
    /\ UNCHANGED <<request, orgs, jobs, task, target, tries, together, fresh, count>>

TrainRiskOnly(w) ==           \* variant: the uplift model is forgotten
    \/ Open(w, "open_risk", "risk", "write_risk")
    \/ Close(w, "write_risk", "risk", "finish")

\* train_tenant_models
Train(w) ==
    \/ Open(w, "open_risk", "risk", "write_risk")
    \/ Close(w, "write_risk", "risk", "open_uplift")
    \/ Open(w, "open_uplift", "uplift", "write_uplift")
    \/ Close(w, "write_uplift", "uplift", "finish")

Pending(r) == jobs[r].status \in {"todo", "doing"}
EndJob(r, s) == jobs' = [jobs EXCEPT ![r].status = s, ![r].owner = None]
RequeueUncounted(r) ==        \* variant: the attempt is taken back
    jobs' = [jobs EXCEPT ![r] = [status |-> "todo", attempts |-> @.attempts - 1,
                                 owner |-> None]]
Requeue(r) ==
    jobs' = [jobs EXCEPT ![r] = [status |-> "todo", attempts |-> @.attempts + 1,
                                 owner |-> None]]

\* The job is marked done, whoever the queue thinks is doing it.
Finish(w) ==
    /\ stage[w] = "finish"
    /\ IF task[w] # None /\ Pending(task[w])
       THEN EndJob(task[w], "succeeded") ELSE UNCHANGED jobs
    /\ Rest(w)
    /\ UNCHANGED <<request, orgs, fresh, disk, count>>

\* The training raises: retry=3, then the job has failed; a job that was queued
\* again meanwhile is not queued once more.
Raise(w) ==
    /\ Once("error")
    /\ stage[w] \notin {"idle", "finish"}
    /\ \/ task[w] = None /\ UNCHANGED jobs
       \/ /\ task[w] # None /\ tries[w] < MaxAttempts
          /\ IF jobs[task[w]].status = "doing"
             THEN Requeue(task[w]) ELSE UNCHANGED jobs
       \/ /\ task[w] # None /\ tries[w] >= MaxAttempts
          /\ IF Pending(task[w])
             THEN EndJob(task[w], "failed") ELSE UNCHANGED jobs
    /\ Rest(w)
    /\ UNCHANGED <<request, orgs, fresh, disk>>

\* Killed by a deploy or the OOM killer; the supervisor starts a new process.
Die(w) ==
    /\ Once("death")
    /\ ~Idle(w)
    /\ Rest(w)
    /\ jobs' = [r \in Requests |->
                   IF jobs[r].owner = w THEN [jobs[r] EXCEPT !.owner = None] ELSE jobs[r]]
    /\ fresh' = [fresh EXCEPT ![w] = TRUE]
    /\ UNCHANGED <<request, orgs, disk>>

\* The heartbeat of a live worker is late, then back.
Lapse(w) ==
    /\ Once("lapse")
    /\ ~Idle(w) /\ fresh[w]
    /\ fresh' = [fresh EXCEPT ![w] = FALSE]
    /\ UNCHANGED <<request, orgs, jobs, training, disk>>

Beat(w) ==
    /\ ~fresh[w]
    /\ fresh' = [fresh EXCEPT ![w] = TRUE]
    /\ UNCHANGED <<request, orgs, jobs, training, disk, count>>

NeverStalled(r) == FALSE      \* variant: the periodic task is not registered

DoingIsStalled(r) ==          \* variant: heartbeats are not looked at
    jobs[r].status = "doing"

\* get_stalled_jobs: being done by a worker without a heartbeat.
Stalled(r) ==
    /\ jobs[r].status = "doing"
    /\ jobs[r].owner # None => ~fresh[jobs[r].owner]

\* retry_stalled_jobs, on an idle worker.
RetryStalled(r) ==
    /\ \E w \in Workers : Idle(w)
    /\ Stalled(r)
    /\ Requeue(r)
    /\ UNCHANGED <<request, orgs, training, fresh, disk, count>>

\* remove_old_jobs
RemoveOld(r) ==
    /\ \E w \in Workers : Idle(w)
    /\ jobs[r].status \in {"succeeded", "failed"}
    /\ EndJob(r, "removed")
    /\ UNCHANGED <<request, orgs, training, fresh, disk, count>>

-----------------------------------------------------------------------------

Init ==
    /\ pc = [r \in Requests |-> "idle"] /\ org = [r \in Requests |-> None]
    /\ orgs = {} /\ jobs = [r \in Requests |-> NoJob]
    /\ stage = [w \in Workers |-> "idle"] /\ task = [w \in Workers |-> None]
    /\ target = [w \in Workers |-> None] /\ tries = [w \in Workers |-> 0]
    /\ alone = [w \in Workers |-> FALSE] /\ together = {}
    /\ fresh = [w \in Workers |-> TRUE]
    /\ disk = [o \in Orgs |-> [f \in Files |-> "missing"]]
    /\ count = [m \in Mishaps |-> 0]

RequestStep(r) == Arrive(r) \/ Insert(r) \/ Defer(r) \/ Commit(r) \/ Rollback(r)
Work(w) == (\E r \in Requests : Fetch(w, r)) \/ Train(w) \/ Finish(w)
Mishap(w) == Raise(w) \/ Die(w) \/ Lapse(w)

Next ==
    \/ \E r \in Requests : RequestStep(r) \/ RetryStalled(r) \/ RemoveOld(r)
    \/ \E w \in Workers : Work(w) \/ Mishap(w) \/ Beat(w)
    \/ \E w \in Workers, o \in Orgs : Provision(w, o)

Spec == Init /\ [][Next]_vars

\* The worker service runs (its supervisor restarts it) and so does its
\* periodic task; a live worker's heartbeat comes back.
FairSpec ==
    /\ Spec
    /\ \A w \in Workers : WF_vars(Work(w)) /\ WF_vars(Beat(w))
    /\ \A r \in Requests : WF_vars(RetryStalled(r))

-----------------------------------------------------------------------------
(* Safety *)

\* auth.py:115: an organisation has a row exactly if one job was enqueued for
\* it, whatever first requests overlap, wait, fail or come again.
OneJobPerOrg ==
    \A o \in Orgs :
        LET enqueuers == {r \in Requests : org[r] = o /\ jobs[r].status # "none"}
        IN /\ o \in orgs <=> enqueuers # {}
           /\ \A q, r \in enqueuers : q = r

\* auth.py:127: two organisations that sign up at the same time do not raise
\* AlreadyEnqueued, nor do two members of one.
NeverAlreadyEnqueued ==
    \A r \in Requests : At(r, "defer") => ~Enqueued(QueueingLock(org[r]))

Trained(o) == \A f \in Files : disk[o][f] = "saved"
Undisturbed == count["lapse"] = 0 /\ count["manual"] = 0
Uninterrupted == count["death"] = 0 /\ count["error"] = 0

\* A training by hand that is cut short leaves torn what a job had saved.
NoneByHandCut == count["manual"] = 0 \/ Uninterrupted

\* jobs.py:72, auth.py:134: a job that the queue calls succeeded has left both models
\* whole on the disk, or somebody is about to, whatever workers die, raise or seem
\* dead, unless two have trained for the organisation at once (their files may be
\* torn for good) or a training by hand was cut short.
DoneMeansTrained ==
    NoneByHandCut =>
        \A r \in Requests : jobs[r].status = "succeeded" =>
            org[r] \in together \/ Trained(org[r]) \/ TrainersOf(org[r]) # {}

\* auth.py:131: the lock does serve when no heartbeat lapses: as long as nobody
\* trains by hand, no two workers train one organisation.
TrainsAlone ==
    Undisturbed => \A o \in Orgs : \A v, w \in TrainersOf(o) : v = w

-----------------------------------------------------------------------------
(* Liveness, under FairSpec. *)

\* test_jobs.py:98: a worker killed mid-training does not leave the organisation
\* without models; only a job out of retries does, or an exception of
\* DoneMeansTrained.
Provisioned ==
    \A r \in Requests :
        jobs[r].status = "todo" ~>
            \/ jobs[r].status = "failed"
            \/ org[r] \in orgs /\ Trained(org[r])
            \/ org[r] \in together \/ ~NoneByHandCut

-----------------------------------------------------------------------------
(* What the repository says and the code does not do. *)

\* auth.py:131: with lock=org_id a stalled-job retry of a worker that only
\* looked dead does not have two workers train the same organisation.
OneTrainerPerOrg ==
    count["manual"] = 0 => \A o \in Orgs : \A v, w \in TrainersOf(o) : v = w
=============================================================================
