------------------------- MODULE Provisioning_proofs -------------------------
(***************************************************************************)
(* Proofs about Provisioning, for every set of requests, organisations and *)
(* workers, every number of retries and any number of mishaps.             *)
(***************************************************************************)
EXTENDS Provisioning, TLAPS

-----------------------------------------------------------------------------
(* Types *)

LEMMA OnceType ==
    ASSUME NEW mishap \in Mishaps, count \in [Mishaps -> Nat], Once(mishap)
    PROVE  count' \in [Mishaps -> Nat]
BY DEF Once

\* What becomes of a job keeps the type of the table.
LEMMA JobsType ==
    ASSUME jobs \in [Requests -> Job], NEW r \in Requests,
           NEW s \in Statuses
    PROVE  /\ Requeue(r) => jobs' \in [Requests -> Job]
           /\ EndJob(r, s) => jobs' \in [Requests -> Job]
BY DEF Requeue, EndJob, Job, Statuses

LEMMA DoingType ==
    ASSUME jobs \in [Requests -> Job], NEW r \in Requests, NEW w \in Workers
    PROVE  [jobs EXCEPT ![r].status = "doing", ![r].owner = w] \in [Requests -> Job]
BY DEF Job, Statuses

LEMMA RestType ==
    ASSUME TypeOK, NEW w \in Workers, Rest(w)
    PROVE  /\ stage' \in [Workers -> Stages]
           /\ task' \in [Workers -> Requests \cup {None}]
           /\ target' \in [Workers -> Orgs \cup {None}]
           /\ tries' \in [Workers -> Nat]
           /\ alone' \in [Workers -> BOOLEAN] /\ together' \subseteq Orgs
BY DEF TypeOK, Rest, Move, Stages

LEMMA StartType ==
    ASSUME TypeOK, NEW w \in Workers, NEW o, o \in Orgs, Start(w, o)
    PROVE  /\ stage' \in [Workers -> Stages]
           /\ target' \in [Workers -> Orgs \cup {None}]
           /\ together' \subseteq Orgs
BY DEF TypeOK, Start, Move, Stages

-----------------------------------------------------------------------------
(* The inductive invariant.  What makes OneJobPerOrg true of a new row is     *)
(* where the transactions are: those past the INSERT and not yet committed   *)
(* are of organisations without a row, no two of one organisation; and only  *)
(* a committed transaction has a job.                                        *)

RequestInv ==
    /\ \A r \in Requests : pc[r] # "idle" => org[r] \in Orgs
    /\ \A r \in Requests : jobs[r].status # "none" => pc[r] = "resolved"
    /\ \A r \in Requests : Holds(r) => org[r] \notin orgs
    /\ \A q, r \in Requests : Holds(q) /\ Holds(r) /\ org[q] = org[r] => q = r

\* OneJobPerOrg without LET.
JobInv ==
    /\ \A r \in Requests : jobs[r].status # "none" => org[r] \in orgs
    /\ \A o \in orgs : \E r \in Requests : org[r] = o /\ jobs[r].status # "none"
    /\ \A q, r \in Requests :
          /\ jobs[q].status # "none" /\ jobs[r].status # "none"
          /\ org[q] = org[r]
          => q = r

ProvisioningInv == TypeOK /\ RequestInv /\ JobInv

LEMMA InvImplies == ProvisioningInv => OneJobPerOrg /\ NeverAlreadyEnqueued
<1> SUFFICES ASSUME ProvisioningInv PROVE OneJobPerOrg /\ NeverAlreadyEnqueued
  OBVIOUS
<1>1. OneJobPerOrg
  BY DEF ProvisioningInv, TypeOK, RequestInv, JobInv, OneJobPerOrg
<1>2. ASSUME NEW r \in Requests, At(r, "defer"),
             NEW q \in Requests, jobs[q].status = "todo", org[q] = org[r]
      PROVE  FALSE
  BY <1>2 DEF ProvisioningInv, RequestInv, JobInv, Holds, At
<1> QED
  BY <1>1, <1>2 DEF NeverAlreadyEnqueued, Enqueued, QueueingLock

LEMMA InvInit == Init => ProvisioningInv
<1> SUFFICES ASSUME Init PROVE ProvisioningInv
  OBVIOUS
<1>1. TypeOK
  BY DEF Init, TypeOK, Job, NoJob, Statuses, Locations, Stages
<1> QED
  BY <1>1 DEF Init, ProvisioningInv, RequestInv, JobInv, NoJob, Holds

-----------------------------------------------------------------------------
(* Requests *)

LEMMA RequestType ==
    ASSUME ProvisioningInv, NEW r \in Requests, RequestStep(r)
    PROVE  TypeOK'
<1> USE DEF ProvisioningInv, TypeOK, At, Goto, Locations
<1>1. CASE Arrive(r)
  BY <1>1 DEF Arrive, training
<1>2. CASE Insert(r)
  BY <1>2 DEF Insert, training
<1>3. CASE Defer(r)
  BY <1>3 DEF Defer, training
<1>4. CASE Commit(r)
  <2>1. org[r] \in Orgs
    BY <1>4 DEF Commit, RequestInv
  <2>2. [NoJob EXCEPT !.status = "todo"] \in Job
    BY DEF Job, NoJob, Statuses
  <2> QED
    BY <1>4, <2>1, <2>2 DEF Commit, training
<1>5. CASE Rollback(r)
  BY <1>5, OnceType DEF Rollback, training, Mishaps
<1> QED
  BY <1>1, <1>2, <1>3, <1>4, <1>5 DEF RequestStep

LEMMA RequestKeeps ==
    ASSUME ProvisioningInv, NEW r \in Requests, RequestStep(r)
    PROVE  RequestInv' /\ JobInv'
<1> USE DEF ProvisioningInv, TypeOK, At, Goto
<1>1. CASE Arrive(r)
  <2>1. jobs[r].status = "none"
    BY <1>1 DEF Arrive, RequestInv
  <2>2. RequestInv'
    BY <1>1, <2>1 DEF Arrive, RequestInv, Holds
  <2> QED
    BY <1>1, <2>1, <2>2 DEF Arrive, JobInv
<1>2. CASE Insert(r)
  BY <1>2 DEF Insert, RequestInv, JobInv, Holds
<1>3. CASE Defer(r)
  BY <1>3 DEF Defer, RequestInv, JobInv, Holds
<1>4. CASE Commit(r)
  <2>1. CASE At(r, "commit_new")
    <3>1. org[r] \notin orgs /\ Holds(r)
      BY <2>1 DEF RequestInv, Holds
    <3>2. /\ orgs' = orgs \cup {org[r]} /\ org' = org
          /\ jobs'[r].status = "todo"
          /\ \A q \in Requests \ {r} : jobs'[q] = jobs[q] /\ pc'[q] = pc[q]
          /\ pc'[r] = "resolved"
      BY <1>4, <2>1 DEF Commit, NoJob
    <3>3. RequestInv'
      BY <3>1, <3>2 DEF RequestInv, Holds
    <3>4. \A q \in Requests \ {r} : jobs[q].status # "none" => org[q] # org[r]
      BY <3>1 DEF JobInv
    <3>5. \A q \in Requests : jobs'[q].status # "none" => org'[q] \in orgs'
      BY <3>2 DEF JobInv
    <3>6. \A o \in orgs' : \E q \in Requests : org'[q] = o /\ jobs'[q].status # "none"
      BY <3>1, <3>2 DEF JobInv
    <3>7. ASSUME NEW p \in Requests, NEW q \in Requests, jobs'[p].status # "none",
                 jobs'[q].status # "none", org'[p] = org'[q]
          PROVE  p = q
      BY <3>2, <3>4, <3>7 DEF JobInv
    <3> QED
      BY <3>3, <3>5, <3>6, <3>7 DEF JobInv
  <2>2. CASE At(r, "commit_old")
    BY <1>4, <2>2 DEF Commit, RequestInv, JobInv, Holds
  <2> QED
    BY <1>4, <2>1, <2>2 DEF Commit
<1>5. CASE Rollback(r)
  BY <1>5 DEF Rollback, RequestInv, JobInv, Holds
<1> QED
  BY <1>1, <1>2, <1>3, <1>4, <1>5 DEF RequestStep

-----------------------------------------------------------------------------
(* What a training that raised does to its job. *)

LEMMA RaiseJobs ==
    ASSUME TypeOK, NEW w \in Workers, Raise(w)
    PROVE  \/ UNCHANGED jobs
           \/ \E r \in Requests :
                 Pending(r) /\ (Requeue(r) \/ EndJob(r, "failed"))
<1>1. tries[w] \in Nat /\ MaxAttempts \in Nat
  BY ProvisioningAssumption DEF TypeOK
<1>2. CASE task[w] = None
  BY <1>2 DEF Raise
<1>3. CASE task[w] # None
  <2>1. task[w] \in Requests
    BY <1>3 DEF TypeOK
  <2>2. CASE tries[w] < MaxAttempts
    BY <1>3, <2>1, <2>2 DEF Raise, Pending
  <2>3. CASE tries[w] >= MaxAttempts
    <3>1. ~(tries[w] < MaxAttempts)
      BY <1>1, <2>3
    <3> QED BY <1>3, <2>1, <2>3, <3>1 DEF Raise
  <2> QED BY <1>1, <2>2, <2>3
<1> QED BY <1>2, <1>3

-----------------------------------------------------------------------------
(* Workers and the periodic tasks: no step of theirs makes a job or loses one. *)

JobsStay ==
    /\ UNCHANGED <<request, orgs>>
    /\ \A r \in Requests : jobs'[r].status = "none" <=> jobs[r].status = "none"

LEMMA JobsStayKeeps ==
    ASSUME RequestInv, JobInv, JobsStay
    PROVE  RequestInv' /\ JobInv'
BY DEF RequestInv, JobInv, JobsStay, Holds, request

LEMMA WorkType ==
    ASSUME ProvisioningInv, NEW w \in Workers,
           Work(w) \/ Mishap(w) \/ Beat(w) \/ \E o \in Orgs : Provision(w, o)
    PROVE  TypeOK'
<1> USE DEF ProvisioningInv, TypeOK, request
<1>1. ASSUME NEW r \in Requests, Fetch(w, r) PROVE TypeOK'
  <2>1. org[r] \in Orgs /\ jobs[r].attempts \in Nat
    BY <1>1 DEF Fetch, Job, RequestInv
  <2>2. jobs' \in [Requests -> Job]
    BY <1>1, DoingType DEF Fetch
  <2> QED
    BY <1>1, <2>1, <2>2, StartType DEF Fetch
<1>2. ASSUME NEW at, NEW file \in Files, NEW next \in Stages,
             Open(w, at, file, next) \/ Close(w, at, file, next)
      PROVE  TypeOK'
  <2>1. \A mark \in {"missing", "torn", "saved"} :
           [disk EXCEPT ![target[w]][file] = mark]
              \in [Orgs -> [Files -> {"missing", "torn", "saved"}]]
    OBVIOUS
  <2>2. stage' \in [Workers -> Stages]
    BY <1>2 DEF Open, Close, Move
  <2>3. CASE Open(w, at, file, next)
    <3>1. disk' \in [Orgs -> [Files -> {"missing", "torn", "saved"}]]
      BY <2>1, <2>3 DEF Open
    <3>2. alone' \in [Workers -> BOOLEAN]
      BY <2>3, Zenon DEF Open
    <3> QED BY <2>2, <2>3, <3>1, <3>2 DEF Open
  <2>4. CASE Close(w, at, file, next)
    <3>1. disk' \in [Orgs -> [Files -> {"missing", "torn", "saved"}]]
      BY <2>1, <2>4 DEF Close
    <3> QED BY <2>2, <2>4, <3>1 DEF Close
  <2> QED BY <1>2, <2>3, <2>4
<1>3. CASE Train(w)
  BY <1>2, <1>3 DEF Train, Files, Stages
<1>4. CASE Finish(w)
  <2>1. jobs' \in [Requests -> Job]
    BY <1>4, JobsType DEF Finish, Pending, Statuses
  <2> QED BY <1>4, <2>1, RestType DEF Finish
<1>5. CASE Raise(w)
  <2>1. jobs' \in [Requests -> Job]
    BY <1>5, JobsType, RaiseJobs DEF Statuses
  <2> QED BY <1>5, <2>1, RestType, OnceType DEF Raise, Mishaps
<1>6. CASE Die(w)
  <2>1. jobs' \in [Requests -> Job]
    BY <1>6 DEF Die, Job
  <2> QED BY <1>6, <2>1, RestType, OnceType DEF Die, Mishaps
<1>7. CASE Lapse(w)
  BY <1>7, OnceType DEF Lapse, Mishaps, training
<1>8. CASE Beat(w)
  BY <1>8 DEF Beat, training
<1>9. ASSUME NEW o \in Orgs, Provision(w, o) PROVE TypeOK'
  BY <1>9, OnceType, StartType DEF Provision, Mishaps
<1> QED
  BY <1>1, <1>3, <1>4, <1>5, <1>6, <1>7, <1>8, <1>9 DEF Work, Mishap

LEMMA WorkStays ==
    ASSUME ProvisioningInv, NEW w \in Workers,
           Work(w) \/ Mishap(w) \/ Beat(w) \/ \E o \in Orgs : Provision(w, o)
    PROVE  JobsStay
<1> USE DEF ProvisioningInv, TypeOK, JobsStay, Job
<1>1. ASSUME NEW r \in Requests, Fetch(w, r) PROVE JobsStay
  BY <1>1 DEF Fetch
<1>2. ASSUME NEW r \in Requests, Pending(r), NEW s \in Statuses \ {"none"},
             Requeue(r) \/ EndJob(r, s), UNCHANGED <<request, orgs>>
      PROVE  JobsStay
  BY <1>2 DEF Pending, Requeue, EndJob
<1>3. CASE Train(w)
  BY <1>3 DEF Train, Open, Close
<1>4. CASE Finish(w)
  <2>1. CASE UNCHANGED jobs
    BY <1>4, <2>1 DEF Finish
  <2>2. CASE ~UNCHANGED jobs
    <3>1. /\ task[w] \in Requests /\ Pending(task[w])
          /\ EndJob(task[w], "succeeded") /\ UNCHANGED <<request, orgs>>
      BY <1>4, <2>2 DEF Finish
    <3> QED BY <1>2, <3>1 DEF Statuses
  <2> QED BY <2>1, <2>2
<1>5. CASE Raise(w)
  BY <1>2, <1>5, RaiseJobs DEF Raise, Statuses
<1>6. CASE Die(w)
  BY <1>6 DEF Die
<1>7. CASE Lapse(w) \/ Beat(w) \/ \E o \in Orgs : Provision(w, o)
  BY <1>7 DEF Lapse, Beat, Provision
<1> QED
  BY <1>1, <1>3, <1>4, <1>5, <1>6, <1>7 DEF Work, Mishap

LEMMA PeriodicKeeps ==
    ASSUME ProvisioningInv, NEW r \in Requests, RetryStalled(r) \/ RemoveOld(r)
    PROVE  TypeOK' /\ JobsStay
<1> USE DEF ProvisioningInv, TypeOK, request
<1>1. CASE RetryStalled(r)
  <2>1. jobs' \in [Requests -> Job]
    BY <1>1, JobsType DEF RetryStalled, Statuses
  <2>2. JobsStay
    BY <1>1 DEF RetryStalled, Stalled, Requeue, JobsStay, Job
  <2> QED BY <1>1, <2>1, <2>2 DEF RetryStalled, training
<1>2. CASE RemoveOld(r)
  <2>1. jobs' \in [Requests -> Job]
    BY <1>2, JobsType DEF RemoveOld, Statuses
  <2>2. JobsStay
    BY <1>2 DEF RemoveOld, EndJob, JobsStay, Job
  <2> QED BY <1>2, <2>1, <2>2 DEF RemoveOld, training
<1> QED BY <1>1, <1>2

LEMMA InvNext == ProvisioningInv /\ [Next]_vars => ProvisioningInv'
<1> SUFFICES ASSUME ProvisioningInv, [Next]_vars PROVE ProvisioningInv'
  OBVIOUS
<1>1. ASSUME NEW r \in Requests, RequestStep(r) PROVE ProvisioningInv'
  BY <1>1, RequestType, RequestKeeps DEF ProvisioningInv
<1>2. ASSUME NEW r \in Requests, RetryStalled(r) \/ RemoveOld(r)
      PROVE  ProvisioningInv'
  BY <1>2, PeriodicKeeps, JobsStayKeeps DEF ProvisioningInv
<1>3. ASSUME NEW w \in Workers,
             Work(w) \/ Mishap(w) \/ Beat(w) \/ \E o \in Orgs : Provision(w, o)
      PROVE  ProvisioningInv'
  BY <1>3, WorkType, WorkStays, JobsStayKeeps DEF ProvisioningInv
<1>4. CASE UNCHANGED vars
  BY <1>4 DEF vars, request, training, ProvisioningInv, TypeOK, RequestInv,
              JobInv, Holds
<1> QED
  BY <1>1, <1>2, <1>3, <1>4 DEF Next

-----------------------------------------------------------------------------
(* Trainings.  As long as no two have trained for an organisation at once, its *)
(* trainer is alone with its files and its job; what it has closed is saved,   *)
(* so its end leaves both files saved.  That nobody trains beside it when no    *)
(* heartbeat lapses is a matter of who owns a job.                            *)

Writing(f) == IF f = "risk" THEN "write_risk" ELSE "write_uplift"
Past(f) == IF f = "risk" THEN {"open_uplift", "write_uplift", "finish"} ELSE {"finish"}

TaskInv ==
    \A w \in Workers :
        /\ Idle(w) => task[w] = None
        /\ ~Idle(w) =>
              /\ target[w] \in Orgs
              /\ task[w] # None => /\ jobs[task[w]].status # "none"
                                   /\ target[w] = org[task[w]]
              /\ task[w] = None => count["manual"] # 0

AloneInv ==
    \A v, w \in Workers :
        v # w /\ ~Idle(v) /\ ~Idle(w) /\ target[v] = target[w] => target[w] \in together

\* A job that is trained for is not called done by anybody else.
JobOpenInv ==
    \A w \in Workers :
        ~Idle(w) /\ task[w] # None => Pending(task[w]) \/ target[w] \in together

FilesInv ==
    \A w \in Workers, f \in Files : ~Idle(w) =>
        \/ target[w] \in together
        \/ /\ stage[w] = Writing(f) => alone[w]
           /\ stage[w] \in Past(f) => disk[target[w]][f] = "saved"

DoneInv ==
    NoneByHandCut =>
        \A r \in Requests : jobs[r].status = "succeeded" =>
            org[r] \in together \/ Trained(org[r]) \/ TrainersOf(org[r]) # {}

OwnerInv ==
    \A w \in Workers :
        /\ fresh[w]
        /\ ~Idle(w) => /\ task[w] # None /\ jobs[task[w]].status = "doing"
                       /\ jobs[task[w]].owner = w

TrainingInv ==
    /\ TaskInv /\ AloneInv /\ JobOpenInv /\ FilesInv /\ DoneInv
    /\ Undisturbed => OwnerInv

\* Mishaps are only ever added to.
LEMMA CountsGrow ==
    ASSUME ProvisioningInv, Next
    PROVE  /\ Undisturbed' => Undisturbed
           /\ NoneByHandCut' => NoneByHandCut
           /\ count["manual"] # 0 => count'["manual"] # 0
<1>1. UNCHANGED count \/ \E m \in Mishaps : Once(m)
  BY DEF Next, RequestStep, Arrive, Insert, Defer, Commit, Rollback, Work, Fetch, Train, Open,
         Close, Finish, Mishap, Raise, Die, Lapse, Beat, Provision, RetryStalled, RemoveOld,
         Mishaps
<1>2. CASE UNCHANGED count
  BY <1>2 DEF Undisturbed, Uninterrupted, NoneByHandCut
<1>3. ASSUME NEW m \in Mishaps, Once(m), NEW k \in Mishaps, count'[k] = 0
      PROVE  count[k] = 0
  <2>1. count \in [Mishaps -> Nat] /\ count' = [count EXCEPT ![m] = count[m] + 1]
    BY <1>3 DEF Once, ProvisioningInv, TypeOK
  <2>2. CASE k = m
    <3>1. count[k] + 1 = 0 /\ count[k] \in Nat
      BY <1>3, <2>1, <2>2
    <3> QED BY ONLY <3>1
  <2> QED BY <1>3, <2>1, <2>2
<1>4. "manual" \in Mishaps /\ "lapse" \in Mishaps /\ "death" \in Mishaps /\ "error" \in Mishaps
  BY DEF Mishaps
<1> QED BY <1>1, <1>2, <1>3, <1>4 DEF Undisturbed, Uninterrupted, NoneByHandCut

\* A mishap that is of the one kind or the other has been counted.
LEMMA OnceCounted ==
    ASSUME count \in [Mishaps -> Nat], NEW m \in Mishaps, Once(m)
    PROVE  count'[m] # 0
<1>1. count'[m] = count[m] + 1 /\ count[m] \in Nat
  BY DEF Once
<1> QED BY ONLY <1>1

\* As long as every job has the owner that trains, no two train for one
\* organisation.
LEMMA OwnersAreAlone ==
    ASSUME ProvisioningInv, TaskInv, OwnerInv, NEW v \in Workers, NEW w \in Workers,
           ~Idle(v), ~Idle(w), target[v] = target[w]
    PROVE  v = w
<1>1. \A u \in {v, w} :
         /\ task[u] \in Requests /\ jobs[task[u]].status = "doing"
         /\ jobs[task[u]].owner = u /\ target[u] = org[task[u]]
  BY DEF OwnerInv, TaskInv, ProvisioningInv, TypeOK
<1>2. task[v] = task[w]
  BY <1>1 DEF ProvisioningInv, JobInv
<1> QED BY <1>1, <1>2

LEMMA TrainingImplies ==
    ProvisioningInv /\ TrainingInv => DoneMeansTrained /\ TrainsAlone
<1> SUFFICES ASSUME ProvisioningInv, TrainingInv PROVE DoneMeansTrained /\ TrainsAlone
  OBVIOUS
<1>1. DoneMeansTrained
  BY DEF TrainingInv, DoneMeansTrained, DoneInv
<1>2. TrainsAlone
  BY OwnersAreAlone DEF TrainingInv, TrainsAlone, TrainersOf
<1> QED BY <1>1, <1>2

LEMMA TrainingInit == Init => TrainingInv
BY DEF Init, TrainingInv, TaskInv, AloneInv, JobOpenInv, FilesInv, DoneInv, OwnerInv, Idle, NoJob

-----------------------------------------------------------------------------
(* Steps that leave the trainers where they are: requests, periodic tasks. *)

\* What such a step may do to the jobs: a job that somebody owns, or that has
\* succeeded, stays as it is; no job succeeds, none that is open is closed.
LEMMA JobsAside ==
    ASSUME ProvisioningInv, TrainingInv, Next, UNCHANGED <<training, disk>>,
           \A w \in Workers : Undisturbed' => fresh'[w],
           \A q \in Requests :
               /\ jobs[q].status # "none" => jobs'[q].status # "none" /\ org'[q] = org[q]
               /\ Pending(q) => Pending(q)'
               /\ jobs[q].status = "doing" /\ jobs[q].owner # None /\ Undisturbed
                     => jobs'[q] = jobs[q]
               /\ jobs'[q].status = "succeeded" => jobs[q].status = "succeeded"
    PROVE  TrainingInv'
<1> USE DEF ProvisioningInv, TypeOK, training, Idle
<1>1. TaskInv'
  BY CountsGrow DEF TrainingInv, TaskInv
<1>2. AloneInv' /\ FilesInv'
  BY DEF TrainingInv, AloneInv, FilesInv
<1>3. JobOpenInv'
  BY DEF TrainingInv, JobOpenInv
<1>4. DoneInv'
  BY CountsGrow DEF TrainingInv, DoneInv, Trained, TrainersOf
<1>5. ASSUME Undisturbed' PROVE OwnerInv'
  <2>1. OwnerInv /\ Undisturbed
    BY <1>5, CountsGrow DEF TrainingInv
  <2>2. \A w \in Workers : w # None
    BY ProvisioningAssumption
  <2> QED BY <1>5, <2>1, <2>2 DEF OwnerInv
<1> QED BY <1>1, <1>2, <1>3, <1>4, <1>5 DEF TrainingInv

LEMMA RequestsAside ==
    ASSUME ProvisioningInv, TrainingInv, Next, NEW r \in Requests, RequestStep(r)
    PROVE  TrainingInv'
<1> USE DEF ProvisioningInv, TypeOK
<1>1. UNCHANGED <<training, fresh, disk>>
  BY DEF RequestStep, Arrive, Insert, Defer, Commit, Rollback
<1>2. ASSUME NEW q \in Requests
      PROVE  /\ jobs[q].status # "none" => jobs'[q] = jobs[q] /\ org'[q] = org[q]
             /\ jobs'[q].status = "succeeded" => jobs[q].status = "succeeded"
  <2>1. CASE Arrive(r)
    BY <2>1 DEF Arrive, At, RequestInv
  <2>2. CASE Commit(r)
    <3>1. jobs[r].status = "none" \/ UNCHANGED jobs
      BY <2>2 DEF Commit, At, RequestInv
    <3> QED BY <2>2, <3>1 DEF Commit, NoJob
  <2>3. CASE Insert(r) \/ Defer(r) \/ Rollback(r)
    BY <2>3 DEF Insert, Defer, Rollback
  <2> QED BY <2>1, <2>2, <2>3 DEF RequestStep
<1>3. \A q \in Requests : Pending(q) => Pending(q)'
  BY <1>2 DEF Pending
<1>4. \A w \in Workers : Undisturbed => fresh'[w]
  BY <1>1 DEF TrainingInv, OwnerInv
<1> QED BY <1>1, <1>2, <1>3, <1>4, CountsGrow, JobsAside

LEMMA PeriodicAside ==
    ASSUME ProvisioningInv, TrainingInv, Next, NEW r \in Requests,
           RetryStalled(r) \/ RemoveOld(r)
    PROVE  TrainingInv'
<1> USE DEF ProvisioningInv, TypeOK
<1>1. UNCHANGED <<training, fresh, disk, org>>
  BY DEF RetryStalled, RemoveOld, request
<1>2. \A w \in Workers : Undisturbed => fresh[w] /\ fresh'[w]
  BY <1>1 DEF TrainingInv, OwnerInv
<1>3. ASSUME NEW q \in Requests
      PROVE  /\ jobs[q].status # "none" => jobs'[q].status # "none" /\ org'[q] = org[q]
             /\ Pending(q) => Pending(q)'
             /\ jobs[q].status = "doing" /\ jobs[q].owner # None /\ Undisturbed
                   => jobs'[q] = jobs[q]
             /\ jobs'[q].status = "succeeded" => jobs[q].status = "succeeded"
  <2>1. CASE RetryStalled(r)
    <3>1. jobs[r].owner \in Workers \cup {None}
      BY DEF Job
    <3>2. Undisturbed => jobs[r].owner = None
      BY <1>2, <2>1, <3>1 DEF RetryStalled, Stalled
    <3> QED BY <1>1, <2>1, <3>2 DEF RetryStalled, Requeue, Pending
  <2>2. CASE RemoveOld(r)
    BY <1>1, <2>2 DEF RemoveOld, EndJob, Job, Pending
  <2> QED BY <2>1, <2>2
<1> QED BY <1>1, <1>2, <1>3, CountsGrow, JobsAside

LEMMA HeartbeatsAside ==
    ASSUME ProvisioningInv, TrainingInv, Next, NEW w \in Workers, Lapse(w) \/ Beat(w)
    PROVE  TrainingInv'
<1> USE DEF ProvisioningInv, TypeOK
<1>1. UNCHANGED <<training, disk, org, jobs>>
  BY DEF Lapse, Beat, request
<1>2. ASSUME NEW v \in Workers, Undisturbed' PROVE fresh'[v]
  <2>1. fresh[v]
    BY <1>2, CountsGrow DEF TrainingInv, OwnerInv
  <2>2. ~Lapse(w)
    BY <1>2, OnceCounted DEF Lapse, Undisturbed, Mishaps
  <2> QED BY <2>1, <2>2 DEF Beat
<1>3. \A q \in Requests : Pending(q) => Pending(q)'
  BY <1>1 DEF Pending
<1> QED BY <1>1, <1>2, <1>3, JobsAside

-----------------------------------------------------------------------------
(* A training begins. *)

\* Beside whoever trains for the organisation already, which is then remembered.
LEMMA StartKeeps ==
    ASSUME ProvisioningInv, TrainingInv, Next, NEW w \in Workers, NEW o \in Orgs, Start(w, o),
           UNCHANGED <<org, alone, disk>>,
           \A v \in Workers \ {w} : task'[v] = task[v],
           \/ task'[w] = None /\ count'["manual"] # 0
           \/ /\ task'[w] \in Requests /\ org[task'[w]] = o
              /\ jobs'[task'[w]].status = "doing",
           \A r \in Requests :
               /\ jobs[r].status # "none" => jobs'[r].status # "none"
               /\ Pending(r) => Pending(r)'
               /\ jobs'[r].status = "succeeded" => jobs[r].status = "succeeded"
    PROVE  TaskInv' /\ AloneInv' /\ JobOpenInv' /\ FilesInv' /\ DoneInv'
<1> USE DEF ProvisioningInv, TypeOK
<1>1. /\ stage'[w] = "open_risk" /\ stage[w] = "idle" /\ target'[w] = o
      /\ \A v \in Workers \ {w} : stage'[v] = stage[v] /\ target'[v] = target[v]
      /\ together \subseteq together'
      /\ TrainersOf(o) # {} => o \in together'
      /\ Idle(w) /\ ~Idle(w)'
      /\ \A v \in Workers \ {w} : Idle(v)' <=> Idle(v)
  BY DEF Start, Move, Idle
<1>2. TaskInv'
  <2>1. ASSUME NEW v \in Workers \ {w}, Idle(v)' PROVE task'[v] = None
    BY <1>1, <2>1 DEF TrainingInv, TaskInv
  <2>2. ASSUME NEW v \in Workers \ {w}, ~Idle(v)'
        PROVE  /\ target'[v] \in Orgs
               /\ task'[v] # None => /\ jobs'[task'[v]].status # "none"
                                     /\ target'[v] = org'[task'[v]]
               /\ task'[v] = None => count'["manual"] # 0
    <3>1. task[v] \in Requests \cup {None}
      OBVIOUS
    <3> QED BY <1>1, <2>2, <3>1, CountsGrow DEF TrainingInv, TaskInv
  <2>3. /\ target'[w] \in Orgs
        /\ task'[w] # None => /\ jobs'[task'[w]].status # "none"
                              /\ target'[w] = org'[task'[w]]
        /\ task'[w] = None => count'["manual"] # 0
    BY <1>1, ProvisioningAssumption
  <2> QED BY <1>1, <2>1, <2>2, <2>3 DEF TaskInv
<1>3. AloneInv'
  <2> SUFFICES ASSUME NEW u \in Workers, NEW v \in Workers, u # v, ~Idle(u)', ~Idle(v)',
                      target'[u] = target'[v]
               PROVE  target'[v] \in together'
    BY DEF AloneInv
  <2>1. CASE u = w \/ v = w
    BY <1>1, <2>1 DEF TrainersOf
  <2>2. CASE u # w /\ v # w
    BY <1>1, <2>2 DEF TrainingInv, AloneInv
  <2> QED BY <2>1, <2>2
<1>4. JobOpenInv'
  <2> SUFFICES ASSUME NEW v \in Workers, ~Idle(v)', task'[v] # None
               PROVE  \/ jobs'[task'[v]].status \in {"todo", "doing"}
                      \/ target'[v] \in together'
    BY DEF JobOpenInv, Pending
  <2>1. CASE v = w
    BY <2>1, ProvisioningAssumption
  <2>2. CASE v # w
    <3>1. ~Idle(v) /\ task'[v] = task[v] /\ target'[v] = target[v]
      BY <1>1, <2>2
    <3>2. task[v] \in Requests /\ (Pending(task[v]) \/ target[v] \in together)
      BY <3>1 DEF TrainingInv, JobOpenInv
    <3>3. Pending(task[v]) => Pending(task[v])'
      BY <3>1, <3>2
    <3> QED BY <1>1, <3>1, <3>2, <3>3 DEF Pending
  <2> QED BY <2>1, <2>2
<1>5. FilesInv'
  <2> SUFFICES ASSUME NEW v \in Workers, NEW f \in Files, ~Idle(v)', target'[v] \notin together'
               PROVE  /\ stage'[v] = Writing(f) => alone'[v]
                      /\ stage'[v] \in Past(f) => disk'[target'[v]][f] = "saved"
    BY DEF FilesInv
  <2>1. CASE v = w
    BY <1>1, <2>1 DEF Writing, Past
  <2>2. CASE v # w
    BY <1>1, <2>2 DEF TrainingInv, FilesInv
  <2> QED BY <2>1, <2>2
<1>6. DoneInv'
  <2> SUFFICES ASSUME NoneByHandCut', NEW r \in Requests, jobs'[r].status = "succeeded"
               PROVE  org[r] \in together' \/ Trained(org[r])' \/ TrainersOf(org[r])' # {}
    BY DEF DoneInv
  <2>1. org[r] \in together \/ Trained(org[r]) \/ TrainersOf(org[r]) # {}
    BY CountsGrow DEF TrainingInv, DoneInv
  <2>2. TrainersOf(org[r]) \subseteq TrainersOf(org[r])'
    BY <1>1 DEF TrainersOf
  <2> QED BY <1>1, <2>1, <2>2 DEF Trained
<1> QED BY <1>2, <1>3, <1>4, <1>5, <1>6

LEMMA FetchKeeps ==
    ASSUME ProvisioningInv, TrainingInv, Next, NEW w \in Workers, NEW r \in Requests,
           Fetch(w, r)
    PROVE  TrainingInv'
<1> USE DEF ProvisioningInv, TypeOK
<1>1. /\ Start(w, org[r]) /\ UNCHANGED <<org, alone, disk, fresh>>
      /\ task' = [task EXCEPT ![w] = r] /\ jobs[r].status = "todo"
      /\ org[r] \in Orgs /\ r # None
  BY ProvisioningAssumption DEF Fetch, RequestInv, request
<1>2. /\ jobs'[r].status = "doing" /\ jobs'[r].owner = w
      /\ \A q \in Requests \ {r} : jobs'[q] = jobs[q]
  BY DEF Fetch, Job
<1>3. \A q \in Requests : Pending(q) => Pending(q)'
  BY <1>1, <1>2 DEF Pending
<1>4. TaskInv' /\ AloneInv' /\ JobOpenInv' /\ FilesInv' /\ DoneInv'
  BY <1>1, <1>2, <1>3, StartKeeps
<1>5. Undisturbed' => OwnerInv'
  <2>1. \A v \in Workers \ {w} : Idle(v)' <=> Idle(v)
    BY <1>1 DEF Start, Move, Idle
  <2> QED BY <1>1, <1>2, <2>1, CountsGrow DEF TrainingInv, OwnerInv
<1> QED BY <1>4, <1>5 DEF TrainingInv

LEMMA ProvisionKeeps ==
    ASSUME ProvisioningInv, TrainingInv, Next, NEW w \in Workers, NEW o \in Orgs,
           Provision(w, o)
    PROVE  TrainingInv'
<1> USE DEF ProvisioningInv, TypeOK
<1>1. Start(w, o) /\ UNCHANGED <<org, jobs, alone, disk, task>> /\ task[w] = None
  BY DEF Provision, request, Start, TrainingInv, TaskInv
<1>2. count'["manual"] # 0 /\ ~Undisturbed'
  BY OnceCounted DEF Provision, Undisturbed, Mishaps
<1>3. \A q \in Requests : Pending(q) => Pending(q)'
  BY <1>1 DEF Pending
<1>4. TaskInv' /\ AloneInv' /\ JobOpenInv' /\ FilesInv' /\ DoneInv'
  BY <1>1, <1>2, <1>3, StartKeeps
<1> QED BY <1>2, <1>4 DEF TrainingInv

-----------------------------------------------------------------------------
(* A training goes on: it opens a file, it closes one. *)

\* Both change one file of the trainer's organisation, which nobody else trains
\* for if nobody ever has beside it.
LEMMA GoesOnKeeps ==
    ASSUME ProvisioningInv, TrainingInv, NEW w \in Workers, ~Idle(w), NEW file \in Files,
           NEW next \in Stages \ {"idle"}, Move(w, next),
           NEW mark, disk' = [disk EXCEPT ![target[w]][file] = mark],
           \A v \in Workers \ {w} : target[v] # target[w] => alone'[v] = alone[v],
           UNCHANGED <<request, orgs, jobs, task, target, tries, together, fresh, count>>,
           target[w] \notin together =>
              \A f \in Files : /\ next = Writing(f) => alone'[w]
                               /\ next \in Past(f) => disk'[target[w]][f] = "saved"
    PROVE  TrainingInv'
<1> USE DEF ProvisioningInv, TypeOK, request
<1>1. /\ stage'[w] = next /\ target[w] \in Orgs
      /\ \A v \in Workers \ {w} : stage'[v] = stage[v]
      /\ \A v \in Workers : Idle(v)' <=> Idle(v)
  BY DEF Move, Idle, TrainingInv, TaskInv
<1>2. TaskInv' /\ AloneInv'
  BY <1>1 DEF TrainingInv, TaskInv, AloneInv
<1>3. JobOpenInv'
  BY <1>1 DEF TrainingInv, JobOpenInv, Pending
<1>4. Undisturbed' => OwnerInv'
  BY <1>1 DEF TrainingInv, OwnerInv, Undisturbed
<1>5. \A o \in Orgs \ {target[w]} : disk'[o] = disk[o]
  BY <1>1
<1>6. FilesInv'
  <2> SUFFICES ASSUME NEW v \in Workers, NEW f \in Files, ~Idle(v), target[v] \notin together
               PROVE  /\ stage'[v] = Writing(f) => alone'[v]
                      /\ stage'[v] \in Past(f) => disk'[target[v]][f] = "saved"
    BY <1>1 DEF FilesInv
  <2>1. CASE v = w
    BY <1>1, <2>1
  <2>2. CASE v # w
    <3>1. target[v] # target[w] /\ target[v] \in Orgs
      BY <2>2 DEF TrainingInv, AloneInv, TaskInv
    <3> QED BY <1>1, <1>5, <2>2, <3>1 DEF TrainingInv, FilesInv
  <2> QED BY <2>1, <2>2
<1>7. DoneInv'
  <2> SUFFICES ASSUME NoneByHandCut, NEW r \in Requests, jobs[r].status = "succeeded"
               PROVE  org[r] \in together \/ Trained(org[r])' \/ TrainersOf(org[r])' # {}
    BY DEF DoneInv, NoneByHandCut, Uninterrupted
  <2>1. TrainersOf(org[r])' = TrainersOf(org[r])
    BY <1>1 DEF TrainersOf
  <2>2. CASE org[r] = target[w]
    BY <2>1, <2>2 DEF TrainersOf
  <2>3. CASE org[r] # target[w]
    <3>1. org[r] \in Orgs
      BY DEF RequestInv
    <3> QED BY <1>5, <2>1, <2>3, <3>1 DEF TrainingInv, DoneInv, Trained
  <2> QED BY <2>2, <2>3
<1> QED BY <1>2, <1>3, <1>4, <1>6, <1>7 DEF TrainingInv

\* Nobody else is at the file it opens.
LEMMA OpenKeeps ==
    ASSUME ProvisioningInv, TrainingInv, NEW w \in Workers, NEW file \in Files,
           NEW at, NEW next \in Stages \ {"idle"}, Open(w, at, file, next),
           next = Writing(file), at = IF file = "risk" THEN "open_risk" ELSE "open_uplift"
    PROVE  TrainingInv'
<1> DEFINE others == {v \in TrainersOf(target[w]) \ {w} : stage[v] = next}
<1>1. /\ stage[w] = at /\ at \in {"open_risk", "open_uplift"} /\ Move(w, next)
      /\ disk' = [disk EXCEPT ![target[w]][file] = "torn"]
      /\ UNCHANGED <<request, orgs, jobs, task, target, tries, together, fresh, count>>
      /\ ~Idle(w)
  BY DEF Open, Idle
<1>2. /\ alone'[w] <=> others = {}
      /\ \A v \in Workers \ {w} : alone'[v] = (alone[v] /\ v \notin others)
  BY Zenon DEF Open
<1>3. \A v \in Workers \ {w} : target[v] # target[w] => alone'[v] = alone[v]
  BY <1>2 DEF TrainersOf, ProvisioningInv, TypeOK
<1>4. ASSUME target[w] \notin together, NEW f \in Files
      PROVE  /\ next = Writing(f) => alone'[w]
             /\ next \in Past(f) => disk'[target[w]][f] = "saved"
  <2>1. others = {}
    BY <1>1, <1>4 DEF TrainersOf, TrainingInv, AloneInv
  <2>2. ASSUME next \in Past(f) PROVE disk'[target[w]][f] = "saved"
    <3>1. f = "risk" /\ file = "uplift" /\ at = "open_uplift"
      BY <2>2 DEF Past, Writing, Files
    <3>2. disk[target[w]][f] = "saved"
      BY <1>1, <1>4, <3>1 DEF TrainingInv, FilesInv, Past
    <3>3. target[w] \in Orgs
      BY <1>1 DEF TrainingInv, TaskInv
    <3> QED BY <1>1, <3>1, <3>2, <3>3 DEF ProvisioningInv, TypeOK
  <2> QED BY <1>2, <2>1, <2>2
<1> QED BY <1>1, <1>3, <1>4, GoesOnKeeps

\* A file that its writer has had to itself is saved when it closes it.
LEMMA CloseKeeps ==
    ASSUME ProvisioningInv, TrainingInv, NEW w \in Workers, NEW file \in Files,
           NEW at, NEW next \in Stages \ {"idle"}, Close(w, at, file, next),
           at = Writing(file), next = IF file = "risk" THEN "open_uplift" ELSE "finish"
    PROVE  TrainingInv'
<1>1. /\ stage[w] = at /\ at \in {"write_risk", "write_uplift"} /\ Move(w, next)
      /\ alone' = [alone EXCEPT ![w] = FALSE]
      /\ UNCHANGED <<request, orgs, jobs, task, target, tries, together, fresh, count>>
      /\ ~Idle(w)
  BY DEF Close, Idle, Writing
<1>2. PICK mark \in IF alone[w] THEN {"saved"} ELSE {"saved", "torn"} :
         disk' = [disk EXCEPT ![target[w]][file] = mark]
  BY DEF Close
<1>3. \A v \in Workers \ {w} : alone'[v] = alone[v]
  BY <1>1 DEF ProvisioningInv, TypeOK
<1>4. ASSUME target[w] \notin together, NEW f \in Files
      PROVE  /\ next = Writing(f) => alone'[w]
             /\ next \in Past(f) => disk'[target[w]][f] = "saved"
  <2>1. next # Writing(f)
    BY DEF Writing
  <2>2. target[w] \in Orgs
    BY <1>1 DEF TrainingInv, TaskInv
  <2>3. alone[w]
    BY <1>1, <1>4 DEF TrainingInv, FilesInv
  <2>4. disk'[target[w]][file] = "saved"
    BY <1>2, <2>2, <2>3 DEF ProvisioningInv, TypeOK
  <2>5. ASSUME next \in Past(f), f # file PROVE disk'[target[w]][f] = "saved"
    <3>1. f = "risk" /\ file = "uplift"
      BY <2>5 DEF Past, Files
    <3>2. disk[target[w]][f] = "saved"
      BY <1>1, <1>4, <3>1 DEF TrainingInv, FilesInv, Past, Writing
    <3> QED BY <1>2, <2>2, <2>5, <3>2 DEF ProvisioningInv, TypeOK
  <2> QED BY <2>1, <2>4, <2>5
<1> QED BY <1>1, <1>2, <1>3, <1>4, GoesOnKeeps

LEMMA TrainKeeps ==
    ASSUME ProvisioningInv, TrainingInv, NEW w \in Workers, Train(w)
    PROVE  TrainingInv'
<1>1. {"write_risk", "open_uplift", "write_uplift", "finish"} \subseteq Stages \ {"idle"}
  BY DEF Stages
<1> QED BY <1>1, OpenKeeps, CloseKeeps DEF Train, Writing, Files

-----------------------------------------------------------------------------
(* A training ends. *)

\* What the end of w's training leaves: of the jobs, only its own changes, and
\* every other worker is where it was.
EndsAlone(w) ==
    /\ Rest(w) /\ UNCHANGED <<request, orgs, disk>>
    /\ \A q \in Requests :
          /\ jobs[q].status # "none" => jobs'[q].status # "none"
          /\ q # task[w] => jobs'[q].status = jobs[q].status
          /\ q # task[w] /\ jobs[q].owner # w => jobs'[q] = jobs[q]
    /\ \A v \in Workers : fresh[v] => fresh'[v]

\* Only its own job, to do again or ended.
LEMMA OwnJob ==
    ASSUME jobs \in [Requests -> Job], NEW r \in Requests, NEW s \in Statuses,
           Requeue(r) \/ EndJob(r, s)
    PROVE  /\ \A q \in Requests \ {r} : jobs'[q] = jobs[q]
           /\ jobs'[r].status \in {"todo", s}
<1>1. CASE Requeue(r)
  BY <1>1 DEF Requeue
<1>2. CASE EndJob(r, s)
  <2>1. jobs' = [jobs EXCEPT ![r] = [jobs[r] EXCEPT !.status = s, !.owner = None]]
    BY <1>2 DEF EndJob
  <2>2. jobs[r] = [status |-> jobs[r].status, attempts |-> jobs[r].attempts,
                   owner |-> jobs[r].owner]
    BY DEF Job
  <2> QED BY <2>1, <2>2
<1> QED BY <1>1, <1>2

LEMMA EndKeeps ==
    ASSUME ProvisioningInv, TrainingInv, Next, NEW w \in Workers, ~Idle(w), EndsAlone(w)
    PROVE  /\ TaskInv' /\ AloneInv' /\ JobOpenInv' /\ FilesInv'
           /\ Undisturbed' => OwnerInv'
<1> USE DEF ProvisioningInv, TypeOK, request, EndsAlone
<1>1. /\ Idle(w)' /\ task'[w] = None /\ UNCHANGED <<org, disk, together>>
      /\ \A v \in Workers \ {w} : /\ stage'[v] = stage[v] /\ target'[v] = target[v]
                                  /\ task'[v] = task[v] /\ alone'[v] = alone[v]
                                  /\ Idle(v)' <=> Idle(v)
  BY DEF Rest, Move, Idle
<1>2. TaskInv'
  BY <1>1, CountsGrow DEF TrainingInv, TaskInv
<1>3. AloneInv' /\ FilesInv'
  BY <1>1 DEF TrainingInv, AloneInv, FilesInv
<1>4. JobOpenInv'
  <2> SUFFICES ASSUME NEW v \in Workers \ {w}, ~Idle(v), task[v] # None
               PROVE  Pending(task[v])' \/ target[v] \in together
    BY <1>1 DEF JobOpenInv
  <2>1. task[v] \in Requests /\ target[v] = org[task[v]]
    BY DEF TrainingInv, TaskInv
  <2>2. CASE task[v] # task[w]
    <3>1. Pending(task[v]) \/ target[v] \in together
      BY DEF TrainingInv, JobOpenInv
    <3>2. jobs'[task[v]].status = jobs[task[v]].status
      BY <2>1, <2>2
    <3> QED BY <1>1, <3>1, <3>2 DEF Pending
  <2>3. CASE task[v] = task[w]
    BY <2>1, <2>3 DEF TrainingInv, TaskInv, AloneInv
  <2> QED BY <2>2, <2>3
<1>5. ASSUME Undisturbed' PROVE OwnerInv'
  <2>1. OwnerInv
    BY <1>5, CountsGrow DEF TrainingInv
  <2>2. ASSUME NEW v \in Workers, ~Idle(v)'
        PROVE  task'[v] # None /\ jobs'[task'[v]].status = "doing" /\ jobs'[task'[v]].owner = v
    <3>1. v # w /\ ~Idle(v) /\ task'[v] = task[v]
      BY <1>1, <2>2
    <3>2. task[v] \in Requests /\ jobs[task[v]].status = "doing" /\ jobs[task[v]].owner = v
      BY <2>1, <3>1 DEF OwnerInv
    <3>3. task[v] # task[w]
      BY <2>1, <3>1, <3>2 DEF OwnerInv
    <3>4. jobs'[task[v]] = jobs[task[v]] /\ task[v] # None
      BY <3>1, <3>2, <3>3, ProvisioningAssumption
    <3> QED BY <3>1, <3>2, <3>4
  <2> QED BY <2>1, <2>2 DEF OwnerInv
<1> QED BY <1>2, <1>3, <1>4, <1>5

\* The end of a training is no news for other organisations.
LEMMA EndElsewhere ==
    ASSUME ProvisioningInv, TrainingInv, Next, NEW w \in Workers, ~Idle(w), EndsAlone(w),
           NoneByHandCut', NEW r \in Requests, jobs[r].status = "succeeded",
           org[r] # target[w]
    PROVE  org[r] \in together \/ Trained(org[r])' \/ TrainersOf(org[r])' # {}
<1>1. org[r] \in together \/ Trained(org[r]) \/ TrainersOf(org[r]) # {}
  BY CountsGrow DEF TrainingInv, DoneInv
<1>2. Trained(org[r])' <=> Trained(org[r])
  BY DEF EndsAlone, request, Trained
<1>3. TrainersOf(org[r]) \subseteq TrainersOf(org[r])'
  BY DEF EndsAlone, request, TrainersOf, Idle, Rest, Move, ProvisioningInv, TypeOK
<1> QED BY <1>1, <1>2, <1>3

\* The only trainer an organisation ever had leaves both files saved.
LEMMA FinishKeeps ==
    ASSUME ProvisioningInv, TrainingInv, Next, NEW w \in Workers, Finish(w)
    PROVE  TrainingInv'
<1> USE DEF ProvisioningInv, TypeOK, request
<1>1. /\ stage[w] = "finish" /\ ~Idle(w) /\ Rest(w)
      /\ UNCHANGED <<pc, org, orgs, fresh, disk, count, together>>
      /\ target[w] \in Orgs
  BY DEF Finish, Idle, Rest, TrainingInv, TaskInv
<1>2. UNCHANGED jobs \/ (task[w] \in Requests /\ EndJob(task[w], "succeeded"))
  BY DEF Finish
<1>3. EndsAlone(w)
  BY <1>1, <1>2, OwnJob DEF EndsAlone, Statuses
<1>4. DoneInv'
  <2> SUFFICES ASSUME NoneByHandCut', NEW r \in Requests, jobs'[r].status = "succeeded"
               PROVE  org[r] \in together \/ Trained(org[r])' \/ TrainersOf(org[r])' # {}
    BY <1>1 DEF DoneInv
  <2>1. CASE org[r] # target[w]
    <3>1. r # task[w]
      BY <1>1, <2>1, ProvisioningAssumption DEF TrainingInv, TaskInv
    <3>2. jobs[r].status = "succeeded"
      BY <1>3, <3>1 DEF EndsAlone
    <3> QED BY <1>1, <1>3, <2>1, <3>2, EndElsewhere
  <2>2. CASE org[r] = target[w]
    <3>1. target[w] \in together \/ \A f \in Files : disk[target[w]][f] = "saved"
      BY <1>1 DEF TrainingInv, FilesInv, Past
    <3> QED BY <1>1, <2>2, <3>1 DEF Trained
  <2> QED BY <2>1, <2>2
<1> QED BY <1>1, <1>3, <1>4, EndKeeps DEF TrainingInv

\* A training cut short, by an exception or by a kill: what it leaves torn
\* nobody has been told is done, if nobody else trained for the organisation.
LEMMA CutShortKeeps ==
    ASSUME ProvisioningInv, TrainingInv, Next, NEW w \in Workers, ~Idle(w), EndsAlone(w),
           ~Uninterrupted',
           task[w] # None => (jobs'[task[w]].status = "succeeded"
                                 => jobs[task[w]].status = "succeeded")
    PROVE  TrainingInv'
<1> USE DEF ProvisioningInv, TypeOK
<1>1. UNCHANGED <<org, together>>
  BY DEF EndsAlone, Rest, request
<1>2. DoneInv'
  <2> SUFFICES ASSUME NoneByHandCut', NEW r \in Requests, jobs'[r].status = "succeeded"
               PROVE  org[r] \in together \/ Trained(org[r])' \/ TrainersOf(org[r])' # {}
    BY <1>1 DEF DoneInv
  <2>1. jobs[r].status = "succeeded"
    BY ProvisioningAssumption DEF EndsAlone
  <2>2. CASE org[r] # target[w]
    BY <2>1, <2>2, EndElsewhere
  <2>3. CASE org[r] = target[w]
    <3>1. count["manual"] = 0
      BY CountsGrow DEF NoneByHandCut
    <3>2. task[w] \in Requests /\ target[w] = org[task[w]] /\ jobs[task[w]].status # "none"
      BY <3>1 DEF TrainingInv, TaskInv
    <3>3. task[w] = r
      BY <2>1, <2>3, <3>2 DEF JobInv
    <3>4. ~Pending(r) /\ r # None
      BY <2>1, ProvisioningAssumption DEF Pending
    <3> QED BY <2>3, <3>3, <3>4 DEF TrainingInv, JobOpenInv
  <2> QED BY <2>2, <2>3
<1> QED BY <1>2, EndKeeps DEF TrainingInv

LEMMA RaiseKeeps ==
    ASSUME ProvisioningInv, TrainingInv, Next, NEW w \in Workers, Raise(w)
    PROVE  TrainingInv'
<1> USE DEF ProvisioningInv, TypeOK, request
<1>1. ~Idle(w) /\ Rest(w) /\ UNCHANGED <<pc, org, orgs, fresh, disk>> /\ Once("error")
  BY DEF Raise, Idle
<1>2. \/ UNCHANGED jobs
      \/ /\ task[w] \in Requests /\ jobs[task[w]].status # "none"
         /\ Requeue(task[w]) \/ EndJob(task[w], "failed")
  <2>1. CASE task[w] = None
    BY <2>1 DEF Raise
  <2>2. CASE task[w] # None
    <3>1. task[w] \in Requests /\ jobs[task[w]].status # "none"
      BY <1>1, <2>2 DEF TrainingInv, TaskInv
    <3> QED BY <2>2, <3>1 DEF Raise
  <2> QED BY <2>1, <2>2
<1>3. EndsAlone(w)
  BY <1>1, <1>2, OwnJob DEF EndsAlone, Statuses
<1>4. task[w] # None => (jobs'[task[w]].status = "succeeded"
                           => jobs[task[w]].status = "succeeded")
  BY <1>2, OwnJob DEF Statuses
<1>5. ~Uninterrupted'
  BY <1>1, OnceCounted DEF Uninterrupted, Mishaps
<1> QED BY <1>1, <1>3, <1>4, <1>5, CutShortKeeps

LEMMA DieKeeps ==
    ASSUME ProvisioningInv, TrainingInv, Next, NEW w \in Workers, Die(w)
    PROVE  TrainingInv'
<1> USE DEF ProvisioningInv, TypeOK, request
<1>1. ~Idle(w) /\ Rest(w) /\ UNCHANGED <<pc, org, orgs, disk>> /\ Once("death")
  BY DEF Die
<1>2. \A q \in Requests : /\ jobs'[q].status = jobs[q].status
                          /\ jobs[q].owner # w => jobs'[q] = jobs[q]
  BY DEF Die, Job
<1>3. \A v \in Workers : fresh[v] => fresh'[v]
  BY DEF Die
<1>4. EndsAlone(w)
  BY <1>1, <1>2, <1>3 DEF EndsAlone
<1>5. ~Uninterrupted'
  BY <1>1, OnceCounted DEF Uninterrupted, Mishaps
<1> QED BY <1>1, <1>2, <1>4, <1>5, CutShortKeeps

LEMMA TrainingNext ==
    ProvisioningInv /\ TrainingInv /\ [Next]_vars => TrainingInv'
<1> SUFFICES ASSUME ProvisioningInv, TrainingInv, [Next]_vars PROVE TrainingInv'
  OBVIOUS
<1>1. CASE UNCHANGED vars
  BY <1>1 DEF vars, request, training, TrainingInv, TaskInv, AloneInv, JobOpenInv, FilesInv, DoneInv,
              OwnerInv, Pending, Idle, Trained, TrainersOf, Undisturbed, NoneByHandCut, Uninterrupted
<1>2. CASE Next
  <2>1. ASSUME NEW r \in Requests, RequestStep(r) \/ RetryStalled(r) \/ RemoveOld(r)
        PROVE  TrainingInv'
    BY <1>2, <2>1, RequestsAside, PeriodicAside
  <2>2. ASSUME NEW w \in Workers, Work(w) \/ Mishap(w) \/ Beat(w)
        PROVE  TrainingInv'
    BY <1>2, <2>2, FetchKeeps, TrainKeeps, FinishKeeps, RaiseKeeps, DieKeeps,
       HeartbeatsAside DEF Work, Mishap
  <2>3. ASSUME NEW w \in Workers, NEW o \in Orgs, Provision(w, o) PROVE TrainingInv'
    BY <1>2, <2>3, ProvisionKeeps
  <2> QED BY <1>2, <2>1, <2>2, <2>3 DEF Next
<1> QED BY <1>1, <1>2

-----------------------------------------------------------------------------
(* Theorems *)

\* auth.py:115: whatever number of first requests overlap, roll back or come
\* again, an organisation has a row exactly if one job was enqueued for it.
THEOREM OneJobPerOrgAlways == Spec => []OneJobPerOrg
<1> QED BY InvInit, InvNext, InvImplies, PTL DEF Spec

\* auth.py:127: no defer finds a job of its own organisation to do, so
\* AlreadyEnqueued is unreachable, and the queueing lock with it.
THEOREM NeverAlreadyEnqueuedAlways == Spec => []NeverAlreadyEnqueued
<1> QED BY InvInit, InvNext, InvImplies, PTL DEF Spec
\* The tables and the trainers' locals keep their types, under any mishaps.
THEOREM ProvisioningTypeCorrect == Spec => []TypeOK
<1>1. ProvisioningInv => TypeOK
  BY DEF ProvisioningInv
<1> QED BY <1>1, InvInit, InvNext, PTL DEF Spec

\* jobs.py:72, auth.py:134: a job that succeeded has left both models whole, or
\* somebody is about to, for any number of workers and however many die, raise or
\* seem dead, unless two have trained for the organisation at once or a training
\* by hand was cut short.
THEOREM DoneMeansTrainedAlways == Spec => []DoneMeansTrained
<1> QED BY InvInit, InvNext, TrainingInit, TrainingNext, TrainingImplies, PTL DEF Spec

\* auth.py:131: when no heartbeat lapses and nobody trains by hand, an
\* organisation has one trainer at a time, however workers die, trainings raise
\* and jobs are queued again.
THEOREM TrainsAloneAlways == Spec => []TrainsAlone
<1> QED BY InvInit, InvNext, TrainingInit, TrainingNext, TrainingImplies, PTL DEF Spec
=============================================================================
