----------------------------- MODULE EventTasks -----------------------------
(***************************************************************************)
(* From a webhook delivery to an index task: ingest, the event task, the   *)
(* resolution task of a push, and the coalesced start of the pipeline.     *)
(*                                                                         *)
(* GitHub posts a delivery, maybe more than once.  The API records its id, *)
(* commits and enqueues the event task.  The event task moves the head and *)
(* enqueues a resolution task, which pairs the findings of the push and    *)
(* then releases the index job or, with coalescing, schedules the task     *)
(* that inserts it.  Tasks of several workers interleave; a call to the    *)
(* broker or to the database may fail.  What a delivery does to runs and   *)
(* jobs in detail is the matter of GenerationLifecycle.                    *)
(***************************************************************************)
EXTENDS Integers, Sequences, FiniteSets

CONSTANTS
    Deliveries,   \* ids of webhook deliveries (events that are not supported are only answered)
    RevOf,        \* the revision a delivery pushes
    MaxRequests,  \* bound: POST requests of GitHub
    Coalesces,    \* whether REVIEW_COALESCE_SECONDS is positive
    MaxRetries,   \* max_retries of the tasks
    MaxFaults,    \* bound: attempts that fail
    MaxLost,      \* bound: messages that never reach the broker
    MaxTasks      \* bound: tasks that are looked at

Revs == {RevOf[d] : d \in Deliveries}

ASSUME EventsAssumption ==
    /\ RevOf \in [Deliveries -> Nat \ {0}]
    /\ {"resolve", "autostart"} \cap Deliveries = {}
    /\ Coalesces \subseteq BOOLEAN
    /\ MaxRequests \in Nat /\ MaxRetries \in Nat /\ MaxFaults \in Nat /\ MaxLost \in Nat /\ MaxTasks \in Nat

VARIABLES
    coalescing,   \* REVIEW_COALESCE_SECONDS > 0
    request,      \* the API's requests, as they arrive
    stored,       \* github_webhook_deliveries
    head,         \* revision of the pull request's head; 0 is the one it was opened with
    known,        \* revisions that have a row
    paired,       \* revisions whose findings were paired
    jobs,         \* index jobs: revision, status and whether a task was enqueued
    tasks,        \* Celery messages
    faults, lost  \* so far

vars == <<coalescing, request, stored, head, known, paired, jobs, tasks, faults, lost>>

Init ==
    /\ coalescing \in Coalesces
    /\ request = <<>>
    /\ stored = {}
    /\ head = 0
    /\ known = {0}
    /\ paired = {}
    /\ jobs = <<>>
    /\ tasks = <<>>
    /\ faults = 0 /\ lost = 0

-----------------------------------------------------------------------------
(* Ingest.                                                                 *)

\* accept_github_webhook and the first look of try_record_delivery.
Receive(d) ==
    /\ Len(request) < MaxRequests
    /\ request' = Append(request, [delivery |-> d, new |-> FALSE,
           pc |-> IF d \notin stored THEN "insert" ELSE "commit"])
    /\ UNCHANGED <<coalescing, stored, head, known, paired, jobs, tasks, faults, lost>>

\* A row that another request has inserted and not committed makes an insert wait.
Unsettled(d) == \E p \in DOMAIN request : request[p].delivery = d /\ request[p].pc = "commit" /\ request[p].new

\* Fault: the unique violation goes unnoticed.
InsertsAlways(d) == TRUE

\* Whether the flush inserts the row; if not it violates the primary key.
Inserts(d) == d \notin stored

Insert(q) ==
    LET d == request[q].delivery
    IN  /\ request[q].pc = "insert"
        /\ ~Unsettled(d)
        /\ request' = [request EXCEPT ![q].pc = "commit", ![q].new = Inserts(d)]
        /\ UNCHANGED <<coalescing, stored, head, known, paired, jobs, tasks, faults, lost>>

Acknowledge(q) ==
    /\ request[q].pc = "commit"
    /\ stored' = IF request[q].new THEN stored \cup {request[q].delivery} ELSE stored
    /\ request' = [request EXCEPT ![q].pc = IF request[q].new THEN "enqueue" ELSE "done"]
    /\ UNCHANGED <<coalescing, head, known, paired, jobs, tasks, faults, lost>>

\* at: queued, or how far the task has come; job: the index job that waits for it, 0 if
\* there is none; pair: whether it pairs findings.
Task(kind, rev, job, pair) ==
    [kind |-> kind, rev |-> rev, job |-> job, pair |-> pair, at |-> "queued", retries |-> 0]

EventTask(d) == [Task("event", RevOf[d], 0, FALSE) EXCEPT !.kind = d]

EnqueueEvent(q) ==
    /\ request[q].pc = "enqueue"
    /\ request' = [request EXCEPT ![q].pc = "done"]
    /\ tasks' = Append(tasks, EventTask(request[q].delivery))
    /\ UNCHANGED <<coalescing, stored, head, known, paired, jobs, faults, lost>>

\* The API process ends between the commit and the enqueue.
LoseEvent(q) ==
    /\ request[q].pc = "enqueue"
    /\ lost < MaxLost
    /\ lost' = lost + 1
    /\ request' = [request EXCEPT ![q].pc = "done"]
    /\ UNCHANGED <<coalescing, stored, head, known, paired, jobs, tasks, faults>>

-----------------------------------------------------------------------------
(* The event task.                                                         *)

IsEvent(t) == tasks[t].kind \in Deliveries

At(t, place) == [tasks EXCEPT ![t].at = place]

\* The pending jobs that a push of r supersedes: those of older revisions and, when the
\* push returns to a known revision, its own.
Overtaken(r) ==
    {j \in DOMAIN jobs : /\ jobs[j].status = "pending"
                         /\ jobs[j].rev < r \/ (jobs[j].rev = r /\ r \in known)}

Supersede(J) == [j \in DOMAIN jobs |-> IF j \in J THEN [jobs[j] EXCEPT !.status = "superseded"] ELSE jobs[j]]

InProgress(js, r) == \E j \in DOMAIN js : js[j].rev = r /\ js[j].status = "pending"

Pending(r) == [rev |-> r, status |-> "pending", sent |-> FALSE]

\* A synchronize: the head moves, older work is superseded, and without coalescing the
\* index job is inserted (or its revision has a review in progress).
ProcessEvent(t) ==
    LET r   == tasks[t].rev
        new == r \notin known
        js  == Supersede(Overtaken(r))
    IN  /\ IsEvent(t) /\ tasks[t].at = "queued"
        /\ head' = r
        /\ known' = known \cup {r}
        /\ IF coalescing \/ InProgress(js, r)
           THEN /\ jobs' = js
                /\ tasks' = [tasks EXCEPT ![t].at = "follow", ![t].pair = new]
           ELSE /\ jobs' = Append(js, Pending(r))
                /\ tasks' = [tasks EXCEPT ![t].at = "follow", ![t].pair = new,
                                          ![t].job = Len(js) + 1]
        /\ UNCHANGED <<coalescing, request, stored, paired, faults, lost>>

MayRetry(t) == tasks[t].retries < MaxRetries

\* The delivery's transaction fails and is tried again.
FailEvent(t) ==
    /\ IsEvent(t) /\ tasks[t].at = "queued"
    /\ faults < MaxFaults
    /\ faults' = faults + 1
    /\ tasks' = IF MayRetry(t)
                THEN [tasks EXCEPT ![t].retries = @ + 1] ELSE At(t, "failed")
    /\ UNCHANGED <<coalescing, request, stored, head, known, paired, jobs, lost>>

EnqueueResolution(t) ==
    /\ IsEvent(t) /\ tasks[t].at = "follow"
    /\ tasks' = Append(At(t, "done"), Task("resolve", tasks[t].rev, tasks[t].job, tasks[t].pair))
    /\ UNCHANGED <<coalescing, request, stored, head, known, paired, jobs, faults, lost>>

\* The worker ends, or the broker refuses: this is after the attempt, and not tried again.
LoseResolution(t) ==
    /\ IsEvent(t) /\ tasks[t].at = "follow"
    /\ lost < MaxLost
    /\ lost' = lost + 1
    /\ tasks' = At(t, "failed")
    /\ UNCHANGED <<coalescing, request, stored, head, known, paired, jobs, faults>>

-----------------------------------------------------------------------------
(* The resolution task.                                                    *)

IsResolution(t) == tasks[t].kind = "resolve"

\* The task pairs its findings and commits, unless the head has moved.
Resolve(t) ==
    /\ IsResolution(t) /\ tasks[t].at = "queued"
    /\ IF tasks[t].rev = head
       THEN /\ paired' = IF tasks[t].pair THEN paired \cup {head} ELSE paired
            /\ tasks' = At(t, "applied")
       ELSE /\ tasks' = At(t, "stale")
            /\ UNCHANGED paired
    /\ UNCHANGED <<coalescing, request, stored, head, known, jobs, faults, lost>>

\* Fault: a pending job is left to itself.
LeaveJob(j) == jobs

\* fail_pending_index_job_for_resolution_error.
FailJob(j) == IF j # 0 /\ jobs[j].status = "pending" THEN [jobs EXCEPT ![j].status = "failed"] ELSE jobs

Autostart(r) == Task("autostart", r, 0, FALSE)

\* The coalesced start that a resolution of r schedules, if coalescing.
Scheduled(ts, r) == IF coalescing THEN Append(ts, Autostart(r)) ELSE ts

\* Fault: a resolution that failed for good schedules nothing.
GiveUpQuietly(t) == tasks' = At(t, "failed") /\ jobs' = FailJob(tasks[t].job)

\* After the last attempt the job is failed and the coalesced start goes on unpaired.
GiveUp(t) == tasks' = Scheduled(At(t, "failed"), tasks[t].rev) /\ jobs' = FailJob(tasks[t].job)

FailResolve(t) ==
    /\ IsResolution(t) /\ tasks[t].at = "queued"
    /\ faults < MaxFaults
    /\ faults' = faults + 1
    /\ IF MayRetry(t)
       THEN tasks' = [tasks EXCEPT ![t].retries = @ + 1] /\ UNCHANGED jobs
       ELSE GiveUp(t)
    /\ UNCHANGED <<coalescing, request, stored, head, known, paired, lost>>

\* After the pairing: the index job goes to its worker, or the start is scheduled.
Release(t) ==
    /\ tasks[t].at = "applied"
    /\ IF tasks[t].job # 0
       THEN /\ jobs' = [jobs EXCEPT ![tasks[t].job].sent = TRUE]
            /\ tasks' = At(t, "done")
       ELSE /\ tasks' = Scheduled(At(t, "done"), tasks[t].rev)
            /\ UNCHANGED jobs

\* Fault: the task that is handed the schedule does not pair.
HandOffUnpaired(t) ==
    /\ tasks[t].at = "stale"
    /\ jobs' = FailJob(tasks[t].job)
    /\ tasks' = IF coalescing /\ head \notin {0, tasks[t].rev}
                THEN Append(At(t, "done"), Task("resolve", head, 0, FALSE))
                ELSE At(t, "done")

\* Of an overtaken revision: the schedule is handed to the head's, and the job is failed.
HandOff(t) ==
    /\ tasks[t].at = "stale"
    /\ jobs' = FailJob(tasks[t].job)
    /\ tasks' = IF coalescing /\ head \notin {0, tasks[t].rev}
                THEN Append(At(t, "done"), Task("resolve", head, 0, TRUE))
                ELSE At(t, "done")

PostOutcome(t) ==
    /\ IsResolution(t)
    /\ Release(t) \/ HandOff(t)
    /\ UNCHANGED <<coalescing, request, stored, head, known, paired, faults, lost>>

\* The broker refuses: the task is tried again without pairing, and after the last
\* attempt the job is failed and the start scheduled, if the task was not overtaken.
FailPostOutcome(t) ==
    /\ IsResolution(t) /\ tasks[t].at \in {"applied", "stale"}
    /\ faults < MaxFaults
    /\ faults' = faults + 1
    /\ IF MayRetry(t)
       THEN /\ tasks' = [tasks EXCEPT ![t].retries = @ + 1, ![t].at = "queued", ![t].pair = FALSE]
            /\ UNCHANGED jobs
       ELSE /\ jobs' = FailJob(tasks[t].job)
            /\ tasks' = IF tasks[t].at = "applied" THEN Scheduled(At(t, "failed"), tasks[t].rev)
                        ELSE At(t, "failed")
    /\ UNCHANGED <<coalescing, request, stored, head, known, paired, lost>>

-----------------------------------------------------------------------------
(* The coalesced start, and the index task.                                *)

\* Looks for work in progress; the job is not there for others before the commit.
Start(t) ==
    LET r == tasks[t].rev
    IN  /\ tasks[t].kind = "autostart" /\ tasks[t].at = "queued"
        /\ \/ /\ r = head /\ ~InProgress(jobs, r)
              /\ tasks' = At(t, "insert")
           \/ /\ \/ r # head
                 \/ \E j \in DOMAIN jobs : jobs[j].rev = r /\ jobs[j].status \in {"pending", "done"}
              /\ tasks' = At(t, "done")
        /\ UNCHANGED <<coalescing, request, stored, head, known, paired, jobs, faults, lost>>

InsertJob(t) ==
    /\ tasks[t].kind = "autostart" /\ tasks[t].at = "insert"
    /\ jobs' = Append(jobs, Pending(tasks[t].rev))
    /\ tasks' = [tasks EXCEPT ![t].at = "send", ![t].job = Len(jobs) + 1]
    /\ UNCHANGED <<coalescing, request, stored, head, known, paired, faults, lost>>

SendJob(t) ==
    /\ tasks[t].kind = "autostart" /\ tasks[t].at = "send"
    /\ jobs' = [jobs EXCEPT ![tasks[t].job].sent = TRUE]
    /\ tasks' = At(t, "done")
    /\ UNCHANGED <<coalescing, request, stored, head, known, paired, faults, lost>>

\* This task is not retried: whatever fails in it is not done.
LoseStart(t) ==
    /\ tasks[t].kind = "autostart" /\ tasks[t].at \notin {"done", "failed"}
    /\ lost < MaxLost
    /\ lost' = lost + 1
    /\ tasks' = At(t, "failed")
    /\ UNCHANGED <<coalescing, request, stored, head, known, paired, jobs, faults>>

\* The index task: it ends the job, and skips one that is pending no more.
Index(j) ==
    /\ jobs[j].sent /\ jobs[j].status = "pending"
    /\ jobs' = [jobs EXCEPT ![j].status = "done"]
    /\ UNCHANGED <<coalescing, request, stored, head, known, paired, tasks, faults, lost>>

-----------------------------------------------------------------------------

Ingest(q) == Insert(q) \/ Acknowledge(q) \/ EnqueueEvent(q)

Work(t) ==
    \/ ProcessEvent(t) \/ EnqueueResolution(t)
    \/ Resolve(t) \/ PostOutcome(t)
    \/ Start(t) \/ InsertJob(t) \/ SendJob(t)

Fault(t) ==
    FailEvent(t) \/ LoseResolution(t) \/ FailResolve(t) \/ FailPostOutcome(t) \/ LoseStart(t)

Next ==
    \/ \E d \in Deliveries : Receive(d)
    \/ \E q \in DOMAIN request : Ingest(q) \/ LoseEvent(q)
    \/ \E t \in DOMAIN tasks : Work(t) \/ Fault(t)
    \/ \E j \in DOMAIN jobs : Index(j)

\* Requests are answered, and workers take every message of their queues.
Fairness ==
    /\ \A q \in 1..MaxRequests : WF_vars(q \in DOMAIN request /\ Ingest(q))
    /\ \A t \in 1..MaxTasks : WF_vars(t \in DOMAIN tasks /\ Work(t))
    /\ \A j \in 1..MaxTasks : WF_vars(j \in DOMAIN jobs /\ Index(j))

Spec == Init /\ [][Next]_vars /\ Fairness

-----------------------------------------------------------------------------
(* Properties.                                                             *)

Places == {"queued", "follow", "applied", "stale", "insert", "send", "done", "failed"}

\* Types; the task that a job belongs to exists; fewer tasks than are looked at.
TypeOK ==
    /\ head \in known /\ known \subseteq Revs \cup {0} /\ paired \subseteq known
    /\ stored \subseteq Deliveries
    /\ \A j \in DOMAIN jobs : /\ jobs[j].rev \in known
                              /\ jobs[j].status \in {"pending", "done", "failed", "superseded"}
    /\ \A t \in DOMAIN tasks : /\ tasks[t].at \in Places
                               /\ tasks[t].job \in 0..Len(jobs)
                               /\ tasks[t].retries \in 0..MaxRetries
    /\ Len(tasks) <= MaxTasks /\ Len(jobs) <= MaxTasks

\* However often and however concurrently GitHub posts a delivery, one event task is
\* enqueued for it (try_record_delivery).
ProcessedOnce ==
    \A t, u \in DOMAIN tasks : IsEvent(t) /\ tasks[t].kind = tasks[u].kind => t = u

GaveUp(r) == \E t \in DOMAIN tasks : IsResolution(t) /\ tasks[t].rev = r /\ tasks[t].at = "failed"

PairedOrGivenUp(r) == r \in paired \/ GaveUp(r)

\* "The review pipeline does not start until pairing finishes" (workers/github_tasks.py):
\* an index task of a push is enqueued after its findings were paired, or after the last
\* attempt to pair them failed, whatever retries and hand-overs lie between.
PairedBeforeIndex == \A j \in DOMAIN jobs : jobs[j].sent => PairedOrGivenUp(jobs[j].rev)

\* At most one delivery pushes r.
PushedOnce(r) == \A d, e \in Deliveries : RevOf[d] = r /\ RevOf[e] = r => d = e

\* The same for revisions that are pushed once.
NewPushIsPaired ==
    \A j \in DOMAIN jobs :
        jobs[j].sent /\ PushedOnce(jobs[j].rev) => PairedOrGivenUp(jobs[j].rev)

\* No index job is left pending: it is released, failed or superseded, although its task
\* waits behind a resolution that may fail, be retried or be overtaken.
JobsSettle ==
    \A j \in 1..MaxTasks :
        j \in DOMAIN jobs ~> lost > 0 \/ (j \in DOMAIN jobs => jobs[j].status # "pending")

Started(r) == \E j \in DOMAIN jobs : jobs[j].rev = r /\ (jobs[j].sent \/ jobs[j].status = "failed")

\* The pipeline starts for the head, or its job is failed and its check concluded; with
\* coalescing it starts even if the pairing fails for good.
HeadIsStarted ==
    \A r \in Revs : head = r ~> lost > 0 \/ head # r \/ Started(r)

=============================================================================
