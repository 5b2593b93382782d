------------------------ MODULE GenerationLifecycle ------------------------
(***************************************************************************)
(* The review generations of one pull request: the webhook transactions    *)
(* that move the head and supersede what is in flight, the resolution,     *)
(* index and review tasks and the manual API, over one PostgreSQL database *)
(* at READ COMMITTED.                                                      *)
(*                                                                         *)
(* A variable holds the committed value of a column.  What an open         *)
(* transaction has written and not committed is kept with the transaction  *)
(* (hook[h], api, or the program counter of a task): others read the       *)
(* committed value, and an UPDATE of a row that is locked waits.           *)
(*                                                                         *)
(* A generation g is an index job and the review run the job leads to;     *)
(* genSha[g] is the revision both work on.  A revision is named by its     *)
(* head SHA.                                                               *)
(***************************************************************************)
EXTENDS Integers, FiniteSets

CONSTANTS
    Shas,            \* commits that are ever the head of the pull request
    FirstSha,        \* the commit the pull request was opened with
    NoSha,           \* no pull request row yet
    Hooks,           \* slots for transactions of the github_events queue
    MaxGens,         \* bound: events and API calls that may start a generation
    ReviewRunLimit,  \* workspaces.review_run_limit
    MaxRetries,      \* max_retries of the review task
    MaxCrashes,      \* bound: workers killed, and enqueues the broker refused
    Endpoints,       \* which of the manual endpoints are called: "index", "review"
    LateOpened       \* may "opened" be processed after a "synchronize"?

ASSUME ConstantsAssumption ==
    /\ FirstSha \in Shas
    /\ NoSha \notin Shas
    /\ MaxGens \in Nat
    /\ ReviewRunLimit \in Nat
    /\ MaxRetries \in Nat
    /\ MaxCrashes \in Nat
    /\ Endpoints \subseteq {"index", "review"}
    /\ LateOpened \in BOOLEAN

Gens == 1..MaxGens

VARIABLES
    headSha,        \* pull_requests.head_sha
    revisionNumber, \* revisions.revision_number, 0 while the commit has no revision
    revisionCount,  \* pull_requests.revision_count
    reviewable,     \* pull_requests.state is open and not is_draft
    openedQueued,   \* the "opened" delivery is not processed yet
    started,        \* generation numbers handed out
    genSha,         \* revision_id of the index job and of the review run
    trigger,        \* index_jobs.trigger_source
    jobStatus,      \* index_jobs.status; "superseded" is failed with SUPERSEDED_INDEX_ERROR
    indexTask,      \* where the Celery task of the index job is
    runStatus,      \* review_runs.status
    reviewTask,     \* where the Celery task of the review run is
    retries,        \* retries the review task has used
    findings,       \* does the run have rows in github_findings?
    reconciled,     \* runs handed to the reconciliation queue
    completedRuns,  \* workspaces.completed_review_runs
    hook,           \* the transactions of process_github_event
    api,            \* the request transaction of the manual endpoints
    crashes         \* workers killed so far

prVars  == <<headSha, revisionNumber, revisionCount, reviewable, openedQueued>>
jobVars == <<trigger, jobStatus, indexTask>>
runVars == <<runStatus, reviewTask, retries, findings, reconciled, completedRuns>>
vars    == <<prVars, started, genSha, jobVars, runVars, hook, api, crashes>>

ActiveRun   == {"pending", "processing"}
RunStatuses == ActiveRun \cup {"none", "completed", "failed", "superseded"}
JobStatuses == {"none", "pending", "completed", "failed", "superseded"}

\* The index task claims its job and commits nothing before the end: at these
\* the row is locked and its committed status is still pending.
Locking == {"indexing", "review", "noReview"}

NoHook == [phase |-> "idle", kind |-> "none", sha |-> NoSha, pass |-> "same",
           locksPr |-> FALSE, reviewable |-> FALSE, picked |-> {}, runs |-> {},
           jobs |-> {}, gen |-> 0]

NoRequest == [kind |-> "none", sha |-> NoSha, gen |-> 0]

Init ==
    /\ headSha = NoSha
    /\ revisionNumber = [s \in Shas |-> 0]
    /\ revisionCount = 0
    /\ reviewable = FALSE
    /\ openedQueued = TRUE
    /\ started = 0
    /\ genSha = [g \in Gens |-> NoSha]
    /\ trigger = [g \in Gens |-> "none"]
    /\ jobStatus = [g \in Gens |-> "none"]
    /\ indexTask = [g \in Gens |-> "none"]
    /\ runStatus = [g \in Gens |-> "none"]
    /\ reviewTask = [g \in Gens |-> "none"]
    /\ retries = [g \in Gens |-> 0]
    /\ findings = [g \in Gens |-> FALSE]
    /\ reconciled = {}
    /\ completedRuns = 0
    /\ hook = [h \in Hooks |-> NoHook]
    /\ api = NoRequest
    /\ crashes = 0

-----------------------------------------------------------------------------
(* Queries over committed rows, and row locks.                             *)

IndexJobInProgress(s) == \E g \in Gens : genSha[g] = s /\ jobStatus[g] = "pending"

\* Fault: a run that is processing is not counted.
PendingReview(s)    == \E g \in Gens : genSha[g] = s /\ runStatus[g] = "pending"
ReviewInProgress(s) == \E g \in Gens : genSha[g] = s /\ runStatus[g] \in ActiveRun

Indexed(s)         == \E g \in Gens : genSha[g] = s /\ jobStatus[g] = "completed"
IsAuthoritative(s) == headSha = s

ActiveRunsOn(S)  == {g \in Gens : genSha[g] \in S /\ runStatus[g] \in ActiveRun}

\* Fault: jobs are selected by the status a job only has while uncommitted.
ProcessingJobsOn(S) == {g \in Gens : genSha[g] \in S /\ jobStatus[g] = "processing"}
PendingJobsOn(S)    == {g \in Gens : genSha[g] \in S /\ jobStatus[g] = "pending"}

\* Fault: the revision just before n is kept.
WellOlderThan(n) == {s \in Shas : revisionNumber[s] \in 1..(n - 2)}
OlderThan(n)     == {s \in Shas : revisionNumber[s] \in 1..(n - 1)}

\* _append_revision: a commit without a revision takes the next number.
BoundNumber(s) == IF revisionNumber[s] = 0 THEN revisionCount + 1 ELSE revisionNumber[s]

PrLocked     == \E h \in Hooks : hook[h].locksPr
RunLocked(g) == \E h \in Hooks : g \in hook[h].runs
JobLocked(g) == indexTask[g] \in Locking \/ \E h \in Hooks : g \in hook[h].jobs

\* After the commit a worker enqueues the next task, unless it is killed first
\* or the broker refuses.
Enqueued(task, queue) ==
    \/ task = queue /\ UNCHANGED crashes
    \/ task = "lost" /\ crashes < MaxCrashes /\ crashes' = crashes + 1

-----------------------------------------------------------------------------
(* process_github_event: one transaction per delivery.                     *)

\* An idle slot takes the next delivery.
Takes(h) ==
    /\ hook[h].phase = "idle"
    /\ started < MaxGens
    /\ started' = started + 1

\* "opened" for a pull request Revy has not seen: row, revision 1, index job.
OpenPullRequest(h, ready) ==
    /\ Takes(h)
    /\ openedQueued
    /\ headSha = NoSha
    /\ ~PrLocked
    /\ openedQueued' = FALSE
    /\ headSha' = FirstSha
    /\ revisionNumber' = [revisionNumber EXCEPT ![FirstSha] = 1]
    /\ revisionCount' = 1
    /\ reviewable' = ready
    /\ IF ready
       THEN \E task \in {"queued", "lost"} :
              /\ genSha' = [genSha EXCEPT ![started'] = FirstSha]
              /\ trigger' = [trigger EXCEPT ![started'] = "autostart"]
              /\ jobStatus' = [jobStatus EXCEPT ![started'] = "pending"]
              /\ indexTask' = [indexTask EXCEPT ![started'] = task]
              /\ Enqueued(task, "queued")
       ELSE UNCHANGED <<genSha, jobVars, crashes>>
    /\ UNCHANGED <<runVars, hook, api>>

\* "opened" for a pull request a "synchronize" has created already: the head
\* moves to the first commit, with no revision and no pipeline.
OpenedLate(h, ready) ==
    /\ Takes(h)
    /\ openedQueued
    /\ headSha # NoSha
    /\ ~PrLocked
    /\ openedQueued' = FALSE
    /\ headSha' = FirstSha
    /\ reviewable' = ready
    /\ UNCHANGED <<revisionNumber, revisionCount, genSha, jobVars, runVars, hook, api, crashes>>

\* closed, reopened, converted_to_draft, ready_for_review: state columns only.
ChangeState(h) ==
    /\ Takes(h)
    /\ headSha # NoSha
    /\ ~PrLocked
    /\ reviewable' = ~reviewable
    /\ UNCHANGED <<headSha, revisionNumber, revisionCount, openedQueued, genSha, jobVars,
                   runVars, hook, api, crashes>>

\* "synchronize": the row is updated (and locked) unless the delivery repeats
\* what the row says; then runs on older revisions are selected.
BeginSynchronize(h, s, ready) ==
    LET writes == headSha # s \/ reviewable # ready \/ revisionNumber[s] = 0
    IN  /\ Takes(h)
        /\ LateOpened \/ ~openedQueued
        /\ writes => ~PrLocked
        /\ hook' = [hook EXCEPT ![h] =
             [phase |-> "runs", kind |-> "synchronize", sha |-> s, pass |-> "older",
              locksPr |-> writes, reviewable |-> ready,
              picked |-> ActiveRunsOn(OlderThan(BoundNumber(s))),
              runs |-> {}, jobs |-> {}, gen |-> started']]
        /\ UNCHANGED <<prVars, genSha, jobVars, runVars, api, crashes>>

\* "@revy review": the head's revision (appended when the head is an orphan).
BeginCommand(h) ==
    LET heals == revisionNumber[headSha] = 0
    IN  /\ headSha # NoSha
        /\ Takes(h)
        /\ reviewable
        /\ heals => ~PrLocked
        /\ hook' = [hook EXCEPT ![h] =
             [phase |-> "runs", kind |-> "command", sha |-> headSha, pass |-> "same",
              locksPr |-> heals, reviewable |-> reviewable,
              picked |-> ActiveRunsOn({headSha}),
              runs |-> {}, jobs |-> {}, gen |-> started']]
        /\ UNCHANGED <<prVars, genSha, jobVars, runVars, api, crashes>>

Scope(h) == IF hook[h].pass = "older" THEN OlderThan(BoundNumber(hook[h].sha))
                                      ELSE {hook[h].sha}

\* Fault: the selected rows are updated by id, without testing their status.
AllPicked(h) == hook[h].picked

\* The rows of the selection that a compare-and-set hits.
StillActive(h)  == {g \in hook[h].picked : runStatus[g] \in ActiveRun}
StillPending(h) == {g \in hook[h].picked : jobStatus[g] = "pending"}

\* _mark_review_run_ids_superseded_cas over the selected runs, then the
\* selection of the index jobs.
SupersedeRuns(h) ==
    /\ hook[h].phase = "runs"
    /\ \A g \in hook[h].picked : ~RunLocked(g)
    /\ hook' = [hook EXCEPT ![h].phase = "jobs",
                            ![h].runs = @ \cup StillActive(h),
                            ![h].picked = PendingJobsOn(Scope(h))]
    /\ UNCHANGED <<prVars, started, genSha, jobVars, runVars, api, crashes>>

\* A synchronize that bound an existing revision also supersedes what is in
\* flight on that revision.
HasSecondPass(w) ==
    w.kind = "synchronize" /\ w.pass = "older" /\ revisionNumber[w.sha] # 0

\* _mark_index_job_ids_superseded_cas: waits for the rows' locks, then only
\* rows that are still active are hit.
SupersedeJobs(h) ==
    /\ hook[h].phase = "jobs"
    /\ \A g \in hook[h].picked : ~JobLocked(g)
    /\ IF HasSecondPass(hook[h])
       THEN hook' = [hook EXCEPT ![h].phase = "runs", ![h].pass = "same",
                                 ![h].jobs = @ \cup StillPending(h),
                                 ![h].picked = ActiveRunsOn({hook[h].sha})]
       ELSE hook' = [hook EXCEPT ![h].phase = "check", ![h].jobs = @ \cup StillPending(h),
                                 ![h].picked = {}]
    /\ UNCHANGED <<prVars, started, genSha, jobVars, runVars, api, crashes>>

\* Fault: what the transaction has superseded itself still counts.
NothingCommittedInProgress(h) ==
    PendingJobsOn({hook[h].sha}) = {} /\ ActiveRunsOn({hook[h].sha}) = {}

\* The transaction sees its own writes and what others have committed.
NothingInProgress(h) ==
    /\ PendingJobsOn({hook[h].sha}) \subseteq hook[h].jobs
    /\ ActiveRunsOn({hook[h].sha}) \subseteq hook[h].runs

\* maybe_enqueue_pipeline_for_revision, its guards.
CheckInProgress(h) ==
    LET ready == IF hook[h].locksPr THEN hook[h].reviewable ELSE reviewable
    IN  /\ hook[h].phase = "check"
        /\ hook' = [hook EXCEPT ![h].phase =
             IF ready /\ NothingInProgress(h) THEN "insert" ELSE "commit"]
        /\ UNCHANGED <<prVars, started, genSha, jobVars, runVars, api, crashes>>

\* The rows the transaction wrote become visible, and the task of a new job
\* is enqueued: deferred behind the resolution task after a synchronize.
CommitHook(h) ==
    LET w == hook[h]
        superseded == [g \in Gens |-> IF g \in w.jobs THEN "superseded" ELSE jobStatus[g]]
    IN  /\ w.phase \in {"insert", "commit"}
        /\ headSha' = IF w.locksPr /\ w.kind = "synchronize" THEN w.sha ELSE headSha
        /\ reviewable' = IF w.locksPr /\ w.kind = "synchronize" THEN w.reviewable ELSE reviewable
        /\ revisionCount' = IF revisionNumber[w.sha] = 0 THEN revisionCount + 1 ELSE revisionCount
        /\ revisionNumber' = [revisionNumber EXCEPT ![w.sha] = BoundNumber(w.sha)]
        /\ runStatus' = [g \in Gens |-> IF g \in w.runs THEN "superseded" ELSE runStatus[g]]
        /\ IF w.phase = "insert"
           THEN LET queue == IF w.kind = "synchronize" THEN "deferred" ELSE "queued"
                IN  /\ genSha' = [genSha EXCEPT ![w.gen] = w.sha]
                    /\ trigger' = [trigger EXCEPT ![w.gen] =
                         IF w.kind = "synchronize" THEN "autostart" ELSE "command"]
                    /\ jobStatus' = [superseded EXCEPT ![w.gen] = "pending"]
                    /\ \E task \in {queue, "lost"} :
                         /\ indexTask' = [indexTask EXCEPT ![w.gen] = task]
                         /\ Enqueued(task, queue)
           ELSE /\ jobStatus' = superseded
                /\ UNCHANGED <<genSha, trigger, indexTask, crashes>>
        /\ hook' = [hook EXCEPT ![h] = NoHook]
        /\ UNCHANGED <<openedQueued, started, reviewTask, retries, findings, reconciled,
                       completedRuns, api>>

\* An error rolls the transaction back; the delivery is retried as a new one.
AbortHook(h) ==
    /\ hook[h].phase # "idle"
    /\ hook' = [hook EXCEPT ![h] = NoHook]
    /\ UNCHANGED <<prVars, started, genSha, jobVars, runVars, api, crashes>>

-----------------------------------------------------------------------------
(* apply_resolution_for_synchronize: releases or fails the deferred job.   *)

\* Paired on the head: the index task is enqueued.
ApplyResolution(g) ==
    /\ indexTask[g] = "deferred"
    /\ IsAuthoritative(genSha[g])
    /\ indexTask' = [indexTask EXCEPT ![g] = "queued"]
    /\ UNCHANGED <<prVars, started, genSha, trigger, jobStatus, runVars, hook, api, crashes>>

\* Fault: the error is logged and the job is left as it is.
ForgetJob(g) == ~JobLocked(g) /\ UNCHANGED jobStatus

\* A plain write of failed.  A job superseded in between keeps its mark only
\* if the writer read the mark first.
FailJob(g) ==
    /\ ~JobLocked(g)
    /\ \E st \in {"failed"} \cup ({"superseded"} \cap {jobStatus[g]}) :
         jobStatus' = [jobStatus EXCEPT ![g] = st]

\* Stale revision, or retries used up: the deferred job is failed.
CleanUpResolution(g) ==
    /\ indexTask[g] = "deferred"
    /\ FailJob(g)
    /\ indexTask' = [indexTask EXCEPT ![g] = "done"]
    /\ UNCHANGED <<prVars, started, genSha, trigger, runVars, hook, api, crashes>>

-----------------------------------------------------------------------------
(* index_pull_request_revision and run_index_job.                          *)

IndexUnchanged == UNCHANGED <<prVars, started, genSha, trigger, hook, api, crashes>>

SkipIndex(g) ==
    /\ indexTask[g] = "queued"
    /\ jobStatus[g] # "pending"
    /\ indexTask' = [indexTask EXCEPT ![g] = "done"]
    /\ UNCHANGED <<jobStatus, runVars>> /\ IndexUnchanged

\* Compare-and-set pending -> processing, not committed: the row stays locked.
ClaimIndex(g) ==
    /\ indexTask[g] = "queued"
    /\ jobStatus[g] = "pending"
    /\ ~JobLocked(g)
    /\ indexTask' = [indexTask EXCEPT ![g] = "indexing"]
    /\ UNCHANGED <<jobStatus, runVars>> /\ IndexUnchanged

\* Fault: the jobs in progress are read before job g is completed.
JobsBeforeCompletion(g) == PendingJobsOn({genSha[g]})
OtherJobs(g)            == PendingJobsOn({genSha[g]}) \ {g}

\* The guards of prepare_review_after_index and create_review_run, for the
\* transaction that has just completed job g.
ReviewAllowed(g) ==
    LET s == genSha[g]
    IN  /\ trigger[g] # "manual"
        /\ reviewable
        /\ IsAuthoritative(s)
        /\ completedRuns < ReviewRunLimit
        /\ OtherJobs(g) = {}
        /\ ~ReviewInProgress(s)

\* The chunks are written and the review is decided, all uncommitted.
FinishIndex(g) ==
    /\ indexTask[g] = "indexing"
    /\ indexTask' = [indexTask EXCEPT ![g] = IF ReviewAllowed(g) THEN "review" ELSE "noReview"]
    /\ UNCHANGED <<jobStatus, runVars>> /\ IndexUnchanged

\* Job, chunks and review run become visible; the review task is enqueued.
CommitIndex(g) ==
    /\ indexTask[g] \in {"review", "noReview"}
    /\ jobStatus' = [jobStatus EXCEPT ![g] = "completed"]
    /\ indexTask' = [indexTask EXCEPT ![g] = "done"]
    /\ IF indexTask[g] = "review"
       THEN \E task \in {"queued", "lost"} :
              /\ runStatus' = [runStatus EXCEPT ![g] = "pending"]
              /\ reviewTask' = [reviewTask EXCEPT ![g] = task]
              /\ Enqueued(task, "queued")
       ELSE UNCHANGED <<runStatus, reviewTask, crashes>>
    /\ UNCHANGED <<prVars, started, genSha, trigger, retries, findings, reconciled,
                   completedRuns, hook, api>>

\* An error rolls the claim and the chunks back and gives the lock up ...
RollBackIndex(g) ==
    /\ indexTask[g] \in Locking
    /\ indexTask' = [indexTask EXCEPT ![g] = "failing"]
    /\ UNCHANGED <<jobStatus, runVars>> /\ IndexUnchanged

\* ... then the job is failed in a transaction of its own.
FailIndex(g) ==
    /\ indexTask[g] = "failing"
    /\ FailJob(g)
    /\ indexTask' = [indexTask EXCEPT ![g] = "done"]
    /\ UNCHANGED runVars /\ IndexUnchanged

CrashIndex(g) ==
    /\ indexTask[g] \in Locking \cup {"failing"}
    /\ crashes < MaxCrashes
    /\ crashes' = crashes + 1
    /\ indexTask' = [indexTask EXCEPT ![g] = "lost"]
    /\ UNCHANGED <<prVars, started, genSha, trigger, jobStatus, runVars, hook, api>>

-----------------------------------------------------------------------------
(* review_pull_request_revision and run_review_run.                        *)

ReviewUnchanged == UNCHANGED <<prVars, started, genSha, jobVars, hook, api>>

MoveReview(g, from, to) ==
    /\ reviewTask[g] = from
    /\ reviewTask' = [reviewTask EXCEPT ![g] = to]

\* Fault: a retried task does not resume its processing run.
FirstStart(g) == runStatus[g] = "pending"
Startable(g)  == runStatus[g] \in ActiveRun

SkipReview(g) ==
    /\ MoveReview(g, "queued", "done")
    /\ ~Startable(g)
    /\ UNCHANGED <<runStatus, retries, findings, reconciled, completedRuns, crashes>>
    /\ ReviewUnchanged

\* Compare-and-set pending -> processing, retrieval, and the observability
\* checkpoint that commits both; a retried task resumes a processing run.
StartReview(g) ==
    /\ MoveReview(g, "queued", "llm")
    /\ Startable(g)
    /\ runStatus[g] = "pending" => ~RunLocked(g)
    /\ runStatus' = [runStatus EXCEPT ![g] = "processing"]
    /\ UNCHANGED <<retries, findings, reconciled, completedRuns, crashes>>
    /\ ReviewUnchanged

\* A transient error while retrieving or calling the model.
RetryReview(g) ==
    /\ reviewTask[g] \in {"queued", "llm"}
    /\ Startable(g) \/ reviewTask[g] = "llm"
    /\ retries[g] < MaxRetries
    /\ retries' = [retries EXCEPT ![g] = @ + 1]
    /\ reviewTask' = [reviewTask EXCEPT ![g] = "queued"]
    /\ UNCHANGED <<runStatus, findings, reconciled, completedRuns, crashes>>
    /\ ReviewUnchanged

\* Unparsable answer, permanent error, time limit or no retries left: a plain
\* write of failed over an active or a superseded run.
FailReview(g) ==
    /\ reviewTask[g] \in {"queued", "llm", "writing", "completing"}
    /\ Startable(g) \/ reviewTask[g] # "queued"
    /\ ~RunLocked(g)
    /\ runStatus' = [runStatus EXCEPT ![g] = "failed"]
    /\ reviewTask' = [reviewTask EXCEPT ![g] = "done"]
    /\ UNCHANGED <<retries, findings, reconciled, completedRuns, crashes>>
    /\ ReviewUnchanged

\* The answer parsed: refresh; a superseded run is abandoned.
ParseReview(g) ==
    /\ MoveReview(g, "llm", IF runStatus[g] = "superseded" THEN "done" ELSE "writing")
    /\ UNCHANGED <<runStatus, retries, findings, reconciled, completedRuns, crashes>>
    /\ ReviewUnchanged

\* The findings are added to the session (autoflush is off: no INSERT yet);
\* refresh again.  An abandoned run deletes the rows in the table, and the
\* INSERTs still pending in the session are flushed by the task's commit.
AddFindings(g) ==
    /\ MoveReview(g, "writing", IF runStatus[g] = "superseded" THEN "done" ELSE "completing")
    /\ findings' = [findings EXCEPT ![g] = runStatus[g] = "superseded"]
    /\ UNCHANGED <<runStatus, retries, reconciled, completedRuns, crashes>>
    /\ ReviewUnchanged

\* Fault: the update only excludes runs that have ended.
NotEnded(g)    == runStatus[g] \notin {"completed", "failed"}
Completable(g) == runStatus[g] = "processing"

\* Faults: no cap; a cap that is one too low.
CreditUncapped == completedRuns + 1
CreditBelow    == IF completedRuns + 1 < ReviewRunLimit THEN completedRuns + 1 ELSE completedRuns
Credit         == IF completedRuns < ReviewRunLimit THEN completedRuns + 1 ELSE completedRuns

\* Compare-and-set processing -> completed, the credit, and the commit.
CompleteReview(g) ==
    /\ ~RunLocked(g)
    /\ MoveReview(g, "completing", IF Completable(g) THEN "handoff" ELSE "done")
    /\ findings' = [findings EXCEPT ![g] = TRUE]
    /\ runStatus' = [runStatus EXCEPT ![g] = IF Completable(g) THEN "completed" ELSE @]
    /\ completedRuns' = IF Completable(g) THEN Credit ELSE completedRuns
    /\ UNCHANGED <<retries, reconciled, crashes>>
    /\ ReviewUnchanged

HandOff(g) ==
    /\ MoveReview(g, "handoff", "done")
    /\ reconciled' = reconciled \cup {g}
    /\ UNCHANGED <<runStatus, retries, findings, completedRuns, crashes>>
    /\ ReviewUnchanged

CrashReview(g) ==
    /\ reviewTask[g] \in {"llm", "writing", "completing", "handoff"}
    /\ crashes < MaxCrashes
    /\ crashes' = crashes + 1
    /\ reviewTask' = [reviewTask EXCEPT ![g] = "lost"]
    /\ UNCHANGED <<runStatus, retries, findings, reconciled, completedRuns>>
    /\ ReviewUnchanged

-----------------------------------------------------------------------------
(* The manual endpoints: check, then insert and commit.                    *)

Requests(kind, s) ==
    /\ kind \in Endpoints
    /\ api = NoRequest
    /\ started < MaxGens
    /\ revisionNumber[s] # 0
    /\ started' = started + 1
    /\ api' = [kind |-> kind, sha |-> s, gen |-> started']
    /\ UNCHANGED <<prVars, genSha, jobVars, runVars, hook, crashes>>

RequestIndex(s) == ~IndexJobInProgress(s) /\ Requests("index", s)

RequestReview(s) ==
    /\ completedRuns < ReviewRunLimit
    /\ ~IndexJobInProgress(s)
    /\ Indexed(s)
    /\ ~ReviewInProgress(s)
    /\ Requests("review", s)

CommitRequest ==
    /\ api # NoRequest
    /\ genSha' = [genSha EXCEPT ![api.gen] = api.sha]
    /\ \E task \in {"queued", "lost"} :
         /\ Enqueued(task, "queued")
         /\ IF api.kind = "index"
            THEN /\ trigger' = [trigger EXCEPT ![api.gen] = "manual"]
                 /\ jobStatus' = [jobStatus EXCEPT ![api.gen] = "pending"]
                 /\ indexTask' = [indexTask EXCEPT ![api.gen] = task]
                 /\ UNCHANGED <<runStatus, reviewTask>>
            ELSE /\ runStatus' = [runStatus EXCEPT ![api.gen] = "pending"]
                 /\ reviewTask' = [reviewTask EXCEPT ![api.gen] = task]
                 /\ UNCHANGED jobVars
    /\ api' = NoRequest
    /\ UNCHANGED <<prVars, started, retries, findings, reconciled, completedRuns, hook>>

-----------------------------------------------------------------------------

HookStep(h) == SupersedeRuns(h) \/ SupersedeJobs(h) \/ CheckInProgress(h) \/ CommitHook(h)

IndexStep(g) ==
    \/ ApplyResolution(g) \/ CleanUpResolution(g)
    \/ SkipIndex(g) \/ ClaimIndex(g) \/ FinishIndex(g) \/ CommitIndex(g)
    \/ RollBackIndex(g) \/ FailIndex(g)

ReviewStep(g) ==
    \/ SkipReview(g) \/ StartReview(g) \/ RetryReview(g) \/ FailReview(g)
    \/ ParseReview(g) \/ AddFindings(g) \/ CompleteReview(g) \/ HandOff(g)

Delivery(h) ==
    \/ \E ready \in BOOLEAN : OpenPullRequest(h, ready) \/ OpenedLate(h, ready)
    \/ ChangeState(h)
    \/ \E s \in Shas, ready \in BOOLEAN : BeginSynchronize(h, s, ready)
    \/ BeginCommand(h)

\* Nothing is in flight: the service waits for the next delivery.
Quiet ==
    /\ \A h \in Hooks : hook[h].phase = "idle"
    /\ \A g \in Gens : /\ indexTask[g] \in {"none", "done", "lost"}
                       /\ reviewTask[g] \in {"none", "done", "lost"}
    /\ api = NoRequest

Wait == Quiet /\ UNCHANGED vars

Next ==
    \/ \E h \in Hooks : Delivery(h) \/ HookStep(h) \/ AbortHook(h)
    \/ \E g \in Gens : IndexStep(g) \/ CrashIndex(g) \/ ReviewStep(g) \/ CrashReview(g)
    \/ \E s \in Shas : RequestIndex(s) \/ RequestReview(s)
    \/ CommitRequest
    \/ Wait

\* Workers drain their queues and every external call has a timeout, so a task
\* or a transaction that can go on does; nobody has to push or to comment.
Fairness ==
    /\ \A h \in Hooks : WF_vars(HookStep(h))
    /\ \A g \in Gens : WF_vars(IndexStep(g)) /\ WF_vars(ReviewStep(g))
    /\ WF_vars(CommitRequest)

Spec == Init /\ [][Next]_vars /\ Fairness

-----------------------------------------------------------------------------
(* Correctness.                                                            *)

Hook == [phase : {"idle", "runs", "jobs", "check", "insert", "commit"},
         kind : {"none", "synchronize", "command"}, sha : Shas \cup {NoSha},
         pass : {"older", "same"}, locksPr : BOOLEAN, reviewable : BOOLEAN,
         picked : SUBSET Gens, runs : SUBSET Gens, jobs : SUBSET Gens, gen : 0..MaxGens]

Request == [kind : {"none", "index", "review"}, sha : Shas \cup {NoSha}, gen : 0..MaxGens]

\* The values of the columns, of the open transactions and of the tasks.
TypeOK ==
    /\ headSha \in Shas \cup {NoSha}
    /\ revisionNumber \in [Shas -> Nat]
    /\ revisionCount \in Nat
    /\ reviewable \in BOOLEAN
    /\ openedQueued \in BOOLEAN
    /\ started \in 0..MaxGens
    /\ genSha \in [Gens -> Shas \cup {NoSha}]
    /\ trigger \in [Gens -> {"none", "autostart", "command", "manual"}]
    /\ jobStatus \in [Gens -> JobStatuses]
    /\ indexTask \in [Gens -> {"none", "deferred", "queued", "failing", "done", "lost"} \cup Locking]
    /\ runStatus \in [Gens -> RunStatuses]
    /\ reviewTask \in [Gens -> {"none", "queued", "llm", "writing", "completing", "handoff",
                               "done", "lost"}]
    /\ retries \in [Gens -> 0..MaxRetries]
    /\ findings \in [Gens -> BOOLEAN]
    /\ reconciled \subseteq Gens
    /\ completedRuns \in 0..ReviewRunLimit
    /\ hook \in [Hooks -> Hook]
    /\ api \in Request
    /\ crashes \in 0..MaxCrashes

\* A row claimed by an uncommitted compare-and-set still satisfies the test.
RowsClaimed ==
    /\ \A h \in Hooks : \A g \in hook[h].runs : runStatus[g] \in ActiveRun
    /\ \A h \in Hooks : \A g \in hook[h].jobs :
         jobStatus[g] = "pending" /\ indexTask[g] \notin Locking
    /\ \A g \in Gens : indexTask[g] \in Locking => jobStatus[g] = "pending"

\* Two transactions never hold the same row.
OneOwner ==
    \A h, k \in Hooks :
        h # k => /\ hook[h].runs \cap hook[k].runs = {}
                 /\ hook[h].jobs \cap hook[k].jobs = {}

OnePrWriter == \A h, k \in Hooks : h # k => ~(hook[h].locksPr /\ hook[k].locksPr)

\* An index task and a webhook never both believe they decided a job, nor two
\* webhooks a run or the pull request: what a transaction has matched and not
\* committed stays as it matched it, and nobody else matches it.
ClaimsHold == RowsClaimed /\ OneOwner /\ OnePrWriter

\* A task that may still write an end finds its row without one: a completed
\* job has no task left to fail it, a completed run is past the last write of
\* its task, and a run has no index task that could start it again.
TasksAgree ==
    \A g \in Gens :
        /\ jobStatus[g] = "completed" => indexTask[g] = "done"
        /\ runStatus[g] # "none" => indexTask[g] \in {"none", "done"}
        /\ reviewTask[g] # "none" => runStatus[g] # "none"
        /\ runStatus[g] = "completed" => reviewTask[g] \in {"handoff", "done", "lost"}
        /\ reviewTask[g] = "handoff" => runStatus[g] = "completed"

\* A revision is never reviewed before one of its index jobs has completed,
\* and no later failure of a job takes the index away again.
ReviewedIsIndexed ==
    \A g \in Gens : runStatus[g] # "none" =>
        \E f \in Gens : genSha[f] = genSha[g] /\ jobStatus[f] = "completed"

Reviewing(g) == indexTask[g] = "review" \/ runStatus[g] \in ActiveRun

\* At most one review of a revision is pending or processing, counting the run
\* an index task has inserted and not committed.  Two index jobs of a revision
\* that finish together must not both start one.
OneReviewPerRevision ==
    \A f, g \in Gens : genSha[f] = genSha[g] /\ Reviewing(f) /\ Reviewing(g) => f = g

\* At most one index job of a revision is pending: a delivery supersedes what
\* it finds before it inserts.
OneIndexPerRevision ==
    \A f, g \in Gens :
        genSha[f] = genSha[g] /\ jobStatus[f] = "pending" /\ jobStatus[g] = "pending" => f = g

Completed == {g \in Gens : runStatus[g] = "completed"}

\* A workspace pays once for every completed run, up to its limit, whatever
\* was retried, superseded or crashed on the way.
CreditsMatchReviews ==
    completedRuns = IF Cardinality(Completed) < ReviewRunLimit
                    THEN Cardinality(Completed) ELSE ReviewRunLimit

\* What reaches the reconciliation queue was completed with its findings: a
\* run superseded while the model was answering never gets there.
ReconciledAreCompleted ==
    \A g \in reconciled : runStatus[g] = "completed" /\ findings[g]

\* A run or job that has completed is never failed or superseded afterwards,
\* though webhooks and error handlers write rows they read long before.
CompletedIsFinal ==
    [][\A g \in Gens :
         /\ runStatus[g] = "completed" => runStatus'[g] = "completed"
         /\ jobStatus[g] = "completed" => jobStatus'[g] = "completed"]_vars

\* A superseded run or job never comes back: a worker that was busy with it
\* can at most overwrite the mark with failed.
SupersededStaysDown ==
    [][\A g \in Gens :
         /\ runStatus[g] = "superseded" => runStatus'[g] \in {"superseded", "failed"}
         /\ jobStatus[g] = "superseded" => jobStatus'[g] \in {"superseded", "failed"}]_vars

\* The older revisions, as the committing delivery sees them.
OlderAfter(h) ==
    {s \in Shas : revisionNumber'[s] \in 1..(revisionNumber'[hook[h].sha] - 1)}

\* When a "synchronize" commits, no index job is pending on an older revision.
SynchronizeClearsOlderJobs ==
    [][\A h \in Hooks : hook[h].kind = "synchronize" /\ CommitHook(h) =>
         \A g \in Gens : genSha'[g] \in OlderAfter(h) => jobStatus'[g] # "pending"]_vars

\* When a "synchronize" commits, no review is pending or processing on an
\* older revision: "On synchronize: supersede in-flight runs on older
\* revisions" (supersede_stale_generations_for_new_revision).
SynchronizeClearsOlderRuns ==
    [][\A h \in Hooks : hook[h].kind = "synchronize" /\ CommitHook(h) =>
         \A g \in Gens : genSha'[g] \in OlderAfter(h) => runStatus'[g] \notin ActiveRun]_vars

\* A delivery that supersedes work on the revision it is about leaves other
\* work on that revision in its place, as long as the pull request can be
\* reviewed: the head is never left with superseded generations only.
SupersedingLeavesSuccessor ==
    [][\A h \in Hooks :
         /\ CommitHook(h) /\ reviewable'
         /\ \E g \in hook[h].runs \cup hook[h].jobs : genSha[g] = hook[h].sha
         => \E g \in Gens : /\ genSha'[g] = hook[h].sha
                            /\ \/ jobStatus'[g] \in {"pending", "failed"}
                               \/ runStatus'[g] \in ActiveRun \cup {"completed", "failed"}]_vars

\* The free tier: no more runs complete than the workspace may have.
ReviewsWithinLimit == Cardinality(Completed) <= ReviewRunLimit

\* How far generation g is, in the words of the contract: the run says, and
\* the index job while there is no run.
Stage(g) ==
    CASE runStatus[g] \in ActiveRun -> "reviewing"
      [] runStatus[g] \in RunStatuses \ (ActiveRun \cup {"none"}) -> runStatus[g]
      [] OTHER -> IF jobStatus[g] = "pending" THEN "indexing"
                  ELSE IF jobStatus[g] = "completed" THEN "indexed" ELSE jobStatus[g]

Promise == INSTANCE ReviewContract WITH
    Generations <- Gens, Limit <- ReviewRunLimit,
    stage <- [g \in Gens |-> Stage(g)], paid <- completedRuns, settled <- reconciled

\* Whatever the webhooks, workers and endpoints interleave, their committed
\* rows go through the steps of the contract and no others: one commit
\* supersedes and starts at once, an end is an end, a completion and its
\* credit are one step.
KeepsPromise == Promise!Contract

\* Every index job is decided.
IndexSettles ==
    \A g \in Gens : jobStatus[g] = "pending" ~> jobStatus[g] # "pending"

\* Every review ends failed, superseded, or completed and reconciled.
ReviewSettles ==
    \A g \in Gens :
        runStatus[g] \in ActiveRun ~> runStatus[g] \in {"failed", "superseded"} \/ g \in reconciled

\* The index job of a push or of a command leads to a review, unless it is
\* failed or superseded, or the review is not due: the head moved, the pull
\* request is closed or a draft, the limit is reached or a review is running.
ReviewFollowsIndex ==
    \A g \in Gens :
        indexTask[g] \in {"deferred", "queued", "indexing"} /\ trigger[g] # "manual" ~>
            \/ jobStatus[g] \in {"failed", "superseded"} \/ runStatus[g] # "none"
            \/ ~IsAuthoritative(genSha[g]) \/ ~reviewable
            \/ completedRuns >= ReviewRunLimit \/ ReviewInProgress(genSha[g])

\* "Automatic reviews on PR open and every push" (README.md): the only commit
\* that may take the place of a pushed one is another that has a revision.
PushIsReviewed ==
    \A g \in Gens :
        indexTask[g] \in {"deferred", "queued", "indexing"} /\ trigger[g] = "autostart" ~>
            \/ jobStatus[g] \in {"failed", "superseded"} \/ runStatus[g] # "none"
            \/ ~reviewable \/ completedRuns >= ReviewRunLimit \/ ReviewInProgress(genSha[g])
            \/ headSha # genSha[g] /\ revisionNumber[headSha] # 0

=============================================================================
