--------------------------- MODULE PipelineTrace ---------------------------
(***************************************************************************)
(* The pipeline run of one generation and the GitHub check run that tells  *)
(* the pull request about it: opened with the index job, put back in       *)
(* progress when the index task starts, and concluded by whichever task    *)
(* ends the pipeline.  The tasks hand over to one another, so one of them  *)
(* is at work; pushes to the pull request come in between.                 *)
(*                                                                         *)
(* A check run's identifier is its index in check, 0 stands for none.      *)
(* Calls to the broker that raise are taken not to have delivered.         *)
(***************************************************************************)
EXTENDS Naturals, Sequences

CONSTANTS
    MaxRetries,  \* max_retries of the tasks
    MaxFaults    \* bound: rollbacks of webhooks, calls GitHub does not answer, workers killed

VARIABLES
    head,        \* the revision is the pull request's head
    reviewable,  \* the pull request is open and no draft
    hook,        \* the webhook that starts the generation, and the check it opened
    push,        \* the webhook of a newer push: none, told (not committed), done
    job, run, pub,  \* status of the index job, the review run, the publish job
    task,        \* the task at work
    saved,       \* the check run stored with the index step
    target,      \* the check run copied to the publish job
    steps,       \* the steps recorded
    check,       \* GitHub: the check runs
    faults,      \* faults so far
    excuse       \* history: why the check may be left as it was

rows  == <<job, run, pub>>
pull  == <<head, reviewable, hook, push>>
trace == <<saved, target, steps>>
told  == <<check, faults, excuse>>
vars  == <<pull, rows, task, trace, told>>

Conclusions == {"published", "failure", "neutral"}

Init ==
    /\ head = TRUE
    /\ reviewable = TRUE
    /\ hook = [at |-> "begun", check |-> 0]
    /\ push = "none"
    /\ job = "none" /\ run = "none" /\ pub = "none"
    /\ task = [at |-> "none", left |-> 0, piped |-> FALSE]
    /\ saved = 0 /\ target = 0
    /\ steps = [review |-> 0, reconcile |-> 0, publish |-> 0]
    /\ check = <<>>
    /\ faults = 0
    /\ excuse = {}

-----------------------------------------------------------------------------

Faulty == faults < MaxFaults /\ faults' = faults + 1

\* The webhook of a newer push holds the rows it supersedes until it commits.
Held == push = "told"

\* update_check_run of id; an HTTP error is logged and forgotten.
Tell(id, what) ==
    \/ id = 0 /\ UNCHANGED told
    \/ id # 0 /\ check' = [check EXCEPT ![id] = what] /\ UNCHANGED <<faults, excuse>>
    \/ id # 0 /\ Faulty /\ excuse' = excuse \cup {"unanswered"} /\ UNCHANGED check

\* create_check_run: the check run, if its identifier comes back, is the last.
Create(id) ==
    \/ check' = Append(check, "progress") /\ id = Len(check) + 1 /\ UNCHANGED faults
    \/ check' \in {check, Append(check, "progress")} /\ id = 0 /\ Faulty

\* A check run that is put in progress; a push may have told it already.
Reopen ==
    /\ \/ saved = 0 /\ Create(saved')
       \/ saved # 0 /\ check' = [check EXCEPT ![saved] = "progress"] /\ UNCHANGED <<saved, faults>>
       \/ saved # 0 /\ Faulty /\ UNCHANGED <<saved, check>>
    /\ excuse' = excuse \cup IF Held \/ job = "superseded" THEN {"reopened"} ELSE {}

Starts(at) == task' = [task EXCEPT !.at = at, !.left = MaxRetries]
Goes(at)   == task' = [task EXCEPT !.at = at]
Ends       == Goes("over")

\* Fault: the retries are not counted.
RetriesForEver(ats, from) ==
    /\ task.at \in ats
    /\ task.left > 0
    /\ task' = [task EXCEPT !.at = from]

\* A transient error: the task runs again from its start.
Retries(ats, from) ==
    /\ task.at \in ats
    /\ task.left > 0
    /\ task' = [task EXCEPT !.at = from, !.left = @ - 1]

Recorded(step) == steps' = [steps EXCEPT ![step] = @ + 1]

-----------------------------------------------------------------------------
(* The webhook that starts the generation.                                 *)

\* The check run is opened before the job is committed.
Provision ==
    /\ hook.at = "begun"
    /\ \E id \in 0..(Len(check) + 1) : Create(id) /\ hook' = [at |-> "queued", check |-> id]
    /\ UNCHANGED <<head, reviewable, push, rows, task, trace, excuse>>

CommitHook ==
    /\ hook.at = "queued"
    /\ hook' = [hook EXCEPT !.at = "done"]
    /\ job' = "pending"
    /\ saved' = hook.check
    /\ Starts("index")
    /\ UNCHANGED <<head, reviewable, push, run, pub, target, steps, told>>

\* Rolled back and tried again: the check run stays behind at GitHub.
AbortHook ==
    /\ hook.at = "queued"
    /\ Faulty
    /\ hook' = [at |-> "begun", check |-> 0]
    /\ UNCHANGED <<head, reviewable, push, rows, task, trace, check, excuse>>

-----------------------------------------------------------------------------
(* index_pull_request_revision.                                            *)

\* A job that is no longer open is left alone; the check is only touched for
\* the head.
BeginIndex ==
    /\ task.at = "index"
    /\ IF job # "pending" THEN Ends
       ELSE task' = [task EXCEPT !.at = IF head THEN "opening" ELSE "claim", !.piped = head]
    /\ excuse' = excuse \cup IF job = "pending" /\ ~head THEN {"not head"} ELSE {}
    /\ UNCHANGED <<pull, rows, trace, check, faults>>

\* start_pipeline_github_check: the head is read again for a check that exists.
OpenCheck ==
    /\ task.at = "opening"
    /\ IF saved = 0 \/ head THEN Reopen ELSE UNCHANGED <<saved, told>>
    /\ Goes("claim")
    /\ UNCHANGED <<pull, rows, target, steps>>

\* run_index_job takes the job, or finds it superseded and tells it failed.
ClaimIndex ==
    /\ task.at = "claim"
    /\ ~Held
    /\ IF job = "pending" THEN Goes("indexing") /\ UNCHANGED told
       ELSE Ends /\ Tell(IF task.piped THEN saved ELSE 0, "failure")
    /\ UNCHANGED <<pull, rows, trace>>

\* Fault: a draft's check is left in progress.
NoReviewUntold(what) == Ends /\ Tell(IF task.piped /\ reviewable THEN saved ELSE 0, what)

\* The outcome without a review; the check of a task that began off the head is
\* not told.
NoReview(what) == Ends /\ Tell(IF task.piped THEN saved ELSE 0, what)

IndexFailed ==
    /\ task.at = "indexing"
    /\ job' = "failed"
    /\ NoReview("failure")
    /\ UNCHANGED <<pull, run, pub, trace>>

\* The revision is indexed; prepare_review_after_index decides on the review.
Indexed == task.at = "indexing" /\ job' = "completed"

StartsReview ==
    /\ Indexed /\ reviewable /\ head
    /\ run' = "pending"
    /\ Starts("review")
    /\ UNCHANGED <<pull, pub, trace, told>>

\* Draft, closed, or no longer the head.
NotReviewable ==
    /\ Indexed /\ ~(reviewable /\ head)
    /\ NoReview("neutral")
    /\ UNCHANGED <<pull, run, pub, trace>>

\* No credit, or no embeddings.
ReviewRefused ==
    /\ Indexed /\ reviewable /\ head
    /\ NoReview("failure")
    /\ UNCHANGED <<pull, run, pub, trace>>

\* Another job or review of the revision is in progress: nothing is told.
ReviewConflicts ==
    /\ Indexed
    /\ Ends
    /\ excuse' = excuse \cup {"conflict"}
    /\ UNCHANGED <<pull, run, pub, trace, check, faults>>

RetryIndex ==
    /\ Retries({"opening", "claim", "indexing"}, "index")
    /\ UNCHANGED <<pull, rows, trace, told>>

MarkIndexFailed ==
    /\ task.at \in {"opening", "claim", "indexing"}
    /\ ~Held
    /\ job' = IF job = "superseded" THEN job ELSE "failed"
    /\ Ends
    /\ Tell(saved, "failure")
    /\ UNCHANGED <<pull, run, pub, trace>>

-----------------------------------------------------------------------------
(* review_pull_request_revision and reconcile_review_run.                  *)

\* The trace of the review is recorded by the first attempt that gets there.
RecordsReview == IF steps.review > 0 THEN UNCHANGED steps ELSE Recorded("review")

\* A first attempt takes the run and commits it; a retry goes on with its run.
StartReview ==
    /\ task.at = "review"
    /\ ~Held
    /\ run \in {"pending", "processing"}
    /\ run' = "processing"
    /\ Goes("reviewing")
    /\ UNCHANGED <<pull, job, pub, trace, told>>

\* Superseded: nothing is recorded.
SkipReview ==
    /\ task.at \in {"review", "reviewing"}
    /\ run = "superseded"
    /\ Ends
    /\ UNCHANGED <<pull, rows, trace, told>>

\* The run is completed with its trace, or was before.
CompleteReview ==
    /\ \/ task.at = "reviewing" /\ run = "processing"
       \/ task.at = "review" /\ run = "completed"
    /\ ~Held
    /\ run' = "completed"
    /\ RecordsReview
    /\ Goes("reviewed")
    /\ UNCHANGED <<pull, job, pub, saved, target, told>>

\* The model's answer is of no use: the run fails within the task.
ReviewFails ==
    /\ task.at = "reviewing" /\ run = "processing"
    /\ ~Held
    /\ run' = "failed"
    /\ RecordsReview
    /\ Ends
    /\ Tell(saved, "failure")
    /\ UNCHANGED <<pull, job, pub, saved, target>>

HandToReconcile == task.at = "reviewed" /\ Starts("reconcile") /\ UNCHANGED <<pull, rows, trace, told>>

RetryReview ==
    /\ Retries({"reviewing", "reviewed"}, "review")
    /\ UNCHANGED <<pull, rows, trace, told>>

\* persist_review_run_permanent_failure; the check fails whatever the run says.
MarkReviewFailed ==
    /\ task.at \in {"review", "reviewing", "reviewed"}
    /\ ~Held
    /\ run' = IF run = "completed" THEN run ELSE "failed"
    /\ Ends
    /\ Tell(saved, "failure")
    /\ UNCHANGED <<pull, job, pub, trace>>

\* Findings, judge and both steps are committed, then the publish task is sent.
Reconcile ==
    /\ task.at = "reconcile"
    /\ Recorded("reconcile")
    /\ Goes("reconciled")
    /\ UNCHANGED <<pull, rows, saved, target, told>>

HandToPublish == task.at = "reconciled" /\ Starts("resolve") /\ UNCHANGED <<pull, rows, trace, told>>

RetryReconcile ==
    /\ Retries({"reconcile", "reconciled"}, "reconcile")
    /\ UNCHANGED <<pull, rows, trace, told>>

\* Any error is retried here; only the last one is told.
ReconcileFailed ==
    /\ task.at \in {"reconcile", "reconciled"}
    /\ task.left = 0
    /\ Ends
    /\ Tell(saved, "failure")
    /\ UNCHANGED <<pull, rows, trace>>

-----------------------------------------------------------------------------
(* publish_for_review_run and publish_review_run.                          *)

\* The publish job takes over the check run of the pipeline.
InsertPublish ==
    /\ task.at = "resolve"
    /\ pub' = "pending"
    /\ target' = saved
    /\ Starts("publish")
    /\ UNCHANGED <<pull, job, run, saved, steps, told>>

RetryResolve ==
    /\ Retries({"resolve"}, "resolve")
    /\ UNCHANGED <<pull, rows, trace, told>>

\* Without a publish job there is nothing to mark and nothing is told.
ResolveFailed ==
    /\ task.at = "resolve"
    /\ Ends
    /\ excuse' = excuse \cup {"no publish job"}
    /\ UNCHANGED <<pull, rows, trace, check, faults>>

\* The head is read before and after GitHub is written to.
SkipPublish ==
    /\ task.at \in {"publish", "flushed"}
    /\ ~head
    /\ pub' = "skipped"
    /\ Recorded("publish")
    /\ Ends
    /\ Tell(saved, "neutral")
    /\ UNCHANGED <<pull, job, run, saved, target>>

\* The check run is completed, or one made for a job that has none.
Flush ==
    /\ task.at = "publish"
    /\ pub = "pending"
    /\ check' = IF target = 0 THEN Append(check, "published")
                ELSE [check EXCEPT ![target] = "published"]
    /\ target' = IF target = 0 THEN Len(check) + 1 ELSE target
    /\ Goes("flushed")
    /\ UNCHANGED <<pull, rows, saved, steps, faults, excuse>>

CommitPublish ==
    /\ task.at = "flushed"
    /\ pub' = "completed"
    /\ Recorded("publish")
    /\ Ends
    /\ UNCHANGED <<pull, job, run, saved, target, told>>

RetryPublish ==
    /\ Retries({"publish", "flushed"}, "publish")
    /\ UNCHANGED <<pull, rows, trace, told>>

PublishFailed ==
    /\ task.at \in {"publish", "flushed"}
    /\ pub' = "failed"
    /\ Ends
    /\ Tell(saved, "failure")
    /\ UNCHANGED <<pull, job, run, trace>>

-----------------------------------------------------------------------------
(* What happens meanwhile.                                                 *)

JobFree == job = "pending" /\ task.at # "indexing"

\* A job that no worker holds, or a review that is not over.
Supersedable == JobFree \/ run \in {"pending", "processing"}

\* A newer push: the check is told before the rows are committed.
Supersede ==
    /\ push = "none"
    /\ hook.at = "done"
    /\ Supersedable
    /\ push' = "told"
    /\ Tell(saved, "neutral")
    /\ UNCHANGED <<head, reviewable, hook, rows, task, trace>>

CommitSupersede ==
    /\ push = "told"
    /\ push' = "done"
    /\ head' = FALSE
    /\ job' = IF job = "pending" THEN "superseded" ELSE job
    /\ run' = IF run \in {"pending", "processing"} THEN "superseded" ELSE run
    /\ UNCHANGED <<reviewable, hook, pub, task, trace, told>>

\* Rolled back: the check says superseded and nothing is.
AbortSupersede ==
    /\ push = "told"
    /\ Faulty
    /\ push' = "none"
    /\ UNCHANGED <<head, reviewable, hook, rows, task, trace, check, excuse>>

\* A push that supersedes nothing, or an opened event that comes late and sets
\* the head back.
MoveHead ==
    /\ push = "none"
    /\ hook.at = "done"
    /\ push' = "done"
    /\ head' = FALSE
    /\ UNCHANGED <<reviewable, hook, rows, task, trace, told>>

ConvertToDraft ==
    /\ reviewable
    /\ reviewable' = FALSE
    /\ UNCHANGED <<head, hook, push, rows, task, trace, told>>

\* The worker is killed: the message was acknowledged when it was received.
Lose ==
    /\ task.at \notin {"none", "over"}
    /\ Faulty
    /\ excuse' = excuse \cup {"killed"}
    /\ Ends
    /\ UNCHANGED <<pull, rows, trace, check>>

\* The retention of the trace is over, long after the pipeline is.
Purge ==
    /\ task.at = "over" /\ ~Held
    /\ saved # 0
    /\ saved' = 0
    /\ steps' = [s \in DOMAIN steps |-> 0]
    /\ UNCHANGED <<pull, rows, task, target, told>>

-----------------------------------------------------------------------------

IndexStep ==
    \/ BeginIndex \/ OpenCheck \/ ClaimIndex \/ IndexFailed \/ StartsReview \/ NotReviewable
    \/ ReviewRefused \/ ReviewConflicts \/ RetryIndex \/ MarkIndexFailed

ReviewStep ==
    \/ StartReview \/ SkipReview \/ CompleteReview \/ ReviewFails \/ HandToReconcile \/ RetryReview
    \/ MarkReviewFailed \/ Reconcile \/ HandToPublish \/ RetryReconcile \/ ReconcileFailed

PublishStep ==
    \/ InsertPublish \/ RetryResolve \/ ResolveFailed \/ SkipPublish \/ Flush \/ CommitPublish
    \/ RetryPublish \/ PublishFailed

Next ==
    \/ Provision \/ CommitHook \/ AbortHook
    \/ IndexStep \/ ReviewStep \/ PublishStep
    \/ Supersede \/ CommitSupersede \/ AbortSupersede
    \/ MoveHead \/ ConvertToDraft \/ Lose \/ Purge

\* Tasks run, and webhooks commit or abort.
Work ==
    \/ CommitHook \/ AbortHook \/ CommitSupersede \/ AbortSupersede
    \/ IndexStep \/ ReviewStep \/ PublishStep

Spec == Init /\ [][Next]_vars /\ WF_vars(Work)

-----------------------------------------------------------------------------

\* Every variable holds a value of its type.
TypeOK ==
    /\ head \in BOOLEAN /\ reviewable \in BOOLEAN
    /\ hook \in [at : {"begun", "queued", "done"}, check : Nat]
    /\ push \in {"none", "told", "done"}
    /\ job \in {"none", "pending", "completed", "failed", "superseded"}
    /\ run \in {"none", "pending", "processing", "completed", "failed", "superseded"}
    /\ pub \in {"none", "pending", "completed", "failed", "skipped"}
    /\ task \in [at : {"none", "index", "opening", "claim", "indexing", "review", "reviewing",
                       "reviewed", "reconcile", "reconciled", "resolve", "publish", "flushed",
                       "over"},
                 left : 0..MaxRetries, piped : BOOLEAN]
    /\ saved \in 0..Len(check) /\ target \in 0..Len(check)
    /\ steps \in [{"review", "reconcile", "publish"} -> Nat]
    /\ check \in Seq({"progress"} \cup Conclusions)
    /\ faults \in 0..MaxFaults
    /\ excuse \subseteq {"unanswered", "not head", "conflict", "no publish job", "killed", "reopened"}

Settled == task.at = "over" /\ ~Held

\* Once the pipeline is over, the check run stored with it no longer says in
\* progress, and says what became of the pipeline: published exactly if the
\* publish job completed, failed if its last row failed, neutral if it was
\* skipped; unless GitHub refused a call, a worker was killed, or the code
\* leaves the check to another pipeline (the excuses).
CheckTellsTheEnd ==
    Settled /\ saved # 0 /\ excuse = {} =>
        /\ check[saved] # "progress"
        /\ (check[saved] = "published") <=> (pub = "completed")
        /\ "failed" \in {job, run, pub} => check[saved] = "failure"
        /\ pub = "skipped" => check[saved] = "neutral"

\* Retries of the review task record one review step, though the transaction
\* that records it may have committed before the attempt that retries.
OneReviewStep == steps.review <= 1

\* A published result is not overwritten: neither by a push that comes later
\* nor by a task that fails after the publish job completed.
ResultStaysStep == pub = "completed" => UNCHANGED check

\* The tasks of a pipeline come to an end: retries are bounded and a superseded
\* run is noticed.
PipelineEnds == hook.at = "done" ~> task.at = "over"

\* supersede_stale_generations_for_new_revision: "supersede in-flight runs on
\* older revisions and neutralize G10 checks".
SupersededIsNeutral ==
    Settled /\ saved # 0 /\ excuse = {} /\ "superseded" \in {job, run} => check[saved] = "neutral"
=============================================================================
