----------------------------- MODULE PublishJob -----------------------------
(***************************************************************************)
(* Publishing the completed reviews of one pull request: the jobs that     *)
(* write a review to GitHub (a check run, one issue comment, inline        *)
(* comments), the tasks that execute them, and pushes that move the head   *)
(* meanwhile.                                                              *)
(*                                                                         *)
(* job[j] is the committed row of a publish job; task[t].row is the copy   *)
(* the session of a task works on, written back whole at a commit.  What   *)
(* GitHub holds is three sequences: an object's identifier is its index,   *)
(* 0 stands for no identifier.                                             *)
(***************************************************************************)
EXTENDS Integers, Sequences, FiniteSets

CONSTANTS
    Shas,         \* head commits
    NoSha,        \* no commit yet
    Runs,         \* review runs that complete: numbers, in order of creation
    Findings,     \* finding groups that a run may report inline
    Openings,     \* whether the check run of a pipeline was opened
    MaxPushes,    \* bound: pushes
    MaxRequests,  \* bound: calls of the publish endpoint
    MaxRetries,   \* max_retries of the publish task
    Faults,       \* what may go wrong, of Fault below
    MaxFaults     \* bound: how often

\* A call fails and may be tried again, or may not; GitHub carries a call out
\* and its answer is lost; GitHub has no line to place an inline comment at; the
\* process ends.
Fault == {"transient", "permanent", "lost reply", "refused", "killed"}

ASSUME PublishAssumption ==
    /\ NoSha \notin Shas
    /\ Runs \subseteq Nat \ {0}
    /\ IsFiniteSet(Runs)
    /\ Openings \subseteq BOOLEAN
    /\ Faults \subseteq Fault
    /\ MaxPushes \in Nat /\ MaxRequests \in Nat /\ MaxRetries \in Nat /\ MaxFaults \in Nat

\* Every run is resolved once and every request dispatches once.
Slots == 1..(Cardinality(Runs) + MaxRequests)

VARIABLES
    head,           \* pull_requests.head_sha
    pushes,         \* pushes so far
    runSha,         \* the commit a completed run reviewed; absent runs have none
    runFindings,    \* its findings with a file and a line
    pipelineCheck,  \* the check run opened with its index job, if that succeeded
    resolver,       \* publish_for_review_run of the run: none, queued, done
    job,            \* github_publish_jobs
    created,        \* rows in job
    task,           \* publish_review_run and its session
    dispatched,     \* tasks handed out
    checks,         \* GitHub: check runs, what they say
    comments,       \* GitHub: issue comments, what they say
    inline,         \* GitHub: inline comments, live or deleted
    api,            \* the run of an open request of the publish endpoint, 0 if none
    requests,       \* requests so far
    faults          \* faults so far

gitHub  == <<checks, comments, inline>>
runVars == <<runSha, runFindings, pipelineCheck>>
vars == <<head, pushes, runVars, resolver, job, created, task, dispatched, gitHub, api,
          requests, faults>>

\* What a check run or a comment shows: the result of a run, with the findings
\* that could not be placed inline.
Result(r, F) == [says |-> "result", run |-> r, also |-> F]
Progress     == [says |-> "in progress", run |-> 0, also |-> {}]
Superseded   == [says |-> "superseded", run |-> 0, also |-> {}]
Failure      == [says |-> "failure", run |-> 0, also |-> {}]

Terminal == {"completed", "failed", "skipped"}
Open     == {"pending", "processing"}

NoJob  == [run |-> 0, status |-> "none", check |-> 0, comment |-> 0, threads |-> {},
           posted |-> FALSE]
\* row is the session's copy and base what its columns were when it last read
\* or committed them; kept are the findings posted before this attempt, other the
\* check run of another job for the same commit, posting and todo whether and
\* which findings are to be posted, recovered those GitHub refused to place, wrote
\* the inline comments this attempt has made.
NoTask == [job |-> 0, pc |-> "none", left |-> 0, locks |-> FALSE, row |-> NoJob, base |-> NoJob,
           kept |-> {}, other |-> 0, posting |-> FALSE, todo |-> {}, recovered |-> {}, wrote |-> {}]

Init ==
    /\ head \in Shas
    /\ pushes = 0
    /\ runSha = [r \in Runs |-> NoSha]
    /\ runFindings = [r \in Runs |-> {}]
    /\ pipelineCheck = [r \in Runs |-> 0]
    /\ resolver = [r \in Runs |-> "none"]
    /\ job = [j \in Slots |-> NoJob]
    /\ created = 0
    /\ task = [t \in Slots |-> NoTask]
    /\ dispatched = 0
    /\ checks = <<>>
    /\ comments = <<>>
    /\ inline = <<>>
    /\ api = 0
    /\ requests = 0
    /\ faults = 0

-----------------------------------------------------------------------------

Jobs      == 1..created
Sha(j)    == runSha[job[j].run]
IsHead(j) == Sha(j) = head

OpenJobs(r) == {j \in Jobs : job[j].run = r /\ job[j].status \in Open}
Latest(S)   == CHOOSE j \in S : \A k \in S : k <= j

\* Jobs whose check run or issue comment another job may take over.
Reusable == {j \in Jobs : job[j].status \in {"completed", "skipped"}}

\* find_publish_job_for_head_sha, unless that is j itself.
OtherCheck(j) ==
    LET S == {k \in Reusable : Sha(k) = Sha(j) /\ job[k].check # 0}
    IN  IF S = {} \/ Latest(S) = j THEN NoJob ELSE job[Latest(S)]

\* find_prior_issue_comment_id_for_pull_request.
PriorComment(j) ==
    LET S == {k \in Reusable \ {j} : job[k].comment # 0}
    IN  IF S = {} THEN 0 ELSE job[Latest(S)].comment

\* Findings that completed and failed jobs have a thread for.
PriorThreads == UNION {job[k].threads : k \in {k \in Jobs : job[k].status \in {"completed", "failed"}}}

LockedByOther(t) == \E u \in Slots : u # t /\ task[u].locks /\ task[u].job = task[t].job

\* An UPDATE writes the columns the session has changed.
Written(t, row) ==
    [f \in DOMAIN row |-> IF row[f] # task[t].base[f] THEN row[f] ELSE job[task[t].job][f]]

\* The session of t commits row, and its task goes on at pc.
Commit(t, row, pc) ==
    /\ ~LockedByOther(t)
    /\ job' = [job EXCEPT ![task[t].job] = Written(t, row)]
    /\ task' = [task EXCEPT ![t].row = row, ![t].base = row, ![t].locks = FALSE, ![t].pc = pc]

\* An object with this identifier says something else from now on.
Says(objects, id, what) == IF id = 0 THEN objects ELSE [objects EXCEPT ![id] = what]

Fails(kind) == kind \in Faults /\ faults < MaxFaults /\ faults' = faults + 1

\* The session rolls back; the task is tried again, or its job is to fail.
TriedAgain(t) ==
    task' = [task EXCEPT ![t] = [NoTask EXCEPT
        !.job = task[t].job,
        !.pc = IF task[t].left > 0 THEN "queued" ELSE "failing",
        !.left = IF task[t].left > 0 THEN task[t].left - 1 ELSE 0]]

\* A call that reaches GitHub: it is answered and then follows, or its answer is
\* lost and the caller takes the call for failed.
Answered(t, then) ==
    \/ task' = then /\ UNCHANGED faults
    \/ Fails("lost reply") /\ TriedAgain(t)

-----------------------------------------------------------------------------
(* Pushes, completed reviews, and the creation of jobs.                    *)

Push(s) ==
    /\ pushes < MaxPushes
    /\ s # head
    /\ head' = s
    /\ pushes' = pushes + 1
    /\ UNCHANGED <<runVars, resolver, job, created, task, dispatched, gitHub, api, requests, faults>>

\* A run completes, maybe of a commit that is the head no more; its check run was
\* opened with the index job, unless that call failed.
CompleteRun(r, s, F, opened) ==
    /\ runSha[r] = NoSha
    /\ \A q \in Runs : q < r => runSha[q] # NoSha
    /\ runSha' = [runSha EXCEPT ![r] = s]
    /\ runFindings' = [runFindings EXCEPT ![r] = F]
    /\ checks' = IF opened THEN Append(checks, Progress) ELSE checks
    /\ pipelineCheck' = [pipelineCheck EXCEPT ![r] = IF opened THEN Len(checks) + 1 ELSE 0]
    /\ resolver' = [resolver EXCEPT ![r] = "queued"]
    /\ UNCHANGED <<head, pushes, job, created, task, dispatched, comments, inline, api, requests, faults>>

\* A task for job j: left retries, none when the broker refuses and the API
\* runs it itself.
Dispatch(j, left) ==
    /\ dispatched' = dispatched + 1
    /\ task' = [task EXCEPT ![dispatched'] =
         [NoTask EXCEPT !.job = j, !.pc = "queued", !.left = left]]

\* Fault: a new job does not take over the check run of its pipeline.
InsertBare(r, check) ==
    /\ created' = created + 1
    /\ job' = [job EXCEPT ![created'] = [NoJob EXCEPT !.run = r, !.status = "pending"]]

Insert(r, check) ==
    /\ created' = created + 1
    /\ job' = [job EXCEPT ![created'] =
         [NoJob EXCEPT !.run = r, !.status = "pending", !.check = check]]

\* publish_for_review_run: takes an open job or creates one with the check run
\* of the pipeline.
Resolve(r) ==
    /\ resolver[r] = "queued"
    /\ resolver' = [resolver EXCEPT ![r] = "done"]
    /\ IF OpenJobs(r) = {}
       THEN Insert(r, pipelineCheck[r]) /\ Dispatch(created + 1, MaxRetries)
       ELSE /\ \E j \in OpenJobs(r) : Dispatch(j, MaxRetries)
            /\ UNCHANGED <<job, created>>
    /\ UNCHANGED <<head, pushes, runVars, gitHub, api, requests, faults>>

\* The endpoint publishes the latest completed run of a revision.
RequestPublish(r) ==
    /\ api = 0
    /\ requests < MaxRequests
    /\ requests' = requests + 1
    /\ runSha[r] # NoSha
    /\ \A q \in Runs : runSha[q] = runSha[r] => q <= r
    /\ IF OpenJobs(r) = {}
       THEN api' = r /\ UNCHANGED <<task, dispatched>>
       ELSE /\ \E j \in OpenJobs(r), left \in {0, MaxRetries} : Dispatch(j, left)
            /\ UNCHANGED api
    /\ UNCHANGED <<head, pushes, runVars, resolver, job, created, gitHub, faults>>

CommitRequest ==
    /\ api # 0
    /\ Insert(api, 0)
    /\ \E left \in {0, MaxRetries} : Dispatch(created + 1, left)
    /\ api' = 0
    /\ UNCHANGED <<head, pushes, runVars, resolver, gitHub, requests, faults>>

-----------------------------------------------------------------------------
(* publish_review_run and run_publish_job.                                 *)

Others == <<head, pushes, runVars, resolver, created, dispatched, api, requests>>

At(t, pc) == task[t].pc = pc
Goes(t, pc) == task' = [task EXCEPT ![t].pc = pc]

\* The row is loaded: a job that has ended is left alone.
Load(t) ==
    LET row == job[task[t].job]
    IN  /\ At(t, "queued")
        /\ task' = [task EXCEPT ![t].row = row, ![t].base = row, ![t].pc =
             IF row.status \in Terminal THEN "done"
             ELSE IF ~IsHead(task[t].job) THEN "skip"
             ELSE IF row.status = "pending" THEN "claim" ELSE "build"]
        /\ UNCHANGED <<Others, job, gitHub, faults>>

\* processing is flushed and not committed: the row is locked.
Claim(t) ==
    /\ At(t, "claim")
    /\ ~LockedByOther(t)
    /\ task' = [task EXCEPT ![t].row.status = "processing", ![t].locks = TRUE, ![t].pc = "build"]
    /\ UNCHANGED <<Others, job, gitHub, faults>>

\* Fault: everything is posted again on a retry.
AllFindings(t)  == runFindings[job[task[t].job].run]
NotYetPosted(t) == AllFindings(t) \ task[t].row.threads

\* _build_publish_surface reads what other jobs have written.  The row gets the
\* threads of other jobs; its own come back with the flush.
Build(t) ==
    LET j == task[t].job
        row == task[t].row
        other == OtherCheck(j)
        takesOver == row.check = 0 /\ other.check # 0
        posting == ~row.posted /\ (takesOver => ~other.posted)
    IN  /\ At(t, "build")
        /\ task' = [task EXCEPT ![t].pc = "flush",
             ![t].row.comment = IF @ = 0 THEN PriorComment(j) ELSE @,
             ![t].row.threads = PriorThreads,
             ![t].kept = row.threads,
             ![t].other = IF takesOver THEN other.check ELSE 0,
             ![t].posting = posting,
             ![t].todo = IF posting THEN NotYetPosted(t) ELSE {}]
        /\ UNCHANGED <<Others, job, gitHub, faults>>

-----------------------------------------------------------------------------
(* _flush_publish_surface.                                                 *)

\* The head is read again before anything is written.
Flush(t) ==
    /\ At(t, "flush")
    /\ IF IsHead(task[t].job)
       THEN task' = [task EXCEPT ![t].pc = "check",
              ![t].row.threads = @ \cup task[t].kept,
              ![t].row.check = IF @ = 0 THEN task[t].other ELSE @]
       ELSE Goes(t, "skip")
    /\ UNCHANGED <<Others, job, gitHub, faults>>

Shown(t) == Result(job[task[t].job].run, task[t].recovered)

WriteCheck(t) ==
    LET id == task[t].row.check
        new == IF id = 0 THEN Len(checks) + 1 ELSE id
    IN  /\ At(t, "check")
        /\ checks' = IF id = 0 THEN Append(checks, Shown(t)) ELSE Says(checks, id, Shown(t))
        /\ Answered(t, [task EXCEPT ![t].row.check = new, ![t].pc = "comment"])
        /\ UNCHANGED <<Others, job, comments, inline>>

WriteComment(t) ==
    LET id == task[t].row.comment
        new == IF id = 0 THEN Len(comments) + 1 ELSE id
    IN  /\ At(t, "comment")
        /\ comments' = IF id = 0 THEN Append(comments, Shown(t)) ELSE Says(comments, id, Shown(t))
        /\ Answered(t, [task EXCEPT ![t].row.comment = new, ![t].pc = "written"])
        /\ UNCHANGED <<Others, job, checks, inline>>

\* Fault: a job that finds the head moved is skipped and nothing is withdrawn.
RecheckOnly(t, pc, next) ==
    /\ At(t, pc)
    /\ Goes(t, IF IsHead(task[t].job) THEN next ELSE "skip")
    /\ UNCHANGED <<Others, job, gitHub, faults>>

\* The head is read again, and what was written is withdrawn if it has moved:
\* before the commit, after it, and before every inline comment.
Recheck(t, pc, next) ==
    /\ At(t, pc)
    /\ Goes(t, IF IsHead(task[t].job) THEN next ELSE "withdraw")
    /\ UNCHANGED <<Others, job, gitHub, faults>>

Authority(t) ==
    \/ Recheck(t, "written", "save")
    \/ Recheck(t, "saved", "inline")
    \/ task[t].todo # {} /\ Recheck(t, "inline", "post")

\* _commit_publish_job_progress, of both surfaces and of every inline comment.
Save(t) ==
    /\ \/ At(t, "save") /\ Commit(t, task[t].row, "saved")
       \/ At(t, "save inline") /\ Commit(t, task[t].row, "inline")
    /\ UNCHANGED <<Others, gitHub, faults>>

PostInline(t, f) ==
    /\ At(t, "post")
    /\ f \in task[t].todo
    /\ inline' = Append(inline, [job |-> task[t].job, finding |-> f, live |-> TRUE])
    /\ Answered(t, [task EXCEPT ![t].row.threads = @ \cup {f}, ![t].wrote = @ \cup {Len(inline')},
                                ![t].todo = @ \ {f}, ![t].pc = "save inline"])
    /\ UNCHANGED <<Others, job, checks, comments>>

\* Fault: a finding that GitHub finds no place for is dropped.
RefusedAndDropped(t, f) ==
    /\ At(t, "post")
    /\ f \in task[t].todo
    /\ Fails("refused")
    /\ task' = [task EXCEPT ![t].todo = @ \ {f}, ![t].pc = "inline"]
    /\ UNCHANGED <<Others, job, gitHub>>

\* GitHub finds no place for it: it goes into the issue comment.
Refused(t, f) ==
    /\ At(t, "post")
    /\ f \in task[t].todo
    /\ Fails("refused")
    /\ task' = [task EXCEPT ![t].recovered = @ \cup {f}, ![t].todo = @ \ {f}, ![t].pc = "inline"]
    /\ UNCHANGED <<Others, job, gitHub>>

\* The refused findings are appended to the comment; the head is not read again.
CloseInline(t) ==
    /\ At(t, "inline")
    /\ task[t].todo = {}
    /\ LET then == [task EXCEPT ![t].row.posted = @ \/ task[t].posting, ![t].pc = "checkpoint"]
       IN  IF task[t].recovered = {}
           THEN task' = then /\ UNCHANGED <<comments, faults>>
           ELSE /\ comments' = Says(comments, task[t].row.comment, Shown(t))
                /\ Answered(t, then)
    /\ UNCHANGED <<Others, job, checks, inline>>

Complete(t) ==
    /\ \/ At(t, "checkpoint") /\ Commit(t, task[t].row, "complete")
       \/ At(t, "complete") /\ Commit(t, [task[t].row EXCEPT !.status = "completed"], "done")
    /\ UNCHANGED <<Others, gitHub, faults>>

-----------------------------------------------------------------------------
(* A job whose commit is the head no more.                                 *)

\* The call that concludes the check run of the pipeline may fail.
ConcludeCheck(t, what) ==
    LET id == pipelineCheck[job[task[t].job].run]
    IN  \/ checks' = Says(checks, id, what) /\ UNCHANGED faults
        \/ id # 0 /\ Fails("transient") /\ UNCHANGED checks

\* _skip_publish_job_at_gate: skipped is flushed and not committed.
Skip(t) ==
    /\ task[t].pc \in {"skip", "withdraw"}
    /\ ~LockedByOther(t)
    /\ ConcludeCheck(t, Superseded)
    /\ task' = [task EXCEPT ![t].row.status = "skipped", ![t].locks = TRUE,
                            ![t].pc = IF @ = "skip" THEN "leave" ELSE "withdraw check"]
    /\ UNCHANGED <<Others, job, comments, inline>>

\* _best_effort_revert_partial_flush_surface: each call may fail.
WithdrawCheck(t) ==
    /\ At(t, "withdraw check")
    /\ \/ checks' = Says(checks, task[t].row.check, Superseded) /\ UNCHANGED faults
       \/ Fails("transient") /\ UNCHANGED checks
    /\ Goes(t, "withdraw comment")
    /\ UNCHANGED <<Others, job, comments, inline>>

WithdrawComment(t) ==
    /\ At(t, "withdraw comment")
    /\ \/ comments' = Says(comments, task[t].row.comment, Superseded) /\ UNCHANGED faults
       \/ Fails("transient") /\ UNCHANGED comments
    /\ Goes(t, "withdraw inline")
    /\ UNCHANGED <<Others, job, checks, inline>>

Deleted(i) == [inline EXCEPT ![i].live = FALSE]

\* Only what this attempt has posted is deleted.
WithdrawInline(t) ==
    /\ At(t, "withdraw inline")
    /\ IF task[t].wrote = {}
       THEN Goes(t, "leave") /\ UNCHANGED <<inline, faults>>
       ELSE \E i \in task[t].wrote :
              /\ task' = [task EXCEPT ![t].wrote = @ \ {i}]
              /\ \/ inline' = Deleted(i) /\ UNCHANGED faults
                 \/ Fails("transient") /\ UNCHANGED inline
    /\ UNCHANGED <<Others, job, checks, comments>>

Leave(t) ==
    /\ At(t, "leave")
    /\ Commit(t, task[t].row, "done")
    /\ UNCHANGED <<Others, gitHub, faults>>

-----------------------------------------------------------------------------
(* Failures.                                                               *)

\* The task is about to call GitHub; at flush it asks for its credentials.
Calls(t) ==
    \/ task[t].pc \in {"flush", "check", "comment", "post"}
    \/ At(t, "inline") /\ task[t].todo = {} /\ task[t].recovered # {}

FailsForNow(t) ==
    /\ Calls(t)
    /\ Fails("transient")
    /\ TriedAgain(t)
    /\ UNCHANGED <<Others, job, gitHub>>

FailsForGood(t) ==
    /\ Calls(t)
    /\ Fails("permanent")
    /\ Goes(t, "fail")
    /\ UNCHANGED <<Others, job, gitHub>>

\* The session writes failed, with what this attempt has done so far.
Fail(t) ==
    /\ At(t, "fail")
    /\ ConcludeCheck(t, Failure)
    /\ Commit(t, [task[t].row EXCEPT !.status = "failed"], "done")
    /\ UNCHANGED <<Others, comments, inline>>

\* Fault: only a job that has not started fails.
MarkPendingFailed(t) ==
    LET j == task[t].job
    IN  /\ At(t, "failing")
        /\ ~LockedByOther(t)
        /\ job' = [job EXCEPT ![j].status = IF @ = "pending" THEN "failed" ELSE @]
        /\ ConcludeCheck(t, Failure)
        /\ Goes(t, "done")
        /\ UNCHANGED <<Others, comments, inline>>

\* mark_publish_job_failed, in a session of its own: only an open job fails, but
\* the check run of the pipeline says so anyhow.
MarkFailed(t) ==
    LET j == task[t].job
    IN  /\ At(t, "failing")
        /\ ~LockedByOther(t)
        /\ job' = [job EXCEPT ![j].status = IF @ \in Open THEN "failed" ELSE @]
        /\ ConcludeCheck(t, Failure)
        /\ Goes(t, "done")
        /\ UNCHANGED <<Others, comments, inline>>

Killed(t) ==
    /\ task[t].pc \notin {"none", "done", "lost"}
    /\ Fails("killed")
    /\ task' = [task EXCEPT ![t].pc = "lost", ![t].locks = FALSE]
    /\ UNCHANGED <<Others, job, gitHub>>

-----------------------------------------------------------------------------

Writes(t) == WriteCheck(t) \/ WriteComment(t) \/ \E f \in Findings : PostInline(t, f) \/ Refused(t, f)

Withdraws(t) == Skip(t) \/ WithdrawCheck(t) \/ WithdrawComment(t) \/ WithdrawInline(t) \/ Leave(t)

Works(t) ==
    \/ Load(t) \/ Claim(t) \/ Build(t) \/ Flush(t) \/ Writes(t) \/ Authority(t) \/ Save(t)
    \/ CloseInline(t) \/ Complete(t) \/ Withdraws(t)
    \/ FailsForNow(t) \/ FailsForGood(t) \/ Fail(t) \/ MarkFailed(t)

\* Every review is in, and every task has come to an end.
Quiet ==
    /\ api = 0
    /\ \A r \in Runs : resolver[r] = "done"
    /\ \A t \in Slots : task[t].pc \in {"none", "done", "lost"}

Rest == Quiet /\ UNCHANGED vars

Next ==
    \/ \E s \in Shas : Push(s)
    \/ \E r \in Runs, s \in Shas, F \in SUBSET Findings, opened \in Openings : CompleteRun(r, s, F, opened)
    \/ \E r \in Runs : Resolve(r) \/ RequestPublish(r)
    \/ CommitRequest
    \/ \E t \in Slots : Works(t) \/ Killed(t)
    \/ Rest

\* Workers and the API process go on with what they have begun.
Fairness ==
    /\ \A r \in Runs : WF_vars(Resolve(r))
    /\ WF_vars(CommitRequest)
    /\ \A t \in Slots : WF_vars(Works(t))

Spec == Init /\ [][Next]_vars /\ Fairness

-----------------------------------------------------------------------------
(* Properties.                                                             *)

Texts    == {"result", "in progress", "superseded", "failure"}
Surface  == [says : Texts, run : Runs \cup {0}, also : SUBSET Findings]
JobRow   == [run : Runs \cup {0}, status : {"none"} \cup Open \cup Terminal, check : Nat,
             comment : Nat, threads : SUBSET Findings, posted : BOOLEAN]
PcOfTask == {"none", "queued", "claim", "build", "flush", "check", "comment", "written", "save",
             "saved", "inline", "post", "save inline", "checkpoint", "complete", "skip",
             "withdraw", "withdraw check", "withdraw comment", "withdraw inline", "leave",
             "fail", "failing", "done", "lost"}

\* Every variable has its type, and identifiers are those of objects on GitHub.
TypeOK ==
    /\ head \in Shas
    /\ pushes \in 0..MaxPushes
    /\ runSha \in [Runs -> Shas \cup {NoSha}]
    /\ runFindings \in [Runs -> SUBSET Findings]
    /\ pipelineCheck \in [Runs -> 0..Len(checks)]
    /\ resolver \in [Runs -> {"none", "queued", "done"}]
    /\ job \in [Slots -> JobRow]
    /\ \A j \in Slots : job[j].check <= Len(checks) /\ job[j].comment <= Len(comments)
    /\ created \in 0..Cardinality(Slots)
    /\ \A t \in Slots :
         /\ task[t].job \in 0..created
         /\ task[t].pc \in PcOfTask
         /\ task[t].left \in 0..MaxRetries
         /\ task[t].locks \in BOOLEAN
         /\ {task[t].row, task[t].base} \subseteq JobRow
         /\ task[t].wrote \subseteq 1..Len(inline)
    /\ dispatched \in 0..Cardinality(Slots)
    /\ checks \in Seq(Surface)
    /\ comments \in Seq(Surface)
    /\ inline \in Seq([job : Slots, finding : Findings, live : BOOLEAN])
    /\ api \in Runs \cup {0}
    /\ requests \in 0..MaxRequests
    /\ faults \in 0..MaxFaults

\* The endpoint and the resolver hand an open job out again: then two tasks work on
\* it with copies of its row of their own.  The endpoint also publishes a run anew.
OneTask(j) == Cardinality({t \in Slots : task[t].job = j}) = 1
Alone(j)   == OneTask(j) /\ \A k \in Jobs \ {j} : job[k].run # job[j].run

\* A job posts a finding inline once, however often its task is tried again: the
\* threads it has opened are committed one by one (test_github_publish.py:3243,
\* "flushed per post so Celery retry does not duplicate").
NoDoubleInline ==
    \A i, k \in DOMAIN inline :
      /\ inline[i].job = inline[k].job /\ OneTask(inline[i].job)
      /\ inline[i].finding = inline[k].finding
      => i = k

\* When a job has ended as skipped, GitHub shows nothing it has written: neither
\* its check run nor its comment says the result of its run, and its inline
\* comments are deleted.  A call that fails may leave something behind.
SkippedIsHidden ==
    faults = 0 => \A j \in Jobs : job[j].status = "skipped" /\ Alone(j) =>
      /\ job[j].check # 0 => checks[job[j].check] .run # job[j].run
      /\ job[j].comment # 0 => comments[job[j].comment].run # job[j].run
      /\ \A i \in DOMAIN inline : inline[i].job = j => ~inline[i].live

\* What sessions and the database take for the row of a job, and whether no other
\* job writes to the same check run or comment.
Rows(j) == {job[j]} \cup {task[t].row : t \in {t \in Slots : task[t].job = j}}
SoleWriter(j, row) ==
    \A k \in Jobs \ {j} : \A other \in Rows(k) : other.check # row.check /\ other.comment # row.comment

\* A job completes when its review is on GitHub whole: the check run and the
\* comment say its result, and when it says that it has posted inline, every
\* finding has a live inline comment or is in the issue comment.
CompletesWhole ==
    [][\A j \in Jobs : job[j].status # "completed" /\ job'[j].status = "completed" =>
         LET row    == job'[j]
             placed == {inline[i].finding : i \in {i \in DOMAIN inline : inline[i].live}}
         IN  /\ row.check # 0 /\ row.comment # 0
             /\ Alone(j) /\ SoleWriter(j, row) =>
                  /\ checks[row.check].run = row.run
                  /\ comments[row.comment].run = row.run
                  /\ row.posted => runFindings[row.run] \subseteq placed \cup comments[row.comment].also]_vars

\* Every job comes to an end: a transient failure is tried again until the task
\* gives up and the job fails.
JobSettles == \A j \in Slots : (j <= created) ~> (job[j].status \in Terminal)

InProgress(r) == pipelineCheck[r] # 0 /\ checks[pipelineCheck[r]] = Progress

\* The check run opened with the index job does not stay in progress, unless
\* somebody requests the publish: the job of a request does not know that check.
CheckConcludes ==
    \A r \in Runs : (InProgress(r) /\ requests = 0) ~> (~InProgress(r) \/ requests > 0)

=============================================================================
