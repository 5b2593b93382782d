---------------------------- MODULE ReviewCalls ----------------------------
(***************************************************************************)
(* The calls one review run makes to its model: which model the policy of  *)
(* the workspace names, the row recorded for every call, the answers that  *)
(* are asked for again, the failures that are retried, and the model the   *)
(* pipeline says has reviewed.                                             *)
(*                                                                         *)
(* The run has a pipeline, whose index step names a model.  Before the     *)
(* checkpoint the worker's transaction holds the run's row.                *)
(***************************************************************************)
EXTENDS Integers, Sequences, SequencesExt

CONSTANTS
    Models,      \* reviewer models
    Default,     \* the platform's model
    Converse,    \* the models called through Bedrock
    None,
    MaxRetries,  \* max_retries of the task
    MaxChanges,  \* bound: changes of the policy, deployments
    MaxFaults    \* bound: rows that cannot be written, workers killed

VARIABLES
    catalog,     \* the models with credentials
    override,    \* the workspace's model, or None
    changes,     \* changes so far
    run,         \* status, and the model stored with the checkpoint
    task,        \* review_pull_request_revision: where, retries left, model, number, second
    rows,        \* the recorded calls
    found,       \* the model whose answer became findings
    step,        \* the review step
    snapshot,    \* the reviewer in models_snapshot, "unset" before it is written
    faults,      \* faults so far
    ended,       \* history: how each call ended
    why,         \* history: why the run failed
    moved        \* history: the policy names another model than the checkpoint

policy  == <<catalog, override, changes, moved>>
calls   == <<rows, ended>>
results == <<found, step, snapshot>>
vars    == <<policy, run, task, calls, results, faults, why>>

NoStep == [status |-> "none", model |-> None]

Init ==
    /\ catalog = Models
    /\ override \in Models \cup {None}
    /\ changes = 0
    /\ run = [status |-> "pending", pinned |-> None]
    /\ task = [at |-> "queued", left |-> MaxRetries, model |-> None, no |-> 0, second |-> FALSE]
    /\ rows = <<>> /\ ended = <<>>
    /\ found = None /\ step = NoStep /\ snapshot = "unset"
    /\ faults = 0
    /\ why = "none"
    /\ moved = FALSE

-----------------------------------------------------------------------------
(* What is recorded.                                                       *)

\* HTTP errors: 413, 429, the other client errors, the server's.
Statuses == {"too long", "busy", "refused", "down"}

\* classify_failure_class.
Class == [end \in {"timeout"} \cup Statuses |->
            IF end = "timeout" THEN "timeout"
            ELSE IF end = "busy" THEN "rate_limit"
            ELSE IF end = "too long" THEN "context_length" ELSE "provider_error"]

\* classify_transient_error.
Transient == {"timeout", "busy", "down"}

\* Fault: the model is the one the policy names at the end.
ReviewerNow(st, rs) == IF override # None THEN override ELSE Default

\* The last call without a failure, else the last call.
Terminal(rs) ==
    LET open == {i \in DOMAIN rs : rs[i].class = "none"}
    IN  IF rs = <<>> THEN None
        ELSE rs[IF open = {} THEN Len(rs) ELSE Max(open)].model

\* build_models_snapshot for the reviewer: the step's model, else a call's.
Reviewer(st, rs) == IF st.model # None THEN st.model ELSE Terminal(rs)

\* try_persist_models_snapshot keeps a snapshot that is there.
Snapshot(st, rs) ==
    snapshot' = IF snapshot = "unset" THEN Reviewer(st, rs) ELSE snapshot

\* next_review_llm_attempt_no.
NextNumber(rs) == IF rs = <<>> THEN 0 ELSE 1 + Max({rs[i].no : i \in DOMAIN rs})

-----------------------------------------------------------------------------
(* How the task goes on.                                                   *)

Goes(at) == task' = [task EXCEPT !.at = at]
Over     == Goes("over")
Faulty   == faults < MaxFaults /\ faults' = faults + 1

\* The run is failed and committed with its step; it is not read again first.
Fail(reason) ==
    /\ run' = [run EXCEPT !.status = "failed"]
    /\ why' = reason
    /\ step' = [status |-> "failed", model |-> run.pinned]
    /\ Snapshot(step', rows')
    /\ Over
    /\ UNCHANGED found

\* run_with_retryable_failure: rolled back and tried again, or marked failed,
\* also when the run was superseded.
Raised(reason) ==
    IF reason \in Transient /\ task.left > 0
    THEN /\ task' = [task EXCEPT !.at = "queued", !.left = @ - 1]
         /\ UNCHANGED <<run, why, results>>
    ELSE /\ run' = [run EXCEPT !.status = "failed"]
         /\ why' = reason
         /\ Snapshot(step, rows')
         /\ Over
         /\ UNCHANGED <<found, step>>

-----------------------------------------------------------------------------
(* The policy, the catalog and the newer push.                             *)

\* The credentials of a model are configured.
Available(model) == model \in catalog

\* resolve_model.
Resolved == IF override # None THEN override ELSE Default

Changed ==
    /\ changes < MaxChanges
    /\ changes' = changes + 1
    /\ moved' = (moved \/ run.pinned \notin {None, Resolved'})
    /\ UNCHANGED <<run, task, calls, results, faults, why>>

Patch ==
    /\ override' \in (catalog \cup {None}) \ {override}
    /\ UNCHANGED catalog
    /\ Changed

Deploy ==
    /\ catalog' \in SUBSET Models \ {catalog}
    /\ UNCHANGED override
    /\ Changed

\* The transaction that took the run holds its row until the checkpoint.
Locked == task.at \in {"prepare", "resolve"} /\ run.pinned = None

Supersede ==
    /\ run.status \in {"pending", "processing"} /\ ~Locked
    /\ run' = [run EXCEPT !.status = "superseded"]
    /\ UNCHANGED <<policy, task, calls, results, faults, why>>

-----------------------------------------------------------------------------
(* review_pull_request_revision.                                           *)

\* A pending run is taken; one with a checkpoint goes on from there.
Begin ==
    /\ task.at = "queued"
    /\ IF run.status = "pending" \/ (run.status = "processing" /\ run.pinned # None)
       THEN Goes("prepare") ELSE Over
    /\ UNCHANGED <<policy, run, calls, results, faults, why>>

\* The context: from GitHub and the index.
Prepare ==
    /\ task.at = "prepare"
    /\ UNCHANGED <<policy, calls, faults>>
    /\ \/ Goes("resolve") /\ UNCHANGED <<run, why, results>>
       \/ \E end \in {"refused", "down"} : IF end \in Transient THEN Raised(end) ELSE Fail(end)

\* The model, which only the first delivery stores.
Resolve ==
    /\ task.at = "resolve"
    /\ UNCHANGED <<policy, calls, faults>>
    /\ IF ~Available(Resolved) THEN Fail("no model")
       ELSE /\ task' = [task EXCEPT !.at = "start", !.model = Resolved, !.second = FALSE]
            /\ run' = IF run.pinned = None THEN [status |-> "processing", pinned |-> Resolved]
                      ELSE run
            /\ UNCHANGED <<why, results>>

\* start_attempt commits the row; the call is not made without it.
Start ==
    /\ task.at = "start"
    /\ LET no == IF task.second THEN task.no + 1 ELSE NextNumber(rows)
       IN  \/ /\ rows' = Append(rows, [no |-> no, model |-> task.model, class |-> "none"])
              /\ ended' = Append(ended, "open")
              /\ task' = [task EXCEPT !.at = "call", !.no = no]
              /\ UNCHANGED <<run, why, results, faults>>
           \/ /\ Faulty
              /\ UNCHANGED calls
              /\ Raised("row")
    /\ UNCHANGED policy

Ends(how) == task.at = "call" /\ ended' = [ended EXCEPT ![Len(ended)] = how]

Answers ==
    /\ Ends("findings")
    /\ Goes("parsed")
    /\ UNCHANGED <<policy, run, rows, results, faults, why>>

\* An answer without findings to read is asked for once more.
Garbles ==
    /\ Ends("garbage")
    /\ UNCHANGED rows
    /\ IF task.second THEN Fail("garbage")
       ELSE task' = [task EXCEPT !.at = "start", !.second = TRUE] /\ UNCHANGED <<run, why, results>>
    /\ UNCHANGED <<policy, faults>>

\* No text in the response: failed by the service, the row is left open.
NoText ==
    /\ Ends("invalid")
    /\ UNCHANGED <<policy, rows, faults>>
    /\ Fail("invalid")

\* No JSON in the response: raised in the task, the row is left open.
NoJson ==
    /\ task.model \notin Converse
    /\ Ends("invalid")
    /\ UNCHANGED <<policy, rows, faults>>
    /\ Raised("invalid")

\* fail_attempt: the failure is recorded on the last row.
Closed(end) == rows' = [rows EXCEPT ![Len(rows)].class = Class[end]] /\ UNCHANGED faults

\* A timeout or an HTTP error, recorded before it is raised.
CallFails(end) ==
    /\ task.model \notin Converse
    /\ Ends(end)
    /\ \/ Closed(end) /\ IF end \in Transient THEN Raised(end) ELSE Fail(end)
       \/ Faulty /\ UNCHANGED rows /\ Raised("row")
    /\ UNCHANGED policy

\* Bedrock's are turned into an error that is not recorded and never retried.
BedrockFails ==
    /\ task.model \in Converse
    /\ \E end \in {"timeout"} \cup Statuses : Ends(end)
    /\ UNCHANGED <<policy, rows, faults>>
    /\ Fail("bedrock")

\* Completed with its findings and its step, unless it was superseded.
Complete ==
    /\ task.at = "parsed"
    /\ IF run.status # "processing" THEN UNCHANGED <<run, results>>
       ELSE /\ run' = [run EXCEPT !.status = "completed"]
            /\ found' = task.model
            /\ step' = [status |-> "completed", model |-> run.pinned]
            /\ UNCHANGED snapshot
    /\ Over
    /\ UNCHANGED <<policy, calls, faults, why>>

\* The end of the pipeline, in a later task.
Publish ==
    /\ run.status = "completed" /\ snapshot = "unset"
    /\ Snapshot(step, rows)
    /\ UNCHANGED <<policy, run, task, calls, found, step, faults, why>>

Killed ==
    /\ task.at \notin {"queued", "over", "lost"}
    /\ Faulty
    /\ Goes("lost")
    /\ UNCHANGED <<policy, run, calls, results, why>>

Next ==
    \/ Patch \/ Deploy \/ Supersede
    \/ Begin \/ Prepare \/ Resolve \/ Start
    \/ Answers \/ Garbles \/ NoText \/ NoJson \/ BedrockFails
    \/ \E end \in {"timeout"} \cup Statuses : CallFails(end)
    \/ Complete \/ Publish \/ Killed

Spec == Init /\ [][Next]_vars

-----------------------------------------------------------------------------
(* Properties.                                                             *)

Ended == {"open", "findings", "garbage", "invalid", "timeout"} \cup Statuses

\* Types of the variables.
TypeOK ==
    /\ catalog \subseteq Models /\ override \in Models \cup {None}
    /\ run \in [status : {"pending", "processing", "completed", "failed", "superseded"},
                pinned : Models \cup {None}]
    /\ task.at \in {"queued", "prepare", "resolve", "start", "call", "parsed", "over", "lost"}
    /\ task.left \in 0..MaxRetries
    /\ rows \in Seq([no : Nat, model : Models, class : {"none"} \cup Range(Class)])
    /\ ended \in Seq(Ended) /\ Len(ended) = Len(rows)
    /\ found \in Models \cup {None} /\ snapshot \in Models \cup {None, "unset"}

\* The calls of a run are numbered one after the other across its deliveries,
\* though each delivery reads the number the rows of the rolled back ones have
\* reached (llm_call_recorder.py:160).
AttemptsNumbered == \A i \in DOMAIN rows : rows[i].no = i - 1

\* A run pays for no more than two answers in every delivery
\* (github_review.py:1180, review_tasks.py:73).
CallsAreBounded == Len(rows) <= 2 * (MaxRetries + 1)

\* A call the review went on after is explained by its row, or was answered
\* with what could not be read: only the last call may be left unexplained
\* (github_review.py:1019).
OnlyLastUnexplained ==
    \A i \in 1..(Len(rows) - 1) : rows[i].class = "none" => ended[i] = "garbage"

\* A run is failed for a passing error only when its retries are used up
\* (task_retries.py:29).
RetriedFirst == run.status = "failed" /\ why \in Transient => task.left = 0

\* The snapshot names no model that was not asked, whatever became of the
\* policy, the run and its step (model_run_snapshot.py:162).
SnapshotWasAsked == snapshot \in Models => \E i \in DOMAIN rows : rows[i].model = snapshot

\* A finished pipeline names the model of the checkpoint, whatever the policy
\* says by then, and that model wrote the findings if the policy has not moved
\* in between (github_review.py:1126, model_run_snapshot.py:283).
SnapshotReviewed ==
    run.status = "completed" => /\ snapshot \in {"unset", run.pinned}
                                /\ moved \/ found = run.pinned

\* What test_review_model_request_matches_run_model_id says
\* (tests/unit/test_model_run_capture_p1.py:145): a call asks the run's model.
RequestMatchesRun == run.status = "completed" => found = run.pinned

\* What the staging metrics say of a call without a failure class: (success)
\* (scripts/pipeline_observability_staging_metrics.py:92).
NoClassIsSuccess ==
    task.at = "over" => \A i \in DOMAIN rows : rows[i].class = "none" => ended[i] \in {"findings", "garbage"}
=============================================================================
