------------------------------- MODULE Exports -------------------------------
(***************************************************************************)
(* The data exports of one user: a request inserts a job and enqueues its  *)
(* task, the task writes the archive and completes the job in one          *)
(* transaction, and a failure is written in a second one, whether or not   *)
(* the task is tried again.                                                *)
(***************************************************************************)
EXTENDS Integers, FiniteSets

CONSTANTS
    Requests,   \* bound: requests that are served at the same time
    Jobs,       \* bound: rows of data_export_jobs
    MaxRetries, \* retries of the task
    MaxLost     \* bound: tasks lost with their worker or before the broker had them

VARIABLES
    job,        \* data_export_jobs
    archive,    \* the files on disk
    request,    \* what each request is about to do
    task,       \* the task of each job
    lost

vars == <<job, archive, request, task, lost>>

NoJob == [status |-> "none", key |-> FALSE, expired |-> FALSE]

NoTask == [at |-> "none", retries |-> 0]

Init ==
    /\ job = [j \in Jobs |-> NoJob]
    /\ archive = {}
    /\ request = [p \in Requests |-> "idle"]
    /\ task = [j \in Jobs |-> NoTask]
    /\ lost = 0

Active(j) == job[j].status \in {"pending", "processing"}

\* Nothing is locked when there is no active job: two requests may both find none.
FindNoActive(p) ==
    /\ request[p] = "idle"
    /\ \A j \in Jobs : ~Active(j)
    /\ request' = [request EXCEPT ![p] = "insert"]
    /\ UNCHANGED <<job, archive, task, lost>>

InsertJob(p, j) ==
    /\ request[p] = "insert"
    /\ job[j] = NoJob
    /\ job' = [job EXCEPT ![j].status = "pending"]
    /\ request' = [request EXCEPT ![p] = "idle"]
    /\ task' = [task EXCEPT ![j].at = "sending"]
    /\ UNCHANGED <<archive, lost>>

\* The task is enqueued after the commit.
Send(j) ==
    /\ task[j].at = "sending"
    /\ task' = [task EXCEPT ![j].at = "queued"]
    /\ UNCHANGED <<job, archive, request, lost>>

\* The archive is written while the transaction is open.
WriteArchive(j) ==
    /\ task[j].at = "queued"
    /\ archive' = archive \cup {j}
    /\ task' = [task EXCEPT ![j].at = "written"]
    /\ UNCHANGED <<job, request, lost>>

\* That the job was processing is committed with the end only; a job that a failed
\* attempt marked failed is completed all the same.
Complete(j) ==
    /\ task[j].at = "written"
    /\ job' = [job EXCEPT ![j] = [status |-> "completed", key |-> TRUE, expired |-> FALSE]]
    /\ task' = [task EXCEPT ![j].at = "none"]
    /\ UNCHANGED <<archive, request, lost>>

\* Fault: an attempt that fails leaves the job as it is.
FailQuietly(j) ==
    /\ task[j].at \in {"queued", "written"}
    /\ task' = [task EXCEPT ![j].at = "none"]
    /\ UNCHANGED <<job, archive, request, lost>>

\* The attempt fails before or after the archive is written: the transaction is gone.
Fail(j) ==
    /\ task[j].at \in {"queued", "written"}
    /\ task' = [task EXCEPT ![j].at = "failing"]
    /\ UNCHANGED <<job, archive, request, lost>>

Retry(j) ==
    task' = [task EXCEPT ![j] = IF @.retries < MaxRetries
                                THEN [at |-> "queued", retries |-> @.retries + 1]
                                ELSE [@ EXCEPT !.at = "none"]]

\* The failure is committed in a transaction of its own, then the task is tried again.
MarkFailed(j) ==
    /\ task[j].at = "failing"
    /\ job' = [job EXCEPT ![j].status = "failed"]
    /\ Retry(j)
    /\ UNCHANGED <<archive, request, lost>>

\* That transaction fails as well.
LoseFailure(j) ==
    /\ task[j].at = "failing"
    /\ lost < MaxLost
    /\ lost' = lost + 1
    /\ Retry(j)
    /\ UNCHANGED <<job, archive, request>>

\* The worker is killed, or the request before it enqueued the task.
Lose(j) ==
    /\ task[j].at # "none"
    /\ lost < MaxLost
    /\ lost' = lost + 1
    /\ task' = [task EXCEPT ![j].at = "none"]
    /\ UNCHANGED <<job, archive, request>>

\* EXPORT_TTL_DAYS pass.
Expire(j) ==
    /\ job[j].status = "completed" /\ ~job[j].expired
    /\ job' = [job EXCEPT ![j].expired = TRUE]
    /\ UNCHANGED <<archive, request, task, lost>>

Next ==
    \/ \E p \in Requests : FindNoActive(p) \/ \E j \in Jobs : InsertJob(p, j)
    \/ \E j \in Jobs :
          \/ Send(j) \/ WriteArchive(j) \/ Complete(j) \/ Fail(j) \/ MarkFailed(j)
          \/ LoseFailure(j) \/ Lose(j) \/ Expire(j)

Spec == Init /\ [][Next]_vars

-----------------------------------------------------------------------------
(* Properties.                                                             *)

\* What the rows, the requests and the tasks may hold.
TypeOK ==
    /\ job \in [Jobs -> [status : {"none", "pending", "completed", "failed"}, key : BOOLEAN, expired : BOOLEAN]]
    /\ archive \subseteq Jobs
    /\ request \in [Requests -> {"idle", "insert"}]
    /\ task \in [Jobs -> [at : {"none", "sending", "queued", "written", "failing"}, retries : 0 .. MaxRetries]]
    /\ lost \in 0 .. MaxLost

\* resolve_download_path serves what mark_completed names: whatever attempts failed or were
\* repeated, the archive of a completed job is on disk.
DownloadHasArchive == \A j \in Jobs : job[j].status = "completed" /\ job[j].key => j \in archive

\* create_export_job refuses a user that has an active job: unless something was lost, an
\* active job still has a task that will end it, so nobody is refused for ever.
BlockedOnlyByWork == \A j \in Jobs : Active(j) => task[j].at # "none" \/ lost > 0

=============================================================================
