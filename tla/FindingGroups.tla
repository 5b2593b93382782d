--------------------------- MODULE FindingGroups ---------------------------
(***************************************************************************)
(* The finding groups of one pull request: a push stamps them, the review  *)
(* of every revision is reconciled with them, judged and published, and a  *)
(* person may dismiss one.                                                 *)
(*                                                                         *)
(* A group is known by the claim its fingerprint was made of, so at most   *)
(* one row exists per claim.  rows holds the committed rows.  The session  *)
(* of a revision (tx[r]) selects rows, waits for GitHub or for the model,  *)
(* changes its copies, flushes the changed columns (which locks the rows   *)
(* until the transaction ends) and commits.  A SELECT sees what is         *)
(* committed and what its own session has flushed.                         *)
(***************************************************************************)
EXTENDS GroupRules, Sequences

CONSTANTS
    Claims,         \* path, category and title of a finding
    NoClaim,        \* no group
    PlaceOf,        \* the path and category of a claim
    Severe,         \* claims whose findings are candidates for the judge
    MaxRev,         \* bound: revisions
    MaxFindings,    \* bound: findings of a review
    Compares,       \* whether GitHub compares two commits
    Paths,          \* what a look at a path may say: gone, there, unknown
    Answers,        \* what the judge may say
    JudgeMax,       \* JUDGE_MAX_PER_RUN
    VerifyMax,      \* VERIFICATION_JUDGE_MAX_PER_RUN
    MaxDismissals,  \* bound: dismissals by a person
    MaxRetries,     \* max_retries of the tasks
    MaxFaults,      \* bound: attempts that fail for a reason outside the model
    Overlapping     \* bound: tasks of two revisions, or a task and a dismissal, overlap

Revs   == 1..MaxRev
Slots  == 1..MaxFindings
Places == {PlaceOf[c] : c \in Claims}

ASSUME GroupsAssumption ==
    /\ NoClaim \notin Claims
    /\ IsFiniteSet(Claims)
    /\ PlaceOf \in [Claims -> Places]
    /\ Severe \subseteq Claims
    /\ MaxRev \in Nat /\ MaxFindings \in Nat
    /\ Compares \subseteq BOOLEAN
    /\ Paths \subseteq {"gone", "there", "unknown"}
    /\ Answers \subseteq {"upheld", "dismissed", "modified", "failed"}
    /\ JudgeMax \in Nat /\ VerifyMax \in Nat
    /\ MaxDismissals \in Nat /\ MaxRetries \in Nat /\ MaxFaults \in Nat
    /\ Overlapping \in BOOLEAN

VARIABLES
    head,       \* the latest revision
    rows,       \* github_finding_groups
    report,     \* the findings of a review, by slot
    bound,      \* github_findings.group_id
    outcomes,   \* github_finding_judge_outcomes
    judged,     \* github_review_runs.judge_status
    published,  \* revisions whose publish job is completed
    stage,      \* where the tasks of a revision are
    retries,    \* attempts of the present task that failed
    tx,         \* their session
    dismissing, \* an open request to dismiss a group
    dismissals, \* requests so far
    faults      \* faults so far

vars == <<head, rows, report, bound, outcomes, judged, published, stage, retries, tx,
          dismissing, dismissals, faults>>

NoGroups == [s \in Slots |-> NoClaim]
Nothing  == [c \in Claims |-> <<>>]

\* copy: the rows as the session has read them, where loaded says that its SELECT is
\* done; dirty: columns it has changed since, which a flush is about to write;
\* wrote: columns it has flushed; prior: the published revision it compares with.
NoTx == [loaded |-> FALSE, copy |-> [c \in Claims |-> NoRow], dirty |-> Nothing,
         wrote |-> Nothing, flush |-> FALSE, prior |-> 0, bound |-> NoGroups, outs |-> {},
         judged |-> "none"]

NoRequest == [group |-> NoClaim, copy |-> NoRow, at |-> 0]

Init ==
    /\ head = 0
    /\ rows = [c \in Claims |-> NoRow]
    /\ report = [r \in Revs |-> <<>>]
    /\ bound = [r \in Revs |-> NoGroups]
    /\ outcomes = {}
    /\ judged = [r \in Revs |-> "none"]
    /\ published = {}
    /\ stage = [r \in Revs |-> "none"]
    /\ retries = [r \in Revs |-> 0]
    /\ tx = [r \in Revs |-> NoTx]
    /\ dismissing = NoRequest
    /\ dismissals = 0
    /\ faults = 0

-----------------------------------------------------------------------------
(* Sessions.                                                               *)

Touched(writes) == {c \in Claims : DOMAIN writes[c] # {}}

\* A row as the session of r selects it.
Seen(r, c) == With(rows[c], tx[r].wrote[c])

\* The object the session works with: its copy with the changes made so far.
Object(r, c) == With(tx[r].copy[c], tx[r].dirty[c])

Existing(r) == {c \in Claims : Seen(r, c).state # "absent"}

\* Rows another session has changed and not committed.
LockedFor(r) == UNION {Touched(tx[q].wrote) : q \in Revs \ {r}}

Loads == {"sync", "suppress", "close", "judge", "verify", "publish"}

\* The session of r has begun and is not committed.
InSession(r) ==
    tx[r] # NoTx \/ stage[r] \in {"synced", "suppress", "close", "judge", "verify", "commit", "finish"}

Ended == {"none", "done", "skipped", "failed"}

MayWork(r) ==
    \/ Overlapping
    \/ dismissing = NoRequest /\ \A q \in 1..(r - 1) : stage[q] \in Ended

\* The SELECT of a stage; get_last_published_prior_revision comes before it.
Load(r) ==
    /\ stage[r] \in Loads /\ MayWork(r)
    /\ ~tx[r].flush /\ ~tx[r].loaded
    /\ tx' = [tx EXCEPT ![r].loaded = TRUE,
                        ![r].copy = [c \in Claims |-> Seen(r, c)],
                        ![r].prior = LastPublished(published, r)]
    /\ UNCHANGED <<head, rows, report, bound, outcomes, judged, published, stage, retries,
                   dismissing, dismissals, faults>>

\* The stage is over: its changes are to be flushed, and the next begins.
Leave(r, changed, next) ==
    /\ tx' = [tx EXCEPT ![r].dirty = changed, ![r].flush = Touched(changed) # {},
                        ![r].loaded = FALSE]
    /\ stage' = [stage EXCEPT ![r] = next]

\* The changes that make new of the copies.
Becomes(r, new) == [c \in Claims |-> Changes(tx[r].copy[c], new[c])]

\* An insert of a row that another session has committed meanwhile violates the
\* unique index on the fingerprint.
Collides(r) ==
    \E c \in Touched(tx[r].dirty) : tx[r].copy[c].state = "absent" /\ rows[c].state # "absent"

Flush(r) ==
    /\ tx[r].flush
    /\ Touched(tx[r].dirty) \cap LockedFor(r) = {}
    /\ ~Collides(r)
    /\ tx' = [tx EXCEPT ![r].flush = FALSE, ![r].dirty = Nothing,
                        ![r].copy = [c \in Claims |-> NoRow],
                        ![r].wrote = [c \in Claims |->
                            [f \in DOMAIN tx[r].wrote[c] \cup DOMAIN tx[r].dirty[c] |->
                                IF f \in DOMAIN tx[r].dirty[c] THEN tx[r].dirty[c][f]
                                ELSE tx[r].wrote[c][f]]]]
    /\ UNCHANGED <<head, rows, report, bound, outcomes, judged, published, stage, retries,
                   dismissing, dismissals, faults>>

Committed(r) == [c \in Claims |-> Seen(r, c)]

\* The attempt is rolled back; the task starts again, or it was the last attempt.
\* A resolution that failed for good lets the coalesced pipeline go on unpaired.
Attempt == [sync |-> "sync", bind |-> "bind", suppress |-> "bind", close |-> "bind",
            judge |-> "bind", verify |-> "bind", commit |-> "bind", enqueue |-> "bind",
            publish |-> "publish", finish |-> "publish", synced |-> "sync"]

FailAttempt(r) ==
    /\ tx' = [tx EXCEPT ![r] = NoTx]
    /\ \/ /\ retries[r] < MaxRetries
          /\ retries' = [retries EXCEPT ![r] = @ + 1]
          /\ stage' = [stage EXCEPT ![r] = Attempt[@]]
       \/ /\ retries[r] = MaxRetries
          /\ retries' = [retries EXCEPT ![r] = 0]
          /\ stage' = [stage EXCEPT ![r] = IF Attempt[@] = "sync" THEN "review" ELSE "failed"]
    /\ UNCHANGED <<head, rows, report, bound, outcomes, judged, published, dismissing,
                   dismissals>>

\* An error of GitHub, the model's provider or the database that nobody catches; of
\* the broker, at enqueue; a worker shut down, whose task is delivered again.
Fail(r) ==
    /\ stage[r] \in DOMAIN Attempt
    /\ faults < MaxFaults
    /\ faults' = faults + 1
    /\ FailAttempt(r)

WaitsFor(r, q) == tx[r].flush /\ Touched(tx[r].dirty) \cap Touched(tx[q].wrote) # {}

\* PostgreSQL refuses an insert, or ends one of two transactions that wait for each other.
Refused(r) ==
    /\ tx[r].flush
    /\ \/ Collides(r) /\ Touched(tx[r].dirty) \cap LockedFor(r) = {}
       \/ \E q \in Revs \ {r} : WaitsFor(r, q) /\ WaitsFor(q, r)
    /\ FailAttempt(r)
    /\ UNCHANGED faults

-----------------------------------------------------------------------------
(* A push, and Pass 1.                                                     *)

Push ==
    /\ head < MaxRev
    /\ head' = head + 1
    /\ stage' = [stage EXCEPT ![head + 1] = IF head = 0 THEN "review" ELSE "sync"]
    /\ UNCHANGED <<rows, report, bound, outcomes, judged, published, retries, tx, dismissing,
                   dismissals, faults>>

ReportedIn(q) == {bound[q][s] : s \in Slots}

PublishedAt(c, r) == {q \in published : c \in ReportedIn(q) /\ q <= r}

Stamped(r, c, compared, touched, path) ==
    LET row     == With(tx[r].copy[c], [status |-> "none"])
        prior   == tx[r].prior
        paired  == IF InCohort(row, published, PublishedAt(c, r), prior, r)
                   THEN Paired(row, compared, c \in touched) ELSE row
    IN  IF row.state = "active" THEN Cleaned(paired, compared, path[PlaceOf[c]]) ELSE paired

\* apply_resolution_status_for_synchronize, for a revision that is still the head.
Sync(r) ==
    /\ stage[r] = "sync" /\ tx[r].loaded
    /\ \E compared \in Compares, touched \in SUBSET Claims, path \in [Places -> Paths] :
          Leave(r, IF tx[r].prior = 0 \/ head # r THEN Nothing
                   ELSE Becomes(r, [c \in Claims |->
                            IF tx[r].copy[c].state = "absent" THEN NoRow
                            ELSE Stamped(r, c, compared, touched, path)]),
                "synced")
    /\ UNCHANGED <<head, rows, report, bound, outcomes, judged, published, retries, dismissing,
                   dismissals, faults>>

\* Its commit; an overtaken revision is not indexed, so it is not reviewed.
Synced(r) ==
    /\ stage[r] = "synced" /\ ~tx[r].flush
    /\ rows' = Committed(r)
    /\ tx' = [tx EXCEPT ![r] = NoTx]
    /\ retries' = [retries EXCEPT ![r] = 0]
    /\ stage' = [stage EXCEPT ![r] = IF head = r THEN "review" ELSE "skipped"]
    /\ UNCHANGED <<head, report, bound, outcomes, judged, published, dismissing, dismissals,
                   faults>>

\* The review completes with its findings, or a push supersedes it.
Review(r) ==
    /\ stage[r] = "review"
    /\ \/ /\ \E n \in 0..MaxFindings : \E F \in [1..n -> Claims] :
                report' = [report EXCEPT ![r] = F]
          /\ stage' = [stage EXCEPT ![r] = "bind"]
       \/ /\ head # r
          /\ stage' = [stage EXCEPT ![r] = "skipped"]
          /\ UNCHANGED report
    /\ UNCHANGED <<head, rows, bound, outcomes, judged, published, retries, tx, dismissing,
                   dismissals, faults>>

-----------------------------------------------------------------------------
(* Reconciliation: binding.                                                *)

Unbound(r)     == {s \in DOMAIN report[r] : tx[r].bound[s] = NoClaim}
BoundGroups(r) == {tx[r].bound[s] : s \in DOMAIN report[r]} \ {NoClaim}

\* Active groups of the same file and category that this run has not bound.
Continuations(r, claim) ==
    {c \in Claims \ BoundGroups(r) : Seen(r, c).state = "active" /\ PlaceOf[c] = PlaceOf[claim]}

\* The group of the claim's fingerprint; else the only group it can continue; else a new one.
GroupFor(r, claim) ==
    IF Seen(r, claim).state # "absent" THEN claim
    ELSE IF Cardinality(Continuations(r, claim)) = 1
         THEN CHOOSE c \in Continuations(r, claim) : TRUE
         ELSE claim

\* _bind_group_for_finding, for the findings in any order.  A new group is flushed.
Bind(r) ==
    /\ stage[r] = "bind" /\ ~tx[r].flush /\ MayWork(r)
    /\ \E s \in Unbound(r) :
          LET claim == report[r][s]
              c     == GroupFor(r, claim)
              old   == IF tx[r].copy[c].state = "absent" THEN Seen(r, c) ELSE tx[r].copy[c]
              obj   == With(old, tx[r].dirty[c])
              new   == IF obj.state = "absent" THEN Opened(r, claim \in Severe)
                       ELSE Reported(obj, r, claim \in Severe)
          IN  tx' = [tx EXCEPT ![r].bound[s] = c, ![r].copy[c] = old,
                               ![r].dirty[c] = Changes(old, new),
                               ![r].flush = obj.state = "absent"]
    /\ UNCHANGED <<head, rows, report, bound, outcomes, judged, published, stage, retries,
                   dismissing, dismissals, faults>>

AllBound(r) ==
    /\ stage[r] = "bind" /\ ~tx[r].flush /\ MayWork(r)
    /\ Unbound(r) = {}
    /\ Leave(r, tx[r].dirty, "suppress")
    /\ UNCHANGED <<head, rows, report, bound, outcomes, judged, published, retries, dismissing,
                   dismissals, faults>>

-----------------------------------------------------------------------------
(* Reconciliation: what the new head and the absence of findings settle.   *)

Copies(r, state) == {c \in Claims : tx[r].copy[c].state = state}

\* suppress_head_contradictions_for_review_run: a file at the head contradicts C.
Suppress(r) ==
    /\ stage[r] = "suppress" /\ tx[r].loaded
    /\ \E C \in SUBSET Copies(r, "active") :
          Leave(r, Becomes(r, [c \in Claims |->
                       IF c \in C THEN With(tx[r].copy[c], Suppression(r)) ELSE tx[r].copy[c]]),
                "close")
    /\ UNCHANGED <<head, rows, report, bound, outcomes, judged, published, retries, dismissing,
                   dismissals, faults>>

ReportedPlaces(r) == {PlaceOf[report[r][s]] : s \in DOMAIN report[r]}

\* The copies of C that are closed as absent at r; gone: paths that are not in the head.
Closed(r, C, gone) ==
    [c \in Claims |->
        IF c \in C /\ ClosesAsAbsent(tx[r].copy[c], tx[r].copy[c].seen = r,
                                     PlaceOf[c] \in ReportedPlaces(r), PlaceOf[c] \in gone)
        THEN With(tx[r].copy[c], Closure("absent_and_addressed", r)) ELSE tx[r].copy[c]]

\* apply_pass2_closure_for_review_run.
Close(r) ==
    /\ stage[r] = "close" /\ tx[r].loaded
    /\ LET prior == tx[r].prior
           C     == {c \in Copies(r, "active") : \/ tx[r].copy[c].seen \in Pairing(prior, r)
                                                 \/ tx[r].copy[c].status = "addressed"}
       IN  \E gone \in SUBSET Places :
              Leave(r, IF prior = 0 THEN Nothing ELSE Becomes(r, Closed(r, C, gone)), "judge")
    /\ UNCHANGED <<head, rows, report, bound, outcomes, judged, published, retries, dismissing,
                   dismissals, faults>>

-----------------------------------------------------------------------------
(* Reconciliation: the judge.                                              *)

\* Findings whose group is not settled in R, severe enough for the judge.
Candidates(r, R) ==
    {s \in DOMAIN report[r] : R[tx[r].bound[s]].state # "resolved" /\ report[r][s] \in Severe}

HasOutcome(outs, r, c) == \E o \in outs : o.rev = r /\ o.group = c

Missing(r, S, R, outs) ==
    \E s \in S : LET c == tx[r].bound[s] IN R[c].state # "resolved" /\ ~HasOutcome(outs, r, c)

\* Subsets of S as large as the limit n allows.
UpTo(n, S) ==
    {T \in SUBSET S : Cardinality(T) = IF Cardinality(S) < n THEN Cardinality(S) ELSE n}

\* The copies after the judge has answered for the findings of T.
JudgedRows(r, T, answer) ==
    LET Says(c, a) == \E s \in T : tx[r].bound[s] = c /\ answer[s] = a
    IN  [c \in Claims |->
            With(With(tx[r].copy[c], IF Says(c, "dismissed") THEN Closure("judge_dismissed", r)
                                     ELSE <<>>),
                 IF Says(c, "modified") THEN [severe |-> FALSE] ELSE <<>>)]

\* The session after the judge: its answers, and what it concludes from them.
Concluded(r, R, outs, status) ==
    [tx[r] EXCEPT !.loaded = FALSE, !.dirty = Becomes(r, R), !.outs = outs, !.judged = status,
                  !.flush = Touched(Becomes(r, R)) # {}]

\* No candidates, or the judge is off, or no model resolves for it.
NotJudged(r) ==
    LET S    == Candidates(r, tx[r].copy)
        some == \E o \in outcomes : o.rev = r
    IN  \E status \in IF S = {} THEN {"not_applicable"}
                      ELSE {"skipped_disabled", "skipped_unavailable"} :
           /\ S = {} \/ "failed" \in Answers
           /\ tx' = [tx EXCEPT ![r] = Concluded(r, @.copy, {}, IF some THEN "completed" ELSE status)]

\* The model is asked for the first candidates, each of which may have its outcome from an
\* earlier attempt.
AskJudge(r) ==
    LET S == Candidates(r, tx[r].copy)
    IN  /\ S # {}
        /\ \E first \in UpTo(JudgeMax, S) :
           LET T == {s \in first : ~HasOutcome(outcomes, r, tx[r].bound[s])}
           IN  \E answer \in [T -> Answers] :
               LET R    == JudgedRows(r, T, answer)
                   outs == {[rev |-> r, slot |-> s, group |-> tx[r].bound[s]] :
                               s \in {s \in T : answer[s] # "failed"}}
               IN  tx' = [tx EXCEPT ![r] = Concluded(r, R, outs,
                             IF Missing(r, S, R, outcomes \cup outs) THEN "skipped_unavailable"
                             ELSE "completed")]

\* record_review_run_judge_status.
Judge(r) ==
    /\ stage[r] = "judge" /\ tx[r].loaded
    /\ NotJudged(r) \/ AskJudge(r)
    /\ stage' = [stage EXCEPT ![r] = "verify"]
    /\ UNCHANGED <<head, rows, report, bound, outcomes, judged, published, retries, dismissing,
                   dismissals, faults>>

\* Groups to verify: not reported by this run, and not verified by an earlier attempt.
Verified(r)      == {o.group : o \in {o \in outcomes : o.rev = r /\ o.slot = 0}}
Escalations(r)   == {c \in Claims \ (Verified(r) \cup BoundGroups(r)) : Escalates(tx[r].copy[c], r)}
VerifyLeft(r)    == IF Cardinality(Verified(r)) < VerifyMax
                    THEN VerifyMax - Cardinality(Verified(r)) ELSE 0

\* Fault: completed without counting what is missing.
FinalizedAlways(r, R, outs) == IF tx[r].judged = "skipped_unavailable" THEN "completed" ELSE tx[r].judged

\* finalize_review_run_judge_status.
Finalized(r, R, outs) ==
    IF tx[r].judged = "skipped_unavailable" /\ ~Missing(r, Candidates(r, R), R, outcomes \cup outs)
    THEN "completed" ELSE tx[r].judged

\* verify_still_open_escalation_groups; nothing is verified where the commits cannot be
\* compared or the judge is not available.
Verify(r) ==
    /\ stage[r] = "verify" /\ tx[r].loaded
    /\ \E compared \in Compares :
       \E T \in (IF compared /\ tx[r].prior # 0 THEN UpTo(VerifyLeft(r), Escalations(r)) ELSE {})
                \cup (IF "failed" \in Answers \/ ~compared \/ tx[r].prior = 0 THEN {{}} ELSE {}) :
       \E answer \in [T -> Answers \ {"modified"}] :
          LET R    == [c \in Claims |->
                          IF c \in T /\ answer[c] = "dismissed"
                          THEN With(tx[r].copy[c], Closure("verification_dismissed", r))
                          ELSE tx[r].copy[c]]
              outs == tx[r].outs \cup {[rev |-> r, slot |-> 0, group |-> c] :
                                          c \in {c \in T : answer[c] # "failed"}}
          IN  tx' = [tx EXCEPT ![r] = Concluded(r, R, outs, Finalized(r, R, outs))]
    /\ stage' = [stage EXCEPT ![r] = "commit"]
    /\ UNCHANGED <<head, rows, report, bound, outcomes, judged, published, retries, dismissing,
                   dismissals, faults>>

Commit(r) ==
    /\ stage[r] = "commit" /\ ~tx[r].flush
    /\ rows' = Committed(r)
    /\ bound' = [bound EXCEPT ![r] = tx[r].bound]
    /\ outcomes' = outcomes \cup tx[r].outs
    /\ judged' = [judged EXCEPT ![r] = tx[r].judged]
    /\ tx' = [tx EXCEPT ![r] = NoTx]
    /\ stage' = [stage EXCEPT ![r] = "enqueue"]
    /\ UNCHANGED <<head, report, published, retries, dismissing, dismissals, faults>>

\* enqueue_publish_for_review_run reaches the broker.
Enqueue(r) ==
    /\ stage[r] = "enqueue"
    /\ stage' = [stage EXCEPT ![r] = "publish"]
    /\ retries' = [retries EXCEPT ![r] = 0]
    /\ UNCHANGED <<head, rows, report, bound, outcomes, judged, published, tx, dismissing,
                   dismissals, faults>>

-----------------------------------------------------------------------------
(* Publishing, as far as it concerns groups.                               *)

Tracked(r) == UNION {ReportedIn(q) : q \in {q \in published : q < r}} \ {NoClaim}

\* Fault: the job of an overtaken revision is left as it is.
CloseCollapsedAtHead(r) ==
    /\ stage[r] = "publish" /\ tx[r].loaded /\ head = r
    /\ \E T \in SUBSET Tracked(r), gone \in SUBSET Places :
          Leave(r, Becomes(r, Closed(r, T, gone)), "finish")
    /\ UNCHANGED <<head, rows, report, bound, outcomes, judged, published, retries, dismissing,
                   dismissals, faults>>

\* Inline threads of groups T are collapsed, and their groups closed where the rule of
\* Pass 2 allows it; for an overtaken revision the job is skipped.
CloseCollapsed(r) ==
    /\ stage[r] = "publish" /\ tx[r].loaded
    /\ IF head = r
       THEN \E T \in SUBSET Tracked(r), gone \in SUBSET Places :
               Leave(r, Becomes(r, Closed(r, T, gone)), "finish")
       ELSE /\ tx' = [tx EXCEPT ![r] = NoTx]
            /\ stage' = [stage EXCEPT ![r] = "skipped"]
    /\ UNCHANGED <<head, rows, report, bound, outcomes, judged, published, retries, dismissing,
                   dismissals, faults>>

Publish(r) ==
    /\ stage[r] = "finish" /\ ~tx[r].flush
    /\ rows' = Committed(r)
    /\ published' = published \cup {r}
    /\ tx' = [tx EXCEPT ![r] = NoTx]
    /\ stage' = [stage EXCEPT ![r] = "done"]
    /\ UNCHANGED <<head, report, bound, outcomes, judged, retries, dismissing, dismissals, faults>>

-----------------------------------------------------------------------------
(* A person dismisses a group.                                             *)

BeginDismissal(c) ==
    /\ Overlapping \/ \A r \in Revs : ~InSession(r)
    /\ dismissing = NoRequest
    /\ dismissals < MaxDismissals
    /\ rows[c].state = "active"
    /\ dismissing' = [group |-> c, copy |-> rows[c], at |-> head]
    /\ dismissals' = dismissals + 1
    /\ UNCHANGED <<head, rows, report, bound, outcomes, judged, published, stage, retries, tx,
                   faults>>

Dismiss ==
    /\ dismissing # NoRequest
    /\ LET c   == dismissing.group
           new == With(dismissing.copy, Closure("human_dismissed", dismissing.at))
       IN  /\ \A r \in Revs : c \notin Touched(tx[r].wrote)
           /\ rows' = [rows EXCEPT ![c] = With(@, Changes(dismissing.copy, new))]
    /\ dismissing' = NoRequest
    /\ UNCHANGED <<head, report, bound, outcomes, judged, published, stage, retries, tx,
                   dismissals, faults>>

-----------------------------------------------------------------------------

Step(r) ==
    \/ Load(r) \/ Flush(r) \/ Refused(r)
    \/ Sync(r) \/ Synced(r) \/ Review(r)
    \/ Bind(r) \/ AllBound(r) \/ Suppress(r) \/ Close(r) \/ Judge(r) \/ Verify(r)
    \/ Commit(r) \/ Enqueue(r) \/ CloseCollapsed(r) \/ Publish(r)

Next ==
    \/ Push
    \/ \E r \in Revs : Step(r) \/ Fail(r)
    \/ \E c \in Claims : BeginDismissal(c)
    \/ Dismiss

\* Workers go on with the tasks they have taken, and the API answers a request.
Fairness == (\A r \in Revs : WF_vars(Step(r))) /\ WF_vars(Dismiss)

Spec == Init /\ [][Next]_vars /\ Fairness

-----------------------------------------------------------------------------
(* Properties.                                                             *)

\* Every column holds a value of its type; only revisions that exist are published.
TypeOK ==
    /\ head \in 0..MaxRev
    /\ rows \in [Claims -> Rows(Revs)]
    /\ \A r \in Revs : Len(report[r]) <= MaxFindings /\ ReportedIn(r) \subseteq Claims \cup {NoClaim}
    /\ judged \in [Revs -> {"none", "not_applicable", "skipped_disabled", "skipped_unavailable",
                            "completed"}]
    /\ published \subseteq 1..head

\* A resolved group says how and at which revision it was resolved, and a group that is
\* open again says neither.  The one exception is a suppressed group, which a report
\* opens again without clearing its columns.
Causes ==
    \A c \in Claims :
        /\ rows[c].state = "resolved" => rows[c].method # "none" /\ rows[c].at # 0
        /\ rows[c].state = "active"   => rows[c].method \in {"none", "head_contradiction"}

\* Neither Pass 2 nor publishing closes as absent, at a revision, a group that the
\* revision's own review reports.
ReportedIsOpen ==
    \A r \in Revs : \A c \in ReportedIn(r) \ {NoClaim} :
        ~(rows[c].method = "absent_and_addressed" /\ rows[c].at = r)

Reconciled == {r \in Revs : judged[r] # "none"}

\* What the newest reconciled review reports is not shown as gone: a group that was closed
\* as absent and is bound again is open again (github_finding_closure_rules, FR-Q13).
LastReportIsOpen ==
    \A r \in Reconciled : \A c \in ReportedIn(r) \ {NoClaim} :
        (\A q \in Reconciled : q <= r) => rows[c].method # "absent_and_addressed"

\* A judge status of completed means that every candidate that is still open has an
\* outcome, when it is committed for the first time: failed answers, candidates beyond
\* JUDGE_MAX_PER_RUN and groups settled by the verification are all accounted for.
JudgedWhenCompleted ==
    \A r \in Revs :
        stage[r] = "commit" /\ ~tx[r].flush /\ tx[r].judged = "completed" /\ judged[r] = "none"
            => ~Missing(r, Candidates(r, Committed(r)), Committed(r), outcomes \cup tx[r].outs)

\* The resolution rate never passes 100 %: what a pass counts as settled is among what it
\* counts as open before.  A person's dismissal between a push and its pairing is left out.
RateBounded ==
    \A r \in Revs :
        LET prior == LastPublished(published, r)
        IN  stage[r] = "commit" /\ ~tx[r].flush /\ prior # 0 =>
            \A c \in Existing(r) :
                PassTransition(Seen(r, c), prior, r) /\ Seen(r, c).method # "human_dismissed"
                    => PassDenominator(Seen(r, c), prior, r)

\* What a person has dismissed stays dismissed, whatever later reviews report.
DismissalHolds ==
    [][\A c \in Claims : rows[c].method = "human_dismissed" => rows'[c].method = "human_dismissed"]_vars

\* Every revision's tasks come to an end, although sessions wait for each other's rows,
\* deadlock and collide on new groups, and only so many retries are made.
Settles == \A r \in Revs : stage[r] # "none" ~> stage[r] \in Ended

=============================================================================
