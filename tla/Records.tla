------------------------------ MODULE Records ------------------------------
(***************************************************************************)
(* What a pipeline leaves behind: the calls of the review and of the judge *)
(* to the models, and the trace with its check run on GitHub.  The three   *)
(* share no state here: a behaviour follows one of them (part).  The       *)
(* constants are theirs.                                                   *)
(***************************************************************************)
EXTENDS Integers, Sequences

CONSTANTS
    Models, Default, Converse, None, MaxChanges, MaxFaults,
    Candidates, MaxPerRun,
    MaxTraceFaults,
    MaxRetries

ASSUME RecordsAssumption ==
    /\ None \notin Models
    /\ Candidates \in Nat /\ MaxPerRun \in Nat /\ MaxRetries \in Nat

VARIABLES
    part,
    catalog, override, changes, run, task, rows, found, step, snapshot, faults, ended, why, moved,
    structured, stored, session, left, at, turn, second, plain, artifacts, steps, posts, questions,
    head, reviewable, hook, push, job, reviewRun, pub, worker, saved, target, recorded, check, failures, excuse

R == INSTANCE ReviewCalls

J == INSTANCE JudgeCalls

T == INSTANCE PipelineTrace WITH run <- reviewRun, task <- worker, steps <- recorded, faults <- failures,
                                MaxFaults <- MaxTraceFaults

review == <<catalog, override, changes, run, task, rows, found, step, snapshot, faults, ended, why, moved>>
judge  == <<structured, stored, session, left, at, turn, second, plain, artifacts, steps, posts, questions>>

trace  == <<head, reviewable, hook, push, job, reviewRun, pub, worker, saved, target, recorded, check, failures, excuse>>

Init == part \in {"review", "judge", "trace"} /\ R!Init /\ J!Init /\ T!Init

Next ==
    \/ part = "review" /\ R!Next /\ UNCHANGED <<part, judge, trace>>
    \/ part = "judge" /\ J!Next /\ UNCHANGED <<part, review, trace>>
    \/ part = "trace" /\ T!Next /\ UNCHANGED <<part, review, judge>>

\* The fairness of PipelineTrace, where its behaviours are followed.
Work == part = "trace" /\ T!Work /\ UNCHANGED <<part, review, judge>>

vars == <<part, review, judge, trace>>

Spec == Init /\ [][Next]_vars /\ WF_vars(Work)

-----------------------------------------------------------------------------

\* The type invariants of the three.
TypeOK == R!TypeOK /\ J!TypeOK /\ T!TypeOK

\* Review: the calls of a run are numbered without a gap.
AttemptsNumbered == R!AttemptsNumbered

\* Review: two calls in a delivery at most.
CallsAreBounded == R!CallsAreBounded

\* Review: only the last call may be left unexplained.
OnlyLastUnexplained == R!OnlyLastUnexplained

\* Review: a passing error fails the run only after the retries.
RetriedFirst == R!RetriedFirst

\* Review: the snapshot names a model that was asked.
SnapshotWasAsked == R!SnapshotWasAsked

\* Review: the snapshot names the model that reviewed.
SnapshotReviewed == R!SnapshotReviewed

\* Review: the model asked is the run's, as a test says.
RequestMatchesRun == R!RequestMatchesRun

\* Review: a call without a failure class succeeded, as a script says.
NoClassIsSuccess == R!NoClassIsSuccess

\* Judge: one outcome per group and run.
OutcomeOnce == J!OutcomeOnce

\* Judge: four posts per candidate at most.
PostsPerCandidate == J!PostsPerCandidate

\* Judge: a step tells of every candidate asked for.
StepTellsAll == J!StepTellsAll

\* Judge: the retries told are the retries made.
RetriesTold == J!RetriesTold

\* Trace: the check run says how the pipeline ended.
CheckTellsTheEnd == T!CheckTellsTheEnd

\* Trace: retries record one review step.
OneReviewStep == T!OneReviewStep

\* Trace: a published result is not overwritten.
ResultStays == [][T!ResultStaysStep]_trace

\* Trace: the pipeline comes to an end.
PipelineEnds == part = "trace" /\ hook.at = "done" ~> worker.at = "over"

\* Trace: the check of a superseded pipeline is neutral, as a docstring says.
SupersededIsNeutral == T!SupersededIsNeutral

=============================================================================
