--------------------- MODULE GenerationLifecycle_proofs ---------------------
(***************************************************************************)
(* Theorems about GenerationLifecycle, for every number of commits,        *)
(* transactions, generations, retries and crashes.                         *)
(*                                                                         *)
(* The inductive invariant is IInv: the types, the row locks (ClaimsHold), *)
(* the generation numbers an open transaction keeps for the rows it may    *)
(* insert (GenerationsAreFresh), and the agreement of tasks and rows       *)
(* (TasksAgree).  Every other result is a step from it; those about        *)
(* deliveries that run one at a time also need Separate, and the           *)
(* refinement of ReviewContract, at the end, OneVoice.                     *)
(***************************************************************************)
EXTENDS GenerationLifecycle, FiniteSetTheorems, TLAPS

\* No row of generation g has been committed.
Unstarted(g) ==
    /\ genSha[g] = NoSha
    /\ jobStatus[g] = "none" /\ indexTask[g] = "none"
    /\ runStatus[g] = "none" /\ reviewTask[g] = "none"

\* An open transaction owns the generation it may insert.
GenerationsAreFresh ==
    /\ \A g \in Gens : g > started => Unstarted(g)
    /\ \A h \in Hooks : hook[h].phase # "idle" =>
         hook[h].gen \in 1..started /\ Unstarted(hook[h].gen)
    /\ \A h, k \in Hooks :
         h # k /\ hook[h].phase # "idle" /\ hook[k].phase # "idle" => hook[h].gen # hook[k].gen
    /\ api # NoRequest =>
         /\ api.gen \in 1..started /\ Unstarted(api.gen)
         /\ \A h \in Hooks : hook[h].phase # "idle" => hook[h].gen # api.gen

IInv == TypeOK /\ ClaimsHold /\ GenerationsAreFresh /\ TasksAgree

-----------------------------------------------------------------------------
(* Types.                                                                  *)

LEMMA InitTypeOK == Init => TypeOK
<1> SUFFICES ASSUME Init PROVE TypeOK
  OBVIOUS
<1>1. /\ headSha \in Shas \cup {NoSha} /\ revisionNumber \in [Shas -> Nat] /\ revisionCount \in Nat
      /\ started \in 0..MaxGens /\ completedRuns \in 0..ReviewRunLimit /\ crashes \in 0..MaxCrashes
      /\ genSha \in [Gens -> Shas \cup {NoSha}] /\ retries \in [Gens -> 0..MaxRetries]
      /\ reconciled \subseteq Gens
  BY ConstantsAssumption DEF ConstantsAssumption, Init
<1>2. reviewable \in BOOLEAN /\ openedQueued \in BOOLEAN /\ findings \in [Gens -> BOOLEAN]
  BY DEF Init
<1>3. /\ trigger \in [Gens -> {"none", "autostart", "command", "manual"}]
      /\ jobStatus \in [Gens -> JobStatuses] /\ runStatus \in [Gens -> RunStatuses]
      /\ indexTask \in [Gens -> {"none", "deferred", "queued", "failing", "done", "lost"} \cup Locking]
      /\ reviewTask \in [Gens -> {"none", "queued", "llm", "writing", "completing", "handoff",
                                  "done", "lost"}]
  BY DEF Init, JobStatuses, RunStatuses
<1>4. hook \in [Hooks -> Hook] /\ api \in Request
  BY ConstantsAssumption DEF ConstantsAssumption, Init, NoHook, Hook, NoRequest, Request
<1> QED
  BY <1>1, <1>2, <1>3, <1>4 DEF TypeOK

\* A delivery or a request takes the next generation number.
LEMMA NextGeneration ==
  ASSUME TypeOK, started < MaxGens, started' = started + 1
  PROVE  started' \in Gens /\ started' \in 0..MaxGens /\ started' \in Nat
  BY ConstantsAssumption DEF ConstantsAssumption, TypeOK, Gens

LEMMA EnqueuedType ==
  ASSUME TypeOK, NEW task, NEW queue, Enqueued(task, queue)
  PROVE  crashes' \in 0..MaxCrashes /\ task \in {queue, "lost"}
  BY ConstantsAssumption DEF ConstantsAssumption, Enqueued, TypeOK

LEMMA DeliveryTypeOK ==
  ASSUME TypeOK, NEW h \in Hooks, Delivery(h)
  PROVE  TypeOK'
<1>1. ASSUME NEW ready \in BOOLEAN, OpenPullRequest(h, ready) PROVE TypeOK'
  <2>1. started' \in Gens /\ started' \in 0..MaxGens
    BY <1>1, NextGeneration DEF OpenPullRequest, Takes
  <2>2. /\ headSha' \in Shas \cup {NoSha} /\ revisionNumber' \in [Shas -> Nat]
        /\ revisionCount' \in Nat
    BY <1>1, ConstantsAssumption DEF ConstantsAssumption, OpenPullRequest, TypeOK
  <2>3. reviewable' \in BOOLEAN /\ openedQueued' \in BOOLEAN
    BY <1>1 DEF OpenPullRequest
  <2>4. UNCHANGED <<runVars, hook, api>>
    BY <1>1 DEF OpenPullRequest
  <2>5. CASE ready
    <3>1. PICK task \in {"queued", "lost"} :
            /\ genSha' = [genSha EXCEPT ![started'] = FirstSha]
            /\ trigger' = [trigger EXCEPT ![started'] = "autostart"]
            /\ jobStatus' = [jobStatus EXCEPT ![started'] = "pending"]
            /\ indexTask' = [indexTask EXCEPT ![started'] = task]
            /\ Enqueued(task, "queued")
      BY <1>1, <2>5 DEF OpenPullRequest
    <3>2. /\ genSha' \in [Gens -> Shas \cup {NoSha}]
          /\ trigger' \in [Gens -> {"none", "autostart", "command", "manual"}]
          /\ jobStatus' \in [Gens -> JobStatuses]
          /\ indexTask' \in [Gens -> {"none", "deferred", "queued", "failing", "done", "lost"} \cup Locking]
      BY <3>1, ConstantsAssumption DEF ConstantsAssumption, TypeOK, JobStatuses
    <3>3. crashes' \in 0..MaxCrashes
      BY <3>1, EnqueuedType
    <3> QED
      BY <2>1, <2>2, <2>3, <2>4, <3>2, <3>3 DEF TypeOK, runVars
  <2>6. CASE ~ready
    <3>1. UNCHANGED <<genSha, jobVars, crashes>>
      BY <1>1, <2>6 DEF OpenPullRequest
    <3> QED
      BY <2>1, <2>2, <2>3, <2>4, <3>1 DEF TypeOK, runVars, jobVars
  <2> QED
    BY <2>5, <2>6
<1>2. ASSUME NEW ready \in BOOLEAN, OpenedLate(h, ready) PROVE TypeOK'
  <2>1. started' \in 0..MaxGens
    BY <1>2, NextGeneration DEF OpenedLate, Takes
  <2>2. headSha' \in Shas \cup {NoSha}
    BY <1>2, ConstantsAssumption DEF ConstantsAssumption, OpenedLate
  <2>3. reviewable' \in BOOLEAN /\ openedQueued' \in BOOLEAN
    BY <1>2 DEF OpenedLate
  <2>4. UNCHANGED <<revisionNumber, revisionCount, genSha, jobVars, runVars, hook, api, crashes>>
    BY <1>2 DEF OpenedLate
  <2> QED
    BY <2>1, <2>2, <2>3, <2>4 DEF TypeOK, jobVars, runVars
<1>3. CASE ChangeState(h)
  <2>1. started' \in 0..MaxGens
    BY <1>3, NextGeneration DEF ChangeState, Takes
  <2>2. reviewable' \in BOOLEAN
    BY <1>3 DEF ChangeState
  <2>3. UNCHANGED <<headSha, revisionNumber, revisionCount, openedQueued, genSha, jobVars,
                    runVars, hook, api, crashes>>
    BY <1>3 DEF ChangeState
  <2> QED
    BY <2>1, <2>2, <2>3 DEF TypeOK, jobVars, runVars
<1>4. ASSUME NEW s \in Shas, NEW ready \in BOOLEAN, BeginSynchronize(h, s, ready)
      PROVE  TypeOK'
  <2>1. started' \in Gens /\ started' \in 0..MaxGens
    BY <1>4, NextGeneration DEF BeginSynchronize, Takes
  <2>2. UNCHANGED <<prVars, genSha, jobVars, runVars, api, crashes>>
    BY <1>4 DEF BeginSynchronize
  <2>3. ActiveRunsOn(OlderThan(BoundNumber(s))) \subseteq Gens
    BY DEF ActiveRunsOn
  <2>4. PICK writes \in BOOLEAN : hook' = [hook EXCEPT ![h] =
             [phase |-> "runs", kind |-> "synchronize", sha |-> s, pass |-> "older",
              locksPr |-> writes, reviewable |-> ready,
              picked |-> ActiveRunsOn(OlderThan(BoundNumber(s))),
              runs |-> {}, jobs |-> {}, gen |-> started']]
    BY <1>4, Zenon DEF BeginSynchronize
  <2>5. hook' \in [Hooks -> Hook]
    BY <2>1, <2>3, <2>4 DEF TypeOK, Hook
  <2> QED
    BY <2>1, <2>2, <2>5 DEF TypeOK, prVars, jobVars, runVars
<1>5. CASE BeginCommand(h)
  <2>1. started' \in Gens /\ started' \in 0..MaxGens
    BY <1>5, NextGeneration DEF BeginCommand, Takes
  <2>2. UNCHANGED <<prVars, genSha, jobVars, runVars, api, crashes>>
    BY <1>5 DEF BeginCommand
  <2>3. ActiveRunsOn({headSha}) \subseteq Gens
    BY DEF ActiveRunsOn
  <2>4. PICK heals \in BOOLEAN : hook' = [hook EXCEPT ![h] =
             [phase |-> "runs", kind |-> "command", sha |-> headSha, pass |-> "same",
              locksPr |-> heals, reviewable |-> reviewable,
              picked |-> ActiveRunsOn({headSha}),
              runs |-> {}, jobs |-> {}, gen |-> started']]
    BY <1>5, Zenon DEF BeginCommand
  <2>5. hook' \in [Hooks -> Hook]
    BY <2>1, <2>3, <2>4 DEF TypeOK, Hook
  <2> QED
    BY <2>1, <2>2, <2>5 DEF TypeOK, prVars, jobVars, runVars
<1> QED
  BY <1>1, <1>2, <1>3, <1>4, <1>5 DEF Delivery

LEMMA HookStepTypeOK ==
  ASSUME TypeOK, NEW h \in Hooks, HookStep(h) \/ AbortHook(h)
  PROVE  TypeOK'
<1>h. hook \in [Hooks -> Hook]
  BY DEF TypeOK
<1>r. revisionNumber \in [Shas -> Nat] /\ revisionCount \in Nat /\ headSha \in Shas \cup {NoSha}
  BY DEF TypeOK
<1>1. CASE SupersedeRuns(h)
  <2>1. StillActive(h) \subseteq Gens /\ PendingJobsOn(Scope(h)) \subseteq Gens
    BY DEF StillActive, PendingJobsOn, TypeOK, Hook
  <2>2. PICK R \in SUBSET Gens, P \in SUBSET Gens :
          hook' = [hook EXCEPT ![h].phase = "jobs", ![h].runs = @ \cup R, ![h].picked = P]
    BY <1>1, <2>1, Zenon DEF SupersedeRuns
  <2>3. hook' \in [Hooks -> Hook]
    <3>1. hook[h].runs \cup R \subseteq Gens
      BY <1>h DEF Hook
    <3>2. hook[h] \in Hook
      BY <1>h
    <3>3. [hook[h] EXCEPT !.phase = "jobs", !.runs = hook[h].runs \cup R, !.picked = P] \in Hook
      BY <3>1, <3>2 DEF Hook
    <3>4. hook' = [hook EXCEPT ![h] =
                    [hook[h] EXCEPT !.phase = "jobs", !.runs = hook[h].runs \cup R, !.picked = P]]
      BY <1>h, <2>2, Zenon
    <3> QED
      BY <1>h, <3>3, <3>4
  <2>4. UNCHANGED <<prVars, started, genSha, jobVars, runVars, api, crashes>>
    BY <1>1 DEF SupersedeRuns
  <2> QED
    BY <2>3, <2>4 DEF TypeOK, prVars, jobVars, runVars
<1>2. CASE SupersedeJobs(h)
  <2>1. StillPending(h) \subseteq Gens /\ ActiveRunsOn({hook[h].sha}) \subseteq Gens
    BY DEF StillPending, ActiveRunsOn, TypeOK, Hook
  <2>2. PICK J \in SUBSET Gens, P \in SUBSET Gens :
          \/ hook' = [hook EXCEPT ![h].phase = "runs", ![h].pass = "same",
                                 ![h].jobs = @ \cup J, ![h].picked = P]
          \/ hook' = [hook EXCEPT ![h].phase = "check", ![h].jobs = @ \cup J, ![h].picked = {}]
    BY <1>2, <2>1, Zenon DEF SupersedeJobs
  <2>3. hook' \in [Hooks -> Hook]
    BY <1>h, <2>2 DEF Hook
  <2>4. UNCHANGED <<prVars, started, genSha, jobVars, runVars, api, crashes>>
    BY <1>2 DEF SupersedeJobs
  <2> QED
    BY <2>3, <2>4 DEF TypeOK, prVars, jobVars, runVars
<1>3. CASE CheckInProgress(h)
  <2>1. PICK phase \in {"insert", "commit"} : hook' = [hook EXCEPT ![h].phase = phase]
    BY <1>3, Zenon DEF CheckInProgress
  <2>2. hook' \in [Hooks -> Hook]
    BY <1>h, <2>1 DEF Hook
  <2>3. UNCHANGED <<prVars, started, genSha, jobVars, runVars, api, crashes>>
    BY <1>3 DEF CheckInProgress
  <2> QED
    BY <2>2, <2>3 DEF TypeOK, prVars, jobVars, runVars
<1>4. CASE CommitHook(h)
  <2>1. /\ headSha' \in Shas \cup {NoSha}
        /\ revisionCount' \in Nat /\ revisionNumber' \in [Shas -> Nat]
    <3>1. hook[h].sha \in Shas \cup {NoSha}
      BY <1>h DEF Hook
    <3>2. headSha' \in {hook[h].sha, headSha} /\ revisionCount' \in {revisionCount, revisionCount + 1}
      BY <1>4, Zenon DEF CommitHook
    <3>3. revisionNumber' = [revisionNumber EXCEPT ![hook[h].sha] = BoundNumber(hook[h].sha)]
      BY <1>4 DEF CommitHook
    <3>4. ASSUME NEW s \in Shas PROVE BoundNumber(s) \in Nat
      BY <1>r DEF BoundNumber
    <3>5. revisionNumber' \in [Shas -> Nat]
      BY <1>r, <3>3, <3>4
    <3> QED
      BY <1>r, <3>1, <3>2, <3>5
  <2>2. reviewable' \in BOOLEAN
    <3>1. reviewable' \in {hook[h].reviewable, reviewable}
      BY <1>4, Zenon DEF CommitHook
    <3>2. hook[h].reviewable \in BOOLEAN /\ reviewable \in BOOLEAN
      BY DEF TypeOK, Hook
    <3> QED
      BY <3>1, <3>2, Zenon
  <2>3. /\ genSha' \in [Gens -> Shas \cup {NoSha}]
        /\ trigger' \in [Gens -> {"none", "autostart", "command", "manual"}]
    BY <1>4 DEF CommitHook, TypeOK, Hook
  <2>4. jobStatus' \in [Gens -> JobStatuses] /\ runStatus' \in [Gens -> RunStatuses]
    <3>1. PICK superseded : /\ superseded = [g \in Gens |-> IF g \in hook[h].jobs THEN "superseded"
                                                          ELSE jobStatus[g]]
                            /\ \/ jobStatus' = superseded
                               \/ jobStatus' = [superseded EXCEPT ![hook[h].gen] = "pending"]
      BY <1>4, Zenon DEF CommitHook
    <3>2. runStatus' = [g \in Gens |-> IF g \in hook[h].runs THEN "superseded" ELSE runStatus[g]]
      BY <1>4 DEF CommitHook
    <3>3. jobStatus \in [Gens -> JobStatuses] /\ runStatus \in [Gens -> RunStatuses]
      BY DEF TypeOK
    <3>4. superseded \in [Gens -> JobStatuses]
      BY <3>1, <3>3 DEF JobStatuses
    <3> QED
      BY <3>1, <3>2, <3>3, <3>4 DEF JobStatuses, RunStatuses
  <2>5. \/ \E queue \in {"deferred", "queued"} : \E task \in {queue, "lost"} :
              indexTask' = [indexTask EXCEPT ![hook[h].gen] = task] /\ Enqueued(task, queue)
        \/ UNCHANGED <<indexTask, crashes>>
    BY <1>4, Zenon DEF CommitHook, jobVars
  <2>6. \A queue, task : Enqueued(task, queue) => crashes' \in 0..MaxCrashes
    BY EnqueuedType
  <2>7. hook' \in [Hooks -> Hook]
    BY <1>4, ConstantsAssumption DEF ConstantsAssumption, CommitHook, TypeOK, NoHook, Hook
  <2>8. UNCHANGED <<openedQueued, started, reviewTask, retries, findings, reconciled,
                    completedRuns, api>>
    BY <1>4 DEF CommitHook
  <2>9. /\ indexTask' \in [Gens -> {"none", "deferred", "queued", "failing", "done", "lost"} \cup Locking]
        /\ crashes' \in 0..MaxCrashes
    BY <2>5, <2>6 DEF TypeOK
  <2> QED
    BY <2>1, <2>2, <2>3, <2>4, <2>7, <2>8, <2>9 DEF TypeOK
<1>5. CASE AbortHook(h)
  <2>1. hook' \in [Hooks -> Hook]
    BY <1>5, ConstantsAssumption DEF ConstantsAssumption, AbortHook, TypeOK, NoHook, Hook
  <2>2. UNCHANGED <<prVars, started, genSha, jobVars, runVars, api, crashes>>
    BY <1>5 DEF AbortHook
  <2> QED
    BY <2>1, <2>2 DEF TypeOK, prVars, jobVars, runVars
<1> QED
  BY <1>1, <1>2, <1>3, <1>4, <1>5 DEF HookStep

LEMMA IndexStepTypeOK ==
  ASSUME TypeOK, NEW g \in Gens, IndexStep(g) \/ CrashIndex(g)
  PROVE  TypeOK'
<1>1. CASE \/ ApplyResolution(g) \/ CleanUpResolution(g) \/ SkipIndex(g) \/ ClaimIndex(g)
           \/ FinishIndex(g) \/ RollBackIndex(g) \/ FailIndex(g) \/ CrashIndex(g)
  <2>1. indexTask' \in [Gens -> {"none", "deferred", "queued", "failing", "done", "lost"} \cup Locking]
    BY <1>1 DEF ApplyResolution, CleanUpResolution, SkipIndex, ClaimIndex, FinishIndex,
       RollBackIndex, FailIndex, CrashIndex, TypeOK, Locking
  <2>2. jobStatus' \in [Gens -> JobStatuses]
    BY <1>1 DEF ApplyResolution, CleanUpResolution, SkipIndex, ClaimIndex, FinishIndex,
       RollBackIndex, FailIndex, FailJob, CrashIndex, TypeOK, JobStatuses
  <2>3. crashes' \in 0..MaxCrashes
    BY <1>1, ConstantsAssumption DEF ConstantsAssumption, ApplyResolution, CleanUpResolution,
       SkipIndex, ClaimIndex, FinishIndex, RollBackIndex, FailIndex, CrashIndex, IndexUnchanged, TypeOK
  <2>4. UNCHANGED <<prVars, started, genSha, trigger, runVars, hook, api>>
    BY <1>1 DEF ApplyResolution, CleanUpResolution, SkipIndex, ClaimIndex, FinishIndex,
       RollBackIndex, FailIndex, CrashIndex, IndexUnchanged
  <2> QED
    BY <2>1, <2>2, <2>3, <2>4 DEF TypeOK, prVars, runVars
<1>2. CASE CommitIndex(g)
  <2>1. /\ jobStatus' \in [Gens -> JobStatuses]
        /\ indexTask' \in [Gens -> {"none", "deferred", "queued", "failing", "done", "lost"} \cup Locking]
    BY <1>2 DEF CommitIndex, TypeOK, JobStatuses
  <2>2. CASE indexTask[g] = "review"
    <3>1. PICK task \in {"queued", "lost"} :
            /\ runStatus' = [runStatus EXCEPT ![g] = "pending"]
            /\ reviewTask' = [reviewTask EXCEPT ![g] = task]
            /\ Enqueued(task, "queued")
      BY <1>2, <2>2 DEF CommitIndex
    <3>2. crashes' \in 0..MaxCrashes
      BY <3>1, EnqueuedType
    <3> QED
      BY <1>2, <2>1, <3>1, <3>2 DEF CommitIndex, TypeOK, prVars, RunStatuses, ActiveRun
  <2>3. CASE indexTask[g] # "review"
    BY <1>2, <2>1, <2>3 DEF CommitIndex, TypeOK, prVars
  <2> QED
    BY <2>2, <2>3
<1> QED
  BY <1>1, <1>2 DEF IndexStep

LEMMA ReviewStepTypeOK ==
  ASSUME TypeOK, NEW g \in Gens, ReviewStep(g) \/ CrashReview(g)
  PROVE  TypeOK'
<1> USE DEF MoveReview
<1>1. UNCHANGED <<prVars, started, genSha, jobVars, hook, api>>
  BY DEF ReviewStep, SkipReview, StartReview, RetryReview, FailReview, ParseReview, AddFindings,
     CompleteReview, HandOff, CrashReview, ReviewUnchanged
<1>2. reviewTask' \in [Gens -> {"none", "queued", "llm", "writing", "completing", "handoff",
                               "done", "lost"}]
  BY DEF ReviewStep, SkipReview, StartReview, RetryReview, FailReview, ParseReview, AddFindings,
     CompleteReview, HandOff, CrashReview, TypeOK
<1>3. runStatus' \in [Gens -> RunStatuses]
  BY DEF ReviewStep, SkipReview, StartReview, RetryReview, FailReview, ParseReview, AddFindings,
     CompleteReview, HandOff, CrashReview, TypeOK, RunStatuses, ActiveRun
<1>4. retries' \in [Gens -> 0..MaxRetries]
  BY ConstantsAssumption DEF ConstantsAssumption, ReviewStep, SkipReview, StartReview, RetryReview,
     FailReview, ParseReview, AddFindings, CompleteReview, HandOff, CrashReview, TypeOK
<1>5. findings' \in [Gens -> BOOLEAN]
  <2>1. findings' = findings \/ \E b \in BOOLEAN : findings' = [findings EXCEPT ![g] = b]
    BY Zenon DEF ReviewStep, SkipReview, StartReview, RetryReview, FailReview, ParseReview, AddFindings,
       CompleteReview, HandOff, CrashReview
  <2> QED
    BY <2>1 DEF TypeOK
<1>6. reconciled' \subseteq Gens
  BY DEF ReviewStep, SkipReview, StartReview, RetryReview, FailReview, ParseReview, AddFindings,
     CompleteReview, HandOff, CrashReview, TypeOK
<1>7. completedRuns' \in 0..ReviewRunLimit
  BY ConstantsAssumption DEF ConstantsAssumption, ReviewStep, SkipReview, StartReview, RetryReview,
     FailReview, ParseReview, AddFindings, CompleteReview, Credit, HandOff, CrashReview, TypeOK
<1>8. crashes' \in 0..MaxCrashes
  BY ConstantsAssumption DEF ConstantsAssumption, ReviewStep, SkipReview, StartReview, RetryReview,
     FailReview, ParseReview, AddFindings, CompleteReview, HandOff, CrashReview, TypeOK
<1> QED
  BY <1>1, <1>2, <1>3, <1>4, <1>5, <1>6, <1>7, <1>8 DEF TypeOK, prVars, jobVars

LEMMA RequestTypeOK ==
  ASSUME TypeOK, \/ \E s \in Shas : RequestIndex(s) \/ RequestReview(s)
                 \/ CommitRequest
  PROVE  TypeOK'
<1>1. ASSUME NEW s \in Shas, NEW kind \in {"index", "review"}, Requests(kind, s)
      PROVE  TypeOK'
  <2>1. started' \in Gens /\ started' \in 0..MaxGens
    BY <1>1, NextGeneration DEF Requests
  <2>2. api' \in Request
    BY <1>1, <2>1 DEF Requests, Request
  <2> QED
    BY <1>1, <2>1, <2>2 DEF Requests, TypeOK, prVars, jobVars, runVars
<1>2. CASE CommitRequest
  <2>1. PICK task \in {"queued", "lost"} : 
         /\ Enqueued(task, "queued")
         /\ \/ /\ trigger' = [trigger EXCEPT ![api.gen] = "manual"]
               /\ jobStatus' = [jobStatus EXCEPT ![api.gen] = "pending"]
               /\ indexTask' = [indexTask EXCEPT ![api.gen] = task]
               /\ UNCHANGED <<runStatus, reviewTask>>
            \/ /\ runStatus' = [runStatus EXCEPT ![api.gen] = "pending"]
               /\ reviewTask' = [reviewTask EXCEPT ![api.gen] = task]
               /\ UNCHANGED jobVars
    BY <1>2 DEF CommitRequest
  <2>2. crashes' \in 0..MaxCrashes
    BY <2>1, EnqueuedType
  <2>3. genSha' \in [Gens -> Shas \cup {NoSha}] /\ api' \in Request
    <3>1. genSha' = [genSha EXCEPT ![api.gen] = api.sha] /\ api' = NoRequest
      BY <1>2 DEF CommitRequest
    <3>2. genSha \in [Gens -> Shas \cup {NoSha}] /\ api \in Request
      BY DEF TypeOK
    <3>3. api.sha \in Shas \cup {NoSha}
      BY <3>2 DEF Request
    <3>4. NoRequest \in Request
      BY ConstantsAssumption DEF ConstantsAssumption, NoRequest, Request
    <3> QED
      BY <3>1, <3>2, <3>3, <3>4
  <2>4. UNCHANGED <<prVars, started, retries, findings, reconciled, completedRuns, hook>>
    BY <1>2 DEF CommitRequest
  <2> QED
    BY <2>1, <2>2, <2>3, <2>4 DEF TypeOK, prVars, jobVars, JobStatuses, RunStatuses, ActiveRun
<1> QED
  BY <1>1, <1>2 DEF RequestIndex, RequestReview

LEMMA NextTypeOK == TypeOK /\ [Next]_vars => TypeOK'
<1> SUFFICES ASSUME TypeOK, [Next]_vars PROVE TypeOK'
  OBVIOUS
<1>1. CASE UNCHANGED vars
  BY <1>1 DEF TypeOK, vars, prVars, jobVars, runVars
<1> QED
  BY <1>1, DeliveryTypeOK, HookStepTypeOK, IndexStepTypeOK, ReviewStepTypeOK, RequestTypeOK
     DEF Next, Wait

\* The columns, transactions and tasks only ever hold the values of their
\* types: in particular the credits of a workspace stay within its limit and
\* generation numbers within the bound.
THEOREM TypeCorrect == Spec => []TypeOK
  BY InitTypeOK, NextTypeOK, PTL DEF Spec

-----------------------------------------------------------------------------
(* Rows, transactions and tasks.                                           *)

\* The types the steps below need: no Boolean among them.
Columns ==
    /\ started \in 0..MaxGens
    /\ jobStatus \in [Gens -> JobStatuses] /\ runStatus \in [Gens -> RunStatuses]
    /\ indexTask \in [Gens -> {"none", "deferred", "queued", "failing", "done", "lost"} \cup Locking]
    /\ reviewTask \in [Gens -> {"none", "queued", "llm", "writing", "completing", "handoff",
                                "done", "lost"}]
    /\ genSha \in [Gens -> Shas \cup {NoSha}]

Transactions ==
    /\ hook \in [Hooks -> Hook]
    /\ \A h \in Hooks : hook[h].runs \subseteq Gens /\ hook[h].jobs \subseteq Gens

LEMMA TypesOfColumns == TypeOK => Columns
  BY DEF TypeOK, Columns

LEMMA TypesOfTransactions == TypeOK => Transactions
<1> SUFFICES ASSUME TypeOK PROVE Transactions
  OBVIOUS
<1>1. hook \in [Hooks -> Hook]
  BY DEF TypeOK
<1> QED
  BY <1>1 DEF Transactions, Hook

\* The invariant without its types.
Agreement == RowsClaimed /\ OneOwner /\ GenerationsAreFresh /\ TasksAgree

LEMMA InitAgreement == Init => Agreement /\ OnePrWriter
<1> SUFFICES ASSUME Init PROVE Agreement /\ OnePrWriter
  OBVIOUS
<1>1. \A h \in Hooks : hook[h].runs = {} /\ hook[h].jobs = {} /\ hook[h].phase = "idle"
  BY DEF Init, NoHook
<1>2. RowsClaimed /\ OneOwner
  BY <1>1 DEF Init, RowsClaimed, OneOwner, Locking
<1>3. GenerationsAreFresh
  BY <1>1 DEF Init, GenerationsAreFresh, Unstarted
<1>4. TasksAgree
  BY DEF Init, TasksAgree
<1>5. OnePrWriter
  <2>1. \A h \in Hooks : hook[h].locksPr = FALSE
    BY DEF Init, NoHook
  <2> QED
    BY <2>1, Zenon DEF OnePrWriter
<1> QED
  BY <1>2, <1>3, <1>4, <1>5 DEF Agreement

\* What a step of transaction h does to the others, and to what h holds.
LEMMA OpenedTransaction ==
  ASSUME Transactions, NEW h \in Hooks, NEW s, NEW ready,
         BeginSynchronize(h, s, ready) \/ BeginCommand(h)
  PROVE  /\ \A k \in Hooks \ {h} : hook'[k] = hook[k]
         /\ hook'[h].runs = {} /\ hook'[h].jobs = {} /\ hook'[h].gen = started'
         /\ started' = started + 1 /\ started < MaxGens /\ hook[h].phase = "idle"
  BY DEF Transactions, BeginSynchronize, BeginCommand, Takes

LEMMA SupersededRuns ==
  ASSUME Transactions, NEW h \in Hooks, SupersedeRuns(h)
  PROVE  /\ \A k \in Hooks \ {h} : hook'[k] = hook[k]
         /\ hook'[h].runs = hook[h].runs \cup StillActive(h)
         /\ hook'[h].jobs = hook[h].jobs /\ hook'[h].gen = hook[h].gen
         /\ hook[h].phase # "idle"
  BY Zenon DEF Transactions, SupersedeRuns, Hook

LEMMA SupersededJobs ==
  ASSUME Transactions, NEW h \in Hooks, SupersedeJobs(h)
  PROVE  /\ \A k \in Hooks \ {h} : hook'[k] = hook[k]
         /\ hook'[h].jobs = hook[h].jobs \cup StillPending(h)
         /\ hook'[h].runs = hook[h].runs /\ hook'[h].gen = hook[h].gen
         /\ hook[h].phase # "idle"
<1>1. CASE HasSecondPass(hook[h])
  <2>1. hook' = [hook EXCEPT ![h].phase = "runs", ![h].pass = "same",
                             ![h].jobs = @ \cup StillPending(h),
                             ![h].picked = ActiveRunsOn({hook[h].sha})]
    BY <1>1, Zenon DEF SupersedeJobs
  <2> QED
    BY <2>1 DEF Transactions, Hook, SupersedeJobs
<1>2. CASE ~HasSecondPass(hook[h])
  <2>1. hook' = [hook EXCEPT ![h].phase = "check", ![h].jobs = @ \cup StillPending(h),
                             ![h].picked = {}]
    BY <1>2, Zenon DEF SupersedeJobs
  <2> QED
    BY <2>1 DEF Transactions, Hook, SupersedeJobs
<1> QED
  BY <1>1, <1>2

\* A row that is superseded or claimed has been committed: its generation is
\* nobody's to insert.
LEMMA ClaimedIsStarted ==
  ASSUME Agreement, NEW h \in Hooks, NEW g \in hook[h].runs \cup hook[h].jobs
  PROVE  ~Unstarted(g)
  BY DEF Agreement, RowsClaimed, Unstarted, ActiveRun

LEMMA StartedGenerations ==
  ASSUME Columns, NEW n \in 1..started
  PROVE  n \in Gens /\ n <= started
  BY ConstantsAssumption DEF ConstantsAssumption, Columns, Gens

LEMMA TakenGeneration ==
  ASSUME Columns, Agreement, started < MaxGens
  PROVE  started + 1 \in Gens /\ Unstarted(started + 1)
  BY ConstantsAssumption DEF ConstantsAssumption, Columns, Agreement, GenerationsAreFresh, Gens

\* A transaction that opens holds nothing yet.
LEMMA OpeningKeepsAgreement ==
  ASSUME Columns, Transactions, Agreement, NEW h \in Hooks, NEW s, NEW ready,
         BeginSynchronize(h, s, ready) \/ BeginCommand(h)
  PROVE  Agreement'
<1>1. UNCHANGED <<genSha, jobVars, runVars, api>>
  BY DEF BeginSynchronize, BeginCommand
<1>2. /\ \A k \in Hooks \ {h} : hook'[k] = hook[k]
      /\ hook'[h].runs = {} /\ hook'[h].jobs = {} /\ hook'[h].gen = started'
      /\ started' = started + 1 /\ started < MaxGens /\ hook[h].phase = "idle"
  BY OpenedTransaction
<1>3. RowsClaimed' /\ OneOwner'
  BY <1>1, <1>2 DEF Agreement, RowsClaimed, OneOwner, jobVars, runVars
<1>4. TasksAgree'
  BY <1>1 DEF Agreement, TasksAgree, jobVars, runVars
<1>5. GenerationsAreFresh'
  BY <1>1, <1>2, TakenGeneration DEF Agreement, GenerationsAreFresh, Unstarted, jobVars, runVars, Gens, Columns
<1> QED
  BY <1>3, <1>4, <1>5 DEF Agreement

\* Nothing but the locks of one transaction changes.
LEMMA LockingKeepsAgreement ==
  ASSUME Transactions, Agreement, NEW h \in Hooks,
         SupersedeRuns(h) \/ SupersedeJobs(h) \/ CheckInProgress(h) \/ AbortHook(h)
  PROVE  Agreement'
<1>1. UNCHANGED <<started, genSha, jobVars, runVars, api>>
  BY DEF SupersedeRuns, SupersedeJobs, CheckInProgress, AbortHook
<1>2. TasksAgree'
  BY <1>1 DEF Agreement, TasksAgree, jobVars, runVars
<1>3. \A g : Unstarted(g)' <=> Unstarted(g)
  BY <1>1 DEF Unstarted, jobVars, runVars
<1>4. GenerationsAreFresh'
  <2>1. \A k \in Hooks : hook'[k].phase # "idle" => hook[k].phase # "idle" /\ hook'[k].gen = hook[k].gen
    BY SupersededRuns, SupersededJobs DEF Transactions, CheckInProgress, AbortHook, NoHook, Hook
  <2> QED
    BY <1>1, <1>3, <2>1 DEF Agreement, GenerationsAreFresh
<1>5. CASE SupersedeRuns(h)
  <2>1. \A g \in StillActive(h) : runStatus[g] \in ActiveRun /\ ~RunLocked(g)
    BY <1>5 DEF SupersedeRuns, StillActive
  <2>2. RowsClaimed'
    BY <1>1, <1>5, <2>1, SupersededRuns DEF Agreement, RowsClaimed, jobVars, runVars
  <2>3. OneOwner'
    BY <1>5, <2>1, SupersededRuns DEF Agreement, OneOwner, RunLocked
  <2> QED
    BY <1>2, <1>4, <2>2, <2>3 DEF Agreement
<1>6. CASE SupersedeJobs(h)
  <2>1. \A g \in StillPending(h) : jobStatus[g] = "pending" /\ ~JobLocked(g)
    BY <1>6 DEF SupersedeJobs, StillPending
  <2>2. RowsClaimed'
    BY <1>1, <1>6, <2>1, SupersededJobs DEF Agreement, RowsClaimed, JobLocked, jobVars, runVars
  <2>3. OneOwner'
    BY <1>6, <2>1, SupersededJobs DEF Agreement, OneOwner, JobLocked
  <2> QED
    BY <1>2, <1>4, <2>2, <2>3 DEF Agreement
<1>7. CASE CheckInProgress(h) \/ AbortHook(h)
  <2>1. \A k \in Hooks : /\ hook'[k].runs \subseteq hook[k].runs
                          /\ hook'[k].jobs \subseteq hook[k].jobs
    BY <1>7 DEF CheckInProgress, AbortHook, Transactions, Hook, NoHook
  <2>2. RowsClaimed' /\ OneOwner'
    BY <1>1, <2>1 DEF Agreement, RowsClaimed, OneOwner, jobVars, runVars
  <2> QED
    BY <1>2, <1>4, <2>2 DEF Agreement
<1> QED
  BY <1>5, <1>6, <1>7

\* The commit of a webhook transaction: what it claimed is superseded, its
\* generation is inserted, and it holds nothing any more.
LEMMA CommitMoves ==
  ASSUME Columns, Transactions, Agreement, NEW h \in Hooks, CommitHook(h)
  PROVE  /\ UNCHANGED <<started, reviewTask, findings, reconciled, completedRuns, api>>
         /\ hook[h].phase # "idle"
         /\ hook'[h].runs = {} /\ hook'[h].jobs = {} /\ hook'[h].phase = "idle"
         /\ \A k \in Hooks \ {h} : hook'[k] = hook[k]
         /\ hook[h].gen \in Gens /\ hook[h].gen \in 1..started /\ Unstarted(hook[h].gen)
         /\ hook[h].gen \notin hook[h].runs \cup hook[h].jobs
         /\ \A g \in Gens : runStatus'[g] = IF g \in hook[h].runs THEN "superseded" ELSE runStatus[g]
         /\ \A g \in Gens \ {hook[h].gen} :
              /\ jobStatus'[g] = IF g \in hook[h].jobs THEN "superseded" ELSE jobStatus[g]
              /\ indexTask'[g] = indexTask[g] /\ genSha'[g] = genSha[g]
         /\ indexTask'[hook[h].gen] \in {"none", "deferred", "queued", "lost"}
         /\ jobStatus'[hook[h].gen] \in {"none", "pending"}
<1> DEFINE w == hook[h]
<1>1. /\ hook' = [hook EXCEPT ![h] = NoHook]
      /\ UNCHANGED <<started, reviewTask, findings, reconciled, completedRuns, api>>
      /\ w.phase # "idle"
  BY DEF CommitHook
<1>2. /\ hook'[h].runs = {} /\ hook'[h].jobs = {} /\ hook'[h].phase = "idle"
      /\ \A k \in Hooks \ {h} : hook'[k] = hook[k]
  BY <1>1 DEF Transactions, NoHook
<1>3. w.gen \in Gens /\ w.gen \in 1..started /\ Unstarted(w.gen)
  BY <1>1, StartedGenerations DEF Agreement, GenerationsAreFresh
<1>4. w.gen \notin w.runs \cup w.jobs
  BY <1>3, ClaimedIsStarted
<1>5. \A g \in Gens : runStatus'[g] = IF g \in w.runs THEN "superseded" ELSE runStatus[g]
  BY DEF CommitHook
<1>6. \A g \in Gens \ {w.gen} :
        /\ jobStatus'[g] = IF g \in w.jobs THEN "superseded" ELSE jobStatus[g]
        /\ indexTask'[g] = indexTask[g] /\ genSha'[g] = genSha[g]
  BY DEF CommitHook, Columns
<1>7. /\ indexTask'[w.gen] \in {"none", "deferred", "queued", "lost"}
      /\ jobStatus'[w.gen] \in {"none", "pending"}
  BY <1>3, <1>4 DEF CommitHook, Columns, Unstarted
<1> QED
  BY <1>1, <1>2, <1>3, <1>4, <1>5, <1>6, <1>7

LEMMA CommitKeepsAgreement ==
  ASSUME Columns, Transactions, Agreement, NEW h \in Hooks, CommitHook(h)
  PROVE  Agreement'
<1> DEFINE w == hook[h]
<1>1. /\ UNCHANGED <<started, reviewTask, api>> /\ w.phase # "idle"
      /\ hook'[h].runs = {} /\ hook'[h].jobs = {} /\ hook'[h].phase = "idle"
      /\ \A k \in Hooks \ {h} : hook'[k] = hook[k]
  BY CommitMoves
<1>2. w.gen \in Gens /\ w.gen \in 1..started /\ Unstarted(w.gen) /\ w.gen \notin w.runs \cup w.jobs
  BY CommitMoves
<1>3. \A g \in Gens : runStatus'[g] = IF g \in w.runs THEN "superseded" ELSE runStatus[g]
  BY CommitMoves
<1>4. \A g \in Gens \ {w.gen} :
        /\ jobStatus'[g] = IF g \in w.jobs THEN "superseded" ELSE jobStatus[g]
        /\ indexTask'[g] = indexTask[g] /\ genSha'[g] = genSha[g]
  BY CommitMoves
<1>5. /\ indexTask'[w.gen] \in {"none", "deferred", "queued", "lost"}
      /\ jobStatus'[w.gen] \in {"none", "pending"}
  BY CommitMoves
<1>6. RowsClaimed'
  <2>1. ASSUME NEW k \in Hooks, NEW g \in hook'[k].runs PROVE runStatus'[g] \in ActiveRun
    BY <1>1, <1>3, <2>1 DEF Agreement, RowsClaimed, OneOwner, Transactions
  <2>2. ASSUME NEW k \in Hooks, NEW g \in hook'[k].jobs
        PROVE  jobStatus'[g] = "pending" /\ indexTask'[g] \notin Locking
    <3>1. k # h /\ g \in hook[k].jobs /\ g \in Gens
      BY <1>1, <2>2 DEF Transactions
    <3>2. g # w.gen /\ g \notin w.jobs
      BY <1>2, <3>1, ClaimedIsStarted DEF Agreement, OneOwner
    <3> QED
      BY <1>4, <3>1, <3>2 DEF Agreement, RowsClaimed
  <2>3. ASSUME NEW g \in Gens, indexTask'[g] \in Locking PROVE jobStatus'[g] = "pending"
    <3>1. g # w.gen
      BY <1>5, <2>3 DEF Locking
    <3> QED
      BY <1>4, <2>3, <3>1 DEF Agreement, RowsClaimed
  <2> QED
    BY <2>1, <2>2, <2>3 DEF RowsClaimed
<1>7. OneOwner'
  BY <1>1 DEF Agreement, OneOwner
<1>8. GenerationsAreFresh'
  <2>1. ASSUME NEW g \in Gens, g # w.gen, Unstarted(g) PROVE Unstarted(g)'
    <3>1. g \notin w.runs \cup w.jobs
      BY <2>1, ClaimedIsStarted
    <3> QED
      BY <1>1, <1>3, <1>4, <2>1, <3>1 DEF Unstarted
  <2>2. ASSUME NEW g \in Gens, g > started' PROVE Unstarted(g)'
    BY <1>1, <1>2, <2>1, <2>2 DEF Agreement, GenerationsAreFresh, Columns, Gens
  <2>3. ASSUME NEW k \in Hooks, hook'[k].phase # "idle"
        PROVE  (hook[k].gen \in 1..started /\ Unstarted(hook[k].gen))'
    <3>1. k # h /\ hook'[k] = hook[k]
      BY <1>1, <2>3
    <3>2. hook[k].gen \in 1..started /\ hook[k].gen \in Gens /\ hook[k].gen # w.gen /\ Unstarted(hook[k].gen)
      BY <1>1, <2>3, <3>1, StartedGenerations DEF Agreement, GenerationsAreFresh
    <3> QED
      BY <1>1, <2>1, <3>1, <3>2
  <2>4. (api # NoRequest => api.gen \in 1..started /\ Unstarted(api.gen))'
    <3>1. ASSUME api # NoRequest
          PROVE  api.gen \in 1..started /\ api.gen \in Gens /\ api.gen # w.gen /\ Unstarted(api.gen)
      BY <1>1, <3>1, StartedGenerations DEF Agreement, GenerationsAreFresh
    <3> QED
      BY <1>1, <2>1, <3>1
  <2>5. \A k, l \in Hooks :
          k # l /\ hook'[k].phase # "idle" /\ hook'[l].phase # "idle" => hook'[k].gen # hook'[l].gen
    BY <1>1 DEF Agreement, GenerationsAreFresh
  <2>6. api' # NoRequest => \A k \in Hooks : hook'[k].phase # "idle" => hook'[k].gen # api'.gen
    BY <1>1 DEF Agreement, GenerationsAreFresh
  <2> QED
    BY <2>2, <2>3, <2>4, <2>5, <2>6 DEF GenerationsAreFresh
<1>9. TasksAgree'
  <2>1. ASSUME NEW g \in Gens, g # w.gen
        PROVE  /\ jobStatus'[g] = "completed" => indexTask'[g] = "done"
               /\ runStatus'[g] # "none" => indexTask'[g] \in {"none", "done"}
               /\ reviewTask'[g] # "none" => runStatus'[g] # "none"
               /\ runStatus'[g] = "completed" => reviewTask'[g] \in {"handoff", "done", "lost"}
               /\ reviewTask'[g] = "handoff" => runStatus'[g] = "completed"
    BY <1>1, <1>3, <1>4, <2>1 DEF Agreement, RowsClaimed, TasksAgree, ActiveRun
  <2>2. runStatus'[w.gen] = "none" /\ reviewTask'[w.gen] = "none" /\ jobStatus'[w.gen] # "completed"
    BY <1>1, <1>2, <1>3, <1>5 DEF Unstarted
  <2> QED
    BY <2>1, <2>2 DEF TasksAgree
<1> QED
  BY <1>6, <1>7, <1>8, <1>9 DEF Agreement

\* A step on the rows of one generation keeps what transactions own.
LEMMA RowKeepsAgreement ==
  ASSUME Columns, Transactions, Agreement, NEW g \in Gens,
         \A f \in Gens \ {g} : /\ jobStatus'[f] = jobStatus[f] /\ indexTask'[f] = indexTask[f]
                               /\ runStatus'[f] = runStatus[f] /\ reviewTask'[f] = reviewTask[f],
         UNCHANGED <<started, genSha, hook, api>>,
         ~Unstarted(g),
         RunLocked(g) => runStatus'[g] \in ActiveRun,
         (\E h \in Hooks : g \in hook[h].jobs) =>
             jobStatus'[g] = "pending" /\ indexTask'[g] \notin Locking,
         indexTask'[g] \in Locking => jobStatus'[g] = "pending",
         jobStatus'[g] = "completed" => indexTask'[g] = "done",
         runStatus'[g] # "none" => indexTask'[g] \in {"none", "done"},
         reviewTask'[g] # "none" => runStatus'[g] # "none",
         runStatus'[g] = "completed" => reviewTask'[g] \in {"handoff", "done", "lost"},
         reviewTask'[g] = "handoff" => runStatus'[g] = "completed"
  PROVE  Agreement'
<1>1. RowsClaimed'
  BY DEF Agreement, RowsClaimed, RunLocked, Transactions
<1>2. OneOwner'
  BY DEF Agreement, OneOwner
<1>3. \A f \in Gens : Unstarted(f) => Unstarted(f)'
  BY DEF Unstarted
<1>4. \A n \in 1..started : n \in Gens
  BY StartedGenerations
<1>5. GenerationsAreFresh'
  BY <1>3, <1>4 DEF Agreement, GenerationsAreFresh
<1>6. TasksAgree'
  BY DEF Agreement, TasksAgree
<1> QED
  BY <1>1, <1>2, <1>5, <1>6 DEF Agreement

\* What an index task may do to its job, and to the run it inserts.
LEMMA IndexMoves ==
  ASSUME Columns, NEW g \in Gens, IndexStep(g) \/ CrashIndex(g)
  PROVE  /\ UNCHANGED <<started, genSha, hook, api, retries, findings, reconciled, completedRuns>>
         /\ \A f \in Gens \ {g} : /\ jobStatus'[f] = jobStatus[f] /\ indexTask'[f] = indexTask[f]
                                  /\ runStatus'[f] = runStatus[f] /\ reviewTask'[f] = reviewTask[f]
         /\ \/ /\ indexTask[g] \in Locking \cup {"deferred", "queued", "failing"}
               /\ indexTask'[g] \in {"queued", "done", "failing", "lost"} /\ jobStatus'[g] = jobStatus[g]
               /\ indexTask'[g] = "done" => indexTask[g] = "queued"
            \/ ~JobLocked(g) /\ indexTask[g] \in {"deferred", "failing"}
               /\ indexTask'[g] = "done" /\ jobStatus'[g] \in {"failed"} \cup ({"superseded"} \cap {jobStatus[g]})
            \/ ~JobLocked(g) /\ jobStatus[g] = "pending" /\ indexTask[g] = "queued"
               /\ indexTask'[g] = "indexing" /\ jobStatus'[g] = jobStatus[g]
            \/ indexTask[g] = "indexing" /\ jobStatus'[g] = jobStatus[g]
               /\ indexTask'[g] = IF ReviewAllowed(g) THEN "review" ELSE "noReview"
            \/ indexTask[g] \in {"review", "noReview"} /\ indexTask'[g] = "done" /\ jobStatus'[g] = "completed"
         /\ \/ runStatus' = runStatus /\ reviewTask' = reviewTask
            \/ /\ runStatus'[g] = "pending" /\ reviewTask'[g] \in {"queued", "lost"}
               /\ indexTask[g] = "review" /\ indexTask'[g] = "done"
<1>1. UNCHANGED <<started, genSha, hook, api, retries, findings, reconciled, completedRuns>>
  BY DEF IndexStep, ApplyResolution, CleanUpResolution, SkipIndex, ClaimIndex, FinishIndex,
     CommitIndex, RollBackIndex, FailIndex, CrashIndex, IndexUnchanged, runVars
<1>2. \A f \in Gens \ {g} : /\ jobStatus'[f] = jobStatus[f] /\ indexTask'[f] = indexTask[f]
                           /\ runStatus'[f] = runStatus[f] /\ reviewTask'[f] = reviewTask[f]
  BY DEF IndexStep, ApplyResolution, CleanUpResolution, SkipIndex, ClaimIndex, FinishIndex,
     CommitIndex, RollBackIndex, FailIndex, FailJob, CrashIndex, IndexUnchanged, runVars, Columns
<1>3. \/ /\ indexTask[g] \in Locking \cup {"deferred", "queued", "failing"}
         /\ indexTask'[g] \in {"queued", "done", "failing", "lost"} /\ jobStatus'[g] = jobStatus[g]
         /\ indexTask'[g] = "done" => indexTask[g] = "queued"
      \/ ~JobLocked(g) /\ indexTask[g] \in {"deferred", "failing"}
         /\ indexTask'[g] = "done" /\ jobStatus'[g] \in {"failed"} \cup ({"superseded"} \cap {jobStatus[g]})
      \/ ~JobLocked(g) /\ jobStatus[g] = "pending" /\ indexTask[g] = "queued"
         /\ indexTask'[g] = "indexing" /\ jobStatus'[g] = jobStatus[g]
      \/ indexTask[g] = "indexing" /\ jobStatus'[g] = jobStatus[g]
         /\ indexTask'[g] = IF ReviewAllowed(g) THEN "review" ELSE "noReview"
      \/ indexTask[g] \in {"review", "noReview"} /\ indexTask'[g] = "done" /\ jobStatus'[g] = "completed"
  BY DEF IndexStep, ApplyResolution, CleanUpResolution, SkipIndex, ClaimIndex, FinishIndex,
     CommitIndex, RollBackIndex, FailIndex, FailJob, CrashIndex, IndexUnchanged, Columns
<1>4. \/ runStatus' = runStatus /\ reviewTask' = reviewTask
      \/ /\ runStatus'[g] = "pending" /\ reviewTask'[g] \in {"queued", "lost"}
         /\ indexTask[g] = "review" /\ indexTask'[g] = "done"
  BY DEF IndexStep, ApplyResolution, CleanUpResolution, SkipIndex, ClaimIndex, FinishIndex,
     CommitIndex, RollBackIndex, FailIndex, CrashIndex, IndexUnchanged, runVars, Columns
<1> QED
  BY <1>1, <1>2, <1>3, <1>4

LEMMA IndexStepKeepsAgreement ==
  ASSUME Columns, Transactions, Agreement, NEW g \in Gens, IndexStep(g) \/ CrashIndex(g)
  PROVE  Agreement'
<1>1. ~Unstarted(g)
  BY IndexMoves DEF Unstarted, Locking
<1>2. RunLocked(g) => runStatus'[g] \in ActiveRun
  BY IndexMoves DEF RunLocked, Agreement, RowsClaimed, ActiveRun
<1>3. (\E h \in Hooks : g \in hook[h].jobs) =>
         jobStatus'[g] = "pending" /\ indexTask'[g] \notin Locking
  BY IndexMoves DEF JobLocked, Agreement, RowsClaimed, Locking
<1>4. indexTask'[g] \in Locking => jobStatus'[g] = "pending"
  BY IndexMoves DEF Agreement, RowsClaimed, Locking
<1>5. jobStatus'[g] = "completed" => indexTask'[g] = "done"
  BY IndexMoves DEF Agreement, RowsClaimed, TasksAgree, Locking
<1>6. runStatus'[g] # "none" => indexTask'[g] \in {"none", "done"}
  BY IndexMoves DEF Agreement, TasksAgree, Locking
<1>7. /\ reviewTask'[g] # "none" => runStatus'[g] # "none"
      /\ runStatus'[g] = "completed" => reviewTask'[g] \in {"handoff", "done", "lost"}
      /\ reviewTask'[g] = "handoff" => runStatus'[g] = "completed"
  BY IndexMoves DEF Agreement, TasksAgree, Locking
<1>8. /\ UNCHANGED <<started, genSha, hook, api>>
      /\ \A f \in Gens \ {g} : /\ jobStatus'[f] = jobStatus[f] /\ indexTask'[f] = indexTask[f]
                               /\ runStatus'[f] = runStatus[f] /\ reviewTask'[f] = reviewTask[f]
  BY IndexMoves
<1> QED
  BY <1>1, <1>2, <1>3, <1>4, <1>5, <1>6, <1>7, <1>8, RowKeepsAgreement

\* What a review task may do to its run.
LEMMA ReviewMoves ==
  ASSUME Columns, NEW g \in Gens, ReviewStep(g) \/ CrashReview(g)
  PROVE  /\ UNCHANGED <<started, genSha, jobStatus, indexTask, hook, api>>
         /\ \A f \in Gens \ {g} : runStatus'[f] = runStatus[f] /\ reviewTask'[f] = reviewTask[f]
         /\ \/ /\ reviewTask[g] \in {"queued", "llm", "writing", "completing", "handoff"}
               /\ reviewTask'[g] \in {"queued", "llm", "writing", "completing", "done", "lost"}
               /\ reviewTask[g] = "handoff" => reviewTask'[g] \in {"done", "lost"}
               /\ runStatus'[g] = runStatus[g]
            \/ /\ reviewTask[g] = "queued" /\ reviewTask'[g] = "llm"
               /\ runStatus[g] = "pending" /\ ~RunLocked(g) /\ runStatus'[g] = "processing"
            \/ /\ reviewTask[g] \in {"queued", "llm", "writing", "completing"}
               /\ ~RunLocked(g) /\ reviewTask'[g] = "done" /\ runStatus'[g] = "failed"
            \/ /\ reviewTask[g] = "completing" /\ runStatus[g] = "processing" /\ ~RunLocked(g)
               /\ reviewTask'[g] = "handoff" /\ runStatus'[g] = "completed"
<1>1. CASE SkipReview(g) \/ RetryReview(g) \/ ParseReview(g) \/ AddFindings(g) \/ HandOff(g) \/ CrashReview(g)
  BY <1>1 DEF SkipReview, RetryReview, ParseReview, AddFindings, HandOff, CrashReview,
     MoveReview, ReviewUnchanged, jobVars, Columns
<1>2. CASE StartReview(g)
  BY <1>2 DEF StartReview, Startable, ActiveRun, MoveReview, ReviewUnchanged, jobVars, Columns
<1>3. CASE FailReview(g)
  BY <1>3 DEF FailReview, ReviewUnchanged, jobVars, Columns
<1>4. CASE CompleteReview(g)
  BY <1>4 DEF CompleteReview, Completable, MoveReview, ReviewUnchanged, jobVars, Columns
<1> QED
  BY <1>1, <1>2, <1>3, <1>4 DEF ReviewStep

LEMMA ReviewStepKeepsAgreement ==
  ASSUME Columns, Transactions, Agreement, NEW g \in Gens, ReviewStep(g) \/ CrashReview(g)
  PROVE  Agreement'
<1>1. ~Unstarted(g)
  BY ReviewMoves DEF Unstarted
<1>2. RunLocked(g) => runStatus'[g] \in ActiveRun
  BY ReviewMoves DEF Agreement, RowsClaimed, RunLocked
<1>3. /\ (\E h \in Hooks : g \in hook[h].jobs) => jobStatus'[g] = "pending" /\ indexTask'[g] \notin Locking
      /\ indexTask'[g] \in Locking => jobStatus'[g] = "pending"
  BY ReviewMoves DEF Agreement, RowsClaimed
<1>4. /\ jobStatus'[g] = "completed" => indexTask'[g] = "done"
      /\ runStatus'[g] # "none" => indexTask'[g] \in {"none", "done"}
      /\ reviewTask'[g] # "none" => runStatus'[g] # "none"
      /\ runStatus'[g] = "completed" => reviewTask'[g] \in {"handoff", "done", "lost"}
      /\ reviewTask'[g] = "handoff" => runStatus'[g] = "completed"
  BY ReviewMoves DEF Agreement, TasksAgree
<1> QED
  BY <1>1, <1>2, <1>3, <1>4, ReviewMoves, RowKeepsAgreement

\* A generation that is handed out and inserted, or not, in the same step; rows
\* of nobody else change.
LEMMA FreshRowKeepsAgreement ==
  ASSUME Columns, Transactions, Agreement, started < MaxGens, started' = started + 1,
         UNCHANGED <<hook, api, runStatus, reviewTask>>,
         \A f \in Gens \ {started + 1} :
             jobStatus'[f] = jobStatus[f] /\ indexTask'[f] = indexTask[f] /\ genSha'[f] = genSha[f],
         indexTask'[started + 1] \in {"none", "queued", "lost"},
         jobStatus'[started + 1] \in {"none", "pending"}
  PROVE  Agreement'
<1>1. started + 1 \in Gens /\ Unstarted(started + 1) /\ started \in Nat
  BY TakenGeneration DEF Columns
<1>2. \A h \in Hooks : started + 1 \notin hook[h].runs \cup hook[h].jobs
  BY <1>1, ClaimedIsStarted
<1>3. RowsClaimed'
  <2>1. \A h \in Hooks : \A g \in hook[h].jobs : g \in Gens /\ g # started + 1
    BY <1>2 DEF Transactions
  <2>2. \A g \in Gens : indexTask'[g] \in Locking => g # started + 1
    BY DEF Locking
  <2> QED
    BY <2>1, <2>2 DEF Agreement, RowsClaimed
<1>4. OneOwner'
  BY DEF Agreement, OneOwner
<1>5. \A f \in Gens \ {started + 1} : Unstarted(f) => Unstarted(f)'
  BY DEF Unstarted
<1>6. GenerationsAreFresh'
  <2>1. ASSUME NEW g \in Gens, g > started + 1 PROVE Unstarted(g)'
    BY <1>1, <1>5, <2>1 DEF Agreement, GenerationsAreFresh, Gens
  <2>2. \A n \in 1..started : n \in Gens \ {started + 1} /\ n \in 1..(started + 1)
    BY <1>1, StartedGenerations
  <2> QED
    BY <1>5, <2>1, <2>2 DEF Agreement, GenerationsAreFresh
<1>7. TasksAgree'
  BY <1>1 DEF Agreement, TasksAgree, Unstarted
<1> QED
  BY <1>3, <1>4, <1>6, <1>7 DEF Agreement

LEMMA PullRequestKeepsAgreement ==
  ASSUME Columns, Transactions, Agreement, NEW h \in Hooks, NEW ready \in BOOLEAN,
         OpenPullRequest(h, ready) \/ OpenedLate(h, ready) \/ ChangeState(h)
  PROVE  Agreement'
<1>1. /\ started < MaxGens /\ started' = started + 1
      /\ UNCHANGED <<hook, api, runStatus, reviewTask>>
  BY DEF OpenPullRequest, OpenedLate, ChangeState, Takes, runVars
<1>2. started + 1 \in Gens /\ Unstarted(started + 1)
  BY <1>1, TakenGeneration
<1>3. \/ UNCHANGED <<genSha, jobVars>>
      \/ \E task \in {"queued", "lost"} :
           /\ genSha' = [genSha EXCEPT ![started'] = FirstSha]
           /\ jobStatus' = [jobStatus EXCEPT ![started'] = "pending"]
           /\ indexTask' = [indexTask EXCEPT ![started'] = task]
  BY Zenon DEF OpenPullRequest, OpenedLate, ChangeState
<1>4. /\ \A f \in Gens \ {started + 1} :
           jobStatus'[f] = jobStatus[f] /\ indexTask'[f] = indexTask[f] /\ genSha'[f] = genSha[f]
      /\ indexTask'[started + 1] \in {"none", "queued", "lost"}
      /\ jobStatus'[started + 1] \in {"none", "pending"}
  BY <1>1, <1>2, <1>3 DEF Columns, Unstarted, jobVars
<1> QED
  BY <1>1, <1>4, FreshRowKeepsAgreement

LEMMA RequestKeepsAgreement ==
  ASSUME Columns, Transactions, Agreement, NEW s, NEW kind \in {"index", "review"},
         Requests(kind, s)
  PROVE  Agreement'
<1>1. /\ started < MaxGens /\ started' = started + 1 /\ api = NoRequest
      /\ api' = [kind |-> kind, sha |-> s, gen |-> started']
      /\ UNCHANGED <<genSha, jobVars, runVars, hook>>
  BY DEF Requests
<1>2. started \in Nat /\ started + 1 \in Gens /\ Unstarted(started + 1)
  BY <1>1, TakenGeneration DEF Columns
<1>3. RowsClaimed' /\ OneOwner' /\ TasksAgree'
  BY <1>1 DEF Agreement, RowsClaimed, OneOwner, TasksAgree, jobVars, runVars
<1>4. \A g : Unstarted(g)' <=> Unstarted(g)
  BY <1>1 DEF Unstarted, jobVars, runVars
<1>5. GenerationsAreFresh'
  <2>1. \A g \in Gens : g > started' => Unstarted(g)'
    BY <1>1, <1>2, <1>4 DEF Agreement, GenerationsAreFresh, Gens
  <2>2. \A h \in Hooks : hook[h].phase # "idle" =>
          /\ hook[h].gen \in 1..started /\ hook[h].gen \in 1..started' /\ hook[h].gen # started'
          /\ Unstarted(hook[h].gen)
    BY <1>1, <1>2 DEF Agreement, GenerationsAreFresh
  <2>3. api'.gen = started' /\ started' \in 1..started'
    BY <1>1, <1>2
  <2>4. \A h, k \in Hooks :
         h # k /\ hook[h].phase # "idle" /\ hook[k].phase # "idle" => hook[h].gen # hook[k].gen
    BY DEF Agreement, GenerationsAreFresh
  <2> QED
    BY <1>1, <1>2, <1>4, <2>1, <2>2, <2>3, <2>4 DEF GenerationsAreFresh
<1> QED
  BY <1>3, <1>5 DEF Agreement

\* The commit of a manual request: one row, of the generation it kept.
LEMMA CommitRequestMoves ==
  ASSUME Columns, Agreement, CommitRequest
  PROVE  /\ api # NoRequest /\ api' = NoRequest
         /\ UNCHANGED <<started, hook, findings, reconciled, completedRuns>>
         /\ genSha' = [genSha EXCEPT ![api.gen] = api.sha]
         /\ api.gen \in 1..started /\ api.gen \in Gens /\ Unstarted(api.gen)
         /\ \A g \in Gens \ {api.gen} :
              /\ genSha'[g] = genSha[g] /\ jobStatus'[g] = jobStatus[g] /\ indexTask'[g] = indexTask[g]
              /\ runStatus'[g] = runStatus[g] /\ reviewTask'[g] = reviewTask[g]
         /\ \/ /\ jobStatus'[api.gen] = "pending" /\ indexTask'[api.gen] \in {"queued", "lost"}
               /\ runStatus'[api.gen] = "none" /\ reviewTask'[api.gen] = "none"
            \/ /\ runStatus'[api.gen] = "pending" /\ reviewTask'[api.gen] \in {"queued", "lost"}
               /\ jobStatus'[api.gen] = "none" /\ indexTask'[api.gen] = "none"
               /\ api.kind # "index"
<1> DEFINE r == api.gen
<1>1. /\ api # NoRequest /\ api' = NoRequest
      /\ UNCHANGED <<started, hook, findings, reconciled, completedRuns>>
      /\ genSha' = [genSha EXCEPT ![r] = api.sha]
  BY DEF CommitRequest
<1>2. r \in 1..started /\ r \in Gens /\ Unstarted(r)
  BY <1>1, StartedGenerations DEF Agreement, GenerationsAreFresh
<1>3. PICK task \in {"queued", "lost"} :
        \/ /\ jobStatus' = [jobStatus EXCEPT ![r] = "pending"]
           /\ indexTask' = [indexTask EXCEPT ![r] = task]
           /\ UNCHANGED <<runStatus, reviewTask>>
        \/ /\ runStatus' = [runStatus EXCEPT ![r] = "pending"]
           /\ reviewTask' = [reviewTask EXCEPT ![r] = task]
           /\ UNCHANGED <<jobStatus, indexTask>> /\ api.kind # "index"
  BY DEF CommitRequest, jobVars
<1>4. \A g \in Gens \ {r} :
        /\ genSha'[g] = genSha[g] /\ jobStatus'[g] = jobStatus[g] /\ indexTask'[g] = indexTask[g]
        /\ runStatus'[g] = runStatus[g] /\ reviewTask'[g] = reviewTask[g]
  BY <1>1, <1>3 DEF Columns
<1>5. /\ \/ /\ jobStatus'[r] = "pending" /\ indexTask'[r] \in {"queued", "lost"}
            /\ runStatus'[r] = "none" /\ reviewTask'[r] = "none"
         \/ /\ runStatus'[r] = "pending" /\ reviewTask'[r] \in {"queued", "lost"}
            /\ jobStatus'[r] = "none" /\ indexTask'[r] = "none" /\ api.kind # "index"
  BY <1>2, <1>3 DEF Columns, Unstarted
<1> QED
  BY <1>1, <1>2, <1>4, <1>5

LEMMA CommitRequestKeepsAgreement ==
  ASSUME Columns, Transactions, Agreement, CommitRequest
  PROVE  Agreement'
<1> DEFINE r == api.gen
<1>1. RowsClaimed'
  <2>1. \A h \in Hooks : /\ \A g \in hook[h].runs : g \in Gens \ {r}
                         /\ \A g \in hook[h].jobs : g \in Gens \ {r}
    BY CommitRequestMoves, ClaimedIsStarted DEF Transactions
  <2>2. indexTask'[r] \notin Locking
    BY CommitRequestMoves DEF Locking
  <2> QED
    BY CommitRequestMoves, <2>1, <2>2 DEF Agreement, RowsClaimed
<1>2. OneOwner'
  BY CommitRequestMoves DEF Agreement, OneOwner
<1>3. GenerationsAreFresh'
  <2>1. \A g \in Gens \ {r} : Unstarted(g) => Unstarted(g)'
    BY CommitRequestMoves DEF Unstarted
  <2>2. \A g \in Gens : g > started => g # r
    BY CommitRequestMoves, StartedGenerations DEF Columns
  <2>3. \A h \in Hooks : hook[h].phase # "idle" => hook[h].gen \in Gens \ {r}
    BY CommitRequestMoves, StartedGenerations DEF Agreement, GenerationsAreFresh
  <2> QED
    BY CommitRequestMoves, <2>1, <2>2, <2>3 DEF Agreement, GenerationsAreFresh
<1>4. TasksAgree'
  BY CommitRequestMoves DEF Agreement, TasksAgree
<1> QED
  BY <1>1, <1>2, <1>3, <1>4 DEF Agreement

LEMMA NextAgreement == TypeOK /\ Agreement /\ [Next]_vars => Agreement'
<1> SUFFICES ASSUME TypeOK, Agreement, [Next]_vars PROVE Agreement'
  OBVIOUS
<1>1. Columns /\ Transactions
  BY TypesOfColumns, TypesOfTransactions
<1>2. CASE UNCHANGED vars
  BY <1>2 DEF vars, jobVars, runVars, Agreement, RowsClaimed, OneOwner, TasksAgree,
     GenerationsAreFresh, Unstarted
<1>3. ASSUME NEW h \in Hooks, Delivery(h) PROVE Agreement'
  BY <1>1, <1>3, PullRequestKeepsAgreement, OpeningKeepsAgreement DEF Delivery
<1>4. ASSUME NEW h \in Hooks, HookStep(h) \/ AbortHook(h) PROVE Agreement'
  BY <1>1, <1>4, LockingKeepsAgreement, CommitKeepsAgreement DEF HookStep
<1>5. ASSUME NEW g \in Gens, IndexStep(g) \/ CrashIndex(g) \/ ReviewStep(g) \/ CrashReview(g)
      PROVE  Agreement'
  BY <1>1, <1>5, IndexStepKeepsAgreement, ReviewStepKeepsAgreement
<1>6. ASSUME NEW s \in Shas, RequestIndex(s) \/ RequestReview(s) PROVE Agreement'
  BY <1>1, <1>6, RequestKeepsAgreement DEF RequestIndex, RequestReview
<1>7. CASE CommitRequest
  BY <1>1, <1>7, CommitRequestKeepsAgreement
<1> QED
  BY <1>2, <1>3, <1>4, <1>5, <1>6, <1>7 DEF Next, Wait

\* The row of the pull request: a delivery writes it only when no open
\* transaction has.
LEMMA NextOnePrWriter == TypeOK /\ OnePrWriter /\ [Next]_vars => OnePrWriter'
<1> SUFFICES ASSUME TypeOK, OnePrWriter, [Next]_vars PROVE OnePrWriter'
  OBVIOUS
<1>h. hook \in [Hooks -> Hook]
  BY DEF TypeOK
<1>1. CASE UNCHANGED hook
  BY <1>1, Zenon DEF OnePrWriter
<1>2. ASSUME NEW h \in Hooks, \A k \in Hooks \ {h} : hook'[k] = hook[k],
             hook'[h].locksPr => hook[h].locksPr \/ ~PrLocked
      PROVE  OnePrWriter'
  BY <1>2, Zenon DEF OnePrWriter, PrLocked
<1>3. ASSUME NEW h \in Hooks, NEW s \in Shas, NEW ready \in BOOLEAN, BeginSynchronize(h, s, ready)
      PROVE  OnePrWriter'
  <2>1. PICK writes \in BOOLEAN :
          /\ writes => ~PrLocked
          /\ hook' = [hook EXCEPT ![h] =
               [phase |-> "runs", kind |-> "synchronize", sha |-> s, pass |-> "older",
                locksPr |-> writes, reviewable |-> ready,
                picked |-> ActiveRunsOn(OlderThan(BoundNumber(s))),
                runs |-> {}, jobs |-> {}, gen |-> started']]
    BY <1>3, Zenon DEF BeginSynchronize
  <2>2. (\A k \in Hooks \ {h} : hook'[k] = hook[k]) /\ hook'[h].locksPr = writes
    BY <1>h, <2>1
  <2> QED
    BY <1>2, <2>1, <2>2, Zenon
<1>4. ASSUME NEW h \in Hooks, BeginCommand(h) PROVE OnePrWriter'
  <2>1. PICK heals \in BOOLEAN :
          /\ heals => ~PrLocked
          /\ hook' = [hook EXCEPT ![h] =
               [phase |-> "runs", kind |-> "command", sha |-> headSha, pass |-> "same",
                locksPr |-> heals, reviewable |-> reviewable,
                picked |-> ActiveRunsOn({headSha}),
                runs |-> {}, jobs |-> {}, gen |-> started']]
    BY <1>4, Zenon DEF BeginCommand
  <2>2. (\A k \in Hooks \ {h} : hook'[k] = hook[k]) /\ hook'[h].locksPr = heals
    BY <1>h, <2>1
  <2> QED
    BY <1>2, <2>1, <2>2, Zenon
<1>5. ASSUME NEW h \in Hooks, SupersedeRuns(h) \/ SupersedeJobs(h) \/ CheckInProgress(h)
      PROVE  OnePrWriter'
  <2>1. \A k \in Hooks \ {h} : hook'[k] = hook[k]
    BY <1>h, <1>5 DEF SupersedeRuns, SupersedeJobs, CheckInProgress
  <2>2. hook'[h].locksPr = hook[h].locksPr
    <3>1. CASE SupersedeRuns(h)
      BY <1>h, <3>1, Zenon DEF SupersedeRuns, Hook
    <3>2. CASE SupersedeJobs(h)
      <4>1. \/ hook' = [hook EXCEPT ![h].phase = "runs", ![h].pass = "same",
                                   ![h].jobs = @ \cup StillPending(h),
                                   ![h].picked = ActiveRunsOn({hook[h].sha})]
            \/ hook' = [hook EXCEPT ![h].phase = "check", ![h].jobs = @ \cup StillPending(h),
                                   ![h].picked = {}]
        BY <3>2, Zenon DEF SupersedeJobs
      <4> QED
        BY <1>h, <4>1 DEF Hook
    <3>3. CASE CheckInProgress(h)
      BY <1>h, <3>3, Zenon DEF CheckInProgress, Hook
    <3> QED
      BY <1>5, <3>1, <3>2, <3>3
  <2> QED
    BY <1>2, <2>1, <2>2, Zenon
<1>6. ASSUME NEW h \in Hooks, CommitHook(h) \/ AbortHook(h) PROVE OnePrWriter'
  <2>1. hook' = [hook EXCEPT ![h] = NoHook]
    BY <1>6 DEF CommitHook, AbortHook
  <2>2. (\A k \in Hooks \ {h} : hook'[k] = hook[k]) /\ hook'[h].locksPr = FALSE
    BY <1>h, <2>1 DEF NoHook
  <2> QED
    BY <1>2, <2>2, Zenon
<1>7. ASSUME NEW h \in Hooks, Delivery(h) PROVE OnePrWriter'
  BY <1>1, <1>3, <1>4, <1>7, Zenon DEF Delivery, OpenPullRequest, OpenedLate, ChangeState
<1>8. ASSUME NEW g \in Gens, IndexStep(g) \/ CrashIndex(g) \/ ReviewStep(g) \/ CrashReview(g)
      PROVE  UNCHANGED hook
  <2>1. ASSUME IndexStep(g) \/ CrashIndex(g) PROVE UNCHANGED hook
    BY <2>1 DEF IndexStep, ApplyResolution, CleanUpResolution, SkipIndex, ClaimIndex, FinishIndex,
       CommitIndex, RollBackIndex, FailIndex, CrashIndex, IndexUnchanged
  <2> QED
    BY <1>8, <2>1, TypesOfColumns, ReviewMoves
<1>9. ASSUME (\E s \in Shas : RequestIndex(s) \/ RequestReview(s)) \/ CommitRequest PROVE UNCHANGED hook
  BY <1>9 DEF RequestIndex, RequestReview, Requests, CommitRequest
<1>10. UNCHANGED vars => UNCHANGED hook
  BY DEF vars
<1> QED
  BY <1>1, <1>5, <1>6, <1>7, <1>8, <1>9, <1>10 DEF Next, HookStep, Wait

LEMMA InductiveInvariant == Spec => []IInv
<1>1. Init => IInv
  BY InitTypeOK, InitAgreement DEF IInv, ClaimsHold, Agreement
<1>2. IInv /\ [Next]_vars => IInv'
  BY NextTypeOK, NextAgreement, NextOnePrWriter DEF IInv, ClaimsHold, Agreement
<1> QED
  BY <1>1, <1>2, PTL DEF Spec

\* What a transaction has matched and not committed is its own: under every
\* interleaving of webhooks, index tasks and endpoints, an index job is decided
\* by one of them, and a review run is superseded by one webhook at a time.
THEOREM ClaimsAreExclusive == Spec => []ClaimsHold
  BY InductiveInvariant, PTL DEF IInv

\* A task that may still write the end of its row finds the row without one.
THEOREM TasksAgreeWithRows == Spec => []TasksAgree
  BY InductiveInvariant, PTL DEF IInv

-----------------------------------------------------------------------------
(* Ends.                                                                   *)

\* What any step may do to the rows of a generation that has ended.
LEMMA EndsStay ==
  ASSUME TypeOK, Agreement, [Next]_vars, NEW g \in Gens
  PROVE  /\ runStatus[g] = "completed" => runStatus'[g] = "completed"
         /\ jobStatus[g] = "completed" => jobStatus'[g] = "completed"
         /\ runStatus[g] = "superseded" => runStatus'[g] \in {"superseded", "failed"}
         /\ jobStatus[g] = "superseded" => jobStatus'[g] \in {"superseded", "failed"}
<1> DEFINE Stays == /\ runStatus[g] = "completed" => runStatus'[g] = "completed"
                    /\ jobStatus[g] = "completed" => jobStatus'[g] = "completed"
                    /\ runStatus[g] = "superseded" => runStatus'[g] \in {"superseded", "failed"}
                    /\ jobStatus[g] = "superseded" => jobStatus'[g] \in {"superseded", "failed"}
<1>1. Columns /\ Transactions
  BY TypesOfColumns, TypesOfTransactions
<1>2. CASE UNCHANGED <<jobStatus, runStatus>>
  BY <1>2
<1>3. ASSUME NEW h \in Hooks, Delivery(h) PROVE Stays
  <2>1. ASSUME NEW ready \in BOOLEAN, OpenPullRequest(h, ready) PROVE Stays
    <3>1. Unstarted(started')
      BY <1>1, <2>1, TakenGeneration DEF OpenPullRequest, Takes
    <3> QED
      BY <1>1, <2>1, <3>1 DEF OpenPullRequest, Unstarted, Columns, jobVars, runVars
  <2> QED
    BY <1>2, <1>3, <2>1 DEF Delivery, OpenedLate, ChangeState, BeginSynchronize, BeginCommand,
       jobVars, runVars
<1>4. ASSUME NEW h \in Hooks, CommitHook(h) PROVE Stays
  <2>1. g \in hook[h].runs => runStatus[g] \in ActiveRun
    BY DEF Agreement, RowsClaimed
  <2>2. g \in hook[h].jobs => jobStatus[g] = "pending"
    BY DEF Agreement, RowsClaimed
  <2> QED
    BY <1>1, <1>4, <2>1, <2>2, CommitMoves DEF Unstarted, ActiveRun
<1>5. ASSUME NEW h \in Hooks, HookStep(h) \/ AbortHook(h) PROVE Stays
  BY <1>2, <1>4, <1>5 DEF HookStep, SupersedeRuns, SupersedeJobs, CheckInProgress, AbortHook,
     jobVars, runVars
<1>6. ASSUME NEW f \in Gens, IndexStep(f) \/ CrashIndex(f) PROVE Stays
  BY <1>1, <1>6, IndexMoves DEF Agreement, RowsClaimed, TasksAgree, Locking
<1>7. ASSUME NEW f \in Gens, ReviewStep(f) \/ CrashReview(f) PROVE Stays
  BY <1>1, <1>7, ReviewMoves DEF Agreement, TasksAgree
<1>8. CASE CommitRequest
  BY <1>1, <1>8, CommitRequestMoves DEF Unstarted
<1>9. ASSUME NEW s \in Shas, RequestIndex(s) \/ RequestReview(s) PROVE Stays
  BY <1>2, <1>9 DEF RequestIndex, RequestReview, Requests, jobVars, runVars
<1>10. UNCHANGED vars => UNCHANGED <<jobStatus, runStatus>>
  BY DEF vars, jobVars, runVars
<1> QED
  BY <1>2, <1>3, <1>5, <1>6, <1>7, <1>8, <1>9, <1>10 DEF Next, Wait

\* A run or a job that has completed is never failed or superseded afterwards,
\* whatever the webhooks and the error handlers selected before.
THEOREM CompletedRowsAreFinal == Spec => CompletedIsFinal
<1>1. TypeOK /\ Agreement /\ [Next]_vars =>
        [\A g \in Gens :
           /\ runStatus[g] = "completed" => runStatus'[g] = "completed"
           /\ jobStatus[g] = "completed" => jobStatus'[g] = "completed"]_vars
  BY EndsStay
<1> QED
  BY <1>1, InductiveInvariant, PTL DEF Spec, IInv, CompletedIsFinal, ClaimsHold, Agreement

\* A superseded run or job never comes back: at most its worker overwrites the
\* mark with failed.
THEOREM SupersededRowsStayDown == Spec => SupersededStaysDown
<1>1. TypeOK /\ Agreement /\ [Next]_vars =>
        [\A g \in Gens :
           /\ runStatus[g] = "superseded" => runStatus'[g] \in {"superseded", "failed"}
           /\ jobStatus[g] = "superseded" => jobStatus'[g] \in {"superseded", "failed"}]_vars
  BY EndsStay
<1> QED
  BY <1>1, InductiveInvariant, PTL DEF Spec, IInv, SupersededStaysDown, ClaimsHold, Agreement

-----------------------------------------------------------------------------
(* Completed reviews.                                                      *)

\* A completed run is written with its findings.
FindingsWritten == \A g \in Gens : runStatus[g] = "completed" => findings[g]

\* The steps that complete a run, hand it off or touch findings are those of
\* its review task.
LEMMA OnlyReviewTasksComplete ==
  ASSUME TypeOK, Agreement, [Next]_vars,
         ~\E g \in Gens : ReviewStep(g) \/ CrashReview(g)
  PROVE  /\ UNCHANGED <<findings, reconciled, completedRuns>>
         /\ \A g \in Gens : runStatus'[g] = "completed" => runStatus[g] = "completed"
<1> DEFINE Kept == /\ UNCHANGED <<findings, reconciled, completedRuns>>
                   /\ \A g \in Gens : runStatus'[g] = "completed" => runStatus[g] = "completed"
<1>1. Columns /\ Transactions
  BY TypesOfColumns, TypesOfTransactions
<1>2. CASE UNCHANGED runVars
  BY <1>2 DEF runVars
<1>3. ASSUME NEW h \in Hooks, Delivery(h) PROVE Kept
  BY <1>2, <1>3 DEF Delivery, OpenPullRequest, OpenedLate, ChangeState, BeginSynchronize, BeginCommand
<1>4. ASSUME NEW h \in Hooks, HookStep(h) \/ AbortHook(h) PROVE Kept
  <2>1. CASE CommitHook(h)
    BY <1>1, <2>1, CommitMoves
  <2> QED
    BY <1>2, <1>4, <2>1 DEF HookStep, SupersedeRuns, SupersedeJobs, CheckInProgress, AbortHook
<1>5. ASSUME NEW g \in Gens, IndexStep(g) \/ CrashIndex(g) PROVE Kept
  <2>1. runStatus'[g] = "pending" \/ runStatus'[g] = runStatus[g]
    BY <1>1, <1>5, IndexMoves
  <2>2. \A f \in Gens \ {g} : runStatus'[f] = runStatus[f]
    BY <1>1, <1>5, IndexMoves
  <2>3. UNCHANGED <<findings, reconciled, completedRuns>>
    BY <1>1, <1>5, IndexMoves
  <2> QED
    BY <2>1, <2>2, <2>3
<1>6. CASE CommitRequest
  BY <1>1, <1>6, CommitRequestMoves
<1>7. ASSUME NEW s \in Shas, RequestIndex(s) \/ RequestReview(s) PROVE Kept
  BY <1>2, <1>7 DEF RequestIndex, RequestReview, Requests
<1>8. UNCHANGED vars => UNCHANGED runVars
  BY DEF vars
<1> QED
  BY <1>2, <1>3, <1>4, <1>5, <1>6, <1>7, <1>8 DEF Next, Wait

LEMMA NextFindingsWritten ==
  TypeOK /\ Agreement /\ FindingsWritten /\ [Next]_vars => FindingsWritten'
<1> SUFFICES ASSUME TypeOK, Agreement, FindingsWritten, [Next]_vars PROVE FindingsWritten'
  OBVIOUS
<1>1. CASE ~\E g \in Gens : ReviewStep(g) \/ CrashReview(g)
  <2>1. findings' = findings /\ \A g \in Gens : runStatus'[g] = "completed" => runStatus[g] = "completed"
    BY <1>1, OnlyReviewTasksComplete
  <2> QED
    BY <2>1, Zenon DEF FindingsWritten
<1>2. ASSUME NEW g \in Gens, ReviewStep(g) \/ CrashReview(g) PROVE FindingsWritten'
  <2>1. findings \in [Gens -> BOOLEAN] /\ Columns
    BY TypesOfColumns DEF TypeOK
  <2>2. CASE CompleteReview(g)
    <3>1. findings' = [findings EXCEPT ![g] = TRUE]
      BY <2>2 DEF CompleteReview
    <3>2. \A f \in Gens \ {g} : runStatus'[f] = runStatus[f]
      BY <1>2, <2>1, ReviewMoves
    <3> QED
      BY <2>1, <3>1, <3>2 DEF FindingsWritten
  <2>3. CASE AddFindings(g)
    <3>1. \A f \in Gens \ {g} : findings'[f] = findings[f]
      BY <2>1, <2>3 DEF AddFindings
    <3>2. runStatus[g] # "completed" /\ runStatus' = runStatus
      BY <2>3 DEF AddFindings, MoveReview, Agreement, TasksAgree
    <3> QED
      BY <3>1, <3>2, Zenon DEF FindingsWritten
  <2>4. CASE SkipReview(g) \/ StartReview(g) \/ RetryReview(g) \/ FailReview(g) \/ ParseReview(g)
             \/ HandOff(g) \/ CrashReview(g)
    <3>1. findings' = findings
      BY <2>4 DEF SkipReview, StartReview, RetryReview, FailReview, ParseReview, HandOff, CrashReview
    <3>2. \A f \in Gens : runStatus'[f] = "completed" => runStatus[f] = "completed"
      BY <2>1, <2>4 DEF SkipReview, StartReview, RetryReview, FailReview, ParseReview, HandOff,
         CrashReview, Columns
    <3> QED
      BY <3>1, <3>2, Zenon DEF FindingsWritten
  <2> QED
    BY <1>2, <2>2, <2>3, <2>4 DEF ReviewStep
<1> QED
  BY <1>1, <1>2

LEMMA NextReconciled ==
  TypeOK /\ Agreement /\ FindingsWritten /\ ReconciledAreCompleted /\ [Next]_vars
    => ReconciledAreCompleted'
<1> SUFFICES ASSUME TypeOK, Agreement, FindingsWritten, ReconciledAreCompleted, [Next]_vars
             PROVE  ReconciledAreCompleted'
  OBVIOUS
<1>1. Columns /\ reconciled \subseteq Gens /\ reconciled' \subseteq Gens
  BY TypesOfColumns, NextTypeOK DEF TypeOK
<1>2. ASSUME NEW g \in reconciled' PROVE runStatus'[g] = "completed"
  <2>1. CASE g \in reconciled
    BY <1>1, <2>1, EndsStay DEF ReconciledAreCompleted
  <2>2. CASE g \notin reconciled
    <3>1. PICK f \in Gens : ReviewStep(f) \/ CrashReview(f)
      BY <1>2, <2>2, OnlyReviewTasksComplete
    <3>2. HandOff(f) /\ g = f
      BY <1>2, <2>2, <3>1 DEF ReviewStep, SkipReview, StartReview, RetryReview, FailReview,
         ParseReview, AddFindings, CompleteReview, HandOff, CrashReview
    <3> QED
      BY <1>1, <3>2, EndsStay DEF HandOff, MoveReview, Agreement, TasksAgree
  <2> QED
    BY <2>1, <2>2
<1>3. FindingsWritten'
  BY NextFindingsWritten
<1> QED
  BY <1>1, <1>2, <1>3, Zenon DEF FindingsWritten, ReconciledAreCompleted

\* What the reconciliation queue is given has been completed and has its
\* findings: a run superseded while the model was answering never gets there.
THEOREM OnlyCompletedAreReconciled == Spec => []ReconciledAreCompleted
<1>1. Init => FindingsWritten /\ ReconciledAreCompleted
  <2> SUFFICES ASSUME Init PROVE FindingsWritten /\ ReconciledAreCompleted
    OBVIOUS
  <2>1. FindingsWritten
    BY DEF Init, FindingsWritten
  <2>2. ReconciledAreCompleted
    BY DEF Init, ReconciledAreCompleted
  <2> QED
    BY <2>1, <2>2
<1>2. IInv => TypeOK /\ Agreement
  BY DEF IInv, ClaimsHold, Agreement
<1> QED
  BY <1>1, <1>2, InductiveInvariant, NextFindingsWritten, NextReconciled, PTL DEF Spec

-----------------------------------------------------------------------------
(* Credits.                                                                *)

LEMMA NextCredits == TypeOK /\ Agreement /\ CreditsMatchReviews /\ [Next]_vars => CreditsMatchReviews'
<1> SUFFICES ASSUME TypeOK, Agreement, CreditsMatchReviews, [Next]_vars PROVE CreditsMatchReviews'
  OBVIOUS
<1>1. Columns /\ completedRuns \in Nat /\ ReviewRunLimit \in Nat
  BY TypesOfColumns, ConstantsAssumption DEF ConstantsAssumption, TypeOK
<1>2. IsFiniteSet(Completed) /\ Cardinality(Completed) \in Nat
  <2>1. IsFiniteSet(Gens)
    BY FS_Interval, ConstantsAssumption DEF ConstantsAssumption, Gens
  <2> QED
    BY <2>1, FS_Subset, FS_CardinalityType DEF Completed
<1>3. CASE completedRuns' = completedRuns /\ Completed' = Completed
  BY <1>3 DEF CreditsMatchReviews
<1>4. \A g \in Gens : runStatus[g] = "completed" => runStatus'[g] = "completed"
  BY EndsStay
<1>5. CASE ~\E g \in Gens : ReviewStep(g) \/ CrashReview(g)
  BY <1>3, <1>4, <1>5, OnlyReviewTasksComplete DEF Completed
<1>6. ASSUME NEW g \in Gens, ReviewStep(g) \/ CrashReview(g) PROVE CreditsMatchReviews'
  <2>1. \A f \in Gens \ {g} : runStatus'[f] = runStatus[f]
    BY <1>1, <1>6, ReviewMoves
  <2>2. CASE CompleteReview(g) /\ Completable(g)
    <3>1. runStatus[g] = "processing" /\ runStatus'[g] = "completed" /\ completedRuns' = Credit
      BY <1>1, <2>2 DEF CompleteReview, Completable, Columns
    <3>2. Completed' = Completed \cup {g} /\ g \notin Completed
      BY <2>1, <3>1 DEF Completed
    <3>3. Cardinality(Completed') = Cardinality(Completed) + 1
      BY <1>2, <3>2, FS_AddElement
    <3> QED
      BY <1>1, <1>2, <3>1, <3>3 DEF CreditsMatchReviews, Credit
  <2>3. CASE ~(CompleteReview(g) /\ Completable(g))
    <3>1. completedRuns' = completedRuns /\ (runStatus'[g] = "completed" => runStatus[g] = "completed")
      BY <1>1, <1>6, <2>3 DEF ReviewStep, SkipReview, StartReview, RetryReview, FailReview,
         ParseReview, AddFindings, CompleteReview, HandOff, CrashReview, Columns
    <3>2. Completed' = Completed
      BY <1>4, <2>1, <3>1 DEF Completed
    <3> QED
      BY <1>3, <3>1, <3>2
  <2> QED
    BY <2>2, <2>3
<1> QED
  BY <1>5, <1>6

\* A workspace pays once for every completed run, up to its limit, however the
\* runs are retried, superseded and crashed.
THEOREM CreditsAreExact == Spec => []CreditsMatchReviews
<1>1. Init => CreditsMatchReviews
  <2> SUFFICES ASSUME Init PROVE CreditsMatchReviews
    OBVIOUS
  <2>1. Completed = {}
    BY DEF Init, Completed
  <2> QED
    BY <2>1, FS_EmptySet, ConstantsAssumption DEF ConstantsAssumption, Init, CreditsMatchReviews
<1>2. IInv => TypeOK /\ Agreement
  BY DEF IInv, ClaimsHold, Agreement
<1> QED
  BY <1>1, <1>2, InductiveInvariant, NextCredits, PTL DEF Spec

-----------------------------------------------------------------------------
(* Reviews and the index.                                                  *)

\* The revision of a generation never changes once it has a row.
LEMMA ShaStays ==
  ASSUME TypeOK, Agreement, [Next]_vars, NEW g \in Gens, ~Unstarted(g)
  PROVE  genSha'[g] = genSha[g]
<1>1. Columns /\ Transactions
  BY TypesOfColumns, TypesOfTransactions
<1>2. ASSUME NEW h \in Hooks, Delivery(h) PROVE genSha'[g] = genSha[g]
  <2>1. ASSUME NEW ready \in BOOLEAN, OpenPullRequest(h, ready) PROVE genSha'[g] = genSha[g]
    <3>1. g # started'
      BY <1>1, <2>1, TakenGeneration DEF OpenPullRequest, Takes
    <3> QED
      BY <1>1, <2>1, <3>1 DEF OpenPullRequest, Columns
  <2> QED
    BY <1>2, <2>1 DEF Delivery, OpenedLate, ChangeState, BeginSynchronize, BeginCommand
<1>3. ASSUME NEW h \in Hooks, HookStep(h) \/ AbortHook(h) PROVE genSha'[g] = genSha[g]
  <2>1. CASE CommitHook(h)
    BY <1>1, <2>1, CommitMoves
  <2> QED
    BY <1>3, <2>1 DEF HookStep, SupersedeRuns, SupersedeJobs, CheckInProgress, AbortHook
<1>4. ASSUME NEW f \in Gens, IndexStep(f) \/ CrashIndex(f) \/ ReviewStep(f) \/ CrashReview(f)
      PROVE  genSha' = genSha
  BY <1>1, <1>4, IndexMoves, ReviewMoves
<1>5. CASE CommitRequest
  BY <1>1, <1>5, CommitRequestMoves
<1>6. ASSUME NEW s \in Shas, RequestIndex(s) \/ RequestReview(s) PROVE genSha' = genSha
  BY <1>6 DEF RequestIndex, RequestReview, Requests
<1>7. UNCHANGED vars => genSha' = genSha
  BY DEF vars
<1> QED
  BY <1>2, <1>3, <1>4, <1>5, <1>6, <1>7 DEF Next, Wait

\* How a review comes into being: an index task allows it, or an endpoint
\* inserts it.
LEMMA ReviewingStarts ==
  ASSUME TypeOK, Agreement, [Next]_vars, NEW g \in Gens, ~Reviewing(g), Reviewing(g)'
  PROVE  \/ /\ FinishIndex(g) /\ ReviewAllowed(g) /\ runStatus' = runStatus /\ genSha' = genSha
            /\ \A f \in Gens \ {g} : indexTask'[f] = indexTask[f]
         \/ CommitRequest /\ g = api.gen /\ api.kind # "index"
<1>1. Columns /\ Transactions
  BY TypesOfColumns, TypesOfTransactions
<1>2. ASSUME NEW h \in Hooks PROVE ~Delivery(h)
  <2>1. ASSUME NEW ready \in BOOLEAN, OpenPullRequest(h, ready) PROVE FALSE
    <3>1. indexTask'[g] \in {indexTask[g], "queued", "lost"} /\ runStatus' = runStatus
      BY <1>1, <2>1 DEF OpenPullRequest, Columns, jobVars, runVars
    <3> QED
      BY <3>1 DEF Reviewing
  <2> QED
    BY <2>1 DEF Delivery, OpenedLate, ChangeState, BeginSynchronize, BeginCommand, Reviewing,
       jobVars, runVars
<1>3. ASSUME NEW h \in Hooks PROVE ~(HookStep(h) \/ AbortHook(h))
  <2>1. CASE CommitHook(h)
    BY <1>1, <2>1, CommitMoves DEF Reviewing, ActiveRun
  <2> QED
    BY <2>1 DEF HookStep, SupersedeRuns, SupersedeJobs, CheckInProgress, AbortHook, Reviewing,
       jobVars, runVars
<1>4. ASSUME NEW f \in Gens, IndexStep(f) \/ CrashIndex(f)
      PROVE  /\ FinishIndex(g) /\ ReviewAllowed(g) /\ runStatus' = runStatus /\ genSha' = genSha
             /\ \A k \in Gens \ {g} : indexTask'[k] = indexTask[k]
  <2>1. f = g
    BY <1>1, <1>4, IndexMoves DEF Reviewing
  <2>2. indexTask[g] = "indexing" /\ indexTask'[g] = "review" /\ ReviewAllowed(g)
    BY <1>1, <1>4, <2>1, IndexMoves DEF Reviewing, ActiveRun
  <2>3. FinishIndex(g) /\ runStatus' = runStatus
    BY <1>1, <1>4, <2>1, <2>2 DEF IndexStep, ApplyResolution, CleanUpResolution, SkipIndex, ClaimIndex,
       FinishIndex, CommitIndex, RollBackIndex, FailIndex, CrashIndex, Columns, runVars
  <2> QED
    BY <1>1, <1>4, <2>1, <2>2, <2>3, IndexMoves
<1>5. ASSUME NEW f \in Gens PROVE ~(ReviewStep(f) \/ CrashReview(f))
  BY <1>1, ReviewMoves DEF Reviewing, ActiveRun
<1>6. ASSUME CommitRequest PROVE g = api.gen /\ api.kind # "index"
  BY <1>1, <1>6, CommitRequestMoves DEF Reviewing, ActiveRun
<1>7. ASSUME NEW s \in Shas PROVE ~(RequestIndex(s) \/ RequestReview(s))
  BY DEF RequestIndex, RequestReview, Requests, Reviewing, jobVars, runVars
<1>8. ~UNCHANGED vars
  BY DEF vars, Reviewing, jobVars, runVars
<1> QED
  BY <1>2, <1>3, <1>4, <1>5, <1>6, <1>7, <1>8 DEF Next, Wait

\* Without the review endpoint: an open request is for an index job.
OnlyIndexRequests == api # NoRequest => api.kind = "index"

LEMMA NextOnlyIndexRequests ==
  ASSUME "review" \notin Endpoints, TypeOK, OnlyIndexRequests, [Next]_vars
  PROVE  OnlyIndexRequests'
<1>1. CASE UNCHANGED api
  BY <1>1 DEF OnlyIndexRequests
<1>2. ASSUME NEW s \in Shas, NEW kind, Requests(kind, s) PROVE OnlyIndexRequests'
  BY <1>2, ConstantsAssumption DEF ConstantsAssumption, Requests, OnlyIndexRequests
<1>3. CASE CommitRequest
  BY <1>3 DEF CommitRequest, OnlyIndexRequests
<1>4. ASSUME NEW h \in Hooks, Delivery(h) \/ HookStep(h) \/ AbortHook(h) PROVE UNCHANGED api
  BY <1>4 DEF Delivery, OpenPullRequest, OpenedLate, ChangeState, BeginSynchronize, BeginCommand,
     HookStep, SupersedeRuns, SupersedeJobs, CheckInProgress, CommitHook, AbortHook
<1>5. ASSUME NEW g \in Gens, IndexStep(g) \/ CrashIndex(g) \/ ReviewStep(g) \/ CrashReview(g)
      PROVE  UNCHANGED api
  BY <1>5, TypesOfColumns, IndexMoves, ReviewMoves
<1>6. UNCHANGED vars => UNCHANGED api
  BY DEF vars
<1> QED
  BY <1>1, <1>2, <1>3, <1>4, <1>5, <1>6 DEF Next, Wait, RequestIndex, RequestReview

LEMMA NextOneReview ==
  ASSUME TypeOK, Agreement, OnlyIndexRequests, OneReviewPerRevision, [Next]_vars
  PROVE  OneReviewPerRevision'
<1> SUFFICES ASSUME NEW f \in Gens, NEW g \in Gens, genSha'[f] = genSha'[g],
                    Reviewing(f)', Reviewing(g)', f # g
             PROVE  FALSE
  BY DEF OneReviewPerRevision
<1>1. ASSUME NEW a \in Gens, Reviewing(a) PROVE genSha'[a] = genSha[a]
  BY <1>1, ShaStays DEF Reviewing, Unstarted, ActiveRun
<1>2. CASE Reviewing(f) /\ Reviewing(g)
  BY <1>1, <1>2 DEF OneReviewPerRevision
<1>3. ASSUME NEW a \in Gens, NEW b \in Gens, a # b, genSha'[a] = genSha'[b],
             ~Reviewing(a), Reviewing(a)', Reviewing(b)'
      PROVE  FALSE
  <2>1. /\ FinishIndex(a) /\ ReviewAllowed(a) /\ runStatus' = runStatus /\ genSha' = genSha
        /\ \A k \in Gens \ {a} : indexTask'[k] = indexTask[k]
    BY <1>3, ReviewingStarts DEF OnlyIndexRequests, CommitRequest
  <2>2. Reviewing(b) /\ genSha[a] = genSha[b]
    BY <1>3, <2>1 DEF Reviewing
  <2>3. CASE runStatus[b] \in ActiveRun
    BY <2>1, <2>2, <2>3 DEF ReviewAllowed, ReviewInProgress
  <2>4. CASE indexTask[b] = "review"
    <3>1. jobStatus[b] = "pending"
      BY <2>4 DEF Agreement, RowsClaimed, Locking
    <3> QED
      BY <1>3, <2>1, <2>2, <3>1 DEF ReviewAllowed, OtherJobs, PendingJobsOn
  <2> QED
    BY <2>2, <2>3, <2>4 DEF Reviewing
<1> QED
  BY <1>2, <1>3

\* As long as reviews are only started by index tasks, a revision has at most
\* one review in progress, however many of its index jobs finish together.
THEOREM OneReviewWithoutEndpoint ==
  ASSUME "review" \notin Endpoints
  PROVE  Spec => []OneReviewPerRevision
<1>1. Init => OnlyIndexRequests /\ OneReviewPerRevision
  BY DEF Init, OnlyIndexRequests, OneReviewPerRevision, Reviewing, ActiveRun
<1>2. IInv => TypeOK /\ Agreement
  BY DEF IInv, ClaimsHold, Agreement
<1>3. IInv /\ OnlyIndexRequests /\ OneReviewPerRevision /\ [Next]_vars
        => OnlyIndexRequests' /\ OneReviewPerRevision'
  BY <1>2, NextOnlyIndexRequests, NextOneReview
<1> QED
  BY <1>1, <1>3, InductiveInvariant, PTL DEF Spec

\* The review endpoint has seen a completed job of the revision.
RequestIsIndexed == api # NoRequest /\ api.kind # "index" => Indexed(api.sha)

LEMMA IndexedStays ==
  ASSUME TypeOK, Agreement, [Next]_vars, NEW s, Indexed(s)
  PROVE  Indexed(s)'
<1>1. PICK f \in Gens : genSha[f] = s /\ jobStatus[f] = "completed"
  BY DEF Indexed
<1>2. genSha'[f] = s /\ jobStatus'[f] = "completed"
  BY <1>1, ShaStays, EndsStay DEF Unstarted
<1> QED
  BY <1>2 DEF Indexed

\* How a review run comes into being.
LEMMA RunStarts ==
  ASSUME TypeOK, Agreement, [Next]_vars, NEW g \in Gens, runStatus[g] = "none", runStatus'[g] # "none"
  PROVE  \/ jobStatus'[g] = "completed"
         \/ CommitRequest /\ g = api.gen /\ api.kind # "index" /\ genSha'[g] = api.sha
<1>1. Columns /\ Transactions
  BY TypesOfColumns, TypesOfTransactions
<1>2. ASSUME UNCHANGED runVars PROVE FALSE
  BY <1>2 DEF runVars
<1>3. ASSUME NEW h \in Hooks PROVE ~Delivery(h)
  BY <1>2 DEF Delivery, OpenPullRequest, OpenedLate, ChangeState, BeginSynchronize, BeginCommand
<1>4. ASSUME NEW h \in Hooks PROVE ~(HookStep(h) \/ AbortHook(h))
  <2>1. CASE CommitHook(h)
    BY <1>1, <2>1, CommitMoves DEF Agreement, RowsClaimed, ActiveRun
  <2> QED
    BY <1>2, <2>1 DEF HookStep, SupersedeRuns, SupersedeJobs, CheckInProgress, AbortHook
<1>5. ASSUME NEW f \in Gens, IndexStep(f) \/ CrashIndex(f) PROVE jobStatus'[g] = "completed"
  <2>1. f = g /\ indexTask[g] = "review" /\ indexTask'[g] = "done"
    BY <1>1, <1>5, IndexMoves
  <2> QED
    BY <1>1, <1>5, <2>1, IndexMoves DEF Locking
<1>6. ASSUME NEW f \in Gens PROVE ~(ReviewStep(f) \/ CrashReview(f))
  BY <1>1, ReviewMoves DEF Agreement, TasksAgree
<1>7. ASSUME CommitRequest PROVE g = api.gen /\ api.kind # "index" /\ genSha'[g] = api.sha
  BY <1>1, <1>7, CommitRequestMoves DEF Columns
<1>8. ASSUME NEW s \in Shas PROVE ~(RequestIndex(s) \/ RequestReview(s))
  BY <1>2 DEF RequestIndex, RequestReview, Requests
<1>9. ~UNCHANGED vars
  BY <1>2 DEF vars
<1> QED
  BY <1>3, <1>4, <1>5, <1>6, <1>7, <1>8, <1>9 DEF Next, Wait

LEMMA NextRequestIsIndexed ==
  ASSUME TypeOK, Agreement, RequestIsIndexed, [Next]_vars
  PROVE  RequestIsIndexed'
<1>1. CASE UNCHANGED api
  BY <1>1, IndexedStays DEF RequestIsIndexed
<1>2. ASSUME NEW s \in Shas, RequestReview(s) PROVE RequestIsIndexed'
  <2>1. Indexed(s) /\ api'.sha = s
    BY <1>2 DEF RequestReview, Requests
  <2> QED
    BY <2>1, IndexedStays DEF RequestIsIndexed
<1>3. ASSUME NEW s \in Shas, RequestIndex(s) PROVE RequestIsIndexed'
  BY <1>3 DEF RequestIndex, Requests, RequestIsIndexed
<1>4. CASE CommitRequest
  BY <1>4 DEF CommitRequest, RequestIsIndexed
<1>5. ASSUME NEW h \in Hooks, Delivery(h) \/ HookStep(h) \/ AbortHook(h) PROVE UNCHANGED api
  BY <1>5 DEF Delivery, OpenPullRequest, OpenedLate, ChangeState, BeginSynchronize, BeginCommand,
     HookStep, SupersedeRuns, SupersedeJobs, CheckInProgress, CommitHook, AbortHook
<1>6. ASSUME NEW g \in Gens, IndexStep(g) \/ CrashIndex(g) \/ ReviewStep(g) \/ CrashReview(g)
      PROVE  UNCHANGED api
  BY <1>6, TypesOfColumns, IndexMoves, ReviewMoves
<1>7. UNCHANGED vars => UNCHANGED api
  BY DEF vars
<1> QED
  BY <1>1, <1>2, <1>3, <1>4, <1>5, <1>6, <1>7 DEF Next, Wait

LEMMA NextReviewedIsIndexed ==
  ASSUME TypeOK, Agreement, RequestIsIndexed, ReviewedIsIndexed, [Next]_vars
  PROVE  ReviewedIsIndexed'
<1> SUFFICES ASSUME NEW g \in Gens, runStatus'[g] # "none" PROVE Indexed(genSha[g])'
  BY DEF ReviewedIsIndexed, Indexed
<1>1. CASE runStatus[g] # "none"
  <2>1. Indexed(genSha[g]) /\ genSha'[g] = genSha[g]
    BY <1>1, ShaStays DEF ReviewedIsIndexed, Indexed, Unstarted
  <2> QED
    BY <2>1, IndexedStays
<1>2. CASE runStatus[g] = "none"
  <2>1. CASE jobStatus'[g] = "completed"
    BY <2>1 DEF Indexed
  <2>2. CASE CommitRequest /\ g = api.gen /\ api.kind # "index" /\ genSha'[g] = api.sha
    BY <2>2, IndexedStays DEF RequestIsIndexed, CommitRequest
  <2> QED
    BY <1>2, <2>1, <2>2, RunStarts
<1> QED
  BY <1>1, <1>2

\* No revision is reviewed before one of its index jobs has completed, and the
\* index is never taken away again.
THEOREM ReviewsHaveAnIndex == Spec => []ReviewedIsIndexed
<1>1. Init => RequestIsIndexed /\ ReviewedIsIndexed
  BY DEF Init, RequestIsIndexed, ReviewedIsIndexed
<1>2. IInv => TypeOK /\ Agreement
  BY DEF IInv, ClaimsHold, Agreement
<1>3. IInv /\ RequestIsIndexed /\ ReviewedIsIndexed /\ [Next]_vars
        => RequestIsIndexed' /\ ReviewedIsIndexed'
  BY <1>2, NextRequestIsIndexed, NextReviewedIsIndexed
<1> QED
  BY <1>1, <1>3, InductiveInvariant, PTL DEF Spec

-----------------------------------------------------------------------------
(* One delivery at a time, and no index endpoint.                          *)

Ended == {"check", "insert", "commit"}

Older(h) == OlderThan(BoundNumber(hook[h].sha))

\* A transaction is about a commit, and knows the pull request or creates it.
SlotKnows(h) ==
    /\ hook[h].sha \in Shas
    /\ hook[h].kind \in {"synchronize", "command"}
    /\ hook[h].kind = "command" => hook[h].pass = "same" /\ hook[h].reviewable = reviewable
    /\ headSha # NoSha \/ (hook[h].kind = "synchronize" /\ hook[h].locksPr)

\* The pending jobs of its pass are selected, or superseded before.
SlotPicked(h) ==
    hook[h].phase = "jobs" =>
        \A g \in Gens : jobStatus[g] = "pending" /\ genSha[g] \in Scope(h)
                            => g \in hook[h].picked \cup hook[h].jobs

\* After its first pass, a synchronize has superseded what is pending on older revisions.
SlotOlder(h) ==
    hook[h].kind = "synchronize" /\ (hook[h].pass = "same" \/ hook[h].phase \in Ended) =>
        \A g \in Gens : jobStatus[g] = "pending" /\ genSha[g] \in Older(h) => g \in hook[h].jobs

\* After its last pass, a delivery has superseded what is pending on its own.
SlotSame(h) ==
    hook[h].phase \in Ended =>
        /\ hook[h].pass = "older" => revisionNumber[hook[h].sha] = 0
        /\ \A g \in Gens : jobStatus[g] = "pending" /\ genSha[g] = hook[h].sha => g \in hook[h].jobs

ReviewableAfter(h) ==
    IF hook[h].locksPr /\ hook[h].kind = "synchronize" THEN hook[h].reviewable ELSE reviewable

\* Runs that a delivery may leave the revision with.
Left == ActiveRun \cup {"completed", "failed"}

\* One that starts nothing on a reviewable pull request leaves a run it has not matched.
SlotLeaves(h) ==
    hook[h].phase = "commit" /\ ReviewableAfter(h) =>
        \E g \in Gens \ hook[h].runs : genSha[g] = hook[h].sha /\ runStatus[g] \in Left

SlotInv ==
    \A h \in Hooks :
        hook[h].phase # "idle" =>
            SlotKnows(h) /\ SlotPicked(h) /\ SlotOlder(h) /\ SlotSame(h) /\ SlotLeaves(h)

\* Jobs and generations belong to a pull request and to revisions that exist.
RowsExist ==
    /\ headSha = NoSha => \A g \in Gens : jobStatus[g] = "none" /\ indexTask[g] = "none"
    /\ \A s \in Shas : revisionNumber[s] = 0 => \A g \in Gens : genSha[g] # s
    /\ api # NoRequest => /\ api.kind # "index" /\ api.sha \in Shas
                          /\ revisionNumber[api.sha] # 0

\* No job becomes pending, and no run is superseded, that no delivery has matched.
RowsSettle ==
    /\ \A g \in Gens : jobStatus'[g] = "pending" => jobStatus[g] = "pending" /\ genSha'[g] = genSha[g]
    /\ \A g \in Gens : runStatus[g] \in Left /\ (\A h \in Hooks : g \notin hook[h].runs)
                            => runStatus'[g] \in Left /\ genSha'[g] = genSha[g]

\* Steps of others, while a delivery is in progress or not.
LEMMA SettlingKeepsSlot ==
  ASSUME \A h, k \in Hooks : h = k, SlotInv, RowsSettle, UNCHANGED <<hook, prVars>>
  PROVE  SlotInv'
<1> SUFFICES ASSUME NEW h \in Hooks, hook[h].phase # "idle"
             PROVE  SlotKnows(h)' /\ SlotPicked(h)' /\ SlotOlder(h)' /\ SlotSame(h)' /\ SlotLeaves(h)'
  BY DEF SlotInv
<1>1. SlotKnows(h) /\ SlotPicked(h) /\ SlotOlder(h) /\ SlotSame(h) /\ SlotLeaves(h)
  BY DEF SlotInv
<1>2. SlotKnows(h)'
  BY <1>1, Zenon DEF SlotKnows, prVars
<1>3. Scope(h)' = Scope(h) /\ Older(h)' = Older(h)
  BY DEF Scope, Older, OlderThan, BoundNumber, prVars
<1>4. SlotPicked(h)' /\ SlotOlder(h)' /\ SlotSame(h)'
  BY <1>1, <1>3 DEF SlotPicked, SlotOlder, SlotSame, RowsSettle, prVars
<1>5. SlotLeaves(h)'
  <2> SUFFICES ASSUME hook[h].phase = "commit", ReviewableAfter(h)'
               PROVE  \E g \in Gens \ hook[h].runs : genSha'[g] = hook[h].sha /\ runStatus'[g] \in Left
    BY DEF SlotLeaves, Left
  <2>1. ReviewableAfter(h)
    BY DEF ReviewableAfter, prVars
  <2>2. PICK g \in Gens \ hook[h].runs : genSha[g] = hook[h].sha /\ runStatus[g] \in Left
    BY <1>1, <2>1 DEF SlotLeaves
  <2>3. \A k \in Hooks : g \notin hook[k].runs
    BY <2>2
  <2> QED
    BY <2>2, <2>3 DEF RowsSettle
<1> QED
  BY <1>2, <1>4, <1>5

\* Between deliveries there is nothing to keep.
LEMMA IdleKeepsSlot ==
  ASSUME \A h, k \in Hooks : h = k, NEW h \in Hooks, hook'[h].phase = "idle"
  PROVE  SlotInv'
  BY DEF SlotInv

LEMMA OpenKeepsSlot ==
  ASSUME \A h, k \in Hooks : h = k, TypeOK, NEW h \in Hooks, Delivery(h)
  PROVE  SlotInv'
<1>1. hook \in [Hooks -> Hook] /\ hook[h].phase = "idle"
  BY DEF TypeOK, Delivery, OpenPullRequest, OpenedLate, ChangeState, BeginSynchronize, BeginCommand, Takes
<1>2. CASE hook' = hook
  BY <1>1, <1>2, IdleKeepsSlot
<1>3. ASSUME NEW s \in Shas, NEW ready \in BOOLEAN, BeginSynchronize(h, s, ready) PROVE SlotInv'
  <2>1. PICK writes \in BOOLEAN :
          /\ writes = (headSha # s \/ reviewable # ready \/ revisionNumber[s] = 0)
          /\ hook' = [hook EXCEPT ![h] =
             [phase |-> "runs", kind |-> "synchronize", sha |-> s, pass |-> "older",
              locksPr |-> writes, reviewable |-> ready,
              picked |-> ActiveRunsOn(OlderThan(BoundNumber(s))),
              runs |-> {}, jobs |-> {}, gen |-> started']]
    BY <1>3, Zenon DEF BeginSynchronize
  <2>2. /\ hook'[h].phase = "runs" /\ hook'[h].kind = "synchronize" /\ hook'[h].sha = s
        /\ hook'[h].pass = "older" /\ hook'[h].locksPr = writes
    BY <1>1, <2>1
  <2>3. headSha' = headSha
    BY <1>3 DEF BeginSynchronize, prVars
  <2>4. headSha # NoSha \/ writes
    BY <2>1, ConstantsAssumption DEF ConstantsAssumption
  <2>5. SlotKnows(h)'
    BY <2>2, <2>3, <2>4 DEF SlotKnows
  <2>6. SlotPicked(h)' /\ SlotOlder(h)' /\ SlotSame(h)' /\ SlotLeaves(h)'
    BY <2>2 DEF SlotPicked, SlotOlder, SlotSame, SlotLeaves, Ended
  <2> QED
    BY <2>5, <2>6 DEF SlotInv
<1>4. CASE BeginCommand(h)
  <2>1. PICK heals \in BOOLEAN : hook' = [hook EXCEPT ![h] =
             [phase |-> "runs", kind |-> "command", sha |-> headSha, pass |-> "same",
              locksPr |-> heals, reviewable |-> reviewable,
              picked |-> ActiveRunsOn({headSha}),
              runs |-> {}, jobs |-> {}, gen |-> started']]
    BY <1>4, Zenon DEF BeginCommand
  <2>2. /\ hook'[h].phase = "runs" /\ hook'[h].kind = "command" /\ hook'[h].sha = headSha
        /\ hook'[h].pass = "same" /\ hook'[h].reviewable = reviewable
    BY <1>1, <2>1
  <2>3. headSha' = headSha /\ reviewable' = reviewable /\ headSha # NoSha /\ headSha \in Shas
    BY <1>4 DEF BeginCommand, prVars, TypeOK
  <2>5. SlotKnows(h)'
    BY <2>2, <2>3 DEF SlotKnows
  <2>6. SlotPicked(h)' /\ SlotOlder(h)' /\ SlotSame(h)' /\ SlotLeaves(h)'
    BY <2>2 DEF SlotPicked, SlotOlder, SlotSame, SlotLeaves, Ended
  <2> QED
    BY <2>5, <2>6 DEF SlotInv
<1> QED
  BY <1>2, <1>3, <1>4 DEF Delivery, OpenPullRequest, OpenedLate, ChangeState

\* What its own steps leave of a transaction's row.
SameRow(h) ==
    /\ hook'[h].sha = hook[h].sha /\ hook'[h].kind = hook[h].kind
    /\ hook'[h].locksPr = hook[h].locksPr /\ hook'[h].reviewable = hook[h].reviewable

LEMMA SupersedeRunsKeepsSlot ==
  ASSUME \A h, k \in Hooks : h = k, TypeOK, SlotInv, NEW h \in Hooks, SupersedeRuns(h)
  PROVE  SlotInv'
<1>1. hook \in [Hooks -> Hook] /\ hook[h] \in Hook /\ hook[h].phase = "runs"
  BY DEF TypeOK, SupersedeRuns
<1>2. PICK R, P : /\ hook' = [hook EXCEPT ![h].phase = "jobs", ![h].runs = @ \cup R, ![h].picked = P]
                  /\ P = PendingJobsOn(Scope(h))
  BY Zenon DEF SupersedeRuns
<1>3. /\ hook'[h].phase = "jobs" /\ hook'[h].pass = hook[h].pass /\ hook'[h].jobs = hook[h].jobs
      /\ hook'[h].picked = P /\ SameRow(h)
  BY <1>1, <1>2 DEF Hook, SameRow
<1>4. UNCHANGED <<prVars, genSha, jobVars>>
  BY DEF SupersedeRuns
<1>5. SlotKnows(h) /\ SlotOlder(h)
  BY <1>1 DEF SlotInv
<1>6. Scope(h)' = Scope(h) /\ Older(h)' = Older(h)
  BY <1>3, <1>4 DEF Scope, Older, OlderThan, BoundNumber, prVars, SameRow
<1>7. SlotKnows(h)'
  BY <1>3, <1>4, <1>5, Zenon DEF SlotKnows, prVars, SameRow
<1>8. SlotPicked(h)'
  BY <1>2, <1>3, <1>4, <1>6 DEF SlotPicked, PendingJobsOn, jobVars
<1>9. SlotOlder(h)'
  BY <1>1, <1>3, <1>4, <1>5, <1>6 DEF SlotOlder, Ended, jobVars, SameRow
<1>10. SlotSame(h)' /\ SlotLeaves(h)'
  BY <1>3 DEF SlotSame, SlotLeaves, Ended
<1> QED
  BY <1>7, <1>8, <1>9, <1>10 DEF SlotInv

LEMMA SupersedeJobsKeepsSlot ==
  ASSUME \A h, k \in Hooks : h = k, TypeOK, SlotInv, RowsExist, NEW h \in Hooks, SupersedeJobs(h)
  PROVE  SlotInv'
<1>1. hook \in [Hooks -> Hook] /\ hook[h] \in Hook /\ hook[h].phase = "jobs"
  BY DEF TypeOK, SupersedeJobs
<1>2. PICK J, P : /\ J = StillPending(h)
                  /\ \/ /\ HasSecondPass(hook[h])
                        /\ hook' = [hook EXCEPT ![h].phase = "runs", ![h].pass = "same",
                                                ![h].jobs = @ \cup J, ![h].picked = P]
                     \/ /\ ~HasSecondPass(hook[h])
                        /\ hook' = [hook EXCEPT ![h].phase = "check", ![h].jobs = @ \cup J, ![h].picked = P]
  BY Zenon DEF SupersedeJobs
<1>3. /\ hook'[h].jobs = hook[h].jobs \cup J /\ SameRow(h)
      /\ \/ HasSecondPass(hook[h]) /\ hook'[h].phase = "runs" /\ hook'[h].pass = "same"
         \/ ~HasSecondPass(hook[h]) /\ hook'[h].phase = "check" /\ hook'[h].pass = hook[h].pass
  BY <1>1, <1>2 DEF Hook, SameRow
<1>4. UNCHANGED <<prVars, genSha, jobVars>>
  BY DEF SupersedeJobs
<1>5. SlotKnows(h) /\ SlotPicked(h) /\ SlotOlder(h)
  BY <1>1 DEF SlotInv
<1>6. Older(h)' = Older(h) /\ revisionNumber' = revisionNumber
  BY <1>3, <1>4 DEF Older, OlderThan, BoundNumber, prVars, SameRow
<1>7. SlotKnows(h)'
  BY <1>3, <1>4, <1>5 DEF SlotKnows, prVars, SameRow, HasSecondPass
<1>8. SlotPicked(h)'
  BY <1>3 DEF SlotPicked
<1>9. \A g \in Gens : jobStatus[g] = "pending" /\ genSha[g] \in Scope(h) => g \in hook'[h].jobs
  BY <1>1, <1>2, <1>3, <1>5 DEF SlotPicked, StillPending
<1>10. hook[h].pass = "older" \/ hook[h].pass = "same"
  BY <1>1 DEF Hook
<1>11. SlotOlder(h)'
  <2> SUFFICES ASSUME hook[h].kind = "synchronize", NEW g \in Gens, jobStatus[g] = "pending", genSha[g] \in Older(h)
               PROVE  g \in hook'[h].jobs
    BY <1>3, <1>4, <1>6 DEF SlotOlder, jobVars, SameRow
  <2>1. CASE hook[h].pass = "older"
    BY <1>9, <2>1 DEF Scope, Older
  <2>2. CASE hook[h].pass = "same"
    BY <1>3, <1>5, <2>2 DEF SlotOlder
  <2> QED
    BY <1>10, <2>1, <2>2
<1>12. SlotSame(h)'
  <2>1. CASE hook'[h].phase = "runs"
    BY <2>1 DEF SlotSame, Ended
  <2>2. CASE hook[h].pass = "older" /\ ~HasSecondPass(hook[h])
    <3>1. hook[h].kind = "synchronize" /\ hook[h].sha \in Shas
      BY <1>5, <2>2 DEF SlotKnows
    <3>2. revisionNumber[hook[h].sha] = 0
      BY <2>2, <3>1 DEF HasSecondPass
    <3>3. \A g \in Gens : genSha[g] # hook[h].sha
      BY <3>1, <3>2 DEF RowsExist
    <3> QED
      BY <1>3, <1>4, <1>6, <3>2, <3>3 DEF SlotSame, SameRow
  <2>3. CASE hook[h].pass = "same" /\ hook'[h].pass = "same"
    <3>1. Scope(h) = {hook[h].sha}
      BY <2>3 DEF Scope
    <3> QED
      BY <1>3, <1>4, <1>9, <2>3, <3>1 DEF SlotSame, SameRow, jobVars
  <2> QED
    BY <1>3, <1>10, <2>1, <2>2, <2>3
<1>13. SlotLeaves(h)'
  BY <1>3 DEF SlotLeaves
<1> QED
  BY <1>7, <1>8, <1>11, <1>12, <1>13 DEF SlotInv

LEMMA CheckKeepsSlot ==
  ASSUME \A h, k \in Hooks : h = k, TypeOK, SlotInv, NEW h \in Hooks, CheckInProgress(h)
  PROVE  SlotInv'
<1>1. hook \in [Hooks -> Hook] /\ hook[h] \in Hook /\ hook[h].phase = "check"
  BY DEF TypeOK, CheckInProgress
<1> DEFINE ready == IF hook[h].locksPr THEN hook[h].reviewable ELSE reviewable
<1>2. PICK phase \in {"insert", "commit"} :
         /\ hook' = [hook EXCEPT ![h].phase = phase]
         /\ phase = "commit" => ~(ready /\ NothingInProgress(h))
  <2>1. CASE ready /\ NothingInProgress(h)
    BY <2>1, Zenon DEF CheckInProgress
  <2>2. CASE ~(ready /\ NothingInProgress(h))
    BY <2>2, Zenon DEF CheckInProgress
  <2> QED
    BY <2>1, <2>2, Zenon
<1>3. /\ hook'[h].phase = phase /\ hook'[h].pass = hook[h].pass /\ hook'[h].jobs = hook[h].jobs
      /\ hook'[h].runs = hook[h].runs /\ SameRow(h)
  <2> HIDE DEF ready
  <2> QED
    BY <1>1, <1>2 DEF Hook, SameRow
<1>4. UNCHANGED <<prVars, genSha, jobVars, runVars>>
  BY DEF CheckInProgress
<1>5. SlotKnows(h) /\ SlotOlder(h) /\ SlotSame(h)
  BY <1>1 DEF SlotInv
<1>6. Older(h)' = Older(h) /\ revisionNumber' = revisionNumber
  BY <1>3, <1>4 DEF Older, OlderThan, BoundNumber, prVars, SameRow
<1>7. SlotKnows(h)'
  BY <1>3, <1>4, <1>5, Zenon DEF SlotKnows, prVars, SameRow
<1>8. SlotPicked(h)'
  BY <1>3 DEF SlotPicked
<1>9. SlotOlder(h)'
  BY <1>1, <1>3, <1>4, <1>5, <1>6 DEF SlotOlder, Ended, jobVars, SameRow
<1>10. SlotSame(h)'
  BY <1>1, <1>3, <1>4, <1>5, <1>6 DEF SlotSame, Ended, jobVars, SameRow
<1>11. SlotLeaves(h)'
  <2> SUFFICES ASSUME phase = "commit", ReviewableAfter(h)'
               PROVE  \E g \in Gens \ hook'[h].runs : genSha'[g] = hook'[h].sha /\ runStatus'[g] \in Left
    BY <1>3 DEF SlotLeaves, Left
  <2>1. ready
    <3>1. ReviewableAfter(h)
      BY <1>3, <1>4, Zenon DEF ReviewableAfter, SameRow, prVars
    <3> QED
      BY <1>5, <3>1, Zenon DEF ReviewableAfter, SlotKnows
  <2>2. ~NothingInProgress(h)
    BY <1>2, <2>1
  <2>3. PendingJobsOn({hook[h].sha}) \subseteq hook[h].jobs
    BY <1>1, <1>5 DEF SlotSame, Ended, PendingJobsOn
  <2>4. PICK g \in Gens \ hook[h].runs : genSha[g] = hook[h].sha /\ runStatus[g] \in ActiveRun
    BY <2>2, <2>3 DEF NothingInProgress, ActiveRunsOn
  <2> QED
    BY <1>3, <1>4, <2>4 DEF Left, SameRow, runVars
<1> QED
  BY <1>7, <1>8, <1>9, <1>10, <1>11 DEF SlotInv

\* What is not a step of a delivery settles rows, and leaves the pull request alone.
LEMMA WorkersSettle ==
  ASSUME TypeOK, Agreement, NEW g \in Gens,
         IndexStep(g) \/ CrashIndex(g) \/ ReviewStep(g) \/ CrashReview(g)
  PROVE  RowsSettle /\ UNCHANGED <<hook, prVars, genSha, api>>
<1>1. Columns
  BY TypesOfColumns
<1>2. UNCHANGED prVars
  BY DEF IndexStep, ApplyResolution, CleanUpResolution, SkipIndex, ClaimIndex, FinishIndex, CommitIndex,
     RollBackIndex, FailIndex, CrashIndex, IndexUnchanged, ReviewStep, SkipReview, StartReview, RetryReview,
     FailReview, ParseReview, AddFindings, CompleteReview, HandOff, CrashReview, ReviewUnchanged
<1>3. CASE IndexStep(g) \/ CrashIndex(g)
  <2>1. UNCHANGED <<genSha, hook, api>>
    BY <1>1, <1>3, IndexMoves
  <2>2. \A f \in Gens : jobStatus'[f] = "pending" => jobStatus[f] = "pending"
    BY <1>1, <1>3, IndexMoves
  <2>3. \A f \in Gens : runStatus'[f] = runStatus[f] \/ runStatus'[f] = "pending"
    BY <1>1, <1>3, IndexMoves
  <2> QED
    BY <1>2, <2>1, <2>2, <2>3 DEF RowsSettle, Left, ActiveRun
<1>4. CASE ReviewStep(g) \/ CrashReview(g)
  <2>1. UNCHANGED <<genSha, hook, api, jobStatus>>
    BY <1>1, <1>4, ReviewMoves
  <2>2. \A f \in Gens : runStatus'[f] = runStatus[f] \/ runStatus'[f] \in {"processing", "failed", "completed"}
    BY <1>1, <1>4, ReviewMoves
  <2> QED
    BY <1>2, <2>1, <2>2 DEF RowsSettle, Left, ActiveRun
<1> QED
  BY <1>3, <1>4

LEMMA RequestsSettle ==
  ASSUME TypeOK, Agreement, RowsExist,
         CommitRequest \/ \E s \in Shas : RequestIndex(s) \/ RequestReview(s)
  PROVE  RowsSettle /\ UNCHANGED <<hook, prVars>>
<1>1. CASE CommitRequest
  <2>1. api # NoRequest /\ api.kind # "index"
    BY <1>1 DEF CommitRequest, RowsExist
  <2>2. UNCHANGED jobVars /\ UNCHANGED <<hook, prVars>>
    BY <1>1, <2>1 DEF CommitRequest
  <2>3. /\ api.gen \in Gens /\ jobStatus[api.gen] = "none" /\ runStatus[api.gen] = "none"
        /\ \A g \in Gens \ {api.gen} : genSha'[g] = genSha[g] /\ runStatus'[g] = runStatus[g]
    BY <1>1, TypesOfColumns, CommitRequestMoves DEF Unstarted
  <2> QED
    BY <2>2, <2>3 DEF RowsSettle, Left, ActiveRun, jobVars
<1>2. ASSUME NEW s \in Shas, RequestIndex(s) \/ RequestReview(s)
      PROVE  RowsSettle /\ UNCHANGED <<hook, prVars>>
  BY <1>2 DEF RequestIndex, RequestReview, Requests, RowsSettle, jobVars, runVars
<1> QED
  BY <1>1, <1>2

LEMMA NextSlot ==
  ASSUME \A h, k \in Hooks : h = k, TypeOK, Agreement, RowsExist, SlotInv, [Next]_vars
  PROVE  SlotInv'
<1>1. ASSUME NEW h \in Hooks, Delivery(h) \/ HookStep(h) \/ AbortHook(h) PROVE SlotInv'
  <2>1. CASE CommitHook(h) \/ AbortHook(h)
    <3>1. hook'[h].phase = "idle"
      BY <2>1 DEF CommitHook, AbortHook, TypeOK, NoHook
    <3> QED
      BY <3>1, IdleKeepsSlot
  <2> QED
    BY <1>1, <2>1, OpenKeepsSlot, SupersedeRunsKeepsSlot, SupersedeJobsKeepsSlot, CheckKeepsSlot DEF HookStep
<1>2. ASSUME NEW g \in Gens, IndexStep(g) \/ CrashIndex(g) \/ ReviewStep(g) \/ CrashReview(g)
      PROVE  SlotInv'
  BY <1>2, WorkersSettle, SettlingKeepsSlot
<1>3. CASE CommitRequest \/ \E s \in Shas : RequestIndex(s) \/ RequestReview(s)
  BY <1>3, RequestsSettle, SettlingKeepsSlot
<1>4. CASE UNCHANGED vars
  <2>1. RowsSettle /\ UNCHANGED <<hook, prVars>>
    BY <1>4 DEF vars, RowsSettle, jobVars, runVars
  <2> QED
    BY <2>1, SettlingKeepsSlot
<1> QED
  BY <1>1, <1>2, <1>3, <1>4 DEF Next, Wait

\* How a delivery ends, for the rows.
LEMMA CommitWrites ==
  ASSUME TypeOK, Agreement, SlotInv, NEW h \in Hooks, CommitHook(h)
  PROVE  /\ hook[h].phase \in {"insert", "commit"} /\ hook[h].sha \in Shas /\ headSha' # NoSha
         /\ SlotOlder(h) /\ SlotSame(h) /\ SlotLeaves(h)
         /\ revisionNumber' = [revisionNumber EXCEPT ![hook[h].sha] = BoundNumber(hook[h].sha)]
         /\ BoundNumber(hook[h].sha) \in Nat \ {0}
         /\ hook[h].phase = "insert" =>
              /\ genSha'[hook[h].gen] = hook[h].sha /\ jobStatus'[hook[h].gen] = "pending"
         /\ hook[h].phase = "commit" =>
              /\ genSha' = genSha /\ jobStatus'[hook[h].gen] # "pending"
<1>1. hook[h].phase \in {"insert", "commit"} /\ hook[h].phase # "idle"
  BY DEF CommitHook
<1>2. SlotKnows(h) /\ SlotOlder(h) /\ SlotSame(h) /\ SlotLeaves(h)
  BY <1>1 DEF SlotInv
<1>3. headSha' # NoSha
  <2>1. headSha' = IF hook[h].locksPr /\ hook[h].kind = "synchronize" THEN hook[h].sha ELSE headSha
    BY DEF CommitHook
  <2>2. hook[h].sha # NoSha
    BY <1>2, ConstantsAssumption DEF ConstantsAssumption, SlotKnows
  <2> QED
    BY <1>2, <2>1, <2>2, Zenon DEF SlotKnows
<1>4. BoundNumber(hook[h].sha) \in Nat \ {0}
  <2>1. hook[h].sha \in Shas /\ revisionNumber \in [Shas -> Nat] /\ revisionCount \in Nat
    BY <1>2 DEF SlotKnows, TypeOK
  <2> QED
    BY <2>1 DEF BoundNumber
<1>5. Columns /\ Transactions
  BY TypesOfColumns, TypesOfTransactions
<1>6. hook[h].gen \in Gens /\ Unstarted(hook[h].gen) /\ hook[h].gen \notin hook[h].jobs
  BY <1>5, CommitMoves
<1>7. CASE hook[h].phase = "insert"
  <2>1. genSha' = [genSha EXCEPT ![hook[h].gen] = hook[h].sha]
    BY <1>7 DEF CommitHook
  <2>2. jobStatus' = [[g \in Gens |-> IF g \in hook[h].jobs THEN "superseded" ELSE jobStatus[g]]
                        EXCEPT ![hook[h].gen] = "pending"]
    BY <1>7 DEF CommitHook
  <2>3. genSha'[hook[h].gen] = hook[h].sha /\ jobStatus'[hook[h].gen] = "pending"
    BY <1>5, <1>6, <2>1, <2>2 DEF Columns
  <2> QED
    BY <1>1, <1>2, <1>3, <1>4, <1>7, <2>3 DEF CommitHook, SlotKnows
<1>8. CASE hook[h].phase = "commit"
  <2>1. genSha' = genSha
    BY <1>8 DEF CommitHook
  <2>2. jobStatus' = [g \in Gens |-> IF g \in hook[h].jobs THEN "superseded" ELSE jobStatus[g]]
    BY <1>8 DEF CommitHook
  <2>3. jobStatus'[hook[h].gen] # "pending"
    BY <1>6, <2>2 DEF Unstarted
  <2> QED
    BY <1>1, <1>2, <1>3, <1>4, <1>8, <2>1, <2>3 DEF CommitHook, SlotKnows
<1> QED
  BY <1>1, <1>7, <1>8

\* The rows of a delivery that opens the pull request.
LEMMA OpenWrites ==
  ASSUME TypeOK, NEW h \in Hooks, NEW ready, OpenPullRequest(h, ready)
  PROVE  /\ headSha = NoSha /\ headSha' # NoSha /\ started' \in Gens /\ api' = api
         /\ revisionNumber' = [revisionNumber EXCEPT ![FirstSha] = 1]
         /\ \A g \in Gens \ {started'} : genSha'[g] = genSha[g] /\ jobStatus'[g] = jobStatus[g]
         /\ genSha'[started'] \in {genSha[started'], FirstSha}
<1>1. /\ headSha = NoSha /\ headSha' = FirstSha /\ api' = api
      /\ revisionNumber' = [revisionNumber EXCEPT ![FirstSha] = 1]
  BY DEF OpenPullRequest
<1>2. started' \in Gens
  BY NextGeneration DEF OpenPullRequest, Takes
<1>3. \/ genSha' = genSha /\ jobStatus' = jobStatus
      \/ /\ genSha' = [genSha EXCEPT ![started'] = FirstSha]
         /\ jobStatus' = [jobStatus EXCEPT ![started'] = "pending"]
  BY Zenon DEF OpenPullRequest, jobVars
<1>4. Columns
  BY TypesOfColumns
<1> QED
  BY <1>1, <1>2, <1>3, <1>4, ConstantsAssumption DEF ConstantsAssumption, Columns

LEMMA NextRowsExist ==
  ASSUME "index" \notin Endpoints, TypeOK, Agreement, RowsExist, SlotInv, [Next]_vars
  PROVE  RowsExist'
<1>0. Columns /\ Transactions /\ revisionNumber \in [Shas -> Nat]
  BY TypesOfColumns, TypesOfTransactions DEF TypeOK
<1>1. ASSUME NEW h \in Hooks, NEW ready, OpenPullRequest(h, ready) PROVE RowsExist'
  <2>1. \A s \in Shas : revisionNumber'[s] = 0 => s # FirstSha /\ revisionNumber[s] = 0
    BY <1>0, <1>1, OpenWrites
  <2>2. \A s \in Shas : revisionNumber'[s] = 0 => \A g \in Gens : genSha'[g] # s
    BY <1>1, <2>1, OpenWrites DEF RowsExist
  <2>3. api # NoRequest => revisionNumber'[api.sha] # 0
    BY <2>1 DEF RowsExist
  <2> QED
    BY <1>1, <2>2, <2>3, OpenWrites DEF RowsExist
<1>2. ASSUME NEW h \in Hooks, Delivery(h), \A ready \in BOOLEAN : ~OpenPullRequest(h, ready) PROVE RowsExist'
  <2>1. UNCHANGED <<revisionNumber, genSha, jobVars, api>>
    BY <1>2 DEF Delivery, OpenedLate, ChangeState, BeginSynchronize, BeginCommand, prVars
  <2>2. headSha' = headSha \/ headSha' = FirstSha
    BY <1>2 DEF Delivery, OpenedLate, ChangeState, BeginSynchronize, BeginCommand, prVars
  <2> QED
    BY <2>1, <2>2, ConstantsAssumption DEF ConstantsAssumption, RowsExist, jobVars
<1>3. ASSUME NEW h \in Hooks, CommitHook(h) PROVE RowsExist'
  <2>1. api' = api
    BY <1>0, <1>3, CommitMoves
  <2>2. \A s \in Shas : revisionNumber'[s] = 0 => s # hook[h].sha /\ revisionNumber[s] = 0
    BY <1>0, <1>3, CommitWrites
  <2>3. \A g \in Gens : genSha'[g] = genSha[g] \/ genSha'[g] = hook[h].sha
    <3>1. \A g \in Gens \ {hook[h].gen} : genSha'[g] = genSha[g]
      BY <1>0, <1>3, CommitMoves
    <3> QED
      BY <1>3, <3>1, CommitWrites
  <2>4. \A s \in Shas : revisionNumber'[s] = 0 => \A g \in Gens : genSha'[g] # s
    BY <2>2, <2>3 DEF RowsExist
  <2>5. api # NoRequest => revisionNumber'[api.sha] # 0
    BY <2>2 DEF RowsExist
  <2> QED
    BY <1>3, <2>1, <2>4, <2>5, CommitWrites DEF RowsExist
<1>4. ASSUME NEW h \in Hooks, SupersedeRuns(h) \/ SupersedeJobs(h) \/ CheckInProgress(h) \/ AbortHook(h)
      PROVE  RowsExist'
  BY <1>4 DEF SupersedeRuns, SupersedeJobs, CheckInProgress, AbortHook, RowsExist, prVars, jobVars
<1>5. ASSUME NEW g \in Gens, IndexStep(g) \/ CrashIndex(g) \/ ReviewStep(g) \/ CrashReview(g)
      PROVE  RowsExist'
  <2>1. UNCHANGED <<prVars, genSha, api>>
    BY <1>5, WorkersSettle
  <2>2. headSha = NoSha => UNCHANGED jobVars
    <3> SUFFICES ASSUME headSha = NoSha PROVE UNCHANGED jobVars
      OBVIOUS
    <3>1. indexTask[g] = "none"
      BY DEF RowsExist
    <3>2. CASE IndexStep(g) \/ CrashIndex(g)
      BY <3>1, <3>2 DEF IndexStep, ApplyResolution, CleanUpResolution, SkipIndex, ClaimIndex, FinishIndex,
         CommitIndex, RollBackIndex, FailIndex, CrashIndex, Locking
    <3>3. CASE ReviewStep(g) \/ CrashReview(g)
      BY <3>3 DEF ReviewStep, SkipReview, StartReview, RetryReview, FailReview, ParseReview, AddFindings,
         CompleteReview, HandOff, CrashReview, ReviewUnchanged
    <3> QED
      BY <1>5, <3>2, <3>3
  <2> QED
    BY <2>1, <2>2 DEF RowsExist, prVars, jobVars
<1>6. ASSUME NEW s \in Shas, RequestIndex(s) \/ RequestReview(s) PROVE RowsExist'
  BY <1>6, ConstantsAssumption DEF ConstantsAssumption, RequestIndex, RequestReview, Requests, RowsExist,
     prVars, jobVars
<1>7. CASE CommitRequest
  <2>1. api # NoRequest /\ api.kind # "index" /\ api.sha \in Shas /\ revisionNumber[api.sha] # 0
    BY <1>7 DEF CommitRequest, RowsExist
  <2>2. UNCHANGED jobVars /\ UNCHANGED prVars /\ api' = NoRequest
    BY <1>7, <2>1 DEF CommitRequest
  <2>3. \A g \in Gens : genSha'[g] = genSha[g] \/ genSha'[g] = api.sha
    BY <1>0, <1>7 DEF CommitRequest, Columns
  <2> QED
    BY <2>1, <2>2, <2>3 DEF RowsExist, prVars, jobVars
<1>8. CASE UNCHANGED vars
  BY <1>8 DEF vars, RowsExist, prVars, jobVars
<1> QED
  BY <1>1, <1>2, <1>3, <1>4, <1>5, <1>6, <1>7, <1>8 DEF Next, Wait, Delivery, HookStep

LEMMA NextOneIndex ==
  ASSUME \A h, k \in Hooks : h = k, TypeOK, Agreement, RowsExist, SlotInv, OneIndexPerRevision, [Next]_vars
  PROVE  OneIndexPerRevision'
<1>0. Columns /\ Transactions
  BY TypesOfColumns, TypesOfTransactions
<1>1. ASSUME \A g \in Gens : jobStatus'[g] = "pending" => jobStatus[g] = "pending" /\ genSha'[g] = genSha[g]
      PROVE  OneIndexPerRevision'
  BY <1>1 DEF OneIndexPerRevision
<1>2. ASSUME NEW h \in Hooks, NEW ready, OpenPullRequest(h, ready) PROVE OneIndexPerRevision'
  BY <1>2, OpenWrites DEF OneIndexPerRevision, RowsExist
<1>3. ASSUME NEW h \in Hooks, Delivery(h), \A ready \in BOOLEAN : ~OpenPullRequest(h, ready)
      PROVE  OneIndexPerRevision'
  <2>1. UNCHANGED <<genSha, jobVars>>
    BY <1>3 DEF Delivery, OpenedLate, ChangeState, BeginSynchronize, BeginCommand
  <2> QED
    BY <1>1, <2>1 DEF jobVars
<1>4. ASSUME NEW h \in Hooks, CommitHook(h) PROVE OneIndexPerRevision'
  <2>1. \A g \in Gens \ {hook[h].gen} :
          /\ jobStatus'[g] = IF g \in hook[h].jobs THEN "superseded" ELSE jobStatus[g]
          /\ genSha'[g] = genSha[g]
    BY <1>0, <1>4, CommitMoves
  <2>2. CASE hook[h].phase = "commit"
    <3>1. jobStatus'[hook[h].gen] # "pending"
      BY <1>4, <2>2, CommitWrites
    <3> QED
      BY <1>1, <2>1, <3>1
  <2>3. CASE hook[h].phase = "insert"
    <3>1. genSha'[hook[h].gen] = hook[h].sha
      BY <1>4, <2>3, CommitWrites
    <3>2. \A g \in Gens : jobStatus[g] = "pending" /\ genSha[g] = hook[h].sha => g \in hook[h].jobs
      BY <1>4, <2>3, CommitWrites DEF SlotSame, Ended
    <3>3. \A g \in Gens \ {hook[h].gen} :
            jobStatus'[g] = "pending" => jobStatus[g] = "pending" /\ genSha'[g] = genSha[g] /\ genSha[g] # hook[h].sha
      BY <2>1, <3>2
    <3> QED
      BY <3>1, <3>3 DEF OneIndexPerRevision
  <2> QED
    BY <1>4, <2>2, <2>3, CommitWrites
<1>5. ASSUME NEW h \in Hooks, SupersedeRuns(h) \/ SupersedeJobs(h) \/ CheckInProgress(h) \/ AbortHook(h)
      PROVE  OneIndexPerRevision'
  <2>1. UNCHANGED <<genSha, jobVars>>
    BY <1>5 DEF SupersedeRuns, SupersedeJobs, CheckInProgress, AbortHook
  <2> QED
    BY <1>1, <2>1 DEF jobVars
<1>6. ASSUME NEW g \in Gens, IndexStep(g) \/ CrashIndex(g) \/ ReviewStep(g) \/ CrashReview(g)
      PROVE  OneIndexPerRevision'
  BY <1>1, <1>6, WorkersSettle DEF RowsSettle
<1>7. CASE CommitRequest \/ \E s \in Shas : RequestIndex(s) \/ RequestReview(s)
  BY <1>1, <1>7, RequestsSettle DEF RowsSettle
<1>8. CASE UNCHANGED vars
  BY <1>1, <1>8 DEF vars, jobVars
<1> QED
  BY <1>2, <1>3, <1>4, <1>5, <1>6, <1>7, <1>8 DEF Next, Wait, Delivery, HookStep

\* What a committing "synchronize" leaves of the jobs on older revisions.
LEMMA CommitClearsOlder ==
  ASSUME TypeOK, Agreement, SlotInv, NEW h \in Hooks, hook[h].kind = "synchronize", CommitHook(h),
         NEW g \in Gens, genSha'[g] \in OlderAfter(h)
  PROVE  jobStatus'[g] # "pending"
<1> SUFFICES ASSUME jobStatus'[g] = "pending" PROVE FALSE
  OBVIOUS
<1>0. Columns /\ Transactions /\ revisionNumber \in [Shas -> Nat]
  BY TypesOfColumns, TypesOfTransactions DEF TypeOK
<1>1. /\ hook[h].phase \in {"insert", "commit"} /\ hook[h].sha \in Shas /\ SlotOlder(h)
      /\ revisionNumber' = [revisionNumber EXCEPT ![hook[h].sha] = BoundNumber(hook[h].sha)]
      /\ BoundNumber(hook[h].sha) \in Nat \ {0}
  BY CommitWrites
<1>2. revisionNumber'[hook[h].sha] = BoundNumber(hook[h].sha)
  BY <1>0, <1>1
<1>3. genSha'[g] \in Shas /\ genSha'[g] # hook[h].sha
      /\ revisionNumber'[genSha'[g]] \in 1..(BoundNumber(hook[h].sha) - 1)
  BY <1>1, <1>2 DEF OlderAfter
<1>4. revisionNumber'[genSha'[g]] = revisionNumber[genSha'[g]]
  BY <1>0, <1>1, <1>3
<1>5. g # hook[h].gen
  BY <1>1, <1>3, CommitWrites
<1>6. jobStatus[g] = "pending" /\ g \notin hook[h].jobs /\ genSha'[g] = genSha[g]
  BY <1>0, <1>5, CommitMoves
<1>7. genSha[g] \in Older(h)
  BY <1>3, <1>4, <1>6 DEF Older, OlderThan
<1> QED
  BY <1>1, <1>6, <1>7 DEF SlotOlder, Ended

\* What a committing delivery leaves of the work on its revision.
LEMMA CommitLeaves ==
  ASSUME TypeOK, Agreement, SlotInv, NEW h \in Hooks, CommitHook(h), reviewable'
  PROVE  \E g \in Gens : /\ genSha'[g] = hook[h].sha
                         /\ \/ jobStatus'[g] \in {"pending", "failed"}
                            \/ runStatus'[g] \in ActiveRun \cup {"completed", "failed"}
<1>0. Columns /\ Transactions
  BY TypesOfColumns, TypesOfTransactions
<1>1. hook[h].gen \in Gens
  BY <1>0, CommitMoves
<1>2. CASE hook[h].phase = "insert"
  BY <1>1, <1>2, CommitWrites
<1>3. CASE hook[h].phase = "commit"
  <2>1. ReviewableAfter(h)
    <3>1. reviewable' = ReviewableAfter(h)
      BY Zenon DEF CommitHook, ReviewableAfter
    <3> QED
      BY <3>1, Zenon
  <2>2. PICK g \in Gens \ hook[h].runs : genSha[g] = hook[h].sha /\ runStatus[g] \in Left
    BY <1>3, <2>1, CommitWrites DEF SlotLeaves
  <2>3. genSha'[g] = genSha[g] /\ runStatus'[g] = runStatus[g]
    BY <1>0, <1>3, <2>2, CommitWrites, CommitMoves
  <2> QED
    BY <2>2, <2>3 DEF Left
<1> QED
  BY <1>2, <1>3, CommitWrites

\* The inductive invariant of deliveries that run one at a time.
Separate == SlotInv /\ RowsExist /\ OneIndexPerRevision

LEMMA InductiveSeparate ==
  ASSUME \A h, k \in Hooks : h = k, "index" \notin Endpoints
  PROVE  Spec => []Separate
<1>1. Init => Separate
  <2> SUFFICES ASSUME Init PROVE Separate
    OBVIOUS
  <2>1. SlotInv
    BY DEF Init, SlotInv, NoHook
  <2>2. RowsExist
    BY ConstantsAssumption DEF ConstantsAssumption, Init, RowsExist
  <2>3. OneIndexPerRevision
    BY DEF Init, OneIndexPerRevision
  <2> QED
    BY <2>1, <2>2, <2>3 DEF Separate
<1>2. IInv => TypeOK /\ Agreement
  BY DEF IInv, ClaimsHold, Agreement
<1>3. IInv /\ Separate /\ [Next]_vars => Separate'
  BY <1>2, NextSlot, NextRowsExist, NextOneIndex DEF Separate
<1> QED
  BY <1>1, <1>3, InductiveInvariant, PTL DEF Spec

\* At most one index job of a revision is pending, as long as deliveries run
\* one at a time and the index endpoint is not called.
THEOREM OneIndexPerDelivery ==
  ASSUME \A h, k \in Hooks : h = k, "index" \notin Endpoints
  PROVE  Spec => []OneIndexPerRevision
  BY InductiveSeparate, PTL DEF Separate

\* Under the same conditions, no index job is pending on an older revision
\* when a "synchronize" commits ...
THEOREM OlderJobsAreCleared ==
  ASSUME \A h, k \in Hooks : h = k, "index" \notin Endpoints
  PROVE  Spec => SynchronizeClearsOlderJobs
<1>1. TypeOK /\ Agreement /\ SlotInv /\ [Next]_vars =>
        [\A h \in Hooks : hook[h].kind = "synchronize" /\ CommitHook(h) =>
           \A g \in Gens : genSha'[g] \in OlderAfter(h) => jobStatus'[g] # "pending"]_vars
  BY CommitClearsOlder
<1>2. IInv /\ Separate => TypeOK /\ Agreement /\ SlotInv
  BY DEF IInv, ClaimsHold, Agreement, Separate
<1> QED
  BY <1>1, <1>2, InductiveInvariant, InductiveSeparate, PTL DEF Spec, SynchronizeClearsOlderJobs

\* ... and a delivery that supersedes work on its revision leaves other work
\* there, while the pull request can be reviewed.
THEOREM SupersededWorkIsReplaced ==
  ASSUME \A h, k \in Hooks : h = k, "index" \notin Endpoints
  PROVE  Spec => SupersedingLeavesSuccessor
<1>1. TypeOK /\ Agreement /\ SlotInv /\ [Next]_vars =>
        [\A h \in Hooks :
           /\ CommitHook(h) /\ reviewable'
           /\ \E g \in hook[h].runs \cup hook[h].jobs : genSha[g] = hook[h].sha
           => \E g \in Gens : /\ genSha'[g] = hook[h].sha
                              /\ \/ jobStatus'[g] \in {"pending", "failed"}
                                 \/ runStatus'[g] \in ActiveRun \cup {"completed", "failed"}]_vars
  BY CommitLeaves
<1>2. IInv /\ Separate => TypeOK /\ Agreement /\ SlotInv
  BY DEF IInv, ClaimsHold, Agreement, Separate
<1> QED
  BY <1>1, <1>2, InductiveInvariant, InductiveSeparate, PTL DEF Spec, SupersedingLeavesSuccessor

-----------------------------------------------------------------------------
(* The contract: initial states map to initial states of ReviewContract, and *)
(* every step to a step of it or to a stutter.  Stage is the refinement      *)
(* mapping.                                                                  *)

\* Whichever of its two rows speaks for a generation, the other is silent: a
\* run belongs to a completed job or to none, and a task has a row.
OneVoice ==
    \A g \in Gens : /\ runStatus[g] # "none" => jobStatus[g] \in {"none", "completed"}
                    /\ indexTask[g] # "none" => jobStatus[g] # "none"

LEMMA NextOneVoice ==
  ASSUME TypeOK, Agreement, OneVoice, [Next]_vars
  PROVE  OneVoice'
<1> DEFINE Voice(g) == /\ runStatus[g] # "none" => jobStatus[g] \in {"none", "completed"}
                       /\ indexTask[g] # "none" => jobStatus[g] # "none"
<1>1. Columns /\ Transactions
  BY TypesOfColumns, TypesOfTransactions
<1>2. CASE UNCHANGED <<runStatus, jobStatus, indexTask>>
  BY <1>2 DEF OneVoice
<1>3. ASSUME NEW h \in Hooks, Delivery(h) PROVE OneVoice'
  <2>1. ASSUME NEW ready \in BOOLEAN, OpenPullRequest(h, ready) PROVE OneVoice'
    <3>1. started' \in Gens /\ Unstarted(started') /\ runStatus' = runStatus
      BY <1>1, <2>1, TakenGeneration DEF OpenPullRequest, Takes, runVars
    <3>2. \/ UNCHANGED <<jobStatus, indexTask>>
          \/ \E task \in {"queued", "lost"} :
               /\ jobStatus' = [jobStatus EXCEPT ![started'] = "pending"]
               /\ indexTask' = [indexTask EXCEPT ![started'] = task]
      BY <2>1, Zenon DEF OpenPullRequest, jobVars
    <3> QED
      BY <1>1, <3>1, <3>2 DEF OneVoice, Unstarted, Columns
  <2> QED
    BY <1>2, <1>3, <2>1 DEF Delivery, OpenedLate, ChangeState, BeginSynchronize, BeginCommand,
       jobVars, runVars
<1>4. ASSUME NEW h \in Hooks, HookStep(h) \/ AbortHook(h) PROVE OneVoice'
  <2>1. CASE CommitHook(h)
    <3>1. \A g \in Gens : /\ g \in hook[h].runs => runStatus[g] \in ActiveRun
                          /\ g \in hook[h].jobs => jobStatus[g] = "pending"
      BY DEF Agreement, RowsClaimed
    <3>2. ASSUME NEW g \in Gens \ {hook[h].gen} PROVE Voice(g)'
      BY <1>1, <2>1, <3>1, CommitMoves DEF OneVoice, ActiveRun
    <3>3. ASSUME NEW g \in Gens, g = hook[h].gen PROVE Voice(g)'
      <4>1. runStatus'[g] = "none"
        BY <1>1, <2>1, <3>3, CommitMoves DEF Unstarted
      <4>2. indexTask'[g] # "none" => jobStatus'[g] # "none"
        BY <1>1, <2>1, <3>3, CommitMoves DEF CommitHook, Columns, Unstarted
      <4> QED
        BY <4>1, <4>2
    <3> QED
      BY <3>2, <3>3 DEF OneVoice
  <2> QED
    BY <1>2, <1>4, <2>1 DEF HookStep, SupersedeRuns, SupersedeJobs, CheckInProgress, AbortHook,
       jobVars, runVars
<1>5. ASSUME NEW g \in Gens, IndexStep(g) \/ CrashIndex(g) PROVE OneVoice'
  <2>1. Voice(g)'
    BY <1>1, <1>5, IndexMoves DEF OneVoice, Agreement, TasksAgree, RowsClaimed, Locking
  <2>2. ASSUME NEW f \in Gens \ {g} PROVE Voice(f)'
    BY <1>1, <1>5, IndexMoves DEF OneVoice
  <2> QED
    BY <2>1, <2>2 DEF OneVoice
<1>6. ASSUME NEW g \in Gens, ReviewStep(g) \/ CrashReview(g) PROVE OneVoice'
  BY <1>1, <1>6, ReviewMoves DEF OneVoice, Agreement, TasksAgree
<1>7. CASE CommitRequest
  BY <1>1, <1>7, CommitRequestMoves DEF OneVoice
<1>8. ASSUME NEW s \in Shas, RequestIndex(s) \/ RequestReview(s) PROVE OneVoice'
  BY <1>2, <1>8 DEF RequestIndex, RequestReview, Requests, jobVars, runVars
<1>9. UNCHANGED vars => UNCHANGED <<runStatus, jobStatus, indexTask>>
  BY DEF vars, jobVars, runVars
<1> QED
  BY <1>2, <1>3, <1>4, <1>5, <1>6, <1>7, <1>8, <1>9 DEF Next, Wait

-----------------------------------------------------------------------------
(* Steps of the contract.                                                  *)

LEMMA Stages ==
  ASSUME NEW g
  PROVE  /\ runStatus[g] \in ActiveRun => Stage(g) = "reviewing"
         /\ runStatus[g] \in {"completed", "failed", "superseded"} => Stage(g) = runStatus[g]
         /\ runStatus[g] = "none" =>
              Stage(g) = IF jobStatus[g] = "pending" THEN "indexing"
                         ELSE IF jobStatus[g] = "completed" THEN "indexed" ELSE jobStatus[g]
  BY DEF Stage, ActiveRun, RunStatuses

LEMMA SameStage ==
  ASSUME NEW g, runStatus'[g] = runStatus[g], jobStatus'[g] = jobStatus[g]
  PROVE  Stage(g)' = Stage(g)
  BY DEF Stage

LEMMA ContractStutter ==
  ASSUME \A g \in Gens : Stage(g)' = Stage(g), UNCHANGED <<completedRuns, reconciled>>
  PROVE  UNCHANGED Promise!contractVars
  BY DEF Promise!contractVars

LEMMA ContractMove ==
  ASSUME NEW g \in Gens, NEW from, NEW to, Stage(g) \in from, Stage(g)' = to,
         \A f \in Gens \ {g} : Stage(f)' = Stage(f)
  PROVE  Promise!Move(g, from, to)
  BY DEF Promise!Move

LEMMA ContractDeliver ==
  ASSUME NEW S \in SUBSET Gens, NEW new \in SUBSET Gens,
         \A g \in S : Stage(g) \in {"indexing", "reviewing"} /\ Stage(g)' = "superseded",
         \A g \in new : Stage(g) = "none" /\ Stage(g)' = "indexing",
         \A f, g \in new : f = g,
         \A g \in Gens \ (S \cup new) : Stage(g)' = Stage(g),
         UNCHANGED <<completedRuns, reconciled>>
  PROVE  Promise!ContractNext
<1>1. S \subseteq Promise!InFlight /\ new \subseteq Promise!Fresh
  BY DEF Promise!InFlight, Promise!Fresh
<1>2. \A g \in Gens : Stage(g)' = IF g \in S THEN "superseded"
                                 ELSE IF g \in new THEN "indexing" ELSE Stage(g)
  OBVIOUS
<1>3. Promise!Deliver(S, new)
  BY <1>1, <1>2 DEF Promise!Deliver
<1> QED
  BY <1>3 DEF Promise!ContractNext

LEMMA ContractStart ==
  ASSUME NEW r \in Gens, Stage(r) = "none", Stage(r)' = "indexing",
         \A g \in Gens \ {r} : Stage(g)' = Stage(g), UNCHANGED <<completedRuns, reconciled>>
  PROVE  Promise!ContractNext
<1>1. PICK S \in SUBSET Gens, new \in SUBSET Gens : S = {} /\ new = {r}
  OBVIOUS
<1>2. /\ \A g \in S : Stage(g) \in {"indexing", "reviewing"} /\ Stage(g)' = "superseded"
      /\ \A g \in new : Stage(g) = "none" /\ Stage(g)' = "indexing"
      /\ \A f, g \in new : f = g
      /\ \A g \in Gens \ (S \cup new) : Stage(g)' = Stage(g)
  BY <1>1
<1> QED
  BY <1>2, ContractDeliver

LEMMA ContractGeneration ==
  ASSUME NEW g \in Gens, \/ Promise!Index(g) \/ Promise!Review(g) \/ Promise!Fail(g)
                         \/ Promise!Complete(g) \/ Promise!Settle(g)
  PROVE  Promise!ContractNext
  BY DEF Promise!ContractNext

\* Every step is a step of the contract or leaves it where it is.
LEMMA DeliverySteps ==
  ASSUME Columns, Transactions, Agreement, OneVoice, NEW h \in Hooks, Delivery(h)
  PROVE  [Promise!ContractNext]_(Promise!contractVars)
<1>1. CASE UNCHANGED <<jobVars, runVars>>
  BY <1>1, SameStage, ContractStutter DEF jobVars, runVars
<1>2. ASSUME NEW ready \in BOOLEAN, OpenPullRequest(h, ready)
      PROVE  [Promise!ContractNext]_(Promise!contractVars)
  <2>1. started' \in Gens /\ Unstarted(started')
    BY <1>2, TakenGeneration DEF OpenPullRequest, Takes
  <2>2. UNCHANGED runVars /\ (UNCHANGED jobVars \/ jobStatus' = [jobStatus EXCEPT ![started'] = "pending"])
    BY <1>2, Zenon DEF OpenPullRequest
  <2>3. CASE UNCHANGED jobVars
    BY <1>1, <2>2, <2>3
  <2>4. CASE jobStatus' = [jobStatus EXCEPT ![started'] = "pending"]
    <3>1. PICK r \in Gens : r = started' /\ Unstarted(r)
      BY <2>1
    <3>2. Stage(r) = "none" /\ Stage(r)' = "indexing"
      BY <2>2, <2>4, <3>1 DEF Unstarted, Columns, Stage, runVars, ActiveRun, RunStatuses
    <3>3. \A g \in Gens \ {r} : Stage(g)' = Stage(g)
      BY <2>2, <2>4, <3>1, SameStage DEF Columns, runVars
    <3>4. UNCHANGED <<completedRuns, reconciled>>
      BY <2>2 DEF runVars
    <3> QED
      BY <3>2, <3>3, <3>4, ContractStart
  <2> QED
    BY <2>2, <2>3, <2>4
<1> QED
  BY <1>1, <1>2 DEF Delivery, OpenedLate, ChangeState, BeginSynchronize, BeginCommand

LEMMA CommitSteps ==
  ASSUME Columns, Transactions, Agreement, OneVoice, NEW h \in Hooks, CommitHook(h)
  PROVE  [Promise!ContractNext]_(Promise!contractVars)
<1>1. PICK S \in SUBSET Gens, r \in Gens, new \in SUBSET Gens :
        /\ S = hook[h].runs \cup hook[h].jobs /\ r = hook[h].gen
        /\ new = {g \in Gens : g = r /\ jobStatus'[g] = "pending"}
  BY CommitMoves DEF Transactions
<1>2. r \notin S /\ Unstarted(r) /\ runStatus'[r] = "none" /\ jobStatus'[r] \in {"none", "pending"}
  BY <1>1, CommitMoves DEF Unstarted
<1>3. ASSUME NEW g \in S
      PROVE  Stage(g) \in {"indexing", "reviewing"} /\ Stage(g)' = "superseded"
  <2>1. CASE g \in hook[h].runs
    <3>1. runStatus[g] \in ActiveRun /\ runStatus'[g] = "superseded"
      BY <1>1, <2>1, CommitMoves DEF Agreement, RowsClaimed
    <3> QED
      BY <3>1 DEF Stage, ActiveRun, RunStatuses
  <2>2. CASE g \in hook[h].jobs /\ g \notin hook[h].runs
    <3>1. jobStatus[g] = "pending" /\ g # r
      BY <1>1, <1>2, <2>2 DEF Agreement, RowsClaimed
    <3>2. runStatus[g] = "none" /\ runStatus'[g] = "none" /\ jobStatus'[g] = "superseded"
      BY <1>1, <2>2, <3>1, CommitMoves DEF OneVoice, Columns, RunStatuses, ActiveRun
    <3> QED
      BY <3>1, <3>2 DEF Stage, ActiveRun, RunStatuses
  <2> QED
    BY <1>1, <2>1, <2>2
<1>4. \A g \in new : Stage(g) = "none" /\ Stage(g)' = "indexing"
  BY <1>1, <1>2 DEF Unstarted, Stage, ActiveRun, RunStatuses
<1>5. \A f, g \in new : f = g
  BY <1>1
<1>6. ASSUME NEW g \in Gens \ (S \cup new) PROVE Stage(g)' = Stage(g)
  <2>1. CASE g = r
    BY <1>1, <1>2, <1>6, <2>1 DEF Unstarted, Stage, ActiveRun, RunStatuses
  <2>2. CASE g # r
    BY <1>1, <1>6, <2>2, CommitMoves, SameStage
  <2> QED
    BY <2>1, <2>2
<1>7. UNCHANGED <<completedRuns, reconciled>>
  BY CommitMoves
<1> QED
  BY <1>3, <1>4, <1>5, <1>6, <1>7, ContractDeliver

LEMMA IndexSteps ==
  ASSUME Columns, Transactions, Agreement, OneVoice, NEW g \in Gens, IndexStep(g) \/ CrashIndex(g)
  PROVE  [Promise!ContractNext]_(Promise!contractVars)
<1>1. UNCHANGED <<completedRuns, reconciled>>
  BY IndexMoves
<1>2. \A f \in Gens \ {g} : Stage(f)' = Stage(f)
  BY IndexMoves, SameStage
<1>3. CASE Stage(g)' = Stage(g)
  BY <1>1, <1>2, <1>3, ContractStutter
<1>4. CASE jobStatus'[g] = jobStatus[g] /\ runStatus'[g] = runStatus[g]
  BY <1>3, <1>4, SameStage
<1>5. CASE indexTask[g] \in {"deferred", "failing"} /\ indexTask'[g] = "done"
           /\ jobStatus'[g] \in {"failed"} \cup ({"superseded"} \cap {jobStatus[g]})
  <2>1. runStatus[g] = "none" /\ runStatus'[g] = "none"
    BY <1>5, IndexMoves DEF Agreement, TasksAgree
  <2>2. jobStatus[g] \in {"pending", "failed", "superseded"}
    BY <1>5 DEF Agreement, TasksAgree, OneVoice, Columns, JobStatuses
  <2>3. CASE jobStatus'[g] = "failed" /\ jobStatus[g] # "failed"
    <3>1. Stage(g) \in {"indexing", "reviewing", "superseded"} /\ Stage(g)' = "failed"
      BY <2>1, <2>2, <2>3 DEF Stage, ActiveRun, RunStatuses
    <3> QED
      BY <1>1, <1>2, <3>1, ContractMove, ContractGeneration DEF Promise!Fail
  <2>4. CASE jobStatus'[g] = jobStatus[g]
    BY <1>4, <2>1, <2>4
  <2> QED
    BY <1>5, <2>3, <2>4
<1>6. CASE indexTask[g] \in {"review", "noReview"} /\ indexTask'[g] = "done" /\ jobStatus'[g] = "completed"
  <2>1. jobStatus[g] = "pending" /\ runStatus[g] = "none"
    BY <1>6 DEF Agreement, RowsClaimed, TasksAgree, Locking
  <2>2. Stage(g) = "indexing"
    BY <2>1 DEF Stage, ActiveRun, RunStatuses
  <2>3. CASE runStatus'[g] = "pending"
    <3>1. Stage(g)' = "reviewing"
      BY <2>3 DEF Stage, ActiveRun
    <3> QED
      BY <1>1, <1>2, <2>2, <3>1, ContractMove, ContractGeneration DEF Promise!Review
  <2>4. CASE runStatus'[g] = "none"
    <3>1. Stage(g)' = "indexed"
      BY <1>6, <2>4 DEF Stage, ActiveRun, RunStatuses
    <3> QED
      BY <1>1, <1>2, <2>2, <3>1, ContractMove, ContractGeneration DEF Promise!Index
  <2> QED
    BY <2>1, <2>3, <2>4, IndexMoves
<1>7. runStatus'[g] = runStatus[g] \/ (indexTask[g] = "review" /\ indexTask'[g] = "done")
  <2>1. runStatus' = runStatus \/ (indexTask[g] = "review" /\ indexTask'[g] = "done")
    BY IndexMoves
  <2> QED
    BY <2>1
<1> QED
  BY <1>4, <1>5, <1>6, <1>7, IndexMoves DEF Locking

LEMMA ReviewSteps ==
  ASSUME Columns, Transactions, Agreement, OneVoice, NEW g \in Gens, ReviewStep(g) \/ CrashReview(g)
  PROVE  [Promise!ContractNext]_(Promise!contractVars)
<1>1. \A f \in Gens \ {g} : Stage(f)' = Stage(f)
  BY ReviewMoves, SameStage
<1>2. CASE CompleteReview(g) /\ Completable(g)
  <2>1. /\ runStatus[g] = "processing" /\ runStatus'[g] = "completed"
        /\ completedRuns' = Credit /\ reconciled' = reconciled
    BY <1>2 DEF CompleteReview, Completable, Columns
  <2>2. Stage(g) \in {"reviewing"} /\ Stage(g)' = "completed"
    BY <2>1 DEF Stage, ActiveRun, RunStatuses
  <2> QED
    BY <1>1, <2>1, <2>2, ContractMove, ContractGeneration DEF Promise!Complete, Credit
<1>3. CASE FailReview(g)
  <2>1. /\ runStatus'[g] = "failed" /\ UNCHANGED <<completedRuns, reconciled>>
        /\ runStatus[g] \in {"pending", "processing", "failed", "superseded"}
    BY <1>3 DEF FailReview, Columns, Agreement, TasksAgree, RunStatuses, ActiveRun
  <2>2. CASE runStatus[g] = "failed"
    BY <1>1, <2>1, <2>2, ContractStutter DEF Stage, ActiveRun, RunStatuses
  <2>3. CASE runStatus[g] # "failed"
    <3>1. Stage(g) \in {"indexing", "reviewing", "superseded"} /\ Stage(g)' = "failed"
      BY <2>1, <2>3 DEF Stage, ActiveRun, RunStatuses
    <3> QED
      BY <1>1, <2>1, <3>1, ContractMove, ContractGeneration DEF Promise!Fail
  <2> QED
    BY <2>2, <2>3
<1>4. CASE HandOff(g)
  <2>1. Stage(g) = "completed" /\ Stage(g)' = Stage(g)
    BY <1>4, SameStage DEF HandOff, MoveReview, ReviewUnchanged, jobVars, Agreement, TasksAgree, Stage,
       ActiveRun, RunStatuses
  <2>2. reconciled' = reconciled \cup {g} /\ completedRuns' = completedRuns
    BY <1>4 DEF HandOff
  <2>3. Promise!Settle(g)
    BY <1>1, <2>1, <2>2 DEF Promise!Settle
  <2> QED
    BY <2>3, ContractGeneration
<1>5. CASE \/ SkipReview(g) \/ RetryReview(g) \/ ParseReview(g) \/ AddFindings(g) \/ CrashReview(g)
           \/ StartReview(g) \/ (CompleteReview(g) /\ ~Completable(g))
  <2>1. UNCHANGED <<completedRuns, reconciled, jobStatus>>
    BY <1>5 DEF SkipReview, RetryReview, ParseReview, AddFindings, CrashReview, StartReview,
       CompleteReview, ReviewUnchanged, jobVars
  <2>2. runStatus'[g] = runStatus[g] \/ (runStatus[g] \in ActiveRun /\ runStatus'[g] \in ActiveRun)
    <3>1. CASE StartReview(g)
      BY <3>1 DEF StartReview, Startable, ActiveRun, Columns
    <3>2. CASE CompleteReview(g) /\ ~Completable(g)
      <4>1. runStatus' = [runStatus EXCEPT ![g] = IF Completable(g) THEN "completed" ELSE runStatus[g]]
        BY <3>2 DEF CompleteReview
      <4> QED
        BY <3>2, <4>1 DEF Columns
    <3> QED
      BY <1>5, <3>1, <3>2 DEF SkipReview, RetryReview, ParseReview, AddFindings, CrashReview
  <2>3. Stage(g)' = Stage(g)
    BY <2>1, <2>2, SameStage DEF Stage
  <2> QED
    BY <1>1, <2>1, <2>3, ContractStutter
<1> QED
  BY <1>2, <1>3, <1>4, <1>5, Zenon DEF ReviewStep

LEMMA RequestSteps ==
  ASSUME Columns, Transactions, Agreement, OneVoice, CommitRequest
  PROVE  [Promise!ContractNext]_(Promise!contractVars)
<1>1. PICK r \in Gens : r = api.gen /\ Unstarted(r)
  BY CommitRequestMoves
<1>2. UNCHANGED <<completedRuns, reconciled>> /\ \A f \in Gens \ {r} : Stage(f)' = Stage(f)
  BY <1>1, CommitRequestMoves, SameStage
<1>3. Stage(r) = "none"
  BY <1>1 DEF Unstarted, Stage, ActiveRun, RunStatuses
<1>4. CASE jobStatus'[r] = "pending" /\ runStatus'[r] = "none"
  <2>1. Stage(r)' = "indexing"
    BY <1>4 DEF Stage, ActiveRun, RunStatuses
  <2> QED
    BY <1>2, <1>3, <2>1, ContractStart
<1>5. CASE runStatus'[r] = "pending"
  <2>1. Stage(r)' = "reviewing"
    BY <1>5 DEF Stage, ActiveRun
  <2> QED
    BY <1>2, <1>3, <2>1, ContractMove, ContractGeneration DEF Promise!Review
<1> QED
  BY <1>1, <1>4, <1>5, CommitRequestMoves

\* The system keeps its contract, for every number of deliveries, transactions,
\* generations, retries and crashes: whatever the webhooks, the workers and the
\* endpoints interleave, their committed rows go through the steps of
\* ReviewContract and no others.
THEOREM KeepsContract == Spec => KeepsPromise
<1>1. Init => Promise!ContractInit /\ OneVoice
  <2> SUFFICES ASSUME Init PROVE Promise!ContractInit /\ OneVoice
    OBVIOUS
  <2>1. \A g \in Gens : Stage(g) = "none"
    BY DEF Init, Stage, ActiveRun, RunStatuses
  <2> QED
    BY <2>1 DEF Init, Promise!ContractInit, OneVoice
<1>2. IInv => TypeOK /\ Agreement
  BY DEF IInv, ClaimsHold, Agreement
<1>3. IInv /\ OneVoice /\ [Next]_vars => OneVoice'
  BY <1>2, NextOneVoice
<1>4. IInv /\ OneVoice /\ [Next]_vars => [Promise!ContractNext]_(Promise!contractVars)
  <2> SUFFICES ASSUME IInv, OneVoice, [Next]_vars
               PROVE  [Promise!ContractNext]_(Promise!contractVars)
    OBVIOUS
  <2>1. Columns /\ Transactions /\ Agreement
    BY <1>2, TypesOfColumns, TypesOfTransactions
  <2>2. CASE UNCHANGED <<jobStatus, runStatus, completedRuns, reconciled>>
    BY <2>2, SameStage, ContractStutter
  <2>3. ASSUME NEW h \in Hooks, HookStep(h) \/ AbortHook(h)
        PROVE  [Promise!ContractNext]_(Promise!contractVars)
    BY <2>1, <2>2, <2>3, CommitSteps DEF HookStep, SupersedeRuns, SupersedeJobs, CheckInProgress,
       AbortHook, jobVars, runVars
  <2>4. ASSUME NEW s \in Shas, RequestIndex(s) \/ RequestReview(s)
        PROVE  [Promise!ContractNext]_(Promise!contractVars)
    BY <2>2, <2>4 DEF RequestIndex, RequestReview, Requests, jobVars, runVars
  <2>5. UNCHANGED vars => UNCHANGED <<jobStatus, runStatus, completedRuns, reconciled>>
    BY DEF vars, jobVars, runVars
  <2> QED
    BY <2>1, <2>2, <2>3, <2>4, <2>5, DeliverySteps, IndexSteps, ReviewSteps, RequestSteps
       DEF Next, Wait
<1> QED
  BY <1>1, <1>3, <1>4, InductiveInvariant, PTL DEF Spec, KeepsPromise, Promise!Contract

=============================================================================
