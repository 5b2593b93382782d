-------------------------- MODULE PublishJob_proofs --------------------------
(***************************************************************************)
(* What is proved of the publish jobs, for any number of runs, requests,   *)
(* retries and faults.                                                     *)
(*                                                                         *)
(* Shaped: the variables have their types, and the slots of jobs and tasks *)
(* suffice, since every run and every request takes one of each at most.   *)
(* A lemma per action (LoadFacts, FlushFacts, ...) says what it changes,   *)
(* and StepCases, WorksKeep and WorksAlter what a step may do to tasks,    *)
(* inline comments and the objects on GitHub; the invariants PostsInv,     *)
(* Known and HiddenInv are proved from these and not from the actions.     *)
(***************************************************************************)
EXTENDS PublishJob, SequenceTheorems, FiniteSetTheorems, WellFoundedInduction, TLAPS

-----------------------------------------------------------------------------
(* Types.                                                                  *)

TaskFields == {"job", "pc", "left", "locks", "row", "base", "kept", "other", "posting", "todo",
               "recovered", "wrote"}

\* A task; its session never changes the run of the row.
IsTask(x) ==
    /\ DOMAIN x = TaskFields
    /\ x.job \in Nat /\ x.pc \in PcOfTask /\ x.left \in Nat /\ x.locks \in BOOLEAN
    /\ x.row \in JobRow /\ x.base \in JobRow /\ x.row.run = x.base.run
    /\ x.kept \subseteq Findings /\ x.other \in Nat /\ x.posting \in BOOLEAN /\ x.todo \subseteq Findings
    /\ x.recovered \subseteq Findings /\ x.wrote \subseteq Nat

InlineComments == [job : Slots, finding : Findings, live : BOOLEAN]

\* What the arguments need of the types.
Typed ==
    /\ runSha \in [Runs -> Shas \cup {NoSha}]
    /\ runFindings \in [Runs -> SUBSET Findings]
    /\ pipelineCheck \in [Runs -> Nat]
    /\ resolver \in [Runs -> {"none", "queued", "done"}]
    /\ job \in [Slots -> JobRow]
    /\ DOMAIN task = Slots /\ \A t \in Slots : IsTask(task[t])
    /\ created \in Nat /\ dispatched \in Nat
    /\ checks \in Seq(Surface) /\ comments \in Seq(Surface) /\ inline \in Seq(InlineComments)
    /\ api \in Runs \cup {0} /\ requests \in 0 .. MaxRequests /\ faults \in Nat

DoneRuns == {r \in Runs : resolver[r] = "done"}

Pending == IF api = 0 THEN 0 ELSE 1

\* Every resolver and every request creates one job and hands out one task at most.
Counted ==
    /\ \A r \in Runs : runSha[r] = NoSha => resolver[r] = "none"
    /\ created + Pending <= Cardinality(DoneRuns) + requests
    /\ dispatched + Pending <= Cardinality(DoneRuns) + requests

\* Jobs and tasks are handed out from the first slot on.
InSlots ==
    /\ \A j \in Slots : j <= created => job[j].run \in Runs
    /\ \A t \in Slots : task[t].job <= created
    /\ \A t \in Slots : task[t].pc # "none" => task[t].job # 0
    /\ \A t \in Slots : task[t].job # 0 => t <= dispatched

Shaped == Typed /\ Counted /\ InSlots

\* The slot after the last one is there while a resolver or a request is at work.
LEMMA CountFacts ==
    ASSUME Shaped
    PROVE  /\ Cardinality(Runs) \in Nat /\ MaxRequests \in Nat
           /\ Cardinality(DoneRuns) \in Nat /\ IsFiniteSet(DoneRuns)
           /\ Cardinality(DoneRuns) <= Cardinality(Runs)
           /\ DoneRuns # Runs => Cardinality(DoneRuns) < Cardinality(Runs)
           /\ 0 \notin Slots
           /\ created \in Nat /\ \A j \in 1 .. created : j \in Slots
<1>1. IsFiniteSet(Runs) /\ Cardinality(Runs) \in Nat /\ MaxRequests \in Nat
    BY PublishAssumption, FS_CardinalityType
<1>2. IsFiniteSet(DoneRuns) /\ Cardinality(DoneRuns) <= Cardinality(Runs)
    BY <1>1, FS_Subset, DoneRuns \subseteq Runs DEF DoneRuns
<1>3. Cardinality(DoneRuns) \in Nat
    BY <1>2, FS_CardinalityType
<1>4. DoneRuns # Runs => Cardinality(DoneRuns) < Cardinality(Runs)
    <2>1. DoneRuns # Runs => Cardinality(DoneRuns) # Cardinality(Runs)
        BY <1>1, FS_Subset, DoneRuns \subseteq Runs DEF DoneRuns
    <2> QED BY <1>1, <1>2, <1>3, <2>1
<1>5. created <= Cardinality(Runs) + MaxRequests /\ created \in Nat
    <2>1. created \in Nat /\ requests \in 0 .. MaxRequests /\ Pending \in {0, 1}
        BY DEF Shaped, Typed, Pending
    <2>2. created + Pending <= Cardinality(DoneRuns) + requests
        BY DEF Shaped, Counted
    <2> QED BY <1>1, <1>2, <1>3, <2>1, <2>2
<1> QED BY <1>1, <1>2, <1>3, <1>4, <1>5 DEF Slots

-----------------------------------------------------------------------------
(* What the steps of a task do.                                            *)

\* A task moves: it and the row of its job change, and nothing else here.
TaskMoves(t) ==
    LET j == task[t].job
    IN  /\ task[t].pc # "none" /\ j \in Jobs /\ j \in Slots
        /\ DOMAIN task' = Slots /\ \A u \in Slots \ {t} : task'[u] = task[u]
        /\ IsTask(task'[t]) /\ task'[t].job = j
        /\ job' \in [Slots -> JobRow] /\ \A k \in Slots \ {j} : job'[k] = job[k]
        /\ job'[j].run = job[j].run
        /\ UNCHANGED Others

\* A task at work has a job.
LEMMA HasJob ==
    ASSUME Shaped, NEW t \in Slots, task[t].pc # "none"
    PROVE  /\ task[t].job \in Jobs /\ task[t].job \in Slots /\ IsTask(task[t]) /\ DOMAIN task = Slots
           /\ job \in [Slots -> JobRow] /\ job[task[t].job].run \in Runs
           /\ task[t].job \in DOMAIN job
<1>1. task[t].job \in Nat /\ task[t].job # 0 /\ task[t].job <= created /\ created \in Nat
    BY DEF Shaped, Typed, InSlots, IsTask
<1>2. task[t].job \in 1 .. created
    BY <1>1
<1>3. task[t].job \in Slots
    BY <1>2, CountFacts
<1> QED BY <1>1, <1>2, <1>3 DEF Shaped, Typed, InSlots, Jobs

\* The other fields of the task are as they were.
Keeps(t, changed) == \A f \in TaskFields \ changed : task'[t][f] = task[t][f]

\* A step that leaves the rows alone.
LEMMA MovesAlone ==
    ASSUME Shaped, NEW t \in Slots, task[t].pc # "none", UNCHANGED <<Others, job>>,
           DOMAIN task' = Slots, \A u \in Slots \ {t} : task'[u] = task[u],
           IsTask(task'[t]), task'[t].job = task[t].job
    PROVE  TaskMoves(t)
BY HasJob DEF TaskMoves

LEMMA GoesFacts ==
    ASSUME Shaped, NEW t \in Slots, task[t].pc # "none", NEW pc \in PcOfTask, Goes(t, pc), UNCHANGED <<Others, job>>
    PROVE  /\ TaskMoves(t)
           /\ task'[t].pc = pc /\ Keeps(t, {"pc"})
<1>1. IsTask(task[t]) /\ DOMAIN task = Slots
    BY HasJob
<1>2. /\ DOMAIN task' = Slots /\ \A u \in Slots \ {t} : task'[u] = task[u]
      /\ DOMAIN task'[t] = TaskFields
      /\ task'[t].pc = pc /\ Keeps(t, {"pc"})
    BY <1>1 DEF Goes, IsTask, Keeps
<1>3. IsTask(task'[t]) /\ task'[t].job = task[t].job
    BY <1>1, <1>2 DEF IsTask, TaskFields, Keeps
<1> QED BY <1>2, <1>3, MovesAlone

\* The latest of some jobs is one of them.
LEMMA LatestIn ==
    ASSUME created \in Nat, NEW S \in SUBSET Jobs, S # {}
    PROVE  Latest(S) \in S
<1> DEFINE U == {n \in Nat : \A k \in S : k <= n}
<1>1. \A k \in S : k \in Nat /\ k >= 1 /\ k <= created
    BY DEF Jobs
<1>2. created \in U
    BY <1>1
<1>3. PICK n \in U : \A m \in U : ~ (<<m, n>> \in OpToRel(<, Nat))
    BY <1>2, WFMin, NatLessThanWellFounded, U \subseteq Nat
<1>4. \A m \in U : ~ (m < n)
    BY <1>3 DEF OpToRel
<1>5. n \in S
    <2>1. SUFFICES ASSUME n \notin S PROVE FALSE
        OBVIOUS
    <2>2. n \in Nat /\ n # 0
        BY <1>1
    <2>3. \A k \in S : k <= n - 1
        BY <1>1, <2>1, <2>2
    <2>4. n - 1 \in U
        BY <2>2, <2>3
    <2> QED BY <1>4, <2>2, <2>4
<1> QED BY <1>5 DEF Latest

\* What other jobs have written is of the types of a row.
LEMMA OthersFacts ==
    ASSUME Shaped, NEW j \in Jobs
    PROVE  /\ OtherCheck(j) \in JobRow /\ PriorComment(j) \in Nat /\ PriorThreads \subseteq Findings
           /\ OtherCheck(j).check # 0 => \E k \in Jobs : OtherCheck(j).check = job[k].check
           /\ PriorComment(j) # 0 => \E k \in Jobs : PriorComment(j) = job[k].comment
<1>1. created \in Nat /\ \A k \in Jobs : job[k] \in JobRow
    BY CountFacts DEF Jobs, Shaped, Typed
<1>2. NoJob \in JobRow /\ NoJob.check = 0
    BY DEF NoJob, JobRow
<1>3. OtherCheck(j) \in JobRow /\ (OtherCheck(j).check # 0 => \E k \in Jobs : OtherCheck(j).check = job[k].check)
    <2> DEFINE S == {k \in Reusable : Sha(k) = Sha(j) /\ job[k].check # 0}
    <2>1. S \in SUBSET Jobs
        BY DEF Reusable
    <2>2. S # {} => Latest(S) \in Jobs
        BY <1>1, <2>1, LatestIn
    <2>3. OtherCheck(j) = IF S = {} \/ Latest(S) = j THEN NoJob ELSE job[Latest(S)]
        BY DEF OtherCheck
    <2> HIDE DEF S
    <2> QED BY <1>1, <1>2, <2>2, <2>3
<1>4. PriorComment(j) \in Nat /\ (PriorComment(j) # 0 => \E k \in Jobs : PriorComment(j) = job[k].comment)
    <2> DEFINE S == {k \in Reusable \ {j} : job[k].comment # 0}
    <2>1. S \in SUBSET Jobs
        BY DEF Reusable
    <2>2. S # {} => Latest(S) \in Jobs
        BY <1>1, <2>1, LatestIn
    <2>3. PriorComment(j) = IF S = {} THEN 0 ELSE job[Latest(S)].comment
        BY DEF PriorComment
    <2> HIDE DEF S
    <2> QED BY <1>1, <2>2, <2>3 DEF JobRow
<1>5. PriorThreads \subseteq Findings
    BY <1>1 DEF PriorThreads, JobRow
<1> QED BY <1>3, <1>4, <1>5

LEMMA LoadFacts ==
    ASSUME Shaped, NEW t \in Slots, Load(t)
    PROVE  /\ TaskMoves(t) /\ UNCHANGED <<job, gitHub, faults>> /\ Keeps(t, {"row", "base", "pc"})
           /\ task'[t].row = job[task[t].job] /\ task'[t].base = job[task[t].job]
           /\ task[t].pc = "queued" /\ task'[t].pc \in {"done", "skip", "claim", "build"}
           /\ task'[t].pc = "done" <=> job[task[t].job].status \in Terminal
<1> DEFINE v == job[task[t].job]
           to == IF v.status \in Terminal THEN "done"
                 ELSE IF ~IsHead(task[t].job) THEN "skip"
                 ELSE IF v.status = "pending" THEN "claim" ELSE "build"
<1>1. task[t].pc = "queued" /\ UNCHANGED <<Others, job, gitHub, faults>>
    BY DEF Load, At
<1>2. IsTask(task[t]) /\ DOMAIN task = Slots /\ task[t].job \in Jobs /\ job[task[t].job] \in JobRow /\ job[task[t].job].run \in Runs
    BY <1>1, HasJob DEF Jobs
<1>3. to \in {"done", "skip", "claim", "build"} /\ (to = "done" <=> v.status \in Terminal) /\ v \in JobRow
    BY <1>2
<1>4. task' = [task EXCEPT ![t].row = v, ![t].base = v, ![t].pc = to]
    BY DEF Load, At
<1> HIDE DEF v, to
<1>5. /\ DOMAIN task' = Slots /\ \A u \in Slots \ {t} : task'[u] = task[u]
      /\ DOMAIN task'[t] = TaskFields
      /\ task'[t].row = v
      /\ task'[t].base = v
      /\ task'[t].pc = to
      /\ Keeps(t, {"row", "base", "pc"})
    BY <1>2, <1>4 DEF IsTask, TaskFields, Keeps
<1>6. IsTask(task'[t]) /\ task'[t].job = task[t].job
    BY <1>2, <1>3, <1>5 DEF IsTask, TaskFields, Keeps, PcOfTask
<1>7. TaskMoves(t)
    BY <1>1, <1>5, <1>6, MovesAlone
<1> QED BY <1>1, <1>3, <1>5, <1>7 DEF v, to

LEMMA ClaimFacts ==
    ASSUME Shaped, NEW t \in Slots, Claim(t)
    PROVE  /\ TaskMoves(t) /\ UNCHANGED <<job, gitHub, faults>> /\ Keeps(t, {"row", "locks", "pc"})
           /\ task'[t].row = [task[t].row EXCEPT !.status = "processing"]
           /\ task[t].pc = "claim" /\ task'[t].pc = "build"
<1> DEFINE v == [task[t].row EXCEPT !.status = "processing"]
<1>1. task[t].pc = "claim" /\ UNCHANGED <<Others, job, gitHub, faults>>
    BY DEF Claim, At
<1>2. IsTask(task[t]) /\ DOMAIN task = Slots /\ task[t].job \in Jobs /\ job[task[t].job] \in JobRow /\ job[task[t].job].run \in Runs
    BY <1>1, HasJob DEF Jobs
<1>3. v \in JobRow /\ v.run = task[t].row.run
    BY <1>2 DEF IsTask, JobRow, Open
<1>4. task' = [task EXCEPT ![t].row = v, ![t].locks = TRUE, ![t].pc = "build"]
    BY DEF Claim, At
<1> HIDE DEF v
<1>5. /\ DOMAIN task' = Slots /\ \A u \in Slots \ {t} : task'[u] = task[u]
      /\ DOMAIN task'[t] = TaskFields
      /\ task'[t].row = v
      /\ task'[t].locks = TRUE
      /\ task'[t].pc = "build"
      /\ Keeps(t, {"row", "locks", "pc"})
    BY <1>2, <1>4 DEF IsTask, TaskFields, Keeps
<1>6. IsTask(task'[t]) /\ task'[t].job = task[t].job
    BY <1>2, <1>3, <1>5 DEF IsTask, TaskFields, Keeps, PcOfTask
<1>7. TaskMoves(t)
    BY <1>1, <1>5, <1>6, MovesAlone
<1> QED BY <1>1, <1>3, <1>5, <1>7 DEF v

LEMMA BuildFacts ==
    ASSUME Shaped, NEW t \in Slots, Build(t)
    PROVE  /\ TaskMoves(t) /\ UNCHANGED <<job, gitHub, faults>>
           /\ Keeps(t, {"pc", "row", "kept", "other", "posting", "todo"})
           /\ task'[t].row.status = task[t].row.status /\ task'[t].kept = task[t].row.threads
           /\ task'[t].todo \cap task[t].row.threads = {}
           /\ task'[t].row.check = task[t].row.check /\ task'[t].row.comment \in {task[t].row.comment, PriorComment(task[t].job)}
           /\ task'[t].other \in {0, OtherCheck(task[t].job).check}
           /\ task[t].pc = "build" /\ task'[t].pc = "flush"
<1> DEFINE row == task[t].row
           other == OtherCheck(task[t].job)
           takesOver == row.check = 0 /\ other.check # 0
           post == ~row.posted /\ (takesOver => ~other.posted)
           says == IF row.comment = 0 THEN PriorComment(task[t].job) ELSE row.comment
           v == [row EXCEPT !.comment = says, !.threads = PriorThreads]
           check == IF takesOver THEN other.check ELSE 0
           left == IF post THEN NotYetPosted(t) ELSE {}
<1>1. task[t].pc = "build" /\ UNCHANGED <<Others, job, gitHub, faults>>
    BY DEF Build, At
<1>2. IsTask(task[t]) /\ DOMAIN task = Slots /\ task[t].job \in Jobs /\ job[task[t].job] \in JobRow /\ job[task[t].job].run \in Runs
    BY <1>1, HasJob DEF Jobs
<1>3. /\ row \in JobRow /\ row.threads \subseteq Findings /\ check \in Nat /\ post \in BOOLEAN /\ v.run = row.run /\ row.run = task[t].base.run
      /\ v \in JobRow /\ v.status = row.status /\ left \subseteq Findings /\ left \cap row.threads = {}
      /\ v.check = row.check /\ v.comment \in {row.comment, PriorComment(task[t].job)} /\ check \in {0, other.check}
    <2>1. row \in JobRow /\ row.run = task[t].base.run
        BY <1>2 DEF IsTask
    <2>2. other \in JobRow /\ PriorComment(task[t].job) \in Nat /\ PriorThreads \subseteq Findings
        BY <1>2, OthersFacts
    <2>3. says \in Nat
        BY <2>1, <2>2 DEF JobRow
    <2>4. v \in JobRow /\ v.run = row.run /\ v.status = row.status /\ v.check = row.check /\ v.comment = says
        BY <2>1, <2>2, <2>3 DEF JobRow
    <2>5. check \in Nat
        BY <2>2 DEF JobRow
    <2>6. left \subseteq AllFindings(t) \ row.threads
        BY DEF NotYetPosted
    <2>7. AllFindings(t) \subseteq Findings
        BY <1>2 DEF AllFindings, Shaped, Typed
    <2>8. post \in BOOLEAN
        OBVIOUS
    <2>9. row.threads \subseteq Findings
        BY <2>1 DEF JobRow
    <2> QED BY <2>1, <2>4, <2>5, <2>6, <2>7, <2>8, <2>9
<1>4. task' = [task EXCEPT ![t].pc = "flush", ![t].row = v, ![t].kept = row.threads, ![t].other = check, ![t].posting = post, ![t].todo = left]
    <2>1. task' = [[task EXCEPT ![t].pc = "flush", ![t].row.comment = says, ![t].row.threads = PriorThreads]
            EXCEPT ![t].kept = row.threads, ![t].other = check, ![t].posting = post, ![t].todo = left]
        BY <1>2 DEF Build, IsTask
    <2>2. [task EXCEPT ![t].pc = "flush", ![t].row.comment = says, ![t].row.threads = PriorThreads]
          = [task EXCEPT ![t].pc = "flush", ![t].row = v]
        BY <1>2 DEF IsTask, TaskFields, JobRow
    <2> QED BY <2>1, <2>2
<1> HIDE DEF row, other, takesOver, post, says, v, check, left
<1>5. /\ DOMAIN task' = Slots /\ \A u \in Slots \ {t} : task'[u] = task[u]
      /\ DOMAIN task'[t] = TaskFields
      /\ task'[t].pc = "flush"
      /\ task'[t].row = v
      /\ task'[t].kept = row.threads
      /\ task'[t].other = check
      /\ task'[t].posting = post
      /\ task'[t].todo = left
      /\ Keeps(t, {"pc", "row", "kept", "other", "posting", "todo"})
    BY <1>2, <1>4 DEF IsTask, TaskFields, Keeps
<1>6. IsTask(task'[t]) /\ task'[t].job = task[t].job
    BY <1>2, <1>3, <1>5 DEF IsTask, TaskFields, Keeps, PcOfTask
<1>7. TaskMoves(t)
    BY <1>1, <1>5, <1>6, MovesAlone
<1> QED BY <1>1, <1>3, <1>5, <1>7 DEF row, other, takesOver, post, says, v, check, left
-----------------------------------------------------------------------------
(* What is shown on GitHub.                                                *)

\* The objects show what they showed, but the one with this identifier.
Shows(old, new, id, what) ==
    /\ new \in Seq(Surface) /\ Len(old) <= Len(new)
    /\ \A i \in DOMAIN new : IF i = id THEN new[i] = what ELSE i \in DOMAIN old /\ new[i] = old[i]

LEMMA SaysShows ==
    ASSUME NEW old \in Seq(Surface), NEW id \in Nat, NEW what \in Surface
    PROVE  Shows(old, Says(old, id, what), id, what)
<1>1. CASE id = 0
    <2>1. Says(old, id, what) = old
        BY <1>1 DEF Says
    <2>2. \A i \in DOMAIN old : i # 0
        OBVIOUS
    <2> QED BY <1>1, <2>1, <2>2 DEF Shows
<1>2. CASE id # 0
    <2> DEFINE new == [old EXCEPT ![id] = what]
    <2>1. Says(old, id, what) = new
        BY <1>2 DEF Says
    <2>2. DOMAIN old = 1 .. Len(old) /\ Len(old) \in Nat
        OBVIOUS
    <2>3. DOMAIN new = 1 .. Len(old) /\ \A i \in 1 .. Len(old) : new[i] \in Surface
        BY <2>2, ElementOfSeq
    <2>4. new \in Seq(Surface) /\ Len(new) = Len(old)
        <3>1. new \in [1 .. Len(old) -> Surface]
            BY <2>2, <2>3
        <3>2. new \in Seq(Surface)
            BY <2>2, <3>1, SeqDef
        <3> QED BY <2>2, <2>3, <3>2, LenProperties
    <2> QED BY <2>1, <2>2, <2>3, <2>4 DEF Shows
<1> QED BY <1>1, <1>2

LEMMA AppendShows ==
    ASSUME NEW old \in Seq(Surface), NEW what \in Surface
    PROVE  Shows(old, Append(old, what), Len(old) + 1, what)
BY AppendProperties DEF Shows

LEMMA TextTypes ==
    /\ Superseded \in Surface /\ Failure \in Surface /\ Progress \in Surface
    /\ Superseded.run = 0 /\ Failure.run = 0 /\ Progress.run = 0
BY DEF Surface, Texts, Superseded, Failure, Progress

LEMMA SurfaceTypes ==
    ASSUME Shaped, NEW t \in Slots, task[t].pc # "none"
    PROVE  /\ Shown(t) \in Surface /\ Shown(t).run = job[task[t].job].run
           /\ Superseded \in Surface /\ Failure \in Surface /\ Progress \in Surface
           /\ Superseded.run = 0 /\ Failure.run = 0 /\ Progress.run = 0
           /\ job[task[t].job].run \in Runs /\ pipelineCheck[job[task[t].job].run] \in Nat
           /\ task[t].row.check \in Nat /\ task[t].row.comment \in Nat
<1>1. job[task[t].job].run \in Runs /\ task[t].recovered \subseteq Findings /\ task[t].row \in JobRow
    BY HasJob DEF IsTask
<1> QED BY <1>1 DEF Shown, Result, Surface, Texts, Superseded, Failure, Progress, JobRow, Shaped, Typed

-----------------------------------------------------------------------------
(* What the steps of a task do, continued.                                 *)

\* The session of the task is gone.
Anew(t) == task'[t].pc \in {"queued", "failing"} /\ task'[t].row = NoJob /\ task'[t].other = 0

LEMMA TriedAgainFacts ==
    ASSUME Shaped, NEW t \in Slots, task[t].pc # "none", TriedAgain(t), UNCHANGED <<Others, job>>
    PROVE  TaskMoves(t) /\ Anew(t)
<1> DEFINE x == task[t]
           to == IF x.left > 0 THEN "queued" ELSE "failing"
           left == IF x.left > 0 THEN x.left - 1 ELSE 0
           y == [NoTask EXCEPT !.job = x.job, !.pc = to, !.left = left]
<1>1. IsTask(x) /\ DOMAIN task = Slots
    BY HasJob
<1>2. to \in {"queued", "failing"} /\ left \in Nat /\ x.job \in Nat
    BY <1>1 DEF IsTask
<1>3. task' = [task EXCEPT ![t] = y]
    BY DEF TriedAgain
<1>4. NoJob \in JobRow
    BY DEF NoJob, JobRow
<1> HIDE DEF to, left, x
<1>5. DOMAIN y = TaskFields /\ y.job = x.job /\ y.pc = to /\ y.left = left
    BY DEF NoTask, TaskFields
<1>6. y.locks = FALSE /\ y.row = NoJob /\ y.base = NoJob /\ y.kept = {} /\ y.other = 0 /\ y.posting = FALSE /\ y.todo = {}
      /\ y.recovered = {} /\ y.wrote = {}
    BY DEF NoTask
<1> HIDE DEF y
<1>7. IsTask(y)
    <2>1. y.job \in Nat /\ y.pc \in PcOfTask /\ y.left \in Nat /\ y.locks \in BOOLEAN
        BY <1>2, <1>5, <1>6 DEF PcOfTask
    <2>2. y.row \in JobRow /\ y.base \in JobRow /\ y.row.run = y.base.run
        BY <1>4, <1>6
    <2>3. y.kept \subseteq Findings /\ y.todo \subseteq Findings /\ y.recovered \subseteq Findings /\ y.wrote \subseteq Nat
        BY <1>6
    <2>4. y.other \in Nat
        BY <1>6
    <2>5. y.posting \in BOOLEAN
        BY <1>6, Zenon
    <2> HIDE DEF x
    <2> QED BY <1>5, <2>1, <2>2, <2>3, <2>4, <2>5 DEF IsTask
<1>8. DOMAIN task' = Slots /\ task'[t] = y /\ \A u \in Slots \ {t} : task'[u] = task[u]
    BY <1>1, <1>3
<1>9. TaskMoves(t)
    BY <1>5, <1>7, <1>8, MovesAlone DEF x
<1> QED BY <1>2, <1>5, <1>6, <1>8, <1>9 DEF Anew

JobFields == {"run", "status", "check", "comment", "threads", "posted"}

LEMMA CommitFacts ==
    ASSUME Shaped, NEW t \in Slots, task[t].pc # "none", NEW row \in JobRow, row.run = task[t].row.run,
           NEW pc \in PcOfTask, Commit(t, row, pc), UNCHANGED Others
    PROVE  /\ TaskMoves(t) /\ Keeps(t, {"row", "base", "locks", "pc"})
           /\ task'[t].row = row /\ task'[t].base = row /\ task'[t].pc = pc
           /\ \A f \in JobFields :
                job'[task[t].job][f] = IF row[f] # task[t].base[f] THEN row[f] ELSE job[task[t].job][f]
<1> DEFINE j == task[t].job
           w == Written(t, row)
<1>1. IsTask(task[t]) /\ DOMAIN task = Slots /\ j \in Jobs /\ j \in Slots /\ job \in [Slots -> JobRow]
    BY HasJob
<1>2. /\ DOMAIN row = JobFields /\ w = [f \in JobFields |-> IF row[f] # task[t].base[f] THEN row[f] ELSE job[j][f]]
    BY DEF Written, JobRow, JobFields
<1>3. job[j] \in JobRow /\ task[t].base \in JobRow /\ row.run = task[t].base.run
    BY <1>1 DEF IsTask
<1>4. w \in JobRow /\ w.run = job[j].run
    <2> HIDE DEF w
    <2>1. /\ w.run = job[j].run
          /\ w.run \in Runs \cup {0} /\ w.status \in {"none"} \cup Open \cup Terminal
        BY <1>2, <1>3 DEF JobFields, JobRow
    <2>2. w.check \in Nat /\ w.comment \in Nat /\ w.threads \in SUBSET Findings /\ w.posted \in BOOLEAN
        BY <1>2, <1>3 DEF JobFields, JobRow
    <2>3. w = [run |-> w.run, status |-> w.status, check |-> w.check, comment |-> w.comment,
               threads |-> w.threads, posted |-> w.posted]
        BY <1>2 DEF JobFields
    <2> QED BY <2>1, <2>2, <2>3 DEF JobRow
<1>5. job' = [job EXCEPT ![j] = w]
    BY DEF Commit
<1>6. task' = [task EXCEPT ![t].row = row, ![t].base = row, ![t].locks = FALSE, ![t].pc = pc]
    BY DEF Commit
<1> HIDE DEF w
<1>7. /\ DOMAIN task' = Slots /\ \A u \in Slots \ {t} : task'[u] = task[u]
      /\ DOMAIN task'[t] = TaskFields
      /\ task'[t].row = row /\ task'[t].base = row /\ task'[t].locks = FALSE /\ task'[t].pc = pc
      /\ Keeps(t, {"row", "base", "locks", "pc"})
    BY <1>1, <1>6 DEF IsTask, TaskFields, Keeps
<1>8. IsTask(task'[t]) /\ task'[t].job = j
    BY <1>1, <1>7 DEF IsTask, TaskFields, Keeps
<1>9. /\ job' \in [Slots -> JobRow] /\ \A k \in Slots \ {j} : job'[k] = job[k]
      /\ job'[j] = w
    BY <1>1, <1>4, <1>5
<1>10. TaskMoves(t)
    BY <1>1, <1>4, <1>7, <1>8, <1>9 DEF TaskMoves
<1> QED BY <1>2, <1>7, <1>9, <1>10
LEMMA FlushGoesOn ==
    ASSUME Shaped, NEW t \in Slots, Flush(t), IsHead(task[t].job)
    PROVE  /\ TaskMoves(t) /\ UNCHANGED <<job, gitHub, faults>> /\ Keeps(t, {"row", "pc"})
           /\ task[t].pc = "flush" /\ task'[t].pc = "check"
           /\ task'[t].row.threads = task[t].row.threads \cup task[t].kept
           /\ task'[t].row.status = task[t].row.status /\ task'[t].row.comment = task[t].row.comment
           /\ task'[t].row.check \in {task[t].row.check, task[t].other}
<1> DEFINE row == task[t].row
           all == row.threads \cup task[t].kept
           check == IF row.check = 0 THEN task[t].other ELSE row.check
           v == [row EXCEPT !.threads = all, !.check = check]
<1>1. task[t].pc = "flush" /\ UNCHANGED <<Others, job, gitHub, faults>>
    BY DEF Flush, At
<1>2. IsTask(task[t]) /\ DOMAIN task = Slots /\ task[t].job \in Jobs /\ job[task[t].job] \in JobRow /\ job[task[t].job].run \in Runs
    BY <1>1, HasJob DEF Jobs
<1>3. v \in JobRow /\ v.run = row.run /\ row.run = task[t].base.run /\ v.threads = all /\ v.status = row.status
      /\ v.comment = row.comment /\ v.check \in {row.check, task[t].other}
    BY <1>2 DEF IsTask, JobRow
<1>4. task' = [task EXCEPT ![t].row = v, ![t].pc = "check"]
    <2>1. task' = [task EXCEPT ![t].pc = "check", ![t].row.threads = all, ![t].row.check = check]
        BY <1>2 DEF Flush, IsTask, TaskFields, JobRow
    <2>2. [task EXCEPT ![t].pc = "check", ![t].row.threads = all, ![t].row.check = check]
          = [task EXCEPT ![t].row = v, ![t].pc = "check"]
        BY <1>2 DEF IsTask, TaskFields, JobRow
    <2> QED BY <2>1, <2>2
<1> HIDE DEF row, all, check, v
<1>5. /\ DOMAIN task' = Slots /\ \A u \in Slots \ {t} : task'[u] = task[u]
      /\ DOMAIN task'[t] = TaskFields
      /\ task'[t].row = v
      /\ task'[t].pc = "check"
      /\ Keeps(t, {"row", "pc"})
    BY <1>2, <1>4 DEF IsTask, TaskFields, Keeps
<1>6. IsTask(task'[t]) /\ task'[t].job = task[t].job
    BY <1>2, <1>3, <1>5 DEF IsTask, TaskFields, Keeps, PcOfTask
<1>7. TaskMoves(t)
    BY <1>1, <1>5, <1>6, MovesAlone
<1> QED BY <1>1, <1>3, <1>5, <1>7 DEF row, all, check, v

LEMMA FlushFacts ==
    ASSUME Shaped, NEW t \in Slots, Flush(t)
    PROVE  /\ TaskMoves(t) /\ UNCHANGED <<job, gitHub, faults>> /\ Keeps(t, {"row", "pc"})
           /\ task[t].pc = "flush" /\ task'[t].pc \in {"check", "skip"}
           /\ task'[t].pc = "check" => task'[t].row.threads = task[t].row.threads \cup task[t].kept
           /\ task'[t].row.status = task[t].row.status /\ task'[t].row.comment = task[t].row.comment
           /\ task'[t].row.check \in {task[t].row.check, task[t].other}
<1>1. CASE IsHead(task[t].job)
    BY <1>1, FlushGoesOn
<1>2. CASE ~ IsHead(task[t].job)
    <2>1. task[t].pc = "flush" /\ Goes(t, "skip") /\ UNCHANGED <<Others, job, gitHub, faults>>
        BY <1>2 DEF Flush, At
    <2>2. TaskMoves(t) /\ task'[t].pc = "skip" /\ Keeps(t, {"pc"})
        BY <2>1, GoesFacts DEF PcOfTask
    <2> QED BY <2>1, <2>2 DEF Keeps, TaskFields
<1> QED BY <1>1, <1>2

LEMMA AuthorityFacts ==
    ASSUME Shaped, NEW t \in Slots, Authority(t)
    PROVE  /\ TaskMoves(t) /\ UNCHANGED <<job, gitHub, faults>> /\ Keeps(t, {"pc"})
           /\ \/ task[t].pc = "written" /\ task'[t].pc = "save"
              \/ task[t].pc = "saved" /\ task'[t].pc = "inline"
              \/ task[t].pc = "inline" /\ task'[t].pc = "post"
              \/ task[t].pc \in {"written", "saved", "inline"} /\ task'[t].pc = "withdraw"
<1>1. PICK pc \in {"written", "saved", "inline"}, next \in {"save", "inline", "post"} :
        Recheck(t, pc, next) /\ <<pc, next>> \in {<<"written", "save">>, <<"saved", "inline">>, <<"inline", "post">>}
    BY DEF Authority
<1> DEFINE to == IF IsHead(task[t].job) THEN next ELSE "withdraw"
<1>2. task[t].pc = pc /\ Goes(t, to) /\ UNCHANGED <<Others, job, gitHub, faults>>
    BY <1>1 DEF Recheck, At
<1>3. to \in PcOfTask /\ to \in {next, "withdraw"} /\ pc # "none"
    BY DEF PcOfTask
<1> HIDE DEF to
<1>4. TaskMoves(t) /\ task'[t].pc = to /\ Keeps(t, {"pc"})
    BY <1>2, <1>3, GoesFacts
<1> QED BY <1>1, <1>2, <1>3, <1>4

\* The answer to the call, as WriteCheck takes it.
TakesWriteCheck(t) ==
    task' = [task EXCEPT ![t].row.check = IF task[t].row.check = 0 THEN Len(checks) + 1 ELSE task[t].row.check, ![t].pc = "comment"]

LEMMA WriteCheckAnswered ==
    ASSUME Shaped, NEW t \in Slots, WriteCheck(t), UNCHANGED faults, TakesWriteCheck(t)
    PROVE  /\ TaskMoves(t) /\ Keeps(t, {"row", "pc"})
           /\ task'[t].row.check = IF task[t].row.check = 0 THEN Len(checks) + 1 ELSE task[t].row.check
           /\ \A f \in JobFields \ {"check"} : task'[t].row[f] = task[t].row[f]
           /\ task'[t].pc = "comment"
<1> DEFINE id == IF task[t].row.check = 0 THEN Len(checks) + 1 ELSE task[t].row.check
           v == [task[t].row EXCEPT !.check = id]
<1>1. task[t].pc = "check" /\ UNCHANGED <<Others, job>>
    BY DEF WriteCheck, At
<1>2. IsTask(task[t]) /\ DOMAIN task = Slots /\ task[t].job \in Jobs /\ job[task[t].job] \in JobRow /\ job[task[t].job].run \in Runs
    BY <1>1, HasJob DEF Jobs
<1>3. /\ v \in JobRow /\ v.run = task[t].row.run /\ task[t].row.run = task[t].base.run
      /\ v.check = id /\ \A f \in JobFields \ {"check"} : v[f] = task[t].row[f]
    <2>1. checks \in Seq(Surface)
        BY DEF Shaped, Typed
    <2>2. task[t].row \in JobRow /\ task[t].row.run = task[t].base.run
        BY <1>2 DEF IsTask
    <2>3. id \in Nat
        BY <2>1, <2>2, LenProperties DEF JobRow
    <2> HIDE DEF id
    <2> QED BY <2>2, <2>3 DEF JobRow, JobFields
<1>4. task' = [task EXCEPT ![t].row = v, ![t].pc = "comment"]
    BY <1>2 DEF WriteCheck, At, TakesWriteCheck
<1> HIDE DEF id, v
<1>5. /\ DOMAIN task' = Slots /\ \A u \in Slots \ {t} : task'[u] = task[u]
      /\ DOMAIN task'[t] = TaskFields
      /\ task'[t].row = v
      /\ task'[t].pc = "comment"
      /\ Keeps(t, {"row", "pc"})
    BY <1>2, <1>4 DEF IsTask, TaskFields, Keeps
<1>6. IsTask(task'[t]) /\ task'[t].job = task[t].job
    BY <1>2, <1>3, <1>5 DEF IsTask, TaskFields, Keeps, PcOfTask
<1>7. TaskMoves(t)
    BY <1>1, <1>5, <1>6, MovesAlone
<1> QED BY <1>1, <1>3, <1>5, <1>7 DEF id, v

LEMMA WriteCheckFacts ==
    ASSUME Shaped, NEW t \in Slots, WriteCheck(t)
    PROVE  /\ TaskMoves(t) /\ UNCHANGED <<job, comments, inline>> /\ task[t].pc = "check"
           /\ \E id \in {task[t].row.check, Len(checks')} :
                /\ Shows(checks, checks', id, Shown(t))
                /\ \/ /\ Keeps(t, {"row", "pc"}) /\ task'[t].pc = "comment" /\ task'[t].row.check = id
                      /\ \A f \in JobFields \ {"check"} : task'[t].row[f] = task[t].row[f]
                      /\ UNCHANGED faults
                   \/ Fails("lost reply") /\ Anew(t)
<1> DEFINE id == IF task[t].row.check = 0 THEN Len(checks) + 1 ELSE task[t].row.check
<1>1. task[t].pc = "check" /\ UNCHANGED <<Others, job, comments, inline>>
    BY DEF WriteCheck, At
<1>2. checks \in Seq(Surface) /\ Shown(t) \in Surface /\ task[t].row.check \in Nat
    BY <1>1, SurfaceTypes DEF Shaped, Typed
<1>3. id \in {task[t].row.check, Len(checks')} /\ Shows(checks, checks', id, Shown(t))
    <2>1. CASE task[t].row.check = 0
        <3>1. checks' = Append(checks, Shown(t)) /\ id = Len(checks) + 1
            BY <2>1 DEF WriteCheck
        <3> QED BY <1>2, <3>1, AppendShows, AppendProperties
    <2>2. CASE task[t].row.check # 0
        <3>1. checks' = Says(checks, id, Shown(t)) /\ id = task[t].row.check
            BY <2>2 DEF WriteCheck
        <3> QED BY <1>2, <3>1, SaysShows
    <2> QED BY <2>1, <2>2
<1>4. \/ UNCHANGED faults /\ task' = [task EXCEPT ![t].row.check = id, ![t].pc = "comment"]
      \/ Fails("lost reply") /\ TriedAgain(t)
    BY DEF WriteCheck, Answered
<1>5. CASE UNCHANGED faults /\ task' = [task EXCEPT ![t].row.check = id, ![t].pc = "comment"]
    BY <1>1, <1>3, <1>5, WriteCheckAnswered DEF TakesWriteCheck
<1>6. CASE Fails("lost reply") /\ TriedAgain(t)
    BY <1>1, <1>3, <1>6, TriedAgainFacts
<1> QED BY <1>4, <1>5, <1>6

\* The answer to the call, as WriteComment takes it.
TakesWriteComment(t) ==
    task' = [task EXCEPT ![t].row.comment = IF task[t].row.comment = 0 THEN Len(comments) + 1 ELSE task[t].row.comment, ![t].pc = "written"]

LEMMA WriteCommentAnswered ==
    ASSUME Shaped, NEW t \in Slots, WriteComment(t), UNCHANGED faults, TakesWriteComment(t)
    PROVE  /\ TaskMoves(t) /\ Keeps(t, {"row", "pc"})
           /\ task'[t].row.comment = IF task[t].row.comment = 0 THEN Len(comments) + 1 ELSE task[t].row.comment
           /\ \A f \in JobFields \ {"comment"} : task'[t].row[f] = task[t].row[f]
           /\ task'[t].pc = "written"
<1> DEFINE id == IF task[t].row.comment = 0 THEN Len(comments) + 1 ELSE task[t].row.comment
           v == [task[t].row EXCEPT !.comment = id]
<1>1. task[t].pc = "comment" /\ UNCHANGED <<Others, job>>
    BY DEF WriteComment, At
<1>2. IsTask(task[t]) /\ DOMAIN task = Slots /\ task[t].job \in Jobs /\ job[task[t].job] \in JobRow /\ job[task[t].job].run \in Runs
    BY <1>1, HasJob DEF Jobs
<1>3. /\ v \in JobRow /\ v.run = task[t].row.run /\ task[t].row.run = task[t].base.run
      /\ v.comment = id /\ \A f \in JobFields \ {"comment"} : v[f] = task[t].row[f]
    <2>1. comments \in Seq(Surface)
        BY DEF Shaped, Typed
    <2>2. task[t].row \in JobRow /\ task[t].row.run = task[t].base.run
        BY <1>2 DEF IsTask
    <2>3. id \in Nat
        BY <2>1, <2>2, LenProperties DEF JobRow
    <2> HIDE DEF id
    <2> QED BY <2>2, <2>3 DEF JobRow, JobFields
<1>4. task' = [task EXCEPT ![t].row = v, ![t].pc = "written"]
    BY <1>2 DEF WriteComment, At, TakesWriteComment
<1> HIDE DEF id, v
<1>5. /\ DOMAIN task' = Slots /\ \A u \in Slots \ {t} : task'[u] = task[u]
      /\ DOMAIN task'[t] = TaskFields
      /\ task'[t].row = v
      /\ task'[t].pc = "written"
      /\ Keeps(t, {"row", "pc"})
    BY <1>2, <1>4 DEF IsTask, TaskFields, Keeps
<1>6. IsTask(task'[t]) /\ task'[t].job = task[t].job
    BY <1>2, <1>3, <1>5 DEF IsTask, TaskFields, Keeps, PcOfTask
<1>7. TaskMoves(t)
    BY <1>1, <1>5, <1>6, MovesAlone
<1> QED BY <1>1, <1>3, <1>5, <1>7 DEF id, v

LEMMA WriteCommentFacts ==
    ASSUME Shaped, NEW t \in Slots, WriteComment(t)
    PROVE  /\ TaskMoves(t) /\ UNCHANGED <<job, checks, inline>> /\ task[t].pc = "comment"
           /\ \E id \in {task[t].row.comment, Len(comments')} :
                /\ Shows(comments, comments', id, Shown(t))
                /\ \/ /\ Keeps(t, {"row", "pc"}) /\ task'[t].pc = "written" /\ task'[t].row.comment = id
                      /\ \A f \in JobFields \ {"comment"} : task'[t].row[f] = task[t].row[f]
                      /\ UNCHANGED faults
                   \/ Fails("lost reply") /\ Anew(t)
<1> DEFINE id == IF task[t].row.comment = 0 THEN Len(comments) + 1 ELSE task[t].row.comment
<1>1. task[t].pc = "comment" /\ UNCHANGED <<Others, job, checks, inline>>
    BY DEF WriteComment, At
<1>2. comments \in Seq(Surface) /\ Shown(t) \in Surface /\ task[t].row.comment \in Nat
    BY <1>1, SurfaceTypes DEF Shaped, Typed
<1>3. id \in {task[t].row.comment, Len(comments')} /\ Shows(comments, comments', id, Shown(t))
    <2>1. CASE task[t].row.comment = 0
        <3>1. comments' = Append(comments, Shown(t)) /\ id = Len(comments) + 1
            BY <2>1 DEF WriteComment
        <3> QED BY <1>2, <3>1, AppendShows, AppendProperties
    <2>2. CASE task[t].row.comment # 0
        <3>1. comments' = Says(comments, id, Shown(t)) /\ id = task[t].row.comment
            BY <2>2 DEF WriteComment
        <3> QED BY <1>2, <3>1, SaysShows
    <2> QED BY <2>1, <2>2
<1>4. \/ UNCHANGED faults /\ task' = [task EXCEPT ![t].row.comment = id, ![t].pc = "written"]
      \/ Fails("lost reply") /\ TriedAgain(t)
    BY DEF WriteComment, Answered
<1>5. CASE UNCHANGED faults /\ task' = [task EXCEPT ![t].row.comment = id, ![t].pc = "written"]
    BY <1>1, <1>3, <1>5, WriteCommentAnswered DEF TakesWriteComment
<1>6. CASE Fails("lost reply") /\ TriedAgain(t)
    BY <1>1, <1>3, <1>6, TriedAgainFacts
<1> QED BY <1>4, <1>5, <1>6
\* The row of the job gets what the session has changed, and the session goes on from there.
Committed(t) ==
    /\ task'[t].base = task'[t].row
    /\ \A f \in JobFields :
         job'[task[t].job][f] = IF task'[t].row[f] # task[t].base[f] THEN task'[t].row[f] ELSE job[task[t].job][f]

LEMMA SaveFacts ==
    ASSUME Shaped, NEW t \in Slots, Save(t)
    PROVE  /\ TaskMoves(t) /\ UNCHANGED <<gitHub, faults>> /\ Keeps(t, {"row", "base", "locks", "pc"}) /\ Committed(t)
           /\ task'[t].row = task[t].row
           /\ \/ task[t].pc = "save" /\ task'[t].pc = "saved"
              \/ task[t].pc = "save inline" /\ task'[t].pc = "inline"
<1>1. PICK to \in {"saved", "inline"} :
        /\ task[t].pc = (IF to = "saved" THEN "save" ELSE "save inline") /\ Commit(t, task[t].row, to)
        /\ UNCHANGED <<Others, gitHub, faults>>
    BY DEF Save, At
<1>2. task[t].row \in JobRow /\ task[t].pc # "none" /\ to \in PcOfTask
    BY <1>1, HasJob DEF IsTask, PcOfTask
<1> DEFINE row == task[t].row
<1>3. row \in JobRow /\ row.run = task[t].row.run /\ Commit(t, row, to) /\ UNCHANGED Others
    BY <1>1, <1>2
<1> HIDE DEF row
<1>4. /\ TaskMoves(t) /\ Keeps(t, {"row", "base", "locks", "pc"})
      /\ task'[t].row = row /\ task'[t].base = row /\ task'[t].pc = to
      /\ Committed(t)
    BY <1>2, <1>3, CommitFacts DEF Committed
<1> QED BY <1>1, <1>4 DEF row

LEMMA CompleteFacts ==
    ASSUME Shaped, NEW t \in Slots, Complete(t)
    PROVE  /\ TaskMoves(t) /\ UNCHANGED <<gitHub, faults>> /\ Keeps(t, {"row", "base", "locks", "pc"}) /\ Committed(t)
           /\ \/ task[t].pc = "checkpoint" /\ task'[t].pc = "complete" /\ task'[t].row = task[t].row
              \/ task[t].pc = "complete" /\ task'[t].pc = "done"
                 /\ task'[t].row = [task[t].row EXCEPT !.status = "completed"]
<1>1. PICK to \in {"complete", "done"} :
        /\ \/ to = "complete" /\ task[t].pc = "checkpoint" /\ Commit(t, task[t].row, to)
           \/ to = "done" /\ task[t].pc = "complete" /\ Commit(t, [task[t].row EXCEPT !.status = "completed"], to)
        /\ UNCHANGED <<Others, gitHub, faults>>
    BY DEF Complete, At
<1>2. task[t].row \in JobRow /\ task[t].pc # "none" /\ to \in PcOfTask
    BY <1>1, HasJob DEF IsTask, PcOfTask
<1> DEFINE row == IF to = "complete" THEN task[t].row ELSE [task[t].row EXCEPT !.status = "completed"]
<1>3. row \in JobRow /\ row.run = task[t].row.run
    BY <1>2 DEF JobRow, Terminal
<1>4. Commit(t, row, to) /\ UNCHANGED <<Others, gitHub, faults>>
    BY <1>1
<1> HIDE DEF row
<1>5. /\ TaskMoves(t) /\ Keeps(t, {"row", "base", "locks", "pc"})
      /\ task'[t].row = row /\ task'[t].base = row /\ task'[t].pc = to
      /\ Committed(t)
    BY <1>2, <1>3, <1>4, CommitFacts DEF Committed
<1> QED BY <1>1, <1>4, <1>5 DEF row

LEMMA LeaveFacts ==
    ASSUME Shaped, NEW t \in Slots, Leave(t)
    PROVE  /\ TaskMoves(t) /\ UNCHANGED <<gitHub, faults>> /\ Keeps(t, {"row", "base", "locks", "pc"}) /\ Committed(t)
           /\ task[t].pc = "leave" /\ task'[t].pc = "done" /\ task'[t].row = task[t].row
<1>1. task[t].pc = "leave" /\ Commit(t, task[t].row, "done") /\ UNCHANGED <<Others, gitHub, faults>>
    BY DEF Leave, At
<1>2. task[t].row \in JobRow /\ task[t].pc # "none" /\ "done" \in PcOfTask
    BY <1>1, HasJob DEF IsTask, PcOfTask
<1> QED BY <1>1, <1>2, CommitFacts DEF Committed

\* The answer to the call that posts f, as PostInline takes it.
TakesPost(t, f) ==
    task' = [task EXCEPT ![t].row.threads = task[t].row.threads \cup {f}, ![t].wrote = task[t].wrote \cup {Len(inline) + 1},
                         ![t].todo = task[t].todo \ {f}, ![t].pc = "save inline"]

LEMMA PostAnswered ==
    ASSUME Shaped, NEW t \in Slots, NEW f \in Findings, PostInline(t, f), UNCHANGED faults, TakesPost(t, f)
    PROVE  /\ TaskMoves(t) /\ Keeps(t, {"row", "wrote", "todo", "pc"})
           /\ task'[t].row.threads = task[t].row.threads \cup {f}
           /\ \A c \in JobFields \ {"threads"} : task'[t].row[c] = task[t].row[c]
           /\ task'[t].wrote = task[t].wrote \cup {Len(inline) + 1} /\ task'[t].todo = task[t].todo \ {f}
           /\ task'[t].pc = "save inline"
<1> DEFINE n == Len(inline) + 1
           all == task[t].row.threads \cup {f}
           v == [task[t].row EXCEPT !.threads = all]
           mine == task[t].wrote \cup {n}
           rest == task[t].todo \ {f}
<1>1. task[t].pc = "post" /\ UNCHANGED <<Others, job>>
    BY DEF PostInline, At
<1>2. IsTask(task[t]) /\ DOMAIN task = Slots /\ task[t].job \in Jobs /\ job[task[t].job] \in JobRow /\ job[task[t].job].run \in Runs
    BY <1>1, HasJob DEF Jobs
<1>3. /\ v \in JobRow /\ v.run = task[t].row.run /\ task[t].row.run = task[t].base.run
      /\ v.threads = all /\ \A c \in JobFields \ {"threads"} : v[c] = task[t].row[c]
      /\ mine \subseteq Nat /\ rest \subseteq Findings /\ n = Len(inline) + 1
    <2>1. inline \in Seq(InlineComments)
        BY DEF Shaped, Typed
    <2>3. n = Len(inline) + 1 /\ n \in Nat
        BY <2>1, LenProperties
    <2>4. task[t].row \in JobRow /\ task[t].row.run = task[t].base.run
        BY <1>2 DEF IsTask
    <2>5. mine \subseteq Nat /\ rest \subseteq Findings
        BY <1>2, <2>3 DEF IsTask
    <2> HIDE DEF n, mine, rest
    <2> QED BY <2>3, <2>4, <2>5 DEF JobRow, JobFields
<1>4. task' = [task EXCEPT ![t].row = v, ![t].wrote = mine, ![t].todo = rest, ![t].pc = "save inline"]
    BY <1>2 DEF PostInline, At, TakesPost
<1> HIDE DEF v, all, mine, rest, n
<1>5. /\ DOMAIN task' = Slots /\ \A u \in Slots \ {t} : task'[u] = task[u]
      /\ DOMAIN task'[t] = TaskFields
      /\ task'[t].row = v
      /\ task'[t].wrote = mine
      /\ task'[t].todo = rest
      /\ task'[t].pc = "save inline"
      /\ Keeps(t, {"row", "wrote", "todo", "pc"})
    BY <1>2, <1>4 DEF IsTask, TaskFields, Keeps
<1>6. IsTask(task'[t]) /\ task'[t].job = task[t].job
    BY <1>2, <1>3, <1>5 DEF IsTask, TaskFields, Keeps, PcOfTask
<1>7. TaskMoves(t)
    BY <1>1, <1>5, <1>6, MovesAlone
<1> QED BY <1>1, <1>3, <1>5, <1>7 DEF v, all, mine, rest, n

LEMMA PostInlineFacts ==
    ASSUME Shaped, NEW t \in Slots, NEW f \in Findings, PostInline(t, f)
    PROVE  /\ TaskMoves(t) /\ UNCHANGED <<job, checks, comments>>
           /\ task[t].pc = "post" /\ f \in task[t].todo
           /\ inline' = Append(inline, [job |-> task[t].job, finding |-> f, live |-> TRUE])
           /\ \/ /\ Keeps(t, {"row", "wrote", "todo", "pc"}) /\ task'[t].pc = "save inline"
                 /\ task'[t].row.threads = task[t].row.threads \cup {f}
                 /\ \A c \in JobFields \ {"threads"} : task'[t].row[c] = task[t].row[c]
                 /\ task'[t].wrote = task[t].wrote \cup {Len(inline) + 1} /\ task'[t].todo = task[t].todo \ {f}
                 /\ UNCHANGED faults
              \/ Fails("lost reply") /\ Anew(t)
<1>1. /\ task[t].pc = "post" /\ f \in task[t].todo /\ UNCHANGED <<Others, job, checks, comments>>
      /\ inline' = Append(inline, [job |-> task[t].job, finding |-> f, live |-> TRUE])
    BY DEF PostInline, At
<1>2. \/ UNCHANGED faults /\ task' = [task EXCEPT ![t].row.threads = @ \cup {f}, ![t].wrote = @ \cup {Len(inline')},
                                                 ![t].todo = @ \ {f}, ![t].pc = "save inline"]
      \/ Fails("lost reply") /\ TriedAgain(t)
    BY DEF PostInline, Answered
<1>3. CASE Fails("lost reply") /\ TriedAgain(t)
    BY <1>1, <1>3, TriedAgainFacts
<1>4. CASE UNCHANGED faults /\ task' = [task EXCEPT ![t].row.threads = @ \cup {f}, ![t].wrote = @ \cup {Len(inline')},
                                                    ![t].todo = @ \ {f}, ![t].pc = "save inline"]
    <2>1. Len(inline') = Len(inline) + 1
        BY <1>1, AppendProperties DEF Shaped, Typed
    <2>2. TakesPost(t, f)
        BY <1>1, <1>4, <2>1, HasJob DEF IsTask, TaskFields, TakesPost
    <2> QED BY <1>1, <1>4, <2>2, PostAnswered
<1> QED BY <1>2, <1>3, <1>4

LEMMA RefusedFacts ==
    ASSUME Shaped, NEW t \in Slots, NEW f \in Findings, Refused(t, f)
    PROVE  /\ TaskMoves(t) /\ UNCHANGED <<job, gitHub>> /\ Fails("refused") /\ Keeps(t, {"recovered", "todo", "pc"})
           /\ task'[t].todo = task[t].todo \ {f}
           /\ task[t].pc = "post" /\ task'[t].pc = "inline"
<1> DEFINE more == task[t].recovered \cup {f}
           rest == task[t].todo \ {f}
<1>1. task[t].pc = "post" /\ Fails("refused") /\ UNCHANGED <<Others, job, gitHub>>
    BY DEF Refused, At
<1>2. IsTask(task[t]) /\ DOMAIN task = Slots /\ task[t].job \in Jobs /\ job[task[t].job] \in JobRow /\ job[task[t].job].run \in Runs
    BY <1>1, HasJob DEF Jobs
<1>3. more \subseteq Findings /\ rest \subseteq Findings
    BY <1>2 DEF IsTask
<1>4. task' = [task EXCEPT ![t].recovered = more, ![t].todo = rest, ![t].pc = "inline"]
    BY DEF Refused, At
<1> HIDE DEF more, rest
<1>5. /\ DOMAIN task' = Slots /\ \A u \in Slots \ {t} : task'[u] = task[u]
      /\ DOMAIN task'[t] = TaskFields
      /\ task'[t].recovered = more
      /\ task'[t].todo = rest
      /\ task'[t].pc = "inline"
      /\ Keeps(t, {"recovered", "todo", "pc"})
    BY <1>2, <1>4 DEF IsTask, TaskFields, Keeps
<1>6. IsTask(task'[t]) /\ task'[t].job = task[t].job
    BY <1>2, <1>3, <1>5 DEF IsTask, TaskFields, Keeps, PcOfTask
<1>7. TaskMoves(t)
    BY <1>1, <1>5, <1>6, MovesAlone
<1> QED BY <1>1, <1>3, <1>5, <1>7 DEF more, rest

LEMMA CloseAnswered ==
    ASSUME Shaped, NEW t \in Slots, CloseInline(t),
           task' = [task EXCEPT ![t].row.posted = @ \/ task[t].posting, ![t].pc = "checkpoint"]
    PROVE  /\ TaskMoves(t) /\ Keeps(t, {"row", "pc"}) /\ task'[t].pc = "checkpoint"
           /\ \A c \in JobFields \ {"posted"} : task'[t].row[c] = task[t].row[c]
<1> DEFINE p == task[t].row.posted \/ task[t].posting
           v == [task[t].row EXCEPT !.posted = p]
<1>1. task[t].pc = "inline" /\ UNCHANGED <<Others, job>>
    BY DEF CloseInline, At
<1>2. IsTask(task[t]) /\ DOMAIN task = Slots /\ task[t].job \in Jobs /\ job[task[t].job] \in JobRow /\ job[task[t].job].run \in Runs
    BY <1>1, HasJob DEF Jobs
<1>3. /\ v \in JobRow /\ v.run = task[t].row.run /\ task[t].row.run = task[t].base.run
      /\ \A c \in JobFields \ {"posted"} : v[c] = task[t].row[c]
    <2>1. p \in BOOLEAN
        OBVIOUS
    <2>2. task[t].row \in JobRow /\ task[t].row.run = task[t].base.run
        BY <1>2 DEF IsTask
    <2> HIDE DEF p
    <2> QED BY <2>1, <2>2 DEF JobRow, JobFields
<1>4. task' = [task EXCEPT ![t].row = v, ![t].pc = "checkpoint"]
    BY <1>2 DEF CloseInline, At
<1> HIDE DEF p, v
<1>5. /\ DOMAIN task' = Slots /\ \A u \in Slots \ {t} : task'[u] = task[u]
      /\ DOMAIN task'[t] = TaskFields
      /\ task'[t].row = v
      /\ task'[t].pc = "checkpoint"
      /\ Keeps(t, {"row", "pc"})
    BY <1>2, <1>4 DEF IsTask, TaskFields, Keeps
<1>6. IsTask(task'[t]) /\ task'[t].job = task[t].job
    BY <1>2, <1>3, <1>5 DEF IsTask, TaskFields, Keeps, PcOfTask
<1>7. TaskMoves(t)
    BY <1>1, <1>5, <1>6, MovesAlone
<1> QED BY <1>1, <1>3, <1>5, <1>7 DEF p, v

LEMMA CloseInlineFacts ==
    ASSUME Shaped, NEW t \in Slots, CloseInline(t)
    PROVE  /\ TaskMoves(t) /\ UNCHANGED <<job, checks, inline>> /\ task[t].pc = "inline" /\ task[t].todo = {}
           /\ \E id \in {0, task[t].row.comment} : Shows(comments, comments', id, Shown(t))
           /\ \/ /\ Keeps(t, {"row", "pc"}) /\ task'[t].pc = "checkpoint" /\ UNCHANGED faults
                 /\ \A c \in JobFields \ {"posted"} : task'[t].row[c] = task[t].row[c]
              \/ Fails("lost reply") /\ Anew(t)
<1> DEFINE then == [task EXCEPT ![t].row.posted = @ \/ task[t].posting, ![t].pc = "checkpoint"]
<1>1. task[t].pc = "inline" /\ task[t].todo = {} /\ UNCHANGED <<Others, job, checks, inline>>
    BY DEF CloseInline, At
<1>2. comments \in Seq(Surface) /\ Shown(t) \in Surface /\ task[t].row.comment \in Nat
    BY <1>1, SurfaceTypes DEF Shaped, Typed
<1>3. \E id \in {0, task[t].row.comment} : Shows(comments, comments', id, Shown(t))
    <2>1. CASE comments' = comments
        <3>1. Says(comments, 0, Shown(t)) = comments
            BY DEF Says
        <3> QED BY <1>2, <2>1, <3>1, SaysShows
    <2>2. CASE comments' = Says(comments, task[t].row.comment, Shown(t))
        BY <1>2, <2>2, SaysShows
    <2> QED BY <2>1, <2>2 DEF CloseInline
<1>4. \/ UNCHANGED faults /\ task' = then
      \/ Fails("lost reply") /\ TriedAgain(t)
    BY DEF CloseInline, Answered
<1>5. CASE UNCHANGED faults /\ task' = then
    BY <1>1, <1>3, <1>5, CloseAnswered
<1>6. CASE Fails("lost reply") /\ TriedAgain(t)
    BY <1>1, <1>3, <1>6, TriedAgainFacts
<1> QED BY <1>4, <1>5, <1>6
\* A call that concludes something or fails: the objects show it or what they showed.
FaultsGrow == UNCHANGED faults \/ faults' = faults + 1

LEMMA FaultCounts ==
    ASSUME Shaped, faults' = faults + 1
    PROVE  ~ UNCHANGED faults /\ faults' # 0
BY DEF Shaped, Typed

LEMMA NothingShown ==
    ASSUME NEW old \in Seq(Surface), NEW new, new = old, NEW what \in Surface
    PROVE  Shows(old, new, 0, what)
<1>1. Says(old, 0, what) = old
    BY DEF Says
<1> QED BY <1>1, SaysShows

LEMMA ConcludeFacts ==
    ASSUME Shaped, NEW t \in Slots, task[t].pc # "none", NEW what \in {Superseded, Failure}, ConcludeCheck(t, what)
    PROVE  FaultsGrow /\ \E id \in Nat : Shows(checks, checks', id, what)
<1>1. checks \in Seq(Surface) /\ what \in Surface /\ pipelineCheck[job[task[t].job].run] \in Nat
    BY SurfaceTypes DEF Shaped, Typed
<1>2. CASE checks' = Says(checks, pipelineCheck[job[task[t].job].run], what) /\ UNCHANGED faults
    BY <1>1, <1>2, SaysShows DEF FaultsGrow
<1>3. CASE Fails("transient") /\ UNCHANGED checks
    BY <1>1, <1>3, NothingShown DEF FaultsGrow, Fails
<1> QED BY <1>2, <1>3 DEF ConcludeCheck

LEMMA SkipFacts ==
    ASSUME Shaped, NEW t \in Slots, Skip(t)
    PROVE  /\ TaskMoves(t) /\ UNCHANGED <<job, comments, inline>> /\ Keeps(t, {"row", "locks", "pc"}) /\ FaultsGrow
           /\ \E id \in Nat : Shows(checks, checks', id, Superseded)
           /\ \A c \in JobFields \ {"status"} : task'[t].row[c] = task[t].row[c]
           /\ \/ task[t].pc = "skip" /\ task'[t].pc = "leave"
              \/ task[t].pc = "withdraw" /\ task'[t].pc = "withdraw check"
<1> DEFINE v == [task[t].row EXCEPT !.status = "skipped"]
           to == IF task[t].pc = "skip" THEN "leave" ELSE "withdraw check"
<1>1. task[t].pc \in {"skip", "withdraw"} /\ ConcludeCheck(t, Superseded) /\ UNCHANGED <<Others, job, comments, inline>>
    BY DEF Skip
<1>2. IsTask(task[t]) /\ DOMAIN task = Slots /\ task[t].job \in Jobs /\ job[task[t].job] \in JobRow /\ job[task[t].job].run \in Runs
    BY <1>1, HasJob DEF Jobs
<1>3. /\ v \in JobRow /\ v.run = task[t].row.run /\ task[t].row.run = task[t].base.run
      /\ \A c \in JobFields \ {"status"} : v[c] = task[t].row[c]
      /\ FaultsGrow /\ \E id \in Nat : Shows(checks, checks', id, Superseded)
      /\ to \in {"leave", "withdraw check"} /\ (to = "leave" <=> task[t].pc = "skip")
    <2>1. task[t].row \in JobRow /\ task[t].row.run = task[t].base.run
        BY <1>2 DEF IsTask
    <2>2. FaultsGrow /\ \E id \in Nat : Shows(checks, checks', id, Superseded)
        BY <1>1, ConcludeFacts
    <2> QED BY <2>1, <2>2 DEF JobRow, JobFields, Terminal
<1>4. task' = [task EXCEPT ![t].row = v, ![t].locks = TRUE, ![t].pc = to]
    BY DEF Skip
<1> HIDE DEF v, to
<1>5. /\ DOMAIN task' = Slots /\ \A u \in Slots \ {t} : task'[u] = task[u]
      /\ DOMAIN task'[t] = TaskFields
      /\ task'[t].row = v
      /\ task'[t].locks = TRUE
      /\ task'[t].pc = to
      /\ Keeps(t, {"row", "locks", "pc"})
    BY <1>2, <1>4 DEF IsTask, TaskFields, Keeps
<1>6. IsTask(task'[t]) /\ task'[t].job = task[t].job
    BY <1>2, <1>3, <1>5 DEF IsTask, TaskFields, Keeps, PcOfTask
<1>7. TaskMoves(t)
    BY <1>1, <1>5, <1>6, MovesAlone
<1> QED BY <1>1, <1>3, <1>5, <1>7 DEF v, to

LEMMA WithdrawCheckFacts ==
    ASSUME Shaped, NEW t \in Slots, WithdrawCheck(t)
    PROVE  /\ TaskMoves(t) /\ UNCHANGED <<job, comments, inline>> /\ Keeps(t, {"pc"}) /\ FaultsGrow
           /\ task[t].pc = "withdraw check" /\ task'[t].pc = "withdraw comment"
           /\ \E id \in Nat : Shows(checks, checks', id, Superseded) /\ (UNCHANGED faults => id = task[t].row.check)
<1>1. /\ task[t].pc = "withdraw check" /\ Goes(t, "withdraw comment") /\ UNCHANGED <<Others, job, comments, inline>>
      /\ \/ checks' = Says(checks, task[t].row.check, Superseded) /\ UNCHANGED faults
         \/ Fails("transient") /\ UNCHANGED checks
    BY DEF WithdrawCheck, At
<1>2. TaskMoves(t) /\ task'[t].pc = "withdraw comment" /\ Keeps(t, {"pc"})
    BY <1>1, GoesFacts DEF PcOfTask
<1>3. checks \in Seq(Surface) /\ Superseded \in Surface /\ task[t].row.check \in Nat /\ faults \in Nat
    BY <1>1, SurfaceTypes DEF Shaped, Typed
<1>4. CASE checks' = Says(checks, task[t].row.check, Superseded) /\ UNCHANGED faults
    BY <1>1, <1>2, <1>3, <1>4, SaysShows DEF FaultsGrow
<1>5. CASE Fails("transient") /\ UNCHANGED checks
    <2>1. Shows(checks, checks', 0, Superseded)
        BY <1>3, <1>5, NothingShown
    <2>2. faults' = faults + 1
        BY <1>5 DEF Fails
    <2>3. ~ UNCHANGED faults
        BY <1>3, <2>2
    <2> QED BY <1>1, <1>2, <2>1, <2>2, <2>3 DEF FaultsGrow
<1> QED BY <1>1, <1>4, <1>5

LEMMA WithdrawCommentFacts ==
    ASSUME Shaped, NEW t \in Slots, WithdrawComment(t)
    PROVE  /\ TaskMoves(t) /\ UNCHANGED <<job, checks, inline>> /\ Keeps(t, {"pc"}) /\ FaultsGrow
           /\ task[t].pc = "withdraw comment" /\ task'[t].pc = "withdraw inline"
           /\ \E id \in Nat : Shows(comments, comments', id, Superseded) /\ (UNCHANGED faults => id = task[t].row.comment)
<1>1. /\ task[t].pc = "withdraw comment" /\ Goes(t, "withdraw inline") /\ UNCHANGED <<Others, job, checks, inline>>
      /\ \/ comments' = Says(comments, task[t].row.comment, Superseded) /\ UNCHANGED faults
         \/ Fails("transient") /\ UNCHANGED comments
    BY DEF WithdrawComment, At
<1>2. TaskMoves(t) /\ task'[t].pc = "withdraw inline" /\ Keeps(t, {"pc"})
    BY <1>1, GoesFacts DEF PcOfTask
<1>3. comments \in Seq(Surface) /\ Superseded \in Surface /\ task[t].row.comment \in Nat /\ faults \in Nat
    BY <1>1, SurfaceTypes DEF Shaped, Typed
<1>4. CASE comments' = Says(comments, task[t].row.comment, Superseded) /\ UNCHANGED faults
    BY <1>1, <1>2, <1>3, <1>4, SaysShows DEF FaultsGrow
<1>5. CASE Fails("transient") /\ UNCHANGED comments
    <2>1. Shows(comments, comments', 0, Superseded)
        BY <1>3, <1>5, NothingShown
    <2>2. faults' = faults + 1
        BY <1>5 DEF Fails
    <2>3. ~ UNCHANGED faults
        BY <1>3, <2>2
    <2> QED BY <1>1, <1>2, <2>1, <2>2, <2>3 DEF FaultsGrow
<1> QED BY <1>1, <1>4, <1>5

LEMMA WithdrawOne ==
    ASSUME Shaped, NEW t \in Slots, NEW i \in task[t].wrote, WithdrawInline(t), task' = [task EXCEPT ![t].wrote = task[t].wrote \ {i}]
    PROVE  TaskMoves(t) /\ Keeps(t, {"wrote"}) /\ task'[t].wrote = task[t].wrote \ {i}
<1> DEFINE rest == task[t].wrote \ {i}
<1>1. task[t].pc = "withdraw inline" /\ UNCHANGED <<Others, job>>
    BY DEF WithdrawInline, At
<1>2. IsTask(task[t]) /\ DOMAIN task = Slots /\ task[t].job \in Jobs /\ job[task[t].job] \in JobRow /\ job[task[t].job].run \in Runs
    BY <1>1, HasJob DEF Jobs
<1>3. rest \subseteq Nat
    BY <1>2 DEF IsTask
<1>4. task' = [task EXCEPT ![t].wrote = rest]
    BY DEF WithdrawInline, At
<1> HIDE DEF rest
<1>5. /\ DOMAIN task' = Slots /\ \A u \in Slots \ {t} : task'[u] = task[u]
      /\ DOMAIN task'[t] = TaskFields
      /\ task'[t].wrote = rest
      /\ Keeps(t, {"wrote"})
    BY <1>2, <1>4 DEF IsTask, TaskFields, Keeps
<1>6. IsTask(task'[t]) /\ task'[t].job = task[t].job
    BY <1>2, <1>3, <1>5 DEF IsTask, TaskFields, Keeps, PcOfTask
<1>7. TaskMoves(t)
    BY <1>1, <1>5, <1>6, MovesAlone
<1> QED BY <1>1, <1>3, <1>5, <1>7 DEF rest

\* Comments are as they were, but this one is deleted.
DeletedOnly(i) ==
    /\ inline' \in Seq(InlineComments) /\ DOMAIN inline' = DOMAIN inline
    /\ \A k \in DOMAIN inline : /\ inline'[k].job = inline[k].job /\ inline'[k].finding = inline[k].finding
                                /\ inline'[k].live => inline[k].live
    /\ i \in DOMAIN inline => ~ inline'[i].live

LEMMA DeletedFacts ==
    ASSUME Shaped, NEW i \in Nat, inline' = Deleted(i)
    PROVE  DeletedOnly(i)
<1>1. inline \in Seq(InlineComments) /\ DOMAIN inline = 1 .. Len(inline) /\ Len(inline) \in Nat
    BY LenProperties DEF Shaped, Typed
<1>2. \A k \in DOMAIN inline : inline[k] \in InlineComments
    BY <1>1, ElementOfSeq
<1> DEFINE dead == [inline[i] EXCEPT !.live = FALSE]
<1>3. inline' = [inline EXCEPT ![i] = dead]
    BY DEF Deleted
<1>4. i \in DOMAIN inline => dead \in InlineComments /\ dead.job = inline[i].job /\ dead.finding = inline[i].finding
                             /\ dead.live = FALSE
    BY <1>2 DEF InlineComments
<1> HIDE DEF dead
<1>5. DOMAIN inline' = DOMAIN inline /\ \A k \in DOMAIN inline : inline'[k] = IF k = i THEN dead ELSE inline[k]
    BY <1>3
<1>6. inline' \in Seq(InlineComments)
    <2>1. inline' \in [1 .. Len(inline) -> InlineComments]
        BY <1>1, <1>2, <1>3, <1>4
    <2> QED BY <1>1, <2>1, SeqDef
<1> QED BY <1>4, <1>5, <1>6 DEF DeletedOnly

LEMMA WithdrawInlineFacts ==
    ASSUME Shaped, NEW t \in Slots, WithdrawInline(t)
    PROVE  /\ TaskMoves(t) /\ UNCHANGED <<job, checks, comments>> /\ FaultsGrow /\ Keeps(t, {"pc", "wrote"})
           /\ task[t].pc = "withdraw inline"
           /\ \/ task[t].wrote = {} /\ task'[t].pc = "leave" /\ UNCHANGED <<inline, faults>>
              \/ /\ task'[t].pc = "withdraw inline"
                 /\ \E i \in Nat : /\ task'[t].wrote = task[t].wrote \ {i}
                                   /\ DeletedOnly(i) \/ UNCHANGED inline
                                   /\ UNCHANGED faults => DeletedOnly(i)
<1>1. task[t].pc = "withdraw inline" /\ UNCHANGED <<Others, job, checks, comments>> /\ faults \in Nat
    BY DEF WithdrawInline, At, Shaped, Typed
<1>2. CASE task[t].wrote = {}
    <2>1. Goes(t, "leave") /\ UNCHANGED <<inline, faults>>
        BY <1>2 DEF WithdrawInline
    <2>2. TaskMoves(t) /\ task'[t].pc = "leave" /\ Keeps(t, {"pc"})
        BY <1>1, <2>1, GoesFacts DEF PcOfTask
    <2> QED BY <1>1, <1>2, <2>1, <2>2 DEF Keeps, FaultsGrow
<1>3. CASE task[t].wrote # {}
    <2>1. PICK i \in task[t].wrote :
            /\ task' = [task EXCEPT ![t].wrote = task[t].wrote \ {i}]
            /\ \/ inline' = Deleted(i) /\ UNCHANGED faults
               \/ Fails("transient") /\ UNCHANGED inline
        BY <1>1, <1>3, HasJob DEF WithdrawInline, IsTask, TaskFields
    <2>2. TaskMoves(t) /\ Keeps(t, {"wrote"}) /\ task'[t].wrote = task[t].wrote \ {i}
        BY <2>1, WithdrawOne
    <2>3. i \in Nat
        BY <1>1, HasJob DEF IsTask
    <2>4. CASE inline' = Deleted(i) /\ UNCHANGED faults
        <3>1. DeletedOnly(i)
            BY <2>3, <2>4, DeletedFacts
        <3> QED BY <1>1, <2>2, <2>3, <2>4, <3>1 DEF Keeps, FaultsGrow, TaskFields
    <2>5. CASE Fails("transient") /\ UNCHANGED inline
        <3>0. faults' = faults + 1
            BY <2>5, Zenon DEF Fails
        <3>1. ~ UNCHANGED faults
            BY <3>0, FaultCounts
        <3> QED BY <1>1, <2>2, <2>3, <2>5, <3>0, <3>1 DEF Keeps, FaultsGrow, TaskFields
    <2> QED BY <2>1, <2>4, <2>5
<1> QED BY <1>2, <1>3

LEMMA FailsForNowFacts ==
    ASSUME Shaped, NEW t \in Slots, FailsForNow(t)
    PROVE  /\ TaskMoves(t) /\ UNCHANGED <<job, gitHub>> /\ Calls(t) /\ Anew(t)
           /\ faults' = faults + 1
<1>1. Calls(t) /\ TriedAgain(t) /\ faults' = faults + 1 /\ UNCHANGED <<Others, job, gitHub>>
    BY DEF FailsForNow, Fails
<1>2. task[t].pc # "none"
    BY <1>1 DEF Calls, At
<1> QED BY <1>1, <1>2, TriedAgainFacts

LEMMA FailsForGoodFacts ==
    ASSUME Shaped, NEW t \in Slots, FailsForGood(t)
    PROVE  /\ TaskMoves(t) /\ UNCHANGED <<job, gitHub>> /\ Keeps(t, {"pc"}) /\ task'[t].pc = "fail"
           /\ faults' = faults + 1
<1>1. Calls(t) /\ Goes(t, "fail") /\ faults' = faults + 1 /\ UNCHANGED <<Others, job, gitHub>>
    BY DEF FailsForGood, Fails
<1>2. task[t].pc # "none" /\ "fail" \in PcOfTask
    BY <1>1 DEF Calls, At, PcOfTask
<1> QED BY <1>1, <1>2, GoesFacts

LEMMA FailFacts ==
    ASSUME Shaped, NEW t \in Slots, Fail(t)
    PROVE  /\ TaskMoves(t) /\ UNCHANGED <<comments, inline>> /\ FaultsGrow
           /\ task[t].pc = "fail" /\ task'[t].pc = "done" /\ Committed(t) /\ Keeps(t, {"row", "base", "locks", "pc"})
           /\ \A c \in JobFields \ {"status"} : task'[t].row[c] = task[t].row[c]
           /\ \E id \in Nat : Shows(checks, checks', id, Failure)
<1> DEFINE row == [task[t].row EXCEPT !.status = "failed"]
<1>1. task[t].pc = "fail" /\ ConcludeCheck(t, Failure) /\ Commit(t, row, "done") /\ UNCHANGED <<Others, comments, inline>>
    BY DEF Fail, At
<1>2. task[t].row \in JobRow /\ "done" \in PcOfTask
    BY <1>1, HasJob DEF IsTask, PcOfTask
<1>3. row \in JobRow /\ row.run = task[t].row.run /\ \A c \in JobFields \ {"status"} : row[c] = task[t].row[c]
    BY <1>2 DEF JobRow, Terminal, JobFields
<1> HIDE DEF row
<1>4. TaskMoves(t) /\ task'[t].pc = "done" /\ task'[t].row = row /\ Keeps(t, {"row", "base", "locks", "pc"}) /\ Committed(t)
    BY <1>1, <1>2, <1>3, CommitFacts DEF Committed
<1>5. FaultsGrow /\ \E id \in Nat : Shows(checks, checks', id, Failure)
    BY <1>1, ConcludeFacts
<1> QED BY <1>1, <1>3, <1>4, <1>5

LEMMA MarkFailedFacts ==
    ASSUME Shaped, NEW t \in Slots, MarkFailed(t)
    PROVE  /\ TaskMoves(t) /\ UNCHANGED <<comments, inline>> /\ FaultsGrow
           /\ task[t].pc = "failing" /\ task'[t].pc = "done" /\ Keeps(t, {"pc"})
           /\ \A c \in JobFields \ {"status"} : job'[task[t].job][c] = job[task[t].job][c]
           /\ \E id \in Nat : Shows(checks, checks', id, Failure)
<1> DEFINE j == task[t].job
           status == IF job[j].status \in Open THEN "failed" ELSE job[j].status
           w == [job[j] EXCEPT !.status = status]
<1>1. task[t].pc = "failing" /\ ConcludeCheck(t, Failure) /\ Goes(t, "done") /\ UNCHANGED <<Others, comments, inline>>
    BY DEF MarkFailed, At
<1>2. IsTask(task[t]) /\ DOMAIN task = Slots /\ j \in Jobs /\ j \in Slots /\ job \in [Slots -> JobRow]
    BY <1>1, HasJob
<1>3. w \in JobRow /\ w.run = job[j].run /\ \A c \in JobFields \ {"status"} : w[c] = job[j][c]
    BY <1>2 DEF JobRow, Terminal, JobFields
<1>4. job' = [job EXCEPT ![j] = w]
    BY <1>2 DEF MarkFailed
<1> HIDE DEF w
<1>5. /\ DOMAIN task' = Slots /\ \A u \in Slots \ {t} : task'[u] = task[u]
      /\ DOMAIN task'[t] = TaskFields
      /\ task'[t].pc = "done" /\ Keeps(t, {"pc"})
    BY <1>1, <1>2 DEF Goes, IsTask, TaskFields, Keeps
<1>6. IsTask(task'[t]) /\ task'[t].job = j
    BY <1>2, <1>5 DEF IsTask, TaskFields, Keeps, PcOfTask
<1>7. job' \in [Slots -> JobRow] /\ job'[j] = w /\ \A k \in Slots \ {j} : job'[k] = job[k]
    BY <1>2, <1>3, <1>4
<1>8. TaskMoves(t)
    BY <1>1, <1>2, <1>3, <1>5, <1>6, <1>7 DEF TaskMoves
<1>9. FaultsGrow /\ \E id \in Nat : Shows(checks, checks', id, Failure)
    BY <1>1, ConcludeFacts
<1> QED BY <1>1, <1>3, <1>5, <1>7, <1>8, <1>9

LEMMA KilledFacts ==
    ASSUME Shaped, NEW t \in Slots, Killed(t)
    PROVE  /\ TaskMoves(t) /\ UNCHANGED <<job, gitHub>> /\ Keeps(t, {"pc", "locks"}) /\ task'[t].pc = "lost"
           /\ faults' = faults + 1
<1>1. task[t].pc # "none" /\ faults' = faults + 1 /\ UNCHANGED <<Others, job, gitHub>>
    BY DEF Killed, Fails
<1>2. IsTask(task[t]) /\ DOMAIN task = Slots /\ task[t].job \in Jobs /\ job[task[t].job] \in JobRow /\ job[task[t].job].run \in Runs
    BY <1>1, HasJob DEF Jobs
<1>4. task' = [task EXCEPT ![t].pc = "lost", ![t].locks = FALSE]
    BY DEF Killed
<1>5. /\ DOMAIN task' = Slots /\ \A u \in Slots \ {t} : task'[u] = task[u]
      /\ DOMAIN task'[t] = TaskFields
      /\ task'[t].pc = "lost"
      /\ task'[t].locks = FALSE
      /\ Keeps(t, {"pc", "locks"})
    BY <1>2, <1>4 DEF IsTask, TaskFields, Keeps
<1>6. IsTask(task'[t]) /\ task'[t].job = task[t].job
    BY <1>2, <1>5 DEF IsTask, TaskFields, Keeps, PcOfTask
<1>7. TaskMoves(t)
    BY <1>1, <1>5, <1>6, MovesAlone
<1> QED BY <1>1, <1>5, <1>7
-----------------------------------------------------------------------------
(* Every step of a task moves the task, and GitHub keeps its types.         *)

GitHubTyped ==
    /\ checks' \in Seq(Surface) /\ comments' \in Seq(Surface) /\ inline' \in Seq(InlineComments)
    /\ FaultsGrow

LEMMA WorksMoves ==
    ASSUME Shaped, NEW t \in Slots, Works(t) \/ Killed(t)
    PROVE  TaskMoves(t) /\ GitHubTyped
<1>1. checks \in Seq(Surface) /\ comments \in Seq(Surface) /\ inline \in Seq(InlineComments)
    BY DEF Shaped, Typed
<1>2. CASE Load(t) \/ Claim(t) \/ Build(t) \/ Flush(t) \/ Authority(t)
    BY <1>1, <1>2, LoadFacts, ClaimFacts, BuildFacts, FlushFacts, AuthorityFacts DEF gitHub, GitHubTyped, FaultsGrow
<1>3. CASE Save(t) \/ Complete(t) \/ Leave(t)
    BY <1>1, <1>3, SaveFacts, CompleteFacts, LeaveFacts DEF gitHub, GitHubTyped, FaultsGrow
<1>4. CASE WriteCheck(t)
    BY <1>1, <1>4, WriteCheckFacts DEF GitHubTyped, FaultsGrow, Shows, Fails
<1>5. CASE WriteComment(t)
    BY <1>1, <1>5, WriteCommentFacts DEF GitHubTyped, FaultsGrow, Shows, Fails
<1>6. ASSUME NEW f \in Findings, PostInline(t, f)
      PROVE  TaskMoves(t) /\ GitHubTyped
    <2>1. task[t].job \in Slots
        BY <1>6, HasJob DEF PostInline, At
    <2> DEFINE c == [job |-> task[t].job, finding |-> f, live |-> TRUE]
    <2>2. c \in InlineComments /\ inline' = Append(inline, c)
        BY <1>6, <2>1, PostInlineFacts DEF InlineComments
    <2>3. inline' \in Seq(InlineComments)
        <3> HIDE DEF c
        <3> QED BY <1>1, <2>2, AppendProperties
    <2> QED BY <1>1, <1>6, <2>3, PostInlineFacts DEF GitHubTyped, FaultsGrow, Fails
<1>7. ASSUME NEW f \in Findings, Refused(t, f)
      PROVE  TaskMoves(t) /\ GitHubTyped
    BY <1>1, <1>7, RefusedFacts DEF gitHub, GitHubTyped, FaultsGrow, Fails
<1>8. CASE CloseInline(t)
    BY <1>1, <1>8, CloseInlineFacts DEF GitHubTyped, FaultsGrow, Shows, Fails
<1>9. CASE Skip(t)
    BY <1>1, <1>9, SkipFacts DEF GitHubTyped, FaultsGrow, Shows
<1>10. CASE WithdrawCheck(t) \/ WithdrawComment(t)
    BY <1>1, <1>10, WithdrawCheckFacts, WithdrawCommentFacts DEF GitHubTyped, FaultsGrow, Shows
<1>11. CASE WithdrawInline(t)
    BY <1>1, <1>11, WithdrawInlineFacts DEF GitHubTyped, FaultsGrow, DeletedOnly
<1>12. CASE FailsForNow(t) \/ FailsForGood(t) \/ Killed(t)
    BY <1>1, <1>12, FailsForNowFacts, FailsForGoodFacts, KilledFacts DEF gitHub, GitHubTyped, FaultsGrow
<1>13. CASE Fail(t) \/ MarkFailed(t)
    BY <1>1, <1>13, FailFacts, MarkFailedFacts DEF GitHubTyped, FaultsGrow, Shows
<1> QED BY <1>2, <1>3, <1>4, <1>5, <1>6, <1>7, <1>8, <1>9, <1>10, <1>11, <1>12, <1>13 DEF Works, Writes, Withdraws

-----------------------------------------------------------------------------
(* Jobs and tasks are handed out.                                          *)

\* Task t, the next one, is queued for job j, which exists.
HandsOut(t, j) ==
    /\ t = dispatched + 1 /\ t \in Slots /\ task[t].job = 0 /\ dispatched' = t
    /\ j # 0 /\ j \in 1 .. created'
    /\ DOMAIN task' = Slots /\ \A u \in Slots \ {t} : task'[u] = task[u]
    /\ IsTask(task'[t]) /\ task'[t].job = j /\ task'[t].pc = "queued"
    /\ task'[t].row = NoJob /\ task'[t].other = 0

\* Job j, the next one, is new and publishes run r.
NewJob(j, r) ==
    /\ j = created + 1 /\ j \in Slots /\ created' = j
    /\ job' \in [Slots -> JobRow] /\ \A k \in Slots \ {j} : job'[k] = job[k]
    /\ job'[j].run = r /\ job'[j].status = "pending"
    /\ job'[j].check \in {0, pipelineCheck[r]} /\ job'[j].comment = 0

LEMMA DispatchFacts ==
    ASSUME Shaped, NEW j \in Nat \ {0}, j \in 1 .. created', NEW left \in Nat, Dispatch(j, left),
           dispatched + 1 \in Slots
    PROVE  HandsOut(dispatched + 1, j)
<1> DEFINE t == dispatched + 1
           y == [NoTask EXCEPT !.job = j, !.pc = "queued", !.left = left]
<1>1. DOMAIN task = Slots /\ dispatched \in Nat /\ t \in Slots /\ IsTask(task[t])
    BY DEF Shaped, Typed
<1>2. task[t].job = 0
    BY <1>1 DEF Shaped, InSlots
<1>3. dispatched' = t /\ task' = [task EXCEPT ![t] = y]
    BY DEF Dispatch
<1>4. NoJob \in JobRow
    BY DEF NoJob, JobRow
<1>5. DOMAIN y = TaskFields /\ y.job = j /\ y.pc = "queued" /\ y.left = left
    BY DEF NoTask, TaskFields
<1>6. y.locks = FALSE /\ y.row = NoJob /\ y.base = NoJob /\ y.kept = {} /\ y.other = 0 /\ y.posting = FALSE /\ y.todo = {}
      /\ y.recovered = {} /\ y.wrote = {}
    BY DEF NoTask
<1> HIDE DEF y, t
<1>7. IsTask(y)
    <2>1. y.job \in Nat /\ y.pc \in PcOfTask /\ y.left \in Nat /\ y.locks \in BOOLEAN
        BY <1>5, <1>6 DEF PcOfTask
    <2>2. y.row \in JobRow /\ y.base \in JobRow /\ y.row.run = y.base.run
        BY <1>4, <1>6
    <2>3. y.kept \subseteq Findings /\ y.todo \subseteq Findings /\ y.recovered \subseteq Findings /\ y.wrote \subseteq Nat
        BY <1>6
    <2>4. y.other \in Nat
        BY <1>6
    <2>5. y.posting \in BOOLEAN
        BY <1>6, Zenon
    <2> QED BY <1>5, <2>1, <2>2, <2>3, <2>4, <2>5 DEF IsTask
<1>8. DOMAIN task' = Slots /\ task'[t] = y /\ \A u \in Slots \ {t} : task'[u] = task[u]
    BY <1>1, <1>3
<1> QED BY <1>1, <1>2, <1>3, <1>5, <1>6, <1>7, <1>8 DEF HandsOut, t

LEMMA InsertFacts ==
    ASSUME Shaped, NEW r \in Runs, NEW check \in {0, pipelineCheck[r]}, Insert(r, check), created + 1 \in Slots
    PROVE  NewJob(created + 1, r)
<1> DEFINE j == created + 1
           v == [NoJob EXCEPT !.run = r, !.status = "pending", !.check = check]
<1>1. job \in [Slots -> JobRow] /\ created' = j /\ job' = [job EXCEPT ![j] = v] /\ j \in Slots
    BY DEF Insert, Shaped, Typed
<1>2. v \in JobRow /\ v.run = r /\ v.status = "pending" /\ v.check = check /\ v.comment = 0
    <2>1. check \in Nat
        BY DEF Shaped, Typed
    <2> QED BY <2>1 DEF NoJob, JobRow, Open
<1> HIDE DEF v, j
<1> QED BY <1>1, <1>2 DEF NewJob, j

\* The steps that are not of a task.
Elsewhere ==
    /\ UNCHANGED <<job, created, task, dispatched, comments, inline, faults>>
    /\ \E id \in Nat : Shows(checks, checks', id, Progress)
    /\ \A r \in Runs : pipelineCheck'[r] \in {0, pipelineCheck[r], Len(checks')}

LEMMA RoomForOne ==
    ASSUME Shaped, Cardinality(DoneRuns) + requests < Cardinality(Runs) + MaxRequests \/ api # 0
    PROVE  dispatched + 1 \in Slots /\ created + 1 \in Slots
<1>1. /\ created \in Nat /\ dispatched \in Nat /\ requests \in 0 .. MaxRequests
      /\ created + Pending <= Cardinality(DoneRuns) + requests
      /\ dispatched + Pending <= Cardinality(DoneRuns) + requests
      /\ Pending \in {0, 1} /\ (api # 0 => Pending = 1)
    BY DEF Shaped, Typed, Counted, Pending
<1>2. /\ Cardinality(Runs) \in Nat /\ MaxRequests \in Nat /\ Cardinality(DoneRuns) \in Nat
      /\ Cardinality(DoneRuns) <= Cardinality(Runs)
    BY CountFacts
<1>3. created + 1 <= Cardinality(Runs) + MaxRequests /\ dispatched + 1 <= Cardinality(Runs) + MaxRequests
    BY <1>1, <1>2
<1> QED BY <1>1, <1>2, <1>3 DEF Slots
\* A task is handed out, for a job that is there or for a new one.
Handed(t, j) ==
    /\ HandsOut(t, j)
    /\ (\E r \in Runs : NewJob(j, r)) \/ UNCHANGED <<job, created>>
    /\ UNCHANGED <<runVars, gitHub, faults>>

LEMMA HandedShaped ==
    ASSUME Shaped, NEW t, NEW j, Handed(t, j), Counted',
           resolver' \in [Runs -> {"none", "queued", "done"}], api' \in Runs \cup {0}, requests' \in 0 .. MaxRequests
    PROVE  Shaped'
<1>1. created' \in Nat /\ created <= created' /\ job' \in [Slots -> JobRow]
      /\ \A k \in Slots : k <= created' => job'[k].run \in Runs
    <2>1. created \in Nat /\ job \in [Slots -> JobRow] /\ \A k \in Slots : k <= created => job[k].run \in Runs
        BY DEF Shaped, Typed, InSlots
    <2>2. CASE UNCHANGED <<job, created>>
        BY <2>1, <2>2
    <2>3. ASSUME NEW r \in Runs, NewJob(j, r)
          PROVE  <1>1!1 /\ <1>1!2
        BY <2>1, <2>3 DEF NewJob, Slots
    <2> QED BY <2>2, <2>3 DEF Handed
<1>2. Typed'
    <2>1. DOMAIN task' = Slots /\ \A u \in Slots : IsTask(task'[u])
        BY DEF Shaped, Typed, Handed, HandsOut
    <2>2. dispatched' \in Nat
        BY DEF Shaped, Typed, Handed, HandsOut
    <2>3. UNCHANGED <<checks, comments, inline, faults, runSha, runFindings, pipelineCheck>>
        BY DEF Handed, gitHub, runVars
    <2> QED BY <1>1, <2>1, <2>2, <2>3 DEF Shaped, Typed, Slots
<1>3. InSlots'
    <2>1. \A u \in Slots : task'[u].job <= created'
        <3>1. \A u \in Slots : task[u].job <= created /\ task[u].job \in Nat
            BY DEF Shaped, InSlots, Typed, IsTask
        <3>2. created \in Nat
            BY DEF Shaped, Typed
        <3> QED BY <1>1, <3>1, <3>2 DEF Handed, HandsOut
    <2>2. \A u \in Slots : task'[u].pc # "none" => task'[u].job # 0
        BY DEF Shaped, InSlots, Handed, HandsOut
    <2>3. \A u \in Slots : task'[u].job # 0 => u <= dispatched'
        <3>1. dispatched \in Nat /\ dispatched' = dispatched + 1 /\ t = dispatched + 1 /\ \A u \in Slots : u \in Nat
            BY DEF Shaped, Typed, Handed, HandsOut, Slots
        <3>2. \A u \in Slots : task[u].job # 0 => u <= dispatched
            BY DEF Shaped, InSlots
        <3> QED BY <3>1, <3>2 DEF Handed, HandsOut
    <2> QED BY <1>1, <2>1, <2>2, <2>3 DEF InSlots
<1> QED BY <1>2, <1>3 DEF Shaped

\* What each of the steps that are not of a task does.
LEMMA ResolveHands ==
    ASSUME Shaped, NEW r \in Runs, Resolve(r)
    PROVE  Shaped' /\ \E t, j : Handed(t, j)
<1>1. resolver[r] = "queued" /\ resolver' = [resolver EXCEPT ![r] = "done"] /\ UNCHANGED <<runVars, gitHub, api, requests, faults>>
    BY DEF Resolve
<1>2. resolver \in [Runs -> {"none", "queued", "done"}] /\ created \in Nat /\ dispatched \in Nat
    BY DEF Shaped, Typed
<1>3. DoneRuns' = DoneRuns \cup {r} /\ r \notin DoneRuns
    BY <1>1, <1>2 DEF DoneRuns
<1>4. Cardinality(DoneRuns') = Cardinality(DoneRuns) + 1
    BY <1>3, CountFacts, FS_AddElement
<1>5. dispatched + 1 \in Slots /\ created + 1 \in Slots
    <2>1. DoneRuns # Runs
        BY <1>3
    <2>2. /\ Cardinality(DoneRuns) < Cardinality(Runs) /\ Cardinality(DoneRuns) \in Nat /\ Cardinality(Runs) \in Nat
          /\ MaxRequests \in Nat /\ requests \in 0 .. MaxRequests
        BY <2>1, CountFacts DEF Shaped, Typed
    <2> QED BY <2>2, RoomForOne
<1>6. PICK j : Handed(dispatched + 1, j) /\ created' <= created + 1 /\ dispatched' = dispatched + 1
    <2>1. CASE OpenJobs(r) = {}
        <3>1. Insert(r, pipelineCheck[r]) /\ Dispatch(created + 1, MaxRetries) /\ created' = created + 1
            BY <2>1 DEF Resolve, Insert
        <3>2. NewJob(created + 1, r)
            BY <1>5, <3>1, InsertFacts DEF Shaped, Typed
        <3>3. created + 1 \in Nat \ {0} /\ created + 1 \in 1 .. created' /\ MaxRetries \in Nat
            BY <1>2, <3>1, PublishAssumption
        <3>4. HandsOut(dispatched + 1, created + 1)
            BY <1>5, <3>1, <3>3, DispatchFacts
        <3> QED BY <1>1, <1>2, <3>1, <3>2, <3>4 DEF Handed, HandsOut
    <2>2. CASE OpenJobs(r) # {}
        <3>1. PICK j \in OpenJobs(r) : Dispatch(j, MaxRetries)
            BY <2>2 DEF Resolve
        <3>2. UNCHANGED <<job, created>>
            BY <2>2 DEF Resolve
        <3>3. j \in Nat \ {0} /\ j \in 1 .. created' /\ MaxRetries \in Nat
            BY <1>2, <3>2, PublishAssumption DEF OpenJobs, Jobs
        <3>4. HandsOut(dispatched + 1, j)
            BY <1>5, <3>1, <3>3, DispatchFacts
        <3> QED BY <1>1, <1>2, <3>2, <3>4 DEF Handed, HandsOut
    <2> QED BY <2>1, <2>2
<1>7. Counted'
    <2>1. Pending' = Pending /\ Pending \in {0, 1} /\ requests' = requests /\ requests \in 0 .. MaxRequests /\ MaxRequests \in Nat
        BY <1>1, CountFacts DEF Pending, Shaped, Typed
    <2>2. created + Pending <= Cardinality(DoneRuns) + requests /\ dispatched + Pending <= Cardinality(DoneRuns) + requests
        BY DEF Shaped, Counted
    <2>3. created' \in Nat /\ Cardinality(DoneRuns) \in Nat
        BY <1>2, <1>6, CountFacts DEF Handed, NewJob
    <2>4. \A q \in Runs : runSha'[q] = NoSha => resolver'[q] = "none"
        BY <1>1, <1>2 DEF Shaped, Counted, runVars
    <2>5. created' + Pending' <= Cardinality(DoneRuns') + requests' /\ dispatched' + Pending' <= Cardinality(DoneRuns') + requests'
        BY <1>2, <1>4, <1>6, <2>1, <2>2, <2>3
    <2> QED BY <2>4, <2>5 DEF Counted
<1>8. Shaped'
    BY <1>1, <1>2, <1>6, <1>7, HandedShaped DEF Shaped, Typed
<1> QED BY <1>6, <1>8

LEMMA CommitRequestHands ==
    ASSUME Shaped, CommitRequest
    PROVE  Shaped' /\ \E t, j : Handed(t, j)
<1>1. api # 0 /\ api' = 0 /\ Insert(api, 0) /\ UNCHANGED <<runVars, gitHub, resolver, requests, faults>>
    BY DEF CommitRequest
<1>2. api \in Runs /\ created \in Nat /\ dispatched \in Nat /\ MaxRetries \in Nat
    BY <1>1, PublishAssumption DEF Shaped, Typed
<1>3. PICK left \in Nat : Dispatch(created + 1, left)
    BY <1>2 DEF CommitRequest
<1>4. dispatched + 1 \in Slots /\ created + 1 \in Slots
    BY <1>1, RoomForOne
<1>5. NewJob(created + 1, api) /\ created' = created + 1
    BY <1>1, <1>2, <1>4, InsertFacts DEF Insert
<1>6. HandsOut(dispatched + 1, created + 1) /\ dispatched' = dispatched + 1
    BY <1>2, <1>3, <1>4, <1>5, DispatchFacts DEF HandsOut
<1>7. Handed(dispatched + 1, created + 1)
    BY <1>1, <1>2, <1>5, <1>6 DEF Handed
<1>8. Counted'
    <2>1. Pending' = 0 /\ Pending = 1 /\ DoneRuns' = DoneRuns
        BY <1>1 DEF Pending, DoneRuns
    <2>2. created + Pending <= Cardinality(DoneRuns) + requests /\ dispatched + Pending <= Cardinality(DoneRuns) + requests
        BY DEF Shaped, Counted
    <2>3. Cardinality(DoneRuns) \in Nat /\ requests' = requests /\ requests \in Nat
        BY <1>1, CountFacts DEF Shaped, Typed
    <2>4. created' + Pending' <= Cardinality(DoneRuns') + requests' /\ dispatched' + Pending' <= Cardinality(DoneRuns') + requests'
        BY <1>2, <1>5, <1>6, <2>1, <2>2, <2>3
    <2> QED BY <1>1, <2>4 DEF Shaped, Counted, runVars
<1>9. Shaped'
    BY <1>1, <1>7, <1>8, HandedShaped DEF Shaped, Typed
<1> QED BY <1>7, <1>9

LEMMA RequestPublishHands ==
    ASSUME Shaped, NEW r \in Runs, RequestPublish(r)
    PROVE  Shaped' /\ (Elsewhere \/ \E t, j : Handed(t, j))
<1>1. /\ api = 0 /\ requests < MaxRequests /\ requests' = requests + 1
      /\ UNCHANGED <<runVars, resolver, job, created, gitHub, faults>>
    BY DEF RequestPublish
<1>2. created \in Nat /\ dispatched \in Nat /\ MaxRetries \in Nat /\ MaxRequests \in Nat /\ requests \in 0 .. MaxRequests
      /\ Cardinality(DoneRuns) \in Nat /\ Cardinality(Runs) \in Nat /\ Cardinality(DoneRuns) <= Cardinality(Runs)
    BY CountFacts, PublishAssumption DEF Shaped, Typed
<1>3. requests' \in 0 .. MaxRequests
    BY <1>1, <1>2
<1>4. Pending = 0 /\ DoneRuns' = DoneRuns /\ created <= Cardinality(DoneRuns) + requests /\ dispatched <= Cardinality(DoneRuns) + requests
    BY <1>1, <1>2 DEF Pending, DoneRuns, Shaped, Counted
<1>5. CASE OpenJobs(r) = {}
    <2>1. api' = r /\ UNCHANGED <<task, dispatched>>
        BY <1>5 DEF RequestPublish
    <2>2. Pending' \in {0, 1}
        BY DEF Pending
    <2>3. created' + Pending' <= Cardinality(DoneRuns') + requests' /\ dispatched' + Pending' <= Cardinality(DoneRuns') + requests'
        BY <1>1, <1>2, <1>4, <2>1, <2>2
    <2>4. Counted'
        BY <1>1, <2>3 DEF Shaped, Counted, runVars
    <2>5. Typed' /\ InSlots'
        BY <1>1, <1>3, <2>1 DEF Shaped, Typed, InSlots, runVars, gitHub, Slots
    <2>6. Shows(checks, checks', 0, Progress)
        BY <1>1, NothingShown, TextTypes DEF Shaped, Typed, gitHub
    <2> QED BY <1>1, <2>1, <2>4, <2>5, <2>6 DEF Shaped, Elsewhere, gitHub, runVars
<1>6. CASE OpenJobs(r) # {}
    <2>1. PICK j \in OpenJobs(r), left \in Nat : Dispatch(j, left)
        BY <1>2, <1>6 DEF RequestPublish
    <2>2. api' = api
        BY <1>6 DEF RequestPublish
    <2>3. dispatched + 1 \in Slots
        BY <1>1, <1>2, RoomForOne
    <2>4. j \in Nat \ {0} /\ j \in 1 .. created'
        BY <1>1, <1>2 DEF OpenJobs, Jobs
    <2>5. HandsOut(dispatched + 1, j) /\ dispatched' = dispatched + 1
        BY <2>1, <2>3, <2>4, DispatchFacts DEF HandsOut
    <2>6. Handed(dispatched + 1, j)
        BY <1>1, <2>5 DEF Handed
    <2>7. Pending' = 0
        BY <1>1, <2>2 DEF Pending
    <2>8. created' + Pending' <= Cardinality(DoneRuns') + requests' /\ dispatched' + Pending' <= Cardinality(DoneRuns') + requests'
        BY <1>1, <1>2, <1>4, <2>5, <2>7
    <2>9. Counted'
        BY <1>1, <2>8 DEF Shaped, Counted, runVars
    <2> QED BY <1>1, <1>3, <2>2, <2>6, <2>9, HandedShaped DEF Shaped, Typed
<1> QED BY <1>5, <1>6

LEMMA CompleteRunShaped ==
    ASSUME Shaped, NEW r \in Runs, NEW s \in Shas, NEW F \in SUBSET Findings, NEW opened \in Openings,
           CompleteRun(r, s, F, opened)
    PROVE  Shaped' /\ Elsewhere
<1>1. /\ runSha[r] = NoSha /\ runSha' = [runSha EXCEPT ![r] = s] /\ runFindings' = [runFindings EXCEPT ![r] = F]
      /\ resolver' = [resolver EXCEPT ![r] = "queued"]
      /\ UNCHANGED <<job, created, task, dispatched, comments, inline, api, requests, faults>>
    BY DEF CompleteRun
<1>2. checks \in Seq(Surface) /\ Progress \in Surface /\ Len(checks) \in Nat
    BY TextTypes, LenProperties DEF Shaped, Typed
<1>3. \E id \in Nat : Shows(checks, checks', id, Progress)
    <2>1. CASE checks' = Append(checks, Progress)
        BY <1>2, <2>1, AppendShows
    <2>2. CASE checks' = checks
        BY <1>2, <2>2, NothingShown
    <2> QED BY <2>1, <2>2 DEF CompleteRun
<1>4. checks' \in Seq(Surface)
    BY <1>3 DEF Shows
<1>5. runSha' \in [Runs -> Shas \cup {NoSha}] /\ runFindings' \in [Runs -> SUBSET Findings]
      /\ resolver' \in [Runs -> {"none", "queued", "done"}]
    BY <1>1 DEF Shaped, Typed
<1>6. pipelineCheck' \in [Runs -> Nat]
    <2> DEFINE id == IF opened THEN Len(checks) + 1 ELSE 0
    <2>1. id \in Nat
        BY <1>2
    <2>2. pipelineCheck' = [pipelineCheck EXCEPT ![r] = id]
        BY DEF CompleteRun
    <2> HIDE DEF id
    <2> QED BY <2>1, <2>2 DEF Shaped, Typed
<1>7. Typed' /\ InSlots'
    BY <1>1, <1>4, <1>5, <1>6 DEF Shaped, Typed, InSlots, Slots
<1>8. Counted'
    <2>1. resolver[r] = "none"
        BY <1>1 DEF Shaped, Counted
    <2>2. DoneRuns' = DoneRuns
        BY <1>1, <2>1 DEF DoneRuns, Shaped, Typed
    <2>3. \A q \in Runs : runSha'[q] = NoSha => resolver'[q] = "none"
        BY <1>1, PublishAssumption DEF Shaped, Counted, Typed
    <2>4. Pending' = Pending
        BY <1>1 DEF Pending
    <2> QED BY <1>1, <2>2, <2>3, <2>4 DEF Shaped, Counted
<1>9. \A q \in Runs : pipelineCheck'[q] \in {0, pipelineCheck[q], Len(checks')}
    <2> DEFINE id == IF opened THEN Len(checks) + 1 ELSE 0
    <2>1. pipelineCheck' = [pipelineCheck EXCEPT ![r] = id] /\ pipelineCheck \in [Runs -> Nat]
        BY DEF CompleteRun, Shaped, Typed
    <2>2. id \in {0, Len(checks')}
        <3>1. opened => checks' = Append(checks, Progress)
            BY DEF CompleteRun
        <3> QED BY <1>2, <3>1, AppendProperties
    <2> HIDE DEF id
    <2> QED BY <2>1, <2>2
<1> QED BY <1>1, <1>3, <1>7, <1>8, <1>9 DEF Shaped, Elsewhere

LEMMA MovesShaped ==
    ASSUME Shaped, NEW t \in Slots, TaskMoves(t), GitHubTyped
    PROVE  Shaped'
<1>1. UNCHANGED <<runSha, runFindings, pipelineCheck, resolver, created, dispatched, api, requests>>
    BY DEF TaskMoves, Others, runVars
<1>2. faults' \in Nat
    BY DEF Shaped, Typed, GitHubTyped, FaultsGrow
<1>3. job' \in [Slots -> JobRow]
    BY DEF TaskMoves
<1>4. \A u \in Slots : IsTask(task'[u]) /\ task'[u].job = task[u].job
    BY DEF TaskMoves, Shaped, Typed
<1>5. Typed'
    BY <1>1, <1>2, <1>3, <1>4 DEF Shaped, Typed, TaskMoves, GitHubTyped, Slots
<1>6. InSlots'
    <2>1. \A k \in Slots : job'[k].run = job[k].run
        BY DEF TaskMoves
    <2>2. \A u \in Slots : task[u].pc = "none" /\ task'[u].pc # "none" => FALSE
        BY DEF TaskMoves
    <2> QED BY <1>1, <1>4, <2>1, <2>2 DEF Shaped, InSlots, Slots
<1>7. Counted'
    BY <1>1 DEF Shaped, Counted, Pending, DoneRuns
<1> QED BY <1>5, <1>6, <1>7 DEF Shaped
\* What a step does: nothing to tasks and jobs, a task is handed out, or a task moves.
LEMMA StepCases ==
    ASSUME Shaped, [Next]_vars
    PROVE  /\ Shaped'
           /\ Elsewhere \/ (\E t, j : Handed(t, j)) \/ \E t \in Slots : Works(t) \/ Killed(t)
<1>1. ASSUME NEW s \in Shas, Push(s)
      PROVE  Shaped' /\ Elsewhere
    <2>1. UNCHANGED <<runVars, resolver, job, created, task, dispatched, gitHub, api, requests, faults>>
        BY <1>1 DEF Push
    <2>2. Shaped'
        BY <2>1 DEF Shaped, Typed, Counted, InSlots, Pending, DoneRuns, Slots, runVars, gitHub
    <2>3. Shows(checks, checks', 0, Progress)
        BY <2>1, NothingShown, TextTypes DEF Shaped, Typed, gitHub
    <2> QED BY <2>1, <2>2, <2>3 DEF Elsewhere, gitHub, runVars
<1>2. CASE Rest \/ UNCHANGED vars
    <2>1. UNCHANGED <<head, pushes, runVars, resolver, job, created, task, dispatched, gitHub, api, requests, faults>>
        BY <1>2 DEF Rest, vars
    <2>2. Shaped'
        BY <2>1 DEF Shaped, Typed, Counted, InSlots, Pending, DoneRuns, Slots, runVars, gitHub
    <2>3. Shows(checks, checks', 0, Progress)
        BY <2>1, NothingShown, TextTypes DEF Shaped, Typed, gitHub
    <2> QED BY <2>1, <2>2, <2>3 DEF Elsewhere, gitHub, runVars
<1>3. ASSUME NEW t \in Slots, Works(t) \/ Killed(t)
      PROVE  Shaped'
    BY <1>3, WorksMoves, MovesShaped
<1> QED BY <1>1, <1>2, <1>3, CompleteRunShaped, ResolveHands, RequestPublishHands, CommitRequestHands DEF Next

LEMMA ShapedStarts == Init => Shaped
<1> SUFFICES ASSUME Init PROVE Shaped
    OBVIOUS
<1>1. NoJob \in JobRow
    BY DEF NoJob, JobRow
<1>2. IsTask(NoTask) /\ NoTask.job = 0 /\ NoTask.pc = "none"
    <2>1. DOMAIN NoTask = TaskFields /\ NoTask.job = 0 /\ NoTask.pc = "none" /\ NoTask.left = 0 /\ NoTask.row = NoJob /\ NoTask.base = NoJob
          /\ NoTask.kept = {} /\ NoTask.other = 0 /\ NoTask.todo = {} /\ NoTask.recovered = {} /\ NoTask.wrote = {}
        BY DEF NoTask, TaskFields
    <2>2. NoTask.locks \in BOOLEAN /\ NoTask.posting \in BOOLEAN
        BY DEF NoTask
    <2> QED BY <1>1, <2>1, <2>2 DEF IsTask, PcOfTask
<1>3. IsFiniteSet({}) /\ Cardinality({}) = 0 /\ DoneRuns = {}
    BY FS_EmptySet DEF Init, DoneRuns
<1>4. Typed
    BY <1>1, <1>2, PublishAssumption DEF Init, Typed
<1>5. Counted /\ InSlots
    <2>1. created = 0 /\ dispatched = 0 /\ requests = 0 /\ Pending = 0
        BY DEF Init, Pending
    <2>2. Counted
        BY <1>3, <2>1 DEF Counted, Init
    <2>3. \A j \in Slots : ~ (j <= created)
        BY <2>1, PublishAssumption, FS_CardinalityType DEF Slots
    <2> QED BY <1>2, <2>1, <2>2, <2>3 DEF InSlots, Init
<1> QED BY <1>4, <1>5 DEF Shaped

-----------------------------------------------------------------------------
(* A finding is posted once.                                               *)

\* No other task works on the job of t.
Sole(t) == task[t].job # 0 /\ \A u \in Slots \ {t} : task[u].job # task[t].job

\* Every job has a task, and every inline comment is of a job.
Staffed ==
    /\ \A j \in Jobs : \E t \in Slots : task[t].job = j
    /\ \A i \in DOMAIN inline : inline[i].job \in Jobs

Posted(j) == {inline[i].finding : i \in {i \in DOMAIN inline : inline[i].job = j}}

Once(j) ==
    \A i, k \in DOMAIN inline :
      inline[i].job = j /\ inline[k].job = j /\ inline[i].finding = inline[k].finding => i = k

\* Where a task is before, while and after it writes the surfaces of its job.
Surfaces == {"check", "comment", "written", "save", "saved", "inline", "post"}
Early    == {"claim", "build", "flush"}

\* While a task may still post, the committed threads tell what has been posted, but for
\* the finding that it is about to commit; its copy of the row has them again before it
\* writes, and what it is to post is not among them.
PostsOnce(t, j) ==
    LET x == task[t]
    IN  /\ Once(j)
        /\ x.pc \in {"queued"} \cup Early \cup Surfaces => Posted(j) \subseteq job[j].threads
        /\ x.pc \in {"claim", "build"} => x.row.threads = job[j].threads
        /\ x.pc = "flush" => Posted(j) \subseteq x.kept
        /\ x.pc \in Surfaces \cup {"save inline"} => Posted(j) \subseteq x.row.threads
        /\ x.pc \in Early \cup Surfaces \cup {"save inline"} => x.base.threads = job[j].threads
        /\ x.pc \in Surfaces \cup {"flush", "save inline"} => x.todo \cap Posted(j) = {}

\* GitHub answers what it carries out.
RepliesArrive == "lost reply" \notin Faults

PostsInv == Staffed /\ \A t \in Slots, j \in Slots : Sole(t) /\ task[t].job = j => PostsOnce(t, j)

\* The inline comments are of the jobs and findings they were of.
InlineKept ==
    /\ DOMAIN inline' = DOMAIN inline
    /\ \A i \in DOMAIN inline : inline'[i].job = inline[i].job /\ inline'[i].finding = inline[i].finding
                                /\ (inline'[i].live => inline[i].live)

LEMMA KeptPosts ==
    ASSUME InlineKept, NEW j
    PROVE  Posted(j)' = Posted(j) /\ (Once(j) => Once(j)')
BY DEF InlineKept, Posted, Once

\* A comment more: of job k and finding f.
AddedPost(k, f) ==
    LET n == Len(inline) + 1
    IN  /\ n \notin DOMAIN inline /\ DOMAIN inline' = DOMAIN inline \cup {n}
        /\ \A i \in DOMAIN inline : inline'[i] = inline[i]
        /\ inline'[n].job = k /\ inline'[n].finding = f

LEMMA AppendAdds ==
    ASSUME Shaped, NEW k \in Slots, NEW f \in Findings,
           inline' = Append(inline, [job |-> k, finding |-> f, live |-> TRUE])
    PROVE  AddedPost(k, f)
<1> DEFINE c == [job |-> k, finding |-> f, live |-> TRUE]
<1>1. inline \in Seq(InlineComments) /\ c \in InlineComments /\ c.job = k /\ c.finding = f
    BY DEF Shaped, Typed, InlineComments
<1>2. inline' = Append(inline, c)
    OBVIOUS
<1> HIDE DEF c
<1>3. /\ Len(inline) \in Nat /\ DOMAIN inline = 1 .. Len(inline)
      /\ Len(inline') = Len(inline) + 1 /\ inline' \in Seq(InlineComments)
      /\ inline'[Len(inline) + 1] = c /\ \A i \in 1 .. Len(inline) : inline'[i] = inline[i]
    BY <1>1, <1>2, AppendProperties, LenProperties
<1>4. DOMAIN inline' = 1 .. (Len(inline) + 1)
    BY <1>3, LenProperties
<1> QED BY <1>1, <1>3, <1>4 DEF AddedPost

LEMMA AddedPosts ==
    ASSUME NEW k, NEW f, AddedPost(k, f)
    PROVE  /\ \A j : j # k => Posted(j)' = Posted(j) /\ (Once(j) => Once(j)')
           /\ Posted(k)' = Posted(k) \cup {f}
           /\ Once(k) /\ f \notin Posted(k) => Once(k)'
<1> DEFINE n == Len(inline) + 1
<1>1. /\ n \notin DOMAIN inline /\ DOMAIN inline' = DOMAIN inline \cup {n}
      /\ \A i \in DOMAIN inline : inline'[i] = inline[i]
      /\ inline'[n].job = k /\ inline'[n].finding = f
    BY DEF AddedPost
<1> HIDE DEF n
<1>2. ASSUME NEW j, j # k
      PROVE  Posted(j)' = Posted(j) /\ (Once(j) => Once(j)')
    BY <1>1, <1>2 DEF Posted, Once
<1>3. Posted(k)' = Posted(k) \cup {f}
    BY <1>1 DEF Posted
<1>4. ASSUME Once(k), f \notin Posted(k)
      PROVE  Once(k)'
    BY <1>1, <1>4 DEF Posted, Once
<1> QED BY <1>2, <1>3, <1>4

\* Every step of a task but the post keeps the comments.
LEMMA WorksKeep ==
    ASSUME Shaped, NEW t \in Slots, Works(t) \/ Killed(t)
    PROVE  InlineKept \/ \E f \in Findings : PostInline(t, f) /\ AddedPost(task[t].job, f)
<1>1. ASSUME UNCHANGED inline
      PROVE  InlineKept
    BY <1>1 DEF InlineKept
<1>2. ASSUME NEW i, DeletedOnly(i)
      PROVE  InlineKept
    BY <1>2 DEF InlineKept, DeletedOnly
<1>3. CASE Load(t) \/ Claim(t) \/ Build(t) \/ Flush(t) \/ Authority(t)
    BY <1>1, <1>3, LoadFacts, ClaimFacts, BuildFacts, FlushFacts, AuthorityFacts DEF gitHub
<1>4. CASE Save(t) \/ Complete(t) \/ Leave(t)
    BY <1>1, <1>4, SaveFacts, CompleteFacts, LeaveFacts DEF gitHub
<1>5. CASE WriteCheck(t) \/ WriteComment(t) \/ CloseInline(t) \/ Skip(t) \/ WithdrawCheck(t) \/ WithdrawComment(t)
    BY <1>1, <1>5, WriteCheckFacts, WriteCommentFacts, CloseInlineFacts, SkipFacts, WithdrawCheckFacts, WithdrawCommentFacts
<1>6. ASSUME NEW f \in Findings, PostInline(t, f)
      PROVE  AddedPost(task[t].job, f)
    BY <1>6, AppendAdds, HasJob, PostInlineFacts
<1>7. ASSUME NEW f \in Findings, Refused(t, f)
      PROVE  InlineKept
    BY <1>1, <1>7, RefusedFacts DEF gitHub
<1>8. CASE WithdrawInline(t)
    BY <1>1, <1>2, <1>8, WithdrawInlineFacts
<1>9. CASE FailsForNow(t) \/ FailsForGood(t) \/ Killed(t) \/ Fail(t) \/ MarkFailed(t)
    BY <1>1, <1>9, FailsForNowFacts, FailsForGoodFacts, KilledFacts, FailFacts, MarkFailedFacts DEF gitHub
<1> QED BY <1>3, <1>4, <1>5, <1>6, <1>7, <1>8, <1>9 DEF Works, Writes, Withdraws

\* The places where nothing is claimed of what a task may post.
Behind == {"none", "done", "lost", "failing", "fail", "skip", "withdraw", "withdraw check", "withdraw comment",
           "withdraw inline", "leave", "checkpoint", "complete"}

LEMMA MoverPosts ==
    ASSUME Shaped, NEW t \in Slots, NEW j \in Slots, task[t].job = j, PostsOnce(t, j),
           RepliesArrive, Works(t) \/ Killed(t)
    PROVE  PostsOnce(t, j)'
<1> USE DEF Early, Surfaces
<1>1. ASSUME InlineKept
      PROVE  Posted(j)' = Posted(j) /\ Once(j)'
    BY <1>1, KeptPosts DEF PostsOnce
<1>2. ~ Fails("lost reply")
    BY DEF Fails, RepliesArrive
<1>3. ASSUME Once(j)', task'[t].pc \in Behind
      PROVE  PostsOnce(t, j)'
    BY <1>3 DEF PostsOnce, Behind
<1>4. CASE Load(t)
    <2>1. InlineKept
        BY <1>4, LoadFacts DEF gitHub, InlineKept
    <2> QED BY <1>1, <1>4, <2>1, LoadFacts DEF PostsOnce
<1>5. CASE Claim(t)
    <2>1. InlineKept
        BY <1>5, ClaimFacts DEF gitHub, InlineKept
    <2>2. task'[t].row.threads = task[t].row.threads /\ task'[t].base = task[t].base
        <3>1. task[t].row \in JobRow
            BY <1>5, HasJob, ClaimFacts DEF IsTask
        <3> QED BY <1>5, <3>1, ClaimFacts DEF JobRow, Keeps, TaskFields
    <2> QED BY <1>1, <1>5, <2>1, <2>2, ClaimFacts DEF PostsOnce
<1>6. CASE Build(t)
    <2>1. InlineKept
        BY <1>6, BuildFacts DEF gitHub, InlineKept
    <2>2. task'[t].base = task[t].base
        BY <1>6, BuildFacts DEF Keeps, TaskFields
    <2> QED BY <1>1, <1>6, <2>1, <2>2, BuildFacts DEF PostsOnce
<1>7. CASE Flush(t)
    <2>1. InlineKept
        BY <1>7, FlushFacts DEF gitHub, InlineKept
    <2>2. task'[t].base = task[t].base /\ task'[t].todo = task[t].todo /\ task'[t].kept = task[t].kept
        BY <1>7, FlushFacts DEF Keeps, TaskFields
    <2> QED BY <1>1, <1>7, <2>1, <2>2, FlushFacts DEF PostsOnce
<1>8. CASE Authority(t)
    <2>1. InlineKept
        BY <1>8, AuthorityFacts DEF gitHub, InlineKept
    <2>2. task'[t].base = task[t].base /\ task'[t].todo = task[t].todo /\ task'[t].row = task[t].row
        BY <1>8, AuthorityFacts DEF Keeps, TaskFields
    <2> QED BY <1>1, <1>8, <2>1, <2>2, AuthorityFacts DEF PostsOnce
<1>9. CASE WriteCheck(t)
    <2>1. InlineKept
        BY <1>9, WriteCheckFacts DEF InlineKept
    <2>2. task'[t].base = task[t].base /\ task'[t].todo = task[t].todo /\ task'[t].row.threads = task[t].row.threads
          /\ task'[t].pc = "comment" /\ task[t].pc = "check" /\ job' = job
        BY <1>2, <1>9, WriteCheckFacts DEF Keeps, TaskFields, JobFields
    <2> QED BY <1>1, <2>1, <2>2 DEF PostsOnce
<1>10. CASE WriteComment(t)
    <2>1. InlineKept
        BY <1>10, WriteCommentFacts DEF InlineKept
    <2>2. task'[t].base = task[t].base /\ task'[t].todo = task[t].todo /\ task'[t].row.threads = task[t].row.threads
          /\ task'[t].pc = "written" /\ task[t].pc = "comment" /\ job' = job
        BY <1>2, <1>10, WriteCommentFacts DEF Keeps, TaskFields, JobFields
    <2> QED BY <1>1, <2>1, <2>2 DEF PostsOnce
<1>11. CASE Save(t)
    <2>1. InlineKept
        BY <1>11, SaveFacts DEF gitHub, InlineKept
    <2>2. task'[t].todo = task[t].todo /\ task'[t].row = task[t].row /\ task'[t].base = task[t].row
          /\ \/ task[t].pc = "save" /\ task'[t].pc = "saved"
             \/ task[t].pc = "save inline" /\ task'[t].pc = "inline"
        BY <1>11, SaveFacts DEF Keeps, TaskFields, Committed
    <2>3. job'[j].threads = IF task[t].row.threads # task[t].base.threads THEN task[t].row.threads ELSE job[j].threads
        BY <1>11, SaveFacts DEF Committed, JobFields
    <2> QED BY <1>1, <2>1, <2>2, <2>3 DEF PostsOnce
<1>12. ASSUME NEW f \in Findings, PostInline(t, f)
       PROVE  PostsOnce(t, j)'
    <2>1. AddedPost(j, f)
        BY <1>12, AppendAdds, PostInlineFacts
    <2>2. /\ task[t].pc = "post" /\ f \in task[t].todo /\ task'[t].pc = "save inline"
          /\ task'[t].row.threads = task[t].row.threads \cup {f} /\ task'[t].base = task[t].base
          /\ task'[t].todo = task[t].todo \ {f} /\ job' = job
        BY <1>2, <1>12, PostInlineFacts DEF Keeps, TaskFields
    <2>3. f \notin Posted(j)
        BY <2>2 DEF PostsOnce
    <2>4. Once(j)' /\ Posted(j)' = Posted(j) \cup {f}
        BY <2>1, <2>3, AddedPosts DEF PostsOnce
    <2> QED BY <2>2, <2>3, <2>4 DEF PostsOnce
<1>13. ASSUME NEW f \in Findings, Refused(t, f)
       PROVE  PostsOnce(t, j)'
    <2>1. InlineKept
        BY <1>13, RefusedFacts DEF gitHub, InlineKept
    <2>2. task'[t].base = task[t].base /\ task'[t].todo = task[t].todo \ {f} /\ task'[t].row = task[t].row
          /\ task[t].pc = "post" /\ task'[t].pc = "inline" /\ job' = job
        BY <1>13, RefusedFacts DEF Keeps, TaskFields
    <2> QED BY <1>1, <2>1, <2>2 DEF PostsOnce
<1>14. CASE FailsForNow(t)
    <2>1. InlineKept
        BY <1>14, FailsForNowFacts DEF gitHub, InlineKept
    <2>2. task[t].pc \in {"flush"} \cup Surfaces
        BY <1>14, FailsForNowFacts DEF Calls, At
    <2> QED BY <1>1, <1>14, <2>1, <2>2, FailsForNowFacts DEF PostsOnce, Anew
<1>15. CASE CloseInline(t) \/ Complete(t) \/ Skip(t) \/ WithdrawCheck(t) \/ WithdrawComment(t) \/ WithdrawInline(t) \/ Leave(t)
            \/ FailsForGood(t) \/ Fail(t) \/ MarkFailed(t) \/ Killed(t)
    <2>1. InlineKept
        <3>1. UNCHANGED inline \/ \E i : DeletedOnly(i)
            BY <1>15, CloseInlineFacts, CompleteFacts, SkipFacts, WithdrawCheckFacts, WithdrawCommentFacts,
               WithdrawInlineFacts, LeaveFacts, FailsForGoodFacts, FailFacts, MarkFailedFacts, KilledFacts DEF gitHub
        <3> QED BY <3>1 DEF InlineKept, DeletedOnly
    <2>2. task'[t].pc \in Behind
        BY <1>2, <1>15, CloseInlineFacts, CompleteFacts, SkipFacts, WithdrawCheckFacts, WithdrawCommentFacts,
           WithdrawInlineFacts, LeaveFacts, FailsForGoodFacts, FailFacts, MarkFailedFacts, KilledFacts DEF Behind, Anew
    <2> QED BY <1>1, <1>3, <2>1, <2>2
<1> QED BY <1>4, <1>5, <1>6, <1>7, <1>8, <1>9, <1>10, <1>11, <1>12, <1>13, <1>14, <1>15 DEF Works, Writes, Withdraws
LEMMA SlotNumbers ==
    ASSUME Shaped
    PROVE  \A j \in Slots : j \in Nat /\ j >= 1
<1> DEFINE n == Cardinality(Runs) + MaxRequests
<1>1. n \in Nat
    BY CountFacts
<1>2. Slots = 1 .. n
    BY DEF Slots
<1> HIDE DEF n
<1> QED BY <1>1, <1>2

LEMMA NotNext ==
    ASSUME Shaped, NEW j \in Jobs
    PROVE  j # created + 1
<1>1. created \in Nat /\ j \in 1 .. created
    BY DEF Shaped, Typed, Jobs
<1> QED BY <1>1

LEMMA InJobs ==
    ASSUME Shaped, NEW j \in Slots, j <= created
    PROVE  j \in Jobs
BY SlotNumbers DEF Shaped, Typed, Jobs

\* The jobs that are there stay as they are when a task is handed out.
LEMMA HandedJobs ==
    ASSUME Shaped, NEW t, NEW k, Handed(t, k)
    PROVE  Jobs \subseteq Jobs' /\ \A j \in Jobs : job'[j] = job[j]
<1>1. created \in Nat /\ (created' = created \/ created' = created + 1)
    BY DEF Handed, NewJob, Shaped, Typed
<1>2. Jobs \subseteq Jobs'
    BY <1>1 DEF Jobs
<1>3. ASSUME NEW j \in Jobs
      PROVE  job'[j] = job[j]
    <2>1. CASE UNCHANGED <<job, created>>
        BY <2>1
    <2>2. ASSUME NEW r \in Runs, NewJob(k, r)
          PROVE  job'[j] = job[j]
        <3>1. k = created + 1
            BY <2>2 DEF NewJob
        <3>2. j # k
            BY <3>1, NotNext
        <3>3. j \in Slots
            BY CountFacts DEF Jobs
        <3> QED BY <2>2, <3>2, <3>3 DEF NewJob
    <2> QED BY <2>1, <2>2 DEF Handed
<1> QED BY <1>2, <1>3

\* A task that does not move and whose job nobody else writes keeps what holds of it.
LEMMA StillPosts ==
    ASSUME NEW t \in Slots, NEW j \in Slots, PostsOnce(t, j), task'[t] = task[t], job'[j] = job[j],
           Posted(j)' = Posted(j), Once(j)'
    PROVE  PostsOnce(t, j)'
BY DEF PostsOnce

\* Steps keep the jobs of tasks, so that a task alone on its job was alone before.
LEMMA SoleBefore ==
    ASSUME NEW t \in Slots, Sole(t)',
           (\A u \in Slots : task'[u].job = task[u].job) \/ \E v, j : Handed(v, j) /\ v # t
    PROVE  Sole(t) \/ task[t].job = 0
BY DEF Sole, Handed, HandsOut, Slots

LEMMA StaffedMoves ==
    ASSUME Shaped, Staffed, NEW t \in Slots, Works(t) \/ Killed(t)
    PROVE  Staffed'
<1>1. TaskMoves(t)
    BY WorksMoves
<1>2. \A u \in Slots : task'[u].job = task[u].job
    BY <1>1 DEF TaskMoves
<1>3. Jobs' = Jobs /\ task[t].job \in Jobs
    BY <1>1 DEF TaskMoves, Others, Jobs
<1>4. \A i \in DOMAIN inline' : inline'[i].job \in Jobs
    <2>1. CASE InlineKept
        BY <2>1 DEF InlineKept, Staffed
    <2>2. ASSUME NEW f, AddedPost(task[t].job, f)
          PROVE  \A i \in DOMAIN inline' : inline'[i].job \in Jobs
        BY <1>3, <2>2 DEF AddedPost, Staffed
    <2> QED BY <2>1, <2>2, WorksKeep
<1> QED BY <1>2, <1>3, <1>4 DEF Staffed, Slots

LEMMA StaffedHands ==
    ASSUME Shaped, Staffed, NEW t, NEW j, Handed(t, j)
    PROVE  Staffed'
<1>1. inline' = inline /\ HandsOut(t, j)
    BY DEF Handed, gitHub
<1>2. created \in Nat /\ (created' = created \/ (created' = created + 1 /\ j = created'))
    BY DEF Handed, NewJob, Shaped, Typed
<1>3. Jobs' \subseteq Jobs \cup {j} /\ Jobs \subseteq Jobs'
    BY <1>2 DEF Jobs
<1>4. ASSUME NEW k \in Jobs'
      PROVE  \E u \in Slots : task'[u].job = k
    <2>1. CASE k = j
        BY <1>1, <2>1 DEF HandsOut
    <2>2. CASE k # j
        <3>1. PICK u \in Slots : task[u].job = k
            BY <1>3, <2>2 DEF Staffed
        <3>2. k # 0
            BY <1>2 DEF Jobs
        <3>3. u # t
            BY <1>1, <3>1, <3>2 DEF HandsOut
        <3> QED BY <1>1, <3>1, <3>3 DEF HandsOut
    <2> QED BY <2>1, <2>2
<1> QED BY <1>1, <1>3, <1>4 DEF Staffed, Slots

\* A new task alone on its job has a new job.
LEMMA SoleIsNew ==
    ASSUME Shaped, Staffed, NEW t, NEW j, Handed(t, j), Sole(t)'
    PROVE  /\ j \notin Jobs /\ \E r \in Runs : NewJob(j, r)
           /\ task'[t].pc = "queued"
           /\ \A i \in DOMAIN inline : inline[i].job # j
<1>1. t \in Slots /\ task[t].job = 0 /\ j # 0 /\ task'[t].job = j /\ \A u \in Slots \ {t} : task'[u] = task[u]
    BY DEF Handed, HandsOut
<1>2. j \notin Jobs
    <2>1. SUFFICES ASSUME j \in Jobs PROVE FALSE
        OBVIOUS
    <2>2. PICK u \in Slots : task[u].job = j
        BY <2>1 DEF Staffed
    <2>3. u # t /\ task'[u].job = j
        BY <1>1, <2>2
    <2> QED BY <1>1, <2>3 DEF Sole, Slots
<1>3. \E r \in Runs : NewJob(j, r)
    BY <1>2 DEF Handed, HandsOut, Jobs
<1> QED BY <1>2, <1>3 DEF Handed, HandsOut, Staffed

LEMMA PostsStep ==
    ASSUME Shaped, PostsInv, RepliesArrive, [Next]_vars
    PROVE  PostsInv'
<1>1. Slots' = Slots
    BY DEF Slots
<1>2. CASE Elsewhere
    <2>1. UNCHANGED <<job, created, task, inline>>
        BY <1>2 DEF Elsewhere
    <2>2. Staffed'
        BY <2>1 DEF PostsInv, Staffed, Jobs, Slots
    <2>3. ASSUME NEW t \in Slots, NEW j \in Slots, Sole(t)', task'[t].job = j
          PROVE  PostsOnce(t, j)'
        <3>1. Sole(t) /\ task[t].job = j
            BY <2>1, <2>3 DEF Sole, Slots
        <3>2. Posted(j)' = Posted(j) /\ Once(j)' = Once(j)
            BY <2>1 DEF Posted, Once
        <3>3. PostsOnce(t, j)
            BY <3>1 DEF PostsInv
        <3>4. Once(j)
            BY <3>3 DEF PostsOnce
        <3> QED BY <2>1, <3>2, <3>3, <3>4, StillPosts
    <2> QED BY <1>1, <2>2, <2>3 DEF PostsInv
<1>3. ASSUME NEW v, NEW k, Handed(v, k)
      PROVE  PostsInv'
    <2>1. Staffed'
        BY <1>3, StaffedHands DEF PostsInv
    <2>2. /\ v \in Slots /\ task'[v].job = k /\ \A u \in Slots \ {v} : task'[u] = task[u]
          /\ inline' = inline /\ created \in Nat
        BY <1>3 DEF Handed, HandsOut, gitHub, Shaped, Typed
    <2>3. ASSUME NEW t \in Slots, NEW j \in Slots, Sole(t)', task'[t].job = j
          PROVE  PostsOnce(t, j)'
        <3>1. CASE t = v
            <4>1. /\ j \notin Jobs /\ task'[t].pc = "queued" /\ \A i \in DOMAIN inline : inline[i].job # j
                BY <1>3, <2>2, <2>3, <3>1, SoleIsNew DEF PostsInv
            <4>2. Posted(j)' = {} /\ Once(j)'
                BY <2>2, <4>1 DEF Posted, Once
            <4> QED BY <4>1, <4>2 DEF PostsOnce, Surfaces, Early
        <3>2. CASE t # v
            <4>1. task'[t] = task[t] /\ j # 0
                BY <2>2, <3>2, CountFacts
            <4>2. Sole(t) /\ task[t].job = j
                BY <1>3, <2>3, <3>2, <4>1, SoleBefore
            <4>3. j \in Jobs
                <5>1. j <= created
                    BY <4>2 DEF Shaped, InSlots
                <5> QED BY <5>1, InJobs
            <4>4. job'[j] = job[j]
                BY <1>3, <4>3, HandedJobs
            <4>5. Posted(j)' = Posted(j) /\ Once(j)' = Once(j)
                BY <2>2 DEF Posted, Once
            <4>6. PostsOnce(t, j)
                BY <4>2 DEF PostsInv
            <4>7. Once(j)
                BY <4>6 DEF PostsOnce
            <4> QED BY <4>1, <4>4, <4>5, <4>6, <4>7, StillPosts
        <3> QED BY <3>1, <3>2
    <2> QED BY <1>1, <2>1, <2>3 DEF PostsInv
<1>4. ASSUME NEW u \in Slots, Works(u) \/ Killed(u)
      PROVE  PostsInv'
    <2>1. Staffed'
        BY <1>4, StaffedMoves DEF PostsInv
    <2>2. TaskMoves(u)
        BY <1>4, WorksMoves
    <2>3. ASSUME NEW t \in Slots, NEW j \in Slots, Sole(t)', task'[t].job = j
          PROVE  PostsOnce(t, j)'
        <3>1. task[t].job = j /\ j # 0 /\ \A w \in Slots : task'[w].job = task[w].job
            BY <2>2, <2>3, CountFacts DEF TaskMoves
        <3>2. Sole(t)
            BY <2>3, <3>1, SoleBefore
        <3>3. PostsOnce(t, j)
            BY <3>1, <3>2 DEF PostsInv
        <3>4. CASE t = u
            BY <1>4, <3>1, <3>3, <3>4, MoverPosts
        <3>5. CASE t # u
            <4>1. task[u].job # j
                BY <3>1, <3>2, <3>5 DEF Sole
            <4>2. task'[t] = task[t] /\ job'[j] = job[j]
                BY <2>2, <3>5, <4>1 DEF TaskMoves
            <4>3. Once(j)
                BY <3>3 DEF PostsOnce
            <4>4. Posted(j)' = Posted(j) /\ Once(j)'
                <5>1. CASE InlineKept
                    BY <4>3, <5>1, KeptPosts
                <5>2. ASSUME NEW f, AddedPost(task[u].job, f)
                      PROVE  Posted(j)' = Posted(j) /\ Once(j)'
                    BY <4>1, <4>3, <5>2, AddedPosts
                <5> QED BY <1>4, <5>1, <5>2, WorksKeep
            <4> QED BY <3>3, <4>2, <4>4, StillPosts
        <3> QED BY <3>4, <3>5
    <2> QED BY <1>1, <2>1, <2>3 DEF PostsInv
<1> QED BY <1>2, <1>3, <1>4, StepCases

\* The one task of a job is alone on it.
LEMMA OneIsSole ==
    ASSUME Shaped, NEW j \in Slots, OneTask(j)
    PROVE  \E t \in Slots : task[t].job = j /\ Sole(t)
<1> DEFINE S == {t \in Slots : task[t].job = j}
<1>1. IsFiniteSet(Slots)
    <2>1. Cardinality(Runs) + MaxRequests \in Int
        BY CountFacts
    <2> QED BY <2>1, FS_Interval DEF Slots
<1>2. IsFiniteSet(S) /\ Cardinality(S) = 1
    BY <1>1, FS_Subset, S \subseteq Slots DEF OneTask
<1>3. PICK t : S = {t}
    BY <1>2, FS_Singleton
<1>4. t \in Slots /\ task[t].job = j /\ \A u \in Slots : task[u].job = j => u = t
    BY <1>3
<1>5. j # 0
    BY CountFacts
<1> QED BY <1>4, <1>5 DEF Sole

\* Jobs, tasks and rows have their types in every reachable state, and as many jobs and
\* tasks are handed out as completed reviews and requests allow.
THEOREM ShapedHolds == Spec => []Shaped
<1>1. Shaped /\ [Next]_vars => Shaped'
    BY StepCases
<1> QED BY <1>1, ShapedStarts, PTL DEF Spec

\* A job posts a finding inline once, however often its task is tried again, unless GitHub
\* carries a post out and its answer is lost.
THEOREM NoDoubleInlineHolds == RepliesArrive => (Spec => []NoDoubleInline)
<1> SUFFICES ASSUME RepliesArrive PROVE Spec => []NoDoubleInline
    OBVIOUS
<1>1. Init => PostsInv
    <2> SUFFICES ASSUME Init PROVE PostsInv
        OBVIOUS
    <2>1. Staffed
        <3>1. created = 0 /\ inline = <<>>
            BY DEF Init
        <3>2. Jobs = {}
            BY <3>1 DEF Jobs
        <3>3. DOMAIN inline = {}
            BY <3>1
        <3> QED BY <3>2, <3>3 DEF Staffed
    <2>2. \A t \in Slots : task[t].job = 0
        BY DEF Init, NoTask
    <2> QED BY <2>1, <2>2 DEF PostsInv, Sole
<1>2. Shaped /\ PostsInv /\ [Next]_vars => PostsInv'
    BY PostsStep
<1>3. Shaped /\ PostsInv => NoDoubleInline
    <2> SUFFICES ASSUME Shaped, PostsInv, NEW i \in DOMAIN inline, NEW k \in DOMAIN inline,
                        inline[i].job = inline[k].job, OneTask(inline[i].job), inline[i].finding = inline[k].finding
                 PROVE  i = k
        BY DEF NoDoubleInline
    <2>1. inline[i].job \in Slots
        BY CountFacts DEF PostsInv, Staffed, Jobs
    <2>2. PICK t \in Slots : task[t].job = inline[i].job /\ Sole(t)
        BY <2>1, OneIsSole
    <2>3. Once(inline[i].job)
        BY <2>1, <2>2 DEF PostsInv, PostsOnce
    <2> QED BY <2>3 DEF Once
<1> QED BY <1>1, <1>2, <1>3, ShapedHolds, PTL DEF Spec
-----------------------------------------------------------------------------
(* Identifiers are of objects on GitHub.                                   *)

RowKnown(row, n, m) == row.check <= n /\ row.comment <= m

Known ==
    /\ \A r \in Runs : pipelineCheck[r] <= Len(checks)
    /\ \A j \in Slots : RowKnown(job[j], Len(checks), Len(comments))
    /\ \A t \in Slots : RowKnown(task[t].row, Len(checks), Len(comments)) /\ task[t].other <= Len(checks)

-----------------------------------------------------------------------------
(* What a skipped job has written is gone.                                  *)

\* No other task works on the job of t, and no other job publishes its run.
Lone(t) == Sole(t) /\ \A k \in Jobs \ {task[t].job} : job[k].run # job[task[t].job].run

Telling(objects, r) == {i \in DOMAIN objects : objects[i].run = r}
ChecksOf(r)   == Telling(checks, r)
CommentsOf(r) == Telling(comments, r)
LiveOf(j)     == {i \in DOMAIN inline : inline[i].job = j /\ inline[i].live}

\* What a check run or a comment says comes from a job.
SaysJob ==
    /\ \A i \in DOMAIN checks : checks[i].run # 0 => \E k \in Jobs : job[k].run = checks[i].run
    /\ \A i \in DOMAIN comments : comments[i].run # 0 => \E k \in Jobs : job[k].run = comments[i].run

\* Both surfaces of a job are up, and neither is withdrawn.
Up == {"written", "save", "saved", "inline", "post", "save inline", "checkpoint", "complete",
       "withdraw", "withdraw check"}

\* A task that no fault has met goes on until it has settled its job.
Alive(t, j) ==
    LET x == task[t]
    IN  /\ x.pc \notin {"none", "fail", "failing", "lost"}
        /\ x.pc # "done" => job[j].status \notin Terminal
        /\ x.pc \in Early \cup {"check", "comment"} \cup (Up \ {"withdraw", "withdraw check"}) =>
             x.row.status \notin Terminal /\ x.base.status \notin Terminal

\* What GitHub shows of the run and the job of a task is what the task knows of.
Held(t, j, r) ==
    LET x == task[t]
    IN  /\ ChecksOf(r) \subseteq IF x.pc \in Up \cup {"comment"} THEN {x.row.check} ELSE {}
        /\ CommentsOf(r) \subseteq IF x.pc \in Up \cup {"withdraw comment"} THEN {x.row.comment} ELSE {}
        /\ LiveOf(j) \subseteq IF x.pc \in Up \cup {"withdraw comment", "withdraw inline"} THEN x.wrote ELSE {}

\* That is nothing when the task is done, unless the job has not been skipped.
Withdrawn(t, j, r) ==
    /\ Alive(t, j)
    /\ ~ (task[t].pc = "done" /\ job[j].status # "skipped") => Held(t, j, r)

HiddenInv ==
    faults = 0 => \A t \in Slots, j \in Slots, r \in Runs :
                    Lone(t) /\ task[t].job = j /\ job[j].run = r => Withdrawn(t, j, r)

-----------------------------------------------------------------------------
(* What a step of a task does to what GitHub shows.                         *)

\* Objects are as they were, but one may say something else.
Alters(old, new, runs) ==
    \E id \in Nat, what \in Surface : what.run \in runs /\ Shows(old, new, id, what)

LEMMA NothingAlters ==
    ASSUME NEW old \in Seq(Surface), NEW new, new = old, NEW runs, 0 \in runs
    PROVE  Alters(old, new, runs)
BY NothingShown, TextTypes DEF Alters

LEMMA WorksAlter ==
    ASSUME Shaped, NEW t \in Slots, Works(t) \/ Killed(t)
    PROVE  /\ Alters(checks, checks', {0, job[task[t].job].run})
           /\ Alters(comments, comments', {0, job[task[t].job].run})
<1> DEFINE S == {0, job[task[t].job].run}
<1>1. checks \in Seq(Surface) /\ comments \in Seq(Surface) /\ Len(checks) \in Nat /\ Len(comments) \in Nat
    BY LenProperties DEF Shaped, Typed
<1>2. (UNCHANGED checks => Alters(checks, checks', S)) /\ (UNCHANGED comments => Alters(comments, comments', S))
    BY <1>1, NothingAlters
<1>3. task[t].pc # "none" => /\ Shown(t) \in Surface /\ Shown(t).run \in S
                             /\ task[t].row.check \in Nat /\ task[t].row.comment \in Nat
    BY SurfaceTypes
<1>4. Superseded \in Surface /\ Failure \in Surface /\ Superseded.run \in S /\ Failure.run \in S
    BY TextTypes
<1> HIDE DEF S
<1>5. CASE Load(t) \/ Claim(t) \/ Build(t) \/ Flush(t) \/ Authority(t)
    BY <1>2, <1>5, LoadFacts, ClaimFacts, BuildFacts, FlushFacts, AuthorityFacts DEF gitHub, S
<1>6. CASE Save(t) \/ Complete(t) \/ Leave(t)
    BY <1>2, <1>6, SaveFacts, CompleteFacts, LeaveFacts DEF gitHub, S
<1>7. CASE WriteCheck(t)
    <2>1. task[t].pc = "check" /\ UNCHANGED comments
        BY <1>7, WriteCheckFacts
    <2>2. PICK id \in {task[t].row.check, Len(checks')} : Shows(checks, checks', id, Shown(t))
        BY <1>7, WriteCheckFacts
    <2>3. id \in Nat
        BY <1>3, <2>1, <2>2, LenProperties DEF Shows
    <2> QED BY <1>2, <1>3, <2>1, <2>2, <2>3 DEF Alters, S
<1>8. CASE WriteComment(t)
    <2>1. task[t].pc = "comment" /\ UNCHANGED checks
        BY <1>8, WriteCommentFacts
    <2>2. PICK id \in {task[t].row.comment, Len(comments')} : Shows(comments, comments', id, Shown(t))
        BY <1>8, WriteCommentFacts
    <2>3. id \in Nat
        BY <1>3, <2>1, <2>2, LenProperties DEF Shows
    <2> QED BY <1>2, <1>3, <2>1, <2>2, <2>3 DEF Alters, S
<1>9. ASSUME NEW f \in Findings, PostInline(t, f) \/ Refused(t, f)
      PROVE  Alters(checks, checks', S) /\ Alters(comments, comments', S)
    BY <1>2, <1>9, PostInlineFacts, RefusedFacts DEF gitHub
<1>10. CASE CloseInline(t)
    <2>1. task[t].pc = "inline" /\ UNCHANGED checks
        BY <1>10, CloseInlineFacts
    <2>2. PICK id \in {0, task[t].row.comment} : Shows(comments, comments', id, Shown(t))
        BY <1>10, CloseInlineFacts
    <2> QED BY <1>2, <1>3, <2>1, <2>2 DEF Alters, S
<1>11. CASE Skip(t)
    BY <1>2, <1>4, <1>11, SkipFacts DEF Alters, S
<1>12. CASE WithdrawCheck(t) \/ WithdrawComment(t)
    BY <1>2, <1>4, <1>12, WithdrawCheckFacts, WithdrawCommentFacts DEF Alters, S
<1>13. CASE WithdrawInline(t)
    BY <1>2, <1>13, WithdrawInlineFacts DEF S
<1>14. CASE FailsForNow(t) \/ FailsForGood(t) \/ Killed(t)
    BY <1>2, <1>14, FailsForNowFacts, FailsForGoodFacts, KilledFacts DEF gitHub, S
<1>15. CASE Fail(t) \/ MarkFailed(t)
    BY <1>2, <1>4, <1>15, FailFacts, MarkFailedFacts DEF Alters, S
<1> QED BY <1>5, <1>6, <1>7, <1>8, <1>9, <1>10, <1>11, <1>12, <1>13, <1>14, <1>15 DEF Works, Writes, Withdraws, S

\* There are no fewer objects than before.
LEMMA AltersGrows ==
    ASSUME NEW old \in Seq(Surface), NEW new, NEW runs, Alters(old, new, runs)
    PROVE  Len(old) \in Nat /\ Len(new) \in Nat /\ Len(old) <= Len(new)
BY LenProperties DEF Alters, Shows

\* What the objects say comes from the runs they said or from these.
LEMMA AltersSays ==
    ASSUME NEW old, NEW new, NEW runs, Alters(old, new, runs), NEW i \in DOMAIN new
    PROVE  new[i].run \in runs \/ (i \in DOMAIN old /\ new[i] = old[i])
BY DEF Alters, Shows

LEMMA SaysJobStep ==
    ASSUME Shaped, SaysJob, [Next]_vars
    PROVE  SaysJob'
<1>1. SUFFICES ASSUME NEW S, Alters(checks, checks', S), Alters(comments, comments', S),
                      Jobs \subseteq Jobs', \A k \in Jobs : job'[k].run = job[k].run,
                      S \subseteq {0} \cup {job[k].run : k \in Jobs}
               PROVE  SaysJob'
    <2>1. checks \in Seq(Surface) /\ comments \in Seq(Surface)
        BY DEF Shaped, Typed
    <2>2. CASE Elsewhere
        <3>1. Alters(checks, checks', {0})
            BY <2>2, TextTypes DEF Elsewhere, Alters
        <3>2. Alters(comments, comments', {0})
            BY <2>1, <2>2, NothingAlters DEF Elsewhere
        <3>3. Jobs' = Jobs /\ job' = job
            BY <2>2 DEF Elsewhere, Jobs
        <3> QED BY <1>1, <3>1, <3>2, <3>3
    <2>3. ASSUME NEW t, NEW j, Handed(t, j)
          PROVE  SaysJob'
        <3>1. UNCHANGED <<checks, comments>>
            BY <2>3 DEF Handed, gitHub
        <3>2. Alters(checks, checks', {0}) /\ Alters(comments, comments', {0})
            BY <2>1, <3>1, NothingAlters
        <3>3. Jobs \subseteq Jobs' /\ \A k \in Jobs : job'[k] = job[k]
            BY <2>3, HandedJobs
        <3> QED BY <1>1, <3>2, <3>3
    <2>4. ASSUME NEW t \in Slots, Works(t) \/ Killed(t)
          PROVE  SaysJob'
        <3>1. TaskMoves(t)
            BY <2>4, WorksMoves
        <3>2. Jobs' = Jobs /\ task[t].job \in Jobs
            BY <3>1 DEF TaskMoves, Others, Jobs
        <3>3. \A k \in Jobs : job'[k].run = job[k].run
            BY <3>1, CountFacts DEF TaskMoves, Jobs
        <3> QED BY <1>1, <2>4, <3>2, <3>3, WorksAlter
    <2> QED BY <2>2, <2>3, <2>4, StepCases
<1>2. \A i \in DOMAIN checks' : checks'[i].run # 0 => \E k \in Jobs' : job'[k].run = checks'[i].run
    <2> TAKE i \in DOMAIN checks'
    <2>1. checks'[i].run \in S \/ (i \in DOMAIN checks /\ checks'[i] = checks[i])
        BY <1>1, AltersSays
    <2> QED BY <1>1, <2>1 DEF SaysJob
<1>3. \A i \in DOMAIN comments' : comments'[i].run # 0 => \E k \in Jobs' : job'[k].run = comments'[i].run
    <2> TAKE i \in DOMAIN comments'
    <2>1. comments'[i].run \in S \/ (i \in DOMAIN comments /\ comments'[i] = comments[i])
        BY <1>1, AltersSays
    <2> QED BY <1>1, <2>1 DEF SaysJob
<1> QED BY <1>2, <1>3 DEF SaysJob

LEMMA StaffedStep ==
    ASSUME Shaped, Staffed, [Next]_vars
    PROVE  Staffed'
<1>1. CASE Elsewhere
    BY <1>1 DEF Elsewhere, Staffed, Jobs, Slots
<1> QED BY <1>1, StaffedMoves, StaffedHands, StepCases
-----------------------------------------------------------------------------
(* Identifiers are of objects on GitHub: the step.                         *)

\* Where the identifiers of a task and its job come from in a step.
LEMMA MoverIds ==
    ASSUME Shaped, NEW t \in Slots, NEW j \in Slots, task[t].job = j, Works(t) \/ Killed(t)
    PROVE  /\ task'[t].row.check \in {0, task[t].row.check, task[t].other, job[j].check, Len(checks')}
           /\ task'[t].row.comment \in {0, task[t].row.comment, PriorComment(j), job[j].comment, Len(comments')}
           /\ task'[t].other \in {0, task[t].other, OtherCheck(j).check}
           /\ job'[j].check \in {job[j].check, task'[t].row.check}
           /\ job'[j].comment \in {job[j].comment, task'[t].row.comment}
<1> DEFINE Rows1 == task'[t].row.check \in {0, task[t].row.check, task[t].other, job[j].check, Len(checks')}
           Rows2 == task'[t].row.comment \in {0, task[t].row.comment, PriorComment(j), job[j].comment, Len(comments')}
           Rows3 == task'[t].other \in {0, task[t].other, OtherCheck(j).check}
           Jobs1 == job'[j].check \in {job[j].check, task'[t].row.check}
           Jobs2 == job'[j].comment \in {job[j].comment, task'[t].row.comment}
           Goal == Rows1 /\ Rows2 /\ Rows3 /\ Jobs1 /\ Jobs2
<1>1. task[t].pc # "none" => task[t].row \in JobRow
    BY HasJob DEF IsTask
<1>2. UNCHANGED job => Jobs1 /\ Jobs2
    OBVIOUS
<1>3. Committed(t) => Jobs1 /\ Jobs2
    BY DEF Committed, JobFields
<1>4. Anew(t) => Rows1 /\ Rows2 /\ Rows3
    BY DEF Anew, NoJob
<1>5. ASSUME task'[t].row.check = task[t].row.check, task'[t].row.comment = task[t].row.comment, task'[t].other = task[t].other
      PROVE  Rows1 /\ Rows2 /\ Rows3
    BY <1>5
<1>10. CASE Authority(t) \/ WithdrawCheck(t) \/ WithdrawComment(t) \/ WithdrawInline(t) \/ FailsForGood(t) \/ Killed(t)
    <2>1. UNCHANGED job /\ (Keeps(t, {"pc"}) \/ Keeps(t, {"pc", "wrote"}) \/ Keeps(t, {"pc", "locks"}))
        BY <1>10, AuthorityFacts, WithdrawCheckFacts, WithdrawCommentFacts, WithdrawInlineFacts, FailsForGoodFacts, KilledFacts
    <2>2. task'[t].row = task[t].row /\ task'[t].other = task[t].other
        BY <2>1 DEF Keeps, TaskFields
    <2> QED BY <1>2, <1>5, <2>1, <2>2
<1>11. CASE Save(t) \/ Leave(t)
    <2>1. Committed(t) /\ task'[t].row = task[t].row /\ Keeps(t, {"row", "base", "locks", "pc"})
        BY <1>11, SaveFacts, LeaveFacts
    <2>2. task'[t].other = task[t].other
        BY <2>1 DEF Keeps, TaskFields
    <2> QED BY <1>3, <1>5, <2>1, <2>2
<1> USE DEF Keeps, TaskFields, JobFields
<1>6. CASE Load(t)
    BY <1>2, <1>6, LoadFacts
<1>7. CASE Claim(t)
    BY <1>1, <1>2, <1>5, <1>7, ClaimFacts DEF JobRow
<1>8. CASE Build(t)
    <2>1. /\ UNCHANGED job /\ task'[t].row.check = task[t].row.check
          /\ task'[t].row.comment \in {task[t].row.comment, PriorComment(j)} /\ task'[t].other \in {0, OtherCheck(j).check}
        BY <1>8, BuildFacts
    <2> QED BY <1>2, <2>1
<1>9. CASE Flush(t)
    <2>1. /\ UNCHANGED job /\ task'[t].row.comment = task[t].row.comment
          /\ task'[t].row.check \in {task[t].row.check, task[t].other}
        BY <1>9, FlushFacts
    <2>2. task'[t].other = task[t].other
        BY <1>9, FlushFacts
    <2> QED BY <1>2, <2>1, <2>2
<1>12. CASE WriteCheck(t)
    <2>1. UNCHANGED job
        BY <1>12, WriteCheckFacts
    <2>2. Anew(t) \/ /\ task'[t].row.check \in {task[t].row.check, Len(checks')} /\ task'[t].row.comment = task[t].row.comment
                     /\ task'[t].other = task[t].other
        BY <1>12, WriteCheckFacts
    <2> QED BY <1>2, <1>4, <2>1, <2>2
<1>13. CASE WriteComment(t)
    <2>1. UNCHANGED job
        BY <1>13, WriteCommentFacts
    <2>2. Anew(t) \/ /\ task'[t].row.comment \in {task[t].row.comment, Len(comments')} /\ task'[t].row.check = task[t].row.check
                     /\ task'[t].other = task[t].other
        BY <1>13, WriteCommentFacts
    <2> QED BY <1>2, <1>4, <2>1, <2>2
<1>14. ASSUME NEW f \in Findings, PostInline(t, f)
       PROVE  Goal
    <2>1. UNCHANGED job
        BY <1>14, PostInlineFacts
    <2>2. Anew(t) \/ /\ task'[t].row.check = task[t].row.check /\ task'[t].row.comment = task[t].row.comment
                     /\ task'[t].other = task[t].other
        BY <1>14, PostInlineFacts
    <2> QED BY <1>2, <1>4, <1>5, <2>1, <2>2
<1>15. ASSUME NEW f \in Findings, Refused(t, f)
       PROVE  Goal
    BY <1>2, <1>5, <1>15, RefusedFacts
<1>16. CASE CloseInline(t)
    <2>1. UNCHANGED job
        BY <1>16, CloseInlineFacts
    <2>2. Anew(t) \/ /\ task'[t].row.check = task[t].row.check /\ task'[t].row.comment = task[t].row.comment
                     /\ task'[t].other = task[t].other
        BY <1>16, CloseInlineFacts
    <2> QED BY <1>2, <1>4, <1>5, <2>1, <2>2
<1>17. CASE Complete(t)
    BY <1>1, <1>3, <1>5, <1>17, CompleteFacts DEF JobRow
<1>18. CASE Skip(t)
    BY <1>2, <1>5, <1>18, SkipFacts
<1>19. CASE FailsForNow(t)
    BY <1>2, <1>4, <1>19, FailsForNowFacts
<1>20. CASE Fail(t)
    BY <1>3, <1>5, <1>20, FailFacts
<1>21. CASE MarkFailed(t)
    BY <1>5, <1>21, MarkFailedFacts
<1> QED BY <1>6, <1>7, <1>8, <1>9, <1>10, <1>11, <1>12, <1>13, <1>14, <1>15, <1>16, <1>17, <1>18, <1>19, <1>20, <1>21
        DEF Works, Writes, Withdraws

LEMMA KnownStep ==
    ASSUME Shaped, Known, [Next]_vars
    PROVE  Known'
<1>1. /\ checks \in Seq(Surface) /\ comments \in Seq(Surface) /\ Len(checks) \in Nat /\ Len(comments) \in Nat
      /\ \A r \in Runs : pipelineCheck[r] \in Nat
      /\ \A k \in Slots : job[k].check \in Nat /\ job[k].comment \in Nat
      /\ \A t \in Slots : task[t].row.check \in Nat /\ task[t].row.comment \in Nat /\ task[t].other \in Nat
    BY LenProperties DEF Shaped, Typed, IsTask, JobRow
<1>2. NoJob.check = 0 /\ NoJob.comment = 0
    BY DEF NoJob
<1>3. CASE Elsewhere
    <2>1. Len(checks') \in Nat /\ Len(checks) <= Len(checks')
        BY <1>1, <1>3, LenProperties DEF Elsewhere, Shows
    <2>2. /\ UNCHANGED <<job, task, comments>>
          /\ \A r \in Runs : pipelineCheck'[r] \in {0, pipelineCheck[r], Len(checks')}
        BY <1>3 DEF Elsewhere
    <2>3. \A r \in Runs : pipelineCheck'[r] <= Len(checks')
        BY <1>1, <2>1, <2>2 DEF Known
    <2>4. \A k \in Slots : RowKnown(job'[k], Len(checks'), Len(comments'))
        BY <1>1, <2>1, <2>2 DEF Known, RowKnown
    <2>5. \A t \in Slots : RowKnown(task'[t].row, Len(checks'), Len(comments')) /\ task'[t].other <= Len(checks')
        BY <1>1, <2>1, <2>2 DEF Known, RowKnown
    <2> QED BY <2>2, <2>3, <2>4, <2>5 DEF Known, Slots, RowKnown
<1>4. ASSUME NEW v, NEW k, Handed(v, k)
      PROVE  Known'
    <2>1. UNCHANGED <<checks, comments, pipelineCheck>> /\ v \in Slots /\ task'[v].row = NoJob /\ task'[v].other = 0
          /\ \A u \in Slots \ {v} : task'[u] = task[u]
        BY <1>4 DEF Handed, HandsOut, gitHub, runVars
    <2>2. \A j \in Slots : RowKnown(job'[j], Len(checks'), Len(comments'))
        <3>1. CASE UNCHANGED job
            BY <2>1, <3>1 DEF Known, RowKnown
        <3>2. ASSUME NEW r \in Runs, NewJob(k, r)
              PROVE  \A j \in Slots : RowKnown(job'[j], Len(checks'), Len(comments'))
            <4>1. job'[k].check <= Len(checks) /\ job'[k].comment <= Len(comments)
                BY <1>1, <3>2 DEF NewJob, Known
            <4> QED BY <2>1, <3>2, <4>1 DEF NewJob, Known, RowKnown
        <3> QED BY <1>4, <3>1, <3>2 DEF Handed
    <2>3. \A t \in Slots : RowKnown(task'[t].row, Len(checks'), Len(comments')) /\ task'[t].other <= Len(checks')
        BY <1>1, <1>2, <2>1 DEF Known, RowKnown
    <2> QED BY <2>1, <2>2, <2>3 DEF Known, Slots, RowKnown
<1>5. ASSUME NEW u \in Slots, Works(u) \/ Killed(u)
      PROVE  Known'
    <2> DEFINE j == task[u].job
               a == Len(checks')
               c == Len(comments')
    <2>1. TaskMoves(u) /\ j \in Slots /\ j \in Jobs /\ UNCHANGED pipelineCheck
        BY <1>5, WorksMoves DEF TaskMoves, Others, runVars
    <2>2. a \in Nat /\ c \in Nat /\ Len(checks) <= a /\ Len(comments) <= c
        BY <1>1, <1>5, WorksAlter, AltersGrows
    <2>3. OtherCheck(j).check <= Len(checks) /\ OtherCheck(j).check \in Nat /\ PriorComment(j) <= Len(comments) /\ PriorComment(j) \in Nat
        <3>1. \A k \in Jobs : k \in Slots
            BY CountFacts DEF Jobs
        <3>2. OtherCheck(j).check \in Nat
            BY <2>1, OthersFacts DEF JobRow
        <3>3. PriorComment(j) \in Nat
            BY <2>1, OthersFacts
        <3>4. OtherCheck(j).check # 0 => \E k \in Jobs : OtherCheck(j).check = job[k].check
            BY <2>1, OthersFacts
        <3>5. PriorComment(j) # 0 => \E k \in Jobs : PriorComment(j) = job[k].comment
            BY <2>1, OthersFacts
        <3> QED BY <1>1, <3>1, <3>2, <3>3, <3>4, <3>5 DEF Known, RowKnown
    <2>4. /\ job[j].check <= Len(checks) /\ job[j].comment <= Len(comments)
          /\ task[u].row.check <= Len(checks) /\ task[u].row.comment <= Len(comments) /\ task[u].other <= Len(checks)
        BY <2>1 DEF Known, RowKnown
    <2>5. /\ task'[u].row.check \in {0, task[u].row.check, task[u].other, job[j].check, a}
          /\ task'[u].row.comment \in {0, task[u].row.comment, PriorComment(j), job[j].comment, c}
          /\ task'[u].other \in {0, task[u].other, OtherCheck(j).check}
          /\ job'[j].check \in {job[j].check, task'[u].row.check}
          /\ job'[j].comment \in {job[j].comment, task'[u].row.comment}
        BY <1>5, <2>1, MoverIds
    <2>6. job[j].check \in Nat /\ job[j].comment \in Nat /\ task[u].row.check \in Nat /\ task[u].row.comment \in Nat /\ task[u].other \in Nat
        BY <1>1, <2>1
    <2> HIDE DEF j, a, c
    <2>7. /\ task'[u].row.check <= a /\ task'[u].row.comment <= c /\ task'[u].other <= a
          /\ job'[j].check <= a /\ job'[j].comment <= c
        <3>1. Len(checks) \in Nat /\ Len(comments) \in Nat
            BY <1>1
        <3>2. task'[u].row.check <= a
            <4>1. task[u].row.check <= a /\ task[u].other <= a /\ job[j].check <= a /\ 0 <= a /\ a <= a
                BY <2>2, <2>4, <2>6, <3>1
            <4>2. \A x \in {0, task[u].row.check, task[u].other, job[j].check, a} : x <= a
                BY <4>1
            <4> QED BY <2>5, <4>2
        <3>3. task'[u].row.comment <= c
            <4>1. task[u].row.comment <= c /\ PriorComment(j) <= c /\ job[j].comment <= c /\ 0 <= c /\ c <= c
                BY <2>2, <2>3, <2>4, <2>6, <3>1
            <4>2. \A x \in {0, task[u].row.comment, PriorComment(j), job[j].comment, c} : x <= c
                BY <4>1
            <4> QED BY <2>5, <4>2
        <3>4. task'[u].other <= a
            BY <2>2, <2>3, <2>4, <2>5, <2>6, <3>1
        <3>5. job'[j].check <= a /\ job'[j].comment <= c
            BY <2>2, <2>4, <2>5, <2>6, <3>1, <3>2, <3>3
        <3> QED BY <3>2, <3>3, <3>4, <3>5
    <2>8. \A k \in Slots : RowKnown(job'[k], Len(checks'), Len(comments'))
        <3> TAKE k \in Slots
        <3>1. CASE k = j
            BY <2>7, <3>1 DEF RowKnown, a, c
        <3>2. CASE k # j
            <4>1. job'[k] = job[k] /\ job[k].check <= Len(checks) /\ job[k].comment <= Len(comments)
                BY <2>1, <3>2 DEF TaskMoves, Known, RowKnown, j
            <4> QED BY <1>1, <2>2, <4>1 DEF RowKnown, a, c
        <3> QED BY <3>1, <3>2
    <2>9. \A t \in Slots : RowKnown(task'[t].row, Len(checks'), Len(comments')) /\ task'[t].other <= Len(checks')
        <3> TAKE t \in Slots
        <3>1. CASE t = u
            BY <2>7, <3>1 DEF RowKnown, a, c
        <3>2. CASE t # u
            <4>1. task'[t] = task[t] /\ task[t].row.check <= Len(checks) /\ task[t].row.comment <= Len(comments)
                  /\ task[t].other <= Len(checks)
                BY <2>1, <3>2 DEF TaskMoves, Known, RowKnown
            <4> QED BY <1>1, <2>2, <4>1 DEF RowKnown, a, c
        <3> QED BY <3>1, <3>2
    <2>10. \A r \in Runs : pipelineCheck'[r] <= Len(checks')
        BY <1>1, <2>1, <2>2 DEF Known, a
    <2> QED BY <2>8, <2>9, <2>10 DEF Known, Slots, RowKnown
<1> QED BY <1>3, <1>4, <1>5, StepCases
-----------------------------------------------------------------------------
(* What a skipped job has written is gone: the step.                        *)

\* What GitHub shows of a run after a step, in terms of what it showed before.
LEMMA ShownOf ==
    ASSUME NEW old \in Seq(Surface), NEW new, NEW id, NEW what, NEW r, Shows(old, new, id, what)
    PROVE  /\ what.run # r => Telling(new, r) \subseteq Telling(old, r) \ {id}
           /\ Telling(new, r) \subseteq Telling(old, r) \cup ({id} \ {0})
<1>1. new \in Seq(Surface) /\ DOMAIN new = 1 .. Len(new)
    BY LenProperties DEF Shows
<1>2. 0 \notin DOMAIN new
    BY <1>1
<1> QED BY <1>2 DEF Shows, Telling

\* A step that no fault meets, of a task with a job of its own.
LEMMA MoverAlive ==
    ASSUME Shaped, NEW t \in Slots, NEW j \in Slots, task[t].job = j, Alive(t, j),
           Works(t) \/ Killed(t), UNCHANGED faults
    PROVE  /\ Alive(t, j)'
           /\ task'[t].pc = "done" =>
                task[t].pc = "leave" \/ (task[t].pc = "complete" /\ job'[j].status = "completed")
<1>1. Alive(t, j) /\ ~ Killed(t) /\ (\A f \in Findings : ~ Refused(t, f))
    BY FaultCounts, KilledFacts, RefusedFacts DEF Fails
<1>2. ~ FailsForNow(t) /\ ~ FailsForGood(t) /\ ~ Fails("lost reply")
    BY FaultCounts, FailsForNowFacts, FailsForGoodFacts DEF Fails
<1>3. ~ Fail(t) /\ ~ MarkFailed(t)
    BY <1>1, FailFacts, MarkFailedFacts DEF Alive
<1> DEFINE Goal == Alive(t, j)' /\ (task'[t].pc = "done" =>
                     task[t].pc = "leave" \/ (task[t].pc = "complete" /\ job'[j].status = "completed"))
\* The task goes on and its copies and the row keep the status.
<1>4. ASSUME task'[t].pc \in Early \cup {"check", "comment", "queued"} \cup Up,
             task'[t].row.status = task[t].row.status, task'[t].base.status = task[t].base.status,
             job'[j].status = job[j].status, task[t].row.status \notin Terminal, task[t].base.status \notin Terminal,
             task[t].pc # "done"
      PROVE  Goal
    BY <1>1, <1>4 DEF Alive, Early, Up, Terminal
\* The task has nothing more to do with its copies.
<1>5. ASSUME task'[t].pc \in {"skip", "withdraw", "withdraw check", "withdraw comment", "withdraw inline", "leave"},
             job'[j].status = job[j].status, task[t].pc # "done"
      PROVE  Goal
    BY <1>1, <1>5 DEF Alive, Early, Up, Terminal
<1>6. CASE Load(t)
    BY <1>1, <1>6, LoadFacts DEF Alive, Early, Up, Terminal
<1>7. CASE Claim(t)
    <2>1. task[t].pc = "claim" /\ task'[t].pc = "build" /\ UNCHANGED job
          /\ task'[t].row = [task[t].row EXCEPT !.status = "processing"] /\ task[t].row \in JobRow
        BY <1>7, ClaimFacts, HasJob DEF IsTask
    <2>2. task'[t].base = task[t].base
        BY <1>7, ClaimFacts DEF Keeps, TaskFields
    <2>3. task'[t].row.status = "processing"
        BY <2>1 DEF JobRow
    <2> QED BY <1>1, <2>1, <2>2, <2>3 DEF Alive, Early, Up, Terminal
<1>8. CASE Build(t)
    <2>1. task[t].pc = "build" /\ task'[t].pc = "flush" /\ UNCHANGED job /\ task'[t].row.status = task[t].row.status
        BY <1>8, BuildFacts, HasJob DEF Keeps, TaskFields
    <2>2. task'[t].base = task[t].base
        BY <1>8, BuildFacts DEF Keeps, TaskFields
    <2> QED BY <1>1, <2>1, <2>2 DEF Alive, Early, Up, Terminal
<1>9. CASE Flush(t)
    <2>1. /\ task[t].pc = "flush" /\ task'[t].pc \in {"check", "skip"} /\ UNCHANGED job
          /\ task'[t].row.status = task[t].row.status
        BY <1>9, FlushFacts
    <2>2. task'[t].base = task[t].base
        BY <1>9, FlushFacts DEF Keeps, TaskFields
    <2> QED BY <1>1, <2>1, <2>2 DEF Alive, Early, Up, Terminal
<1>10. CASE Authority(t)
    <2>1. /\ task[t].pc \in {"written", "saved", "inline"} /\ task'[t].pc \in {"save", "inline", "post", "withdraw"}
          /\ UNCHANGED job /\ Keeps(t, {"pc"})
        BY <1>10, AuthorityFacts
    <2>2. task'[t].base = task[t].base /\ task'[t].row = task[t].row
        BY <2>1 DEF Keeps, TaskFields
    <2> QED BY <1>1, <2>1, <2>2 DEF Alive, Early, Up, Terminal
<1>11. CASE Save(t)
    <2>1. /\ task[t].pc \in {"save", "save inline"} /\ task'[t].pc \in {"saved", "inline"}
          /\ Committed(t) /\ task'[t].row = task[t].row
        BY <1>11, SaveFacts
    <2>2. task'[t].base = task[t].row /\ job'[j].status \in {task[t].row.status, job[j].status}
        BY <2>1 DEF Committed, JobFields
    <2> QED BY <1>1, <2>1, <2>2 DEF Alive, Early, Up, Terminal
<1>12. CASE WriteCheck(t)
    <2>1. /\ task[t].pc = "check" /\ task'[t].pc = "comment" /\ UNCHANGED job /\ Keeps(t, {"row", "pc"})
          /\ \A f \in JobFields \ {"check"} : task'[t].row[f] = task[t].row[f]
        BY <1>2, <1>12, WriteCheckFacts
    <2>2. task'[t].base = task[t].base /\ task'[t].row.status = task[t].row.status
        BY <2>1 DEF Keeps, TaskFields, JobFields
    <2> QED BY <1>1, <2>1, <2>2 DEF Alive, Early, Up, Terminal
<1>13. CASE WriteComment(t)
    <2>1. /\ task[t].pc = "comment" /\ task'[t].pc = "written" /\ UNCHANGED job /\ Keeps(t, {"row", "pc"})
          /\ \A f \in JobFields \ {"comment"} : task'[t].row[f] = task[t].row[f]
        BY <1>2, <1>13, WriteCommentFacts
    <2>2. task'[t].base = task[t].base /\ task'[t].row.status = task[t].row.status
        BY <2>1 DEF Keeps, TaskFields, JobFields
    <2> QED BY <1>1, <2>1, <2>2 DEF Alive, Early, Up, Terminal
<1>14. ASSUME NEW f \in Findings, PostInline(t, f)
       PROVE  Goal
    <2>1. /\ task[t].pc = "post" /\ task'[t].pc = "save inline" /\ UNCHANGED job /\ Keeps(t, {"row", "wrote", "todo", "pc"})
          /\ \A c \in JobFields \ {"threads"} : task'[t].row[c] = task[t].row[c]
        BY <1>2, <1>14, PostInlineFacts
    <2>2. task'[t].base = task[t].base /\ task'[t].row.status = task[t].row.status
        BY <2>1 DEF Keeps, TaskFields, JobFields
    <2> QED BY <1>1, <2>1, <2>2 DEF Alive, Early, Up, Terminal
<1>15. CASE CloseInline(t)
    <2>1. /\ task[t].pc = "inline" /\ task'[t].pc = "checkpoint" /\ UNCHANGED job /\ Keeps(t, {"row", "pc"})
          /\ \A c \in JobFields \ {"posted"} : task'[t].row[c] = task[t].row[c]
        BY <1>2, <1>15, CloseInlineFacts
    <2>2. task'[t].base = task[t].base /\ task'[t].row.status = task[t].row.status
        BY <2>1 DEF Keeps, TaskFields, JobFields
    <2> QED BY <1>1, <2>1, <2>2 DEF Alive, Early, Up, Terminal
<1>16. CASE Complete(t)
    <2>1. Committed(t)
        BY <1>16, CompleteFacts
    <2>2. CASE task[t].pc = "checkpoint" /\ task'[t].pc = "complete" /\ task'[t].row = task[t].row
        <3>1. task'[t].base = task[t].row /\ job'[j].status \in {task[t].row.status, job[j].status}
            BY <2>1, <2>2 DEF Committed, JobFields
        <3> QED BY <1>1, <2>2, <3>1 DEF Alive, Early, Up, Terminal
    <2>3. CASE task[t].pc = "complete" /\ task'[t].pc = "done" /\ task'[t].row = [task[t].row EXCEPT !.status = "completed"]
        <3>1. task[t].row \in JobRow
            BY <2>3, HasJob DEF IsTask
        <3>2. task'[t].row.status = "completed" /\ task[t].base.status \notin Terminal
            BY <1>1, <2>3, <3>1 DEF JobRow, Alive, Up
        <3>3. job'[j].status = "completed"
            BY <2>1, <3>2 DEF Committed, JobFields, Terminal
        <3> QED BY <2>3, <3>3 DEF Alive, Early, Up, Terminal
    <2> QED BY <1>16, <2>2, <2>3, CompleteFacts
<1>17. CASE Skip(t) \/ WithdrawCheck(t) \/ WithdrawComment(t) \/ WithdrawInline(t)
    <2>1. /\ task'[t].pc \in {"withdraw check", "withdraw comment", "withdraw inline", "leave"} /\ UNCHANGED job
          /\ task[t].pc # "done"
        BY <1>17, SkipFacts, WithdrawCheckFacts, WithdrawCommentFacts, WithdrawInlineFacts
    <2> QED BY <1>5, <2>1
<1>18. CASE Leave(t)
    BY <1>18, LeaveFacts DEF Alive, Early, Up
<1> QED BY <1>1, <1>2, <1>3, <1>6, <1>7, <1>8, <1>9, <1>10, <1>11, <1>12, <1>13, <1>14, <1>15, <1>16, <1>17, <1>18
        DEF Works, Writes, Withdraws

LEMMA MoverHeld ==
    ASSUME Shaped, NEW t \in Slots, NEW j \in Slots, NEW r \in Runs, task[t].job = j, job[j].run = r,
           Alive(t, j), Held(t, j, r), Works(t) \/ Killed(t), UNCHANGED faults
    PROVE  Held(t, j, r)' \/ (task[t].pc = "complete" /\ task'[t].pc = "done")
<1>1. Alive(t, j) /\ ~ Killed(t) /\ (\A f \in Findings : ~ Refused(t, f))
    BY FaultCounts, KilledFacts, RefusedFacts DEF Fails
<1>2. ~ FailsForNow(t) /\ ~ FailsForGood(t) /\ ~ Fails("lost reply")
    BY FaultCounts, FailsForNowFacts, FailsForGoodFacts DEF Fails
<1>3. ~ Fail(t) /\ ~ MarkFailed(t)
    BY <1>1, FailFacts, MarkFailedFacts DEF Alive
<1>4. checks \in Seq(Surface) /\ comments \in Seq(Surface) /\ r # 0
    BY PublishAssumption DEF Shaped, Typed
<1> DEFINE Goal == Held(t, j, r)' \/ (task[t].pc = "complete" /\ task'[t].pc = "done")
<1>5. /\ UNCHANGED checks => ChecksOf(r)' = ChecksOf(r)
      /\ UNCHANGED comments => CommentsOf(r)' = CommentsOf(r)
      /\ UNCHANGED inline => LiveOf(j)' = LiveOf(j)
    BY DEF ChecksOf, CommentsOf, LiveOf
\* Another text leaves fewer objects that tell the run.
<1>6. ASSUME NEW id, NEW what, what.run # r
      PROVE  /\ Shows(checks, checks', id, what) => ChecksOf(r)' \subseteq ChecksOf(r) \ {id}
             /\ Shows(comments, comments', id, what) => CommentsOf(r)' \subseteq CommentsOf(r) \ {id}
    <2>1. Shows(checks, checks', id, what) => Telling(checks', r) \subseteq Telling(checks, r) \ {id}
        BY <1>4, <1>6, ShownOf
    <2>2. Shows(comments, comments', id, what) => Telling(comments', r) \subseteq Telling(comments, r) \ {id}
        BY <1>4, <1>6, ShownOf
    <2> QED BY <2>1, <2>2 DEF ChecksOf, CommentsOf
<1>7. ASSUME NEW id, NEW what
      PROVE  /\ Shows(checks, checks', id, what) => ChecksOf(r)' \subseteq ChecksOf(r) \cup ({id} \ {0})
             /\ Shows(comments, comments', id, what) => CommentsOf(r)' \subseteq CommentsOf(r) \cup ({id} \ {0})
    <2>1. Shows(checks, checks', id, what) => Telling(checks', r) \subseteq Telling(checks, r) \cup ({id} \ {0})
        BY <1>4, ShownOf
    <2>2. Shows(comments, comments', id, what) => Telling(comments', r) \subseteq Telling(comments, r) \cup ({id} \ {0})
        BY <1>4, ShownOf
    <2> QED BY <2>1, <2>2 DEF ChecksOf, CommentsOf
<1>8. Superseded.run # r
    BY <1>4, TextTypes
\* Nothing is shown yet, or nothing any more.
<1>9. ASSUME task[t].pc \notin Up \cup {"comment", "withdraw comment", "withdraw inline"},
             ChecksOf(r)' \subseteq ChecksOf(r), CommentsOf(r)' \subseteq CommentsOf(r), LiveOf(j)' \subseteq LiveOf(j)
      PROVE  Goal
    BY <1>9 DEF Held
\* The surfaces are up and stay as they are.
<1>10. ASSUME UNCHANGED gitHub, task[t].pc \in Up, task'[t].pc \in Up,
              task'[t].row.check = task[t].row.check, task'[t].row.comment = task[t].row.comment,
              task'[t].wrote = task[t].wrote
       PROVE  Goal
    BY <1>5, <1>10 DEF Held, gitHub
<1>11. CASE Load(t) \/ Claim(t) \/ Build(t) \/ Flush(t)
    <2>1. UNCHANGED gitHub /\ task[t].pc \in {"queued", "claim", "build", "flush"}
        BY <1>11, LoadFacts, ClaimFacts, BuildFacts, FlushFacts
    <2> QED BY <1>5, <1>9, <2>1 DEF gitHub, Up
<1>12. CASE Authority(t)
    <2>1. /\ task[t].pc \in {"written", "saved", "inline"} /\ task'[t].pc \in {"save", "inline", "post", "withdraw"}
          /\ UNCHANGED gitHub /\ Keeps(t, {"pc"})
        BY <1>12, AuthorityFacts
    <2>2. task'[t].row = task[t].row /\ task'[t].wrote = task[t].wrote
        BY <2>1 DEF Keeps, TaskFields
    <2> QED BY <1>10, <2>1, <2>2 DEF Up
<1>13. CASE Save(t)
    <2>1. /\ task[t].pc \in {"save", "save inline"} /\ task'[t].pc \in {"saved", "inline"}
          /\ UNCHANGED gitHub /\ task'[t].row = task[t].row /\ Keeps(t, {"row", "base", "locks", "pc"})
        BY <1>13, SaveFacts
    <2>2. task'[t].wrote = task[t].wrote
        BY <2>1 DEF Keeps, TaskFields
    <2> QED BY <1>10, <2>1, <2>2 DEF Up
<1>14. CASE Complete(t)
    <2>1. CASE task[t].pc = "complete" /\ task'[t].pc = "done"
        BY <2>1
    <2>2. CASE task[t].pc = "checkpoint" /\ task'[t].pc = "complete" /\ task'[t].row = task[t].row
        <3>1. UNCHANGED gitHub /\ Keeps(t, {"row", "base", "locks", "pc"})
            BY <1>14, CompleteFacts
        <3>2. task'[t].wrote = task[t].wrote
            BY <3>1 DEF Keeps, TaskFields
        <3> QED BY <1>10, <2>2, <3>1, <3>2 DEF Up
    <2> QED BY <1>14, <2>1, <2>2, CompleteFacts
<1>15. CASE WriteCheck(t)
    <2>1. PICK id : /\ Shows(checks, checks', id, Shown(t)) /\ task'[t].row.check = id
                    /\ task[t].pc = "check" /\ task'[t].pc = "comment" /\ UNCHANGED <<comments, inline>>
        BY <1>2, <1>15, WriteCheckFacts
    <2>2. ChecksOf(r)' \subseteq ChecksOf(r) \cup {task'[t].row.check}
        BY <1>7, <2>1
    <2> QED BY <1>5, <2>1, <2>2 DEF Held, Up
<1>16. CASE WriteComment(t)
    <2>1. PICK id : /\ Shows(comments, comments', id, Shown(t)) /\ task'[t].row.comment = id
                    /\ task[t].pc = "comment" /\ task'[t].pc = "written" /\ UNCHANGED <<checks, inline>>
                    /\ \A f \in JobFields \ {"comment"} : task'[t].row[f] = task[t].row[f]
        BY <1>2, <1>16, WriteCommentFacts
    <2>2. CommentsOf(r)' \subseteq CommentsOf(r) \cup {task'[t].row.comment}
        BY <1>7, <2>1
    <2>3. task'[t].row.check = task[t].row.check
        BY <2>1 DEF JobFields
    <2> QED BY <1>5, <2>1, <2>2, <2>3 DEF Held, Up
<1>17. ASSUME NEW f \in Findings, PostInline(t, f)
       PROVE  Goal
    <2>1. /\ task[t].pc = "post" /\ task'[t].pc = "save inline" /\ UNCHANGED <<checks, comments>>
          /\ Keeps(t, {"row", "wrote", "todo", "pc"})
          /\ \A c \in JobFields \ {"threads"} : task'[t].row[c] = task[t].row[c]
          /\ task'[t].wrote = task[t].wrote \cup {Len(inline) + 1}
          /\ inline' = Append(inline, [job |-> j, finding |-> f, live |-> TRUE])
        BY <1>2, <1>17, PostInlineFacts
    <2>2. AddedPost(j, f)
        BY <2>1, AppendAdds
    <2>3. LiveOf(j)' \subseteq LiveOf(j) \cup {Len(inline) + 1}
        BY <2>2 DEF AddedPost, LiveOf
    <2>4. task'[t].row.check = task[t].row.check /\ task'[t].row.comment = task[t].row.comment
        BY <2>1 DEF JobFields
    <2> HIDE DEF Goal
    <2>5. ChecksOf(r)' = ChecksOf(r) /\ CommentsOf(r)' = CommentsOf(r)
        BY <1>5, <2>1
    <2> QED BY <2>1, <2>3, <2>4, <2>5 DEF Held, Up, Goal
<1>18. CASE CloseInline(t)
    <2>1. PICK id \in {0, task[t].row.comment} : Shows(comments, comments', id, Shown(t))
        BY <1>18, CloseInlineFacts
    <2>2. /\ task[t].pc = "inline" /\ task'[t].pc = "checkpoint" /\ UNCHANGED <<checks, inline>>
          /\ Keeps(t, {"row", "pc"}) /\ \A c \in JobFields \ {"posted"} : task'[t].row[c] = task[t].row[c]
        BY <1>2, <1>18, CloseInlineFacts
    <2>3. /\ task'[t].row.check = task[t].row.check /\ task'[t].row.comment = task[t].row.comment
          /\ task'[t].wrote = task[t].wrote
        BY <2>2 DEF JobFields, Keeps, TaskFields
    <2>4. CommentsOf(r)' \subseteq CommentsOf(r) \cup {task[t].row.comment}
        BY <1>7, <2>1
    <2> QED BY <1>5, <2>2, <2>3, <2>4 DEF Held, Up
<1>19. CASE Skip(t)
    <2>1. PICK id \in Nat : Shows(checks, checks', id, Superseded)
        BY <1>19, SkipFacts
    <2>2. /\ UNCHANGED <<comments, inline>> /\ Keeps(t, {"row", "locks", "pc"})
          /\ \A c \in JobFields \ {"status"} : task'[t].row[c] = task[t].row[c]
          /\ \/ task[t].pc = "skip" /\ task'[t].pc = "leave"
             \/ task[t].pc = "withdraw" /\ task'[t].pc = "withdraw check"
        BY <1>19, SkipFacts
    <2>3. ChecksOf(r)' \subseteq ChecksOf(r)
        BY <1>6, <1>8, <2>1
    <2>4. /\ task'[t].row.check = task[t].row.check /\ task'[t].row.comment = task[t].row.comment
          /\ task'[t].wrote = task[t].wrote
        BY <2>2 DEF JobFields, Keeps, TaskFields
    <2> QED BY <1>5, <2>2, <2>3, <2>4 DEF Held, Up
<1>20. CASE WithdrawCheck(t)
    <2>1. /\ Shows(checks, checks', task[t].row.check, Superseded) /\ UNCHANGED <<comments, inline>> /\ Keeps(t, {"pc"})
          /\ task[t].pc = "withdraw check" /\ task'[t].pc = "withdraw comment"
        BY <1>20, WithdrawCheckFacts
    <2>2. ChecksOf(r)' \subseteq ChecksOf(r) \ {task[t].row.check}
        BY <1>6, <1>8, <2>1
    <2>3. task'[t].row = task[t].row /\ task'[t].wrote = task[t].wrote
        BY <2>1 DEF Keeps, TaskFields
    <2> QED BY <1>5, <2>1, <2>2, <2>3 DEF Held, Up
<1>21. CASE WithdrawComment(t)
    <2>1. /\ Shows(comments, comments', task[t].row.comment, Superseded) /\ UNCHANGED <<checks, inline>> /\ Keeps(t, {"pc"})
          /\ task[t].pc = "withdraw comment" /\ task'[t].pc = "withdraw inline"
        BY <1>21, WithdrawCommentFacts
    <2>2. CommentsOf(r)' \subseteq CommentsOf(r) \ {task[t].row.comment}
        BY <1>6, <1>8, <2>1
    <2>3. task'[t].row = task[t].row /\ task'[t].wrote = task[t].wrote
        BY <2>1 DEF Keeps, TaskFields
    <2> QED BY <1>5, <2>1, <2>2, <2>3 DEF Held, Up
<1>22. CASE WithdrawInline(t)
    <2>1. UNCHANGED <<checks, comments>> /\ task[t].pc = "withdraw inline"
        BY <1>22, WithdrawInlineFacts
    <2>2. CASE task[t].wrote = {} /\ task'[t].pc = "leave" /\ UNCHANGED inline
        BY <1>5, <2>1, <2>2 DEF Held, Up
    <2>3. ASSUME NEW i \in Nat, task'[t].wrote = task[t].wrote \ {i}, DeletedOnly(i), task'[t].pc = "withdraw inline"
          PROVE  Goal
        <3>1. LiveOf(j)' \subseteq LiveOf(j) \ {i}
            BY <2>3 DEF DeletedOnly, LiveOf
        <3> QED BY <1>5, <2>1, <2>3, <3>1 DEF Held, Up
    <2> QED BY <1>22, <2>2, <2>3, WithdrawInlineFacts
<1>23. CASE Leave(t)
    <2>1. UNCHANGED gitHub /\ task[t].pc = "leave"
        BY <1>23, LeaveFacts
    <2> QED BY <1>5, <1>9, <2>1 DEF gitHub, Up
<1> QED BY <1>1, <1>2, <1>3, <1>11, <1>12, <1>13, <1>14, <1>15, <1>16, <1>17, <1>18, <1>19, <1>20, <1>21, <1>22, <1>23
        DEF Works, Writes, Withdraws

LEMMA AtWork ==
    ASSUME Shaped, NEW t \in Slots, Works(t) \/ Killed(t)
    PROVE  task[t].pc # "done"
<1>1. CASE Load(t) \/ Claim(t) \/ Build(t) \/ Flush(t) \/ Authority(t) \/ Save(t) \/ Complete(t) \/ Leave(t) \/ Killed(t)
    BY <1>1, LoadFacts, ClaimFacts, BuildFacts, FlushFacts, AuthorityFacts, SaveFacts, CompleteFacts, LeaveFacts DEF Killed
<1>2. CASE WriteCheck(t) \/ WriteComment(t) \/ CloseInline(t) \/ \E f \in Findings : PostInline(t, f) \/ Refused(t, f)
    BY <1>2, WriteCheckFacts, WriteCommentFacts, CloseInlineFacts, PostInlineFacts, RefusedFacts
<1>3. CASE Skip(t) \/ WithdrawCheck(t) \/ WithdrawComment(t) \/ WithdrawInline(t)
    BY <1>3, SkipFacts, WithdrawCheckFacts, WithdrawCommentFacts, WithdrawInlineFacts
<1>4. CASE Fail(t) \/ MarkFailed(t)
    BY <1>4, FailFacts, MarkFailedFacts
<1>5. CASE FailsForNow(t) \/ FailsForGood(t)
    BY <1>5 DEF FailsForNow, FailsForGood, Calls, At
<1> QED BY <1>1, <1>2, <1>3, <1>4, <1>5 DEF Works, Writes, Withdraws

LEMMA MoverWithdrawn ==
    ASSUME Shaped, NEW t \in Slots, NEW j \in Slots, NEW r \in Runs, task[t].job = j, job[j].run = r,
           Withdrawn(t, j, r), Works(t) \/ Killed(t), UNCHANGED faults
    PROVE  Withdrawn(t, j, r)'
<1>1. Alive(t, j) /\ Held(t, j, r)
    BY AtWork DEF Withdrawn
<1>2. /\ Alive(t, j)'
      /\ task[t].pc = "complete" /\ task'[t].pc = "done" => job'[j].status = "completed"
    BY <1>1, MoverAlive
<1>3. Held(t, j, r)' \/ (task[t].pc = "complete" /\ task'[t].pc = "done")
    BY <1>1, MoverHeld
<1> QED BY <1>2, <1>3 DEF Withdrawn

\* A task that does not move keeps what holds of it while others do not show its run.
LEMMA StillWithdrawn ==
    ASSUME NEW t \in Slots, NEW j \in Slots, NEW r \in Runs, Withdrawn(t, j, r), task'[t] = task[t], job'[j] = job[j],
           ChecksOf(r)' \subseteq ChecksOf(r), CommentsOf(r)' \subseteq CommentsOf(r), LiveOf(j)' \subseteq LiveOf(j)
    PROVE  Withdrawn(t, j, r)'
<1>1. Alive(t, j)'
    BY DEF Withdrawn, Alive
<1>2. Held(t, j, r) => Held(t, j, r)'
    BY DEF Held
<1> QED BY <1>1, <1>2 DEF Withdrawn

\* A step of other runs shows nothing of r.
LEMMA OthersShow ==
    ASSUME NEW old \in Seq(Surface), NEW new, NEW runs, NEW r, Alters(old, new, runs), r \notin runs
    PROVE  Telling(new, r) \subseteq Telling(old, r)
<1>1. PICK id \in Nat, what \in Surface : what.run \in runs /\ Shows(old, new, id, what)
    BY DEF Alters
<1>2. what.run # r
    BY <1>1
<1> QED BY <1>1, <1>2, ShownOf

LEMMA OthersPost ==
    ASSUME NEW j, InlineKept \/ \E k, f : k # j /\ AddedPost(k, f)
    PROVE  LiveOf(j)' \subseteq LiveOf(j)
BY DEF InlineKept, AddedPost, LiveOf

LEMMA HiddenStep ==
    ASSUME Shaped, Staffed, SaysJob, HiddenInv, [Next]_vars
    PROVE  HiddenInv'
<1>1. SUFFICES ASSUME NEW t \in Slots, NEW j \in Slots, NEW r \in Runs, faults' = 0,
                      Lone(t)', task'[t].job = j, job'[j].run = r
               PROVE  Withdrawn(t, j, r)'
    BY DEF HiddenInv, Slots
<1>2. checks \in Seq(Surface) /\ comments \in Seq(Surface) /\ inline \in Seq(InlineComments) /\ r # 0 /\ j # 0
    BY PublishAssumption, CountFacts DEF Shaped, Typed
<1>3. CASE Elsewhere
    <2>1. UNCHANGED <<job, created, task, comments, inline, faults>>
        BY <1>3 DEF Elsewhere
    <2>2. Lone(t) /\ Withdrawn(t, j, r)
        BY <1>1, <2>1 DEF Lone, Sole, Slots, Jobs, HiddenInv
    <2>3. Alters(checks, checks', {0})
        BY <1>3, TextTypes DEF Elsewhere, Alters
    <2>4. ChecksOf(r)' \subseteq ChecksOf(r)
        BY <1>2, <2>3, OthersShow DEF ChecksOf
    <2>5. CommentsOf(r)' = CommentsOf(r) /\ LiveOf(j)' = LiveOf(j)
        BY <2>1 DEF CommentsOf, LiveOf
    <2> QED BY <2>1, <2>2, <2>4, <2>5, StillWithdrawn
<1>4. ASSUME NEW v, NEW k, Handed(v, k)
      PROVE  Withdrawn(t, j, r)'
    <2>1. /\ UNCHANGED <<checks, comments, inline, faults>> /\ v \in Slots /\ task'[v].job = k
          /\ \A u \in Slots \ {v} : task'[u] = task[u]
        BY <1>4 DEF Handed, HandsOut, gitHub
    <2>2. ChecksOf(r)' = ChecksOf(r) /\ CommentsOf(r)' = CommentsOf(r) /\ LiveOf(j)' = LiveOf(j)
        BY <2>1 DEF ChecksOf, CommentsOf, LiveOf
    <2>3. Jobs \subseteq Jobs' /\ \A i \in Jobs : job'[i] = job[i]
        BY <1>4, HandedJobs
    <2>4. CASE v = t
        <3>1. /\ j \notin Jobs /\ \E q \in Runs : NewJob(j, q)
              /\ task'[t].pc = "queued"
              /\ \A i \in DOMAIN inline : inline[i].job # j
            BY <1>1, <1>4, <2>1, <2>4, SoleIsNew DEF Lone
        <3>2. job'[j].status = "pending"
            BY <3>1 DEF NewJob
        <3>3. \A i \in Jobs : job[i].run # r
            BY <1>1, <2>3, <3>1 DEF Lone
        <3>4. ChecksOf(r) = {} /\ CommentsOf(r) = {}
            BY <1>2, <3>3 DEF ChecksOf, CommentsOf, Telling, SaysJob
        <3>5. LiveOf(j) = {}
            BY <3>1 DEF LiveOf
        <3> QED BY <2>2, <3>1, <3>2, <3>4, <3>5 DEF Withdrawn, Alive, Held, Early, Up, Terminal
    <2>5. CASE v # t
        <3>1. task'[t] = task[t]
            BY <2>1, <2>5
        <3>2. j \in Jobs /\ job'[j] = job[j]
            <4>1. j <= created
                BY <1>1, <3>1 DEF Shaped, InSlots
            <4> QED BY <2>3, <4>1, InJobs
        <3>3. Sole(t)
            BY <1>1, <1>2, <1>4, <2>5, <3>1, SoleBefore DEF Lone
        <3>4. Lone(t)
            BY <1>1, <2>3, <3>1, <3>2, <3>3 DEF Lone
        <3>5. Withdrawn(t, j, r)
            BY <1>1, <2>1, <3>1, <3>2, <3>4 DEF HiddenInv
        <3> QED BY <2>2, <3>1, <3>2, <3>5, StillWithdrawn
    <2> QED BY <2>4, <2>5
<1>5. ASSUME NEW u \in Slots, Works(u) \/ Killed(u)
      PROVE  Withdrawn(t, j, r)'
    <2>1. TaskMoves(u) /\ GitHubTyped
        BY <1>5, WorksMoves
    <2>2. UNCHANGED faults /\ faults = 0
        BY <1>1, <2>1 DEF GitHubTyped, FaultsGrow, Shaped, Typed
    <2>3. /\ \A i \in Slots : task'[i].job = task[i].job /\ job'[i].run = job[i].run
          /\ created' = created
        BY <2>1 DEF TaskMoves, Others
    <2>4. task[t].job = j /\ job[j].run = r /\ \A i \in Jobs : i \in Slots
        BY <1>1, <2>3, CountFacts DEF Jobs
    <2>5. Sole(t) /\ Jobs' = Jobs
        BY <1>1, <2>3 DEF Lone, Sole, Slots, Jobs
    <2>6. Lone(t)
        BY <1>1, <2>3, <2>4, <2>5 DEF Lone
    <2>7. Withdrawn(t, j, r)
        BY <2>2, <2>4, <2>6 DEF HiddenInv
    <2>8. CASE u = t
        BY <1>5, <2>2, <2>4, <2>7, <2>8, MoverWithdrawn
    <2>9. CASE u # t
        <3> DEFINE k == task[u].job
        <3>1. k # j /\ k \in Jobs /\ task'[t] = task[t] /\ job'[j] = job[j]
            BY <2>1, <2>4, <2>5, <2>9 DEF Sole, TaskMoves
        <3>2. job[k].run # r
            BY <2>4, <2>6, <3>1 DEF Lone
        <3>3. ChecksOf(r)' \subseteq ChecksOf(r) /\ CommentsOf(r)' \subseteq CommentsOf(r)
            <4>1. Alters(checks, checks', {0, job[k].run}) /\ Alters(comments, comments', {0, job[k].run})
                BY <1>5, WorksAlter
            <4>2. r \notin {0, job[k].run}
                BY <1>2, <3>2
            <4> QED BY <1>2, <4>1, <4>2, OthersShow DEF ChecksOf, CommentsOf
        <3>4. LiveOf(j)' \subseteq LiveOf(j)
            BY <1>5, <3>1, WorksKeep, OthersPost
        <3> QED BY <2>7, <3>1, <3>3, <3>4, StillWithdrawn
    <2> QED BY <2>8, <2>9
<1> QED BY <1>3, <1>4, <1>5, StepCases

-----------------------------------------------------------------------------
(* The theorems on what is shown.                                           *)

LEMMA ShownStarts ==
    ASSUME Init, Shaped
    PROVE  Staffed /\ SaysJob /\ Known /\ HiddenInv
<1>1. /\ \A t \in Slots : task[t].job = 0 /\ task[t].row.check = 0 /\ task[t].row.comment = 0 /\ task[t].other = 0
      /\ \A j \in Slots : job[j].check = 0 /\ job[j].comment = 0
      /\ \A r \in Runs : pipelineCheck[r] = 0
    BY DEF Init, NoTask, NoJob
<1>2. DOMAIN checks = {} /\ DOMAIN comments = {} /\ DOMAIN inline = {} /\ Len(checks) = 0 /\ Len(comments) = 0 /\ created = 0
    BY DEF Init
<1>3. Jobs = {}
    BY <1>2 DEF Jobs
<1> QED BY <1>1, <1>2, <1>3 DEF Staffed, SaysJob, Known, RowKnown, HiddenInv, Lone, Sole

\* The identifiers that rows, sessions and pipelines hold are of objects on GitHub, so
\* that every update of a check run or a comment finds it (github_publish.py).
THEOREM KnownHolds == Spec => []Known
<1>1. Init => Known
    BY ShapedStarts, ShownStarts
<1>2. Shaped /\ Known /\ [Next]_vars => Known'
    BY KnownStep
<1> QED BY <1>1, <1>2, ShapedHolds, PTL DEF Spec

\* What HiddenInv says holds in every reachable state.
THEOREM HiddenHolds == Spec => [](Staffed /\ SaysJob /\ HiddenInv)
<1>1. Init => Staffed /\ SaysJob /\ HiddenInv
    BY ShapedStarts, ShownStarts
<1>2. Shaped /\ (Staffed /\ SaysJob /\ HiddenInv) /\ [Next]_vars => (Staffed /\ SaysJob /\ HiddenInv)'
    BY StaffedStep, SaysJobStep, HiddenStep
<1> QED BY <1>1, <1>2, ShapedHolds, PTL DEF Spec

\* When a job that nobody else publishes has ended as skipped and no call has failed,
\* GitHub shows nothing it has written: the check run and the comment do not say the
\* result of its run, and its inline comments are deleted
\* (_best_effort_revert_partial_flush_surface).
THEOREM SkippedIsHiddenHolds == Spec => []SkippedIsHidden
<1>1. Shaped /\ Known /\ (Staffed /\ SaysJob /\ HiddenInv) => SkippedIsHidden
    <2>1. SUFFICES ASSUME Shaped, Known, HiddenInv, faults = 0,
                          NEW j \in Jobs, job[j].status = "skipped", Alone(j)
                   PROVE  /\ job[j].check # 0 => checks[job[j].check] .run # job[j].run
                          /\ job[j].comment # 0 => comments[job[j].comment].run # job[j].run
                          /\ \A i \in DOMAIN inline : inline[i].job = j => ~inline[i].live
        BY DEF SkippedIsHidden
    <2> DEFINE r == job[j].run
    <2>2. j \in Slots /\ j \in Nat /\ j <= created /\ job[j] \in JobRow
        BY <2>1, CountFacts DEF Jobs, Shaped, Typed
    <2>3. r \in Runs
        BY <2>1, <2>2 DEF Shaped, InSlots
    <2>4. PICK t \in Slots : task[t].job = j /\ Sole(t)
        BY <2>1, <2>2, OneIsSole DEF Alone
    <2>5. Lone(t)
        BY <2>1, <2>4 DEF Lone, Alone
    <2>6. Withdrawn(t, j, r)
        BY <2>1, <2>2, <2>3, <2>4, <2>5 DEF HiddenInv
    <2>7. task[t].pc = "done" /\ Held(t, j, r)
        BY <2>1, <2>6 DEF Withdrawn, Alive, Terminal
    <2>8. ChecksOf(r) = {} /\ CommentsOf(r) = {} /\ LiveOf(j) = {}
        BY <2>7 DEF Held, Up
    <2>9. /\ job[j].check # 0 => job[j].check \in DOMAIN checks
          /\ job[j].comment # 0 => job[j].comment \in DOMAIN comments
        <3>1. /\ job[j].check \in Nat /\ job[j].comment \in Nat
              /\ job[j].check <= Len(checks) /\ job[j].comment <= Len(comments)
            BY <2>1, <2>2 DEF Known, RowKnown, JobRow
        <3>2. /\ DOMAIN checks = 1 .. Len(checks) /\ Len(checks) \in Nat
              /\ DOMAIN comments = 1 .. Len(comments) /\ Len(comments) \in Nat
            BY <2>1, LenProperties DEF Shaped, Typed
        <3> QED BY <3>1, <3>2
    <2> QED BY <2>8, <2>9 DEF ChecksOf, CommentsOf, LiveOf, Telling
<1> QED BY <1>1, ShapedHolds, KnownHolds, HiddenHolds, PTL

=============================================================================
