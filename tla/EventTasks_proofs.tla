------------------------- MODULE EventTasks_proofs -------------------------
(***************************************************************************)
(* Proof that a delivery is processed by one event task, however often     *)
(* GitHub posts it and however its requests and the tasks interleave, and  *)
(* that the index task of a revision pushed once follows its pairing.      *)
(***************************************************************************)
EXTENDS EventTasks, TLAPS

Request == [delivery : Deliveries, new : BOOLEAN, pc : {"insert", "commit", "enqueue", "done"}]

Message == [kind : Deliveries \cup {"resolve", "autostart"}, rev : Nat, job : Nat,
            pair : BOOLEAN, at : Places, retries : Nat]

Job == [rev : Nat, status : {"pending", "done", "failed", "superseded"}, sent : BOOLEAN]

Typed ==
    /\ request \in Seq(Request)
    /\ stored \subseteq Deliveries
    /\ head \in Nat
    /\ jobs \in Seq(Job)
    /\ tasks \in Seq(Message)

\* Only a request that inserted the row passes the commit with something to enqueue, and
\* the row is then stored.
InsertedIsStored ==
    \A q \in DOMAIN request :
        /\ request[q].pc = "insert" => ~request[q].new
        /\ request[q].pc = "enqueue" => request[q].new
        /\ request[q].new /\ request[q].pc \in {"enqueue", "done"} => request[q].delivery \in stored

OneInserts ==
    \A p, q \in DOMAIN request :
        request[p].new /\ request[q].new /\ request[p].delivery = request[q].delivery => p = q

\* An event task was enqueued by a request that inserted the row and is done.
EnqueuedByInserter ==
    \A t \in DOMAIN tasks :
        IsEvent(t) => \E q \in DOMAIN request : /\ request[q].delivery = tasks[t].kind
                                                /\ request[q].new /\ request[q].pc = "done"

IInv == Typed /\ InsertedIsStored /\ OneInserts /\ EnqueuedByInserter /\ ProcessedOnce

\* What the tasks do to the queue: known messages keep their kind, and no event task is added.
KindsKept ==
    /\ Len(tasks) <= Len(tasks')
    /\ \A t \in DOMAIN tasks : tasks'[t].kind = tasks[t].kind
    /\ \A t \in DOMAIN tasks' : t \notin DOMAIN tasks => tasks'[t].kind \notin Deliveries

-----------------------------------------------------------------------------
(* Messages.                                                               *)

LEMMA RevIsNat == ASSUME NEW d \in Deliveries PROVE RevOf[d] \in Nat
  BY EventsAssumption

LEMMA TaskTyped ==
  ASSUME NEW kind \in {"resolve", "autostart"}, NEW rev \in Nat, NEW job \in Nat, NEW pair \in BOOLEAN
  PROVE  Task(kind, rev, job, pair) \in Message
  BY DEF Task, Message, Places

\* Appending keeps what is there.
LEMMA Appended ==
  ASSUME NEW S, NEW s \in Seq(S), NEW x \in S
  PROVE  /\ Append(s, x) \in Seq(S) /\ Len(Append(s, x)) = Len(s) + 1
         /\ DOMAIN Append(s, x) = 1..(Len(s) + 1)
         /\ \A i \in DOMAIN s : Append(s, x)[i] = s[i]
         /\ Append(s, x)[Len(s) + 1] = x
  OBVIOUS

\* So does replacing an element, of the others.
LEMMA Replaced ==
  ASSUME NEW S, NEW s \in Seq(S), NEW i \in DOMAIN s, NEW x \in S
  PROVE  /\ [s EXCEPT ![i] = x] \in Seq(S) /\ Len([s EXCEPT ![i] = x]) = Len(s)
         /\ [s EXCEPT ![i] = x][i] = x
         /\ \A u \in DOMAIN s : u # i => [s EXCEPT ![i] = x][u] = s[u]
  OBVIOUS

\* The message of a task may change in place, in everything but its kind.
Rewritten(ts, t) ==
    /\ ts \in Seq(Message) /\ Len(ts) = Len(tasks)
    /\ \A u \in DOMAIN tasks : ts[u].kind = tasks[u].kind

LEMMA ReplacedIsRewritten ==
  ASSUME tasks \in Seq(Message), NEW t \in DOMAIN tasks, NEW m \in Message, m.kind = tasks[t].kind
  PROVE  Rewritten([tasks EXCEPT ![t] = m], t)
  <1>1. /\ [tasks EXCEPT ![t] = m] \in Seq(Message) /\ Len([tasks EXCEPT ![t] = m]) = Len(tasks)
        /\ [tasks EXCEPT ![t] = m][t] = m
        /\ \A u \in DOMAIN tasks : u # t => [tasks EXCEPT ![t] = m][u] = tasks[u]
    BY Replaced
  <1> QED BY <1>1 DEF Rewritten

LEMMA AtRewrites ==
  ASSUME tasks \in Seq(Message), NEW t \in DOMAIN tasks, NEW place \in Places
  PROVE  Rewritten(At(t, place), t)
  <1> DEFINE m == [tasks[t] EXCEPT !.at = place]
  <1>1. tasks[t] \in Message OBVIOUS
  <1>2. m \in Message /\ m.kind = tasks[t].kind BY <1>1 DEF Message
  <1>3. At(t, place) = [tasks EXCEPT ![t] = m] BY DEF At
  <1> QED BY <1>2, <1>3, ReplacedIsRewritten

LEMMA RewrittenKeepsKinds ==
  ASSUME tasks \in Seq(Message), NEW t, Rewritten(tasks', t)
  PROVE  tasks' \in Seq(Message) /\ KindsKept
  BY DEF Rewritten, KindsKept

LEMMA AppendedKeepsKinds ==
  ASSUME tasks \in Seq(Message), NEW t, NEW ts, Rewritten(ts, t), NEW m \in Message,
         m.kind \notin Deliveries, tasks' = Append(ts, m)
  PROVE  tasks' \in Seq(Message) /\ KindsKept
  <1>1. ts \in Seq(Message) /\ Len(ts) = Len(tasks) BY DEF Rewritten
  <1>2. /\ tasks' \in Seq(Message) /\ Len(tasks') = Len(tasks) + 1
        /\ DOMAIN tasks' = 1..(Len(tasks) + 1)
        /\ \A u \in DOMAIN ts : tasks'[u] = ts[u]
        /\ tasks'[Len(tasks) + 1] = m
    BY <1>1, Appended
  <1>3. DOMAIN ts = DOMAIN tasks BY <1>1
  <1> QED BY <1>1, <1>2, <1>3 DEF Rewritten, KindsKept

LEMMA NotADelivery ==
  ASSUME NEW kind \in {"resolve", "autostart"}, NEW rev, NEW job, NEW pair
  PROVE  Task(kind, rev, job, pair).kind \notin Deliveries
  BY EventsAssumption DEF Task

\* The messages after a task has moved on and, with coalescing, has scheduled the start.
LEMMA ScheduledKeepsKinds ==
  ASSUME tasks \in Seq(Message), NEW t \in DOMAIN tasks, NEW place \in Places,
         tasks' = Scheduled(At(t, place), tasks[t].rev)
  PROVE  tasks' \in Seq(Message) /\ KindsKept
  <1>1. Rewritten(At(t, place), t) BY AtRewrites
  <1>2. CASE coalescing
    <2>1. Autostart(tasks[t].rev) \in Message /\ Autostart(tasks[t].rev).kind \notin Deliveries
      <3>0. tasks[t] \in Message OBVIOUS
      <3>1. tasks[t].rev \in Nat BY <3>0 DEF Message
      <3> QED BY <3>1, TaskTyped, NotADelivery DEF Autostart
    <2> QED BY <1>1, <1>2, <2>1, AppendedKeepsKinds DEF Scheduled
  <1>3. CASE ~coalescing
    BY <1>1, <1>3, RewrittenKeepsKinds DEF Scheduled
  <1> QED BY <1>2, <1>3

LEMMA FailJobTyped ==
  ASSUME jobs \in Seq(Job), NEW j \in Nat PROVE FailJob(j) \in Seq(Job)
  <1>1. CASE j # 0 /\ jobs[j].status = "pending" /\ j \in DOMAIN jobs
    <2>0. jobs[j] \in Job BY <1>1
    <2>1. [jobs[j] EXCEPT !.status = "failed"] \in Job BY <2>0 DEF Job
    <2>2. FailJob(j) = [jobs EXCEPT ![j] = [jobs[j] EXCEPT !.status = "failed"]]
      BY <1>1 DEF FailJob
    <2> QED BY <1>1, <2>1, <2>2, Replaced
  <1>2. CASE j \notin DOMAIN jobs
    <2>1. [jobs EXCEPT ![j].status = "failed"] = jobs BY <1>2
    <2> QED BY <2>1 DEF FailJob
  <1>3. CASE ~(j # 0 /\ jobs[j].status = "pending")
    BY <1>3 DEF FailJob
  <1> QED BY <1>1, <1>2, <1>3

-----------------------------------------------------------------------------
(* The steps of tasks.                                                     *)

TaskStep == /\ request' = request /\ stored' = stored /\ head' \in Nat
            /\ jobs' \in Seq(Job) /\ tasks' \in Seq(Message) /\ KindsKept

LEMMA MessageOf ==
  ASSUME Typed, NEW t \in DOMAIN tasks
  PROVE  /\ tasks[t] \in Message /\ tasks[t].rev \in Nat /\ tasks[t].job \in Nat
         /\ tasks[t].pair \in BOOLEAN /\ tasks[t].retries \in Nat
  <1>1. tasks[t] \in Message BY DEF Typed
  <1> QED BY <1>1 DEF Message

LEMMA SupersedeTyped ==
  ASSUME jobs \in Seq(Job), NEW J PROVE Supersede(J) \in Seq(Job)
  <1>1. \A j \in DOMAIN jobs : [jobs[j] EXCEPT !.status = "superseded"] \in Job
    <2> TAKE j \in DOMAIN jobs
    <2>1. jobs[j] \in Job OBVIOUS
    <2> QED BY <2>1 DEF Job
  <1>2. \A j \in DOMAIN jobs : jobs[j] \in Job OBVIOUS
  <1>3. Supersede(J) \in [1..Len(jobs) -> Job] BY <1>1, <1>2 DEF Supersede
  <1>4. Len(jobs) \in Nat OBVIOUS
  <1> QED BY <1>3, <1>4

LEMMA ProcessEventStep ==
  ASSUME Typed, NEW t \in DOMAIN tasks, ProcessEvent(t) PROVE TaskStep
  <1> DEFINE r == tasks[t].rev
             js == Supersede(Overtaken(r))
             m(job) == [tasks[t] EXCEPT !.at = "follow", !.pair = r \notin known, !.job = job]
  <1>1. js \in Seq(Job) /\ Len(js) \in Nat BY SupersedeTyped DEF Typed
  <1>2. r \in Nat /\ tasks[t] \in Message BY MessageOf
  <1>3. \A job \in Nat : m(job) \in Message /\ m(job).kind = tasks[t].kind
    BY <1>2 DEF Message, Places
  <1>4. CASE coalescing \/ InProgress(js, r)
    <2>1. m(tasks[t].job) = [tasks[t] EXCEPT !.at = "follow", !.pair = r \notin known]
      BY <1>2 DEF Message
    <2>2. tasks' = [tasks EXCEPT ![t] = m(tasks[t].job)]
      BY <1>4, <2>1 DEF ProcessEvent
    <2>3. tasks[t].job \in Nat BY MessageOf
    <2>4. Rewritten(tasks', t)
      <3> DEFINE n == m(tasks[t].job)
      <3>1. n \in Message /\ n.kind = tasks[t].kind BY <1>3, <2>3
      <3>2. tasks' = [tasks EXCEPT ![t] = n] BY <2>2
      <3> HIDE DEF n
      <3> QED BY <3>1, <3>2, ReplacedIsRewritten DEF Typed
    <2>5. tasks' \in Seq(Message) /\ KindsKept BY <2>4, RewrittenKeepsKinds DEF Typed
    <2>6. jobs' = js BY <1>4 DEF ProcessEvent
    <2> QED BY <1>1, <1>2, <2>5, <2>6 DEF ProcessEvent, TaskStep
  <1>5. CASE ~(coalescing \/ InProgress(js, r))
    <2>1. tasks' = [tasks EXCEPT ![t] = m(Len(js) + 1)]
      BY <1>5 DEF ProcessEvent
    <2>2. Rewritten(tasks', t)
      <3> DEFINE n == m(Len(js) + 1)
      <3>0. Len(js) + 1 \in Nat BY <1>1
      <3>1. n \in Message /\ n.kind = tasks[t].kind
        <4> HIDE DEF m, js
        <4> QED BY <1>3, <3>0
      <3>2. tasks' = [tasks EXCEPT ![t] = n] BY <2>1
      <3> HIDE DEF n
      <3> QED BY <3>1, <3>2, ReplacedIsRewritten DEF Typed
    <2>3. tasks' \in Seq(Message) /\ KindsKept BY <2>2, RewrittenKeepsKinds DEF Typed
    <2>4. Pending(r) \in Job BY <1>2 DEF Pending, Job
    <2>5. jobs' = Append(js, Pending(r)) BY <1>5 DEF ProcessEvent
    <2>6. jobs' \in Seq(Job) BY <1>1, <2>4, <2>5, Appended
    <2> QED BY <1>2, <2>3, <2>6 DEF ProcessEvent, TaskStep
  <1> QED BY <1>4, <1>5

\* Trying again: the attempts and, after the pairing, the place and the flag change.
LEMMA RetryKeepsKinds ==
  ASSUME Typed, NEW t \in DOMAIN tasks,
         \/ tasks' = [tasks EXCEPT ![t].retries = @ + 1]
         \/ tasks' = [tasks EXCEPT ![t].retries = @ + 1, ![t].at = "queued", ![t].pair = FALSE]
  PROVE  tasks' \in Seq(Message) /\ KindsKept
  <1> DEFINE m == [tasks[t] EXCEPT !.retries = @ + 1]
             n == [m EXCEPT !.at = "queued", !.pair = FALSE]
  <1>1. tasks[t] \in Message BY MessageOf
  <1>2. m \in Message /\ m.kind = tasks[t].kind BY <1>1 DEF Message
  <1>3. n \in Message /\ n.kind = tasks[t].kind
    <2> HIDE DEF m
    <2> QED BY <1>2 DEF Message, Places
  <1>4. tasks' = [tasks EXCEPT ![t] = m] \/ tasks' = [tasks EXCEPT ![t] = n] OBVIOUS
  <1>5. Rewritten(tasks', t)
    <2> HIDE DEF m, n
    <2> QED BY <1>2, <1>3, <1>4, ReplacedIsRewritten DEF Typed
  <1> QED BY <1>5, RewrittenKeepsKinds DEF Typed

LEMMA AtKeepsKinds ==
  ASSUME Typed, NEW t \in DOMAIN tasks, NEW place \in Places, tasks' = At(t, place)
  PROVE  tasks' \in Seq(Message) /\ KindsKept
  BY AtRewrites, RewrittenKeepsKinds DEF Typed

\* A task moves on and enqueues a resolution.
LEMMA ResolutionKeepsKinds ==
  ASSUME Typed, NEW t \in DOMAIN tasks, NEW place \in Places,
         NEW rev \in Nat, NEW job \in Nat, NEW pair \in BOOLEAN,
         tasks' = Append(At(t, place), Task("resolve", rev, job, pair))
  PROVE  tasks' \in Seq(Message) /\ KindsKept
  BY AtRewrites, TaskTyped, NotADelivery, AppendedKeepsKinds DEF Typed

LEMMA JobRewritten ==
  ASSUME jobs \in Seq(Job), NEW j, NEW x \in BOOLEAN PROVE [jobs EXCEPT ![j].sent = x] \in Seq(Job)
  <1>1. CASE j \in DOMAIN jobs
    <2>1. jobs[j] \in Job BY <1>1
    <2>2. [jobs[j] EXCEPT !.sent = x] \in Job BY <2>1 DEF Job
    <2> QED BY <1>1, <2>2, Replaced
  <1>2. CASE j \notin DOMAIN jobs
    <2>1. [jobs EXCEPT ![j].sent = x] = jobs BY <1>2
    <2> QED BY <2>1
  <1> QED BY <1>1, <1>2

LEMMA PendingTyped == ASSUME NEW r \in Nat PROVE Pending(r) \in Job
  BY DEF Pending, Job

\* A fault or a step of a task keeps the kinds of the messages, and the API's records.
LEMMA WorkStep ==
  ASSUME Typed, NEW t \in DOMAIN tasks, Work(t) \/ Fault(t) PROVE TaskStep
  <1> USE MessageOf
  <1>0. head \in Nat /\ jobs \in Seq(Job) /\ Len(jobs) \in Nat /\ tasks \in Seq(Message)
    BY DEF Typed
  <1>1. CASE ProcessEvent(t) BY <1>1, ProcessEventStep
  <1>2. CASE EnqueueResolution(t)
    <2>1. tasks' \in Seq(Message) /\ KindsKept
      BY <1>2, ResolutionKeepsKinds DEF EnqueueResolution, Places
    <2> QED BY <1>0, <1>2, <2>1 DEF EnqueueResolution, TaskStep
  <1>3. CASE Resolve(t)
    <2>1. tasks' \in Seq(Message) /\ KindsKept
      <3>1. tasks' = At(t, "applied") \/ tasks' = At(t, "stale") BY <1>3 DEF Resolve
      <3> QED BY <3>1, AtKeepsKinds DEF Places
    <2> QED BY <1>0, <1>3, <2>1 DEF Resolve, TaskStep
  <1>4. CASE PostOutcome(t)
    <2>1. CASE Release(t)
      <3>1. CASE tasks[t].job # 0
        <4>1. tasks' \in Seq(Message) /\ KindsKept
          <5>1. tasks' = At(t, "done") BY <2>1, <3>1 DEF Release
          <5> QED BY <5>1, AtKeepsKinds DEF Places
        <4>2. jobs' \in Seq(Job)
          <5>1. jobs' = [jobs EXCEPT ![tasks[t].job].sent = TRUE] BY <2>1, <3>1 DEF Release
          <5> QED BY <1>0, <5>1, JobRewritten
        <4> QED BY <1>0, <1>4, <4>1, <4>2 DEF PostOutcome, TaskStep
      <3>2. CASE tasks[t].job = 0
        <4>1. tasks' \in Seq(Message) /\ KindsKept
          <5>1. tasks' = Scheduled(At(t, "done"), tasks[t].rev) BY <2>1, <3>2 DEF Release
          <5> QED BY <1>0, <5>1, ScheduledKeepsKinds DEF Places
        <4>2. jobs' = jobs BY <2>1, <3>2 DEF Release
        <4> QED BY <1>0, <1>4, <4>1, <4>2 DEF PostOutcome, TaskStep
      <3> QED BY <3>1, <3>2
    <2>2. CASE HandOff(t)
      <3>1. jobs' \in Seq(Job)
        <4>1. jobs' = FailJob(tasks[t].job) BY <2>2 DEF HandOff
        <4> QED BY <1>0, <4>1, FailJobTyped
      <3>2. tasks' \in Seq(Message) /\ KindsKept
        <4>1. \/ tasks' = Append(At(t, "done"), Task("resolve", head, 0, TRUE))
              \/ tasks' = At(t, "done")
          BY <2>2 DEF HandOff
        <4> QED BY <1>0, <4>1, ResolutionKeepsKinds, AtKeepsKinds DEF Places
      <3> QED BY <1>0, <1>4, <3>1, <3>2 DEF PostOutcome, TaskStep
    <2> QED BY <1>4, <2>1, <2>2 DEF PostOutcome
  <1>5. CASE Start(t)
    <2>1. tasks' \in Seq(Message) /\ KindsKept
      <3>1. tasks' = At(t, "insert") \/ tasks' = At(t, "done") BY <1>5 DEF Start
      <3> QED BY <3>1, AtKeepsKinds DEF Places
    <2> QED BY <1>0, <1>5, <2>1 DEF Start, TaskStep
  <1>6. CASE InsertJob(t)
    <2> DEFINE m == [tasks[t] EXCEPT !.at = "send", !.job = Len(jobs) + 1]
    <2>1. m \in Message /\ m.kind = tasks[t].kind
      <3>1. Len(jobs) + 1 \in Nat BY <1>0
      <3>2. tasks[t] \in Message OBVIOUS
      <3> QED BY <3>1, <3>2 DEF Message, Places
    <2>2. tasks' = [tasks EXCEPT ![t] = m] BY <1>6 DEF InsertJob
    <2>3. Rewritten(tasks', t)
      <3> HIDE DEF m
      <3> QED BY <1>0, <2>1, <2>2, ReplacedIsRewritten
    <2>4. tasks' \in Seq(Message) /\ KindsKept BY <1>0, <2>3, RewrittenKeepsKinds
    <2>5. jobs' \in Seq(Job)
      <3>1. jobs' = Append(jobs, Pending(tasks[t].rev)) BY <1>6 DEF InsertJob
      <3> QED BY <1>0, <3>1, PendingTyped, Appended
    <2> QED BY <1>0, <1>6, <2>4, <2>5 DEF InsertJob, TaskStep
  <1>7. CASE SendJob(t)
    <2>1. tasks' \in Seq(Message) /\ KindsKept BY <1>7, AtKeepsKinds DEF SendJob, Places
    <2>2. jobs' \in Seq(Job) BY <1>0, <1>7, JobRewritten DEF SendJob
    <2> QED BY <1>0, <1>7, <2>1, <2>2 DEF SendJob, TaskStep
  <1>8. CASE FailEvent(t)
    <2>1. tasks' \in Seq(Message) /\ KindsKept
      <3>1. \/ tasks' = [tasks EXCEPT ![t].retries = @ + 1]
            \/ tasks' = At(t, "failed")
        BY <1>8 DEF FailEvent
      <3> QED BY <3>1, RetryKeepsKinds, AtKeepsKinds DEF Places
    <2> QED BY <1>0, <1>8, <2>1 DEF FailEvent, TaskStep
  <1>9. CASE LoseResolution(t)
    <2>1. tasks' \in Seq(Message) /\ KindsKept BY <1>9, AtKeepsKinds DEF LoseResolution, Places
    <2> QED BY <1>0, <1>9, <2>1 DEF LoseResolution, TaskStep
  <1>10. CASE FailResolve(t)
    <2>1. CASE MayRetry(t)
      <3>1. tasks' = [tasks EXCEPT ![t].retries = @ + 1] /\ jobs' = jobs
        BY <1>10, <2>1 DEF FailResolve
      <3>2. tasks' \in Seq(Message) /\ KindsKept BY <3>1, RetryKeepsKinds
      <3> QED BY <1>0, <1>10, <3>1, <3>2 DEF FailResolve, TaskStep
    <2>2. CASE ~MayRetry(t)
      <3>1. tasks' = Scheduled(At(t, "failed"), tasks[t].rev) /\ jobs' = FailJob(tasks[t].job)
        BY <1>10, <2>2 DEF FailResolve, GiveUp
      <3>2. tasks' \in Seq(Message) /\ KindsKept BY <1>0, <3>1, ScheduledKeepsKinds DEF Places
      <3>3. jobs' \in Seq(Job) BY <1>0, <3>1, FailJobTyped
      <3> QED BY <1>0, <1>10, <3>2, <3>3 DEF FailResolve, TaskStep
    <2> QED BY <2>1, <2>2
  <1>11. CASE FailPostOutcome(t)
    <2>1. CASE MayRetry(t)
      <3>1. /\ tasks' = [tasks EXCEPT ![t].retries = @ + 1, ![t].at = "queued", ![t].pair = FALSE]
            /\ jobs' = jobs
        BY <1>11, <2>1 DEF FailPostOutcome
      <3>2. tasks' \in Seq(Message) /\ KindsKept BY <3>1, RetryKeepsKinds
      <3> QED BY <1>0, <1>11, <3>1, <3>2 DEF FailPostOutcome, TaskStep
    <2>2. CASE ~MayRetry(t)
      <3>1. /\ jobs' = FailJob(tasks[t].job)
            /\ \/ tasks' = Scheduled(At(t, "failed"), tasks[t].rev)
               \/ tasks' = At(t, "failed")
        BY <1>11, <2>2 DEF FailPostOutcome
      <3>2. tasks' \in Seq(Message) /\ KindsKept
        BY <1>0, <3>1, ScheduledKeepsKinds, AtKeepsKinds DEF Places
      <3>3. jobs' \in Seq(Job) BY <1>0, <3>1, FailJobTyped
      <3> QED BY <1>0, <1>11, <3>2, <3>3 DEF FailPostOutcome, TaskStep
    <2> QED BY <2>1, <2>2
  <1>12. CASE LoseStart(t)
    <2>1. tasks' \in Seq(Message) /\ KindsKept BY <1>12, AtKeepsKinds DEF LoseStart, Places
    <2> QED BY <1>0, <1>12, <2>1 DEF LoseStart, TaskStep
  <1> QED BY <1>1, <1>2, <1>3, <1>4, <1>5, <1>6, <1>7, <1>8, <1>9, <1>10, <1>11, <1>12
          DEF Work, Fault

-----------------------------------------------------------------------------
(* The invariant.                                                          *)

LEMMA InitIInv == Init => IInv
  <1> SUFFICES ASSUME Init PROVE IInv OBVIOUS
  <1>1. Typed BY DEF Init, Typed
  <1> QED BY <1>1 DEF Init, IInv, InsertedIsStored, OneInserts, EnqueuedByInserter, ProcessedOnce

\* A step of a task adds no event task and leaves the requests alone.
LEMMA TaskStepIInv == ASSUME IInv, TaskStep PROVE IInv'
  <1>1. Typed' BY DEF IInv, Typed, TaskStep
  <1>2. InsertedIsStored' /\ OneInserts' BY DEF IInv, TaskStep, InsertedIsStored, OneInserts
  <1>3. \A t \in DOMAIN tasks' :
            IsEvent(t)' => t \in DOMAIN tasks /\ IsEvent(t) /\ tasks'[t].kind = tasks[t].kind
    BY DEF TaskStep, KindsKept, IsEvent
  <1>4. EnqueuedByInserter' BY <1>3 DEF IInv, TaskStep, EnqueuedByInserter
  <1>5. ProcessedOnce'
    <2> SUFFICES ASSUME NEW t \in DOMAIN tasks', NEW u \in DOMAIN tasks',
                        IsEvent(t)', tasks'[t].kind = tasks'[u].kind
                 PROVE  t = u
      BY DEF ProcessedOnce
    <2>1. IsEvent(u)' BY DEF IsEvent
    <2> QED BY <1>3, <2>1 DEF IInv, ProcessedOnce
  <1> QED BY <1>1, <1>2, <1>4, <1>5 DEF IInv

\* A step that changes the requests only, and enqueues nothing: the requests that were done
\* are still there.
LEMMA RequestStepIInv ==
  ASSUME IInv, Typed', InsertedIsStored', OneInserts', tasks' = tasks,
         \A q \in DOMAIN request : request[q].pc = "done" =>
             q \in DOMAIN request' /\ request'[q] = request[q]
  PROVE  IInv'
  <1>1. EnqueuedByInserter'
    <2> SUFFICES ASSUME NEW t \in DOMAIN tasks, IsEvent(t)
                 PROVE  \E q \in DOMAIN request' : /\ request'[q].delivery = tasks[t].kind
                                                   /\ request'[q].new /\ request'[q].pc = "done"
      BY DEF EnqueuedByInserter, IsEvent
    <2>1. PICK q \in DOMAIN request : /\ request[q].delivery = tasks[t].kind
                                      /\ request[q].new /\ request[q].pc = "done"
      BY DEF IInv, EnqueuedByInserter
    <2> QED BY <2>1
  <1>2. ProcessedOnce' BY DEF IInv, ProcessedOnce, IsEvent
  <1> QED BY <1>1, <1>2 DEF IInv

LEMMA ReceiveIInv == ASSUME IInv, NEW d \in Deliveries, Receive(d) PROVE IInv'
  <1> DEFINE r == [delivery |-> d, new |-> FALSE, pc |-> IF d \notin stored THEN "insert" ELSE "commit"]
  <1>1. request \in Seq(Request) /\ r \in Request BY DEF IInv, Typed, Request
  <1>2. request' = Append(request, r) BY DEF Receive
  <1>3. r.new = FALSE /\ r.pc \in {"insert", "commit"} OBVIOUS
  <1> HIDE DEF r
  <1>4. /\ request' \in Seq(Request) /\ DOMAIN request' = 1..(Len(request) + 1)
        /\ \A q \in DOMAIN request : request'[q] = request[q]
        /\ request'[Len(request) + 1] = r
    BY <1>1, <1>2, Appended
  <1>5. \A q \in DOMAIN request' : q \in DOMAIN request \/ request'[q] = r
    BY <1>1, <1>4
  <1>6. Typed' BY <1>4 DEF IInv, Typed, Receive
  <1>7. InsertedIsStored' BY <1>3, <1>4, <1>5 DEF IInv, InsertedIsStored, Receive
  <1>8. OneInserts' BY <1>3, <1>4, <1>5 DEF IInv, OneInserts
  <1>9. \A q \in DOMAIN request : q \in DOMAIN request' /\ request'[q] = request[q]
    BY <1>1, <1>4
  <1>10. tasks' = tasks BY DEF Receive
  <1> QED BY <1>6, <1>7, <1>8, <1>9, <1>10, RequestStepIInv

\* What an update of a request's place leaves alone.
LEMMA Moved ==
  ASSUME request \in Seq(Request), NEW q \in DOMAIN request, NEW x \in Request, x.delivery = request[q].delivery,
         request' = [request EXCEPT ![q] = x]
  PROVE  /\ request' \in Seq(Request) /\ DOMAIN request' = DOMAIN request
         /\ request'[q] = x
         /\ \A p \in DOMAIN request : p # q => request'[p] = request[p]
         /\ \A p \in DOMAIN request : request'[p].delivery = request[p].delivery
  <1>1. /\ request' \in Seq(Request) /\ Len(request') = Len(request) /\ request'[q] = x
        /\ \A p \in DOMAIN request : p # q => request'[p] = request[p]
    BY Replaced
  <1> QED BY <1>1

LEMMA RequestTyped ==
  ASSUME IInv, NEW q \in DOMAIN request PROVE request \in Seq(Request) /\ request[q] \in Request
  BY DEF IInv, Typed

LEMMA InsertIInv == ASSUME IInv, NEW q \in DOMAIN request, Insert(q) PROVE IInv'
  <1> DEFINE d == request[q].delivery
             x == [request[q] EXCEPT !.pc = "commit", !.new = Inserts(d)]
  <1>1. request \in Seq(Request) /\ request[q] \in Request BY RequestTyped
  <1>2. x \in Request /\ x.delivery = d /\ x.pc = "commit" /\ x.new = (d \notin stored)
    BY <1>1 DEF Request, Inserts
  <1>3. request' = [request EXCEPT ![q] = x] BY DEF Insert
  <1> HIDE DEF x
  <1>4. /\ request' \in Seq(Request) /\ DOMAIN request' = DOMAIN request /\ request'[q] = x
        /\ \A p \in DOMAIN request : p # q => request'[p] = request[p]
        /\ \A p \in DOMAIN request : request'[p].delivery = request[p].delivery
    BY <1>1, <1>2, <1>3, Moved
  <1>5. Typed' BY <1>4 DEF IInv, Typed, Insert
  <1>6. InsertedIsStored' BY <1>2, <1>4 DEF IInv, InsertedIsStored, Insert
  <1>7. x.new => \A p \in DOMAIN request : ~(request[p].delivery = d /\ request[p].new)
    <2> SUFFICES ASSUME x.new, NEW p \in DOMAIN request, request[p].delivery = d, request[p].new
                 PROVE FALSE
      OBVIOUS
    <2>1. request[p] \in Request BY RequestTyped
    <2>2. request[p].pc # "commit" BY DEF Insert, Unsettled
    <2>3. request[p].pc \in {"enqueue", "done"} BY <2>1, <2>2 DEF Request, IInv, InsertedIsStored
    <2> QED BY <1>2, <2>3 DEF IInv, InsertedIsStored
  <1>8. OneInserts' BY <1>4, <1>7 DEF IInv, OneInserts
  <1>9. tasks' = tasks /\ request[q].pc = "insert" BY DEF Insert
  <1> QED BY <1>4, <1>5, <1>6, <1>8, <1>9, RequestStepIInv

LEMMA AcknowledgeIInv == ASSUME IInv, NEW q \in DOMAIN request, Acknowledge(q) PROVE IInv'
  <1> DEFINE x == [request[q] EXCEPT !.pc = IF request[q].new THEN "enqueue" ELSE "done"]
  <1>1. request \in Seq(Request) /\ request[q] \in Request BY RequestTyped
  <1>2. /\ x \in Request /\ x.delivery = request[q].delivery /\ x.new = request[q].new
        /\ x.pc = IF request[q].new THEN "enqueue" ELSE "done"
    BY <1>1 DEF Request
  <1>3. request' = [request EXCEPT ![q] = x] BY DEF Acknowledge
  <1> HIDE DEF x
  <1>4. /\ request' \in Seq(Request) /\ DOMAIN request' = DOMAIN request /\ request'[q] = x
        /\ \A p \in DOMAIN request : p # q => request'[p] = request[p]
        /\ \A p \in DOMAIN request : request'[p].delivery = request[p].delivery
    BY <1>1, <1>2, <1>3, Moved
  <1>5. stored' \subseteq Deliveries /\ stored \subseteq stored' /\ (request[q].new => request[q].delivery \in stored')
    BY <1>1 DEF IInv, Typed, Acknowledge, Request
  <1>6. Typed' BY <1>4, <1>5 DEF IInv, Typed, Acknowledge
  <1>7. InsertedIsStored' BY <1>2, <1>4, <1>5 DEF IInv, InsertedIsStored
  <1>8. OneInserts' BY <1>2, <1>4 DEF IInv, OneInserts
  <1>9. tasks' = tasks /\ request[q].pc = "commit" BY DEF Acknowledge
  <1> QED BY <1>4, <1>6, <1>7, <1>8, <1>9, RequestStepIInv

\* A request that enqueues, or is lost before it does, is done.
LEMMA DoneRequest ==
  ASSUME IInv, NEW q \in DOMAIN request, request[q].pc = "enqueue",
         request' = [request EXCEPT ![q].pc = "done"]
  PROVE  /\ request' \in Seq(Request) /\ DOMAIN request' = DOMAIN request
         /\ request'[q].pc = "done" /\ request'[q].new /\ request'[q].delivery = request[q].delivery
         /\ \A p \in DOMAIN request : p # q => request'[p] = request[p]
         /\ \A p \in DOMAIN request : request'[p].new = request[p].new
         /\ stored' = stored => InsertedIsStored'
         /\ OneInserts'
  <1> DEFINE x == [request[q] EXCEPT !.pc = "done"]
  <1>1. request \in Seq(Request) /\ request[q] \in Request BY RequestTyped
  <1>2. x \in Request /\ x.delivery = request[q].delivery /\ x.new = request[q].new /\ x.pc = "done"
    BY <1>1 DEF Request
  <1>3. request' = [request EXCEPT ![q] = x] OBVIOUS
  <1>a. request[q].new BY DEF IInv, InsertedIsStored
  <1> HIDE DEF x
  <1>4. /\ request' \in Seq(Request) /\ DOMAIN request' = DOMAIN request /\ request'[q] = x
        /\ \A p \in DOMAIN request : p # q => request'[p] = request[p]
        /\ \A p \in DOMAIN request : request'[p].delivery = request[p].delivery
    BY <1>1, <1>2, <1>3, Moved
  <1>5. stored' = stored => InsertedIsStored' BY <1>2, <1>4, <1>a DEF IInv, InsertedIsStored
  <1>6. OneInserts' BY <1>2, <1>4 DEF IInv, OneInserts
  <1> QED BY <1>2, <1>4, <1>5, <1>6, <1>a

LEMMA LoseEventIInv == ASSUME IInv, NEW q \in DOMAIN request, LoseEvent(q) PROVE IInv'
  <1>1. request[q].pc = "enqueue" /\ request' = [request EXCEPT ![q].pc = "done"] /\ tasks' = tasks
        /\ stored' = stored
    BY DEF LoseEvent
  <1>2. Typed' BY <1>1, DoneRequest DEF IInv, Typed, LoseEvent
  <1>3. \A p \in DOMAIN request : request[p].pc = "done" =>
             p \in DOMAIN request' /\ request'[p] = request[p]
    BY <1>1, DoneRequest
  <1> QED BY <1>1, <1>2, <1>3, DoneRequest, RequestStepIInv

LEMMA EnqueueEventIInv == ASSUME IInv, NEW q \in DOMAIN request, EnqueueEvent(q) PROVE IInv'
  <1> DEFINE d == request[q].delivery
             m == EventTask(d)
  <1>1. /\ request[q].pc = "enqueue" /\ request' = [request EXCEPT ![q].pc = "done"]
        /\ tasks' = Append(tasks, m) /\ stored' = stored
    BY DEF EnqueueEvent
  <1>2. request[q] \in Request BY RequestTyped
  <1>3. d \in Deliveries /\ m \in Message /\ m.kind = d
    <2>1. d \in Deliveries BY <1>2 DEF Request
    <2> QED BY <2>1, RevIsNat DEF EventTask, Task, Message, Places
  <1> HIDE DEF m
  <1>4. /\ tasks' \in Seq(Message) /\ DOMAIN tasks' = 1..(Len(tasks) + 1)
        /\ \A t \in DOMAIN tasks : tasks'[t] = tasks[t]
        /\ tasks'[Len(tasks) + 1] = m
    BY <1>1, <1>3, Appended DEF IInv, Typed
  <1>5. \A t \in DOMAIN tasks' : t \in DOMAIN tasks \/ t = Len(tasks) + 1
    BY <1>4 DEF IInv, Typed
  <1>6. Typed' BY <1>1, <1>4, DoneRequest DEF IInv, Typed, EnqueueEvent
  <1>7. InsertedIsStored' /\ OneInserts' BY <1>1, DoneRequest
  <1>8. EnqueuedByInserter'
    <2> SUFFICES ASSUME NEW t \in DOMAIN tasks', tasks'[t].kind \in Deliveries
                 PROVE  \E p \in DOMAIN request' : /\ request'[p].delivery = tasks'[t].kind
                                                   /\ request'[p].new /\ request'[p].pc = "done"
      BY DEF EnqueuedByInserter, IsEvent
    <2>1. CASE t \in DOMAIN tasks
      <3>1. tasks'[t] = tasks[t] BY <1>4, <2>1
      <3>2. PICK p \in DOMAIN request : /\ request[p].delivery = tasks[t].kind
                                        /\ request[p].new /\ request[p].pc = "done"
        BY <2>1, <3>1 DEF IInv, EnqueuedByInserter, IsEvent
      <3>3. p # q BY <1>1, <3>2
      <3> QED BY <1>1, <3>1, <3>2, <3>3, DoneRequest
    <2>2. CASE t = Len(tasks) + 1
      <3>1. tasks'[t].kind = request[q].delivery BY <1>3, <1>4, <2>2
      <3>2. /\ q \in DOMAIN request' /\ request'[q].delivery = request[q].delivery
            /\ request'[q].new /\ request'[q].pc = "done"
        BY <1>1, DoneRequest
      <3> QED BY <3>1, <3>2
    <2> QED BY <1>5, <2>1, <2>2
  <1>9. \A t \in DOMAIN tasks : tasks[t].kind # d
    <2> SUFFICES ASSUME NEW t \in DOMAIN tasks, tasks[t].kind = d PROVE FALSE OBVIOUS
    <2>1. PICK p \in DOMAIN request : /\ request[p].delivery = d
                                      /\ request[p].new /\ request[p].pc = "done"
      BY <1>3 DEF IInv, EnqueuedByInserter, IsEvent
    <2>2. request[q].new BY <1>1 DEF IInv, InsertedIsStored
    <2>3. p = q BY <2>1, <2>2 DEF IInv, OneInserts
    <2> QED BY <1>1, <2>1, <2>3
  <1>10. ProcessedOnce'
    <2> SUFFICES ASSUME NEW t \in DOMAIN tasks', NEW u \in DOMAIN tasks',
                        tasks'[t].kind \in Deliveries, tasks'[t].kind = tasks'[u].kind
                 PROVE  t = u
      BY DEF ProcessedOnce, IsEvent
    <2> QED BY <1>3, <1>4, <1>5, <1>9 DEF IInv, ProcessedOnce, IsEvent
  <1> QED BY <1>6, <1>7, <1>8, <1>10 DEF IInv

LEMMA IndexIInv == ASSUME IInv, NEW j \in DOMAIN jobs, Index(j) PROVE IInv'
  <1>1. jobs' \in Seq(Job)
    <2> DEFINE x == [jobs[j] EXCEPT !.status = "done"]
    <2>1. jobs \in Seq(Job) /\ jobs[j] \in Job BY DEF IInv, Typed
    <2>2. x \in Job BY <2>1 DEF Job
    <2>3. jobs' = [jobs EXCEPT ![j] = x] BY DEF Index
    <2> HIDE DEF x
    <2> QED BY <2>1, <2>2, <2>3, Replaced
  <1>2. TaskStep BY <1>1 DEF Index, TaskStep, IInv, Typed, KindsKept
  <1> QED BY <1>2, TaskStepIInv

LEMMA NextIInv == IInv /\ [Next]_vars => IInv'
  <1> SUFFICES ASSUME IInv, [Next]_vars PROVE IInv' OBVIOUS
  <1>1. ASSUME NEW d \in Deliveries, Receive(d) PROVE IInv' BY <1>1, ReceiveIInv
  <1>2. ASSUME NEW q \in DOMAIN request, Ingest(q) \/ LoseEvent(q) PROVE IInv'
    BY <1>2, InsertIInv, AcknowledgeIInv, EnqueueEventIInv, LoseEventIInv DEF Ingest
  <1>3. ASSUME NEW t \in DOMAIN tasks, Work(t) \/ Fault(t) PROVE IInv'
    BY <1>3, WorkStep, TaskStepIInv DEF IInv
  <1>4. ASSUME NEW j \in DOMAIN jobs, Index(j) PROVE IInv' BY <1>4, IndexIInv
  <1>5. CASE UNCHANGED vars
    BY <1>5 DEF vars, IInv, Typed, InsertedIsStored, OneInserts, EnqueuedByInserter,
                ProcessedOnce, IsEvent
  <1> QED BY <1>1, <1>2, <1>3, <1>4, <1>5 DEF Next

\* Whatever requests carry a delivery, at once or again, and whatever fails, it has at most
\* one event task (try_record_delivery, post_github_webhook).
THEOREM ProcessedOnceHolds == Spec => []ProcessedOnce
  <1>1. Init => IInv BY InitIInv
  <1>2. IInv /\ [Next]_vars => IInv' BY NextIInv
  <1>3. IInv => ProcessedOnce BY DEF IInv
  <1> QED BY <1>1, <1>2, <1>3, PTL DEF Spec

-----------------------------------------------------------------------------
(* The pairing of a push whose revision is pushed once.                    *)

\* A revision becomes known by an event task of it.
KnownHasEvent == \A r \in known : r # 0 => \E t \in DOMAIN tasks : IsEvent(t) /\ tasks[t].rev = r

\* The revisions that were paired, or given up.
Settled == {r \in Nat : PairedOrGivenUp(r)}

\* What a message m of a revision pushed once says of it, given the known revisions, the head
\* and the settled revisions.  Its event task was not processed before; its resolution
\* pairs, unless it was paired, was given up or was overtaken, which is for good; its
\* coalesced start comes after the pairing.
FitsOnce(m, kn, hd, ok) ==
    /\ m.kind \in Deliveries /\ m.at = "queued" => m.rev \notin kn
    /\ m.kind \in Deliveries /\ m.at = "follow" => m.rev \in kn /\ m.pair
    /\ m.kind = "resolve" =>
         /\ m.rev \in kn
         /\ m.at = "applied" => m.rev \in ok
         /\ m.at = "stale" => hd # m.rev
         /\ m.at = "queued" => m.pair \/ hd # m.rev \/ m.rev \in ok
    /\ m.kind = "autostart" => m.rev \in ok

\* A task's revision is the one of its delivery and of its job.
Fits(m, kn, hd, js, ok) ==
    /\ m.kind \in Deliveries => m.rev = RevOf[m.kind]
    /\ m.job # 0 => m.job \in DOMAIN js /\ js[m.job].rev = m.rev
    /\ PushedOnce(m.rev) => FitsOnce(m, kn, hd, ok)

PairInv ==
    /\ head \in known
    /\ KnownHasEvent
    /\ \A t \in DOMAIN tasks : Fits(tasks[t], known, head, jobs, Settled)
    /\ \A j \in DOMAIN jobs : jobs[j].sent /\ PushedOnce(jobs[j].rev) => jobs[j].rev \in Settled

\* Tasks keep their kind and revision, and one that failed stays so.
TasksKept ==
    \A u \in DOMAIN tasks :
        /\ u \in DOMAIN tasks'
        /\ tasks'[u].kind = tasks[u].kind /\ tasks'[u].rev = tasks[u].rev
        /\ tasks[u].at = "failed" => tasks'[u].at = "failed"

\* Jobs keep their revisions.
JobsKept == \A j \in DOMAIN jobs : j \in DOMAIN jobs' /\ jobs'[j].rev = jobs[j].rev

\* A job is sent only when its revision, pushed once, was paired or given up.
SentIfSettled ==
    \A j \in DOMAIN jobs' :
        jobs'[j].sent /\ ~(j \in DOMAIN jobs /\ jobs[j].sent)
            => (PushedOnce(jobs'[j].rev) => jobs'[j].rev \in Settled')

\* A revision stays paired, or given up.
LEMMA SettledStays == ASSUME TasksKept, paired \subseteq paired' PROVE Settled \subseteq Settled'
  <1> SUFFICES ASSUME NEW r \in Nat, PairedOrGivenUp(r) PROVE PairedOrGivenUp(r)' BY DEF Settled
  <1>1. CASE r \in paired BY <1>1 DEF PairedOrGivenUp
  <1>2. CASE GaveUp(r)
    <2>1. PICK u \in DOMAIN tasks : IsResolution(u) /\ tasks[u].rev = r /\ tasks[u].at = "failed"
      BY <1>2 DEF GaveUp
    <2>2. u \in DOMAIN tasks' /\ tasks'[u].kind = "resolve" /\ tasks'[u].rev = r /\ tasks'[u].at = "failed"
      BY <2>1 DEF TasksKept, IsResolution
    <2> QED BY <2>2 DEF PairedOrGivenUp, GaveUp, IsResolution
  <1> QED BY <1>1, <1>2 DEF PairedOrGivenUp

\* While the head and the known revisions stay, a message still fits.
LEMMA FitStays ==
  ASSUME JobsKept, NEW kn, NEW hd, NEW ok, NEW okk, ok \subseteq okk,
         NEW m, Fits(m, kn, hd, jobs, ok)
  PROVE  Fits(m, kn, hd, jobs', okk)
  <1>1. FitsOnce(m, kn, hd, ok) => FitsOnce(m, kn, hd, okk) BY DEF FitsOnce
  <1>2. m.job # 0 => m.job \in DOMAIN jobs' /\ jobs'[m.job].rev = m.rev BY DEF Fits, JobsKept
  <1> QED BY <1>1, <1>2 DEF Fits

LEMMA EventsStay == ASSUME PairInv, TasksKept, known' = known PROVE KnownHasEvent'
  <1> SUFFICES ASSUME NEW r \in known, r # 0
               PROVE  \E u \in DOMAIN tasks' : tasks'[u].kind \in Deliveries /\ tasks'[u].rev = r
    BY DEF KnownHasEvent, IsEvent
  <1>1. PICK u \in DOMAIN tasks : tasks[u].kind \in Deliveries /\ tasks[u].rev = r
    BY DEF PairInv, KnownHasEvent, IsEvent
  <1> QED BY <1>1 DEF TasksKept

\* Jobs that were sent before stay settled.
LEMMA SentStays ==
  ASSUME PairInv, JobsKept, SentIfSettled, Settled \subseteq Settled'
  PROVE  \A j \in DOMAIN jobs' : jobs'[j].sent /\ PushedOnce(jobs'[j].rev) => jobs'[j].rev \in Settled'
  <1> SUFFICES ASSUME NEW j \in DOMAIN jobs', jobs'[j].sent, PushedOnce(jobs'[j].rev)
               PROVE  jobs'[j].rev \in Settled'
    OBVIOUS
  <1>1. CASE j \in DOMAIN jobs /\ jobs[j].sent
    BY <1>1 DEF PairInv, JobsKept
  <1> QED BY <1>1 DEF SentIfSettled

\* A step that moves no head keeps the invariant if the messages it writes fit.
LEMMA KeepsPair ==
  ASSUME PairInv, TasksKept, JobsKept, SentIfSettled, paired \subseteq paired',
         head' = head, known' = known,
         \A u \in DOMAIN tasks' : \/ u \in DOMAIN tasks /\ tasks'[u] = tasks[u]
                                  \/ Fits(tasks'[u], known, head, jobs', Settled')
  PROVE  PairInv'
  <1>1. Settled \subseteq Settled' BY SettledStays
  <1>2. head' \in known' BY DEF PairInv
  <1>3. KnownHasEvent' BY EventsStay
  <1>4. \A u \in DOMAIN tasks' : Fits(tasks'[u], known', head', jobs', Settled')
    <2> SUFFICES ASSUME NEW u \in DOMAIN tasks' PROVE Fits(tasks'[u], known, head, jobs', Settled')
      OBVIOUS
    <2>1. CASE u \in DOMAIN tasks /\ tasks'[u] = tasks[u]
      <3>1. Fits(tasks[u], known, head, jobs, Settled) BY <2>1 DEF PairInv
      <3> QED BY <1>1, <2>1, <3>1, FitStays
    <2> QED BY <2>1
  <1>5. \A j \in DOMAIN jobs' : jobs'[j].sent /\ PushedOnce(jobs'[j].rev) => jobs'[j].rev \in Settled'
    BY <1>1, SentStays
  <1> QED BY <1>2, <1>3, <1>4, <1>5 DEF PairInv

\* What a task's step writes: its own message, which keeps kind and revision, and at most
\* one more.
Writes(t, m, N) ==
    /\ m \in Message /\ m.kind = tasks[t].kind /\ m.rev = tasks[t].rev
    /\ \/ tasks' = [tasks EXCEPT ![t] = m]
       \/ \E n \in N : tasks' = Append([tasks EXCEPT ![t] = m], n)

LEMMA WritesKeep ==
  ASSUME Typed, NEW t \in DOMAIN tasks, NEW m, NEW N, N \subseteq Message, Writes(t, m, N),
         tasks[t].at # "failed"
  PROVE  /\ TasksKept /\ t \in DOMAIN tasks' /\ tasks'[t] = m
         /\ \A u \in DOMAIN tasks' : \/ u \in DOMAIN tasks /\ tasks'[u] = tasks[u]
                                     \/ tasks'[u] = m \/ tasks'[u] \in N
  <1> DEFINE ts == [tasks EXCEPT ![t] = m]
  <1>1. tasks \in Seq(Message) /\ m \in Message BY DEF Typed, Writes
  <1>2. /\ ts \in Seq(Message) /\ Len(ts) = Len(tasks) /\ ts[t] = m
        /\ \A u \in DOMAIN tasks : u # t => ts[u] = tasks[u]
    BY <1>1, Replaced
  <1>3. DOMAIN ts = DOMAIN tasks OBVIOUS
  <1> HIDE DEF ts
  <1>4. CASE tasks' = ts
    BY <1>2, <1>3, <1>4 DEF Writes, TasksKept
  <1>5. ASSUME NEW n \in N, tasks' = Append(ts, n)
        PROVE  /\ TasksKept /\ t \in DOMAIN tasks' /\ tasks'[t] = m
               /\ \A u \in DOMAIN tasks' : \/ u \in DOMAIN tasks /\ tasks'[u] = tasks[u]
                                           \/ tasks'[u] = m \/ tasks'[u] \in N
    <2>1. n \in Message BY <1>5
    <2>2. /\ DOMAIN tasks' = 1..(Len(ts) + 1) /\ \A i \in DOMAIN ts : tasks'[i] = ts[i]
          /\ tasks'[Len(ts) + 1] = n
      BY <1>2, <1>5, <2>1, Appended
    <2>3. \A u \in DOMAIN tasks' : u \in DOMAIN ts \/ u = Len(ts) + 1 BY <1>2, <2>2
    <2>4. DOMAIN ts \subseteq DOMAIN tasks' BY <1>2, <2>2
    <2> QED BY <1>2, <1>3, <1>5, <2>2, <2>3, <2>4 DEF Writes, TasksKept
  <1> QED BY <1>4, <1>5 DEF Writes, ts

LEMMA WritesPair ==
  ASSUME Typed, PairInv, NEW t \in DOMAIN tasks, NEW m, NEW N, N \subseteq Message, Writes(t, m, N),
         tasks[t].at # "failed", JobsKept, SentIfSettled, paired \subseteq paired',
         head' = head, known' = known,
         Fits(m, known, head, jobs', Settled'),
         \A n \in N : Fits(n, known, head, jobs', Settled')
  PROVE  PairInv'
  <1>1. TasksKept BY WritesKeep
  <1>2. \A u \in DOMAIN tasks' : \/ u \in DOMAIN tasks /\ tasks'[u] = tasks[u]
                                 \/ tasks'[u] = m \/ tasks'[u] \in N
    BY WritesKeep
  <1>3. \A u \in DOMAIN tasks' : \/ u \in DOMAIN tasks /\ tasks'[u] = tasks[u]
                                 \/ Fits(tasks'[u], known, head, jobs', Settled')
    BY <1>2
  <1> QED BY <1>1, <1>3, KeepsPair

LEMMA WritesSettle ==
  ASSUME Typed, NEW t \in DOMAIN tasks, NEW m, NEW N, N \subseteq Message, Writes(t, m, N),
         tasks[t].at # "failed", paired \subseteq paired'
  PROVE  Settled \subseteq Settled'
  BY WritesKeep, SettledStays

\* Past its pairing, a message only has to keep what it says of its job and its revision.
LEMMA PastFits ==
  ASSUME JobsKept, NEW x \in Message, NEW kn, NEW hd, NEW ok, NEW okk, ok \subseteq okk,
         Fits(x, kn, hd, jobs, ok),
         NEW m \in Message, m.kind = x.kind, m.rev = x.rev, m.job = x.job,
         m.at \in {"insert", "send", "done", "failed"}
  PROVE  Fits(m, kn, hd, jobs', okk)
  <1>1. m.job # 0 => m.job \in DOMAIN jobs' /\ jobs'[m.job].rev = m.rev BY DEF Fits, JobsKept
  <1>2. FitsOnce(x, kn, hd, ok) => FitsOnce(m, kn, hd, okk) BY DEF FitsOnce
  <1> QED BY <1>1, <1>2 DEF Fits

\* Jobs that stay, fail, or end.
LEMMA SameJobs == ASSUME jobs' = jobs PROVE JobsKept /\ SentIfSettled
  BY DEF JobsKept, SentIfSettled

LEMMA FailedJob ==
  ASSUME Typed, NEW j \in Nat, jobs' = FailJob(j) PROVE JobsKept /\ SentIfSettled
  <1>1. jobs \in Seq(Job) BY DEF Typed
  <1>2. CASE j \in DOMAIN jobs /\ jobs' # jobs
    <2>1. jobs[j] \in Job BY <1>1, <1>2
    <2> DEFINE x == [jobs[j] EXCEPT !.status = "failed"]
    <2>2. x \in Job /\ x.rev = jobs[j].rev /\ x.sent = jobs[j].sent BY <2>1 DEF Job
    <2>3. jobs' = [jobs EXCEPT ![j] = x] BY <1>2 DEF FailJob
    <2> HIDE DEF x
    <2>4. DOMAIN jobs' = DOMAIN jobs /\ jobs'[j] = x /\ \A i \in DOMAIN jobs : i # j => jobs'[i] = jobs[i]
      BY <1>2, <2>3
    <2> QED BY <2>2, <2>4 DEF JobsKept, SentIfSettled
  <1>3. CASE jobs' = jobs BY <1>3, SameJobs
  <1>4. CASE j \notin DOMAIN jobs
    <2>1. [jobs EXCEPT ![j].status = "failed"] = jobs BY <1>1, <1>4
    <2>2. jobs' = jobs BY <2>1 DEF FailJob
    <2> QED BY <2>2, SameJobs
  <1> QED BY <1>2, <1>3, <1>4

LEMMA SentJob ==
  ASSUME Typed, NEW j \in Nat, jobs' = [jobs EXCEPT ![j].sent = TRUE],
         j \in DOMAIN jobs => (PushedOnce(jobs[j].rev) => jobs[j].rev \in Settled')
  PROVE  JobsKept /\ SentIfSettled
  <1>1. jobs \in Seq(Job) BY DEF Typed
  <1>2. CASE j \in DOMAIN jobs
    <2>1. jobs[j] \in Job BY <1>1, <1>2
    <2> DEFINE x == [jobs[j] EXCEPT !.sent = TRUE]
    <2>2. x \in Job /\ x.rev = jobs[j].rev BY <2>1 DEF Job
    <2>3. jobs' = [jobs EXCEPT ![j] = x] OBVIOUS
    <2> HIDE DEF x
    <2>4. DOMAIN jobs' = DOMAIN jobs /\ jobs'[j] = x /\ \A i \in DOMAIN jobs : i # j => jobs'[i] = jobs[i]
      BY <1>2, <2>3
    <2> QED BY <1>2, <2>2, <2>4 DEF JobsKept, SentIfSettled
  <1>3. CASE j \notin DOMAIN jobs
    <2>1. [jobs EXCEPT ![j].sent = TRUE] = jobs BY <1>1, <1>3
    <2> QED BY <2>1, SameJobs
  <1> QED BY <1>2, <1>3

-----------------------------------------------------------------------------
(* The steps of tasks keep the pairing.                                    *)

LEMMA MessageFits ==
  ASSUME PairInv, NEW t \in DOMAIN tasks
  PROVE  /\ Fits(tasks[t], known, head, jobs, Settled)
         /\ PushedOnce(tasks[t].rev) => FitsOnce(tasks[t], known, head, Settled)
  BY DEF PairInv, Fits

\* A task that moves to a place past its pairing, or ends, and may enqueue a message that fits.
LEMMA AtPair ==
  ASSUME Typed, PairInv, NEW t \in DOMAIN tasks, tasks[t].at # "failed",
         NEW place \in {"insert", "send", "done", "failed"}, NEW n \in Message,
         tasks' = At(t, place) \/ tasks' = Append(At(t, place), n),
         JobsKept, SentIfSettled, head' = head, known' = known, paired' = paired,
         tasks' = At(t, place) \/ Fits(n, known, head, jobs', Settled')
  PROVE  PairInv'
  <1> DEFINE m == [tasks[t] EXCEPT !.at = place]
             N == IF tasks' = At(t, place) THEN {} ELSE {n}
  <1>1. tasks[t] \in Message BY MessageOf
  <1>2. m \in Message /\ m.kind = tasks[t].kind /\ m.rev = tasks[t].rev /\ m.job = tasks[t].job /\ m.at = place
    BY <1>1 DEF Message, Places
  <1>3. At(t, place) = [tasks EXCEPT ![t] = m] BY DEF At
  <1> HIDE DEF m
  <1>a. N \subseteq Message /\ \A x \in N : Fits(x, known, head, jobs', Settled') OBVIOUS
  <1>4. Writes(t, m, N) BY <1>2, <1>3 DEF Writes
  <1> HIDE DEF N
  <1>5. Settled \subseteq Settled' BY <1>4, <1>a, WritesSettle
  <1>6. Fits(m, known, head, jobs', Settled') BY <1>1, <1>2, <1>5, MessageFits, PastFits
  <1> QED BY <1>4, <1>6, <1>a, WritesPair

\* A revision whose resolution fails for good is settled.
LEMMA FailedSettles ==
  ASSUME Typed, NEW t \in DOMAIN tasks, NEW u \in DOMAIN tasks',
         tasks'[u].kind = "resolve", tasks'[u].rev = tasks[t].rev, tasks'[u].at = "failed"
  PROVE  tasks[t].rev \in Settled'
  <1>1. tasks[t].rev \in Nat BY MessageOf
  <1> QED BY <1>1 DEF Settled, PairedOrGivenUp, GaveUp, IsResolution

LEMMA EnqueueResolutionPair ==
  ASSUME Typed, PairInv, NEW t \in DOMAIN tasks, EnqueueResolution(t) PROVE PairInv'
  <1> DEFINE n == Task("resolve", tasks[t].rev, tasks[t].job, tasks[t].pair)
  <1>1. /\ tasks[t].kind \in Deliveries /\ tasks[t].at = "follow"
        /\ tasks' = Append(At(t, "done"), n) /\ jobs' = jobs
        /\ head' = head /\ known' = known /\ paired' = paired
    BY DEF EnqueueResolution, IsEvent
  <1>2. n \in Message BY MessageOf, TaskTyped
  <1>3. /\ n.kind = "resolve" /\ n.rev = tasks[t].rev /\ n.job = tasks[t].job
        /\ n.pair = tasks[t].pair /\ n.at = "queued" /\ n.kind \notin Deliveries
    BY NotADelivery DEF Task
  <1> HIDE DEF n
  <1>4. Fits(n, known, head, jobs', Settled')
    BY <1>1, <1>3, MessageFits DEF Fits, FitsOnce
  <1>6. JobsKept /\ SentIfSettled BY <1>1, SameJobs
  <1> QED BY <1>1, <1>2, <1>4, <1>6, AtPair

LEMMA ResolvePair ==
  ASSUME Typed, PairInv, NEW t \in DOMAIN tasks, Resolve(t) PROVE PairInv'
  <1>1. /\ tasks[t].kind = "resolve" /\ tasks[t].at = "queued" /\ jobs' = jobs
        /\ head' = head /\ known' = known
    BY DEF Resolve, IsResolution
  <1>2. tasks[t] \in Message /\ tasks[t].rev \in Nat /\ tasks[t].kind \notin Deliveries
    BY <1>1, MessageOf, EventsAssumption
  <1> DEFINE m(place) == [tasks[t] EXCEPT !.at = place]
  <1>3. \A place \in Places :
            /\ m(place) \in Message /\ m(place).kind = tasks[t].kind /\ m(place).rev = tasks[t].rev
            /\ m(place).job = tasks[t].job /\ m(place).at = place /\ m(place).pair = tasks[t].pair
            /\ At(t, place) = [tasks EXCEPT ![t] = m(place)]
    BY <1>2 DEF Message, At
  <1> HIDE DEF m
  <1>4. CASE tasks[t].rev = head
    <2>1. paired' = (IF tasks[t].pair THEN paired \cup {head} ELSE paired) /\ tasks' = At(t, "applied")
      BY <1>4 DEF Resolve
    <2>2. Writes(t, m("applied"), {}) BY <1>3, <2>1 DEF Writes, Places
    <2>3. Settled \subseteq Settled' BY <1>1, <2>1, <2>2, WritesSettle
    <2>4. PushedOnce(tasks[t].rev) => tasks[t].rev \in Settled'
      <3>1. CASE tasks[t].pair
        BY <1>2, <1>4, <2>1, <3>1 DEF Settled, PairedOrGivenUp
      <3>2. CASE ~tasks[t].pair
        BY <1>1, <1>4, <2>3, <3>2, MessageFits DEF FitsOnce
      <3> QED BY <3>1, <3>2
    <2>5. Fits(m("applied"), known, head, jobs', Settled')
      <3>1. FitsOnce(tasks[t], known, head, Settled) /\ tasks[t].rev \in Settled'
                => FitsOnce(m("applied"), known, head, Settled')
        BY <1>1, <1>2, <1>3 DEF FitsOnce, Places
      <3> QED BY <1>1, <1>2, <1>3, <2>4, <3>1, MessageFits DEF Fits, Places
    <2> QED BY <1>1, <2>1, <2>2, <2>5, SameJobs, WritesPair
  <1>5. CASE tasks[t].rev # head
    <2>1. paired' = paired /\ tasks' = At(t, "stale") BY <1>5 DEF Resolve
    <2>2. Writes(t, m("stale"), {}) BY <1>3, <2>1 DEF Writes, Places
    <2>3. Settled \subseteq Settled' BY <1>1, <2>1, <2>2, WritesSettle
    <2>5. Fits(m("stale"), known, head, jobs', Settled')
      <3>1. FitsOnce(tasks[t], known, head, Settled) => FitsOnce(m("stale"), known, head, Settled')
        BY <1>1, <1>2, <1>3, <1>5 DEF FitsOnce, Places
      <3> QED BY <1>1, <1>2, <1>3, <3>1, MessageFits DEF Fits, Places
    <2> QED BY <1>1, <2>1, <2>2, <2>5, SameJobs, WritesPair
  <1> QED BY <1>4, <1>5

\* With coalescing, the start of a settled revision is scheduled.
LEMMA SchedulesPair ==
  ASSUME Typed, PairInv, NEW t \in DOMAIN tasks, tasks[t].at # "failed",
         NEW place \in {"done", "failed"}, tasks' = Scheduled(At(t, place), tasks[t].rev),
         JobsKept, SentIfSettled, head' = head, known' = known, paired' = paired,
         PushedOnce(tasks[t].rev) => tasks[t].rev \in Settled'
  PROVE  PairInv'
  <1> DEFINE n == Autostart(tasks[t].rev)
  <1>1. n \in Message BY MessageOf, TaskTyped DEF Autostart
  <1>2. n.kind = "autostart" /\ n.rev = tasks[t].rev /\ n.job = 0 /\ n.kind \notin Deliveries
    BY NotADelivery DEF Autostart, Task
  <1>3. tasks' = At(t, place) \/ tasks' = Append(At(t, place), n) BY DEF Scheduled
  <1> HIDE DEF n
  <1>4. Fits(n, known, head, jobs', Settled') BY <1>2 DEF Fits, FitsOnce
  <1> QED BY <1>1, <1>3, <1>4, AtPair

\* A task that moves on or ends, and enqueues nothing.
LEMMA EndsPair ==
  ASSUME Typed, PairInv, NEW t \in DOMAIN tasks, tasks[t].at # "failed",
         NEW place \in {"insert", "send", "done", "failed"}, tasks' = At(t, place),
         JobsKept, SentIfSettled, head' = head, known' = known, paired' = paired
  PROVE  PairInv'
  <1>1. tasks[t] \in Message BY MessageOf
  <1> QED BY <1>1, AtPair

LEMMA SettledAt ==
  ASSUME Typed, NEW t \in DOMAIN tasks, tasks[t].at # "failed",
         NEW place \in Places, NEW n \in Message, tasks' = At(t, place) \/ tasks' = Append(At(t, place), n),
         paired' = paired
  PROVE  /\ Settled \subseteq Settled'
         /\ t \in DOMAIN tasks' /\ tasks'[t] = [tasks[t] EXCEPT !.at = place]
  <1> DEFINE m == [tasks[t] EXCEPT !.at = place]
  <1>1. tasks[t] \in Message BY MessageOf
  <1>2. m \in Message /\ m.kind = tasks[t].kind /\ m.rev = tasks[t].rev
    BY <1>1 DEF Message
  <1>3. At(t, place) = [tasks EXCEPT ![t] = m] BY DEF At
  <1>4. Writes(t, m, {n})
    <2> HIDE DEF m
    <2> QED BY <1>2, <1>3 DEF Writes
  <1>5. {n} \subseteq Message OBVIOUS
  <1> HIDE DEF m
  <1>6. Settled \subseteq Settled' BY <1>4, <1>5, WritesSettle
  <1>7. t \in DOMAIN tasks' /\ tasks'[t] = m BY <1>4, <1>5, WritesKeep
  <1> QED BY <1>6, <1>7 DEF m

\* The start that is scheduled, or not.
LEMMA ScheduledAppends ==
  ASSUME Typed, NEW t \in DOMAIN tasks, NEW ts
  PROVE  /\ Autostart(tasks[t].rev) \in Message
         /\ Scheduled(ts, tasks[t].rev) = ts \/ Scheduled(ts, tasks[t].rev) = Append(ts, Autostart(tasks[t].rev))
  BY MessageOf, TaskTyped DEF Autostart, Scheduled

LEMMA ReleasePair ==
  ASSUME Typed, PairInv, NEW t \in DOMAIN tasks, PostOutcome(t), Release(t) PROVE PairInv'
  <1>1. /\ tasks[t].kind = "resolve" /\ tasks[t].at = "applied"
        /\ head' = head /\ known' = known /\ paired' = paired
    BY DEF PostOutcome, IsResolution, Release
  <1>2. PushedOnce(tasks[t].rev) => tasks[t].rev \in Settled
    BY <1>1, MessageFits DEF FitsOnce
  <1>3. CASE tasks[t].job # 0
    <2>1. tasks' = At(t, "done") /\ jobs' = [jobs EXCEPT ![tasks[t].job].sent = TRUE]
      BY <1>3 DEF Release
    <2>2. tasks[t] \in Message /\ tasks[t].job \in Nat BY MessageOf
    <2>3. Settled \subseteq Settled' BY <1>1, <2>1, <2>2, SettledAt DEF Places
    <2>4. jobs[tasks[t].job].rev = tasks[t].rev BY <1>3, MessageFits DEF Fits
    <2>5. JobsKept /\ SentIfSettled BY <1>2, <2>1, <2>2, <2>3, <2>4, SentJob
    <2> QED BY <1>1, <2>1, <2>5, EndsPair
  <1>4. CASE tasks[t].job = 0
    <2>1. tasks' = Scheduled(At(t, "done"), tasks[t].rev) /\ jobs' = jobs BY <1>4 DEF Release
    <2>2. JobsKept /\ SentIfSettled BY <2>1, SameJobs
    <2>3. Settled \subseteq Settled' BY <1>1, <2>1, ScheduledAppends, SettledAt DEF Places
    <2> QED BY <1>1, <1>2, <2>1, <2>2, <2>3, SchedulesPair
  <1> QED BY <1>3, <1>4

LEMMA HandOffPair ==
  ASSUME Typed, PairInv, NEW t \in DOMAIN tasks, PostOutcome(t), HandOff(t) PROVE PairInv'
  <1> DEFINE n == Task("resolve", head, 0, TRUE)
  <1>1. /\ tasks[t].kind = "resolve" /\ tasks[t].at = "stale"
        /\ head' = head /\ known' = known /\ paired' = paired
        /\ jobs' = FailJob(tasks[t].job)
        /\ tasks' = At(t, "done") \/ tasks' = Append(At(t, "done"), n)
    BY DEF PostOutcome, IsResolution, HandOff
  <1>2. n \in Message
    <2>1. head \in Nat BY DEF Typed
    <2> QED BY <2>1, TaskTyped
  <1>3. /\ n.kind = "resolve" /\ n.rev = head /\ n.job = 0 /\ n.pair /\ n.at = "queued"
        /\ n.kind \notin Deliveries
    BY NotADelivery DEF Task
  <1> HIDE DEF n
  <1>4. head \in known BY DEF PairInv
  <1>5. Fits(n, known, head, jobs', Settled') BY <1>3, <1>4 DEF Fits, FitsOnce
  <1>6. JobsKept /\ SentIfSettled BY <1>1, MessageOf, FailedJob
  <1> QED BY <1>1, <1>2, <1>5, <1>6, AtPair

LEMMA InsertJobPair ==
  ASSUME Typed, PairInv, NEW t \in DOMAIN tasks, InsertJob(t) PROVE PairInv'
  <1> DEFINE p == Pending(tasks[t].rev)
             m == [tasks[t] EXCEPT !.at = "send", !.job = Len(jobs) + 1]
  <1>1. /\ tasks[t].kind = "autostart" /\ tasks[t].at = "insert"
        /\ head' = head /\ known' = known /\ paired' = paired
        /\ jobs' = Append(jobs, p) /\ tasks' = [tasks EXCEPT ![t] = m]
    BY DEF InsertJob
  <1>2. jobs \in Seq(Job) /\ Len(jobs) \in Nat BY DEF Typed
  <1>3. tasks[t] \in Message /\ tasks[t].rev \in Nat /\ tasks[t].kind \notin Deliveries
    BY <1>1, MessageOf, EventsAssumption
  <1>4. p \in Job /\ p.rev = tasks[t].rev /\ p.sent = FALSE BY <1>3, PendingTyped DEF Pending
  <1>5. /\ m \in Message /\ m.kind = "autostart" /\ m.rev = tasks[t].rev /\ m.at = "send"
        /\ m.job = Len(jobs) + 1
    <2>1. Len(jobs) + 1 \in Nat BY <1>2
    <2>2. tasks[t] \in Message /\ tasks[t].kind = "autostart" BY <1>1, <1>3
    <2>3. m \in Message /\ m.kind = tasks[t].kind /\ m.rev = tasks[t].rev /\ m.at = "send"
      BY <2>1, <2>2 DEF Message, Places
    <2>4. m.job = Len(jobs) + 1 BY <2>2 DEF Message
    <2> HIDE DEF m
    <2> QED BY <2>2, <2>3, <2>4
  <1> HIDE DEF p, m
  <1>6. /\ DOMAIN jobs' = 1..(Len(jobs) + 1) /\ jobs'[Len(jobs) + 1] = p
        /\ \A j \in DOMAIN jobs : jobs'[j] = jobs[j]
    BY <1>1, <1>2, <1>4, Appended
  <1>7. \A j \in DOMAIN jobs' : j \in DOMAIN jobs \/ j = Len(jobs) + 1 BY <1>2, <1>6
  <1>8. DOMAIN jobs \subseteq DOMAIN jobs' /\ Len(jobs) + 1 \in DOMAIN jobs' BY <1>2, <1>6
  <1>9. JobsKept /\ SentIfSettled BY <1>4, <1>6, <1>7, <1>8 DEF JobsKept, SentIfSettled
  <1>10. Writes(t, m, {}) BY <1>1, <1>5 DEF Writes
  <1>11. Settled \subseteq Settled' BY <1>1, <1>10, WritesSettle
  <1>12. PushedOnce(tasks[t].rev) => tasks[t].rev \in Settled
    BY <1>1, MessageFits DEF FitsOnce
  <1>13. Fits(m, known, head, jobs', Settled')
    BY <1>1, <1>3, <1>4, <1>5, <1>6, <1>8, <1>11, <1>12 DEF Fits, FitsOnce
  <1> QED BY <1>1, <1>9, <1>10, <1>13, WritesPair

LEMMA SendJobPair ==
  ASSUME Typed, PairInv, NEW t \in DOMAIN tasks, SendJob(t) PROVE PairInv'
  <1>1. /\ tasks[t].kind = "autostart" /\ tasks[t].at = "send"
        /\ head' = head /\ known' = known /\ paired' = paired
        /\ tasks' = At(t, "done") /\ jobs' = [jobs EXCEPT ![tasks[t].job].sent = TRUE]
    BY DEF SendJob
  <1>2. tasks[t] \in Message /\ tasks[t].job \in Nat BY MessageOf
  <1>3. Settled \subseteq Settled' BY <1>1, <1>2, SettledAt DEF Places
  <1>4. PushedOnce(tasks[t].rev) => tasks[t].rev \in Settled
    BY <1>1, MessageFits DEF FitsOnce
  <1>5. tasks[t].job \in DOMAIN jobs => jobs[tasks[t].job].rev = tasks[t].rev
    <2>1. jobs \in Seq(Job) BY DEF Typed
    <2>2. 0 \notin DOMAIN jobs BY <2>1
    <2> QED BY <2>2, MessageFits DEF Fits
  <1>6. JobsKept /\ SentIfSettled BY <1>1, <1>2, <1>3, <1>4, <1>5, SentJob
  <1> QED BY <1>1, <1>6, EndsPair

LEMMA StartPair ==
  ASSUME Typed, PairInv, NEW t \in DOMAIN tasks, Start(t) PROVE PairInv'
  <1>1. /\ tasks[t].at = "queued" /\ head' = head /\ known' = known /\ paired' = paired /\ jobs' = jobs
        /\ tasks' = At(t, "insert") \/ tasks' = At(t, "done")
    BY DEF Start
  <1>2. JobsKept /\ SentIfSettled BY <1>1, SameJobs
  <1> QED BY <1>1, <1>2, EndsPair

\* Trying again, which after the pairing is without pairing.
LEMMA RetryPair ==
  ASSUME Typed, PairInv, NEW t \in DOMAIN tasks, jobs' = jobs,
         head' = head, known' = known, paired' = paired,
         \/ tasks[t].at = "queued" /\ tasks' = [tasks EXCEPT ![t].retries = @ + 1]
         \/ /\ tasks[t].kind = "resolve" /\ tasks[t].at \in {"applied", "stale"}
            /\ tasks' = [tasks EXCEPT ![t].retries = @ + 1, ![t].at = "queued", ![t].pair = FALSE]
  PROVE  PairInv'
  <1> DEFINE m == [tasks[t] EXCEPT !.retries = @ + 1]
             n == [m EXCEPT !.at = "queued", !.pair = FALSE]
  <1>1. tasks[t] \in Message BY MessageOf
  <1>2. /\ m \in Message /\ m.kind = tasks[t].kind /\ m.rev = tasks[t].rev /\ m.job = tasks[t].job
        /\ m.at = tasks[t].at /\ m.pair = tasks[t].pair
    BY <1>1 DEF Message
  <1>3. /\ n \in Message /\ n.kind = m.kind /\ n.rev = m.rev /\ n.job = m.job
        /\ n.at = "queued" /\ n.pair = FALSE
    <2> HIDE DEF m
    <2> QED BY <1>2 DEF Message, Places
  <1>4. JobsKept /\ SentIfSettled BY SameJobs
  <1>5. CASE tasks[t].at = "queued" /\ tasks' = [tasks EXCEPT ![t].retries = @ + 1]
    <2>1. tasks' = [tasks EXCEPT ![t] = m] BY <1>5
    <2> HIDE DEF m, n
    <2>2. Writes(t, m, {}) BY <1>2, <2>1 DEF Writes
    <2>3. Settled \subseteq Settled' BY <1>5, <2>2, WritesSettle
    <2>4. FitsOnce(tasks[t], known, head, Settled) => FitsOnce(m, known, head, Settled')
      BY <1>2, <2>3 DEF FitsOnce
    <2>5. Fits(m, known, head, jobs', Settled') BY <1>2, <2>4, MessageFits DEF Fits
    <2> QED BY <1>4, <1>5, <2>2, <2>5, WritesPair
  <1>6. CASE /\ tasks[t].kind = "resolve" /\ tasks[t].at \in {"applied", "stale"}
             /\ tasks' = [tasks EXCEPT ![t].retries = @ + 1, ![t].at = "queued", ![t].pair = FALSE]
    <2>1. tasks' = [tasks EXCEPT ![t] = n] BY <1>6
    <2>a. n.kind \notin Deliveries BY <1>2, <1>3, <1>6, EventsAssumption
    <2> HIDE DEF m, n
    <2>2. Writes(t, n, {}) BY <1>2, <1>3, <2>1 DEF Writes
    <2>3. Settled \subseteq Settled' BY <1>6, <2>2, WritesSettle
    <2>4. FitsOnce(tasks[t], known, head, Settled) => FitsOnce(n, known, head, Settled')
      BY <1>2, <1>3, <1>6, <2>3, <2>a DEF FitsOnce
    <2>5. Fits(n, known, head, jobs', Settled') BY <1>2, <1>3, <2>4, <2>a, MessageFits DEF Fits
    <2> QED BY <1>4, <1>6, <2>2, <2>5, WritesPair
  <1> QED BY <1>5, <1>6

LEMMA FailEventPair ==
  ASSUME Typed, PairInv, NEW t \in DOMAIN tasks, FailEvent(t) PROVE PairInv'
  <1>1. /\ tasks[t].at = "queued" /\ head' = head /\ known' = known /\ paired' = paired /\ jobs' = jobs
        /\ tasks' = [tasks EXCEPT ![t].retries = @ + 1] \/ tasks' = At(t, "failed")
    BY DEF FailEvent
  <1>2. JobsKept /\ SentIfSettled BY <1>1, SameJobs
  <1> QED BY <1>1, <1>2, EndsPair, RetryPair

\* A resolution that fails for good fails its job, and the start goes on unpaired.
LEMMA FailResolvePair ==
  ASSUME Typed, PairInv, NEW t \in DOMAIN tasks, FailResolve(t) PROVE PairInv'
  <1>1. /\ tasks[t].kind = "resolve" /\ tasks[t].at = "queued"
        /\ head' = head /\ known' = known /\ paired' = paired
    BY DEF FailResolve, IsResolution
  <1>2. CASE MayRetry(t)
    <2>1. tasks' = [tasks EXCEPT ![t].retries = @ + 1] /\ jobs' = jobs BY <1>2 DEF FailResolve
    <2> QED BY <1>1, <2>1, RetryPair
  <1>3. CASE ~MayRetry(t)
    <2>1. tasks' = Scheduled(At(t, "failed"), tasks[t].rev) /\ jobs' = FailJob(tasks[t].job)
      BY <1>3 DEF FailResolve, GiveUp
    <2>2. JobsKept /\ SentIfSettled BY <2>1, MessageOf, FailedJob
    <2>3. tasks[t] \in Message BY MessageOf
    <2>4. t \in DOMAIN tasks' /\ tasks'[t] = [tasks[t] EXCEPT !.at = "failed"]
      <3>1. PICK n \in Message : tasks' = At(t, "failed") \/ tasks' = Append(At(t, "failed"), n)
        BY <2>1, ScheduledAppends
      <3>2. "failed" \in Places /\ tasks[t].at # "failed" BY <1>1 DEF Places
      <3> QED BY <1>1, <3>1, <3>2, SettledAt
    <2>5. tasks'[t].kind = "resolve" /\ tasks'[t].rev = tasks[t].rev /\ tasks'[t].at = "failed"
      BY <1>1, <2>3, <2>4 DEF Message
    <2>6. tasks[t].rev \in Settled' BY <2>4, <2>5, FailedSettles
    <2> QED BY <1>1, <2>1, <2>2, <2>6, SchedulesPair
  <1> QED BY <1>2, <1>3

LEMMA FailPostOutcomePair ==
  ASSUME Typed, PairInv, NEW t \in DOMAIN tasks, FailPostOutcome(t) PROVE PairInv'
  <1>1. /\ tasks[t].kind = "resolve" /\ tasks[t].at \in {"applied", "stale"}
        /\ head' = head /\ known' = known /\ paired' = paired
    BY DEF FailPostOutcome, IsResolution
  <1>2. CASE MayRetry(t)
    <2>1. /\ tasks' = [tasks EXCEPT ![t].retries = @ + 1, ![t].at = "queued", ![t].pair = FALSE]
          /\ jobs' = jobs
      BY <1>2 DEF FailPostOutcome
    <2> QED BY <1>1, <2>1, RetryPair
  <1>3. CASE ~MayRetry(t)
    <2>1. /\ jobs' = FailJob(tasks[t].job)
          /\ tasks' = IF tasks[t].at = "applied" THEN Scheduled(At(t, "failed"), tasks[t].rev)
                      ELSE At(t, "failed")
      BY <1>3 DEF FailPostOutcome
    <2>2. JobsKept /\ SentIfSettled BY <2>1, MessageOf, FailedJob
    <2>3. CASE tasks[t].at = "applied"
      <3>1. PushedOnce(tasks[t].rev) => tasks[t].rev \in Settled
        BY <1>1, <2>3, MessageFits DEF FitsOnce
      <3>2. Settled \subseteq Settled' BY <1>1, <2>1, <2>3, ScheduledAppends, SettledAt DEF Places
      <3> QED BY <1>1, <2>1, <2>2, <2>3, <3>1, <3>2, SchedulesPair
    <2>4. CASE tasks[t].at = "stale"
      BY <1>1, <2>1, <2>2, <2>4, EndsPair
    <2> QED BY <1>1, <2>3, <2>4
  <1> QED BY <1>2, <1>3

LEMMA LosesPair ==
  ASSUME Typed, PairInv, NEW t \in DOMAIN tasks, LoseResolution(t) \/ LoseStart(t) PROVE PairInv'
  <1>1. /\ tasks[t].at # "failed" /\ head' = head /\ known' = known /\ paired' = paired /\ jobs' = jobs
        /\ tasks' = At(t, "failed")
    BY DEF LoseResolution, LoseStart
  <1>2. JobsKept /\ SentIfSettled BY <1>1, SameJobs
  <1> QED BY <1>1, <1>2, EndsPair

-----------------------------------------------------------------------------
(* A push, the requests and the index tasks keep the pairing.              *)

LEMMA SupersedeKeeps ==
  ASSUME Typed, NEW J
  PROVE  /\ Len(Supersede(J)) = Len(jobs) /\ DOMAIN Supersede(J) = DOMAIN jobs
         /\ \A j \in DOMAIN jobs : /\ Supersede(J)[j].rev = jobs[j].rev
                                   /\ Supersede(J)[j].sent = jobs[j].sent
  <1>1. jobs \in Seq(Job) BY DEF Typed
  <1>2. Supersede(J) \in Seq(Job) /\ DOMAIN Supersede(J) = DOMAIN jobs
    BY <1>1, SupersedeTyped DEF Supersede
  <1>3. \A j \in DOMAIN jobs : jobs[j] \in Job BY <1>1
  <1>4. Len(Supersede(J)) = Len(jobs) BY <1>1, <1>2
  <1> QED BY <1>2, <1>3, <1>4 DEF Supersede, Job

\* The delivery of a revision that is pushed once is processed once.
LEMMA OneEventOfRevision ==
  ASSUME IInv, PairInv, NEW t \in DOMAIN tasks, NEW u \in DOMAIN tasks, IsEvent(t), IsEvent(u),
         tasks[t].rev = tasks[u].rev, PushedOnce(tasks[t].rev)
  PROVE  t = u
  <1>1. tasks[t].rev = RevOf[tasks[t].kind] /\ tasks[u].rev = RevOf[tasks[u].kind]
    BY MessageFits DEF Fits, IsEvent
  <1>2. tasks[t].kind = tasks[u].kind BY <1>1 DEF PushedOnce, IsEvent
  <1> QED BY <1>2 DEF IInv, ProcessedOnce

\* A revision pushed once is new when its event task is processed.
LEMMA PushIsNew ==
  ASSUME IInv, PairInv, NEW t \in DOMAIN tasks, IsEvent(t), tasks[t].at = "queued",
         PushedOnce(tasks[t].rev)
  PROVE  tasks[t].rev \notin known
  BY MessageFits DEF FitsOnce, IsEvent

LEMMA ProcessEventPair ==
  ASSUME IInv, PairInv, NEW t \in DOMAIN tasks, ProcessEvent(t) PROVE PairInv'
  <1> DEFINE r == tasks[t].rev
             js == Supersede(Overtaken(r))
             new == r \notin known
             x(job) == [tasks[t] EXCEPT !.at = "follow", !.pair = new, !.job = job]
  <1>1. /\ tasks[t].kind \in Deliveries /\ tasks[t].at = "queued"
        /\ head' = r /\ known' = known \cup {r} /\ paired' = paired
    BY DEF ProcessEvent, IsEvent
  <1>2. Typed /\ tasks[t] \in Message /\ r \in Nat BY MessageOf DEF IInv
  <1>3. /\ Len(js) = Len(jobs) /\ DOMAIN js = DOMAIN jobs
        /\ \A j \in DOMAIN jobs : js[j].rev = jobs[j].rev /\ js[j].sent = jobs[j].sent
    BY <1>2, SupersedeKeeps
  <1>4. js \in Seq(Job) /\ Len(jobs) \in Nat BY <1>2, SupersedeTyped DEF Typed
  <1>5. PICK m \in Message :
            /\ m.kind = tasks[t].kind /\ m.rev = r /\ m.at = "follow" /\ m.pair = new
            /\ tasks' = [tasks EXCEPT ![t] = m]
            /\ \/ jobs' = js /\ m.job = tasks[t].job
               \/ jobs' = Append(js, Pending(r)) /\ m.job = Len(jobs) + 1
    <2>0. \A job \in Nat :
              /\ x(job) \in Message /\ x(job).kind = tasks[t].kind /\ x(job).rev = r
              /\ x(job).at = "follow" /\ x(job).pair = new /\ x(job).job = job
      BY <1>2 DEF Message, Places
    <2>1. CASE coalescing \/ InProgress(js, r)
      <3>1. x(tasks[t].job) = [tasks[t] EXCEPT !.at = "follow", !.pair = new]
        BY <1>2 DEF Message
      <3>2. tasks' = [tasks EXCEPT ![t] = x(tasks[t].job)] /\ jobs' = js
        BY <2>1, <3>1 DEF ProcessEvent
      <3>3. tasks[t].job \in Nat BY <1>2, MessageOf
      <3> HIDE DEF x, js, new
      <3> QED BY <2>0, <3>2, <3>3
    <2>2. CASE ~(coalescing \/ InProgress(js, r))
      <3>1. tasks' = [tasks EXCEPT ![t] = x(Len(js) + 1)] /\ jobs' = Append(js, Pending(r))
        BY <2>2 DEF ProcessEvent
      <3>2. Len(js) + 1 \in Nat /\ Len(js) = Len(jobs) BY <1>3, <1>4
      <3> HIDE DEF x, js, new
      <3> QED BY <2>0, <3>1, <3>2
    <2> QED BY <2>1, <2>2
  <1>6. Writes(t, m, {}) BY <1>5 DEF Writes
  <1> HIDE DEF x
  <1>7. /\ TasksKept /\ t \in DOMAIN tasks' /\ tasks'[t] = m
        /\ \A u \in DOMAIN tasks' : u \in DOMAIN tasks /\ (u = t \/ tasks'[u] = tasks[u])
    <2>1. TasksKept /\ t \in DOMAIN tasks' /\ tasks'[t] = m BY <1>1, <1>2, <1>6, WritesKeep
    <2>2. \A u \in DOMAIN tasks' : u \in DOMAIN tasks /\ (u = t \/ tasks'[u] = tasks[u]) BY <1>5
    <2> QED BY <2>1, <2>2
  <1>8. Settled \subseteq Settled' BY <1>1, <1>7, SettledStays
  <1>9. Pending(r) \in Job /\ Pending(r).rev = r /\ Pending(r).sent = FALSE
    BY <1>2, PendingTyped DEF Pending
  <1>10. /\ JobsKept /\ SentIfSettled
         /\ m.job # 0 => m.job \in DOMAIN jobs' /\ jobs'[m.job].rev = r
    <2>0. tasks[t].job # 0 => tasks[t].job \in DOMAIN jobs /\ jobs[tasks[t].job].rev = r
      BY MessageFits DEF Fits
    <2> HIDE DEF js
    <2>1. CASE jobs' = js /\ m.job = tasks[t].job
      BY <1>3, <2>0, <2>1 DEF JobsKept, SentIfSettled
    <2>2. CASE jobs' = Append(js, Pending(r)) /\ m.job = Len(jobs) + 1
      <3> DEFINE p == Pending(r)
      <3> HIDE DEF p
      <3>1. p \in Job /\ p.rev = r /\ p.sent = FALSE BY <1>9 DEF p
      <3>2. jobs' = Append(js, p) BY <2>2 DEF p
      <3>3. /\ DOMAIN jobs' = 1..(Len(js) + 1) /\ jobs'[Len(js) + 1] = p
            /\ \A j \in DOMAIN js : jobs'[j] = js[j]
        BY <1>4, <3>1, <3>2, Appended
      <3>4. /\ \A j \in DOMAIN jobs' : j \in DOMAIN js \/ j = Len(js) + 1
            /\ DOMAIN js \subseteq DOMAIN jobs' /\ Len(js) + 1 \in DOMAIN jobs'
        BY <1>4, <3>3
      <3>5. JobsKept BY <1>3, <3>3, <3>4 DEF JobsKept
      <3>6. SentIfSettled BY <1>3, <3>1, <3>3, <3>4 DEF SentIfSettled
      <3>7. m.job \in DOMAIN jobs' /\ jobs'[m.job].rev = r BY <1>3, <2>2, <3>1, <3>3, <3>4
      <3> QED BY <3>5, <3>6, <3>7
    <2> QED BY <1>5, <2>1, <2>2
  <1> HIDE DEF js
  <1>11. \A u \in DOMAIN tasks' : Fits(tasks'[u], known', head', jobs', Settled')
    <2> SUFFICES ASSUME NEW u \in DOMAIN tasks'
                 PROVE  Fits(tasks'[u], known', head', jobs', Settled')
      OBVIOUS
    <2>1. CASE u = t
      <3>1. PushedOnce(m.rev) => m.pair BY <1>1, <1>5, PushIsNew DEF IsEvent
      <3>2. m.rev \in known' BY <1>1, <1>5
      <3>3. m.kind \in Deliveries /\ m.kind \notin {"resolve", "autostart"}
        BY <1>1, <1>5, EventsAssumption
      <3>4. PushedOnce(m.rev) => FitsOnce(m, known', head', Settled')
        BY <1>5, <3>1, <3>2, <3>3 DEF FitsOnce
      <3>5. m.rev = RevOf[m.kind] BY <1>1, <1>5, MessageFits DEF Fits
      <3>6. Fits(m, known', head', jobs', Settled') BY <1>5, <1>10, <3>4, <3>5 DEF Fits
      <3> QED BY <1>7, <2>1, <3>6
    <2>2. CASE u # t
      <3>1. u \in DOMAIN tasks /\ tasks'[u] = tasks[u] BY <1>7, <2>2
      <3>2. Fits(tasks[u], known, head, jobs, Settled) BY <3>1, MessageFits
      <3>3. Fits(tasks[u], known, head, jobs', Settled') BY <1>8, <1>10, <3>2, FitStays
      <3>4. PushedOnce(tasks[u].rev) => FitsOnce(tasks[u], known', head', Settled')
        <4> SUFFICES ASSUME PushedOnce(tasks[u].rev)
                     PROVE  FitsOnce(tasks[u], known', head', Settled')
          OBVIOUS
        <4>1. FitsOnce(tasks[u], known, head, Settled') BY <3>3 DEF Fits
        <4>2. CASE tasks[u].rev = r
          <5>1. tasks[u].kind \notin Deliveries BY <1>1, <2>2, <3>1, <4>2, OneEventOfRevision DEF IsEvent
          <5>2. r \notin known BY <1>1, <4>2, PushIsNew DEF IsEvent
          <5> QED BY <4>1, <4>2, <5>1, <5>2 DEF FitsOnce
        <4>3. CASE tasks[u].rev # r
          BY <1>1, <4>1, <4>3 DEF FitsOnce
        <4> QED BY <4>2, <4>3
      <3> QED BY <3>1, <3>3, <3>4 DEF Fits
    <2> QED BY <2>1, <2>2
  <1>12. KnownHasEvent'
    <2> SUFFICES ASSUME NEW q \in known \cup {r}, q # 0
                 PROVE  \E u \in DOMAIN tasks' : tasks'[u].kind \in Deliveries /\ tasks'[u].rev = q
      BY <1>1 DEF KnownHasEvent, IsEvent
    <2>1. CASE q = r BY <1>1, <1>5, <1>7, <2>1
    <2>2. CASE q \in known
      <3>1. PICK u \in DOMAIN tasks : tasks[u].kind \in Deliveries /\ tasks[u].rev = q
        BY <2>2 DEF PairInv, KnownHasEvent, IsEvent
      <3> QED BY <1>7, <3>1 DEF TasksKept
    <2> QED BY <2>1, <2>2
  <1>13. \A j \in DOMAIN jobs' : jobs'[j].sent /\ PushedOnce(jobs'[j].rev) => jobs'[j].rev \in Settled'
    BY <1>8, <1>10, SentStays
  <1>14. head' \in known' BY <1>1
  <1> QED BY <1>11, <1>12, <1>13, <1>14 DEF PairInv

\* The event task of a delivery that no task carries yet: its revision, pushed once, is new.
LEMMA EnqueueEventPair ==
  ASSUME IInv, IInv', PairInv, NEW q \in DOMAIN request, EnqueueEvent(q) PROVE PairInv'
  <1> DEFINE d == request[q].delivery
             n == EventTask(d)
  <1>1. /\ tasks' = Append(tasks, n) /\ jobs' = jobs
        /\ head' = head /\ known' = known /\ paired' = paired
    BY DEF EnqueueEvent
  <1>2. tasks \in Seq(Message) BY DEF IInv, Typed
  <1>3. d \in Deliveries
    <2>1. request[q] \in Request BY RequestTyped
    <2> QED BY <2>1 DEF Request
  <1>4. n \in Message /\ n.kind = d /\ n.rev = RevOf[d] /\ n.job = 0 /\ n.at = "queued"
    BY <1>3, RevIsNat DEF EventTask, Task, Message, Places
  <1> HIDE DEF n
  <1>5. /\ DOMAIN tasks' = 1..(Len(tasks) + 1) /\ tasks'[Len(tasks) + 1] = n
        /\ \A u \in DOMAIN tasks : tasks'[u] = tasks[u]
    BY <1>1, <1>2, <1>4, Appended
  <1>6. /\ \A u \in DOMAIN tasks' : u \in DOMAIN tasks \/ u = Len(tasks) + 1
        /\ DOMAIN tasks \subseteq DOMAIN tasks' /\ Len(tasks) + 1 \in DOMAIN tasks'
        /\ Len(tasks) + 1 \notin DOMAIN tasks
    BY <1>2, <1>5
  <1>7. TasksKept BY <1>5, <1>6 DEF TasksKept
  <1>8. PushedOnce(RevOf[d]) => RevOf[d] \notin known
    <2> SUFFICES ASSUME PushedOnce(RevOf[d]), RevOf[d] \in known PROVE FALSE OBVIOUS
    <2>1. RevOf[d] # 0 BY <1>3, EventsAssumption
    <2>2. PICK u \in DOMAIN tasks : IsEvent(u) /\ tasks[u].rev = RevOf[d]
      BY <2>1 DEF PairInv, KnownHasEvent
    <2>3. tasks[u].kind \in Deliveries /\ RevOf[tasks[u].kind] = RevOf[d]
      BY <2>2, MessageFits DEF Fits, IsEvent
    <2>4. tasks[u].kind = d BY <1>3, <2>3 DEF PushedOnce
    <2>5. /\ u \in DOMAIN tasks' /\ Len(tasks) + 1 \in DOMAIN tasks' /\ u # Len(tasks) + 1
          /\ tasks'[u].kind = d /\ tasks'[Len(tasks) + 1].kind = d
      BY <1>4, <1>5, <1>6, <2>4
    <2> QED BY <1>3, <2>5 DEF IInv, ProcessedOnce, IsEvent
  <1>9. Fits(n, known, head, jobs', Settled')
    BY <1>3, <1>4, <1>8, EventsAssumption DEF Fits, FitsOnce
  <1>10. JobsKept /\ SentIfSettled BY <1>1, SameJobs
  <1>11. \A u \in DOMAIN tasks' : \/ u \in DOMAIN tasks /\ tasks'[u] = tasks[u]
                                  \/ Fits(tasks'[u], known, head, jobs', Settled')
    BY <1>5, <1>6, <1>9
  <1> QED BY <1>1, <1>7, <1>10, <1>11, KeepsPair

\* Steps that touch no task, and only the status of jobs.
LEMMA QuietPair ==
  ASSUME PairInv, tasks' = tasks, head' = head, known' = known, paired' = paired,
         JobsKept, SentIfSettled
  PROVE  PairInv'
  BY KeepsPair DEF TasksKept

LEMMA IndexPair ==
  ASSUME Typed, PairInv, NEW j \in DOMAIN jobs, Index(j) PROVE PairInv'
  <1> DEFINE x == [jobs[j] EXCEPT !.status = "done"]
  <1>1. jobs \in Seq(Job) /\ jobs[j] \in Job BY DEF Typed
  <1>2. x \in Job /\ x.rev = jobs[j].rev /\ x.sent = jobs[j].sent BY <1>1 DEF Job
  <1>3. jobs' = [jobs EXCEPT ![j] = x] BY DEF Index
  <1> HIDE DEF x
  <1>4. DOMAIN jobs' = DOMAIN jobs /\ jobs'[j] = x /\ \A i \in DOMAIN jobs : i # j => jobs'[i] = jobs[i]
    BY <1>3
  <1>5. JobsKept /\ SentIfSettled BY <1>2, <1>4 DEF JobsKept, SentIfSettled
  <1>6. tasks' = tasks /\ head' = head /\ known' = known /\ paired' = paired BY DEF Index
  <1> QED BY <1>5, <1>6, QuietPair

LEMMA InitPair == Init => PairInv
  <1> SUFFICES ASSUME Init PROVE PairInv OBVIOUS
  <1> QED BY DEF Init, PairInv, KnownHasEvent

LEMMA NextPair == IInv /\ IInv' /\ PairInv /\ [Next]_vars => PairInv'
  <1> SUFFICES ASSUME IInv, IInv', PairInv, [Next]_vars PROVE PairInv' OBVIOUS
  <1>0. Typed BY DEF IInv
  <1>1. CASE /\ tasks' = tasks /\ jobs' = jobs
             /\ head' = head /\ known' = known /\ paired' = paired
    BY <1>1, SameJobs, QuietPair
  <1>2. ASSUME NEW d \in Deliveries, Receive(d) PROVE PairInv' BY <1>1, <1>2 DEF Receive
  <1>3. ASSUME NEW q \in DOMAIN request, Ingest(q) \/ LoseEvent(q) PROVE PairInv'
    <2>1. CASE EnqueueEvent(q) BY <2>1, EnqueueEventPair
    <2>2. CASE Insert(q) BY <1>1, <2>2 DEF Insert
    <2>3. CASE Acknowledge(q) BY <1>1, <2>3 DEF Acknowledge
    <2>4. CASE LoseEvent(q) BY <1>1, <2>4 DEF LoseEvent
    <2> QED BY <1>3, <2>1, <2>2, <2>3, <2>4 DEF Ingest
  <1>4. ASSUME NEW t \in DOMAIN tasks, Work(t) PROVE PairInv'
    <2>1. CASE PostOutcome(t)
      <3>1. Release(t) \/ HandOff(t) BY <2>1 DEF PostOutcome
      <3> QED BY <1>0, <2>1, <3>1, ReleasePair, HandOffPair
    <2> QED BY <1>0, <1>4, <2>1, ProcessEventPair, EnqueueResolutionPair, ResolvePair,
               StartPair, InsertJobPair, SendJobPair DEF Work
  <1>5. ASSUME NEW t \in DOMAIN tasks, Fault(t) PROVE PairInv'
    BY <1>0, <1>5, FailEventPair, LosesPair, FailResolvePair, FailPostOutcomePair DEF Fault
  <1>6. ASSUME NEW j \in DOMAIN jobs, Index(j) PROVE PairInv' BY <1>0, <1>6, IndexPair
  <1>7. CASE UNCHANGED vars BY <1>1, <1>7 DEF vars
  <1> QED BY <1>2, <1>3, <1>4, <1>5, <1>6, <1>7 DEF Next

\* Whatever is retried, handed over or lost, and in whatever order the pushes of other
\* revisions are processed, the index task of a revision that one delivery pushes is
\* enqueued only after its findings were paired, or the last attempt to pair them failed
\* (workers/github_tasks.py).
THEOREM NewPushIsPairedHolds == Spec => []NewPushIsPaired
  <1>1. Init => IInv /\ PairInv BY InitIInv, InitPair
  <1>2. (IInv /\ PairInv) /\ [Next]_vars => (IInv /\ PairInv)' BY NextIInv, NextPair
  <1>3. PairInv => NewPushIsPaired BY DEF PairInv, NewPushIsPaired, Settled
  <1> QED BY <1>1, <1>2, <1>3, PTL DEF Spec

=============================================================================
