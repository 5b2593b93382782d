--------------------------- MODULE Records_proofs ---------------------------
(***************************************************************************)
(* Proofs about what a pipeline leaves behind, for any models, candidates, *)
(* retries and faults.  A step of Records is a step of one of the three    *)
(* parts, each with an inductive invariant of its own.                     *)
(*                                                                         *)
(*   Review: the model a delivery asks is that of the checkpoint, unless   *)
(*           the policy has moved; nobody writes the snapshot before the   *)
(*           run has ended.                                                *)
(*   Judge:  what is told so far is of the candidates passed so far that   *)
(*           had no outcome.                                               *)
(*   Trace:  what the check says, and whether a push holds the rows, for   *)
(*           every place where the task of the pipeline may be.            *)
(***************************************************************************)
EXTENDS Records, FiniteSets, FiniteSetTheorems, TLAPS

-----------------------------------------------------------------------------
(* The review.                                                             *)

\* What the argument needs of the types.
ReviewTyped ==
    /\ catalog \subseteq Models
    /\ run \in [status : {"pending", "processing", "completed", "failed", "superseded"},
                pinned : Models \cup {None}]
    /\ DOMAIN task = {"at", "left", "model", "no", "second"}
    /\ task.at \in {"queued", "prepare", "resolve", "start", "call", "parsed", "over", "lost"}
    /\ moved \in BOOLEAN

\* Without a checkpoint the run is as it was taken, and its row is held.
Unpinned ==
    run.pinned = None =>
        /\ run.status # "processing" /\ run.status # "completed"
        /\ R!Locked => run.status = "pending"

\* An ended run has no task that goes on.
EndedIsOver == run.status \in {"completed", "failed"} => task.at \in {"over", "lost"}

\* The policy names the checkpoint's model until it moves, and so does a delivery.
PinnedIsAsked ==
    /\ run.pinned # None => moved \/ R!Resolved = run.pinned
    /\ task.at \in {"start", "call", "parsed"} =>
           /\ run.pinned # None
           /\ moved \/ task.model = run.pinned

\* The snapshot waits for the end of the run.
SnapshotWaits ==
    /\ run.status \in {"pending", "processing"} => snapshot = "unset"
    /\ run.status = "completed" => /\ step.model = run.pinned /\ run.pinned # None
                                   /\ snapshot \in {"unset", run.pinned}
                                   /\ moved \/ found = run.pinned

ReviewInv == ReviewTyped /\ Unpinned /\ EndedIsOver /\ PinnedIsAsked /\ SnapshotWaits

LEMMA ReviewInit == R!Init => ReviewInv
<1> SUFFICES ASSUME R!Init PROVE ReviewInv
    OBVIOUS
<1>1. /\ run = [status |-> "pending", pinned |-> None] /\ task.at = "queued"
      /\ DOMAIN task = {"at", "left", "model", "no", "second"}
      /\ catalog = Models /\ snapshot = "unset" /\ moved = FALSE
    BY DEF R!Init
<1>2. ReviewTyped
    BY <1>1 DEF ReviewTyped
<1> QED BY <1>1, <1>2 DEF ReviewInv, Unpinned, EndedIsOver, PinnedIsAsked, SnapshotWaits

\* A step that leaves the run, and the policy, and takes the task somewhere it may be
\* with what it has.
LEMMA TaskGoes ==
    ASSUME ReviewInv, UNCHANGED <<catalog, override, moved, run, found, step, snapshot>>,
           NEW a \in {"queued", "prepare", "resolve", "start", "call", "parsed", "over", "lost"},
           DOMAIN task' = DOMAIN task, task'.at = a, task'.model = task.model,
           run.status \in {"completed", "failed"} => a \in {"over", "lost"},
           a \in {"start", "call", "parsed"} => task.at \in {"start", "call", "parsed"},
           a \in {"prepare", "resolve"} => run.pinned # None \/ run.status = "pending"
    PROVE  ReviewInv'
BY DEF ReviewInv, ReviewTyped, Unpinned, EndedIsOver, PinnedIsAsked, SnapshotWaits, R!Locked, R!Resolved

\* A run that fails ends with its task, whatever is stored of it.
LEMMA RunFails ==
    ASSUME ReviewInv, UNCHANGED <<catalog, override, moved>>,
           run' = [run EXCEPT !.status = "failed"], task' = [task EXCEPT !.at = "over"]
    PROVE  ReviewInv'
<1>1. run'.status = "failed" /\ run'.pinned = run.pinned /\ task'.at = "over" /\ DOMAIN task' = DOMAIN task
    BY DEF ReviewInv, ReviewTyped
<1>2. ReviewTyped'
    BY <1>1 DEF ReviewInv, ReviewTyped
<1> QED
    BY <1>1, <1>2 DEF ReviewInv, Unpinned, EndedIsOver, PinnedIsAsked, SnapshotWaits, R!Locked, R!Resolved

LEMMA FailKeeps ==
    ASSUME ReviewInv, UNCHANGED R!policy, NEW reason, R!Fail(reason)
    PROVE  ReviewInv'
BY RunFails DEF R!policy, R!Fail, R!Over, R!Goes

LEMMA RaisedKeeps ==
    ASSUME ReviewInv, UNCHANGED R!policy, NEW reason, R!Raised(reason),
           run.status \notin {"completed", "failed"}
    PROVE  ReviewInv'
<1>1. CASE reason \in R!Transient /\ task.left > 0
    <2>1. /\ task' = [task EXCEPT !.at = "queued", !.left = @ - 1]
          /\ UNCHANGED <<run, found, step, snapshot>>
        BY <1>1 DEF R!Raised, R!results
    <2>2. DOMAIN task' = DOMAIN task /\ task'.at = "queued" /\ task'.model = task.model
        BY <2>1 DEF ReviewInv, ReviewTyped
    <2> QED BY <2>1, <2>2, TaskGoes DEF R!policy
<1>2. CASE ~(reason \in R!Transient /\ task.left > 0)
    BY <1>2, RunFails DEF R!policy, R!Raised, R!Over, R!Goes
<1> QED BY <1>1, <1>2

\* Every step keeps the invariant.
LEMMA ReviewStep ==
    ASSUME ReviewInv, [R!Next]_R!vars
    PROVE  ReviewInv'
<1> DEFINE still == UNCHANGED <<catalog, override, moved, run, found, step, snapshot>>
<1>1. ASSUME R!Patch \/ R!Deploy PROVE ReviewInv'
    <2>1. /\ moved' = (moved \/ run.pinned \notin {None, R!Resolved'})
          /\ UNCHANGED <<run, task, found, step, snapshot>>
        BY <1>1 DEF R!Patch, R!Deploy, R!Changed, R!results
    <2>2. catalog' \subseteq Models
        BY <1>1 DEF R!Patch, R!Deploy, ReviewInv, ReviewTyped
    <2>3. moved' \in BOOLEAN /\ (moved => moved')
        BY <2>1, Zenon
    <2>4. run.pinned # None => moved' \/ R!Resolved' = run.pinned
        BY <2>1, Zenon
    <2> QED
        BY <2>1, <2>2, <2>3, <2>4
           DEF ReviewInv, ReviewTyped, Unpinned, EndedIsOver, PinnedIsAsked, SnapshotWaits, R!Locked
<1>2. ASSUME R!Supersede PROVE ReviewInv'
    <2>1. /\ run' = [run EXCEPT !.status = "superseded"] /\ ~R!Locked
          /\ UNCHANGED <<catalog, override, moved, task, found, step, snapshot>>
        BY <1>2 DEF R!Supersede, R!policy, R!results
    <2>2. run'.status = "superseded" /\ run'.pinned = run.pinned
        BY <2>1 DEF ReviewInv, ReviewTyped
    <2>3. ReviewTyped'
        BY <2>1, <2>2 DEF ReviewInv, ReviewTyped
    <2> QED
        BY <2>1, <2>2, <2>3 DEF ReviewInv, Unpinned, EndedIsOver, PinnedIsAsked, SnapshotWaits,
           R!Locked, R!Resolved
<1>3. ASSUME R!Begin PROVE ReviewInv'
    <2>1. PICK a \in {"prepare", "over"} :
              /\ task' = [task EXCEPT !.at = a]
              /\ a = "prepare" => run.status = "pending" \/ run.pinned # None
              /\ task.at = "queued" /\ still
        BY <1>3 DEF R!Begin, R!Goes, R!Over, R!policy, R!results
    <2>2. DOMAIN task' = DOMAIN task /\ task'.at = a /\ task'.model = task.model
        BY <2>1 DEF ReviewInv, ReviewTyped
    <2>3. run.status \notin {"completed", "failed"}
        BY <2>1 DEF ReviewInv, EndedIsOver
    <2> QED BY <2>1, <2>2, <2>3, TaskGoes
<1>4. ASSUME R!Prepare PROVE ReviewInv'
    <2>1. /\ task.at = "prepare" /\ UNCHANGED R!policy
          /\ run.status \notin {"completed", "failed"}
        BY <1>4 DEF R!Prepare, ReviewInv, EndedIsOver
    <2>2. CASE R!Goes("resolve") /\ UNCHANGED <<run, why, R!results>>
        <3>1. DOMAIN task' = DOMAIN task /\ task'.at = "resolve" /\ task'.model = task.model
            BY <2>2 DEF R!Goes, ReviewInv, ReviewTyped
        <3>2. run.pinned # None \/ run.status = "pending"
            BY <2>1 DEF ReviewInv, Unpinned, R!Locked
        <3> QED BY <2>1, <2>2, <3>1, <3>2, TaskGoes DEF R!policy, R!results
    <2>3. ASSUME NEW end, R!Raised(end) \/ R!Fail(end) PROVE ReviewInv'
        BY <2>1, <2>3, RaisedKeeps, FailKeeps
    <2> QED BY <1>4, <2>2, <2>3 DEF R!Prepare
<1>5. ASSUME R!Resolve PROVE ReviewInv'
    <2>1. task.at = "resolve" /\ UNCHANGED R!policy
        BY <1>5 DEF R!Resolve
    <2>2. CASE ~R!Available(R!Resolved)
        BY <1>5, <2>1, <2>2, FailKeeps DEF R!Resolve
    <2>3. CASE R!Available(R!Resolved)
        <3>1. /\ task' = [task EXCEPT !.at = "start", !.model = R!Resolved, !.second = FALSE]
              /\ run' = IF run.pinned = None THEN [status |-> "processing", pinned |-> R!Resolved] ELSE run
              /\ UNCHANGED <<catalog, override, moved, found, step, snapshot>>
            BY <1>5, <2>3 DEF R!Resolve, R!results, R!policy
        <3>2. R!Resolved \in Models /\ R!Resolved # None /\ R!Resolved' = R!Resolved
            BY <2>3, <3>1, RecordsAssumption DEF RecordsAssumption, R!Available, R!Resolved, ReviewInv, ReviewTyped
        <3>3. DOMAIN task' = DOMAIN task /\ task'.at = "start" /\ task'.model = R!Resolved
            BY <3>1 DEF ReviewInv, ReviewTyped
        <3>4. run.pinned = None => run.status = "pending"
            BY <2>1 DEF ReviewInv, Unpinned, R!Locked
        <3>5. run.status \notin {"completed", "failed"}
            BY <2>1 DEF ReviewInv, EndedIsOver
        <3>6. ReviewTyped'
            BY <3>1, <3>2, <3>3 DEF ReviewInv, ReviewTyped
        <3>7. CASE run.pinned = None
            BY <3>1, <3>2, <3>3, <3>4, <3>6, <3>7
               DEF ReviewInv, Unpinned, EndedIsOver, PinnedIsAsked, SnapshotWaits
        <3>8. CASE run.pinned # None
            BY <3>1, <3>2, <3>3, <3>5, <3>6, <3>8
               DEF ReviewInv, Unpinned, EndedIsOver, PinnedIsAsked, SnapshotWaits
        <3> QED BY <3>7, <3>8
    <2> QED BY <2>2, <2>3
<1>6. ASSUME R!Start PROVE ReviewInv'
    <2>1. /\ task.at = "start" /\ UNCHANGED R!policy
          /\ run.status \notin {"completed", "failed"}
        BY <1>6 DEF R!Start, ReviewInv, EndedIsOver
    <2>2. CASE R!Raised("row")
        BY <2>1, <2>2, RaisedKeeps
    <2>3. CASE ~R!Raised("row")
        <3>1. PICK no : task' = [task EXCEPT !.at = "call", !.no = no] /\ still
            BY <1>6, <2>3 DEF R!Start, R!policy, R!results
        <3>2. DOMAIN task' = DOMAIN task /\ task'.at = "call" /\ task'.model = task.model
            BY <3>1 DEF ReviewInv, ReviewTyped
        <3> QED BY <2>1, <3>1, <3>2, TaskGoes
    <2> QED BY <2>2, <2>3
<1>7. ASSUME R!Answers \/ R!Garbles \/ R!NoText \/ R!NoJson \/ R!BedrockFails
             \/ \E end \in {"timeout"} \cup R!Statuses : R!CallFails(end)
      PROVE ReviewInv'
    <2>1. /\ task.at = "call" /\ UNCHANGED R!policy
          /\ run.status \notin {"completed", "failed"}
        BY <1>7 DEF R!Answers, R!Garbles, R!NoText, R!NoJson, R!BedrockFails, R!CallFails, R!Ends,
           ReviewInv, EndedIsOver
    <2>2. ASSUME NEW reason, R!Raised(reason) \/ R!Fail(reason) PROVE ReviewInv'
        BY <2>1, <2>2, RaisedKeeps, FailKeeps
    <2>3. ASSUME NEW a \in {"parsed", "start"}, NEW s, still,
                 task' = [task EXCEPT !.at = a] \/ task' = [task EXCEPT !.at = a, !.second = s]
          PROVE ReviewInv'
        <3>1. DOMAIN task' = DOMAIN task /\ task'.at = a /\ task'.model = task.model
            BY <2>3 DEF ReviewInv, ReviewTyped
        <3> QED BY <2>1, <2>3, <3>1, TaskGoes
    <2>4. CASE R!Answers
        BY <2>3, <2>4 DEF R!Answers, R!Goes, R!policy, R!results
    <2>5. CASE R!Garbles
        BY <2>2, <2>3, <2>5 DEF R!Garbles, R!policy, R!results
    <2> QED BY <1>7, <2>2, <2>4, <2>5 DEF R!NoText, R!NoJson, R!BedrockFails, R!CallFails
<1>8. ASSUME R!Complete PROVE ReviewInv'
    <2>1. /\ task.at = "parsed" /\ task' = [task EXCEPT !.at = "over"]
          /\ UNCHANGED <<catalog, override, moved, snapshot>>
        BY <1>8 DEF R!Complete, R!Over, R!Goes, R!policy, R!results
    <2>2. DOMAIN task' = DOMAIN task /\ task'.at = "over" /\ task'.model = task.model
        BY <2>1 DEF ReviewInv, ReviewTyped
    <2>3. CASE run.status # "processing"
        BY <1>8, <2>1, <2>2, <2>3, TaskGoes DEF R!Complete, R!results
    <2>4. CASE run.status = "processing"
        <3>1. /\ run' = [run EXCEPT !.status = "completed"]
              /\ found' = task.model /\ step' = [status |-> "completed", model |-> run.pinned]
            BY <1>8, <2>4 DEF R!Complete
        <3>2. run'.status = "completed" /\ run'.pinned = run.pinned /\ step'.model = run.pinned
            BY <3>1 DEF ReviewInv, ReviewTyped
        <3>3. ReviewTyped'
            BY <2>1, <2>2, <3>1 DEF ReviewInv, ReviewTyped
        <3>4. snapshot = "unset" /\ run.pinned # None /\ (moved \/ task.model = run.pinned)
            BY <2>1, <2>4 DEF ReviewInv, SnapshotWaits, PinnedIsAsked
        <3> QED
            BY <2>1, <2>2, <3>1, <3>2, <3>3, <3>4
               DEF ReviewInv, Unpinned, EndedIsOver, PinnedIsAsked, SnapshotWaits, R!Locked, R!Resolved
    <2> QED BY <2>3, <2>4
<1>9. ASSUME R!Publish PROVE ReviewInv'
    <2>1. /\ UNCHANGED <<catalog, override, moved, run, task, found, step>>
          /\ run.status = "completed" /\ snapshot' = step.model
        BY <1>9 DEF R!Publish, R!Snapshot, R!Reviewer, R!policy, ReviewInv, SnapshotWaits
    <2> QED
        BY <2>1 DEF ReviewInv, ReviewTyped, Unpinned, EndedIsOver, PinnedIsAsked, SnapshotWaits,
           R!Locked, R!Resolved
<1>10. ASSUME R!Killed PROVE ReviewInv'
    <2>1. task' = [task EXCEPT !.at = "lost"] /\ still
        BY <1>10 DEF R!Killed, R!Goes, R!policy, R!results
    <2>2. DOMAIN task' = DOMAIN task /\ task'.at = "lost" /\ task'.model = task.model
        BY <2>1 DEF ReviewInv, ReviewTyped
    <2> QED BY <2>1, <2>2, TaskGoes
<1>11. CASE UNCHANGED R!vars
    BY <1>11 DEF R!vars, R!policy, R!results, ReviewInv, ReviewTyped, Unpinned, EndedIsOver, PinnedIsAsked,
       SnapshotWaits, R!Locked, R!Resolved
<1> QED
    BY <1>1, <1>2, <1>3, <1>4, <1>5, <1>6, <1>7, <1>8, <1>9, <1>10, <1>11 DEF R!Next

-----------------------------------------------------------------------------
(* The judge.                                                              *)

Artifact == [candidate : Nat, outcome : BOOLEAN, retry : Nat, questions : Nat]

Members(s) == {s[i] : i \in DOMAIN s}

ToldOf(told) == {a.candidate : a \in Members(told)}

\* The first n candidates, without those that had an outcome.
Due(had, n) == {c \in 1..n : c \notin had}

JudgeTyped ==
    /\ stored \in Seq(Nat) /\ session \in Seq(Nat)
    /\ artifacts \in Seq(Artifact)
    /\ steps \in Seq([had : SUBSET Nat, told : Seq(Artifact)])
    /\ turn \in Nat \ {0} /\ turn - 1 <= Candidates /\ turn - 1 <= MaxPerRun
    /\ questions \in Nat

\* Until the commit what is told is of the candidates before turn.
ToldInTurn ==
    at \in {"next", "ask", "post", "judged"} =>
        /\ \A c \in Members(session) : c < turn
        /\ Len(artifacts) = Cardinality(Due(Members(stored), turn - 1))
        /\ ToldOf(artifacts) = Due(Members(stored), turn - 1)

\* The candidate that is asked for is within the limits and has no outcome; the judge
\* ends at a limit.
TurnIsDue ==
    /\ at \in {"ask", "post"} => turn <= Candidates /\ turn <= MaxPerRun /\ turn \notin Members(stored)
    /\ at = "judged" => turn > Candidates \/ turn > MaxPerRun

\* StepTellsAll, as the lemmas use it.
Tells(s) ==
    /\ Len(s.told) = Cardinality({c \in 1..Candidates : c <= MaxPerRun /\ c \notin s.had})
    /\ ToldOf(s.told) = {c \in 1..Candidates : c <= MaxPerRun /\ c \notin s.had}

AllTold == \A s \in Members(steps) : Tells(s)

JudgeInv == JudgeTyped /\ ToldInTurn /\ TurnIsDue /\ AllTold

\* The module of the judge has its own name for the cardinality.
LEMMA SameCardinality == \A S : J!Cardinality(S) = Cardinality(S)
BY DEF J!Cardinality, Cardinality

LEMMA RangeOfAppend ==
    ASSUME NEW Values, NEW s \in Seq(Values), NEW x \in Values
    PROVE  /\ Append(s, x) \in Seq(Values) /\ Len(Append(s, x)) = Len(s) + 1
           /\ Members(Append(s, x)) = Members(s) \cup {x}
<1>1. /\ DOMAIN s = 1..Len(s) /\ DOMAIN Append(s, x) = 1..(Len(s) + 1) /\ Len(s) \in Nat
      /\ Append(s, x) \in Seq(Values) /\ Len(Append(s, x)) = Len(s) + 1
    OBVIOUS
<1>2. \A i \in 1..(Len(s) + 1) : Append(s, x)[i] = IF i <= Len(s) THEN s[i] ELSE x
    OBVIOUS
<1>3. Members(Append(s, x)) \subseteq Members(s) \cup {x}
    BY <1>1, <1>2 DEF Members
<1>4. \A y \in Members(s) : y \in Members(Append(s, x))
    BY <1>1, <1>2 DEF Members
<1>5. x \in Members(Append(s, x))
    <2>1. Len(s) + 1 \in DOMAIN Append(s, x) /\ Append(s, x)[Len(s) + 1] = x
        BY <1>1, <1>2
    <2> QED BY <2>1 DEF Members
<1> QED BY <1>1, <1>3, <1>4, <1>5

LEMMA RangeOfConcat ==
    ASSUME NEW Values, NEW s \in Seq(Values), NEW t \in Seq(Values)
    PROVE  s \o t \in Seq(Values) /\ Members(s \o t) = Members(s) \cup Members(t)
<1>1. /\ DOMAIN s = 1..Len(s) /\ DOMAIN t = 1..Len(t) /\ DOMAIN (s \o t) = 1..(Len(s) + Len(t))
      /\ Len(s) \in Nat /\ Len(t) \in Nat /\ s \o t \in Seq(Values)
    OBVIOUS
<1>2. \A i \in 1..(Len(s) + Len(t)) : (s \o t)[i] = IF i <= Len(s) THEN s[i] ELSE t[i - Len(s)]
    OBVIOUS
<1>3. Members(s \o t) \subseteq Members(s) \cup Members(t)
    <2> SUFFICES ASSUME NEW i \in 1..(Len(s) + Len(t))
                 PROVE  (s \o t)[i] \in Members(s) \cup Members(t)
        BY <1>1 DEF Members
    <2>1. CASE i <= Len(s)
        BY <1>1, <1>2, <2>1 DEF Members
    <2>2. CASE i > Len(s)
        <3>1. i - Len(s) \in DOMAIN t /\ (s \o t)[i] = t[i - Len(s)]
            BY <1>1, <1>2, <2>2
        <3> QED BY <3>1 DEF Members
    <2> QED BY <1>1, <2>1, <2>2
<1>4. \A i \in DOMAIN s : s[i] \in Members(s \o t)
    <2> SUFFICES ASSUME NEW i \in DOMAIN s PROVE s[i] \in Members(s \o t)
        OBVIOUS
    <2>1. i \in DOMAIN (s \o t) /\ (s \o t)[i] = s[i]
        BY <1>1, <1>2
    <2> QED BY <2>1 DEF Members
<1>5. \A i \in DOMAIN t : t[i] \in Members(s \o t)
    <2> SUFFICES ASSUME NEW i \in DOMAIN t PROVE t[i] \in Members(s \o t)
        OBVIOUS
    <2>1. i + Len(s) \in DOMAIN (s \o t) /\ (s \o t)[i + Len(s)] = t[i]
        BY <1>1, <1>2
    <2> QED BY <2>1 DEF Members
<1> QED BY <1>1, <1>3, <1>4, <1>5 DEF Members

LEMMA EmptyRange == Members(<<>>) = {}
BY DEF Members

\* One candidate more is due, or not.
LEMMA DueOneMore ==
    ASSUME NEW n \in Nat, NEW had
    PROVE  /\ IsFiniteSet(Due(had, n)) /\ Cardinality(Due(had, n)) \in Nat
           /\ n + 1 \in had => Due(had, n + 1) = Due(had, n)
           /\ n + 1 \notin had =>
                  /\ Due(had, n + 1) = Due(had, n) \cup {n + 1}
                  /\ Cardinality(Due(had, n + 1)) = Cardinality(Due(had, n)) + 1
<1>1. IsFiniteSet(Due(had, n)) /\ Cardinality(Due(had, n)) \in Nat
    <2>1. IsFiniteSet(1..n) /\ Due(had, n) \in SUBSET (1..n)
        BY FS_Interval DEF Due
    <2> QED BY <2>1, FS_Subset, FS_CardinalityType
<1>2. n + 1 \in had => Due(had, n + 1) = Due(had, n)
    BY DEF Due
<1>3. n + 1 \notin had => Due(had, n + 1) = Due(had, n) \cup {n + 1}
    BY DEF Due
<1>4. n + 1 \notin Due(had, n)
    BY DEF Due
<1> QED BY <1>1, <1>2, <1>3, <1>4, FS_AddElement

LEMMA JudgeInit == J!Init => JudgeInv
BY RecordsAssumption, EmptyRange
   DEF RecordsAssumption, J!Init, JudgeInv, JudgeTyped, ToldInTurn, TurnIsDue, AllTold

\* A candidate is told of when it is passed.
LEMMA DoneKeeps ==
    ASSUME JudgeInv, at = "post", UNCHANGED <<stored, steps, questions>>,
           NEW outcome \in BOOLEAN, NEW retry \in Nat, J!Done(outcome, retry),
           session' = session \/ session' = Append(session, turn)
    PROVE  JudgeInv'
<1> DEFINE a == [candidate |-> turn, outcome |-> outcome, retry |-> retry, questions |-> questions]
<1>1. artifacts' = Append(artifacts, a) /\ at' = "next" /\ turn' = turn + 1
    BY DEF J!Done
<1>2. a \in Artifact /\ a.candidate = turn
    BY DEF JudgeInv, JudgeTyped, Artifact
<1> HIDE DEF a
<1>3. /\ artifacts' \in Seq(Artifact) /\ Len(artifacts') = Len(artifacts) + 1
      /\ Members(artifacts') = Members(artifacts) \cup {a}
    BY <1>1, <1>2, RangeOfAppend DEF JudgeInv, JudgeTyped
<1>4. ToldOf(artifacts') = ToldOf(artifacts) \cup {turn}
    BY <1>2, <1>3 DEF ToldOf
<1>5. session' \in Seq(Nat) /\ \A c \in Members(session') : c < turn + 1
    <2>1. session \in Seq(Nat) /\ turn \in Nat /\ \A c \in Members(session) : c < turn
        BY DEF JudgeInv, JudgeTyped, ToldInTurn
    <2>2. Members(session) \subseteq Nat
        BY <2>1 DEF Members
    <2>3. /\ Append(session, turn) \in Seq(Nat)
          /\ Members(Append(session, turn)) = Members(session) \cup {turn}
        BY <2>1, RangeOfAppend
    <2>4. CASE session' = session
        BY <2>1, <2>2, <2>4
    <2>5. CASE session' = Append(session, turn)
        BY <2>1, <2>2, <2>3, <2>5
    <2> QED BY <2>4, <2>5
<1>6. /\ turn <= Candidates /\ turn <= MaxPerRun /\ turn \notin Members(stored) /\ turn \in Nat /\ turn - 1 \in Nat
    BY DEF JudgeInv, JudgeTyped, TurnIsDue
<1>7. Due(Members(stored), turn) = Due(Members(stored), turn - 1) \cup {turn} /\ Cardinality(Due(Members(stored), turn)) = Cardinality(Due(Members(stored), turn - 1)) + 1
    <2>1. (turn - 1) + 1 = turn
        BY <1>6
    <2> QED BY <1>6, <2>1, DueOneMore
<1>9. Due(Members(stored'), turn' - 1) = Due(Members(stored), turn)
    <2>1. turn' - 1 = turn
        BY <1>1, <1>6
    <2> QED BY <2>1
<1>10. JudgeTyped'
    BY <1>1, <1>3, <1>5, <1>6 DEF JudgeInv, JudgeTyped
<1>11. ToldInTurn'
    BY <1>1, <1>3, <1>4, <1>5, <1>7, <1>9 DEF JudgeInv, ToldInTurn
<1> QED BY <1>1, <1>10, <1>11 DEF JudgeInv, TurnIsDue, AllTold

\* Every step keeps the invariant.
LEMMA JudgeStep ==
    ASSUME JudgeInv, [J!Next]_J!vars
    PROVE  JudgeInv'
<1>1. ASSUME J!Begin PROVE JudgeInv'
    <2>1. /\ at' = "next" /\ turn' = 1 /\ session' = <<>> /\ artifacts' = <<>>
          /\ UNCHANGED <<stored, steps, questions>>
        BY <1>1 DEF J!Begin, J!told
    <2>2. Due(Members(stored'), turn' - 1) = {} /\ Cardinality({}) = 0
        BY <2>1, FS_EmptySet DEF Due
    <2>3. JudgeTyped'
        BY <2>1, RecordsAssumption DEF RecordsAssumption, JudgeInv, JudgeTyped
    <2>4. ToldInTurn'
        BY <2>1, <2>2, EmptyRange DEF ToldInTurn, ToldOf
    <2> QED BY <2>1, <2>3, <2>4 DEF JudgeInv, TurnIsDue, AllTold
<1>2. ASSUME J!NextCandidate PROVE JudgeInv'
    <2>1. at = "next" /\ UNCHANGED <<stored, session, steps, artifacts>>
        BY <1>2 DEF J!NextCandidate
    <2>2. /\ turn \in Nat \ {0} /\ Candidates \in Nat /\ MaxPerRun \in Nat
        BY RecordsAssumption DEF RecordsAssumption, JudgeInv, JudgeTyped
    <2>3. J!HasRow(turn) <=> turn \in Members(stored)
        <3>1. \A c \in Members(session) : c < turn
            BY <2>1 DEF JudgeInv, ToldInTurn
        <3>2. Members(stored \o session) = Members(stored) \cup Members(session)
            BY RangeOfConcat DEF JudgeInv, JudgeTyped
        <3>3. J!HasRow(turn) <=> turn \in Members(stored \o session)
            BY DEF J!HasRow, J!Range, Members
        <3> QED BY <2>2, <3>1, <3>2, <3>3
    <2>4. CASE turn > Candidates \/ turn > MaxPerRun
        <3>1. at' = "judged" /\ UNCHANGED <<turn, questions>>
            BY <1>2, <2>4 DEF J!NextCandidate, J!told
        <3> QED
            BY <2>1, <2>4, <3>1
               DEF JudgeInv, JudgeTyped, ToldInTurn, TurnIsDue, AllTold
    <2>5. CASE ~(turn > Candidates \/ turn > MaxPerRun) /\ J!HasRow(turn)
        <3>1. at' = "next" /\ turn' = turn + 1 /\ UNCHANGED questions
            BY <1>2, <2>1, <2>5 DEF J!NextCandidate, J!told
        <3>2. Due(Members(stored), turn) = Due(Members(stored), turn - 1)
            <4>1. turn - 1 \in Nat /\ (turn - 1) + 1 = turn
                BY <2>2
            <4> QED BY <2>3, <2>5, <4>1, DueOneMore
        <3>3. turn' - 1 = turn
            BY <2>2, <3>1
        <3>4. Due(Members(stored'), turn' - 1) = Due(Members(stored), turn - 1)
            BY <2>1, <3>2, <3>3
        <3>5. JudgeTyped'
            BY <2>1, <2>2, <2>5, <3>1 DEF JudgeInv, JudgeTyped
        <3>6. \A c \in Members(session') : c < turn'
            <4>1. Members(session) \subseteq Nat
                BY DEF JudgeInv, JudgeTyped, Members
            <4> QED BY <2>1, <2>2, <3>1, <4>1 DEF JudgeInv, ToldInTurn
        <3>7. ToldInTurn'
            BY <2>1, <3>4, <3>6 DEF JudgeInv, ToldInTurn
        <3> QED BY <2>1, <3>1, <3>5, <3>7 DEF JudgeInv, TurnIsDue, AllTold
    <2>6. CASE ~(turn > Candidates \/ turn > MaxPerRun) /\ ~J!HasRow(turn)
        <3>1. at' = "ask" /\ turn' = turn /\ questions' = 0
            BY <1>2, <2>6 DEF J!NextCandidate
        <3> QED
            BY <2>1, <2>2, <2>3, <2>6, <3>1
               DEF JudgeInv, JudgeTyped, ToldInTurn, TurnIsDue, AllTold
    <2> QED BY <2>4, <2>5, <2>6
<1>3. ASSUME J!Ask PROVE JudgeInv'
    BY <1>3 DEF J!Ask, JudgeInv, JudgeTyped, ToldInTurn, TurnIsDue, AllTold
<1>4. ASSUME J!Answers PROVE JudgeInv'
    BY <1>4, DoneKeeps DEF J!Answers, J!Posts, J!Retry
<1>5. ASSUME J!Garbles PROVE JudgeInv'
    <2>1. at = "post" /\ UNCHANGED <<stored, steps, questions, session>>
        BY <1>5 DEF J!Garbles, J!Posts
    <2>2. CASE J!FirstTime
        BY <1>5, <2>1, <2>2
           DEF J!Garbles, JudgeInv, JudgeTyped, ToldInTurn, TurnIsDue, AllTold
    <2>3. CASE ~J!FirstTime
        BY <1>5, <2>1, <2>3, DoneKeeps DEF J!Garbles, J!Retry
    <2> QED BY <2>2, <2>3
<1>6. ASSUME J!Unsupported PROVE JudgeInv'
    BY <1>6 DEF J!Unsupported, J!Posts, JudgeInv, JudgeTyped, ToldInTurn, TurnIsDue, AllTold
<1>7. ASSUME J!Fails PROVE JudgeInv'
    BY <1>7, DoneKeeps DEF J!Fails, J!Posts, J!GivenUp
<1>8. ASSUME J!Commit PROVE JudgeInv'
    <2> DEFINE s == [had |-> Members(stored), told |-> artifacts]
    <2>1. /\ at = "judged" /\ at' = "committed" /\ stored' = stored \o session /\ session' = <<>>
          /\ steps' = Append(steps, s) /\ UNCHANGED <<turn, artifacts, questions>>
        BY <1>8 DEF J!Commit, J!told, J!Range, Members
    <2>2. s \in [had : SUBSET Nat, told : Seq(Artifact)]
        BY DEF JudgeInv, JudgeTyped, Members
    <2>3. {c \in 1..Candidates : c <= MaxPerRun /\ c \notin Members(stored)} = Due(Members(stored), turn - 1)
        <3>1. turn > Candidates \/ turn > MaxPerRun
            BY <2>1 DEF JudgeInv, TurnIsDue
        <3>2. /\ turn \in Nat /\ turn - 1 <= Candidates /\ turn - 1 <= MaxPerRun
              /\ Candidates \in Nat /\ MaxPerRun \in Nat
            BY RecordsAssumption DEF RecordsAssumption, JudgeInv, JudgeTyped
        <3> QED BY <3>1, <3>2 DEF Due
    <2>4. Tells(s)
        BY <2>1, <2>3 DEF JudgeInv, ToldInTurn, Tells
    <2> HIDE DEF s
    <2>5. steps' \in Seq([had : SUBSET Nat, told : Seq(Artifact)]) /\ Members(steps') = Members(steps) \cup {s}
        <3> DEFINE Values == [had : SUBSET Nat, told : Seq(Artifact)]
        <3>1. s \in Values /\ steps \in Seq(Values)
            BY <2>2 DEF JudgeInv, JudgeTyped
        <3> HIDE DEF Values
        <3>2. Append(steps, s) \in Seq(Values) /\ Members(Append(steps, s)) = Members(steps) \cup {s}
            BY <3>1, RangeOfAppend
        <3> QED BY <2>1, <3>2 DEF Values
    <2>6. AllTold'
        BY <2>4, <2>5 DEF JudgeInv, AllTold
    <2>7. stored' \in Seq(Nat)
        BY <2>1, RangeOfConcat DEF JudgeInv, JudgeTyped
    <2> QED
        BY <2>1, <2>5, <2>6, <2>7 DEF JudgeInv, JudgeTyped, ToldInTurn, TurnIsDue
<1>9. ASSUME J!HandOver \/ J!TryAgain PROVE JudgeInv'
    <2>1. /\ at' \in {"over", "begin"}
          /\ UNCHANGED <<stored, session, turn, artifacts, steps, questions>>
        BY <1>9 DEF J!HandOver, J!TryAgain, J!told
    <2> QED BY <2>1 DEF JudgeInv, JudgeTyped, ToldInTurn, TurnIsDue, AllTold
<1>10. CASE UNCHANGED J!vars
    BY <1>10 DEF J!vars, J!place, J!told, JudgeInv, JudgeTyped, ToldInTurn, TurnIsDue, AllTold
<1> QED
    BY <1>1, <1>2, <1>3, <1>4, <1>5, <1>6, <1>7, <1>8, <1>9, <1>10 DEF J!Next

-----------------------------------------------------------------------------
(* The trace and its check run.                                            *)

Places == {"none", "index", "opening", "claim", "indexing", "review", "reviewing", "reviewed",
           "reconcile", "reconciled", "resolve", "publish", "flushed", "over"}

Says == {"progress", "published", "failure", "neutral"}

TraceTyped ==
    /\ DOMAIN worker = {"at", "left", "piped"} /\ worker.at \in Places
    /\ hook \in [at : {"begun", "queued", "done"}, check : Nat]
    /\ check \in Seq(Says)
    /\ saved \in 0..Len(check) /\ target \in 0..Len(check) /\ hook.check \in 0..Len(check)

\* Before its webhook has committed there is nothing.
HookFirst ==
    /\ hook.at = "done" <=> worker.at # "none"
    /\ worker.at = "none" => push = "none" /\ reviewRun = "none" /\ pub = "none"

\* The push that supersedes a row has told the check, and is the last one.
Neutral ==
    /\ T!Held \/ job = "superseded" \/ reviewRun = "superseded" =>
           (saved # 0 => check[saved] = "neutral")
    /\ job = "superseded" \/ reviewRun = "superseded" => push = "done"

Concluded ==
    saved # 0 =>
        /\ check[saved] # "progress"
        /\ (check[saved] = "published") <=> (pub = "completed")
        /\ "failed" \in {job, reviewRun, pub} => check[saved] = "failure"
        /\ pub = "skipped" => check[saved] = "neutral"

\* The rows, the push and the check for every place of the task, if nothing excuses it.
Indexing ==
    /\ worker.at \in {"opening", "claim", "indexing"} => worker.piped
    /\ worker.at \in {"index", "opening", "claim"} =>
           job \in {"pending", "superseded"} /\ reviewRun = "none" /\ pub = "none" /\ Neutral
    /\ worker.at = "indexing" =>
           job = "pending" /\ reviewRun = "none" /\ pub = "none" /\ ~T!Held

Reviewing ==
    /\ worker.at \in {"review", "reviewing"} =>
           /\ job = "completed" /\ pub = "none" /\ Neutral
           /\ reviewRun \in {"pending", "processing", "completed", "superseded"}
           /\ reviewRun = "completed" => ~T!Held
    /\ worker.at \in {"reviewed", "reconcile", "reconciled", "resolve"} =>
           job = "completed" /\ reviewRun = "completed" /\ pub = "none" /\ ~T!Held

Publishing ==
    /\ worker.at \in {"publish", "flushed"} =>
           /\ job = "completed" /\ reviewRun = "completed" /\ pub = "pending" /\ ~T!Held
           /\ saved # 0 => target = saved
    /\ worker.at = "flushed" => target # 0 /\ check[target] = "published"

AllOver ==
    worker.at = "over" =>
        job # "pending" /\ reviewRun \notin {"pending", "processing"} /\ ~T!Held /\ Concluded

Placed == Indexing /\ Reviewing /\ Publishing /\ AllOver

TraceInv == TraceTyped /\ HookFirst /\ (excuse = {} => Placed)

LEMMA TraceInit == T!Init => TraceInv
BY DEF T!Init, TraceInv, TraceTyped, Places, HookFirst, Placed, Indexing, Reviewing, Publishing, AllOver

\* The check run says what it was told, unless GitHub did not answer.
LEMMA TellFacts ==
    ASSUME TraceTyped, NEW what \in Says, T!Tell(saved, what)
    PROVE  /\ check' \in Seq(Says) /\ Len(check') = Len(check)
           /\ excuse' = {} => /\ excuse = {}
                              /\ saved # 0 => check'[saved] = what
<1>1. CASE UNCHANGED <<check, failures, excuse>> /\ saved = 0
    BY <1>1 DEF TraceTyped
<1>2. CASE saved # 0 /\ check' = [check EXCEPT ![saved] = what] /\ excuse' = excuse
    <2>1. saved \in DOMAIN check
        BY <1>2 DEF TraceTyped
    <2> QED BY <1>2, <2>1 DEF TraceTyped
<1>3. CASE excuse' = excuse \cup {"unanswered"} /\ check' = check
    BY <1>3 DEF TraceTyped
<1> QED BY <1>1, <1>2, <1>3 DEF T!Tell, T!told

\* The rows and the push of a task that ends and tells the check so.
EndsAs(what) ==
    /\ job # "pending" /\ reviewRun \notin {"pending", "processing"} /\ ~T!Held
    /\ what # "progress" /\ what # "published" /\ pub # "completed"
    /\ job = "failed" \/ reviewRun = "failed" \/ pub = "failed" => what = "failure"
    /\ pub = "skipped" => what = "neutral"

\* Opening a check run.
LEMMA CreateFacts ==
    ASSUME TraceTyped, NEW id, T!Create(id)
    PROVE  check' \in Seq(Says) /\ Len(check) <= Len(check') /\ id \in 0..Len(check')
<1>1. /\ Append(check, "progress") \in Seq(Says) /\ Len(Append(check, "progress")) = Len(check) + 1
      /\ Len(check) \in Nat
    BY DEF TraceTyped, Says
<1>2. CASE check' = Append(check, "progress") /\ id = Len(check) + 1
    BY <1>1, <1>2
<1>3. CASE check' \in {check, Append(check, "progress")} /\ id = 0
    BY <1>1, <1>3 DEF TraceTyped
<1> QED BY <1>2, <1>3 DEF T!Create

\* A task that ends tells the check what its rows say.
LEMMA TaskEnds ==
    ASSUME TraceInv, worker.at # "none", worker' = [worker EXCEPT !.at = "over"],
           UNCHANGED <<hook, push, saved, target>>,
           NEW what \in Says, T!Tell(saved, what),
           excuse = {} => EndsAs(what)'
    PROVE  TraceInv'
<1>1. worker'.at = "over" /\ DOMAIN worker' = DOMAIN worker
    BY DEF TraceInv, TraceTyped
<1>2. /\ check' \in Seq(Says) /\ Len(check') = Len(check)
      /\ excuse' = {} => excuse = {} /\ (saved # 0 => check'[saved] = what)
    BY TellFacts DEF TraceInv
<1>3. TraceTyped'
    BY <1>1, <1>2 DEF TraceInv, TraceTyped, Places
<1>4. HookFirst'
    BY <1>1 DEF TraceInv, HookFirst
<1>5. excuse' = {} => Placed'
    BY <1>1, <1>2 DEF EndsAs, Placed, Indexing, Reviewing, Publishing, AllOver, Concluded, T!Held
<1> QED BY <1>3, <1>4, <1>5 DEF TraceInv

\* A step on which the check is left as it is, and so is the webhook.
LEMMA TaskMoves ==
    ASSUME TraceInv, worker.at # "none", DOMAIN worker' = DOMAIN worker, worker'.at \in Places \ {"none"},
           UNCHANGED <<hook, check, saved>>, target' \in {target, saved},
           excuse \subseteq excuse', excuse' = {} => Placed'
    PROVE  TraceInv'
BY DEF TraceInv, TraceTyped, HookFirst

\* A step of a task from one place to another, or to its end.
LEMMA WorkerAt ==
    ASSUME TraceTyped, NEW a \in Places
    PROVE  /\ T!Goes(a) \/ T!Starts(a) => worker'.at = a /\ DOMAIN worker' = DOMAIN worker
           /\ T!Goes(a) \/ T!Starts(a) => worker'.piped = worker.piped
BY DEF TraceTyped, T!Goes, T!Starts

LEMMA WorkerRetries ==
    ASSUME TraceTyped, NEW ats, NEW a \in Places, T!Retries(ats, a)
    PROVE  worker.at \in ats /\ worker'.at = a /\ DOMAIN worker' = DOMAIN worker /\ worker'.piped = worker.piped
BY DEF TraceTyped, T!Retries

LEMMA HookKeeps == ASSUME TraceInv, T!Provision \/ T!CommitHook \/ T!AbortHook PROVE TraceInv'
<1>1. ASSUME T!Provision PROVE TraceInv'
    <2>1. PICK id \in 0..(Len(check) + 1) : T!Create(id) /\ hook' = [at |-> "queued", check |-> id]
        BY <1>1 DEF T!Provision
    <2>2. UNCHANGED <<push, job, reviewRun, pub, worker, saved, target, excuse>> /\ hook.at = "begun"
        BY <1>1 DEF T!Provision, T!rows, T!trace
    <2>3. check' \in Seq(Says) /\ Len(check) <= Len(check') /\ id \in 0..Len(check')
        BY <2>1, CreateFacts DEF TraceInv
    <2>4. TraceTyped'
        BY <2>1, <2>2, <2>3 DEF TraceInv, TraceTyped
    <2>5. worker.at = "none"
        BY <2>2 DEF TraceInv, HookFirst
    <2> QED
        BY <2>1, <2>2, <2>4, <2>5
           DEF TraceInv, HookFirst, Placed, Indexing, Reviewing, Publishing, AllOver
<1>2. ASSUME T!CommitHook PROVE TraceInv'
    <2>1. /\ hook.at = "queued" /\ hook' = [hook EXCEPT !.at = "done"] /\ job' = "pending"
          /\ saved' = hook.check /\ T!Starts("index")
          /\ UNCHANGED <<push, reviewRun, pub, target, check, excuse>>
        BY <1>2 DEF T!CommitHook, T!told
    <2>2. worker'.at = "index" /\ DOMAIN worker' = DOMAIN worker
        BY <2>1, WorkerAt DEF TraceInv, Places
    <2>3. worker.at = "none" /\ push = "none" /\ reviewRun = "none" /\ pub = "none"
        BY <2>1 DEF TraceInv, HookFirst
    <2>4. TraceTyped' /\ hook'.at = "done"
        BY <2>1, <2>2 DEF TraceInv, TraceTyped, Places
    <2> QED
        BY <2>1, <2>2, <2>3, <2>4
           DEF TraceInv, HookFirst, Placed, Indexing, Reviewing, Publishing, AllOver, Neutral, T!Held
<1>3. ASSUME T!AbortHook PROVE TraceInv'
    <2>1. /\ hook.at = "queued" /\ hook' = [at |-> "begun", check |-> 0]
          /\ UNCHANGED <<push, job, reviewRun, pub, worker, saved, target, check, excuse>>
        BY <1>3 DEF T!AbortHook, T!rows, T!trace
    <2>2. worker.at = "none"
        BY <2>1 DEF TraceInv, HookFirst
    <2>3. TraceTyped'
        BY <2>1 DEF TraceInv, TraceTyped
    <2> QED
        BY <2>1, <2>2, <2>3 DEF TraceInv, HookFirst, Placed, Indexing, Reviewing, Publishing, AllOver
<1> QED BY <1>1, <1>2, <1>3

LEMMA OpenCheckKeeps == ASSUME TraceInv, T!OpenCheck PROVE TraceInv'
<1>1. /\ worker.at = "opening" /\ T!Goes("claim")
      /\ UNCHANGED <<hook, push, job, reviewRun, pub, target>>
    BY DEF T!OpenCheck, T!pull, T!rows
<1>2. worker'.at = "claim" /\ DOMAIN worker' = DOMAIN worker /\ worker'.piped = worker.piped
    BY <1>1, WorkerAt DEF TraceInv, Places
<1>3. CASE UNCHANGED <<saved, check, excuse>>
    <2>1. excuse = {} => Placed'
        BY <1>1, <1>2, <1>3
           DEF TraceInv, Placed, Indexing, Reviewing, Publishing, AllOver, Neutral, T!Held
    <2> QED BY <1>1, <1>2, <1>3, <2>1, TaskMoves DEF Places
<1>4. CASE T!Reopen
    <2>1. check' \in Seq(Says) /\ saved' \in 0..Len(check') /\ Len(check) <= Len(check')
        <3>1. CASE saved = 0 /\ T!Create(saved')
            BY <3>1, CreateFacts DEF TraceInv
        <3>2. CASE saved # 0 /\ check' = [check EXCEPT ![saved] = "progress"] /\ saved' = saved
            <4>1. Len(check') = Len(check) /\ check' \in Seq(Says)
                BY <3>2 DEF TraceInv, TraceTyped, Says
            <4> QED BY <3>2, <4>1 DEF TraceInv, TraceTyped
        <3>3. CASE UNCHANGED <<saved, check>>
            BY <3>3 DEF TraceInv, TraceTyped
        <3> QED BY <1>4, <3>1, <3>2, <3>3 DEF T!Reopen
    <2>2. TraceTyped'
        BY <1>1, <1>2, <2>1 DEF TraceInv, TraceTyped, Places
    <2>3. excuse' = {} => excuse = {} /\ ~T!Held /\ job # "superseded"
        BY <1>4 DEF T!Reopen
    <2>4. excuse' = {} => Placed'
        BY <1>1, <1>2, <2>3
           DEF TraceInv, Placed, Indexing, Reviewing, Publishing, AllOver, Neutral, T!Held
    <2> QED BY <1>1, <1>2, <2>2, <2>4 DEF TraceInv, HookFirst
<1> QED BY <1>3, <1>4 DEF T!OpenCheck, T!told

LEMMA IndexKeeps == ASSUME TraceInv, T!IndexStep PROVE TraceInv'
<1>1. ASSUME T!BeginIndex PROVE TraceInv'
    <2>1. /\ worker.at = "index"
          /\ UNCHANGED <<hook, push, job, reviewRun, pub, saved, target, check>>
          /\ excuse' = excuse \cup IF job = "pending" /\ ~head THEN {"not head"} ELSE {}
        BY <1>1 DEF T!BeginIndex, T!pull, T!rows, T!trace
    <2>2. CASE job # "pending"
        <3>1. worker'.at = "over" /\ DOMAIN worker' = DOMAIN worker
            BY <1>1, <2>2, WorkerAt DEF T!BeginIndex, T!Ends, TraceInv, Places
        <3>2. excuse = {} => Placed'
            <4> SUFFICES ASSUME excuse = {} PROVE Placed'
                OBVIOUS
            <4>1. job = "superseded" /\ reviewRun = "none" /\ pub = "none" /\ Neutral
                BY <2>1, <2>2 DEF TraceInv, Placed, Indexing
            <4> QED
                BY <2>1, <3>1, <4>1
                   DEF Placed, Indexing, Reviewing, Publishing, AllOver, Concluded, Neutral, T!Held
        <3> QED BY <2>1, <2>2, <3>1, <3>2, TaskMoves DEF Places
    <2>3. CASE job = "pending"
        <3>1. worker' = [worker EXCEPT !.at = IF head THEN "opening" ELSE "claim", !.piped = head]
            BY <1>1, <2>3 DEF T!BeginIndex
        <3>2. /\ worker'.at \in {"opening", "claim"} /\ DOMAIN worker' = DOMAIN worker
              /\ worker'.piped = head
            BY <3>1 DEF TraceInv, TraceTyped
        <3>3. excuse' = {} => Placed'
            BY <2>1, <2>3, <3>2
               DEF TraceInv, Placed, Indexing, Reviewing, Publishing, AllOver, Neutral, T!Held
        <3> QED BY <2>1, <3>2, <3>3, TaskMoves DEF Places
    <2> QED BY <2>2, <2>3
<1>2. ASSUME T!ClaimIndex PROVE TraceInv'
    <2>1. /\ worker.at = "claim" /\ ~T!Held
          /\ UNCHANGED <<hook, push, job, reviewRun, pub, saved, target>>
        BY <1>2 DEF T!ClaimIndex, T!pull, T!rows, T!trace
    <2>2. CASE job = "pending"
        <3>1. worker'.at = "indexing" /\ DOMAIN worker' = DOMAIN worker /\ worker'.piped = worker.piped
            BY <1>2, <2>2, WorkerAt DEF T!ClaimIndex, TraceInv, Places
        <3>2. UNCHANGED <<check, excuse>>
            BY <1>2, <2>2 DEF T!ClaimIndex, T!told
        <3>3. excuse = {} => Placed'
            BY <2>1, <2>2, <3>1
               DEF TraceInv, Placed, Indexing, Reviewing, Publishing, AllOver, Neutral, T!Held
        <3> QED BY <2>1, <3>1, <3>2, <3>3, TaskMoves DEF Places
    <2>3. CASE job # "pending" /\ worker.piped
        <3>1. T!Tell(saved, "failure") /\ worker' = [worker EXCEPT !.at = "over"]
            BY <1>2, <2>3 DEF T!ClaimIndex, T!Ends, T!Goes
        <3>2. excuse = {} => EndsAs("failure")'
            BY <2>1, <2>3 DEF TraceInv, Placed, Indexing, EndsAs, T!Held
        <3> QED BY <2>1, <3>1, <3>2, TaskEnds DEF Says
    <2>4. CASE job # "pending" /\ ~worker.piped
        <3>1. worker' = [worker EXCEPT !.at = "over"] /\ UNCHANGED <<check, excuse>>
            BY <1>2, <2>4 DEF T!ClaimIndex, T!Ends, T!Goes, T!Tell, T!told
        <3>2. worker'.at = "over" /\ DOMAIN worker' = DOMAIN worker
            BY <3>1 DEF TraceInv, TraceTyped
        <3>3. excuse # {}
            BY <2>1, <2>4 DEF TraceInv, Placed, Indexing
        <3> QED BY <2>1, <3>1, <3>2, <3>3, TaskMoves DEF Places
    <2> QED BY <2>2, <2>3, <2>4
<1>3. ASSUME NEW what \in {"failure", "neutral"}, worker.at = "indexing", T!NoReview(what),
             UNCHANGED <<hook, push, reviewRun, pub, saved, target>>,
             job' \in {"failed", "completed"}, job' = "failed" => what = "failure"
      PROVE  TraceInv'
    <2>1. worker' = [worker EXCEPT !.at = "over"]
        BY <1>3 DEF T!NoReview, T!Ends, T!Goes
    <2>2. CASE worker.piped
        <3>1. T!Tell(saved, what)
            BY <1>3, <2>2 DEF T!NoReview
        <3>2. excuse = {} => EndsAs(what)'
            BY <1>3 DEF TraceInv, Placed, Indexing, EndsAs, T!Held
        <3> QED BY <1>3, <2>1, <3>1, <3>2, TaskEnds DEF Says
    <2>3. CASE ~worker.piped
        <3>1. UNCHANGED <<check, excuse>>
            BY <1>3, <2>3 DEF T!NoReview, T!Tell, T!told
        <3>2. worker'.at = "over" /\ DOMAIN worker' = DOMAIN worker
            BY <2>1 DEF TraceInv, TraceTyped
        <3>3. excuse # {}
            BY <1>3, <2>3 DEF TraceInv, Placed, Indexing
        <3> QED BY <1>3, <3>1, <3>2, <3>3, TaskMoves DEF Places
    <2> QED BY <2>2, <2>3
<1>4. ASSUME T!IndexFailed \/ T!NotReviewable \/ T!ReviewRefused PROVE TraceInv'
    <2>1. CASE T!IndexFailed
        BY <1>3, <2>1 DEF T!IndexFailed, T!pull, T!trace
    <2>2. CASE T!NotReviewable
        BY <1>3, <2>2 DEF T!NotReviewable, T!Indexed, T!pull, T!trace
    <2>3. CASE T!ReviewRefused
        BY <1>3, <2>3 DEF T!ReviewRefused, T!Indexed, T!pull, T!trace
    <2> QED BY <1>4, <2>1, <2>2, <2>3
<1>5. ASSUME T!StartsReview PROVE TraceInv'
    <2>1. /\ worker.at = "indexing" /\ job' = "completed" /\ reviewRun' = "pending"
          /\ UNCHANGED <<hook, push, pub, saved, target, check, excuse>>
        BY <1>5 DEF T!StartsReview, T!Indexed, T!pull, T!trace, T!told
    <2>2. worker'.at = "review" /\ DOMAIN worker' = DOMAIN worker
        BY <1>5, WorkerAt DEF T!StartsReview, TraceInv, Places
    <2>3. excuse = {} => Placed'
        BY <2>1, <2>2 DEF TraceInv, Placed, Indexing, Reviewing, Publishing, AllOver, Neutral, T!Held
    <2> QED BY <2>1, <2>2, <2>3, TaskMoves DEF Places
<1>6. ASSUME T!ReviewConflicts PROVE TraceInv'
    <2>1. /\ worker.at = "indexing" /\ excuse' = excuse \cup {"conflict"}
          /\ UNCHANGED <<hook, push, pub, saved, target, check>>
        BY <1>6 DEF T!ReviewConflicts, T!Indexed, T!pull, T!trace
    <2>2. worker'.at = "over" /\ DOMAIN worker' = DOMAIN worker
        BY <1>6, WorkerAt DEF T!ReviewConflicts, T!Ends, TraceInv, Places
    <2>3. excuse' # {} /\ excuse \subseteq excuse'
        BY <2>1
    <2> QED BY <2>1, <2>2, <2>3, TaskMoves DEF Places
<1>7. ASSUME T!RetryIndex PROVE TraceInv'
    <2>1. /\ worker.at \in {"opening", "claim", "indexing"}
          /\ worker'.at = "index" /\ DOMAIN worker' = DOMAIN worker
        BY <1>7, WorkerRetries DEF T!RetryIndex, TraceInv, Places
    <2>2. UNCHANGED <<hook, push, job, reviewRun, pub, saved, target, check, excuse>>
        BY <1>7 DEF T!RetryIndex, T!pull, T!rows, T!trace, T!told
    <2>3. excuse = {} => Placed'
        BY <2>1, <2>2 DEF TraceInv, Placed, Indexing, Reviewing, Publishing, AllOver, Neutral, T!Held
    <2> QED BY <2>1, <2>2, <2>3, TaskMoves DEF Places
<1>8. ASSUME T!MarkIndexFailed PROVE TraceInv'
    <2>1. /\ worker.at \in {"opening", "claim", "indexing"} /\ ~T!Held
          /\ job' = IF job = "superseded" THEN job ELSE "failed"
          /\ worker' = [worker EXCEPT !.at = "over"] /\ T!Tell(saved, "failure")
          /\ UNCHANGED <<hook, push, reviewRun, pub, saved, target>>
        BY <1>8 DEF T!MarkIndexFailed, T!Ends, T!Goes, T!pull, T!trace
    <2>2. excuse = {} => EndsAs("failure")'
        BY <2>1 DEF TraceInv, Placed, Indexing, EndsAs, T!Held
    <2> QED BY <2>1, <2>2, TaskEnds DEF Says
<1> QED BY <1>1, <1>2, <1>4, <1>5, <1>6, <1>7, <1>8, OpenCheckKeeps DEF T!IndexStep

LEMMA ReviewKeeps == ASSUME TraceInv, T!ReviewStep PROVE TraceInv'
<1>1. ASSUME T!StartReview PROVE TraceInv'
    <2>1. worker.at = "review" /\ worker'.at = "reviewing" /\ DOMAIN worker' = DOMAIN worker
        BY <1>1, WorkerAt DEF T!StartReview, TraceInv, Places
    <2>2. ~T!Held /\ reviewRun \in {"pending", "processing"} /\ reviewRun' = "processing"
          /\ UNCHANGED <<hook, push, job, pub, saved, target, check, excuse>>
        BY <1>1 DEF T!StartReview, T!pull, T!rows, T!trace, T!told
    <2>3. excuse = {} => Placed'
        BY <2>1, <2>2 DEF TraceInv, Placed, Indexing, Reviewing, Publishing, AllOver, Neutral, T!Held
    <2> QED BY <2>1, <2>2, <2>3, TaskMoves DEF Places
<1>2. ASSUME T!SkipReview PROVE TraceInv'
    <2>1. /\ worker.at \in {"review", "reviewing"} /\ reviewRun = "superseded"
          /\ UNCHANGED <<hook, push, job, reviewRun, pub, saved, target, check, excuse>>
        BY <1>2 DEF T!SkipReview, T!pull, T!rows, T!trace, T!told
    <2>2. worker'.at = "over" /\ DOMAIN worker' = DOMAIN worker
        BY <1>2, WorkerAt DEF T!SkipReview, T!Ends, TraceInv, Places
    <2>3. excuse = {} => Placed'
        BY <2>1, <2>2
           DEF TraceInv, Placed, Indexing, Reviewing, Publishing, AllOver, Concluded, Neutral, T!Held
    <2> QED BY <2>1, <2>2, <2>3, TaskMoves DEF Places
<1>3. ASSUME T!CompleteReview PROVE TraceInv'
    <2>1. /\ worker.at \in {"review", "reviewing"} /\ ~T!Held /\ reviewRun' = "completed"
          /\ UNCHANGED <<hook, push, job, pub, saved, target, check, excuse>>
        BY <1>3 DEF T!CompleteReview, T!pull, T!told
    <2>2. worker'.at = "reviewed" /\ DOMAIN worker' = DOMAIN worker
        BY <1>3, WorkerAt DEF T!CompleteReview, TraceInv, Places
    <2>3. excuse = {} => Placed'
        BY <2>1, <2>2 DEF TraceInv, Placed, Indexing, Reviewing, Publishing, AllOver, Neutral, T!Held
    <2> QED BY <2>1, <2>2, <2>3, TaskMoves DEF Places
<1>4. ASSUME T!ReviewFails PROVE TraceInv'
    <2>1. /\ worker.at \in {"reviewing"} /\ T!Tell(saved, "failure") /\ worker' = [worker EXCEPT !.at = "over"]
          /\ ~T!Held /\ reviewRun' = "failed" /\ UNCHANGED <<hook, push, job, pub, saved, target>>
        BY <1>4 DEF T!ReviewFails, T!Ends, T!Goes, T!pull
    <2>2. excuse = {} => EndsAs("failure")'
        BY <2>1 DEF TraceInv, Placed, Reviewing, EndsAs, T!Held
    <2> QED BY <2>1, <2>2, TaskEnds DEF Says
<1>5. ASSUME T!MarkReviewFailed PROVE TraceInv'
    <2>1. /\ worker.at \in {"review", "reviewing", "reviewed"} /\ T!Tell(saved, "failure") /\ worker' = [worker EXCEPT !.at = "over"]
          /\ ~T!Held /\ reviewRun' \in {"failed", "completed"}
          /\ UNCHANGED <<hook, push, job, pub, saved, target>>
        BY <1>5 DEF T!MarkReviewFailed, T!Ends, T!Goes, T!pull, T!trace
    <2>2. excuse = {} => EndsAs("failure")'
        BY <2>1 DEF TraceInv, Placed, Reviewing, EndsAs, T!Held
    <2> QED BY <2>1, <2>2, TaskEnds DEF Says
<1>6. ASSUME T!ReconcileFailed PROVE TraceInv'
    <2>1. /\ worker.at \in {"reconcile", "reconciled"} /\ T!Tell(saved, "failure") /\ worker' = [worker EXCEPT !.at = "over"]
          /\ UNCHANGED <<hook, push, job, reviewRun, pub, saved, target>>
        BY <1>6 DEF T!ReconcileFailed, T!Ends, T!Goes, T!pull, T!rows, T!trace
    <2>2. excuse = {} => EndsAs("failure")'
        BY <2>1 DEF TraceInv, Placed, Reviewing, EndsAs, T!Held
    <2> QED BY <2>1, <2>2, TaskEnds DEF Says
<1>7. ASSUME T!RetryReview PROVE TraceInv'
    <2>1. worker.at \in {"reviewing", "reviewed"} /\ worker'.at = "review" /\ DOMAIN worker' = DOMAIN worker
        BY <1>7, WorkerRetries DEF T!RetryReview, TraceInv, Places
    <2>2. UNCHANGED <<hook, push, job, reviewRun, pub, saved, target, check, excuse>>
        BY <1>7 DEF T!RetryReview, T!pull, T!rows, T!trace, T!told
    <2>3. excuse = {} => Placed'
        BY <2>1, <2>2 DEF TraceInv, Placed, Indexing, Reviewing, Publishing, AllOver, Neutral, T!Held
    <2> QED BY <2>1, <2>2, <2>3, TaskMoves DEF Places
<1>8. ASSUME T!RetryReconcile PROVE TraceInv'
    <2>1. worker.at \in {"reconcile", "reconciled"} /\ worker'.at = "reconcile" /\ DOMAIN worker' = DOMAIN worker
        BY <1>8, WorkerRetries DEF T!RetryReconcile, TraceInv, Places
    <2>2. UNCHANGED <<hook, push, job, reviewRun, pub, saved, target, check, excuse>>
        BY <1>8 DEF T!RetryReconcile, T!pull, T!rows, T!trace, T!told
    <2>3. excuse = {} => Placed'
        BY <2>1, <2>2 DEF TraceInv, Placed, Indexing, Reviewing, Publishing, AllOver, Neutral, T!Held
    <2> QED BY <2>1, <2>2, <2>3, TaskMoves DEF Places
<1>9. ASSUME T!HandToReconcile PROVE TraceInv'
    <2>1. worker.at = "reviewed" /\ worker'.at = "reconcile" /\ DOMAIN worker' = DOMAIN worker
        BY <1>9, WorkerAt DEF T!HandToReconcile, TraceInv, Places
    <2>2. UNCHANGED <<hook, push, job, reviewRun, pub, saved, target, check, excuse>>
        BY <1>9 DEF T!HandToReconcile, T!pull, T!rows, T!trace, T!told
    <2>3. excuse = {} => Placed'
        BY <2>1, <2>2 DEF TraceInv, Placed, Indexing, Reviewing, Publishing, AllOver, Neutral, T!Held
    <2> QED BY <2>1, <2>2, <2>3, TaskMoves DEF Places
<1>10. ASSUME T!Reconcile PROVE TraceInv'
    <2>1. worker.at = "reconcile" /\ worker'.at = "reconciled" /\ DOMAIN worker' = DOMAIN worker
        BY <1>10, WorkerAt DEF T!Reconcile, TraceInv, Places
    <2>2. UNCHANGED <<hook, push, job, reviewRun, pub, saved, target, check, excuse>>
        BY <1>10 DEF T!Reconcile, T!pull, T!rows, T!trace, T!told
    <2>3. excuse = {} => Placed'
        BY <2>1, <2>2 DEF TraceInv, Placed, Indexing, Reviewing, Publishing, AllOver, Neutral, T!Held
    <2> QED BY <2>1, <2>2, <2>3, TaskMoves DEF Places
<1>11. ASSUME T!HandToPublish PROVE TraceInv'
    <2>1. worker.at = "reconciled" /\ worker'.at = "resolve" /\ DOMAIN worker' = DOMAIN worker
        BY <1>11, WorkerAt DEF T!HandToPublish, TraceInv, Places
    <2>2. UNCHANGED <<hook, push, job, reviewRun, pub, saved, target, check, excuse>>
        BY <1>11 DEF T!HandToPublish, T!pull, T!rows, T!trace, T!told
    <2>3. excuse = {} => Placed'
        BY <2>1, <2>2 DEF TraceInv, Placed, Indexing, Reviewing, Publishing, AllOver, Neutral, T!Held
    <2> QED BY <2>1, <2>2, <2>3, TaskMoves DEF Places
<1> QED
    BY <1>1, <1>2, <1>3, <1>4, <1>5, <1>6, <1>7, <1>8, <1>9, <1>10, <1>11 DEF T!ReviewStep

LEMMA PublishKeeps == ASSUME TraceInv, T!PublishStep PROVE TraceInv'
<1>1. ASSUME T!InsertPublish PROVE TraceInv'
    <2>1. worker.at = "resolve" /\ worker'.at = "publish" /\ DOMAIN worker' = DOMAIN worker
        BY <1>1, WorkerAt DEF T!InsertPublish, TraceInv, Places
    <2>2. pub' = "pending" /\ target' = saved /\ UNCHANGED <<hook, push, job, reviewRun, saved, check, excuse>>
        BY <1>1 DEF T!InsertPublish, T!pull, T!rows, T!trace, T!told
    <2>3. excuse = {} => Placed'
        BY <2>1, <2>2 DEF TraceInv, Placed, Indexing, Reviewing, Publishing, AllOver, Neutral, T!Held
    <2> QED BY <2>1, <2>2, <2>3, TaskMoves DEF Places
<1>2. ASSUME T!RetryResolve PROVE TraceInv'
    <2>1. worker.at \in {"resolve"} /\ worker'.at = "resolve" /\ DOMAIN worker' = DOMAIN worker
        BY <1>2, WorkerRetries DEF T!RetryResolve, TraceInv, Places
    <2>2. UNCHANGED <<hook, push, job, reviewRun, pub, saved, target, check, excuse>>
        BY <1>2 DEF T!RetryResolve, T!pull, T!rows, T!trace, T!told
    <2>3. excuse = {} => Placed'
        BY <2>1, <2>2 DEF TraceInv, Placed, Indexing, Reviewing, Publishing, AllOver, Neutral, T!Held
    <2> QED BY <2>1, <2>2, <2>3, TaskMoves DEF Places
<1>3. ASSUME T!ResolveFailed PROVE TraceInv'
    <2>1. /\ worker.at = "resolve" /\ excuse' = excuse \cup {"no publish job"}
          /\ UNCHANGED <<hook, saved, target, check>>
        BY <1>3 DEF T!ResolveFailed, T!pull, T!trace
    <2>2. worker'.at = "over" /\ DOMAIN worker' = DOMAIN worker
        BY <1>3, WorkerAt DEF T!ResolveFailed, T!Ends, TraceInv, Places
    <2>3. excuse' # {} /\ excuse \subseteq excuse'
        BY <2>1
    <2> QED BY <2>1, <2>2, <2>3, TaskMoves DEF Places
<1>4. ASSUME T!SkipPublish PROVE TraceInv'
    <2>1. /\ worker.at \in {"publish", "flushed"} /\ T!Tell(saved, "neutral") /\ worker' = [worker EXCEPT !.at = "over"]
          /\ pub' = "skipped" /\ UNCHANGED <<hook, push, job, reviewRun, saved, target>>
        BY <1>4 DEF T!SkipPublish, T!Ends, T!Goes, T!pull
    <2>2. excuse = {} => EndsAs("neutral")'
        BY <2>1 DEF TraceInv, Placed, Publishing, EndsAs, T!Held
    <2> QED BY <2>1, <2>2, TaskEnds DEF Says
<1>5. ASSUME T!PublishFailed PROVE TraceInv'
    <2>1. /\ worker.at \in {"publish", "flushed"} /\ T!Tell(saved, "failure") /\ worker' = [worker EXCEPT !.at = "over"]
          /\ pub' = "failed" /\ UNCHANGED <<hook, push, job, reviewRun, saved, target>>
        BY <1>5 DEF T!PublishFailed, T!Ends, T!Goes, T!pull, T!trace
    <2>2. excuse = {} => EndsAs("failure")'
        BY <2>1 DEF TraceInv, Placed, Publishing, EndsAs, T!Held
    <2> QED BY <2>1, <2>2, TaskEnds DEF Says
<1>6. ASSUME T!RetryPublish PROVE TraceInv'
    <2>1. worker.at \in {"publish", "flushed"} /\ worker'.at = "publish" /\ DOMAIN worker' = DOMAIN worker
        BY <1>6, WorkerRetries DEF T!RetryPublish, TraceInv, Places
    <2>2. UNCHANGED <<hook, push, job, reviewRun, pub, saved, target, check, excuse>>
        BY <1>6 DEF T!RetryPublish, T!pull, T!rows, T!trace, T!told
    <2>3. excuse = {} => Placed'
        BY <2>1, <2>2 DEF TraceInv, Placed, Indexing, Reviewing, Publishing, AllOver, Neutral, T!Held
    <2> QED BY <2>1, <2>2, <2>3, TaskMoves DEF Places
<1>7. ASSUME T!Flush PROVE TraceInv'
    <2>1. /\ worker.at = "publish"
          /\ check' = IF target = 0 THEN Append(check, "published")
                      ELSE [check EXCEPT ![target] = "published"]
          /\ target' = IF target = 0 THEN Len(check) + 1 ELSE target
          /\ UNCHANGED <<hook, push, job, reviewRun, pub, saved, excuse>>
        BY <1>7 DEF T!Flush, T!pull, T!rows
    <2>2. worker'.at = "flushed" /\ DOMAIN worker' = DOMAIN worker
        BY <1>7, WorkerAt DEF T!Flush, TraceInv, Places
    <2>3. /\ check' \in Seq(Says) /\ Len(check) <= Len(check') /\ target' \in 1..Len(check')
          /\ check'[target'] = "published"
        <3>1. CASE target = 0
            <4>1. /\ Append(check, "published") \in Seq(Says) /\ Len(Append(check, "published")) = Len(check) + 1
                  /\ Append(check, "published")[Len(check) + 1] = "published" /\ Len(check) \in Nat
                BY DEF TraceInv, TraceTyped, Says
            <4> QED BY <2>1, <3>1, <4>1
        <3>2. CASE target # 0
            BY <2>1, <3>2 DEF TraceInv, TraceTyped, Says
        <3> QED BY <3>1, <3>2
    <2>4. TraceTyped'
        BY <2>1, <2>2, <2>3 DEF TraceInv, TraceTyped, Places
    <2>5. target' # 0 /\ (target # 0 => target' = target)
        BY <2>1, <2>3
    <2>6. excuse = {} => Placed'
        BY <2>1, <2>2, <2>3, <2>5
           DEF TraceInv, Placed, Indexing, Reviewing, Publishing, AllOver, T!Held
    <2> QED BY <2>1, <2>2, <2>4, <2>6 DEF TraceInv, HookFirst
<1>8. ASSUME T!CommitPublish PROVE TraceInv'
    <2>1. /\ worker.at = "flushed" /\ pub' = "completed"
          /\ UNCHANGED <<hook, push, job, reviewRun, saved, target, check, excuse>>
        BY <1>8 DEF T!CommitPublish, T!pull, T!told
    <2>2. worker'.at = "over" /\ DOMAIN worker' = DOMAIN worker
        BY <1>8, WorkerAt DEF T!CommitPublish, T!Ends, TraceInv, Places
    <2>3. excuse = {} => Placed'
        BY <2>1, <2>2
           DEF TraceInv, Placed, Indexing, Reviewing, Publishing, AllOver, Concluded, T!Held
    <2> QED BY <2>1, <2>2, <2>3, TaskMoves DEF Places
<1> QED BY <1>1, <1>2, <1>3, <1>4, <1>5, <1>6, <1>7, <1>8 DEF T!PublishStep

\* What happens meanwhile leaves the task where it is; a push is told about only while
\* a row can be superseded, and then the check is neutral before the rows are.
LEMMA PushKeeps ==
    ASSUME TraceInv, T!Supersede \/ T!CommitSupersede \/ T!AbortSupersede PROVE TraceInv'
<1>1. ASSUME T!Supersede PROVE TraceInv'
    <2>1. /\ push = "none" /\ hook.at = "done" /\ push' = "told" /\ T!Tell(saved, "neutral")
          /\ T!Supersedable
          /\ UNCHANGED <<hook, job, reviewRun, pub, worker, saved, target>>
        BY <1>1 DEF T!Supersede, T!rows, T!trace
    <2>2. /\ check' \in Seq(Says) /\ Len(check') = Len(check)
          /\ excuse' = {} => excuse = {} /\ (saved # 0 => check'[saved] = "neutral")
        BY <2>1, TellFacts DEF TraceInv, Says
    <2>3. TraceTyped' /\ HookFirst'
        BY <2>1, <2>2 DEF TraceInv, TraceTyped, HookFirst
    <2>4. excuse' = {} => Placed'
        <3> SUFFICES ASSUME excuse' = {} PROVE Placed'
            OBVIOUS
        <3>1. Placed /\ excuse = {}
            BY <2>2 DEF TraceInv
        <3>2. job # "completed" \/ reviewRun # "completed"
            BY <2>1 DEF T!Supersedable, T!JobFree
        <3>3. worker.at \notin {"indexing", "over", "publish", "flushed", "reviewed", "reconcile", "reconciled",
                               "resolve"}
            BY <2>1, <3>1, <3>2
               DEF T!Supersedable, T!JobFree, Placed, Indexing, Reviewing, Publishing, AllOver
        <3>4. worker.at \in {"review", "reviewing"} => reviewRun # "completed"
            BY <2>1, <3>1 DEF T!Supersedable, T!JobFree, Placed, Reviewing
        <3>5. Neutral' <=> ~(job = "superseded" \/ reviewRun = "superseded")
            BY <2>1, <2>2 DEF Neutral, T!Held
        <3>6. Neutral => ~(job = "superseded" \/ reviewRun = "superseded")
            BY <2>1 DEF Neutral
        <3> QED
            BY <2>1, <3>1, <3>3, <3>4, <3>5, <3>6
               DEF Placed, Indexing, Reviewing, Publishing, AllOver, T!Held
    <2> QED BY <2>3, <2>4 DEF TraceInv
<1>2. ASSUME T!CommitSupersede PROVE TraceInv'
    <2>1. /\ push = "told" /\ push' = "done"
          /\ job' = IF job = "pending" THEN "superseded" ELSE job
          /\ reviewRun' = IF reviewRun \in {"pending", "processing"} THEN "superseded" ELSE reviewRun
          /\ UNCHANGED <<hook, pub, worker, saved, target, check, excuse>>
        BY <1>2 DEF T!CommitSupersede, T!trace, T!told
    <2>2. worker.at # "none"
        BY <2>1 DEF TraceInv, HookFirst
    <2>3. excuse = {} => Placed'
        BY <2>1 DEF TraceInv, Placed, Indexing, Reviewing, Publishing, AllOver, Neutral, T!Held
    <2> QED BY <2>1, <2>2, <2>3, TaskMoves DEF TraceInv, TraceTyped
<1>3. ASSUME T!AbortSupersede PROVE TraceInv'
    <2>1. /\ push = "told" /\ push' = "none"
          /\ UNCHANGED <<hook, job, reviewRun, pub, worker, saved, target, check, excuse>>
        BY <1>3 DEF T!AbortSupersede, T!rows, T!trace
    <2>2. worker.at # "none"
        BY <2>1 DEF TraceInv, HookFirst
    <2>3. excuse = {} => Placed'
        BY <2>1 DEF TraceInv, Placed, Indexing, Reviewing, Publishing, AllOver, Neutral, T!Held
    <2> QED BY <2>1, <2>2, <2>3, TaskMoves DEF TraceInv, TraceTyped
<1> QED BY <1>1, <1>2, <1>3

LEMMA MeanwhileKeeps ==
    ASSUME TraceInv, T!MoveHead \/ T!ConvertToDraft \/ T!Lose \/ T!Purge PROVE TraceInv'
<1>1. ASSUME T!MoveHead \/ T!ConvertToDraft PROVE TraceInv'
    <2>1. /\ UNCHANGED <<hook, job, reviewRun, pub, worker, saved, target, check, excuse>>
          /\ push' = push \/ (push = "none" /\ push' = "done" /\ hook.at = "done")
        BY <1>1 DEF T!MoveHead, T!ConvertToDraft, T!rows, T!trace, T!told
    <2>2. TraceTyped' /\ HookFirst'
        BY <2>1 DEF TraceInv, TraceTyped, HookFirst
    <2>3. excuse = {} => Placed'
        BY <2>1
           DEF TraceInv, Placed, Indexing, Reviewing, Publishing, AllOver, Concluded, Neutral, T!Held
    <2> QED BY <2>1, <2>2, <2>3 DEF TraceInv
<1>2. ASSUME T!Lose PROVE TraceInv'
    <2>1. /\ worker.at # "none" /\ excuse' = excuse \cup {"killed"}
          /\ UNCHANGED <<hook, saved, target, check>>
        BY <1>2 DEF T!Lose, T!pull, T!trace
    <2>2. worker'.at = "over" /\ DOMAIN worker' = DOMAIN worker
        BY <1>2, WorkerAt DEF T!Lose, T!Ends, TraceInv, Places
    <2>3. excuse' # {} /\ excuse \subseteq excuse'
        BY <2>1
    <2> QED BY <2>1, <2>2, <2>3, TaskMoves DEF Places
<1>3. ASSUME T!Purge PROVE TraceInv'
    <2>1. /\ worker.at = "over" /\ ~T!Held /\ saved' = 0
          /\ UNCHANGED <<hook, push, job, reviewRun, pub, worker, target, check, excuse>>
        BY <1>3 DEF T!Purge, T!pull, T!rows, T!told
    <2>2. TraceTyped' /\ HookFirst'
        BY <2>1 DEF TraceInv, TraceTyped, HookFirst
    <2>3. excuse = {} => Placed'
        BY <2>1 DEF TraceInv, Placed, Indexing, Reviewing, Publishing, AllOver, Concluded, T!Held
    <2> QED BY <2>1, <2>2, <2>3 DEF TraceInv
<1> QED BY <1>1, <1>2, <1>3

\* Every step keeps the invariant.
LEMMA TraceStep == ASSUME TraceInv, [T!Next]_T!vars PROVE TraceInv'
<1>1. CASE UNCHANGED T!vars
    <2>1. UNCHANGED <<hook, push, job, reviewRun, pub, worker, saved, target, check, excuse>>
        BY <1>1 DEF T!vars, T!pull, T!rows, T!trace, T!told
    <2> QED
        BY <2>1 DEF TraceInv, TraceTyped, HookFirst, Placed, Indexing, Reviewing, Publishing, AllOver,
           Concluded, Neutral, T!Held
<1> QED
    BY <1>1, HookKeeps, IndexKeeps, ReviewKeeps, PublishKeeps, PushKeeps, MeanwhileKeeps DEF T!Next

-----------------------------------------------------------------------------
(* Records.                                                                *)

RecordsInv == ReviewInv /\ JudgeInv /\ TraceInv

\* A step of Records is a step of each part or leaves it alone.
LEMMA StepOfEach == ASSUME [Next]_vars PROVE [R!Next]_R!vars /\ [J!Next]_J!vars /\ [T!Next]_T!vars
BY DEF Next, vars, review, judge, trace, R!vars, R!policy, R!calls, R!results, J!vars, J!place, J!told,
   T!vars, T!pull, T!rows, T!trace, T!told

LEMMA RecordsInvHolds == Spec => []RecordsInv
<1>1. Init => RecordsInv
    BY ReviewInit, JudgeInit, TraceInit DEF Init, RecordsInv
<1>2. RecordsInv /\ [Next]_vars => RecordsInv'
    BY StepOfEach, ReviewStep, JudgeStep, TraceStep DEF RecordsInv
<1> QED BY <1>1, <1>2, PTL DEF Spec

\* build_models_snapshot and resolve_review_model: whatever becomes of the policy, however
\* often the task is tried again and whichever calls fail, the snapshot of a completed run
\* names the model of its checkpoint, which wrote the findings unless the policy has moved.
THEOREM SnapshotReviewedHolds == Spec => []SnapshotReviewed
<1>1. RecordsInv => SnapshotReviewed
    BY DEF RecordsInv, ReviewInv, SnapshotWaits, SnapshotReviewed, R!SnapshotReviewed
<1> QED BY <1>1, RecordsInvHolds, PTL

\* judge_pending_groups: for any number of candidates, limit and retries, a committed judge
\* step tells of every candidate within the limit that had no outcome, and of each once.
THEOREM StepTellsAllHolds == Spec => []StepTellsAll
<1>1. RecordsInv => StepTellsAll
    <2>1. J!Range(steps) = Members(steps) /\ \A s \in Members(steps) : J!Range(s.told) = Members(s.told)
        BY DEF Members, J!Range
    <2>2. RecordsInv => \A s \in Members(steps) : Tells(s)
        BY DEF RecordsInv, JudgeInv, AllTold
    <2>3. ASSUME RecordsInv, NEW s \in J!Range(steps)
          PROVE  LET due == {c \in 1..Candidates : c <= MaxPerRun /\ c \notin s.had}
                 IN  Len(s.told) = J!Cardinality(due) /\ {a.candidate : a \in J!Range(s.told)} = due
        <3>1. Tells(s) /\ J!Range(s.told) = Members(s.told)
            BY <2>1, <2>2, <2>3
        <3> QED BY <3>1, SameCardinality, Zenon DEF Tells, ToldOf
    <2> QED BY <2>3, Zenon DEF StepTellsAll, J!StepTellsAll
<1> QED BY <1>1, RecordsInvHolds, PTL

\* The check run and the rows of a pipeline that is over agree, for any number of retries
\* and faults, unless one of the excuses applies.
THEOREM CheckTellsTheEndHolds == Spec => []CheckTellsTheEnd
<1>1. RecordsInv => CheckTellsTheEnd
    BY DEF RecordsInv, TraceInv, Placed, AllOver, Concluded, CheckTellsTheEnd, T!CheckTellsTheEnd, T!Settled
<1> QED BY <1>1, RecordsInvHolds, PTL

=============================================================================
