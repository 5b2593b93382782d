---------------------------- MODULE IndexContent ----------------------------
(***************************************************************************)
(* What the index of a revision holds.  Every revision of a pull request   *)
(* has rows of code chunks with their embeddings; an index job replaces    *)
(* those of the files it takes from the archive of the head commit, and    *)
(* may carry rows over from the revision before.                           *)
(*                                                                         *)
(* A file is the sequence of its chunks, the empty one a file that is not  *)
(* there.  An embedding stands for the text it was computed from.          *)
(***************************************************************************)
EXTENDS Integers, Sequences, FiniteSets

CONSTANTS
    Files,         \* paths that are indexed
    Contents,      \* what a file may hold: sequences of chunk texts
    LastRevision,  \* bound: revisions of the pull request
    Jobs           \* index jobs

Chunks    == UNION {{c[i] : i \in DOMAIN c} : c \in Contents}
Revisions == 1..LastRevision
Trees     == [Files -> Contents]

ASSUME ContentAssumption ==
    /\ <<>> \in Contents /\ Contents \subseteq Seq(Chunks)
    /\ LastRevision \in Nat \ {0}
    /\ IsFiniteSet(Jobs)

VARIABLES
    tree,      \* the files at the head of each revision
    base,      \* the files at its merge base
    pushed,    \* revisions so far
    rows,      \* github_code_chunks by revision, file and chunk_index
    job,       \* github_index_jobs and the session that works on each
    attempt,   \* github_llm_call_attempts: the embedding call of each job
    lastMode   \* history: the mode of the job that completed last on a revision, mixed
               \* if another had completed during it

vars == <<tree, base, pushed, rows, job, attempt, lastMode>>

NoTree == [f \in Files |-> <<>>]
NoRows == [f \in Files |-> <<>>]

\* A session keeps the mode it ran in, the sessions it waits for (after), the files
\* whose rows it has deleted (takes), the rows it writes, and the keys others have
\* inserted since (behind).
NoJob == [at |-> "none", rev |-> 0, mode |-> "none", incremental |-> FALSE, ran |-> "none", after |-> {}, takes |-> {}, writes |-> NoRows, behind |-> {}]

Init ==
    /\ \E b \in Trees, f \in Files, c \in Contents :
         /\ tree = [r \in Revisions |-> IF r = 1 THEN [b EXCEPT ![f] = c] ELSE NoTree]
         /\ base = [r \in Revisions |-> IF r = 1 THEN b ELSE NoTree]
    /\ pushed = 1
    /\ rows = [r \in Revisions |-> NoRows]
    /\ job = [j \in Jobs |-> NoJob]
    /\ attempt = [j \in Jobs |-> "none"]
    /\ lastMode = [r \in Revisions |-> "none"]

-----------------------------------------------------------------------------

Embedded(text)  == [text |-> text, vector |-> text]
Texts(s)        == [i \in DOMAIN s |-> s[i].text]
KeysOf(content) == UNION {{<<f, i>> : i \in DOMAIN content[f]} : f \in Files}

\* compare_commits: files the head has other than the merge base, and files it
\* has no more.
ToIndex(r)  == {f \in Files : tree[r][f] # base[r][f] /\ tree[r][f] # <<>>}
ToRemove(r) == {f \in Files : base[r][f] # <<>> /\ tree[r][f] = <<>>}

Parent(r) == IF r = 1 THEN NoRows ELSE rows[r - 1]

\* Fault: a chunk is taken over by its place alone.
ReusableByPlace(parent, i, text) == i \in DOMAIN parent

\* A chunk of the revision before with the same place and text has its embedding.
Reusable(parent, i, text) == i \in DOMAIN parent /\ parent[i].text = text

Indexed(content, parent) ==
    [i \in DOMAIN content |->
        IF Reusable(parent, i, content[i])
        THEN [text |-> content[i], vector |-> parent[i].vector]
        ELSE Embedded(content[i])]

\* Fault: a file the push has deleted is carried over.
CarriedTooMuch(r, diff, parent) ==
    IF diff /\ parent # NoRows THEN Files \ ToIndex(r) ELSE {}

\* Files a diff job carries over from the revision before.
Carried(r, diff, parent) ==
    IF diff /\ parent # NoRows THEN Files \ (ToIndex(r) \cup ToRemove(r)) ELSE {}

\* The files whose rows are deleted: all of them, unless a diff job has nothing
\* to carry over.
Takes(r, diff, parent) ==
    IF diff /\ parent = NoRows THEN ToIndex(r) \cup ToRemove(r) ELSE Files

Working(j)    == job[j].at \in {"embedding", "written"}
InProgress(r) == \E j \in Jobs : job[j].rev = r /\ job[j].at \in {"pending", "embedding", "written"}

-----------------------------------------------------------------------------

\* A push changes a file, or merges a change of the base; the one that goes back
\* to the base is among them.
Push ==
    /\ pushed < LastRevision
    /\ pushed' = pushed + 1
    /\ \E f \in Files, c \in Contents, merges \in BOOLEAN :
         /\ c # tree[pushed][f]
         /\ tree' = [tree EXCEPT ![pushed'] = [tree[pushed] EXCEPT ![f] = c]]
         /\ base' = [base EXCEPT ![pushed'] = IF merges THEN [base[pushed] EXCEPT ![f] = c]
                                              ELSE base[pushed]]
    /\ UNCHANGED <<rows, job, attempt, lastMode>>

\* create_index_job: the pipeline asks for the diff, the endpoint for either
\* mode, a deep review for everything anew.  A job in progress is looked for
\* before the insert, so requests that come together all insert one.
Create(S) ==
    /\ S # {} /\ \A j \in S : job[j].at = "none"
    /\ \E r \in 1..pushed :
         /\ ~InProgress(r)
         /\ \E how \in [S -> {<<"diff", TRUE>>, <<"full", TRUE>>, <<"full", FALSE>>}] :
              job' = [j \in Jobs |->
                  IF j \in S THEN [NoJob EXCEPT !.at = "pending", !.rev = r, !.mode = how[j][1],
                                               !.incremental = how[j][2]]
                  ELSE job[j]]
    /\ UNCHANGED <<tree, base, pushed, rows, attempt, lastMode>>

\* The sessions whose deleted rows this one's delete meets: it waits for them, and
\* does not see what they insert.
Before(j) ==
    {k \in Jobs \ {j} : Working(k) /\ job[k].rev = job[j].rev
                        /\ \E f \in job[k].takes : rows[job[k].rev][f] # <<>>}

Free(j) == \A k \in job[j].after : ~Working(k)

\* The comparison and the archive are fetched, the rows of the files taken are
\* deleted and their successors gathered.  If GitHub does not compare, a diff job
\* becomes a full one.
Take(j) ==
    /\ job[j].at = "pending"
    /\ \E diff \in {job[j].mode = "diff", FALSE} :
         LET r      == job[j].rev
             parent == IF job[j].incremental THEN Parent(r) ELSE NoRows
         IN  job' = [job EXCEPT
                 ![j].at = "embedding",
                 ![j].ran = IF diff THEN "diff" ELSE "full",
                 ![j].after = Before(j),
                 ![j].takes = Takes(r, diff, parent),
                 ![j].behind = {},
                 ![j].writes = [f \in Files |->
                     IF f \in Carried(r, diff, parent) THEN parent[f]
                     ELSE IF f \in Takes(r, diff, parent) THEN Indexed(tree[r][f], parent[f])
                     ELSE <<>>]]
    /\ attempt' = [attempt EXCEPT ![j] = "started"]
    /\ UNCHANGED <<tree, base, pushed, rows, lastMode>>

Embed(j) ==
    /\ job[j].at = "embedding" /\ Free(j)
    /\ job' = [job EXCEPT ![j].at = "written"]
    /\ attempt' = [attempt EXCEPT ![j] = "completed"]
    /\ UNCHANGED <<tree, base, pushed, rows, lastMode>>

\* The call is recorded in a transaction of its own and outlives the job's.
AttemptFails(j) == attempt' = [attempt EXCEPT ![j] = "failed"]

\* The call fails for good, repeated or not: everything is rolled back but the recorded call.
EmbedFails(j) ==
    /\ job[j].at = "embedding"
    /\ AttemptFails(j)
    /\ job' = [job EXCEPT ![j] = [NoJob EXCEPT !.at = "failed", !.rev = job[j].rev]]
    /\ UNCHANGED <<tree, base, pushed, rows, lastMode>>

\* Another session has inserted a chunk with the same key since.
Conflicts(j) == KeysOf(job[j].writes) \cap job[j].behind # {}

Commit(j) ==
    LET r == job[j].rev
    IN  /\ job[j].at = "written"
        /\ ~Conflicts(j)
        /\ rows' = [rows EXCEPT ![r] = [f \in Files |->
               IF f \notin job[j].takes THEN rows[r][f]
               ELSE IF job[j].writes[f] = <<>> /\ (\E k \in job[j].behind : k[1] = f)
                    THEN rows[r][f] ELSE job[j].writes[f]]]
        /\ job' = [k \in Jobs |->
               IF k = j THEN [job[j] EXCEPT !.at = "completed", !.takes = {}, !.writes = NoRows,
                                            !.behind = {}, !.after = {}]
               ELSE IF Working(k) /\ job[k].rev = r
                    THEN [job[k] EXCEPT !.behind = @ \cup KeysOf(job[j].writes)]
                    ELSE job[k]]
        /\ lastMode' = [lastMode EXCEPT ![r] = IF job[j].behind = {} THEN job[j].ran ELSE "mixed"]
        /\ UNCHANGED <<tree, base, pushed, attempt>>

\* The unique key of the rows is violated: rolled back and marked failed.
CommitFails(j) ==
    /\ job[j].at = "written"
    /\ Conflicts(j)
    /\ job' = [job EXCEPT ![j] = [NoJob EXCEPT !.at = "failed", !.rev = job[j].rev]]
    /\ UNCHANGED <<tree, base, pushed, rows, attempt, lastMode>>

\* The task fails in between and is tried again.
Retry(j) ==
    /\ job[j].at = "written"
    /\ job' = [job EXCEPT ![j].at = "pending", ![j].takes = {}, ![j].writes = NoRows,
                          ![j].behind = {}, ![j].after = {}]
    /\ UNCHANGED <<tree, base, pushed, rows, attempt, lastMode>>

Next ==
    \/ Push
    \/ \E S \in SUBSET Jobs : Cardinality(S) <= 2 /\ Create(S)
    \/ \E j \in Jobs :
         \/ Take(j) \/ Embed(j) \/ EmbedFails(j)
         \/ Commit(j) \/ CommitFails(j) \/ Retry(j)

Spec == Init /\ [][Next]_vars

-----------------------------------------------------------------------------

Rows   == [Files -> Seq([text : Chunks, vector : Chunks])]

\* Every variable holds a value of its type.
TypeOK ==
    /\ pushed \in Revisions
    /\ \A r \in Revisions : tree[r] \in Trees /\ base[r] \in Trees /\ rows[r] \in Rows
    /\ \A j \in Jobs :
         /\ job[j].at \in {"none", "pending", "embedding", "written", "completed", "failed"}
         /\ job[j].rev \in 0..pushed
         /\ job[j].writes \in Rows
    /\ attempt \in [Jobs -> {"none", "started", "completed", "failed"}]
    /\ lastMode \in [Revisions -> {"none", "diff", "full", "mixed"}]

\* An indexed revision has the head's chunks of every file its pull request
\* changes, and none of a file it deletes: whatever was carried over from the
\* revision before, and however jobs on the revision overlap.
ChangedIsCurrent ==
    \A r \in 1..pushed : lastMode[r] # "none" =>
        /\ \A f \in ToIndex(r) : Texts(rows[r][f]) = tree[r][f]
        /\ \A f \in ToRemove(r) : rows[r][f] = <<>>

\* After a full index that no other job overlapped the revision has exactly the
\* head's chunks.
FullIsCurrent ==
    \A r \in 1..pushed : lastMode[r] = "full" => \A f \in Files : Texts(rows[r][f]) = tree[r][f]

\* A chunk has the embedding of its own text, also when the embedding comes from
\* another revision's chunk.
VectorsMatch ==
    \A r \in 1..pushed, f \in Files :
        \A i \in DOMAIN rows[r][f] : rows[r][f][i].vector = rows[r][f][i].text

\* Every recorded embedding call is closed once its job has gone on, though the
\* job itself is rolled back.
AttemptsClosed == \A j \in Jobs : job[j].at # "embedding" => attempt[j] # "started"

\* README.md, "Not yet": "every push re-indexes the changed files".
PushIsReindexed ==
    \A r \in 2..pushed, f \in Files :
        lastMode[r] # "none" /\ tree[r][f] # tree[r - 1][f] =>
            Texts(rows[r][f]) \in {<<>>, tree[r][f]}
=============================================================================
