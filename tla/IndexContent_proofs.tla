------------------------ MODULE IndexContent_proofs ------------------------
(***************************************************************************)
(* Theorems about IndexContent, for any files, contents, revisions and     *)
(* jobs.                                                                   *)
(*                                                                         *)
(* The inductive invariant says what a session in progress has gathered,   *)
(* wherever it is, of the revision it works on: its rows are current       *)
(* (WorkIsCurrent) and have their own embeddings (WorkMatches), and what   *)
(* others have inserted meanwhile is of no file that the head lacks.       *)
(***************************************************************************)
EXTENDS IndexContent, TLAPS

Row == [text : Chunks, vector : Chunks]

\* The vectors of rows are those of their texts.
Matches(s) == \A i \in DOMAIN s : s[i].vector = s[i].text

\* Rows s of file f are what the head of r has of it, if its pull request changes f.
CurrentRows(r, f, s) ==
    /\ f \in ToIndex(r) => Texts(s) = tree[r][f]
    /\ f \in ToRemove(r) => s = <<>>

\* The fields of a job that steps read.
JobTyped(w) ==
    /\ DOMAIN w = DOMAIN NoJob
    /\ w.at \in {"none", "pending", "embedding", "written", "completed", "failed"}
    /\ w.writes \in [Files -> Seq(Row)]
    /\ w.rev \in 0..pushed
    /\ w.at \in {"pending", "embedding", "written"} => w.rev \in 1..pushed

Typed ==
    /\ pushed \in Revisions
    /\ tree \in [Revisions -> Trees] /\ base \in [Revisions -> Trees]
    /\ rows \in [Revisions -> [Files -> Seq(Row)]]
    /\ DOMAIN job = Jobs /\ \A j \in Jobs : JobTyped(job[j])
    /\ attempt \in [Jobs -> {"none", "started", "completed", "failed"}]
    /\ lastMode \in [Revisions -> {"none", "diff", "full", "mixed"}]
    /\ \A j \in Jobs : Working(j) => job[j].ran \in {"diff", "full"}
    /\ \A r \in Revisions : r > pushed => lastMode[r] = "none"

\* A session takes every file that the pull request changes, and gathers the head's
\* rows of it; a full one takes every file.
WorkIsCurrent(j) ==
    Working(j) =>
        /\ \A f \in ToIndex(job[j].rev) \cup ToRemove(job[j].rev) : f \in job[j].takes
        /\ \A f \in Files : CurrentRows(job[j].rev, f, job[j].writes[f])
        /\ \A k \in job[j].behind : k[1] \notin ToRemove(job[j].rev)
        /\ job[j].ran = "full" =>
             \A f \in Files : f \in job[j].takes /\ Texts(job[j].writes[f]) = tree[job[j].rev][f]

WorkMatches(j) == \A f \in Files : Matches(job[j].writes[f])

ContentInv ==
    /\ Typed
    /\ \A j \in Jobs : WorkIsCurrent(j) /\ WorkMatches(j)
    /\ \A r \in Revisions, f \in Files : Matches(rows[r][f])
    /\ ChangedIsCurrent /\ FullIsCurrent

-----------------------------------------------------------------------------
(* Rows and chunks.                                                        *)

LEMMA NoRowsTyped == NoRows \in [Files -> Seq(Row)] /\ \A f \in Files : NoRows[f] = <<>>
<1>1. <<>> \in Seq(Row)
  OBVIOUS
<1> QED
  BY <1>1 DEF NoRows

\* What a job makes of a content has its texts, in rows of their own embeddings.
LEMMA IndexedIsCurrent ==
  ASSUME NEW c \in Contents, NEW p \in Seq(Row), Matches(p)
  PROVE  /\ Indexed(c, p) \in Seq(Row)
         /\ Texts(Indexed(c, p)) = c
         /\ Matches(Indexed(c, p))
         /\ c = <<>> => Indexed(c, p) = <<>>
<1>1. c \in Seq(Chunks)
  BY ContentAssumption DEF ContentAssumption
<1>2. PICK n \in Nat : DOMAIN c = 1..n /\ c \in [1..n -> Chunks]
  <2>1. Len(c) \in Nat /\ DOMAIN c = 1..Len(c) /\ c \in [1..Len(c) -> Chunks]
    BY <1>1
  <2> QED
    BY <2>1
<1> DEFINE d == Indexed(c, p)
<1>3. \A i \in 1..n : d[i] \in Row /\ d[i].text = c[i] /\ d[i].vector = c[i]
  <2> SUFFICES ASSUME NEW i \in 1..n PROVE d[i] \in Row /\ d[i].text = c[i] /\ d[i].vector = c[i]
    OBVIOUS
  <2>1. c[i] \in Chunks
    BY <1>2
  <2>2. CASE Reusable(p, i, c[i])
    <3>1. d[i] = [text |-> c[i], vector |-> p[i].vector]
      BY <1>2, <2>2 DEF Indexed
    <3>2. p[i].vector = c[i]
      BY <2>2 DEF Reusable, Matches
    <3> QED
      BY <2>1, <3>1, <3>2 DEF Row
  <2>3. CASE ~Reusable(p, i, c[i])
    <3>1. d[i] = [text |-> c[i], vector |-> c[i]]
      BY <1>2, <2>3 DEF Indexed, Embedded
    <3> QED
      BY <2>1, <3>1 DEF Row
  <2> QED
    BY <2>2, <2>3
<1>4. d = [i \in 1..n |-> d[i]] /\ DOMAIN d = 1..n
  BY <1>2 DEF Indexed
<1> HIDE DEF d
<1>5. d \in Seq(Row)
  <2>1. d \in [1..n -> Row]
    BY <1>3, <1>4
  <2> QED
    BY <2>1
<1>6. Texts(d) = c
  <2>1. Texts(d) = [i \in 1..n |-> c[i]]
    BY <1>3, <1>4 DEF Texts
  <2> QED
    BY <1>2, <2>1
<1>7. Matches(d)
  BY <1>3, <1>4 DEF Matches
<1>8. c = <<>> => d = <<>>
  <2> SUFFICES ASSUME c = <<>> PROVE d = <<>>
    OBVIOUS
  <2>1. Len(d) = 0
    BY <1>2, <1>4, <1>5
  <2> QED
    BY <1>5, <2>1
<1> QED
  BY <1>5, <1>6, <1>7, <1>8 DEF d

\* The trees of revisions that were pushed stay, and so does what is current of them.
LEMMA TreesStay ==
  ASSUME Typed, NEW r \in 1..pushed, [Next]_vars
  PROVE  /\ tree'[r] = tree[r] /\ base'[r] = base[r] /\ r \in Revisions /\ r \in 1..pushed'
         /\ ToIndex(r)' = ToIndex(r) /\ ToRemove(r)' = ToRemove(r)
         /\ \A f, s : CurrentRows(r, f, s)' <=> CurrentRows(r, f, s)
<1>1. pushed \in Nat /\ r \in Revisions
  BY ContentAssumption DEF ContentAssumption, Typed, Revisions
<1>2. /\ tree'[r] = tree[r] /\ base'[r] = base[r] /\ r \in 1..pushed'
  <2>1. CASE Push
    <3>1. pushed' = pushed + 1
      BY <2>1 DEF Push
    <3>2. PICK t, b : tree' = [tree EXCEPT ![pushed'] = t] /\ base' = [base EXCEPT ![pushed'] = b]
      BY <2>1 DEF Push
    <3> QED
      BY <1>1, <3>1, <3>2 DEF Typed
  <2>2. CASE UNCHANGED <<tree, base, pushed>>
    BY <2>2
  <2> QED
    BY <2>1, <2>2 DEF Next, vars, Create, Take, Embed, EmbedFails, Commit, CommitFails, Retry
<1>3. ToIndex(r)' = ToIndex(r) /\ ToRemove(r)' = ToRemove(r)
  BY <1>2 DEF ToIndex, ToRemove
<1> QED
  BY <1>1, <1>2, <1>3 DEF CurrentRows

\* What a revision says of itself when it was indexed.
Told(r) ==
    /\ lastMode[r] # "none" => \A f \in Files : CurrentRows(r, f, rows[r][f])
    /\ lastMode[r] = "full" => \A f \in Files : Texts(rows[r][f]) = tree[r][f]

LEMMA TellsAll == ChangedIsCurrent /\ FullIsCurrent <=> \A r \in 1..pushed : Told(r)
  BY DEF ChangedIsCurrent, FullIsCurrent, Told, CurrentRows, ToIndex, ToRemove

-----------------------------------------------------------------------------
(* Initial states.                                                         *)

LEMMA InitContent == Init => ContentInv
<1> SUFFICES ASSUME Init PROVE ContentInv
  OBVIOUS
<1>0. 1 \in Revisions /\ <<>> \in Contents
  BY ContentAssumption DEF ContentAssumption, Revisions
<1>1. NoRows \in [Files -> Seq(Row)] /\ \A f \in Files : NoRows[f] = <<>> /\ Matches(NoRows[f])
  <2>1. Matches(<<>>)
    BY DEF Matches
  <2> QED
    BY <2>1, NoRowsTyped
<1>2. tree \in [Revisions -> Trees] /\ base \in [Revisions -> Trees]
  <2>1. PICK b \in Trees, f \in Files, c \in Contents :
          /\ tree = [r \in Revisions |-> IF r = 1 THEN [b EXCEPT ![f] = c] ELSE NoTree]
          /\ base = [r \in Revisions |-> IF r = 1 THEN b ELSE NoTree]
    BY DEF Init
  <2>2. NoTree \in Trees /\ [b EXCEPT ![f] = c] \in Trees
    BY <1>0 DEF NoTree, Trees
  <2> QED
    BY <2>1, <2>2
<1>3. \A j \in Jobs : /\ job[j].at = "none" /\ job[j].rev = 0 /\ job[j].writes = NoRows
                      /\ DOMAIN job[j] = DOMAIN NoJob
  BY DEF Init, NoJob
<1>4. pushed = 1 /\ DOMAIN job = Jobs
  BY DEF Init
<1>5. \A j \in Jobs : JobTyped(job[j]) /\ ~Working(j) /\ WorkMatches(j)
  BY <1>1, <1>3, <1>4 DEF JobTyped, Working, WorkMatches
<1>6. /\ rows \in [Revisions -> [Files -> Seq(Row)]]
      /\ \A r \in Revisions, f \in Files : Matches(rows[r][f])
  BY <1>1 DEF Init
<1>7. /\ attempt \in [Jobs -> {"none", "started", "completed", "failed"}]
      /\ lastMode \in [Revisions -> {"none", "diff", "full", "mixed"}]
      /\ \A r \in Revisions : lastMode[r] = "none"
  BY DEF Init
<1>8. ChangedIsCurrent /\ FullIsCurrent
  BY <1>0, <1>4, <1>7 DEF ChangedIsCurrent, FullIsCurrent
<1>9. \A j \in Jobs : WorkIsCurrent(j)
  BY <1>5 DEF WorkIsCurrent
<1> QED
  BY <1>0, <1>2, <1>4, <1>5, <1>6, <1>7, <1>8, <1>9 DEF ContentInv, Typed

-----------------------------------------------------------------------------
(* Steps that write no rows.                                               *)

\* What is told of revisions is not touched by a step that writes none.
LEMMA RowsKeep ==
  ASSUME ContentInv, [Next]_vars, UNCHANGED <<rows, lastMode>>
  PROVE  /\ ChangedIsCurrent' /\ FullIsCurrent'
         /\ \A r \in Revisions, f \in Files : Matches(rows'[r][f])
<1>1. pushed \in Nat /\ pushed' \in {pushed, pushed + 1} /\ (pushed' = pushed + 1 => pushed < LastRevision)
  <2>1. pushed \in Nat
    BY ContentAssumption DEF ContentAssumption, ContentInv, Typed, Revisions
  <2>2. CASE Push
    BY <2>1, <2>2 DEF Push
  <2>3. CASE UNCHANGED pushed
    BY <2>1, <2>3
  <2> QED
    BY <2>2, <2>3 DEF Next, vars, Create, Take, Embed, EmbedFails, Commit, CommitFails, Retry
<1>2. ASSUME NEW r \in 1..pushed' PROVE Told(r)'
  <2>1. CASE r \in 1..pushed
    <3>1. Told(r)
      BY <2>1, TellsAll DEF ContentInv
    <3> QED
      BY <2>1, <3>1, TreesStay DEF Told, ContentInv
  <2>2. CASE r \notin 1..pushed
    <3>1. r \in Revisions /\ r > pushed
      BY <1>1, <1>2, <2>2, ContentAssumption DEF ContentAssumption, Revisions
    <3>2. lastMode[r] = "none"
      BY <3>1 DEF ContentInv, Typed
    <3> QED
      BY <3>2 DEF Told
  <2> QED
    BY <2>1, <2>2
<1>3. ChangedIsCurrent' /\ FullIsCurrent'
  <2>1. (ChangedIsCurrent /\ FullIsCurrent <=> \A r \in 1..pushed : Told(r))'
    BY TellsAll, PTL
  <2> QED
    BY <1>2, <2>1
<1> QED
  BY <1>3 DEF ContentInv

\* A job that stays at work, or that works no more, while its revision stays.
LEMMA WorkKeeps ==
  ASSUME ContentInv, [Next]_vars, NEW j \in Jobs,
         \/ ~Working(j)'
         \/ Working(j) /\ job'[j].rev = job[j].rev /\ job'[j].takes = job[j].takes
            /\ job'[j].writes = job[j].writes /\ job'[j].ran = job[j].ran /\ job'[j].behind = job[j].behind
  PROVE  WorkIsCurrent(j)'
<1>1. CASE ~Working(j)'
  BY <1>1 DEF WorkIsCurrent
<1>2. CASE /\ Working(j) /\ job'[j].rev = job[j].rev /\ job'[j].takes = job[j].takes
           /\ job'[j].writes = job[j].writes /\ job'[j].ran = job[j].ran /\ job'[j].behind = job[j].behind
  <2>1. WorkIsCurrent(j) /\ job[j].rev \in 1..pushed
    BY <1>2 DEF ContentInv, Typed, JobTyped, Working
  <2> QED
    BY <1>2, <2>1, TreesStay DEF WorkIsCurrent, ContentInv
<1> QED
  BY <1>1, <1>2

LEMMA PushKeeps == ASSUME ContentInv, Push PROVE ContentInv'
<1>0. [Next]_vars
  BY DEF Next
<1>1. pushed < LastRevision /\ pushed' = pushed + 1 /\ UNCHANGED <<rows, job, attempt, lastMode>>
  BY DEF Push
<1>2. pushed \in Nat /\ pushed' \in Revisions /\ pushed \in Revisions
  BY <1>1, ContentAssumption DEF ContentAssumption, ContentInv, Typed, Revisions
<1>3. tree' \in [Revisions -> Trees] /\ base' \in [Revisions -> Trees]
  <2>0. tree \in [Revisions -> Trees] /\ base \in [Revisions -> Trees]
    BY DEF ContentInv, Typed
  <2>1. PICK f \in Files, c \in Contents, merges \in BOOLEAN :
          /\ tree' = [tree EXCEPT ![pushed'] = [tree[pushed] EXCEPT ![f] = c]]
          /\ base' = [base EXCEPT ![pushed'] = IF merges THEN [base[pushed] EXCEPT ![f] = c] ELSE base[pushed]]
    BY Zenon DEF Push
  <2>2. [tree[pushed] EXCEPT ![f] = c] \in Trees /\ [base[pushed] EXCEPT ![f] = c] \in Trees
    BY <1>2, <2>0 DEF Trees
  <2> QED
    BY <1>2, <2>0, <2>1, <2>2
<1>4. Typed'
  <2>1. \A j \in Jobs : JobTyped(job[j])'
    BY <1>1, <1>2 DEF ContentInv, Typed, JobTyped
  <2>2. \A j \in Jobs : Working(j)' => job'[j].ran \in {"diff", "full"}
    BY <1>1 DEF ContentInv, Typed, Working
  <2>3. \A r \in Revisions : r > pushed' => lastMode'[r] = "none"
    BY <1>1, <1>2, ContentAssumption DEF ContentAssumption, ContentInv, Typed, Revisions
  <2>4. rows' = rows /\ attempt' = attempt /\ lastMode' = lastMode /\ job' = job
    BY <1>1
  <2>5. Typed
    BY DEF ContentInv
  <2> QED
    BY <1>2, <1>3, <2>1, <2>2, <2>3, <2>4, <2>5 DEF Typed
<1>5. \A j \in Jobs : WorkIsCurrent(j)' /\ WorkMatches(j)'
  BY <1>0, <1>1, WorkKeeps DEF ContentInv, WorkMatches, Working
<1> QED
  BY <1>0, <1>1, <1>4, <1>5, RowsKeep DEF ContentInv

\* A step of job j that writes no rows.
LEMMA JobKeeps ==
  ASSUME ContentInv, [Next]_vars, UNCHANGED <<tree, base, pushed, rows, lastMode>>,
         attempt' \in [Jobs -> {"none", "started", "completed", "failed"}],
         DOMAIN job' = Jobs, NEW S \in SUBSET Jobs, \A k \in Jobs \ S : job'[k] = job[k],
         \A j \in S : JobTyped(job'[j]) /\ WorkIsCurrent(j)' /\ WorkMatches(j)',
         \A j \in S : Working(j)' => job'[j].ran \in {"diff", "full"}
  PROVE  ContentInv'
<1>1. \A j \in Jobs : JobTyped(job'[j]) /\ (Working(j)' => job'[j].ran \in {"diff", "full"})
  BY DEF ContentInv, Typed, Working
<1>2. \A j \in Jobs : JobTyped(job[j])'
  BY <1>1 DEF JobTyped
<1>3. Typed
  BY DEF ContentInv
<1>4. Typed'
  BY <1>1, <1>2, <1>3 DEF Typed
<1>5. \A j \in Jobs : WorkIsCurrent(j)' /\ WorkMatches(j)'
  <2> SUFFICES ASSUME NEW j \in Jobs, j \notin S PROVE WorkIsCurrent(j)' /\ WorkMatches(j)'
    OBVIOUS
  <2>1. job'[j] = job[j] /\ WorkMatches(j)
    BY DEF ContentInv
  <2>2. WorkIsCurrent(j)'
    BY <2>1, WorkKeeps DEF Working
  <2> QED
    BY <2>1, <2>2 DEF WorkMatches
<1> QED
  BY <1>4, <1>5, RowsKeep DEF ContentInv

LEMMA OneJobKeeps ==
  ASSUME ContentInv, [Next]_vars, UNCHANGED <<tree, base, pushed, rows, lastMode>>,
         attempt' \in [Jobs -> {"none", "started", "completed", "failed"}],
         DOMAIN job' = Jobs, NEW j \in Jobs, \A k \in Jobs \ {j} : job'[k] = job[k],
         JobTyped(job'[j]), WorkIsCurrent(j)', WorkMatches(j)', Working(j)' => job'[j].ran \in {"diff", "full"}
  PROVE  ContentInv'
<1>1. PICK S \in SUBSET Jobs : S = {j}
  OBVIOUS
<1>2. \A k \in S : k = j
  BY <1>1
<1> QED
  BY <1>1, <1>2, JobKeeps

LEMMA CreateKeeps == ASSUME ContentInv, NEW S \in SUBSET Jobs, Cardinality(S) <= 2, Create(S) PROVE ContentInv'
<1>1. [Next]_vars
  BY DEF Next
<1>2. PICK r \in 1..pushed, how \in [S -> {<<"diff", TRUE>>, <<"full", TRUE>>, <<"full", FALSE>>}] :
        job' = [j \in Jobs |-> IF j \in S THEN [NoJob EXCEPT !.at = "pending", !.rev = r, !.mode = how[j][1],
                                                          !.incremental = how[j][2]]
                              ELSE job[j]]
  BY Zenon DEF Create
<1>3. \A j \in S : /\ job'[j].at = "pending" /\ job'[j].rev = r /\ job'[j].writes = NoRows
                   /\ DOMAIN job'[j] = DOMAIN NoJob
  BY <1>2 DEF NoJob
<1>4. pushed \in Nat
  BY ContentAssumption DEF ContentAssumption, ContentInv, Typed, Revisions
<1>5. \A j \in S : JobTyped(job'[j])
  BY <1>3, <1>4, NoRowsTyped DEF JobTyped
<1>6. \A j \in S : WorkMatches(j)' /\ ~Working(j)'
  BY <1>3, NoRowsTyped DEF WorkMatches, Matches, Working
<1>7. \A j \in S : WorkIsCurrent(j)'
  BY <1>6 DEF WorkIsCurrent
<1>8. DOMAIN job' = Jobs /\ \A k \in Jobs \ S : job'[k] = job[k]
  BY <1>2
<1>9. UNCHANGED <<tree, base, pushed, rows, attempt, lastMode>>
  BY DEF Create
<1> QED
  BY <1>1, <1>5, <1>6, <1>7, <1>8, <1>9, JobKeeps DEF ContentInv, Typed

LEMMA TakeKeeps == ASSUME ContentInv, NEW j \in Jobs, Take(j) PROVE ContentInv'
<1>0. [Next]_vars /\ Typed
  BY DEF Next, ContentInv
<1> DEFINE r      == job[j].rev
           parent == IF job[j].incremental THEN Parent(r) ELSE NoRows
           gathered(diff) == [f \in Files |->
                     IF f \in Carried(r, diff, parent) THEN parent[f]
                     ELSE IF f \in Takes(r, diff, parent) THEN Indexed(tree[r][f], parent[f])
                     ELSE <<>>]
<1>1. JobTyped(job[j]) /\ job[j].at = "pending" /\ r \in 1..pushed /\ r \in Revisions
  BY <1>0, ContentAssumption DEF ContentAssumption, Typed, JobTyped, Take, Revisions
<1>2. parent \in [Files -> Seq(Row)] /\ \A f \in Files : Matches(parent[f])
  <2>1. NoRows \in [Files -> Seq(Row)] /\ \A f \in Files : Matches(NoRows[f])
    BY NoRowsTyped DEF Matches
  <2>2. Parent(r) \in [Files -> Seq(Row)] /\ \A f \in Files : Matches(Parent(r)[f])
    <3>1. CASE r = 1
      BY <2>1, <3>1 DEF Parent
    <3>2. CASE r # 1
      <4>1. r - 1 \in Revisions
        BY <1>1, <3>2, ContentAssumption DEF ContentAssumption, Revisions
      <4> QED
        BY <3>2, <4>1 DEF Parent, ContentInv, Typed
    <3> QED
      BY <3>1, <3>2
  <2> QED
    BY <2>1, <2>2
<1>3. PICK diff \in {job[j].mode = "diff", FALSE} :
        job' = [job EXCEPT ![j].at = "embedding", ![j].ran = IF diff THEN "diff" ELSE "full",
                           ![j].after = Before(j), ![j].takes = Takes(r, diff, parent),
                           ![j].behind = {}, ![j].writes = gathered(diff)]
  BY Zenon DEF Take
<1> HIDE DEF parent
<1>4. diff \in BOOLEAN
  BY Zenon
<1>5. PICK ran : ran = IF diff THEN "diff" ELSE "full"
  OBVIOUS
<1>6. PICK W : W = gathered(diff)
  OBVIOUS
<1>7. /\ job'[j].at = "embedding" /\ job'[j].rev = r /\ job'[j].ran = ran
      /\ job'[j].takes = Takes(r, diff, parent) /\ job'[j].behind = {} /\ job'[j].writes = W
      /\ DOMAIN job'[j] = DOMAIN NoJob /\ DOMAIN job' = Jobs
      /\ \A k \in Jobs \ {j} : job'[k] = job[k]
  <2> DEFINE T == Takes(r, diff, parent)
             A == Before(j)
  <2>1. job' = [job EXCEPT ![j].at = "embedding", ![j].ran = ran,
                           ![j].after = A, ![j].takes = T, ![j].behind = {}, ![j].writes = W]
    BY <1>3, <1>5, <1>6
  <2>2. DOMAIN job = Jobs /\ DOMAIN job[j] = DOMAIN NoJob
    BY <1>0 DEF Typed, JobTyped
  <2> HIDE DEF T, A, gathered
  <2>3. /\ job'[j].at = "embedding" /\ job'[j].rev = r /\ job'[j].ran = ran
        /\ job'[j].takes = T /\ job'[j].behind = {} /\ job'[j].writes = W
        /\ DOMAIN job'[j] = DOMAIN NoJob /\ DOMAIN job' = Jobs
        /\ \A k \in Jobs \ {j} : job'[k] = job[k]
    BY <2>1, <2>2 DEF NoJob
  <2> QED
    BY <2>3 DEF T
<1>8. tree[r] \in Trees
  BY <1>0, <1>1 DEF Typed
<1>9. ASSUME NEW f \in Files
      PROVE  /\ W[f] \in Seq(Row) /\ Matches(W[f]) /\ CurrentRows(r, f, W[f])
             /\ f \in ToIndex(r) \cup ToRemove(r) => f \in Takes(r, diff, parent)
             /\ ran = "full" => f \in Takes(r, diff, parent) /\ Texts(W[f]) = tree[r][f]
  <2>1. W[f] = IF f \in Carried(r, diff, parent) THEN parent[f]
               ELSE IF f \in Takes(r, diff, parent) THEN Indexed(tree[r][f], parent[f]) ELSE <<>>
    BY <1>6
  <2>2. tree[r][f] \in Contents /\ parent[f] \in Seq(Row) /\ Matches(parent[f])
    BY <1>2, <1>8 DEF Trees
  <2>3. /\ Indexed(tree[r][f], parent[f]) \in Seq(Row) /\ Matches(Indexed(tree[r][f], parent[f]))
        /\ Texts(Indexed(tree[r][f], parent[f])) = tree[r][f]
        /\ tree[r][f] = <<>> => Indexed(tree[r][f], parent[f]) = <<>>
    BY <2>2, IndexedIsCurrent
  <2>4. f \in ToIndex(r) \cup ToRemove(r) => f \in Takes(r, diff, parent) /\ f \notin Carried(r, diff, parent)
    BY DEF Takes, Carried
  <2>5. ran = "full" => f \in Takes(r, diff, parent) /\ f \notin Carried(r, diff, parent)
    BY <1>5 DEF Takes, Carried
  <2>6. f \in ToRemove(r) => tree[r][f] = <<>>
    BY DEF ToRemove
  <2>7. <<>> \in Seq(Row) /\ Matches(<<>>)
    BY DEF Matches
  <2>8. W[f] \in Seq(Row) /\ Matches(W[f])
    BY <2>1, <2>2, <2>3, <2>7
  <2>9. CurrentRows(r, f, W[f])
    BY <2>1, <2>3, <2>4, <2>6 DEF CurrentRows
  <2> QED
    BY <2>1, <2>3, <2>4, <2>5, <2>8, <2>9
<1>10. W \in [Files -> Seq(Row)]
  BY <1>6, <1>9
<1>11. JobTyped(job'[j]) /\ job'[j].ran \in {"diff", "full"}
  BY <1>1, <1>5, <1>7, <1>10 DEF JobTyped
<1>12. WorkMatches(j)'
  BY <1>7, <1>9 DEF WorkMatches
<1>13. UNCHANGED <<tree, base, pushed, rows, lastMode>>
  BY DEF Take
<1>14. WorkIsCurrent(j)'
  <2>0. PICK q \in 1..pushed : q = r
    BY <1>1
  <2>1. ToIndex(q)' = ToIndex(q) /\ ToRemove(q)' = ToRemove(q) /\ tree'[q] = tree[q]
        /\ \A f, s : CurrentRows(q, f, s)' <=> CurrentRows(q, f, s)
    BY <1>0, TreesStay
  <2>2. ToIndex(q) \cup ToRemove(q) \subseteq Files
    BY DEF ToIndex, ToRemove
  <2>3. /\ job'[j].rev = q /\ job'[j].ran = ran /\ job'[j].behind = {} /\ job'[j].writes = W
        /\ \A f \in ToIndex(q) \cup ToRemove(q) : f \in job'[j].takes
    BY <1>7, <1>9, <2>0, <2>2
  <2>4. \A f \in Files : CurrentRows(q, f, W[f])'
    <3>1. \A f \in Files : CurrentRows(q, f, W[f])
      BY <1>9, <2>0
    <3> QED
      BY <2>1, <3>1
  <2>5. ran = "full" => \A f \in Files : f \in job'[j].takes /\ Texts(W[f]) = tree'[q][f]
    BY <1>7, <1>9, <2>0, <2>1
  <2> QED
    BY <2>1, <2>3, <2>4, <2>5 DEF WorkIsCurrent
<1>15. attempt' \in [Jobs -> {"none", "started", "completed", "failed"}]
  BY <1>0 DEF Take, Typed
<1> QED
  BY <1>0, <1>7, <1>11, <1>12, <1>13, <1>14, <1>15, OneJobKeeps

LEMMA EndsKeep ==
  ASSUME ContentInv, NEW j \in Jobs, Embed(j) \/ EmbedFails(j) \/ CommitFails(j) \/ Retry(j)
  PROVE  ContentInv'
<1>0. [Next]_vars /\ Typed /\ JobTyped(job[j]) /\ DOMAIN job = Jobs /\ DOMAIN job[j] = DOMAIN NoJob
  BY DEF Next, ContentInv, Typed, JobTyped
<1>1. UNCHANGED <<tree, base, pushed, rows, lastMode>>
  BY DEF Embed, EmbedFails, CommitFails, Retry
<1>2. attempt' \in [Jobs -> {"none", "started", "completed", "failed"}]
  BY <1>0 DEF Embed, EmbedFails, AttemptFails, CommitFails, Retry, Typed
<1>3. DOMAIN job' = Jobs /\ \A k \in Jobs \ {j} : job'[k] = job[k]
  BY <1>0 DEF Embed, EmbedFails, CommitFails, Retry
<1>4. CASE Embed(j)
  <2>1. job' = [job EXCEPT ![j].at = "written"] /\ job[j].at = "embedding"
    BY <1>4 DEF Embed
  <2>2. /\ job'[j].at = "written" /\ job'[j].rev = job[j].rev /\ job'[j].takes = job[j].takes
        /\ job'[j].writes = job[j].writes /\ job'[j].ran = job[j].ran /\ job'[j].behind = job[j].behind
        /\ DOMAIN job'[j] = DOMAIN NoJob
    BY <1>0, <2>1 DEF NoJob
  <2>3. JobTyped(job'[j]) /\ Working(j)
    BY <1>0, <2>1, <2>2 DEF JobTyped, Working
  <2>4. WorkIsCurrent(j)'
    BY <1>0, <2>2, <2>3, WorkKeeps
  <2>5. WorkMatches(j)' /\ job'[j].ran \in {"diff", "full"}
    BY <1>0, <2>2, <2>3 DEF ContentInv, WorkMatches, Typed
  <2> QED
    BY <1>0, <1>1, <1>2, <1>3, <2>3, <2>4, <2>5, OneJobKeeps
<1>5. CASE EmbedFails(j) \/ CommitFails(j)
  <2>1. job' = [job EXCEPT ![j] = [NoJob EXCEPT !.at = "failed", !.rev = job[j].rev]]
    BY <1>5 DEF EmbedFails, CommitFails
  <2>2. /\ job'[j].at = "failed" /\ job'[j].rev = job[j].rev /\ job'[j].writes = NoRows
        /\ DOMAIN job'[j] = DOMAIN NoJob
    BY <1>0, <2>1 DEF NoJob
  <2>3. JobTyped(job'[j]) /\ WorkMatches(j)' /\ ~Working(j)'
    BY <1>0, <2>2, NoRowsTyped DEF JobTyped, WorkMatches, Matches, Working
  <2> QED
    BY <1>0, <1>1, <1>2, <1>3, <2>3, WorkKeeps, OneJobKeeps
<1>6. CASE Retry(j)
  <2>1. job' = [job EXCEPT ![j].at = "pending", ![j].takes = {}, ![j].writes = NoRows,
                           ![j].behind = {}, ![j].after = {}] /\ job[j].at = "written"
    BY <1>6 DEF Retry
  <2>2. /\ job'[j].at = "pending" /\ job'[j].rev = job[j].rev /\ job'[j].writes = NoRows
        /\ DOMAIN job'[j] = DOMAIN NoJob
    BY <1>0, <2>1 DEF NoJob
  <2>3. JobTyped(job'[j]) /\ WorkMatches(j)' /\ ~Working(j)'
    BY <1>0, <2>1, <2>2, NoRowsTyped DEF JobTyped, WorkMatches, Matches, Working
  <2> QED
    BY <1>0, <1>1, <1>2, <1>3, <2>3, WorkKeeps, OneJobKeeps
<1> QED
  BY <1>4, <1>5, <1>6

-----------------------------------------------------------------------------
(* The commit.                                                             *)

\* The rows of a revision after the commit of a job on it.
CommittedRows(j, f) ==
    IF f \notin job[j].takes THEN rows[job[j].rev][f]
    ELSE IF job[j].writes[f] = <<>> /\ (\E k \in job[j].behind : k[1] = f)
         THEN rows[job[j].rev][f] ELSE job[j].writes[f]

LEMMA CommitKeeps == ASSUME ContentInv, NEW j \in Jobs, Commit(j) PROVE ContentInv'
<1>0. [Next]_vars /\ Typed
  BY DEF Next, ContentInv
<1>1. PICK q \in 1..pushed : q = job[j].rev
  BY <1>0 DEF Typed, JobTyped, Commit
<1>2. q \in Revisions /\ job[j].at = "written" /\ Working(j) /\ WorkIsCurrent(j) /\ WorkMatches(j)
      /\ job[j].writes \in [Files -> Seq(Row)] /\ DOMAIN job[j] = DOMAIN NoJob
      /\ job[j].ran \in {"diff", "full"}
  BY <1>0, <1>1, TreesStay DEF Commit, Working, ContentInv, Typed, JobTyped
<1>3. UNCHANGED <<tree, base, pushed, attempt>>
  BY DEF Commit
<1>4. /\ \A f \in Files : rows'[q][f] = CommittedRows(j, f)
      /\ \A r \in Revisions \ {q} : rows'[r] = rows[r]
      /\ DOMAIN rows' = Revisions /\ DOMAIN rows'[q] = Files
  <2>1. rows' = [rows EXCEPT ![q] = [f \in Files |-> CommittedRows(j, f)]]
    BY <1>1, Zenon DEF Commit, CommittedRows
  <2> QED
    BY <1>0, <1>2, <2>1 DEF Typed
<1>5. ASSUME NEW f \in Files
      PROVE  /\ rows'[q][f] \in Seq(Row) /\ Matches(rows'[q][f])
             /\ f \in ToIndex(q) => Texts(rows'[q][f]) = tree[q][f]
             /\ f \in ToRemove(q) => rows'[q][f] = <<>>
             /\ job[j].behind = {} /\ job[j].ran = "full" => Texts(rows'[q][f]) = tree[q][f]
  <2>1. rows[q][f] \in Seq(Row) /\ Matches(rows[q][f])
    BY <1>0, <1>2 DEF Typed, ContentInv
  <2>2. job[j].writes[f] \in Seq(Row) /\ Matches(job[j].writes[f])
    BY <1>2 DEF WorkMatches
  <2>3. /\ f \in ToIndex(q) \cup ToRemove(q) => f \in job[j].takes
        /\ CurrentRows(q, f, job[j].writes[f])
        /\ \A k \in job[j].behind : k[1] \notin ToRemove(q)
        /\ job[j].ran = "full" => f \in job[j].takes /\ Texts(job[j].writes[f]) = tree[q][f]
    BY <1>1, <1>2 DEF WorkIsCurrent
  <2>4. rows'[q][f] = rows[q][f] \/ rows'[q][f] = job[j].writes[f]
    BY <1>1, <1>4 DEF CommittedRows
  <2>5. f \in ToRemove(q) => rows'[q][f] = <<>>
    BY <1>4, <2>3 DEF CommittedRows, CurrentRows
  <2>6. f \in ToIndex(q) => Texts(rows'[q][f]) = tree[q][f]
    <3> SUFFICES ASSUME f \in ToIndex(q) PROVE Texts(rows'[q][f]) = tree[q][f]
      OBVIOUS
    <3>1. tree[q][f] # <<>> /\ Texts(job[j].writes[f]) = tree[q][f]
      BY <2>3 DEF ToIndex, CurrentRows
    <3>2. job[j].writes[f] # <<>>
      <4> SUFFICES ASSUME job[j].writes[f] = <<>> PROVE FALSE
        OBVIOUS
      <4>1. Texts(<<>>) = <<>>
        BY DEF Texts
      <4> QED
        BY <3>1, <4>1
    <3>3. rows'[q][f] = job[j].writes[f]
      BY <1>4, <2>3, <3>2 DEF CommittedRows
    <3> QED
      BY <3>1, <3>3
  <2>7. job[j].behind = {} /\ job[j].ran = "full" => Texts(rows'[q][f]) = tree[q][f]
    BY <1>4, <2>3 DEF CommittedRows
  <2> QED
    BY <2>1, <2>2, <2>4, <2>5, <2>6, <2>7
<1>6. rows' \in [Revisions -> [Files -> Seq(Row)]] /\ \A r \in Revisions, f \in Files : Matches(rows'[r][f])
  <2>1. ASSUME NEW r \in Revisions, NEW f \in Files PROVE rows'[r][f] \in Seq(Row) /\ Matches(rows'[r][f])
    BY <1>0, <1>4, <1>5 DEF Typed, ContentInv
  <2>2. \A r \in Revisions : rows'[r] \in [Files -> Seq(Row)]
    <3> SUFFICES ASSUME NEW r \in Revisions PROVE rows'[r] \in [Files -> Seq(Row)]
      OBVIOUS
    <3>1. CASE r = q
      <4>1. rows'[q] = [f \in Files |-> CommittedRows(j, f)]
        BY <1>0, <1>1, <1>2, Zenon DEF Commit, CommittedRows, Typed
      <4> QED
        BY <1>4, <1>5, <3>1, <4>1
    <3>2. CASE r # q
      BY <1>0, <1>4, <3>2 DEF Typed
    <3> QED
      BY <3>1, <3>2
  <2>3. rows' = [r \in Revisions |-> rows'[r]]
    BY <1>4, Zenon DEF Commit
  <2> QED
    BY <2>1, <2>2, <2>3
<1>7. lastMode' = [lastMode EXCEPT ![q] = IF job[j].behind = {} THEN job[j].ran ELSE "mixed"]
  BY <1>1, Zenon DEF Commit
<1>8. /\ lastMode' \in [Revisions -> {"none", "diff", "full", "mixed"}]
      /\ \A r \in Revisions : r > pushed => lastMode'[r] = "none"
      /\ \A r \in Revisions \ {q} : lastMode'[r] = lastMode[r]
      /\ lastMode'[q] = "full" => job[j].behind = {} /\ job[j].ran = "full"
  <2> DEFINE m == IF job[j].behind = {} THEN job[j].ran ELSE "mixed"
  <2>1. m \in {"diff", "full", "mixed"} /\ (m = "full" => job[j].behind = {} /\ job[j].ran = "full")
    BY <1>2
  <2>2. lastMode' = [lastMode EXCEPT ![q] = m] /\ lastMode \in [Revisions -> {"none", "diff", "full", "mixed"}]
    BY <1>0, <1>7 DEF Typed
  <2>3. q <= pushed
    BY <1>0, <1>1, ContentAssumption DEF ContentAssumption, Typed, Revisions
  <2>4. \A r \in Revisions : r > pushed => r # q
    BY <1>0, <2>3, ContentAssumption DEF ContentAssumption, Typed, Revisions
  <2> HIDE DEF m
  <2> QED
    BY <1>0, <1>2, <2>1, <2>2, <2>4 DEF Typed
<1>9. ChangedIsCurrent' /\ FullIsCurrent'
  <2>1. ASSUME NEW r \in 1..pushed PROVE Told(r)'
    <3>0. r \in Revisions
      BY <1>0, TreesStay
    <3>1. CASE r = q
      <4>1. ToIndex(r)' = ToIndex(r) /\ ToRemove(r)' = ToRemove(r)
        BY <1>0, TreesStay
      <4> QED
        BY <1>3, <1>5, <1>8, <3>1, <4>1 DEF Told, CurrentRows
    <3>2. CASE r # q
      <4>1. Told(r)
        BY TellsAll DEF ContentInv
      <4>2. rows'[r] = rows[r] /\ lastMode'[r] = lastMode[r]
        BY <1>4, <1>8, <3>0, <3>2
      <4> QED
        BY <1>0, <1>3, <4>1, <4>2, TreesStay DEF Told
    <3> QED
      BY <3>1, <3>2
  <2>2. (ChangedIsCurrent /\ FullIsCurrent <=> \A r \in 1..pushed : Told(r))'
    BY TellsAll, PTL
  <2> QED
    BY <1>3, <2>1, <2>2
<1>10. /\ DOMAIN job' = Jobs
       /\ job'[j].at = "completed" /\ job'[j].writes = NoRows /\ job'[j].rev = q
       /\ DOMAIN job'[j] = DOMAIN NoJob
  BY <1>0, <1>1, <1>2 DEF Commit, NoJob
<1>11. ASSUME NEW k \in Jobs, k # j
       PROVE  \/ job'[k] = job[k]
              \/ /\ Working(k) /\ job[k].rev = q /\ job'[k].at = job[k].at
                 /\ job'[k].rev = job[k].rev /\ job'[k].takes = job[k].takes
                 /\ job'[k].writes = job[k].writes /\ job'[k].ran = job[k].ran
                 /\ job'[k].behind = job[k].behind \cup KeysOf(job[j].writes)
                 /\ DOMAIN job'[k] = DOMAIN NoJob
  <2>1. DOMAIN job[k] = DOMAIN NoJob
    BY <1>0 DEF Typed, JobTyped
  <2>2. job'[k] = IF Working(k) /\ job[k].rev = q
                  THEN [job[k] EXCEPT !.behind = @ \cup KeysOf(job[j].writes)] ELSE job[k]
    BY <1>1, <1>11 DEF Commit
  <2> HIDE DEF KeysOf
  <2> QED
    BY <2>1, <2>2 DEF NoJob
<1>12. \A k \in KeysOf(job[j].writes) : k[1] \notin ToRemove(q)
  <2> SUFFICES ASSUME NEW f \in Files, NEW i \in DOMAIN job[j].writes[f], f \in ToRemove(q) PROVE FALSE
    BY DEF KeysOf
  <2>1. job[j].writes[f] = <<>>
    BY <1>1, <1>2 DEF WorkIsCurrent, CurrentRows
  <2> QED
    BY <2>1
<1>13. ASSUME NEW k \in Jobs
       PROVE  /\ JobTyped(job[k])' /\ (Working(k)' => job'[k].ran \in {"diff", "full"})
              /\ WorkIsCurrent(k)' /\ WorkMatches(k)'
  <2>0. JobTyped(job[k]) /\ WorkIsCurrent(k) /\ WorkMatches(k) /\ (Working(k) => job[k].ran \in {"diff", "full"})
    BY DEF ContentInv, Typed
  <2>1. CASE k = j
    <3>1. ~Working(k)'
      BY <1>10, <2>1 DEF Working
    <3> QED
      BY <1>3, <1>10, <2>0, <2>1, <3>1, NoRowsTyped DEF JobTyped, WorkIsCurrent, WorkMatches, Matches
  <2>2. CASE job'[k] = job[k]
    <3>1. WorkIsCurrent(k)'
      BY <1>0, <2>2, WorkKeeps DEF Working
    <3> QED
      BY <1>3, <2>0, <2>2, <3>1 DEF JobTyped, WorkMatches, Working
  <2>3. CASE /\ Working(k) /\ job[k].rev = q /\ job'[k].at = job[k].at
             /\ job'[k].rev = job[k].rev /\ job'[k].takes = job[k].takes
             /\ job'[k].writes = job[k].writes /\ job'[k].ran = job[k].ran
             /\ job'[k].behind = job[k].behind \cup KeysOf(job[j].writes)
             /\ DOMAIN job'[k] = DOMAIN NoJob
    <3>1. /\ ToIndex(q)' = ToIndex(q) /\ ToRemove(q)' = ToRemove(q) /\ tree'[q] = tree[q]
          /\ \A f, s : CurrentRows(q, f, s)' <=> CurrentRows(q, f, s)
      BY <1>0, TreesStay
    <3>2. \A i \in job'[k].behind : i[1] \notin ToRemove(q)
      BY <1>12, <2>0, <2>3 DEF WorkIsCurrent
    <3>3. WorkIsCurrent(k)'
      BY <2>0, <2>3, <3>1, <3>2 DEF WorkIsCurrent
    <3> QED
      BY <1>3, <2>0, <2>3, <3>3 DEF JobTyped, WorkMatches, Working
  <2> QED
    BY <1>11, <2>1, <2>2, <2>3
<1>14. Typed'
  BY <1>0, <1>3, <1>6, <1>8, <1>10, <1>13 DEF Typed
<1> QED
  BY <1>6, <1>9, <1>13, <1>14 DEF ContentInv

-----------------------------------------------------------------------------

LEMMA InductiveContent == Spec => []ContentInv
<1>1. ContentInv /\ [Next]_vars => ContentInv'
  <2> SUFFICES ASSUME ContentInv, [Next]_vars PROVE ContentInv'
    OBVIOUS
  <2>1. CASE UNCHANGED vars
    BY <2>1 DEF vars, ContentInv, Typed, JobTyped, WorkIsCurrent, WorkMatches, CurrentRows, ToIndex, ToRemove,
       ChangedIsCurrent, FullIsCurrent, Working
  <2> QED
    BY <2>1, PushKeeps, CreateKeeps, TakeKeeps, EndsKeep, CommitKeeps DEF Next
<1> QED
  BY <1>1, InitContent, PTL DEF Spec

\* Every variable holds a value of its type.
THEOREM ContentTypes == Spec => []TypeOK
<1>1. ContentInv => TypeOK
  BY DEF ContentInv, Typed, JobTyped, TypeOK, Rows, Row
<1> QED
  BY <1>1, InductiveContent, PTL

\* An indexed revision has the head's chunks of every file that its pull request
\* changes and none of a file that it deletes, whatever jobs run on it at once.
THEOREM ChangedIsCurrentHolds == Spec => []ChangedIsCurrent
  BY InductiveContent, PTL DEF ContentInv

\* After a full index that no other job overlapped, the revision has the head's chunks.
THEOREM FullIsCurrentHolds == Spec => []FullIsCurrent
  BY InductiveContent, PTL DEF ContentInv

\* Wherever the embedding of a chunk comes from, it is that of the chunk's text.
THEOREM VectorsMatchHolds == Spec => []VectorsMatch
<1>1. ContentInv => VectorsMatch
  BY ContentAssumption DEF ContentAssumption, ContentInv, Typed, Revisions, VectorsMatch, Matches
<1> QED
  BY <1>1, InductiveContent, PTL

\* An embedding call is closed in the records once its job has gone on.
THEOREM AttemptsClosedHolds == Spec => []AttemptsClosed
<1>1. Init => AttemptsClosed
  BY DEF Init, AttemptsClosed
<1>2. ContentInv /\ AttemptsClosed /\ [Next]_vars => AttemptsClosed'
  <2> SUFFICES ASSUME ContentInv, AttemptsClosed, [Next]_vars PROVE AttemptsClosed'
    OBVIOUS
  <2>0. /\ DOMAIN job = Jobs /\ attempt \in [Jobs -> {"none", "started", "completed", "failed"}]
        /\ \A j \in Jobs : DOMAIN job[j] = DOMAIN NoJob
    BY DEF ContentInv, Typed, JobTyped
  <2>1. CASE Push \/ UNCHANGED vars
    BY <2>1 DEF Push, vars, AttemptsClosed
  <2>2. ASSUME NEW S \in SUBSET Jobs, Create(S) PROVE AttemptsClosed'
    <3>1. attempt' = attempt /\ \A j \in S : job[j].at = "none"
      BY <2>2 DEF Create
    <3>2. \A j \in Jobs \ S : job'[j] = job[j]
      BY <2>2 DEF Create
    <3> QED
      BY <3>1, <3>2 DEF AttemptsClosed
  <2>3. ASSUME NEW j \in Jobs, Take(j) \/ Embed(j) \/ EmbedFails(j) \/ CommitFails(j) \/ Retry(j)
        PROVE  AttemptsClosed'
    <3>1. \A k \in Jobs \ {j} : job'[k] = job[k] /\ attempt'[k] = attempt[k]
      BY <2>0, <2>3 DEF Take, Embed, EmbedFails, AttemptFails, CommitFails, Retry
    <3>2. CASE Take(j)
      <4>1. PICK diff \in {job[j].mode = "diff", FALSE} :
              LET r      == job[j].rev
                  parent == IF job[j].incremental THEN Parent(r) ELSE NoRows
              IN  job' = [job EXCEPT
                      ![j].at = "embedding",
                      ![j].ran = IF diff THEN "diff" ELSE "full",
                      ![j].after = Before(j),
                      ![j].takes = Takes(r, diff, parent),
                      ![j].behind = {},
                      ![j].writes = [f \in Files |->
                          IF f \in Carried(r, diff, parent) THEN parent[f]
                          ELSE IF f \in Takes(r, diff, parent) THEN Indexed(tree[r][f], parent[f])
                          ELSE <<>>]]
        BY <3>2, Zenon DEF Take
      <4>2. job'[j].at = "embedding"
        BY <2>0, <4>1 DEF NoJob
      <4> QED
        BY <3>1, <4>2 DEF AttemptsClosed
    <3>3. CASE Embed(j) \/ EmbedFails(j)
      BY <2>0, <3>1, <3>3 DEF Embed, EmbedFails, AttemptFails, AttemptsClosed
    <3>4. CASE CommitFails(j) \/ Retry(j)
      <4>1. attempt' = attempt /\ job[j].at = "written"
        BY <3>4 DEF CommitFails, Retry
      <4> QED
        BY <3>1, <4>1 DEF AttemptsClosed
    <3> QED
      BY <2>3, <3>2, <3>3, <3>4
  <2>4. ASSUME NEW j \in Jobs, Commit(j) PROVE AttemptsClosed'
    <3>1. attempt' = attempt /\ job[j].at = "written"
      BY <2>4 DEF Commit
    <3>2. \A k \in Jobs \ {j} : job'[k] = job[k] \/ \E b : job'[k] = [job[k] EXCEPT !.behind = b]
      BY <2>4, Zenon DEF Commit
    <3>3. \A k \in Jobs \ {j} : job'[k].at = job[k].at
      BY <2>0, <3>2 DEF NoJob
    <3> QED
      BY <3>1, <3>3 DEF AttemptsClosed
  <2> QED
    BY <2>1, <2>2, <2>3, <2>4 DEF Next
<1> QED
  BY <1>1, <1>2, InductiveContent, PTL DEF Spec

=============================================================================
