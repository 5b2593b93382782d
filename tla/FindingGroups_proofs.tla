----------------------- MODULE FindingGroups_proofs -----------------------
(***************************************************************************)
(* What the groups of a pull request keep to where the tasks of two        *)
(* revisions, or a task and a dismissal, do not overlap (InTurn): the      *)
(* invariants that the run GroupsInTurn checks, for every number of        *)
(* claims, revisions, findings, attempts and faults.                       *)
(*                                                                         *)
(* The rows are what matters, and a session holds them in four places: the *)
(* committed row, the columns it has flushed, its copy, and the columns it *)
(* is about to flush.  Now(r, c) is the row as the session of r is about   *)
(* to leave it.  Every step of a session moves Now(r, c) in one of a few   *)
(* ways (Moves), gives the session up, or commits it (Sessional); one      *)
(* lemma per action shows this.  The invariants are then about moves.      *)
(***************************************************************************)
EXTENDS FindingGroups, FiniteSetTheorems, TLAPS

-----------------------------------------------------------------------------
(* Rows and sessions.                                                      *)

\* Tasks of two revisions do not overlap, nor do a task and a dismissal.
InTurn == ~Overlapping

Columns == {"state", "method", "at", "blocked", "status", "seen", "severe"}

\* A row has these columns and no others.
IsRow(row) == row = [f \in Columns |-> row[f]]

\* A row as the session of r is about to leave it.
Now(r, c) == With(Seen(r, c), tx[r].dirty[c])

TxFields == {"loaded", "copy", "dirty", "wrote", "flush", "prior", "bound", "outs", "judged"}

\* A session: its copies are rows.
IsTx(x) ==
    /\ DOMAIN x = TxFields
    /\ x.loaded \in BOOLEAN /\ x.flush \in BOOLEAN
    /\ DOMAIN x.copy = Claims /\ \A c \in Claims : IsRow(x.copy[c])
    /\ DOMAIN x.dirty = Claims /\ DOMAIN x.wrote = Claims
    /\ x.bound \in [Slots -> Claims \cup {NoClaim}]

Stages == {"none", "sync", "synced", "review", "bind", "suppress", "close", "judge", "verify", "commit", "enqueue",
           "publish", "finish", "done", "skipped", "failed"}

Typed ==
    /\ head \in Nat
    /\ DOMAIN rows = Claims /\ \A c \in Claims : IsRow(rows[c])
    /\ DOMAIN report = Revs
    /\ \A r \in Revs : DOMAIN report[r] \subseteq Slots /\ \A s \in DOMAIN report[r] : report[r][s] \in Claims
    /\ bound \in [Revs -> [Slots -> Claims \cup {NoClaim}]]
    /\ DOMAIN judged = Revs /\ DOMAIN stage = Revs /\ DOMAIN tx = Revs
    /\ \A r \in Revs : stage[r] \in Stages /\ IsTx(tx[r])

LEMMA WithRow ==
    ASSUME NEW row, IsRow(row), NEW fields
    PROVE  /\ IsRow(With(row, fields))
           /\ \A f \in Columns : With(row, fields)[f] = IF f \in DOMAIN fields THEN fields[f] ELSE row[f]
           /\ DOMAIN fields = {} => With(row, fields) = row
<1>1. DOMAIN row = Columns
    BY DEF IsRow
<1>2. With(row, fields) = [f \in Columns |-> IF f \in DOMAIN fields THEN fields[f] ELSE row[f]]
    BY <1>1 DEF With
<1>3. IsRow(With(row, fields)) /\ \A f \in Columns : With(row, fields)[f] = IF f \in DOMAIN fields THEN fields[f] ELSE row[f]
    BY <1>2 DEF IsRow
<1>4. ASSUME DOMAIN fields = {} PROVE With(row, fields) = row
    <2>1. With(row, fields) = [f \in Columns |-> row[f]]
        BY <1>2, <1>4
    <2> QED BY <2>1 DEF IsRow
<1> QED BY <1>3, <1>4

\* Writing what has changed makes the new row of the old one.
LEMMA WithChanges ==
    ASSUME NEW old, NEW new, IsRow(old), IsRow(new)
    PROVE  With(old, Changes(old, new)) = new
<1>1. DOMAIN old = Columns /\ DOMAIN new = Columns
    BY DEF IsRow
<1>2. /\ DOMAIN Changes(old, new) = {f \in Columns : new[f] # old[f]}
      /\ \A f \in DOMAIN Changes(old, new) : Changes(old, new)[f] = new[f]
    BY <1>1 DEF Changes
<1>3. \A f \in Columns : With(old, Changes(old, new))[f] = new[f]
    BY <1>2, WithRow
<1>4. IsRow(With(old, Changes(old, new)))
    BY WithRow
<1> QED BY <1>3, <1>4 DEF IsRow

LEMMA ColumnsOf ==
    /\ IsRow(NoRow)
    /\ NoRow.state = "absent" /\ NoRow.method = "none" /\ NoRow.at = 0 /\ NoRow.seen = 0 /\ NoRow.blocked = "none"
BY DEF NoRow, IsRow, Columns

LEMMA NoTxFacts ==
    /\ IsTx(NoTx) /\ NoTx.loaded = FALSE /\ NoTx.flush = FALSE /\ NoTx.outs = {} /\ NoTx.judged = "none"
    /\ \A c \in Claims : NoTx.copy[c] = NoRow /\ DOMAIN NoTx.dirty[c] = {} /\ DOMAIN NoTx.wrote[c] = {}
    /\ \A s \in Slots : NoTx.bound[s] = NoClaim
    /\ NoTx.bound = NoGroups
<1>1. /\ DOMAIN NoTx = TxFields /\ NoTx.loaded = FALSE /\ NoTx.flush = FALSE /\ NoTx.outs = {} /\ NoTx.judged = "none"
      /\ NoTx.copy = [c \in Claims |-> NoRow] /\ NoTx.dirty = Nothing /\ NoTx.wrote = Nothing /\ NoTx.bound = NoGroups
    BY DEF NoTx, TxFields
<1>2. DOMAIN Nothing = Claims /\ \A c \in Claims : DOMAIN Nothing[c] = {}
    BY DEF Nothing
<1>3. NoGroups \in [Slots -> Claims \cup {NoClaim}] /\ \A s \in Slots : NoGroups[s] = NoClaim
    BY DEF NoGroups
<1> QED BY <1>1, <1>2, <1>3, ColumnsOf DEF IsTx

\* A revision that is not in session sees what is committed.
LEMMA NoTxNow ==
    ASSUME Typed, NEW r \in Revs, tx[r] = NoTx, NEW c \in Claims
    PROVE  Seen(r, c) = rows[c] /\ Now(r, c) = rows[c]
<1>1. IsRow(rows[c]) /\ DOMAIN tx[r].wrote[c] = {} /\ DOMAIN tx[r].dirty[c] = {}
    BY NoTxFacts DEF Typed
<1>2. Seen(r, c) = rows[c]
    BY <1>1, WithRow DEF Seen
<1> QED BY <1>1, <1>2, WithRow DEF Now

LEMMA NowRow ==
    ASSUME Typed, NEW r \in Revs, NEW c \in Claims
    PROVE  IsRow(Seen(r, c)) /\ IsRow(Now(r, c))
BY WithRow DEF Seen, Now, Typed

-----------------------------------------------------------------------------
(* The turns of revisions.                                                 *)

\* What is loaded is what is seen; changes that are not flushed are about to be, but while
\* findings are bound.
InForm(r) ==
    LET x == tx[r]
    IN  /\ x.loaded => /\ stage[r] \in Loads /\ ~x.flush
                       /\ \A c \in Claims : x.copy[c] = Seen(r, c)
        /\ stage[r] = "bind" => \A c \in Claims : x.copy[c].state # "absent" => x.copy[c] = Seen(r, c)
        /\ stage[r] # "bind" /\ ~x.flush => \A c \in Claims : DOMAIN x.dirty[c] = {}
        /\ stage[r] \in Ended \cup {"review", "enqueue"} => x = NoTx

\* A session has its turn: earlier revisions have ended, and no dismissal is open.
HasTurn(r) == dismissing = NoRequest /\ \A q \in 1..(r - 1) : stage[q] \in Ended

\* A row that does not exist tells nothing.
Blank(row) == row.state = "absent" => row.method = "none" /\ row.at = 0 /\ row.seen = 0

Orderly ==
    /\ \A r \in Revs : stage[r] = "none" <=> r > head
    /\ \A r \in Revs : InForm(r)
    /\ \A r \in Revs : InSession(r) => HasTurn(r)
    /\ \A c \in Claims : Blank(rows[c]) /\ \A r \in Revs : Blank(Now(r, c))
    /\ \A r \in Revs : (\E s \in Slots : bound[r][s] # NoClaim) =>
         r <= head /\ \A q \in 1..(r - 1) : stage[q] \in Ended
    /\ dismissing # NoRequest =>
         /\ dismissing.group \in Claims /\ dismissing.copy = rows[dismissing.group]
         /\ dismissing.copy.state = "active"

LEMMA RevNumbers == \A r \in Revs : r \in Nat /\ r >= 1 /\ \A q \in 1 .. (r - 1) : q \in Revs /\ q # r
BY GroupsAssumption DEF Revs

\* While a session is open no other revision and no dismissal has one.
LEMMA Alone ==
    ASSUME Typed, Orderly, NEW r \in Revs, HasTurn(r), stage[r] \notin Ended, NEW q \in Revs, q # r
    PROVE  tx[q] = NoTx
<1>1. CASE q < r
    <2>1. q \in 1 .. (r - 1)
        BY <1>1, RevNumbers
    <2> QED BY <2>1 DEF HasTurn, Orderly, InForm
<1>2. CASE q > r
    <2>1. r \in 1 .. (q - 1)
        BY <1>2, RevNumbers
    <2>2. ~ HasTurn(q)
        BY <2>1 DEF HasTurn
    <2> QED BY <2>2 DEF Orderly, InSession
<1> QED BY <1>1, <1>2, RevNumbers

-----------------------------------------------------------------------------
(* What the session of a revision does to a row.                           *)

\* These columns are as they were.
Same(old, new, columns) == \A f \in columns : new[f] = old[f]

\* The push says something of the row; the judge lowers its severity.
Marked(old, new) == Same(old, new, {"state", "method", "at", "seen"})
Lowered(old, new) == Same(old, new, Columns \ {"severe"})

\* A row that is not settled is settled at r, by something else than a person; as absent
\* only if r does not report it.
SettledAt(r, old, new) ==
    /\ old.state # "resolved" /\ new.state = "resolved" /\ new.at = r /\ new.blocked = "none"
    /\ new.seen = old.seen
    /\ new.method \in {"absent_and_addressed", "judge_dismissed", "verification_dismissed", "head_contradiction"}
    /\ new.method = "absent_and_addressed" => old.state = "active" /\ old.seen # r

\* A report opens the row, unless it was dismissed.
OpenedAt(r, old, new) ==
    /\ ~ SkipsReport(old) /\ new.state = "active" /\ new.seen = r
    /\ \/ new.method = "none" /\ new.at = 0 /\ new.blocked = "none"
       \/ ~ Reopens(old) /\ Same(old, new, {"method", "at", "blocked"})

Moves(r, old, new) ==
    \/ new = old
    \/ stage[r] = "sync" /\ Marked(old, new)
    \/ stage[r] \in {"suppress", "close", "judge", "verify", "publish"} /\ (Lowered(old, new) \/ SettledAt(r, old, new))
    \/ stage[r] = "bind" /\ OpenedAt(r, old, new)

\* Before its review a revision settles nothing.
Early == {"none", "sync", "synced", "review"}

\* The session of r goes on, begins again, or commits.
Goes(r) ==
    /\ UNCHANGED rows
    /\ HasTurn(r) /\ \A c \in Claims : Moves(r, Now(r, c), Now(r, c)')
Resets(r) == UNCHANGED rows /\ tx'[r] = NoTx
Saves(r) ==
    /\ HasTurn(r) /\ tx'[r] = NoTx
    /\ DOMAIN rows' = Claims /\ \A c \in Claims : rows'[c] = Now(r, c)

\* A finding is bound to a group that its report has opened, or that was dismissed.
Attaches(r) ==
    \A s \in Slots : \A c \in Claims :
        tx'[r].bound[s] = c => \/ tx[r].bound[s] = c
                               \/ Goes(r) /\ (OpenedAt(r, Now(r, c), Now(r, c)') \/ SkipsReport(Now(r, c)'))

\* What a commit of the reconciliation tells, and every other step leaves alone.
Concludes(r) ==
    \/ outcomes' = outcomes /\ bound'[r] = bound[r] /\ judged'[r] = judged[r]
    \/ /\ stage[r] = "commit" /\ stage'[r] = "enqueue" /\ Saves(r)
       /\ outcomes' = outcomes \cup tx[r].outs /\ bound'[r] = tx[r].bound /\ judged'[r] = tx[r].judged

Sessional(r) ==
    /\ UNCHANGED <<head, dismissing>>
    /\ DOMAIN tx' = Revs /\ DOMAIN stage' = Revs /\ DOMAIN judged' = Revs /\ DOMAIN report' = Revs
    /\ \A q \in Revs \ {r} :
         tx'[q] = tx[q] /\ stage'[q] = stage[q] /\ judged'[q] = judged[q] /\ bound'[q] = bound[q] /\ report'[q] = report[q]
    /\ stage[r] \notin Ended /\ stage'[r] \in Stages \ {"none"} /\ (stage'[r] \in Early => stage[r] \in Early)
    /\ IsTx(tx'[r]) /\ InForm(r)'
    /\ Goes(r) \/ Resets(r) \/ Saves(r)
    /\ InSession(r)' => HasTurn(r)
    /\ report'[r] = report[r] \/ stage[r] = "review"
    /\ DOMAIN report'[r] \subseteq Slots /\ \A s \in DOMAIN report'[r] : report'[r][s] \in Claims
    /\ bound' \in [Revs -> [Slots -> Claims \cup {NoClaim}]]
    /\ Concludes(r) /\ Attaches(r)

\* The stage of r is over: these changes are to be flushed, and the next stage begins.
LeftWith(r, changed, next) ==
    /\ DOMAIN tx' = Revs /\ \A q \in Revs \ {r} : tx'[q] = tx[q]
    /\ DOMAIN tx'[r] = TxFields
    /\ tx'[r].loaded = FALSE /\ tx'[r].dirty = changed
    /\ tx'[r].flush \in BOOLEAN /\ (~tx'[r].flush => Touched(changed) = {})
    /\ tx'[r].copy = tx[r].copy /\ tx'[r].wrote = tx[r].wrote /\ tx'[r].prior = tx[r].prior /\ tx'[r].bound = tx[r].bound
    /\ DOMAIN stage' = Revs /\ stage'[r] = next /\ \A q \in Revs \ {r} : stage'[q] = stage[q]

LEMMA LeaveFacts ==
    ASSUME Typed, NEW r \in Revs, NEW changed, NEW next, Leave(r, changed, next)
    PROVE  LeftWith(r, changed, next) /\ tx'[r].outs = tx[r].outs /\ tx'[r].judged = tx[r].judged
<1> DEFINE full == Touched(changed) # {}
<1>1. /\ DOMAIN tx = Revs /\ DOMAIN tx[r] = TxFields /\ DOMAIN stage = Revs
    BY DEF Typed, IsTx
<1>2. /\ tx' = [tx EXCEPT ![r].dirty = changed, ![r].flush = full, ![r].loaded = FALSE]
      /\ stage' = [stage EXCEPT ![r] = next]
    BY DEF Leave
<1>3. full \in BOOLEAN /\ (~full => Touched(changed) = {})
    BY Zenon
<1> HIDE DEF full
<1>4. /\ DOMAIN tx' = Revs /\ \A q \in Revs \ {r} : tx'[q] = tx[q]
      /\ DOMAIN tx'[r] = TxFields
      /\ tx'[r].loaded = FALSE /\ tx'[r].dirty = changed /\ tx'[r].flush = full
      /\ tx'[r].copy = tx[r].copy /\ tx'[r].wrote = tx[r].wrote /\ tx'[r].prior = tx[r].prior /\ tx'[r].bound = tx[r].bound
      /\ tx'[r].outs = tx[r].outs /\ tx'[r].judged = tx[r].judged
    BY <1>1, <1>2 DEF TxFields
<1>5. DOMAIN stage' = Revs /\ stage'[r] = next /\ \A q \in Revs \ {r} : stage'[q] = stage[q]
    BY <1>1, <1>2
<1> QED BY <1>3, <1>4, <1>5 DEF LeftWith

LEMMA ConcludedFacts ==
    ASSUME Typed, NEW r \in Revs, NEW R, NEW outs, NEW status, tx' = [tx EXCEPT ![r] = Concluded(r, R, outs, status)],
           NEW next, stage' = [stage EXCEPT ![r] = next]
    PROVE  LeftWith(r, Becomes(r, R), next) /\ tx'[r].outs = outs /\ tx'[r].judged = status
<1> DEFINE changed == Becomes(r, R)
           full == Touched(changed) # {}
<1>1. /\ DOMAIN tx = Revs /\ DOMAIN tx[r] = TxFields /\ DOMAIN stage = Revs
    BY DEF Typed, IsTx
<1>2. tx' = [tx EXCEPT ![r] = [tx[r] EXCEPT !.loaded = FALSE, !.dirty = changed, !.outs = outs, !.judged = status,
                                            !.flush = full]]
    BY DEF Concluded
<1>3. full \in BOOLEAN /\ (~full => Touched(changed) = {})
    BY Zenon
<1> HIDE DEF full, changed
<1>4. /\ DOMAIN tx' = Revs /\ \A q \in Revs \ {r} : tx'[q] = tx[q]
      /\ DOMAIN tx'[r] = TxFields
      /\ tx'[r].loaded = FALSE /\ tx'[r].dirty = changed /\ tx'[r].flush = full
      /\ tx'[r].copy = tx[r].copy /\ tx'[r].wrote = tx[r].wrote /\ tx'[r].prior = tx[r].prior /\ tx'[r].bound = tx[r].bound
      /\ tx'[r].outs = outs /\ tx'[r].judged = status
    BY <1>1, <1>2 DEF TxFields
<1>5. DOMAIN stage' = Revs /\ stage'[r] = next /\ \A q \in Revs \ {r} : stage'[q] = stage[q]
    BY <1>1
<1> QED BY <1>3, <1>4, <1>5 DEF LeftWith, changed

\* A session that has loaded the rows and leaves them as new.
LEMMA LeftNow ==
    ASSUME Typed, Orderly, NEW r \in Revs, tx[r].loaded, UNCHANGED <<rows, dismissing>>,
           NEW changed, DOMAIN changed = Claims, NEW new, NEW next, LeftWith(r, changed, next),
           \A c \in Claims : With(tx[r].copy[c], changed[c]) = new[c],
           next \notin {"bind", "review", "enqueue"} \cup Ended
    PROVE  /\ IsTx(tx'[r]) /\ InForm(r)' /\ HasTurn(r) /\ stage[r] \in Loads
           /\ \A c \in Claims : tx[r].copy[c] = Now(r, c) /\ Now(r, c)' = new[c]
<1>1. IsTx(tx[r]) /\ InForm(r)
    BY DEF Typed, Orderly
<1>2. stage[r] \in Loads /\ ~ tx[r].flush /\ \A c \in Claims : tx[r].copy[c] = Seen(r, c)
    BY <1>1 DEF InForm
<1>3. ASSUME NEW c \in Claims PROVE tx[r].copy[c] = Now(r, c) /\ Now(r, c)' = new[c] /\ Seen(r, c)' = Seen(r, c)
    <2>1. DOMAIN tx[r].dirty[c] = {} /\ IsRow(Seen(r, c))
        BY <1>1, <1>2, NowRow DEF InForm, Loads
    <2>2. Now(r, c) = Seen(r, c)
        BY <2>1, WithRow DEF Now
    <2>3. Seen(r, c)' = Seen(r, c)
        BY DEF Seen, LeftWith
    <2>4. Now(r, c)' = With(Seen(r, c)', tx'[r].dirty[c])
        BY DEF Now
    <2>5. Now(r, c)' = With(tx[r].copy[c], changed[c])
        BY <1>2, <2>3, <2>4 DEF LeftWith
    <2> QED BY <1>2, <2>2, <2>3, <2>5
<1>4. IsTx(tx'[r])
    BY <1>1 DEF IsTx, LeftWith
<1>5. InForm(r)'
    BY DEF InForm, LeftWith, Touched
<1>6. HasTurn(r)
    <2>1. tx[r] # NoTx
        BY NoTxFacts
    <2> QED BY <2>1 DEF Orderly, InSession
<1> QED BY <1>2, <1>3, <1>4, <1>5, <1>6

-----------------------------------------------------------------------------
(* What the rules make of a row.                                           *)

LEMMA PairedMarks ==
    ASSUME NEW row, IsRow(row), NEW compared, NEW touched
    PROVE  IsRow(Paired(row, compared, touched)) /\ Marked(row, Paired(row, compared, touched))
<1> DEFINE lost == [blocked |-> "compare_failed", status |-> "still_open"]
           st == IF row.state = "resolved" THEN "judge_dismissed" ELSE IF touched THEN "addressed" ELSE "still_open"
           told == [blocked |-> "none", status |-> st]
<1>1. Paired(row, compared, touched) \in {With(row, lost), With(row, told)}
    BY DEF Paired
<1>2. DOMAIN lost = {"blocked", "status"} /\ DOMAIN told = {"blocked", "status"}
    OBVIOUS
<1> HIDE DEF lost, told
<1>3. /\ IsRow(With(row, lost)) /\ Marked(row, With(row, lost))
      /\ IsRow(With(row, told)) /\ Marked(row, With(row, told))
    BY <1>2, WithRow DEF Marked, Same, Columns
<1> QED BY <1>1, <1>3

LEMMA CleanedMarks ==
    ASSUME NEW row, IsRow(row), NEW compared, NEW path
    PROVE  IsRow(Cleaned(row, compared, path)) /\ Marked(row, Cleaned(row, compared, path))
<1>1. ASSUME NEW fields, DOMAIN fields \subseteq {"blocked", "status"}
      PROVE  IsRow(With(row, fields)) /\ Marked(row, With(row, fields))
    BY <1>1, WithRow DEF Marked, Same, Columns
<1> DEFINE gone == [blocked |-> IF path = "gone" THEN "compare_failed" ELSE "head_check_failed", status |-> "still_open"]
           free == [blocked |-> "none"]
           lost == [blocked |-> "head_check_failed", status |-> "still_open"]
           settled == [blocked |-> "none", status |-> "addressed"]
<1>2. Cleaned(row, compared, path) \in {With(row, gone), With(row, free), With(row, lost), With(row, settled), row}
    BY DEF Cleaned
<1>3. DOMAIN gone = {"blocked", "status"} /\ DOMAIN free = {"blocked"} /\ DOMAIN lost = {"blocked", "status"}
      /\ DOMAIN settled = {"blocked", "status"}
    OBVIOUS
<1> HIDE DEF gone, free, lost, settled
<1>4. Marked(row, row)
    BY DEF Marked, Same
<1> QED BY <1>1, <1>2, <1>3, <1>4

LEMMA StampedMarks ==
    ASSUME Typed, NEW r \in Revs, NEW c \in Claims, NEW compared, NEW touched, NEW path
    PROVE  IsRow(Stamped(r, c, compared, touched, path))
           /\ Marked(tx[r].copy[c], Stamped(r, c, compared, touched, path))
<1> DEFINE row == With(tx[r].copy[c], [status |-> "none"])
           prior == tx[r].prior
           paired == IF InCohort(row, published, PublishedAt(c, r), prior, r)
                     THEN Paired(row, compared, c \in touched) ELSE row
<1>1. IsRow(tx[r].copy[c])
    BY DEF Typed, IsTx
<1>2. IsRow(row) /\ Marked(tx[r].copy[c], row)
    <2> DEFINE fields == [status |-> "none"]
    <2>1. DOMAIN fields = {"status"}
        OBVIOUS
    <2> HIDE DEF fields
    <2>2. IsRow(With(tx[r].copy[c], fields)) /\ Marked(tx[r].copy[c], With(tx[r].copy[c], fields))
        BY <1>1, <2>1, WithRow DEF Marked, Same, Columns
    <2> QED BY <2>2 DEF fields
<1>3. Stamped(r, c, compared, touched, path) \in {Cleaned(paired, compared, path[PlaceOf[c]]), paired}
    BY DEF Stamped
<1>4. paired \in {Paired(row, compared, c \in touched), row}
    OBVIOUS
<1> HIDE DEF row, paired
<1>5. IsRow(paired) /\ Marked(tx[r].copy[c], paired)
    BY <1>2, <1>4, PairedMarks DEF Marked, Same
<1>6. /\ IsRow(Cleaned(paired, compared, path[PlaceOf[c]]))
      /\ Marked(tx[r].copy[c], Cleaned(paired, compared, path[PlaceOf[c]]))
    BY <1>5, CleanedMarks DEF Marked, Same
<1> QED BY <1>3, <1>5, <1>6

\* A closure or a suppression settles a row that is not settled.
LEMMA ClosureSettles ==
    ASSUME NEW row, IsRow(row), NEW r, NEW method
    PROVE  /\ IsRow(With(row, Closure(method, r)))
           /\ row.state # "resolved" /\ method \in {"judge_dismissed", "verification_dismissed"}
                => SettledAt(r, row, With(row, Closure(method, r)))
           /\ row.state = "active" /\ row.seen # r /\ method = "absent_and_addressed"
                => SettledAt(r, row, With(row, Closure(method, r)))
<1>1. /\ DOMAIN Closure(method, r) = {"state", "method", "at", "blocked"}
      /\ Closure(method, r).state = "resolved" /\ Closure(method, r).method = method
      /\ Closure(method, r).at = r /\ Closure(method, r).blocked = "none"
    BY DEF Closure
<1> QED BY <1>1, WithRow DEF SettledAt, Columns

LEMMA SuppressionSettles ==
    ASSUME NEW row, IsRow(row), NEW r, row.state = "active"
    PROVE  IsRow(With(row, Suppression(r))) /\ SettledAt(r, row, With(row, Suppression(r)))
<1>1. /\ DOMAIN Suppression(r) = {"status", "state", "method", "at", "blocked"}
      /\ Suppression(r).state = "resolved" /\ Suppression(r).method = "head_contradiction"
      /\ Suppression(r).at = r /\ Suppression(r).blocked = "none"
    BY DEF Suppression
<1> QED BY <1>1, WithRow DEF SettledAt, Columns

LEMMA ClosedSettles ==
    ASSUME Typed, NEW r \in Revs, NEW C, NEW gone, NEW c \in Claims
    PROVE  LET old == tx[r].copy[c] new == Closed(r, C, gone)[c]
           IN  IsRow(new) /\ (new = old \/ SettledAt(r, old, new))
<1> DEFINE old == tx[r].copy[c]
           new == Closed(r, C, gone)[c]
<1>1. IsRow(old)
    BY DEF Typed, IsTx
<1>2. CASE new = old
    BY <1>1, <1>2
<1>3. CASE new # old
    <2>1. new = With(old, Closure("absent_and_addressed", r)) /\ old.state = "active" /\ old.seen # r
        BY <1>3 DEF Closed, ClosesAsAbsent
    <2> QED BY <1>1, <2>1, ClosureSettles
<1> QED BY <1>2, <1>3

\* The judge's answers settle rows that are not settled, or lower their severity.
LEMMA JudgedSettles ==
    ASSUME Typed, NEW r \in Revs, NEW T, NEW answer, \A s \in T : tx[r].copy[tx[r].bound[s]].state # "resolved",
           NEW c \in Claims
    PROVE  LET old == tx[r].copy[c] new == JudgedRows(r, T, answer)[c]
           IN  /\ IsRow(new) /\ (new = old \/ Lowered(old, new) \/ SettledAt(r, old, new))
               /\ new.state # "resolved" => old.state # "resolved"
<1> DEFINE old == tx[r].copy[c]
           new == JudgedRows(r, T, answer)[c]
           Says(a) == \E s \in T : tx[r].bound[s] = c /\ answer[s] = a
           first == IF Says("dismissed") THEN Closure("judge_dismissed", r) ELSE <<>>
           second == IF Says("modified") THEN [severe |-> FALSE] ELSE <<>>
           mid == With(old, first)
<1>1. IsRow(old)
    BY DEF Typed, IsTx
<1>2. new = With(mid, second)
    BY DEF JudgedRows
<1>3. IsRow(mid) /\ (mid = old \/ SettledAt(r, old, mid))
    <2>1. CASE Says("dismissed")
        <3>1. old.state # "resolved"
            BY <2>1
        <3>2. mid = With(old, Closure("judge_dismissed", r))
            BY <2>1
        <3> QED BY <1>1, <3>1, <3>2, ClosureSettles
    <2>2. CASE ~ Says("dismissed")
        <3>1. first = <<>> /\ DOMAIN first = {}
            BY <2>2
        <3> QED BY <1>1, <3>1, WithRow
    <2> QED BY <2>1, <2>2
<1>4. DOMAIN second \subseteq {"severe"}
    OBVIOUS
<1> HIDE DEF mid, second, first, old, new
<1>5. IsRow(new) /\ Lowered(mid, new)
    BY <1>2, <1>3, <1>4, WithRow DEF Lowered, Same, Columns
<1>6. new = old \/ Lowered(old, new) \/ SettledAt(r, old, new)
    BY <1>3, <1>5 DEF Lowered, Same, SettledAt, Columns
<1>7. new.state # "resolved" => old.state # "resolved"
    BY <1>6 DEF Lowered, Same, SettledAt, Columns
<1> QED BY <1>5, <1>6, <1>7 DEF old, new

-----------------------------------------------------------------------------
(* The steps of a session.                                                 *)

\* What a step of r leaves alone of the rest, so that it is of the session.
Elsewise(r) == UNCHANGED <<head, dismissing, judged, bound, report, outcomes>>

LEMMA LeftIsSessional ==
    ASSUME Typed, Orderly, NEW r \in Revs, tx[r].loaded, UNCHANGED rows, Elsewise(r),
           NEW changed, DOMAIN changed = Claims, NEW new, NEW next, LeftWith(r, changed, next),
           \A c \in Claims : With(tx[r].copy[c], changed[c]) = new[c],
           next \in {"close", "judge", "verify", "commit", "finish"} \/ (next = "synced" /\ stage[r] = "sync"),
           \A c \in Claims : Moves(r, tx[r].copy[c], new[c])
    PROVE  Sessional(r) /\ Goes(r) /\ tx'[r].bound = tx[r].bound
<1>1. next \notin {"bind", "review", "enqueue"} \cup Ended /\ next # "none"
    BY DEF Ended
<1>2. /\ IsTx(tx'[r]) /\ InForm(r)' /\ HasTurn(r) /\ stage[r] \in Loads
      /\ \A c \in Claims : tx[r].copy[c] = Now(r, c) /\ Now(r, c)' = new[c]
    BY <1>1, LeftNow DEF Elsewise
<1>3. \A c \in Claims : Moves(r, Now(r, c), Now(r, c)')
    BY <1>2
<1>4. stage[r] \notin Ended
    BY <1>2 DEF Loads, Ended
<1>5. Goes(r)
    BY <1>2, <1>3 DEF Goes
<1>6. DOMAIN tx' = Revs /\ DOMAIN stage' = Revs /\ stage'[r] \in Stages \ {"none"} /\ tx'[r].bound = tx[r].bound
      /\ \A q \in Revs \ {r} : tx'[q] = tx[q] /\ stage'[q] = stage[q]
    BY <1>1 DEF LeftWith, Stages
<1>7. stage'[r] \in Early => stage[r] \in Early
    BY DEF LeftWith, Early
<1>8. Concludes(r) /\ Attaches(r)
    BY <1>6 DEF Concludes, Attaches, Elsewise
<1> QED BY <1>2, <1>4, <1>5, <1>6, <1>7, <1>8 DEF Sessional, Elsewise, Typed

LEMMA SyncFacts ==
    ASSUME Typed, Orderly, NEW r \in Revs, Sync(r)
    PROVE  Sessional(r) /\ Goes(r) /\ stage[r] = "sync" /\ stage'[r] = "synced" /\ tx'[r].bound = tx[r].bound
           /\ UNCHANGED <<bound, judged, outcomes>>
<1>1. /\ stage[r] = "sync" /\ tx[r].loaded
      /\ UNCHANGED <<head, rows, report, bound, outcomes, judged, published, retries, dismissing, dismissals, faults>>
    BY DEF Sync
<1>2. PICK compared, touched, path :
        Leave(r, IF tx[r].prior = 0 \/ head # r THEN Nothing
                 ELSE Becomes(r, [c \in Claims |-> IF tx[r].copy[c].state = "absent" THEN NoRow
                                                   ELSE Stamped(r, c, compared, touched, path)]), "synced")
    BY DEF Sync
<1>3. InForm(r) /\ \A c \in Claims : IsRow(tx[r].copy[c])
    BY DEF Orderly, Typed, IsTx
<1>4. Elsewise(r)
    BY <1>1 DEF Elsewise
<1>5. CASE tx[r].prior = 0 \/ head # r
    <2>1. LeftWith(r, Nothing, "synced")
        BY <1>2, <1>5, LeaveFacts
    <2>2. DOMAIN Nothing = Claims /\ \A c \in Claims : DOMAIN Nothing[c] = {}
        BY DEF Nothing
    <2>3. \A c \in Claims : With(tx[r].copy[c], Nothing[c]) = tx[r].copy[c]
        BY <1>3, <2>2, WithRow
    <2>4. \A c \in Claims : Moves(r, tx[r].copy[c], tx[r].copy[c])
        BY DEF Moves
    <2>5. Sessional(r) /\ Goes(r) /\ tx'[r].bound = tx[r].bound
        BY <1>1, <1>4, <2>1, <2>2, <2>3, <2>4, LeftIsSessional
    <2> QED BY <1>1, <2>1, <2>5 DEF LeftWith
<1>6. CASE ~ (tx[r].prior = 0 \/ head # r)
    <2> DEFINE new == [c \in Claims |-> IF tx[r].copy[c].state = "absent" THEN NoRow
                                        ELSE Stamped(r, c, compared, touched, path)]
               changed == Becomes(r, new)
    <2>1. LeftWith(r, changed, "synced")
        BY <1>2, <1>6, LeaveFacts
    <2>2. ASSUME NEW c \in Claims PROVE IsRow(new[c]) /\ Moves(r, tx[r].copy[c], new[c])
        <3>1. CASE tx[r].copy[c].state = "absent"
            <4>1. tx[r].copy[c] = Seen(r, c) /\ Blank(Now(r, c)) /\ DOMAIN tx[r].dirty[c] = {}
                BY <1>1, <1>3 DEF InForm, Orderly
            <4>2. Now(r, c) = tx[r].copy[c]
                BY <1>3, <4>1, WithRow DEF Now
            <4>3. Marked(tx[r].copy[c], NoRow)
                BY <3>1, <4>1, <4>2, ColumnsOf DEF Blank, Marked, Same
            <4> QED BY <1>1, <3>1, <4>3, ColumnsOf DEF Moves
        <3>2. CASE tx[r].copy[c].state # "absent"
            BY <1>1, <3>2, StampedMarks DEF Moves
        <3> QED BY <3>1, <3>2
    <2>3. DOMAIN changed = Claims /\ \A c \in Claims : changed[c] = Changes(tx[r].copy[c], new[c])
        BY DEF Becomes
    <2>4. \A c \in Claims : With(tx[r].copy[c], changed[c]) = new[c]
        BY <1>3, <2>2, <2>3, WithChanges
    <2> HIDE DEF new, changed
    <2>5. Sessional(r) /\ Goes(r) /\ tx'[r].bound = tx[r].bound
        BY <1>1, <1>4, <2>1, <2>2, <2>3, <2>4, LeftIsSessional
    <2> QED BY <1>1, <2>1, <2>5 DEF LeftWith
<1> QED BY <1>5, <1>6

\* A stage that leaves the rows as new.
LEMMA BecomesFacts ==
    ASSUME Typed, Orderly, NEW r \in Revs, tx[r].loaded, UNCHANGED rows, Elsewise(r),
           NEW new, NEW next \in {"close", "judge", "verify", "commit", "finish"},
           LeftWith(r, Becomes(r, new), next),
           \A c \in Claims : IsRow(new[c]) /\ Moves(r, tx[r].copy[c], new[c])
    PROVE  /\ Sessional(r) /\ Goes(r) /\ tx'[r].bound = tx[r].bound /\ stage'[r] = next
           /\ \A c \in Claims : tx[r].copy[c] = Now(r, c) /\ Now(r, c)' = new[c]
<1> DEFINE changed == Becomes(r, new)
<1>1. \A c \in Claims : IsRow(tx[r].copy[c])
    BY DEF Typed, IsTx
<1>2. DOMAIN changed = Claims /\ \A c \in Claims : changed[c] = Changes(tx[r].copy[c], new[c])
    BY DEF Becomes
<1>3. \A c \in Claims : With(tx[r].copy[c], changed[c]) = new[c]
    BY <1>1, <1>2, WithChanges
<1> HIDE DEF changed
<1>4. LeftWith(r, changed, next)
    BY DEF changed
<1>5. Sessional(r) /\ Goes(r) /\ tx'[r].bound = tx[r].bound
    BY <1>2, <1>3, <1>4, LeftIsSessional
<1>6. next \notin {"bind", "review", "enqueue"} \cup Ended
    BY DEF Ended
<1>7. \A c \in Claims : tx[r].copy[c] = Now(r, c) /\ Now(r, c)' = new[c]
    BY <1>2, <1>3, <1>4, <1>6, LeftNow DEF Elsewise
<1> QED BY <1>4, <1>5, <1>7 DEF LeftWith

-----------------------------------------------------------------------------
(* The stages of a review that settle groups.                              *)

\* What a session says of the judge: its answers are of this revision, every finding is
\* bound, and the judge has been asked before its groups are verified.
ToldOf(r) ==
    /\ \A o \in tx[r].outs : o.rev = r
    /\ stage[r] \in {"suppress", "close", "judge", "verify", "commit"} =>
         \A s \in DOMAIN report[r] : tx[r].bound[s] \in Claims
    /\ stage[r] \in {"verify", "commit"} => tx[r].judged # "none"

\* The rows as the session of r is about to leave them.
Rest(r) == [c \in Claims |-> Now(r, c)]

\* Every severe finding of a report whose group is not settled in R has an outcome.
Complete(r, findings, groups, R, outs) ==
    \A s \in DOMAIN findings :
        findings[s] \in Severe /\ R[groups[s]].state # "resolved" => HasOutcome(outs, r, groups[s])

\* A first judgement that is completed is complete.
JudgedOf(r) ==
    stage[r] \in {"verify", "commit"} /\ tx[r].judged = "completed" /\ judged[r] = "none" =>
        Complete(r, report[r], tx[r].bound, Rest(r), outcomes \cup tx[r].outs)

\* No answer is committed of a review that has not been judged.
Unheard(r) == judged[r] = "none" => \A o \in outcomes : o.rev # r

LEMMA SuppressFacts ==
    ASSUME Typed, Orderly, NEW r \in Revs, ToldOf(r), Suppress(r)
    PROVE  Sessional(r) /\ ToldOf(r)' /\ JudgedOf(r)'
<1>1. /\ stage[r] = "suppress" /\ tx[r].loaded
      /\ UNCHANGED <<head, rows, report, bound, outcomes, judged, published, retries, dismissing, dismissals, faults>>
    BY DEF Suppress
<1>2. PICK C \in SUBSET Copies(r, "active") :
        Leave(r, Becomes(r, [c \in Claims |-> IF c \in C THEN With(tx[r].copy[c], Suppression(r)) ELSE tx[r].copy[c]]),
              "close")
    BY DEF Suppress
<1> DEFINE new == [c \in Claims |-> IF c \in C THEN With(tx[r].copy[c], Suppression(r)) ELSE tx[r].copy[c]]
<1>3. LeftWith(r, Becomes(r, new), "close")
    BY <1>2, LeaveFacts
<1>4. ASSUME NEW c \in Claims PROVE IsRow(new[c]) /\ Moves(r, tx[r].copy[c], new[c])
    <2>1. IsRow(tx[r].copy[c])
        BY DEF Typed, IsTx
    <2>2. CASE c \in C
        <3>1. new[c] = With(tx[r].copy[c], Suppression(r)) /\ tx[r].copy[c].state = "active"
            BY <2>2 DEF Copies
        <3> QED BY <1>1, <2>1, <3>1, SuppressionSettles DEF Moves
    <2>3. CASE c \notin C
        BY <2>1, <2>3 DEF Moves
    <2> QED BY <2>2, <2>3
<1> HIDE DEF new
<1>5. Elsewise(r)
    BY <1>1 DEF Elsewise
<1>6. Sessional(r) /\ tx'[r].bound = tx[r].bound /\ stage'[r] = "close"
    BY <1>1, <1>3, <1>4, <1>5, BecomesFacts
<1>7. tx'[r].outs = tx[r].outs /\ UNCHANGED <<report, judged, outcomes>>
    BY <1>1, <1>2, LeaveFacts
<1>8. ToldOf(r)' /\ JudgedOf(r)'
    BY <1>1, <1>6, <1>7 DEF ToldOf, JudgedOf
<1> QED BY <1>6, <1>8

LEMMA CloseFacts ==
    ASSUME Typed, Orderly, NEW r \in Revs, ToldOf(r), Close(r)
    PROVE  Sessional(r) /\ ToldOf(r)' /\ JudgedOf(r)'
<1>1. /\ stage[r] = "close" /\ tx[r].loaded
      /\ UNCHANGED <<head, rows, report, bound, outcomes, judged, published, retries, dismissing, dismissals, faults>>
    BY DEF Close
<1>2. PICK C, gone : Leave(r, IF tx[r].prior = 0 THEN Nothing ELSE Becomes(r, Closed(r, C, gone)), "judge")
    BY DEF Close
<1>3. InForm(r) /\ \A c \in Claims : IsRow(tx[r].copy[c])
    BY DEF Orderly, Typed, IsTx
<1>4. Elsewise(r)
    BY <1>1 DEF Elsewise
<1>5. Sessional(r) /\ tx'[r].bound = tx[r].bound /\ stage'[r] = "judge"
    <2>1. CASE tx[r].prior = 0
        <3>1. LeftWith(r, Nothing, "judge")
            BY <1>2, <2>1, LeaveFacts
        <3>2. DOMAIN Nothing = Claims /\ \A c \in Claims : DOMAIN Nothing[c] = {}
            BY DEF Nothing
        <3>3. \A c \in Claims : With(tx[r].copy[c], Nothing[c]) = tx[r].copy[c]
            BY <1>3, <3>2, WithRow
        <3>4. \A c \in Claims : Moves(r, tx[r].copy[c], tx[r].copy[c])
            BY DEF Moves
        <3>5. Sessional(r) /\ tx'[r].bound = tx[r].bound
            BY <1>1, <1>4, <3>1, <3>2, <3>3, <3>4, LeftIsSessional
        <3> QED BY <3>1, <3>5 DEF LeftWith
    <2>2. CASE tx[r].prior # 0
        <3> DEFINE new == Closed(r, C, gone)
        <3>1. LeftWith(r, Becomes(r, new), "judge")
            BY <1>2, <2>2, LeaveFacts
        <3>2. \A c \in Claims : IsRow(new[c]) /\ Moves(r, tx[r].copy[c], new[c])
            BY <1>1, ClosedSettles DEF Moves
        <3> HIDE DEF new
        <3> QED BY <1>1, <1>4, <3>1, <3>2, BecomesFacts
    <2> QED BY <2>1, <2>2
<1>6. tx'[r].outs = tx[r].outs /\ UNCHANGED <<report, judged, outcomes>>
    BY <1>1, <1>2, LeaveFacts
<1>7. ToldOf(r)' /\ JudgedOf(r)'
    BY <1>1, <1>5, <1>6 DEF ToldOf, JudgedOf
<1> QED BY <1>5, <1>7

LEMMA NothingMissing ==
    ASSUME NEW r \in Revs, NEW R, NEW outs
    PROVE  ~ Missing(r, Candidates(r, R), R, outs) <=> Complete(r, report[r], tx[r].bound, R, outs)
BY DEF Missing, Candidates, Complete

\* Settling more groups, and hearing more answers, keeps what is complete.
LEMMA StaysComplete ==
    ASSUME NEW r, NEW findings, NEW groups, \A s \in DOMAIN findings : groups[s] \in Claims,
           NEW old, NEW new, \A c \in Claims : new[c].state # "resolved" => old[c].state # "resolved",
           NEW outs, NEW more, outs \subseteq more, Complete(r, findings, groups, old, outs)
    PROVE  Complete(r, findings, groups, new, more)
BY DEF Complete, HasOutcome

LEMMA NotJudgedConcludes ==
    ASSUME Typed, Orderly, NEW r \in Revs, ToldOf(r), Unheard(r), Judge(r), NotJudged(r)
    PROVE  Sessional(r) /\ ToldOf(r)' /\ JudgedOf(r)'
<1>1. /\ stage[r] = "judge" /\ tx[r].loaded /\ stage' = [stage EXCEPT ![r] = "verify"]
      /\ UNCHANGED <<head, rows, report, bound, outcomes, judged, published, retries, dismissing, dismissals, faults>>
    BY DEF Judge
<1>2. PICK status \in {"not_applicable", "skipped_disabled", "skipped_unavailable", "completed"} :
        /\ tx' = [tx EXCEPT ![r] = Concluded(r, @.copy, {}, status)]
        /\ status = "completed" => \E o \in outcomes : o.rev = r
    BY DEF NotJudged
<1> DEFINE new == tx[r].copy
<1>3. LeftWith(r, Becomes(r, new), "verify") /\ tx'[r].outs = {} /\ tx'[r].judged = status
    <2>1. tx' = [tx EXCEPT ![r] = Concluded(r, tx[r].copy, {}, status)]
        BY <1>2
    <2> QED BY <1>1, <2>1, ConcludedFacts
<1>4. \A c \in Claims : IsRow(new[c]) /\ Moves(r, tx[r].copy[c], new[c])
    BY DEF Typed, IsTx, Moves
<1>5. Elsewise(r)
    BY <1>1 DEF Elsewise
<1>6. Sessional(r) /\ tx'[r].bound = tx[r].bound /\ stage'[r] = "verify"
    BY <1>1, <1>3, <1>4, <1>5, BecomesFacts
<1>7. ToldOf(r)'
    <2>1. status # "none"
        OBVIOUS
    <2> QED BY <1>1, <1>3, <1>6, <2>1 DEF ToldOf
<1>8. JudgedOf(r)'
    BY <1>1, <1>2, <1>3 DEF JudgedOf, Unheard
<1> QED BY <1>6, <1>7, <1>8

LEMMA AskJudgeConcludes ==
    ASSUME Typed, Orderly, NEW r \in Revs, ToldOf(r), Judge(r), AskJudge(r)
    PROVE  Sessional(r) /\ ToldOf(r)' /\ JudgedOf(r)'
<1>1. /\ stage[r] = "judge" /\ tx[r].loaded /\ stage' = [stage EXCEPT ![r] = "verify"]
      /\ UNCHANGED <<head, rows, report, bound, outcomes, judged, published, retries, dismissing, dismissals, faults>>
    BY DEF Judge
<1> DEFINE S == Candidates(r, tx[r].copy)
<1>2. PICK first \in UpTo(JudgeMax, S) :
        LET T == {s \in first : ~HasOutcome(outcomes, r, tx[r].bound[s])}
        IN  \E answer \in [T -> Answers] :
               LET R    == JudgedRows(r, T, answer)
                   outs == {[rev |-> r, slot |-> s, group |-> tx[r].bound[s]] : s \in {s \in T : answer[s] # "failed"}}
               IN  tx' = [tx EXCEPT ![r] = Concluded(r, R, outs,
                             IF Missing(r, S, R, outcomes \cup outs) THEN "skipped_unavailable" ELSE "completed")]
    BY DEF AskJudge
<1> DEFINE T == {s \in first : ~HasOutcome(outcomes, r, tx[r].bound[s])}
<1>3. PICK answer \in [T -> Answers] :
        LET R    == JudgedRows(r, T, answer)
            outs == {[rev |-> r, slot |-> s, group |-> tx[r].bound[s]] : s \in {s \in T : answer[s] # "failed"}}
        IN  tx' = [tx EXCEPT ![r] = Concluded(r, R, outs,
                      IF Missing(r, S, R, outcomes \cup outs) THEN "skipped_unavailable" ELSE "completed")]
    BY <1>2
<1> DEFINE new == JudgedRows(r, T, answer)
           outs == {[rev |-> r, slot |-> s, group |-> tx[r].bound[s]] : s \in {s \in T : answer[s] # "failed"}}
           status == IF Missing(r, S, new, outcomes \cup outs) THEN "skipped_unavailable" ELSE "completed"
<1>4. T \subseteq S
    BY DEF UpTo
<1>5. \A s \in T : tx[r].copy[tx[r].bound[s]].state # "resolved"
    BY <1>4 DEF Candidates
<1>6. \A o \in outs : o.rev = r
    OBVIOUS
<1>7. status # "none" /\ (status = "completed" => ~ Missing(r, S, new, outcomes \cup outs))
    OBVIOUS
<1>8. LeftWith(r, Becomes(r, new), "verify") /\ tx'[r].outs = outs /\ tx'[r].judged = status
    BY <1>1, <1>3, ConcludedFacts
<1>9. ASSUME NEW c \in Claims
      PROVE  /\ IsRow(new[c]) /\ Moves(r, tx[r].copy[c], new[c])
             /\ new[c].state # "resolved" => tx[r].copy[c].state # "resolved"
    <2>1. LET old == tx[r].copy[c]
          IN  /\ IsRow(new[c]) /\ (new[c] = old \/ Lowered(old, new[c]) \/ SettledAt(r, old, new[c]))
              /\ new[c].state # "resolved" => old.state # "resolved"
        BY <1>5, JudgedSettles
    <2> QED BY <1>1, <2>1 DEF Moves
<1> HIDE DEF new, outs, status, T
<1>10. Elsewise(r)
    BY <1>1 DEF Elsewise
<1>11. /\ Sessional(r) /\ tx'[r].bound = tx[r].bound /\ stage'[r] = "verify"
       /\ \A c \in Claims : Now(r, c)' = new[c]
    BY <1>1, <1>8, <1>9, <1>10, BecomesFacts
<1>12. ToldOf(r)'
    BY <1>1, <1>6, <1>7, <1>8, <1>11 DEF ToldOf
<1>13. ASSUME status = "completed" PROVE Complete(r, report[r], tx[r].bound, new, outcomes \cup outs)
    <2>1. \A s \in DOMAIN report[r] : tx[r].bound[s] \in Claims
        BY <1>1 DEF ToldOf
    <2> QED BY <1>7, <1>9, <1>13, <2>1 DEF Missing, Candidates, Complete
<1>14. JudgedOf(r)'
    <2>1. \A s \in DOMAIN report[r] : tx[r].bound[s] \in Claims
        BY <1>1 DEF ToldOf
    <2> DEFINE rest == [c \in Claims |-> Now(r, c)']
    <2>2. Rest(r)' = rest
        BY DEF Rest
    <2>3. \A c \in Claims : rest[c] = new[c]
        BY <1>11
    <2> HIDE DEF rest
    <2>4. ASSUME status = "completed" PROVE Complete(r, report[r], tx[r].bound, rest, outcomes \cup outs)
        BY <1>13, <2>1, <2>3, <2>4 DEF Complete
    <2> QED BY <1>1, <1>8, <1>11, <2>2, <2>4 DEF JudgedOf
<1> QED BY <1>11, <1>12, <1>14

LEMMA JudgeFacts ==
    ASSUME Typed, Orderly, NEW r \in Revs, ToldOf(r), Unheard(r), Judge(r)
    PROVE  Sessional(r) /\ ToldOf(r)' /\ JudgedOf(r)'
<1>1. CASE NotJudged(r)
    BY <1>1, NotJudgedConcludes
<1>2. CASE AskJudge(r)
    BY <1>2, AskJudgeConcludes
<1> QED BY <1>1, <1>2 DEF Judge

LEMMA VerifyFacts ==
    ASSUME Typed, Orderly, NEW r \in Revs, ToldOf(r), JudgedOf(r), Verify(r)
    PROVE  Sessional(r) /\ ToldOf(r)' /\ JudgedOf(r)'
<1>1. /\ stage[r] = "verify" /\ tx[r].loaded /\ stage' = [stage EXCEPT ![r] = "commit"]
      /\ UNCHANGED <<head, rows, report, bound, outcomes, judged, published, retries, dismissing, dismissals, faults>>
    BY DEF Verify
<1>2. PICK compared \in Compares :
       \E T \in (IF compared /\ tx[r].prior # 0 THEN UpTo(VerifyLeft(r), Escalations(r)) ELSE {})
                \cup (IF "failed" \in Answers \/ ~compared \/ tx[r].prior = 0 THEN {{}} ELSE {}) :
       \E answer \in [T -> Answers \ {"modified"}] :
          LET R    == [c \in Claims |-> IF c \in T /\ answer[c] = "dismissed"
                                        THEN With(tx[r].copy[c], Closure("verification_dismissed", r)) ELSE tx[r].copy[c]]
              outs == tx[r].outs \cup {[rev |-> r, slot |-> 0, group |-> c] : c \in {c \in T : answer[c] # "failed"}}
          IN  tx' = [tx EXCEPT ![r] = Concluded(r, R, outs, Finalized(r, R, outs))]
    BY DEF Verify
<1>3. PICK T \in (IF compared /\ tx[r].prior # 0 THEN UpTo(VerifyLeft(r), Escalations(r)) ELSE {})
                \cup (IF "failed" \in Answers \/ ~compared \/ tx[r].prior = 0 THEN {{}} ELSE {}) :
       \E answer \in [T -> Answers \ {"modified"}] :
          LET R    == [c \in Claims |-> IF c \in T /\ answer[c] = "dismissed"
                                        THEN With(tx[r].copy[c], Closure("verification_dismissed", r)) ELSE tx[r].copy[c]]
              outs == tx[r].outs \cup {[rev |-> r, slot |-> 0, group |-> c] : c \in {c \in T : answer[c] # "failed"}}
          IN  tx' = [tx EXCEPT ![r] = Concluded(r, R, outs, Finalized(r, R, outs))]
    BY <1>2
<1>4. \A c \in T : tx[r].copy[c].state # "resolved"
    BY DEF UpTo, Escalations, Escalates
<1>5. PICK answer \in [T -> Answers \ {"modified"}] :
          LET R    == [c \in Claims |-> IF c \in T /\ answer[c] = "dismissed"
                                        THEN With(tx[r].copy[c], Closure("verification_dismissed", r)) ELSE tx[r].copy[c]]
              outs == tx[r].outs \cup {[rev |-> r, slot |-> 0, group |-> c] : c \in {c \in T : answer[c] # "failed"}}
          IN  tx' = [tx EXCEPT ![r] = Concluded(r, R, outs, Finalized(r, R, outs))]
    BY <1>3
<1> DEFINE new  == [c \in Claims |-> IF c \in T /\ answer[c] = "dismissed"
                                     THEN With(tx[r].copy[c], Closure("verification_dismissed", r)) ELSE tx[r].copy[c]]
           outs == tx[r].outs \cup {[rev |-> r, slot |-> 0, group |-> c] : c \in {c \in T : answer[c] # "failed"}}
           status == Finalized(r, new, outs)
<1>6. LeftWith(r, Becomes(r, new), "commit") /\ tx'[r].outs = outs /\ tx'[r].judged = status
    BY <1>1, <1>5, ConcludedFacts
<1>7. \A s \in DOMAIN report[r] : tx[r].bound[s] \in Claims
    BY <1>1 DEF ToldOf
<1>8. ASSUME NEW c \in Claims
      PROVE  /\ IsRow(new[c]) /\ Moves(r, tx[r].copy[c], new[c])
             /\ new[c].state # "resolved" => tx[r].copy[c].state # "resolved"
    <2>1. IsRow(tx[r].copy[c])
        BY DEF Typed, IsTx
    <2>2. CASE c \in T /\ answer[c] = "dismissed"
        <3>1. new[c] = With(tx[r].copy[c], Closure("verification_dismissed", r)) /\ tx[r].copy[c].state # "resolved"
            BY <1>4, <2>2
        <3>2. IsRow(new[c]) /\ SettledAt(r, tx[r].copy[c], new[c])
            BY <2>1, <3>1, ClosureSettles
        <3> QED BY <1>1, <3>1, <3>2 DEF Moves
    <2>3. CASE ~ (c \in T /\ answer[c] = "dismissed")
        <3>1. new[c] = tx[r].copy[c]
            BY <2>3
        <3> QED BY <2>1, <3>1 DEF Moves
    <2> QED BY <2>2, <2>3
<1>9. tx[r].outs \subseteq outs /\ ((\A o \in tx[r].outs : o.rev = r) => \A o \in outs : o.rev = r)
    OBVIOUS
<1>10. /\ tx[r].judged # "none" => status # "none"
       /\ status = "completed" => \/ tx[r].judged = "completed"
                                  \/ ~ Missing(r, Candidates(r, new), new, outcomes \cup outs)
    BY DEF Finalized
<1> HIDE DEF new, outs, status
<1>11. Elsewise(r)
    BY <1>1 DEF Elsewise
<1>12. /\ Sessional(r) /\ tx'[r].bound = tx[r].bound /\ stage'[r] = "commit"
       /\ \A c \in Claims : tx[r].copy[c] = Now(r, c) /\ Now(r, c)' = new[c]
    BY <1>1, <1>6, <1>8, <1>11, BecomesFacts
<1>13. ToldOf(r)'
    BY <1>1, <1>6, <1>9, <1>10, <1>12 DEF ToldOf
<1>14. ASSUME status = "completed", judged[r] = "none"
       PROVE  Complete(r, report[r], tx[r].bound, new, outcomes \cup outs)
    <2>1. CASE tx[r].judged = "completed"
        <3>1. Complete(r, report[r], tx[r].bound, Rest(r), outcomes \cup tx[r].outs)
            BY <1>1, <1>14, <2>1 DEF JudgedOf
        <3>2. \A c \in Claims : new[c].state # "resolved" => Rest(r)[c].state # "resolved"
            BY <1>8, <1>12 DEF Rest
        <3>3. outcomes \cup tx[r].outs \subseteq outcomes \cup outs
            BY <1>9
        <3> QED BY <1>7, <3>1, <3>2, <3>3, StaysComplete
    <2>2. CASE ~ Missing(r, Candidates(r, new), new, outcomes \cup outs)
        BY <2>2, NothingMissing
    <2> QED BY <1>10, <1>14, <2>1, <2>2
<1>15. JudgedOf(r)'
    <2> DEFINE rest == [c \in Claims |-> Now(r, c)']
    <2>1. Rest(r)' = rest
        BY DEF Rest
    <2>2. \A c \in Claims : rest[c] = new[c]
        BY <1>12
    <2> HIDE DEF rest
    <2>3. ASSUME status = "completed", judged[r] = "none"
          PROVE  Complete(r, report[r], tx[r].bound, rest, outcomes \cup outs)
        BY <1>7, <1>14, <2>2, <2>3 DEF Complete
    <2> QED BY <1>1, <1>6, <1>12, <2>1, <2>3 DEF JudgedOf
<1> QED BY <1>12, <1>13, <1>15

\* A session that is given up.
LEMMA ResetFacts ==
    ASSUME Typed, NEW r \in Revs, stage[r] \notin Ended, NEW next,
           DOMAIN tx' = Revs, tx'[r] = NoTx, \A q \in Revs \ {r} : tx'[q] = tx[q],
           stage' = [stage EXCEPT ![r] = next],
           next \in {"sync", "bind", "publish", "review", "failed", "skipped"},
           next \in {"sync", "review"} => stage[r] \in Early, UNCHANGED rows, Elsewise(r)
    PROVE  Sessional(r) /\ ToldOf(r)' /\ JudgedOf(r)'
<1>1. /\ DOMAIN tx' = Revs /\ tx'[r] = NoTx /\ \A q \in Revs \ {r} : tx'[q] = tx[q]
      /\ DOMAIN stage' = Revs /\ stage'[r] = next /\ \A q \in Revs \ {r} : stage'[q] = stage[q]
    BY DEF Typed
<1>2. stage'[r] \in Stages \ {"none"} /\ (stage'[r] \in Early => stage[r] \in Early)
    BY <1>1 DEF Early, Stages
<1>3. IsTx(tx'[r]) /\ InForm(r)'
    <2>1. /\ ~ tx'[r].loaded /\ \A c \in Claims : tx'[r].copy[c].state = "absent" /\ DOMAIN tx'[r].dirty[c] = {}
          /\ IsTx(tx'[r])
        BY <1>1, NoTxFacts, ColumnsOf
    <2> QED BY <1>1, <2>1 DEF InForm
<1>4. Resets(r) /\ ~ InSession(r)'
    BY <1>1 DEF Resets, InSession
<1>5. Concludes(r) /\ Attaches(r)
    <2>1. \A s \in Slots : tx'[r].bound[s] = NoClaim
        BY <1>1, NoTxFacts
    <2> QED BY <2>1, GroupsAssumption DEF Concludes, Attaches, Elsewise
<1>6. ToldOf(r)' /\ JudgedOf(r)'
    <2>1. tx'[r].outs = {} /\ tx'[r].judged = "none"
        BY <1>1, NoTxFacts
    <2> QED BY <1>1, <2>1 DEF ToldOf, JudgedOf
<1> QED BY <1>1, <1>2, <1>3, <1>4, <1>5, <1>6 DEF Sessional, Elsewise, Typed

\* A session that commits.
LEMMA SaveFacts ==
    ASSUME Typed, Orderly, NEW r \in Revs, stage[r] \in {"synced", "commit", "finish"}, ~ tx[r].flush, NEW next,
           rows' = Committed(r), tx' = [tx EXCEPT ![r] = NoTx], stage' = [stage EXCEPT ![r] = next],
           next \in {"enqueue", "done", "skipped", "review"}, next = "review" => stage[r] \in Early,
           UNCHANGED <<head, dismissing, report>>,
           \/ UNCHANGED <<judged, bound, outcomes>>
           \/ /\ stage[r] = "commit" /\ next = "enqueue" /\ bound' = [bound EXCEPT ![r] = tx[r].bound]
              /\ outcomes' = outcomes \cup tx[r].outs /\ judged' = [judged EXCEPT ![r] = tx[r].judged]
    PROVE  Sessional(r) /\ Saves(r) /\ ToldOf(r)' /\ JudgedOf(r)'
<1>1. /\ DOMAIN tx' = Revs /\ tx'[r] = NoTx /\ \A q \in Revs \ {r} : tx'[q] = tx[q]
      /\ DOMAIN stage' = Revs /\ stage'[r] = next /\ \A q \in Revs \ {r} : stage'[q] = stage[q]
    BY DEF Typed
<1>2. stage[r] \notin Ended /\ stage'[r] \in Stages \ {"none"} /\ (stage'[r] \in Early => stage[r] \in Early)
    BY <1>1 DEF Early, Ended, Stages
<1>3. IsTx(tx'[r]) /\ InForm(r)'
    <2>1. /\ ~ tx'[r].loaded /\ \A c \in Claims : tx'[r].copy[c].state = "absent" /\ DOMAIN tx'[r].dirty[c] = {}
          /\ IsTx(tx'[r])
        BY <1>1, NoTxFacts, ColumnsOf
    <2> QED BY <1>1, <2>1 DEF InForm
<1>4. HasTurn(r)
    BY DEF Orderly, InSession
<1>5. Saves(r)
    <2>1. DOMAIN rows' = Claims /\ \A c \in Claims : rows'[c] = Seen(r, c)
        BY DEF Committed
    <2>2. ASSUME NEW c \in Claims PROVE Now(r, c) = Seen(r, c)
        <3>1. DOMAIN tx[r].dirty[c] = {}
            BY DEF Orderly, InForm
        <3> QED BY <3>1, NowRow, WithRow DEF Now
    <2> QED BY <1>1, <1>4, <2>1, <2>2 DEF Saves
<1>6. ~ InSession(r)'
    BY <1>1 DEF InSession
<1>7. Attaches(r)
    <2>1. \A s \in Slots : tx'[r].bound[s] = NoClaim
        BY <1>1, NoTxFacts
    <2> QED BY <2>1, GroupsAssumption DEF Attaches
<1>8. /\ Concludes(r) /\ DOMAIN judged' = Revs /\ bound' \in [Revs -> [Slots -> Claims \cup {NoClaim}]]
      /\ \A q \in Revs \ {r} : judged'[q] = judged[q] /\ bound'[q] = bound[q]
    <2>1. CASE UNCHANGED <<judged, bound, outcomes>>
        BY <2>1 DEF Concludes, Typed
    <2>2. CASE ~ UNCHANGED <<judged, bound, outcomes>>
        <3>1. tx[r].bound \in [Slots -> Claims \cup {NoClaim}]
            BY DEF Typed, IsTx
        <3> QED BY <1>1, <1>5, <2>2, <3>1 DEF Concludes, Typed
    <2> QED BY <2>1, <2>2
<1>9. ToldOf(r)' /\ JudgedOf(r)'
    <2>1. tx'[r].outs = {} /\ tx'[r].judged = "none"
        BY <1>1, NoTxFacts
    <2> QED BY <1>1, <2>1 DEF ToldOf, JudgedOf
<1> QED BY <1>1, <1>2, <1>3, <1>5, <1>6, <1>7, <1>8, <1>9 DEF Sessional, Typed

LEMMA CloseCollapsedFacts ==
    ASSUME Typed, Orderly, NEW r \in Revs, ToldOf(r), CloseCollapsed(r)
    PROVE  Sessional(r) /\ ToldOf(r)' /\ JudgedOf(r)'
<1>1. /\ stage[r] = "publish" /\ tx[r].loaded
      /\ UNCHANGED <<head, rows, report, bound, outcomes, judged, published, retries, dismissing, dismissals, faults>>
    BY DEF CloseCollapsed
<1>2. CASE head = r
    <2>1. PICK T, gone : Leave(r, Becomes(r, Closed(r, T, gone)), "finish")
        BY <1>2 DEF CloseCollapsed
    <2> DEFINE new == Closed(r, T, gone)
    <2>2. LeftWith(r, Becomes(r, new), "finish") /\ tx'[r].outs = tx[r].outs
        BY <2>1, LeaveFacts
    <2>3. \A c \in Claims : IsRow(new[c]) /\ Moves(r, tx[r].copy[c], new[c])
        BY <1>1, ClosedSettles DEF Moves
    <2> HIDE DEF new
    <2>4. Elsewise(r)
        BY <1>1 DEF Elsewise
    <2>5. Sessional(r) /\ tx'[r].bound = tx[r].bound /\ stage'[r] = "finish"
        BY <1>1, <2>2, <2>3, <2>4, BecomesFacts
    <2> QED BY <2>2, <2>5 DEF ToldOf, JudgedOf
<1>3. CASE head # r
    <2>1. tx' = [tx EXCEPT ![r] = NoTx] /\ stage' = [stage EXCEPT ![r] = "skipped"]
        BY <1>3 DEF CloseCollapsed
    <2>2. stage[r] \notin Ended /\ Elsewise(r)
        BY <1>1 DEF Elsewise, Ended
    <2>3. DOMAIN tx' = Revs /\ tx'[r] = NoTx /\ \A q \in Revs \ {r} : tx'[q] = tx[q]
        BY <2>1 DEF Typed
    <2> QED BY <1>1, <2>1, <2>2, <2>3, ResetFacts
<1> QED BY <1>2, <1>3

LEMMA FailAttemptFacts ==
    ASSUME Typed, NEW r \in Revs, stage[r] \in DOMAIN Attempt, FailAttempt(r)
    PROVE  Sessional(r) /\ ToldOf(r)' /\ JudgedOf(r)'
<1>1. /\ tx' = [tx EXCEPT ![r] = NoTx]
      /\ UNCHANGED <<head, rows, report, bound, outcomes, judged, published, dismissing, dismissals>>
    BY DEF FailAttempt
<1>2. PICK next \in {Attempt[stage[r]], IF Attempt[stage[r]] = "sync" THEN "review" ELSE "failed"} :
        stage' = [stage EXCEPT ![r] = next]
    BY DEF FailAttempt
<1>3. /\ next \in {"sync", "bind", "publish", "review", "failed"}
      /\ next \in {"sync", "review"} => stage[r] \in Early
      /\ stage[r] \notin Ended
    <2>1. /\ stage[r] \in {"sync", "synced"} => Attempt[stage[r]] = "sync"
          /\ stage[r] \notin {"sync", "synced"} => Attempt[stage[r]] \in {"bind", "publish"}
          /\ stage[r] \notin Ended
        BY DEF Attempt, Ended
    <2> QED BY <2>1 DEF Early
<1>4. Elsewise(r)
    BY <1>1 DEF Elsewise
<1>5. DOMAIN tx' = Revs /\ tx'[r] = NoTx /\ \A q \in Revs \ {r} : tx'[q] = tx[q]
    BY <1>1 DEF Typed
<1> QED BY <1>1, <1>2, <1>3, <1>4, <1>5, ResetFacts

LEMMA FailFacts ==
    ASSUME Typed, NEW r \in Revs, Fail(r)
    PROVE  Sessional(r) /\ ToldOf(r)' /\ JudgedOf(r)'
BY FailAttemptFacts DEF Fail

LEMMA RefusedFacts ==
    ASSUME Typed, Orderly, NEW r \in Revs, Refused(r)
    PROVE  Sessional(r) /\ ToldOf(r)' /\ JudgedOf(r)'
<1>1. tx[r].flush /\ tx[r] # NoTx /\ FailAttempt(r)
    BY NoTxFacts DEF Refused
<1>2. stage[r] \in Stages /\ stage[r] \notin Ended \cup {"review"}
    BY <1>1 DEF Typed, Orderly, InForm
<1>3. stage[r] \in DOMAIN Attempt
    BY <1>2 DEF Stages, Ended, Attempt
<1> QED BY <1>1, <1>3, FailAttemptFacts

LEMMA SyncedFacts ==
    ASSUME Typed, Orderly, NEW r \in Revs, Synced(r)
    PROVE  Sessional(r) /\ ToldOf(r)' /\ JudgedOf(r)'
<1> DEFINE next == IF head = r THEN "review" ELSE "skipped"
<1>1. /\ stage[r] = "synced" /\ ~tx[r].flush /\ rows' = Committed(r) /\ tx' = [tx EXCEPT ![r] = NoTx]
      /\ stage' = [stage EXCEPT ![r] = next]
      /\ UNCHANGED <<head, report, bound, outcomes, judged, published, dismissing, dismissals, faults>>
    BY DEF Synced
<1>2. next \in {"enqueue", "done", "skipped", "review"} /\ stage[r] \in Early
    BY <1>1 DEF Early
<1> HIDE DEF next
<1> QED BY <1>1, <1>2, SaveFacts

LEMMA CommitFacts ==
    ASSUME Typed, Orderly, NEW r \in Revs, Commit(r)
    PROVE  Sessional(r) /\ ToldOf(r)' /\ JudgedOf(r)'
BY SaveFacts DEF Commit

LEMMA PublishFacts ==
    ASSUME Typed, Orderly, NEW r \in Revs, Publish(r)
    PROVE  Sessional(r) /\ ToldOf(r)' /\ JudgedOf(r)'
BY SaveFacts DEF Publish

\* A step within a stage that leaves the rows as they are.
LEMMA StillFacts ==
    ASSUME Typed, Orderly, NEW r \in Revs, InTurn, UNCHANGED rows, Elsewise(r), stage[r] \notin Ended,
           DOMAIN tx' = Revs, \A q \in Revs \ {r} : tx'[q] = tx[q], IsTx(tx'[r]), InForm(r)', HasTurn(r),
           tx'[r].bound = tx[r].bound, tx'[r].outs = tx[r].outs, tx'[r].judged = tx[r].judged,
           \A c \in Claims : Now(r, c)' = Now(r, c), ToldOf(r), JudgedOf(r),
           \/ UNCHANGED stage
           \/ stage[r] = "bind" /\ stage' = [stage EXCEPT ![r] = "suppress"] /\ Unbound(r) = {}
    PROVE  Sessional(r) /\ ToldOf(r)' /\ JudgedOf(r)'
<1>1. Goes(r)
    BY DEF Goes, Moves
<1>2. Concludes(r) /\ Attaches(r)
    BY DEF Concludes, Attaches, Elsewise
<1>3. /\ DOMAIN stage' = Revs /\ \A q \in Revs \ {r} : stage'[q] = stage[q]
      /\ stage'[r] = stage[r] \/ (stage[r] = "bind" /\ stage'[r] = "suppress" /\ Unbound(r) = {})
    BY DEF Typed
<1>4. stage'[r] \in Stages \ {"none"} /\ (stage'[r] \in Early => stage[r] \in Early)
    <2>1. stage[r] \in Stages
        BY DEF Typed
    <2> QED BY <1>3, <2>1 DEF Early, Ended, Stages
<1>5. Sessional(r)
    BY <1>1, <1>2, <1>3, <1>4 DEF Sessional, Elsewise, Typed
<1>6. ToldOf(r)'
    <2>1. CASE stage'[r] = stage[r]
        BY <2>1 DEF ToldOf, Elsewise
    <2>2. CASE stage[r] = "bind" /\ stage'[r] = "suppress" /\ Unbound(r) = {}
        <3>1. \A s \in DOMAIN report[r] : tx[r].bound[s] \in Claims
            BY <2>2 DEF Unbound, Typed, IsTx
        <3> QED BY <2>2, <3>1 DEF ToldOf, Elsewise
    <2> QED BY <1>3, <2>1, <2>2
<1>7. JudgedOf(r)'
    <2> DEFINE rest == [c \in Claims |-> Now(r, c)']
    <2>1. Rest(r)' = rest /\ rest = Rest(r)
        BY DEF Rest
    <2> HIDE DEF rest
    <2> QED BY <1>3, <2>1 DEF JudgedOf, Elsewise
<1> QED BY <1>5, <1>6, <1>7

LEMMA LoadFacts ==
    ASSUME Typed, Orderly, NEW r \in Revs, InTurn, ToldOf(r), JudgedOf(r), Load(r)
    PROVE  Sessional(r) /\ ToldOf(r)' /\ JudgedOf(r)'
<1> DEFINE copies == [c \in Claims |-> Seen(r, c)]
           last == LastPublished(published, r)
<1>1. /\ stage[r] \in Loads /\ MayWork(r) /\ ~tx[r].flush /\ ~tx[r].loaded
      /\ tx' = [tx EXCEPT ![r].loaded = TRUE, ![r].copy = copies, ![r].prior = last]
      /\ UNCHANGED <<head, rows, report, bound, outcomes, judged, published, stage, retries, dismissing, dismissals, faults>>
    BY DEF Load
<1>2. DOMAIN copies = Claims /\ \A c \in Claims : copies[c] = Seen(r, c) /\ IsRow(copies[c])
    BY NowRow
<1> HIDE DEF copies, last
<1>3. IsTx(tx[r]) /\ DOMAIN tx = Revs /\ InForm(r)
    BY DEF Typed, Orderly
<1>4. /\ DOMAIN tx' = Revs /\ \A q \in Revs \ {r} : tx'[q] = tx[q]
      /\ DOMAIN tx'[r] = TxFields /\ tx'[r].loaded = TRUE /\ tx'[r].copy = copies
      /\ tx'[r].dirty = tx[r].dirty /\ tx'[r].wrote = tx[r].wrote /\ tx'[r].flush = tx[r].flush
      /\ tx'[r].bound = tx[r].bound /\ tx'[r].outs = tx[r].outs /\ tx'[r].judged = tx[r].judged
    BY <1>1, <1>3 DEF IsTx, TxFields
<1>5. IsTx(tx'[r])
    BY <1>2, <1>3, <1>4 DEF IsTx
<1>6. \A c \in Claims : Seen(r, c)' = Seen(r, c) /\ Now(r, c)' = Now(r, c)
    BY <1>1, <1>4 DEF Seen, Now
<1>7. stage[r] \notin Ended \cup {"bind", "review", "enqueue"}
    BY <1>1 DEF Loads, Ended
<1>8. InForm(r)'
    BY <1>1, <1>2, <1>3, <1>4, <1>6, <1>7 DEF InForm
<1>9. HasTurn(r)
    BY <1>1 DEF MayWork, InTurn, HasTurn
<1>10. Elsewise(r)
    BY <1>1 DEF Elsewise
<1> QED BY <1>1, <1>4, <1>5, <1>6, <1>7, <1>8, <1>9, <1>10, StillFacts

LEMMA FlushFacts ==
    ASSUME Typed, Orderly, NEW r \in Revs, InTurn, ToldOf(r), JudgedOf(r), Flush(r)
    PROVE  Sessional(r) /\ ToldOf(r)' /\ JudgedOf(r)'
<1> DEFINE copies == [c \in Claims |-> NoRow]
           written == [c \in Claims |->
                            [f \in DOMAIN tx[r].wrote[c] \cup DOMAIN tx[r].dirty[c] |->
                                IF f \in DOMAIN tx[r].dirty[c] THEN tx[r].dirty[c][f] ELSE tx[r].wrote[c][f]]]
<1>1. /\ tx[r].flush
      /\ tx' = [tx EXCEPT ![r].flush = FALSE, ![r].dirty = Nothing, ![r].copy = copies, ![r].wrote = written]
      /\ UNCHANGED <<head, rows, report, bound, outcomes, judged, published, stage, retries, dismissing, dismissals, faults>>
    BY DEF Flush
<1>2. DOMAIN copies = Claims /\ \A c \in Claims : copies[c] = NoRow
    OBVIOUS
<1>3. /\ DOMAIN written = Claims
      /\ \A c \in Claims : /\ DOMAIN written[c] = DOMAIN tx[r].wrote[c] \cup DOMAIN tx[r].dirty[c]
                           /\ \A f \in DOMAIN written[c] : written[c][f] =
                                IF f \in DOMAIN tx[r].dirty[c] THEN tx[r].dirty[c][f] ELSE tx[r].wrote[c][f]
    OBVIOUS
<1>4. DOMAIN Nothing = Claims /\ \A c \in Claims : DOMAIN Nothing[c] = {}
    BY DEF Nothing
<1> HIDE DEF copies, written
<1>5. IsTx(tx[r]) /\ DOMAIN tx = Revs /\ InForm(r)
    BY DEF Typed, Orderly
<1>6. /\ DOMAIN tx' = Revs /\ \A q \in Revs \ {r} : tx'[q] = tx[q]
      /\ DOMAIN tx'[r] = TxFields /\ tx'[r].loaded = tx[r].loaded /\ tx'[r].copy = copies
      /\ tx'[r].dirty = Nothing /\ tx'[r].wrote = written /\ tx'[r].flush = FALSE
      /\ tx'[r].bound = tx[r].bound /\ tx'[r].outs = tx[r].outs /\ tx'[r].judged = tx[r].judged
    BY <1>1, <1>5 DEF IsTx, TxFields
<1>7. IsTx(tx'[r])
    BY <1>2, <1>3, <1>4, <1>5, <1>6, ColumnsOf DEF IsTx
<1>8. ASSUME NEW c \in Claims PROVE Now(r, c)' = Now(r, c)
    <2>1. Seen(r, c)' = With(rows[c], written[c])
        BY <1>1, <1>6 DEF Seen
    <2>2. IsRow(rows[c]) /\ IsRow(With(rows[c], written[c])) /\ IsRow(Seen(r, c)) /\ IsRow(Now(r, c))
        BY NowRow, WithRow DEF Typed
    <2>3. Now(r, c)' = With(rows[c], written[c])
        <3>1. Now(r, c)' = With(With(rows[c], written[c]), Nothing[c])
            BY <1>6, <2>1 DEF Now
        <3>2. With(With(rows[c], written[c]), Nothing[c]) = With(rows[c], written[c])
            BY <1>4, <2>2, WithRow
        <3> QED BY <3>1, <3>2
    <2>4. \A f \in Columns : With(rows[c], written[c])[f] = Now(r, c)[f]
        BY <1>3, <2>2, WithRow DEF Now, Seen
    <2> QED BY <2>2, <2>3, <2>4 DEF IsRow
<1>9. ~ tx[r].loaded /\ tx[r] # NoTx
    BY <1>1, <1>5, NoTxFacts DEF InForm
<1>10. HasTurn(r) /\ stage[r] \notin Ended \cup {"review", "enqueue"}
    BY <1>5, <1>9 DEF Orderly, InSession, InForm
<1>11. InForm(r)'
    BY <1>1, <1>2, <1>4, <1>6, <1>9, <1>10, ColumnsOf DEF InForm
<1>12. Elsewise(r)
    BY <1>1 DEF Elsewise
<1> QED BY <1>1, <1>6, <1>7, <1>8, <1>10, <1>11, <1>12, StillFacts

LEMMA AllBoundFacts ==
    ASSUME Typed, Orderly, NEW r \in Revs, InTurn, ToldOf(r), JudgedOf(r), AllBound(r)
    PROVE  Sessional(r) /\ ToldOf(r)' /\ JudgedOf(r)'
<1>1. /\ stage[r] = "bind" /\ ~tx[r].flush /\ MayWork(r) /\ Unbound(r) = {} /\ Leave(r, tx[r].dirty, "suppress")
      /\ UNCHANGED <<head, rows, report, bound, outcomes, judged, published, retries, dismissing, dismissals, faults>>
    BY DEF AllBound
<1>2. LeftWith(r, tx[r].dirty, "suppress") /\ tx'[r].outs = tx[r].outs /\ tx'[r].judged = tx[r].judged
    BY <1>1, LeaveFacts
<1>3. IsTx(tx[r])
    BY DEF Typed
<1>4. IsTx(tx'[r]) /\ DOMAIN tx' = Revs /\ \A q \in Revs \ {r} : tx'[q] = tx[q]
    BY <1>2, <1>3 DEF IsTx, LeftWith
<1>5. tx'[r].bound = tx[r].bound /\ \A c \in Claims : Now(r, c)' = Now(r, c)
    BY <1>1, <1>2 DEF Now, Seen, LeftWith
<1>6. InForm(r)'
    BY <1>2 DEF InForm, LeftWith, Touched, Ended
<1>7. HasTurn(r) /\ stage[r] \notin Ended
    BY <1>1 DEF MayWork, InTurn, HasTurn, Ended
<1>8. Elsewise(r) /\ stage' = [stage EXCEPT ![r] = "suppress"]
    BY <1>1 DEF Elsewise, Leave
<1> QED BY <1>1, <1>2, <1>4, <1>5, <1>6, <1>7, <1>8, StillFacts

LEMMA OpenedRow ==
    ASSUME NEW r, NEW severe, NEW old, ~ SkipsReport(old)
    PROVE  IsRow(Opened(r, severe)) /\ OpenedAt(r, old, Opened(r, severe))
<1>1. DOMAIN Opened(r, severe) = Columns
    BY DEF Opened, NoRow, Columns
<1>2. /\ Opened(r, severe).state = "active" /\ Opened(r, severe).seen = r /\ Opened(r, severe).method = "none"
      /\ Opened(r, severe).at = 0 /\ Opened(r, severe).blocked = "none"
    BY DEF Opened, NoRow
<1>3. IsRow(Opened(r, severe))
    BY DEF Opened, NoRow, IsRow, Columns
<1> QED BY <1>2, <1>3 DEF OpenedAt

LEMMA ReportedRow ==
    ASSUME NEW row, IsRow(row), NEW r, NEW severe
    PROVE  LET new == Reported(row, r, severe)
           IN  /\ IsRow(new)
               /\ (new = row /\ SkipsReport(row)) \/ OpenedAt(r, row, new)
<1> DEFINE new == Reported(row, r, severe)
           mark == [seen |-> r, severe |-> severe]
           plain == [state |-> "active"]
           mid == IF Reopens(row) THEN With(row, Reopening) ELSE With(row, plain)
<1>1. CASE SkipsReport(row)
    <2>1. new = row
        BY <1>1 DEF Reported
    <2> QED BY <1>1, <2>1 DEF SkipsReport
<1>2. CASE ~ SkipsReport(row)
    <2>1. new = With(mid, mark)
        BY <1>2 DEF Reported
    <2>2. DOMAIN mark = {"seen", "severe"} /\ mark.seen = r /\ DOMAIN plain = {"state"} /\ plain.state = "active"
        OBVIOUS
    <2>3. /\ DOMAIN Reopening = {"state", "method", "at", "blocked"} /\ Reopening.state = "active"
          /\ Reopening.method = "none" /\ Reopening.at = 0 /\ Reopening.blocked = "none"
        BY DEF Reopening
    <2> HIDE DEF mark, plain, new
    <2>4. /\ IsRow(mid) /\ mid.state = "active"
          /\ \/ mid.method = "none" /\ mid.at = 0 /\ mid.blocked = "none"
             \/ ~ Reopens(row) /\ Same(row, mid, {"method", "at", "blocked"})
        BY <2>2, <2>3, WithRow DEF Same, Columns
    <2> HIDE DEF mid
    <2>5. IsRow(new) /\ new.state = "active" /\ new.seen = r /\ Same(mid, new, {"method", "at", "blocked"})
        BY <2>1, <2>2, <2>4, WithRow DEF Same, Columns
    <2>6. OpenedAt(r, row, new)
        BY <1>2, <2>4, <2>5 DEF OpenedAt, Same
    <2> QED BY <2>5, <2>6 DEF new
<1> QED BY <1>1, <1>2

LEMMA BindFacts ==
    ASSUME Typed, Orderly, NEW r \in Revs, InTurn, ToldOf(r), Bind(r)
    PROVE  Sessional(r) /\ ToldOf(r)' /\ JudgedOf(r)'
<1>1. /\ stage[r] = "bind" /\ ~tx[r].flush /\ MayWork(r)
      /\ UNCHANGED <<head, rows, report, bound, outcomes, judged, published, stage, retries, dismissing, dismissals, faults>>
    BY DEF Bind
<1>2. PICK s \in Unbound(r) :
          LET claim == report[r][s]
              c     == GroupFor(r, claim)
              old   == IF tx[r].copy[c].state = "absent" THEN Seen(r, c) ELSE tx[r].copy[c]
              obj   == With(old, tx[r].dirty[c])
              new   == IF obj.state = "absent" THEN Opened(r, claim \in Severe)
                       ELSE Reported(obj, r, claim \in Severe)
          IN  tx' = [tx EXCEPT ![r].bound[s] = c, ![r].copy[c] = old,
                               ![r].dirty[c] = Changes(old, new), ![r].flush = obj.state = "absent"]
    BY DEF Bind
<1> DEFINE claim == report[r][s]
           c     == GroupFor(r, claim)
           old   == IF tx[r].copy[c].state = "absent" THEN Seen(r, c) ELSE tx[r].copy[c]
           obj   == With(old, tx[r].dirty[c])
           new   == IF obj.state = "absent" THEN Opened(r, claim \in Severe) ELSE Reported(obj, r, claim \in Severe)
           first == obj.state = "absent"
           changes == Changes(old, new)
<1>3. tx' = [tx EXCEPT ![r].bound[s] = c, ![r].copy[c] = old, ![r].dirty[c] = changes, ![r].flush = first]
    BY <1>2
<1>4. s \in Slots /\ claim \in Claims
    BY DEF Unbound, Typed
<1>5. c \in Claims
    <2>1. c = claim \/ (Cardinality(Continuations(r, claim)) = 1 /\ c = CHOOSE d \in Continuations(r, claim) : TRUE)
        BY DEF GroupFor
    <2>2. ASSUME Cardinality(Continuations(r, claim)) = 1 PROVE Continuations(r, claim) # {}
        BY <2>2, FS_EmptySet
    <2>3. Continuations(r, claim) \subseteq Claims
        BY DEF Continuations
    <2> QED BY <1>4, <2>1, <2>2, <2>3
<1>6. IsTx(tx[r]) /\ InForm(r) /\ DOMAIN tx = Revs
    BY DEF Typed, Orderly
<1>7. old = Seen(r, c) /\ obj = Now(r, c)
    <2>1. old = Seen(r, c)
        BY <1>1, <1>5, <1>6 DEF InForm
    <2> QED BY <2>1 DEF Now
<1>8. IsRow(old) /\ IsRow(obj)
    BY <1>5, <1>7, NowRow
<1>9. IsRow(new) /\ (OpenedAt(r, obj, new) \/ (new = obj /\ SkipsReport(obj)))
    <2>1. CASE obj.state = "absent"
        <3>1. ~ SkipsReport(obj)
            BY <2>1 DEF SkipsReport
        <3>2. new = Opened(r, claim \in Severe)
            BY <2>1
        <3> QED BY <3>1, <3>2, OpenedRow
    <2>2. CASE obj.state # "absent"
        <3>1. new = Reported(obj, r, claim \in Severe)
            BY <2>2
        <3> QED BY <1>8, <3>1, ReportedRow
    <2> QED BY <2>1, <2>2
<1>10. With(old, changes) = new
    BY <1>8, <1>9, WithChanges
<1>11. first \in BOOLEAN
    BY Zenon
<1> HIDE DEF claim, c, old, obj, new, first, changes
<1>12. PICK k, o, n, ch, f :
         /\ k \in Claims /\ f \in BOOLEAN
         /\ tx' = [tx EXCEPT ![r].bound[s] = k, ![r].copy[k] = o, ![r].dirty[k] = ch, ![r].flush = f]
         /\ o = Seen(r, k) /\ IsRow(o) /\ With(o, ch) = n
         /\ OpenedAt(r, Now(r, k), n) \/ (n = Now(r, k) /\ SkipsReport(n))
    BY <1>3, <1>5, <1>7, <1>8, <1>9, <1>10, <1>11
<1>13. /\ DOMAIN tx' = Revs /\ \A q \in Revs \ {r} : tx'[q] = tx[q]
       /\ DOMAIN tx'[r] = TxFields /\ tx'[r].loaded = tx[r].loaded /\ tx'[r].flush = f
       /\ tx'[r].bound = [tx[r].bound EXCEPT ![s] = k] /\ tx'[r].copy = [tx[r].copy EXCEPT ![k] = o]
       /\ tx'[r].dirty = [tx[r].dirty EXCEPT ![k] = ch]
       /\ tx'[r].wrote = tx[r].wrote /\ tx'[r].outs = tx[r].outs /\ tx'[r].judged = tx[r].judged
    BY <1>6, <1>12 DEF IsTx, TxFields
<1>14. /\ \A d \in Claims : tx'[r].copy[d] = IF d = k THEN o ELSE tx[r].copy[d]
       /\ \A d \in Claims : tx'[r].dirty[d] = IF d = k THEN ch ELSE tx[r].dirty[d]
       /\ \A t \in Slots : tx'[r].bound[t] = IF t = s THEN k ELSE tx[r].bound[t]
       /\ DOMAIN tx'[r].copy = Claims /\ DOMAIN tx'[r].dirty = Claims
       /\ tx'[r].bound \in [Slots -> Claims \cup {NoClaim}]
    <2>1. DOMAIN tx[r].copy = Claims /\ DOMAIN tx[r].dirty = Claims /\ tx[r].bound \in [Slots -> Claims \cup {NoClaim}]
        BY <1>6 DEF IsTx
    <2>2. /\ \A d \in Claims : tx'[r].copy[d] = IF d = k THEN o ELSE tx[r].copy[d]
          /\ DOMAIN tx'[r].copy = Claims
        BY <1>12, <1>13, <2>1
    <2>3. /\ \A d \in Claims : tx'[r].dirty[d] = IF d = k THEN ch ELSE tx[r].dirty[d]
          /\ DOMAIN tx'[r].dirty = Claims
        BY <1>12, <1>13, <2>1
    <2>4. /\ \A t \in Slots : tx'[r].bound[t] = IF t = s THEN k ELSE tx[r].bound[t]
          /\ tx'[r].bound \in [Slots -> Claims \cup {NoClaim}]
        <3>1. ASSUME NEW X, NEW b \in [Slots -> X], NEW x \in X
              PROVE  /\ [b EXCEPT ![s] = x] \in [Slots -> X]
                     /\ \A t \in Slots : [b EXCEPT ![s] = x][t] = IF t = s THEN x ELSE b[t]
            OBVIOUS
        <3>2. k \in Claims \cup {NoClaim}
            BY <1>12
        <3>3. /\ [tx[r].bound EXCEPT ![s] = k] \in [Slots -> Claims \cup {NoClaim}]
              /\ \A t \in Slots : [tx[r].bound EXCEPT ![s] = k][t] = IF t = s THEN k ELSE tx[r].bound[t]
            BY <2>1, <3>1, <3>2
        <3> QED BY <1>13, <3>3
    <2> QED BY <2>2, <2>3, <2>4
<1>15. IsTx(tx'[r])
    BY <1>6, <1>12, <1>13, <1>14 DEF IsTx
<1>16. \A d \in Claims : Seen(r, d)' = Seen(r, d)
    BY <1>1, <1>13 DEF Seen
<1>17. Now(r, k)' = n /\ \A d \in Claims \ {k} : Now(r, d)' = Now(r, d)
    <2>1. Now(r, k)' = With(Seen(r, k)', ch)
        BY <1>12, <1>14 DEF Now
    <2>2. Now(r, k)' = n
        BY <1>12, <1>16, <2>1
    <2> QED BY <1>14, <1>16, <2>2 DEF Now
<1>18. \A d \in Claims : Moves(r, Now(r, d), Now(r, d)')
    BY <1>1, <1>12, <1>17 DEF Moves
<1>19. HasTurn(r) /\ stage[r] \notin Ended
    BY <1>1 DEF MayWork, InTurn, HasTurn, Ended
<1>20. Goes(r)
    BY <1>1, <1>18, <1>19 DEF Goes
<1>21. InForm(r)'
    <2>1. ~ tx'[r].loaded
        BY <1>1, <1>6, <1>13 DEF InForm, Loads
    <2>2. \A d \in Claims : tx'[r].copy[d].state # "absent" => tx'[r].copy[d] = Seen(r, d)'
        BY <1>1, <1>6, <1>12, <1>14, <1>16 DEF InForm
    <2> QED BY <1>1, <2>1, <2>2 DEF InForm, Ended
<1>22. Attaches(r)
    <2>1. OpenedAt(r, Now(r, k), Now(r, k)') \/ SkipsReport(Now(r, k)')
        BY <1>12, <1>17
    <2>2. ASSUME NEW t \in Slots, NEW d \in Claims, tx'[r].bound[t] = d, tx[r].bound[t] # d PROVE d = k
        BY <1>14, <2>2
    <2> QED BY <1>20, <2>1, <2>2 DEF Attaches
<1>23. Concludes(r)
    BY <1>1 DEF Concludes
<1>24. Sessional(r)
    BY <1>1, <1>13, <1>15, <1>19, <1>20, <1>21, <1>22, <1>23 DEF Sessional, Typed, Ended
<1>25. ToldOf(r)' /\ JudgedOf(r)'
    BY <1>1, <1>13 DEF ToldOf, JudgedOf
<1> QED BY <1>24, <1>25

LEMMA EnqueueFacts ==
    ASSUME Typed, Orderly, NEW r \in Revs, Enqueue(r)
    PROVE  Sessional(r) /\ ToldOf(r)' /\ JudgedOf(r)'
<1>1. /\ stage[r] = "enqueue" /\ stage' = [stage EXCEPT ![r] = "publish"]
      /\ UNCHANGED <<head, rows, report, bound, outcomes, judged, published, tx, dismissing, dismissals, faults>>
    BY DEF Enqueue
<1>2. tx[r] = NoTx /\ stage[r] \notin Ended
    BY <1>1 DEF Orderly, InForm, Ended
<1>3. DOMAIN tx' = Revs /\ tx'[r] = NoTx /\ \A q \in Revs \ {r} : tx'[q] = tx[q]
    BY <1>1, <1>2 DEF Typed
<1>4. Elsewise(r)
    BY <1>1 DEF Elsewise
<1> QED BY <1>1, <1>2, <1>3, <1>4, ResetFacts

LEMMA ReviewFacts ==
    ASSUME Typed, Orderly, NEW r \in Revs, Review(r)
    PROVE  Sessional(r) /\ ToldOf(r)' /\ JudgedOf(r)'
<1>1. /\ stage[r] = "review"
      /\ UNCHANGED <<head, rows, bound, outcomes, judged, published, retries, tx, dismissing, dismissals, faults>>
    BY DEF Review
<1>2. tx[r] = NoTx /\ stage[r] \notin Ended /\ stage[r] \in Early
    BY <1>1 DEF Orderly, InForm, Ended, Early
<1>3. PICK next \in {"bind", "skipped"} : stage' = [stage EXCEPT ![r] = next]
    BY <1>1 DEF Review
<1>4. /\ DOMAIN report' = Revs /\ \A q \in Revs \ {r} : report'[q] = report[q]
      /\ DOMAIN report'[r] \subseteq Slots /\ \A s \in DOMAIN report'[r] : report'[r][s] \in Claims
    <2>1. CASE UNCHANGED report
        BY <2>1 DEF Typed
    <2>2. CASE \E n \in 0..MaxFindings : \E F \in [1..n -> Claims] : report' = [report EXCEPT ![r] = F]
        <3>1. PICK n \in 0..MaxFindings : \E F \in [1..n -> Claims] : report' = [report EXCEPT ![r] = F]
            BY <2>2
        <3>2. PICK F \in [1..n -> Claims] : report' = [report EXCEPT ![r] = F]
            BY <3>1
        <3>3. DOMAIN F = 1..n /\ 1..n \subseteq Slots
            BY <3>2, GroupsAssumption DEF Slots
        <3> QED BY <3>2, <3>3 DEF Typed
    <2> QED BY <2>1, <2>2 DEF Review
<1>5. /\ DOMAIN tx' = Revs /\ tx'[r] = NoTx /\ \A q \in Revs \ {r} : tx'[q] = tx[q]
      /\ DOMAIN stage' = Revs /\ stage'[r] = next /\ \A q \in Revs \ {r} : stage'[q] = stage[q]
    BY <1>1, <1>2, <1>3 DEF Typed
<1>6. IsTx(tx'[r]) /\ InForm(r)'
    <2>1. /\ ~ tx'[r].loaded /\ \A c \in Claims : tx'[r].copy[c].state = "absent" /\ DOMAIN tx'[r].dirty[c] = {}
          /\ IsTx(tx'[r])
        BY <1>5, NoTxFacts, ColumnsOf
    <2> QED BY <1>5, <2>1 DEF InForm
<1>7. Resets(r) /\ ~ InSession(r)' /\ Concludes(r)
    BY <1>1, <1>5 DEF Resets, InSession, Concludes
<1>8. Attaches(r)
    BY <1>1 DEF Attaches
<1>9. ToldOf(r)' /\ JudgedOf(r)'
    <2>1. tx'[r].outs = {} /\ tx'[r].judged = "none"
        BY <1>5, NoTxFacts
    <2> QED BY <1>5, <2>1 DEF ToldOf, JudgedOf
<1> QED BY <1>1, <1>2, <1>3, <1>4, <1>5, <1>6, <1>7, <1>8, <1>9 DEF Sessional, Typed, Stages

-----------------------------------------------------------------------------
(* The steps of Next.                                                      *)

LEMMA SyncTells ==
    ASSUME Typed, Orderly, NEW r \in Revs, ToldOf(r), Sync(r)
    PROVE  Sessional(r) /\ ToldOf(r)' /\ JudgedOf(r)'
<1>1. Sessional(r) /\ stage'[r] = "synced"
    BY SyncFacts
<1>2. PICK changed : Leave(r, changed, "synced")
    BY DEF Sync
<1>3. tx'[r].outs = tx[r].outs
    BY <1>2, LeaveFacts
<1> QED BY <1>1, <1>3 DEF ToldOf, JudgedOf

Told == \A r \in Revs : Unheard(r) /\ ToldOf(r) /\ JudgedOf(r)

LEMMA SessionStep ==
    ASSUME Typed, Orderly, Told, InTurn, NEW r \in Revs, Step(r) \/ Fail(r)
    PROVE  Sessional(r) /\ ToldOf(r)' /\ JudgedOf(r)'
<1>1. Unheard(r) /\ ToldOf(r) /\ JudgedOf(r)
    BY DEF Told
<1>2. CASE Load(r)
    BY <1>1, <1>2, LoadFacts
<1>3. CASE Flush(r)
    BY <1>1, <1>3, FlushFacts
<1>4. CASE Refused(r)
    BY <1>4, RefusedFacts
<1>5. CASE Sync(r)
    BY <1>1, <1>5, SyncTells
<1>6. CASE Synced(r)
    BY <1>6, SyncedFacts
<1>7. CASE Review(r)
    BY <1>7, ReviewFacts
<1>8. CASE Bind(r)
    BY <1>1, <1>8, BindFacts
<1>9. CASE AllBound(r)
    BY <1>1, <1>9, AllBoundFacts
<1>10. CASE Suppress(r)
    BY <1>1, <1>10, SuppressFacts
<1>11. CASE Close(r)
    BY <1>1, <1>11, CloseFacts
<1>12. CASE Judge(r)
    BY <1>1, <1>12, JudgeFacts
<1>13. CASE Verify(r)
    BY <1>1, <1>13, VerifyFacts
<1>14. CASE Commit(r)
    BY <1>14, CommitFacts
<1>15. CASE Enqueue(r)
    BY <1>15, EnqueueFacts
<1>16. CASE CloseCollapsed(r)
    BY <1>1, <1>16, CloseCollapsedFacts
<1>17. CASE Publish(r)
    BY <1>17, PublishFacts
<1>18. CASE Fail(r)
    BY <1>18, FailFacts
<1> QED BY <1>2, <1>3, <1>4, <1>5, <1>6, <1>7, <1>8, <1>9, <1>10, <1>11, <1>12, <1>13, <1>14, <1>15,
           <1>16, <1>17, <1>18 DEF Step

LEMMA StepCases ==
    ASSUME Typed, Orderly, Told, InTurn, [Next]_vars
    PROVE  \/ \E r \in Revs : Sessional(r) /\ ToldOf(r)' /\ JudgedOf(r)'
           \/ Push \/ (\E c \in Claims : BeginDismissal(c)) \/ Dismiss \/ UNCHANGED vars
BY SessionStep DEF Next

LEMMA NothingWritten ==
    ASSUME NEW row, IsRow(row), NEW c \in Claims
    PROVE  With(With(row, NoTx.wrote[c]), NoTx.dirty[c]) = row
<1>1. DOMAIN NoTx.wrote[c] = {} /\ DOMAIN NoTx.dirty[c] = {}
    BY NoTxFacts
<1>2. With(row, NoTx.wrote[c]) = row
    BY <1>1, WithRow
<1>3. With(row, NoTx.dirty[c]) = row
    BY <1>1, WithRow
<1> QED BY <1>2, <1>3

LEMMA SessionalTyped ==
    ASSUME Typed, NEW r \in Revs, Sessional(r)
    PROVE  Typed'
<1>1. DOMAIN rows' = Claims /\ \A c \in Claims : IsRow(rows'[c])
    <2>1. CASE UNCHANGED rows
        BY <2>1 DEF Typed
    <2>2. CASE Saves(r)
        BY <2>2, NowRow DEF Saves
    <2> QED BY <2>1, <2>2 DEF Sessional, Goes, Resets
<1>2. \A q \in Revs : stage'[q] \in Stages /\ IsTx(tx'[q])
    BY DEF Sessional, Typed
<1>3. \A q \in Revs : DOMAIN report'[q] \subseteq Slots /\ \A s \in DOMAIN report'[q] : report'[q][s] \in Claims
    BY DEF Sessional, Typed
<1>4. /\ head' = head /\ DOMAIN report' = Revs /\ DOMAIN judged' = Revs /\ DOMAIN stage' = Revs /\ DOMAIN tx' = Revs
      /\ bound' \in [Revs -> [Slots -> Claims \cup {NoClaim}]]
    BY DEF Sessional
<1> QED BY <1>1, <1>2, <1>3, <1>4 DEF Typed

\* Every row after a step of r comes from one before it, by a move of r at most.
LEMMA RowOrigins ==
    ASSUME Typed, Orderly, NEW r \in Revs, Sessional(r), NEW c \in Claims
    PROVE  /\ rows'[c] = rows[c] \/ (Saves(r) /\ rows'[c] = Now(r, c))
           /\ Now(r, c)' = rows'[c] \/ (UNCHANGED rows /\ HasTurn(r) /\ Moves(r, Now(r, c), Now(r, c)'))
           /\ \A q \in Revs \ {r} : Now(q, c)' = rows'[c] \/ (UNCHANGED rows /\ Now(q, c)' = Now(q, c))
           /\ Saves(r) => \A q \in Revs : Now(q, c)' = rows'[c]
<1>1. IsRow(rows'[c])
    BY SessionalTyped DEF Typed
<1>2. ASSUME NEW q \in Revs, tx'[q] = NoTx PROVE Now(q, c)' = rows'[c]
    <2>1. Now(q, c)' = With(With(rows'[c], tx'[q].wrote[c]), tx'[q].dirty[c])
        BY DEF Now, Seen
    <2> QED BY <1>1, <1>2, <2>1, NothingWritten
<1>3. ASSUME Saves(r) PROVE rows'[c] = Now(r, c) /\ \A q \in Revs : Now(q, c)' = rows'[c]
    <2>1. rows'[c] = Now(r, c) /\ tx'[r] = NoTx /\ HasTurn(r)
        BY <1>3 DEF Saves
    <2>2. \A q \in Revs \ {r} : tx'[q] = NoTx
        BY <2>1, Alone DEF Sessional
    <2> QED BY <1>2, <2>1, <2>2
<1>4. CASE Goes(r)
    <2>1. UNCHANGED rows /\ HasTurn(r) /\ Moves(r, Now(r, c), Now(r, c)')
        BY <1>4 DEF Goes
    <2>2. \A q \in Revs \ {r} : Now(q, c)' = Now(q, c)
        BY <2>1 DEF Sessional, Now, Seen
    <2> QED BY <1>3, <2>1, <2>2
<1>5. CASE Resets(r)
    <2>1. UNCHANGED rows /\ Now(r, c)' = rows'[c]
        BY <1>2, <1>5 DEF Resets
    <2>2. \A q \in Revs \ {r} : Now(q, c)' = Now(q, c)
        BY <2>1 DEF Sessional, Now, Seen
    <2> QED BY <1>3, <2>1, <2>2
<1>6. CASE Saves(r)
    BY <1>3, <1>6
<1> QED BY <1>4, <1>5, <1>6 DEF Sessional

\* A step of r leaves a session of an earlier revision alone, and a later one has none.
LEMMA OthersStay ==
    ASSUME Typed, Orderly, NEW r \in Revs, Sessional(r), NEW q \in Revs, q # r,
           stage[q] \notin Ended, \A p \in 1 .. (q - 1) : stage[p] \in Ended
    PROVE  /\ UNCHANGED rows /\ outcomes' = outcomes /\ bound'[r] = bound[r]
           /\ \A c \in Claims : Now(q, c)' = Now(q, c)
<1>1. q \in 1 .. (r - 1)
    <2>1. r \notin 1 .. (q - 1)
        BY DEF Sessional
    <2> QED BY <2>1, RevNumbers
<1>2. ~ HasTurn(r)
    BY <1>1 DEF HasTurn
<1>3. UNCHANGED rows /\ outcomes' = outcomes /\ bound'[r] = bound[r]
    BY <1>2 DEF Sessional, Goes, Resets, Saves, Concludes
<1> QED BY <1>3 DEF Sessional, Now, Seen

LEMMA SessionalOrderly ==
    ASSUME Typed, Orderly, NEW r \in Revs, Sessional(r)
    PROVE  Orderly'
<1>1. ASSUME NEW q \in Revs PROVE (stage'[q] = "none" <=> q > head') /\ InForm(q)'
    <2>1. CASE q = r
        BY <2>1 DEF Sessional, Orderly, Ended
    <2>2. CASE q # r
        <3>1. stage'[q] = stage[q] /\ head' = head /\ tx'[q] = tx[q] /\ InForm(q)
            BY <2>2 DEF Sessional, Orderly
        <3>2. stage[q] = "none" <=> q > head
            BY DEF Orderly
        <3>3. CASE UNCHANGED rows
            BY <3>1, <3>2, <3>3 DEF InForm, Seen
        <3>4. CASE Saves(r)
            <4>1. tx[q] = NoTx
                BY <2>2, <3>4, Alone DEF Saves, Sessional
            <4>2. /\ ~ tx'[q].loaded /\ \A c \in Claims : tx'[q].copy[c].state = "absent" /\ DOMAIN tx'[q].dirty[c] = {}
                BY <3>1, <4>1, NoTxFacts, ColumnsOf
            <4> QED BY <3>1, <3>2, <4>1, <4>2 DEF InForm
        <3> QED BY <3>3, <3>4 DEF Sessional, Goes, Resets
    <2> QED BY <2>1, <2>2
<1>2. ASSUME NEW q \in Revs, InSession(q)' PROVE HasTurn(q)'
    <2>1. CASE q = r
        <3>1. HasTurn(r)
            BY <1>2, <2>1 DEF Sessional
        <3>2. \A p \in 1 .. (r - 1) : stage'[p] = stage[p]
            BY RevNumbers DEF Sessional
        <3> QED BY <2>1, <3>1, <3>2 DEF HasTurn, Sessional
    <2>2. CASE q # r
        <3>1. tx'[q] = tx[q] /\ stage'[q] = stage[q]
            BY <2>2 DEF Sessional
        <3>2. HasTurn(q)
            BY <1>2, <3>1 DEF InSession, Orderly
        <3>3. r \notin 1 .. (q - 1)
            BY <3>2 DEF HasTurn, Sessional
        <3>4. \A p \in 1 .. (q - 1) : stage'[p] = stage[p]
            BY <3>3, RevNumbers DEF Sessional
        <3> QED BY <3>2, <3>4 DEF HasTurn, Sessional
    <2> QED BY <2>1, <2>2
<1>3. ASSUME NEW c \in Claims PROVE Blank(rows'[c]) /\ \A q \in Revs : Blank(Now(q, c)')
    <2>1. Blank(rows[c]) /\ \A q \in Revs : Blank(Now(q, c))
        BY DEF Orderly
    <2>2. Blank(rows'[c])
        BY <2>1, RowOrigins
    <2>3. ASSUME NEW old, NEW new, Blank(old), Moves(r, old, new) PROVE Blank(new)
        BY <2>3 DEF Moves, Blank, Marked, Lowered, Same, SettledAt, OpenedAt, Columns
    <2>4. Blank(Now(r, c)')
        BY <2>1, <2>2, <2>3, RowOrigins
    <2>5. \A q \in Revs \ {r} : Blank(Now(q, c)')
        BY <2>1, <2>2, RowOrigins
    <2> QED BY <2>2, <2>4, <2>5
<1>4. ASSUME NEW q \in Revs, \E s \in Slots : bound'[q][s] # NoClaim
      PROVE  q <= head' /\ \A p \in 1 .. (q - 1) : stage'[p] \in Ended
    <2>1. CASE bound'[q] = bound[q]
        <3>1. q <= head /\ \A p \in 1 .. (q - 1) : stage[p] \in Ended
            BY <1>4, <2>1 DEF Orderly
        <3>2. r \notin 1 .. (q - 1)
            BY <3>1 DEF Sessional
        <3> QED BY <3>1, <3>2, RevNumbers DEF Sessional
    <2>2. CASE bound'[q] # bound[q]
        <3>1. q = r /\ HasTurn(r)
            BY <2>2 DEF Sessional, Concludes, Saves
        <3>2. q <= head
            <4>1. ~ (r > head)
                BY DEF Sessional, Orderly, Ended
            <4> QED BY <3>1, <4>1, RevNumbers DEF Typed
        <3>3. \A p \in 1 .. (r - 1) : stage'[p] = stage[p]
            BY RevNumbers DEF Sessional
        <3> QED BY <3>1, <3>2, <3>3 DEF HasTurn, Sessional
    <2> QED BY <2>1, <2>2
<1>5. ASSUME dismissing' # NoRequest
      PROVE  /\ dismissing'.group \in Claims /\ dismissing'.copy = rows'[dismissing'.group]
             /\ dismissing'.copy.state = "active"
    <2>1. dismissing' = dismissing /\ ~ HasTurn(r)
        BY <1>5 DEF Sessional, HasTurn
    <2>2. UNCHANGED rows
        BY <2>1 DEF Sessional, Goes, Resets, Saves
    <2> QED BY <1>5, <2>1, <2>2 DEF Orderly
<1> QED BY <1>1, <1>2, <1>3, <1>4, <1>5 DEF Orderly

-----------------------------------------------------------------------------
(* What rows say.                                                          *)

\* What a person has dismissed stays so; an active row is not closed as absent.
Sane(row) ==
    /\ row.state \in States
    /\ row.method = "human_dismissed" => row.state = "resolved"
    /\ row.state = "active" => row.method # "absent_and_addressed"

Firm ==
    \A c \in Claims :
        /\ Sane(rows[c])
        /\ \A r \in Revs : Sane(Now(r, c)) /\ (rows[c].method = "human_dismissed" => Now(r, c).method = "human_dismissed")

AbsentAt(row, r) == row.method = "absent_and_addressed" /\ row.at = r

\* A group that the review of r reports: seen there, or dismissed before.
Kept(row, r) ==
    /\ row.seen = r \/ (row.state = "resolved" /\ row.method \in Dismissals \cup {"none"})
    /\ ~ AbsentAt(row, r)

ReportKept ==
    \A r \in Revs : \A c \in Claims :
        /\ (\E s \in Slots : bound[r][s] = c) =>
             /\ ~ AbsentAt(rows[c], r) /\ \A q \in Revs : ~ AbsentAt(Now(q, c), r)
             /\ stage[r] \notin Ended => Kept(rows[c], r) /\ Kept(Now(r, c), r)
        /\ (\E s \in Slots : tx[r].bound[s] = c) => Kept(Now(r, c), r)

\* A revision that has not come to its review, or waits for an earlier one.
NotYet(r) == stage[r] \in Early \/ \E q \in 1 .. (r - 1) : stage[q] \notin Ended

\* Before that only a person settles a group at r, and later what is settled has no block.
ByPerson(row, r) == row.at = r => row.method = "human_dismissed"
Fresh(row, r) ==
    row.state = "resolved" /\ row.at = r /\ row.method \notin {"human_dismissed", "none"} => row.blocked = "none"

RowsFresh ==
    \A r \in Revs : \A c \in Claims :
        /\ NotYet(r) => ByPerson(rows[c], r) /\ \A q \in Revs : ByPerson(Now(q, c), r)
        /\ ~ NotYet(r) /\ stage[r] \notin Ended => Fresh(rows[c], r) /\ Fresh(Now(r, c), r)

LEMMA MovesSane ==
    ASSUME NEW r, NEW old, NEW new, Sane(old), Blank(old), Moves(r, old, new)
    PROVE  Sane(new) /\ (old.method = "human_dismissed" => new.method = "human_dismissed")
<1>1. ASSUME Marked(old, new) \/ Lowered(old, new) PROVE new.state = old.state /\ new.method = old.method
    BY <1>1 DEF Marked, Lowered, Same, Columns
<1>2. CASE new = old \/ Marked(old, new) \/ Lowered(old, new)
    BY <1>1, <1>2 DEF Sane
<1>3. CASE SettledAt(r, old, new)
    BY <1>3 DEF SettledAt, Sane, States
<1>4. CASE OpenedAt(r, old, new)
    <2>1. new.state = "active" /\ (new.method = "none" \/ (~ Reopens(old) /\ new.method = old.method)) /\ ~ SkipsReport(old)
        BY <1>4 DEF OpenedAt, Same
    <2>2. old.method # "human_dismissed"
        BY <2>1 DEF SkipsReport, Sane, Dismissals
    <2>3. new.method # "human_dismissed" /\ new.method # "absent_and_addressed"
        BY <2>1, <2>2 DEF Reopens, Sane, Blank, States
    <2> QED BY <2>1, <2>2, <2>3 DEF Sane, States
<1> QED BY <1>2, <1>3, <1>4 DEF Moves

LEMMA MovesKept ==
    ASSUME NEW r, NEW old, NEW new, Sane(old), Blank(old), Moves(r, old, new), Kept(old, r) \/ OpenedAt(r, old, new)
    PROVE  Kept(new, r)
<1>1. CASE new = old \/ Marked(old, new) \/ Lowered(old, new)
    <2>1. new.state = old.state /\ new.method = old.method /\ new.seen = old.seen /\ new.at = old.at
        BY <1>1 DEF Marked, Lowered, Same, Columns
    <2>2. CASE Kept(old, r)
        BY <2>1, <2>2 DEF Kept, AbsentAt
    <2>3. CASE OpenedAt(r, old, new)
        BY <2>1, <2>3 DEF OpenedAt, Kept, AbsentAt, Sane
    <2> QED BY <2>2, <2>3
<1>2. CASE SettledAt(r, old, new)
    BY <1>2 DEF SettledAt, Kept, AbsentAt, OpenedAt
<1>3. CASE OpenedAt(r, old, new)
    BY <1>3 DEF OpenedAt, Same, Kept, AbsentAt, Reopens, Sane, Blank, States
<1> QED BY <1>1, <1>2, <1>3 DEF Moves

\* The moves of another revision close nothing at r.
LEMMA MovesElsewhere ==
    ASSUME NEW r \in Revs, NEW p \in Revs, p # r, NEW old, NEW new, Moves(p, old, new)
    PROVE  /\ ~ AbsentAt(old, r) => ~ AbsentAt(new, r)
           /\ ByPerson(old, r) => ByPerson(new, r)
<1>1. r # 0
    BY RevNumbers
<1>2. (new.at = old.at /\ new.method = old.method) \/ new.at = 0 \/ new.at = p
    BY DEF Moves, Marked, Lowered, Same, Columns, SettledAt, OpenedAt
<1> QED BY <1>1, <1>2 DEF AbsentAt, ByPerson

LEMMA SessionalFirm ==
    ASSUME Typed, Orderly, Firm, NEW r \in Revs, Sessional(r)
    PROVE  Firm' /\ \A c \in Claims : rows[c].method = "human_dismissed" => rows'[c].method = "human_dismissed"
<1>1. ASSUME NEW c \in Claims
      PROVE  /\ Sane(rows'[c]) /\ (rows[c].method = "human_dismissed" => rows'[c].method = "human_dismissed")
             /\ \A q \in Revs : Sane(Now(q, c)') /\ (rows'[c].method = "human_dismissed" => Now(q, c)'.method = "human_dismissed")
    <2>1. /\ Sane(rows[c]) /\ Blank(Now(r, c))
          /\ \A q \in Revs : Sane(Now(q, c)) /\ (rows[c].method = "human_dismissed" => Now(q, c).method = "human_dismissed")
        BY DEF Firm, Orderly
    <2>2. Sane(rows'[c]) /\ (rows[c].method = "human_dismissed" => rows'[c].method = "human_dismissed")
        BY <2>1, RowOrigins
    <2>3. Sane(Now(r, c)') /\ (rows'[c].method = "human_dismissed" => Now(r, c)'.method = "human_dismissed")
        <3>1. CASE Now(r, c)' = rows'[c]
            BY <2>2, <3>1
        <3>2. CASE UNCHANGED rows /\ HasTurn(r) /\ Moves(r, Now(r, c), Now(r, c)')
            <4>1. Sane(Now(r, c)') /\ (Now(r, c).method = "human_dismissed" => Now(r, c)'.method = "human_dismissed")
                BY <2>1, <3>2, MovesSane
            <4> QED BY <2>1, <3>2, <4>1
        <3> QED BY <3>1, <3>2, RowOrigins
    <2>4. ASSUME NEW q \in Revs \ {r}
          PROVE  Sane(Now(q, c)') /\ (rows'[c].method = "human_dismissed" => Now(q, c)'.method = "human_dismissed")
        BY <2>1, <2>2, RowOrigins
    <2> QED BY <2>2, <2>3, <2>4
<1> QED BY <1>1 DEF Firm

LEMMA SessionalFresh ==
    ASSUME Typed, Orderly, RowsFresh, NEW p \in Revs, Sessional(p)
    PROVE  RowsFresh'
<1>1. ASSUME NEW r \in Revs, NotYet(r)' PROVE NotYet(r)
    <2>1. CASE stage'[r] \in Early
        BY <2>1 DEF NotYet, Sessional
    <2>2. CASE \E q \in 1 .. (r - 1) : stage'[q] \notin Ended
        <3>1. PICK q \in 1 .. (r - 1) : stage'[q] \notin Ended
            BY <2>2
        <3>2. stage[q] \notin Ended
            BY <3>1, RevNumbers DEF Sessional
        <3> QED BY <3>2 DEF NotYet
    <2> QED BY <1>1, <2>1, <2>2 DEF NotYet
<1>2. ASSUME NEW r \in Revs, NotYet(r), NEW c \in Claims
      PROVE  ByPerson(rows'[c], r) /\ \A q \in Revs : ByPerson(Now(q, c)', r)
    <2>1. ByPerson(rows[c], r) /\ \A q \in Revs : ByPerson(Now(q, c), r)
        BY <1>2 DEF RowsFresh
    <2>2. ByPerson(rows'[c], r)
        BY <2>1, RowOrigins
    <2>3. ByPerson(Now(p, c)', r)
        <3>1. CASE Now(p, c)' = rows'[c]
            BY <2>2, <3>1
        <3>2. CASE HasTurn(p) /\ Moves(p, Now(p, c), Now(p, c)')
            <4>1. CASE p # r
                BY <2>1, <3>2, <4>1, MovesElsewhere
            <4>2. CASE p = r
                <5>1. stage[p] \in Early
                    BY <1>2, <3>2, <4>2 DEF NotYet, HasTurn
                <5>2. Now(p, c)' = Now(p, c) \/ Marked(Now(p, c), Now(p, c)')
                    BY <3>2, <5>1 DEF Moves, Early
                <5> QED BY <2>1, <5>2 DEF Marked, Same, ByPerson
            <4> QED BY <4>1, <4>2
        <3> QED BY <3>1, <3>2, RowOrigins
    <2>4. \A q \in Revs \ {p} : ByPerson(Now(q, c)', r)
        BY <2>1, <2>2, RowOrigins
    <2> QED BY <2>2, <2>3, <2>4
<1>3. ASSUME NEW r \in Revs, ~ NotYet(r)', stage'[r] \notin Ended, NEW c \in Claims
      PROVE  Fresh(rows'[c], r) /\ Fresh(Now(r, c)', r)
    <2>1. CASE NotYet(r)
        BY <1>2, <2>1 DEF ByPerson, Fresh
    <2>2. CASE ~ NotYet(r)
        <3>1. stage[r] \notin Ended
            BY <1>3 DEF Sessional
        <3>2. Fresh(rows[c], r) /\ Fresh(Now(r, c), r) /\ stage[r] \notin Early /\ \A q \in 1 .. (r - 1) : stage[q] \in Ended
            BY <2>2, <3>1 DEF RowsFresh, NotYet
        <3>3. CASE p # r
            BY <3>1, <3>2, <3>3, OthersStay
        <3>4. CASE p = r
            <4>1. Fresh(rows'[c], r)
                BY <3>2, <3>4, RowOrigins
            <4>2. ASSUME Moves(r, Now(r, c), Now(r, c)') PROVE Fresh(Now(r, c)', r)
                <5>1. \/ Now(r, c)' = Now(r, c) \/ Lowered(Now(r, c), Now(r, c)') \/ SettledAt(r, Now(r, c), Now(r, c)')
                      \/ OpenedAt(r, Now(r, c), Now(r, c)')
                    BY <3>2, <4>2 DEF Moves, Early
                <5> QED BY <3>2, <5>1 DEF Lowered, Same, Columns, SettledAt, OpenedAt, Fresh
            <4> QED BY <3>4, <4>1, <4>2, RowOrigins
        <3> QED BY <3>3, <3>4
    <2> QED BY <2>1, <2>2
<1> QED BY <1>1, <1>2, <1>3 DEF RowsFresh

LEMMA SessionalKept ==
    ASSUME Typed, Orderly, Firm, ReportKept, NEW p \in Revs, Sessional(p)
    PROVE  ReportKept'
<1>1. ASSUME NEW r \in Revs, NEW c \in Claims PROVE Sane(Now(r, c)) /\ Blank(Now(r, c))
    BY DEF Firm, Orderly
<1>2. ASSUME NEW r \in Revs, NEW c \in Claims, \E s \in Slots : bound'[r][s] = c
      PROVE  /\ ~ AbsentAt(rows'[c], r) /\ \A q \in Revs : ~ AbsentAt(Now(q, c)', r)
             /\ stage'[r] \notin Ended => Kept(rows'[c], r) /\ Kept(Now(r, c)', r)
    <2>1. CASE bound'[r] = bound[r]
        <3>1. /\ ~ AbsentAt(rows[c], r) /\ \A q \in Revs : ~ AbsentAt(Now(q, c), r)
              /\ stage[r] \notin Ended => Kept(rows[c], r) /\ Kept(Now(r, c), r)
            BY <1>2, <2>1 DEF ReportKept
        <3>2. ~ AbsentAt(rows'[c], r)
            BY <3>1, RowOrigins
        <3>3. ASSUME NEW q \in Revs \ {p} PROVE ~ AbsentAt(Now(q, c)', r)
            BY <3>1, <3>2, <3>3, RowOrigins
        <3>4. CASE p # r
            <4>1. ~ AbsentAt(Now(p, c)', r)
                BY <3>1, <3>2, <3>4, RowOrigins, MovesElsewhere
            <4>2. ASSUME stage'[r] \notin Ended PROVE Kept(rows'[c], r) /\ Kept(Now(r, c)', r)
                <5>1. stage[r] \notin Ended
                    BY <3>4, <4>2 DEF Sessional
                <5>2. \E s \in Slots : bound[r][s] # NoClaim
                    BY <1>2, <2>1, GroupsAssumption
                <5>3. \A q \in 1 .. (r - 1) : stage[q] \in Ended
                    BY <5>2 DEF Orderly
                <5> QED BY <3>1, <3>4, <5>1, <5>3, OthersStay
            <4> QED BY <3>2, <3>3, <4>1, <4>2
        <3>5. CASE p = r
            <4>1. Kept(rows[c], r) /\ Kept(Now(r, c), r)
                BY <3>1, <3>5 DEF Sessional
            <4>2. Kept(rows'[c], r)
                BY <3>5, <4>1, RowOrigins
            <4>3. Kept(Now(r, c)', r)
                BY <1>1, <3>5, <4>1, <4>2, RowOrigins, MovesKept
            <4> QED BY <3>2, <3>3, <3>5, <4>2, <4>3 DEF Kept
        <3> QED BY <3>4, <3>5
    <2>2. CASE bound'[r] # bound[r]
        <3>1. p = r /\ Saves(r) /\ bound'[r] = tx[r].bound
            BY <2>2 DEF Sessional, Concludes
        <3>2. Kept(Now(r, c), r)
            BY <1>2, <3>1 DEF ReportKept
        <3>3. rows'[c] = Now(r, c) /\ \A q \in Revs : Now(q, c)' = rows'[c]
            BY <3>1, RowOrigins DEF Saves
        <3> QED BY <3>2, <3>3 DEF Kept
    <2> QED BY <2>1, <2>2
<1>3. ASSUME NEW r \in Revs, NEW c \in Claims, NEW s \in Slots, tx'[r].bound[s] = c
      PROVE  Kept(Now(r, c)', r)
    <2>1. CASE p # r
        <3>1. tx'[r] = tx[r] /\ Kept(Now(r, c), r)
            BY <1>3, <2>1 DEF Sessional, ReportKept
        <3>2. tx[r] # NoTx
            BY <1>3, <3>1, NoTxFacts, GroupsAssumption
        <3>3. HasTurn(r) /\ stage[r] \notin Ended
            BY <3>2 DEF Orderly, InSession, InForm
        <3> QED BY <2>1, <3>1, <3>3, OthersStay DEF HasTurn
    <2>2. CASE p = r
        <3>1. tx'[r] # NoTx
            BY <1>3, NoTxFacts, GroupsAssumption
        <3>2. Goes(r)
            BY <2>2, <3>1 DEF Sessional, Resets, Saves
        <3>3. Moves(r, Now(r, c), Now(r, c)')
            BY <3>2 DEF Goes
        <3>4. \/ tx[r].bound[s] = c \/ OpenedAt(r, Now(r, c), Now(r, c)') \/ SkipsReport(Now(r, c)')
            BY <1>3, <2>2 DEF Sessional, Attaches
        <3>5. CASE SkipsReport(Now(r, c)')
            BY <3>5 DEF SkipsReport, Kept, AbsentAt, Dismissals
        <3>6. CASE tx[r].bound[s] = c \/ OpenedAt(r, Now(r, c), Now(r, c)')
            <4>1. Kept(Now(r, c), r) \/ OpenedAt(r, Now(r, c), Now(r, c)')
                BY <3>6 DEF ReportKept
            <4> QED BY <1>1, <3>3, <4>1, MovesKept
        <3> QED BY <3>4, <3>5, <3>6
    <2> QED BY <2>1, <2>2
<1> QED BY <1>2, <1>3 DEF ReportKept

LEMMA SessionalTold ==
    ASSUME Typed, Orderly, Told, NEW p \in Revs, Sessional(p), ToldOf(p)', JudgedOf(p)'
    PROVE  Told'
<1>1. ASSUME NEW r \in Revs PROVE Unheard(r)'
    <2>1. Unheard(r) /\ ToldOf(p)
        BY DEF Told
    <2>2. CASE outcomes' = outcomes /\ judged'[p] = judged[p]
        BY <2>1, <2>2 DEF Sessional, Unheard
    <2>3. CASE stage[p] = "commit" /\ outcomes' = outcomes \cup tx[p].outs /\ judged'[p] = tx[p].judged
        <3>1. judged'[p] # "none" /\ \A o \in tx[p].outs : o.rev = p
            BY <2>1, <2>3 DEF ToldOf
        <3>2. r # p => judged'[r] = judged[r]
            BY DEF Sessional
        <3> QED BY <2>1, <2>3, <3>1, <3>2 DEF Unheard
    <2> QED BY <2>2, <2>3 DEF Sessional, Concludes
<1>2. ASSUME NEW r \in Revs, r # p PROVE ToldOf(r)' /\ JudgedOf(r)'
    <2>1. /\ tx'[r] = tx[r] /\ stage'[r] = stage[r] /\ judged'[r] = judged[r] /\ report'[r] = report[r]
          /\ ToldOf(r) /\ JudgedOf(r)
        BY <1>2 DEF Sessional, Told
    <2>2. ToldOf(r)'
        BY <2>1 DEF ToldOf
    <2>3. CASE stage[r] \notin {"verify", "commit"}
        BY <2>1, <2>2, <2>3 DEF JudgedOf
    <2>4. CASE stage[r] \in {"verify", "commit"}
        <3>1. HasTurn(r) /\ stage[r] \notin Ended
            BY <2>4 DEF Orderly, InSession, Ended
        <3>2. outcomes' = outcomes /\ \A c \in Claims : Now(r, c)' = Now(r, c)
            BY <1>2, <3>1, OthersStay DEF HasTurn
        <3> DEFINE rest == [c \in Claims |-> Now(r, c)']
        <3>3. Rest(r)' = rest /\ rest = Rest(r)
            BY <3>2 DEF Rest
        <3> HIDE DEF rest
        <3>4. JudgedOf(r)'
            BY <2>1, <3>2, <3>3 DEF JudgedOf
        <3> QED BY <2>2, <3>4
    <2> QED BY <2>3, <2>4
<1>3. \A r \in Revs : ToldOf(r)' /\ JudgedOf(r)'
    BY <1>2
<1> QED BY <1>1, <1>3 DEF Told

-----------------------------------------------------------------------------
(* A push, and a person.                                                   *)

GroupsInv == Typed /\ Orderly /\ Firm /\ RowsFresh /\ ReportKept /\ Told

LEMMA PushKeeps ==
    ASSUME GroupsInv, Push
    PROVE  GroupsInv'
<1> DEFINE new == head + 1
<1>1. /\ head < MaxRev /\ head' = new /\ stage' = [stage EXCEPT ![new] = IF head = 0 THEN "review" ELSE "sync"]
      /\ UNCHANGED <<rows, report, bound, outcomes, judged, published, retries, tx, dismissing, dismissals, faults>>
    BY DEF Push
<1>2. new \in Revs /\ new \in Nat /\ head \in Nat
    BY <1>1, GroupsAssumption DEF Revs, GroupsInv, Typed
<1>3. /\ stage[new] = "none" /\ stage'[new] \in {"review", "sync"} /\ DOMAIN stage' = Revs
      /\ \A q \in Revs \ {new} : stage'[q] = stage[q]
    BY <1>1, <1>2 DEF GroupsInv, Typed, Orderly
<1> HIDE DEF new
<1>4. tx[new] = NoTx
    BY <1>2, <1>3 DEF GroupsInv, Orderly, InForm, Ended
<1>5. ASSUME NEW r \in Revs, NEW c \in Claims PROVE Now(r, c)' = Now(r, c) /\ Seen(r, c)' = Seen(r, c)
    BY <1>1 DEF Now, Seen
<1>6. Typed'
    <2>1. \A q \in Revs : stage'[q] \in Stages
        BY <1>3 DEF GroupsInv, Typed, Stages
    <2> QED BY <1>1, <1>2, <1>3, <2>1 DEF GroupsInv, Typed
<1>7. ASSUME NEW r \in Revs, stage[r] = "none" PROVE r > head
    BY <1>7 DEF GroupsInv, Orderly
<1>8. ASSUME NEW r \in Revs, r <= head \/ stage[r] # "none"
      PROVE  /\ r # new /\ stage'[r] = stage[r] /\ tx'[r] = tx[r]
             /\ \A q \in 1 .. (r - 1) : q # new /\ stage'[q] = stage[q]
    <2>1. r <= head
        <3>1. stage[r] = "none" <=> r > head
            BY DEF GroupsInv, Orderly
        <3>2. r \in Nat
            BY RevNumbers
        <3> QED BY <1>2, <1>8, <3>1, <3>2
    <2>2. r # new /\ new \notin 1 .. (r - 1)
        BY <1>2, <2>1, RevNumbers DEF new
    <2> QED BY <1>1, <1>3, <2>2, RevNumbers
<1>9. Orderly'
    <2>1. ASSUME NEW r \in Revs PROVE stage'[r] = "none" <=> r > head'
        <3>1. stage[r] = "none" <=> r > head
            BY DEF GroupsInv, Orderly
        <3> QED BY <1>1, <1>2, <1>3, <3>1, RevNumbers DEF new
    <2>2. ASSUME NEW r \in Revs PROVE InForm(r)'
        <3>1. InForm(r) /\ tx'[r] = tx[r]
            BY <1>1 DEF GroupsInv, Orderly
        <3>2. CASE r = new
            <4>1. ~ tx'[r].loaded /\ tx'[r] = NoTx /\ \A c \in Claims : DOMAIN tx'[r].dirty[c] = {}
                BY <1>4, <3>1, <3>2, NoTxFacts
            <4> QED BY <1>3, <3>2, <4>1 DEF InForm
        <3>3. CASE r # new
            BY <1>3, <1>5, <3>1, <3>3 DEF InForm
        <3> QED BY <3>2, <3>3
    <2>3. ASSUME NEW r \in Revs, InSession(r)' PROVE HasTurn(r)'
        <3>1. r # new
            BY <1>1, <1>3, <1>4, <2>3 DEF InSession
        <3>2. InSession(r)
            BY <1>1, <1>3, <2>3, <3>1 DEF InSession
        <3>3. HasTurn(r) /\ stage[r] # "none"
            BY <3>2 DEF GroupsInv, Orderly, InSession, InForm, Ended
        <3>4. \A q \in 1 .. (r - 1) : stage'[q] = stage[q]
            BY <1>8, <3>3
        <3> QED BY <1>1, <3>3, <3>4 DEF HasTurn
    <2>4. ASSUME NEW c \in Claims PROVE Blank(rows'[c]) /\ \A r \in Revs : Blank(Now(r, c)')
        BY <1>1, <1>5 DEF GroupsInv, Orderly
    <2>5. ASSUME NEW r \in Revs, \E s \in Slots : bound'[r][s] # NoClaim
          PROVE  r <= head' /\ \A q \in 1 .. (r - 1) : stage'[q] \in Ended
        <3>1. r <= head /\ \A q \in 1 .. (r - 1) : stage[q] \in Ended
            BY <1>1, <2>5 DEF GroupsInv, Orderly
        <3>2. \A q \in 1 .. (r - 1) : stage'[q] = stage[q]
            BY <1>8, <3>1
        <3>3. r <= head'
            BY <1>1, <1>2, <3>1, RevNumbers DEF new
        <3> QED BY <3>1, <3>2, <3>3
    <2>6. dismissing' # NoRequest => /\ dismissing'.group \in Claims /\ dismissing'.copy = rows'[dismissing'.group]
                                     /\ dismissing'.copy.state = "active"
        BY <1>1 DEF GroupsInv, Orderly
    <2> QED BY <2>1, <2>2, <2>3, <2>4, <2>5, <2>6 DEF Orderly
<1>10. Firm'
    BY <1>1, <1>5 DEF GroupsInv, Firm
<1>11. RowsFresh'
    <2>1. ASSUME NEW r \in Revs, NotYet(r)' PROVE NotYet(r)
        <3>1. CASE r = new
            BY <1>3, <3>1 DEF NotYet, Early
        <3>2. CASE r # new /\ stage[r] = "none"
            BY <3>2 DEF NotYet, Early
        <3>3. CASE stage[r] # "none"
            BY <1>8, <2>1, <3>3 DEF NotYet
        <3> QED BY <3>1, <3>2, <3>3
    <2>2. ASSUME NEW r \in Revs, ~ NotYet(r)', stage'[r] \notin Ended PROVE ~ NotYet(r) /\ stage[r] \notin Ended
        <3>1. stage'[r] \notin Early
            BY <2>2 DEF NotYet
        <3>2. r # new
            BY <1>3, <3>1 DEF Early
        <3>3. stage[r] \notin Ended /\ stage[r] # "none"
            BY <1>3, <2>2, <3>2 DEF Ended
        <3> QED BY <1>8, <2>2, <3>3 DEF NotYet
    <2> QED BY <1>1, <1>5, <2>1, <2>2 DEF GroupsInv, RowsFresh
<1>12. ReportKept'
    <2>1. ASSUME NEW r \in Revs, \E s \in Slots : bound'[r][s] \in Claims, stage'[r] \notin Ended PROVE stage[r] \notin Ended
        <3>1. \E s \in Slots : bound[r][s] # NoClaim
            BY <1>1, <2>1, GroupsAssumption
        <3>2. r <= head
            BY <3>1 DEF GroupsInv, Orderly
        <3> QED BY <1>8, <2>1, <3>2
    <2> QED BY <1>1, <1>5, <2>1 DEF GroupsInv, ReportKept
<1>13. Told'
    <2>1. ASSUME NEW r \in Revs PROVE Unheard(r)' /\ ToldOf(r)' /\ JudgedOf(r)'
        <3>1. Unheard(r) /\ ToldOf(r) /\ JudgedOf(r)
            BY DEF GroupsInv, Told
        <3> DEFINE rest == [c \in Claims |-> Now(r, c)']
        <3>2. Rest(r)' = rest /\ rest = Rest(r)
            BY <1>5 DEF Rest
        <3> HIDE DEF rest
        <3>3. stage'[r] = stage[r] \/ stage'[r] \in {"review", "sync"}
            BY <1>3
        <3> QED BY <1>1, <3>1, <3>2, <3>3 DEF Unheard, ToldOf, JudgedOf
    <2> QED BY <2>1 DEF Told
<1> QED BY <1>6, <1>9, <1>10, <1>11, <1>12, <1>13 DEF GroupsInv

LEMMA BeginDismissalKeeps ==
    ASSUME GroupsInv, InTurn, NEW c \in Claims, BeginDismissal(c)
    PROVE  GroupsInv'
<1>1. /\ \A r \in Revs : ~ InSession(r)
      /\ rows[c].state = "active" /\ dismissing' = [group |-> c, copy |-> rows[c], at |-> head]
      /\ UNCHANGED <<head, rows, report, bound, outcomes, judged, published, stage, retries, tx, faults>>
    BY DEF BeginDismissal, InTurn
<1>2. ASSUME NEW r \in Revs, NEW d \in Claims PROVE Now(r, d)' = Now(r, d) /\ Seen(r, d)' = Seen(r, d)
    BY <1>1 DEF Now, Seen
<1>3. Typed'
    BY <1>1 DEF GroupsInv, Typed
<1>4. Orderly'
    <2>1. \A r \in Revs : InForm(r)' /\ ~ InSession(r)'
        BY <1>1, <1>2 DEF GroupsInv, Orderly, InForm, InSession
    <2>2. dismissing'.group \in Claims /\ dismissing'.copy = rows'[dismissing'.group] /\ dismissing'.copy.state = "active"
        BY <1>1
    <2> QED BY <1>1, <1>2, <2>1, <2>2 DEF GroupsInv, Orderly
<1>5. Firm' /\ RowsFresh' /\ ReportKept'
    BY <1>1, <1>2 DEF GroupsInv, Firm, RowsFresh, NotYet, ReportKept
<1>6. Told'
    <2>1. ASSUME NEW r \in Revs PROVE Unheard(r)' /\ ToldOf(r)' /\ JudgedOf(r)'
        <3> DEFINE rest == [d \in Claims |-> Now(r, d)']
        <3>1. Rest(r)' = rest /\ rest = Rest(r)
            BY <1>2 DEF Rest
        <3> HIDE DEF rest
        <3> QED BY <1>1, <3>1 DEF GroupsInv, Told, Unheard, ToldOf, JudgedOf
    <2> QED BY <2>1 DEF Told
<1> QED BY <1>3, <1>4, <1>5, <1>6 DEF GroupsInv

\* A dismissal finds the row as the request has read it.
LEMMA DismissedRow ==
    ASSUME GroupsInv, Dismiss
    PROVE  \E c \in Claims :
             /\ DOMAIN rows' = Claims /\ \A d \in Claims \ {c} : rows'[d] = rows[d]
             /\ rows[c].state = "active" /\ IsRow(rows'[c]) /\ rows'[c].state = "resolved"
             /\ rows'[c].method = "human_dismissed" /\ rows'[c].seen = rows[c].seen
<1> DEFINE c == dismissing.group
           new == With(dismissing.copy, Closure("human_dismissed", dismissing.at))
<1>1. rows' = [rows EXCEPT ![c] = With(@, Changes(dismissing.copy, new))]
    BY DEF Dismiss
<1>2. c \in Claims /\ dismissing.copy = rows[c] /\ rows[c].state = "active"
    BY DEF GroupsInv, Orderly, Dismiss
<1>3. IsRow(rows[c]) /\ DOMAIN rows = Claims
    BY <1>2 DEF GroupsInv, Typed
<1>4. IsRow(new) /\ new.state = "resolved" /\ new.method = "human_dismissed" /\ new.seen = rows[c].seen
    <2>1. /\ DOMAIN Closure("human_dismissed", dismissing.at) = {"state", "method", "at", "blocked"}
          /\ Closure("human_dismissed", dismissing.at).state = "resolved"
          /\ Closure("human_dismissed", dismissing.at).method = "human_dismissed"
        BY DEF Closure
    <2> QED BY <1>2, <1>3, <2>1, WithRow DEF Columns
<1> HIDE DEF new
<1>5. With(rows[c], Changes(dismissing.copy, new)) = new
    BY <1>2, <1>3, <1>4, WithChanges
<1>6. rows' = [rows EXCEPT ![c] = new]
    BY <1>1, <1>5
<1> QED BY <1>2, <1>3, <1>4, <1>6

LEMMA DismissKeeps ==
    ASSUME GroupsInv, InTurn, Dismiss
    PROVE  GroupsInv' /\ \A c \in Claims : rows[c].method = "human_dismissed" => rows'[c].method = "human_dismissed"
<1>1. /\ dismissing # NoRequest /\ dismissing' = NoRequest
      /\ UNCHANGED <<head, report, bound, outcomes, judged, published, stage, retries, tx, dismissals, faults>>
    BY DEF Dismiss
<1>2. PICK c \in Claims :
        /\ DOMAIN rows' = Claims /\ \A d \in Claims \ {c} : rows'[d] = rows[d]
        /\ rows[c].state = "active" /\ IsRow(rows'[c]) /\ rows'[c].state = "resolved"
        /\ rows'[c].method = "human_dismissed" /\ rows'[c].seen = rows[c].seen
    BY DismissedRow
<1>3. \A r \in Revs : ~ InSession(r) /\ tx[r] = NoTx
    BY <1>1 DEF GroupsInv, Orderly, HasTurn, InSession
<1>4. \A d \in Claims : IsRow(rows[d]) /\ IsRow(rows'[d])
    BY <1>2 DEF GroupsInv, Typed
<1>5. ASSUME NEW r \in Revs, NEW d \in Claims PROVE Now(r, d) = rows[d] /\ Now(r, d)' = rows'[d]
    <2>1. Now(r, d) = With(With(rows[d], NoTx.wrote[d]), NoTx.dirty[d])
        BY <1>3 DEF Now, Seen
    <2>2. Now(r, d)' = With(With(rows'[d], NoTx.wrote[d]), NoTx.dirty[d])
        BY <1>1, <1>3 DEF Now, Seen
    <2> QED BY <1>4, <2>1, <2>2, NothingWritten
<1>6. Typed'
    BY <1>1, <1>2, <1>4 DEF GroupsInv, Typed
<1>7. Orderly'
    <2>1. ASSUME NEW r \in Revs PROVE InForm(r)' /\ ~ InSession(r)'
        <3>1. ~ tx'[r].loaded /\ tx'[r] = NoTx
              /\ \A d \in Claims : tx'[r].copy[d].state = "absent" /\ DOMAIN tx'[r].dirty[d] = {}
            BY <1>1, <1>3, NoTxFacts, ColumnsOf
        <3>2. InForm(r)'
            BY <3>1 DEF InForm
        <3> QED BY <1>1, <1>3, <3>2 DEF InSession
    <2>2. \A d \in Claims : Blank(rows'[d])
        BY <1>2 DEF GroupsInv, Orderly, Blank
    <2> QED BY <1>1, <1>5, <2>1, <2>2 DEF GroupsInv, Orderly
<1>8. Firm' /\ \A d \in Claims : rows[d].method = "human_dismissed" => rows'[d].method = "human_dismissed"
    <2>1. \A d \in Claims : Sane(rows'[d])
        BY <1>2 DEF GroupsInv, Firm, Sane, States
    <2>2. \A d \in Claims : rows[d].method = "human_dismissed" => rows'[d].method = "human_dismissed"
        BY <1>2
    <2> QED BY <1>5, <2>1, <2>2 DEF Firm
<1>9. RowsFresh'
    <2>1. ASSUME NEW r \in Revs, NEW d \in Claims
          PROVE  /\ ByPerson(rows[d], r) => ByPerson(rows'[d], r)
                 /\ Fresh(rows[d], r) => Fresh(rows'[d], r)
        BY <1>2 DEF ByPerson, Fresh
    <2>2. \A r \in Revs : NotYet(r)' <=> NotYet(r)
        BY <1>1 DEF NotYet
    <2> QED BY <1>1, <1>5, <2>1, <2>2 DEF GroupsInv, RowsFresh
<1>10. ReportKept'
    <2>1. ASSUME NEW r \in Revs, NEW d \in Claims
          PROVE  /\ ~ AbsentAt(rows[d], r) => ~ AbsentAt(rows'[d], r)
                 /\ Kept(rows[d], r) => Kept(rows'[d], r)
        BY <1>2 DEF AbsentAt, Kept, Dismissals
    <2> QED BY <1>1, <1>5, <2>1 DEF GroupsInv, ReportKept
<1>11. Told'
    <2>1. ASSUME NEW r \in Revs PROVE Unheard(r)' /\ ToldOf(r)' /\ JudgedOf(r)'
        <3>1. stage[r] \notin {"verify", "commit"}
            BY <1>3 DEF InSession
        <3> QED BY <1>1, <3>1 DEF GroupsInv, Told, Unheard, ToldOf, JudgedOf
    <2> QED BY <2>1 DEF Told
<1> QED BY <1>6, <1>7, <1>8, <1>9, <1>10, <1>11 DEF GroupsInv

-----------------------------------------------------------------------------
(* The theorems.                                                           *)

LEMMA GroupsInit ==
    ASSUME Init
    PROVE  GroupsInv
<1>1. /\ head = 0 /\ rows = [c \in Claims |-> NoRow] /\ report = [r \in Revs |-> <<>>]
      /\ bound = [r \in Revs |-> NoGroups] /\ outcomes = {} /\ judged = [r \in Revs |-> "none"]
      /\ stage = [r \in Revs |-> "none"] /\ tx = [r \in Revs |-> NoTx] /\ dismissing = NoRequest
    BY DEF Init
<1>2. \A c \in Claims : rows[c] = NoRow /\ IsRow(rows[c])
    BY <1>1, ColumnsOf
<1>3. ASSUME NEW r \in Revs, NEW c \in Claims PROVE Now(r, c) = NoRow
    <2>1. Now(r, c) = With(With(rows[c], NoTx.wrote[c]), NoTx.dirty[c])
        BY <1>1 DEF Now, Seen
    <2> QED BY <1>2, <2>1, NothingWritten
<1>4. \A r \in Revs : tx[r] = NoTx /\ stage[r] = "none" /\ ~ InSession(r) /\ \A s \in Slots : bound[r][s] = NoClaim
    BY <1>1 DEF InSession, NoGroups
<1>5. Typed
    <2>1. \A r \in Revs : DOMAIN report[r] = {}
        BY <1>1
    <2>2. bound \in [Revs -> [Slots -> Claims \cup {NoClaim}]]
        BY <1>1 DEF NoGroups
    <2> QED BY <1>1, <1>2, <1>4, <2>1, <2>2, NoTxFacts DEF Typed, Stages
<1>6. Orderly
    <2>1. \A r \in Revs : InForm(r)
        BY <1>4, NoTxFacts, ColumnsOf DEF InForm
    <2>2. \A r \in Revs : r > head
        BY <1>1, RevNumbers
    <2> QED BY <1>1, <1>2, <1>3, <1>4, <2>1, <2>2, ColumnsOf DEF Orderly, Blank
<1>7. Firm
    BY <1>2, <1>3, ColumnsOf DEF Firm, Sane, States
<1>8. RowsFresh
    <2>1. \A r \in Revs : NotYet(r) /\ r # 0
        BY <1>4, RevNumbers DEF NotYet, Early
    <2> QED BY <1>2, <1>3, <2>1, ColumnsOf DEF RowsFresh, ByPerson
<1>9. ReportKept
    BY <1>4, NoTxFacts, GroupsAssumption DEF ReportKept
<1>10. Told
    BY <1>1, <1>4, NoTxFacts DEF Told, Unheard, ToldOf, JudgedOf
<1> QED BY <1>5, <1>6, <1>7, <1>8, <1>9, <1>10 DEF GroupsInv

LEMMA GroupsStep ==
    ASSUME GroupsInv, InTurn, [Next]_vars
    PROVE  GroupsInv' /\ \A c \in Claims : rows[c].method = "human_dismissed" => rows'[c].method = "human_dismissed"
<1>1. Typed /\ Orderly /\ Firm /\ RowsFresh /\ ReportKept /\ Told
    BY DEF GroupsInv
<1>2. CASE \E r \in Revs : Sessional(r) /\ ToldOf(r)' /\ JudgedOf(r)'
    <2>1. PICK r \in Revs : Sessional(r) /\ ToldOf(r)' /\ JudgedOf(r)'
        BY <1>2
    <2>2. Typed' /\ Orderly'
        BY <1>1, <2>1, SessionalTyped, SessionalOrderly
    <2>3. Firm' /\ \A c \in Claims : rows[c].method = "human_dismissed" => rows'[c].method = "human_dismissed"
        BY <1>1, <2>1, SessionalFirm
    <2>4. RowsFresh' /\ ReportKept' /\ Told'
        BY <1>1, <2>1, SessionalFresh, SessionalKept, SessionalTold
    <2> QED BY <2>2, <2>3, <2>4 DEF GroupsInv
<1>3. CASE Push
    BY <1>3, PushKeeps DEF Push
<1>4. CASE \E c \in Claims : BeginDismissal(c)
    BY <1>4, BeginDismissalKeeps DEF BeginDismissal
<1>5. CASE Dismiss
    BY <1>5, DismissKeeps
<1>6. CASE UNCHANGED vars
    <2>1. UNCHANGED <<head, rows, report, bound, outcomes, judged, published, stage, tx, dismissing>>
        BY <1>6 DEF vars
    <2>2. ASSUME NEW r \in Revs, NEW c \in Claims PROVE Now(r, c)' = Now(r, c) /\ Seen(r, c)' = Seen(r, c)
        BY <2>1 DEF Now, Seen
    <2>3. Typed' /\ Firm' /\ RowsFresh' /\ ReportKept'
        BY <1>1, <2>1, <2>2 DEF Typed, Firm, RowsFresh, NotYet, ReportKept
    <2>4. Orderly'
        BY <1>1, <2>1, <2>2 DEF Orderly, InForm, InSession, HasTurn
    <2>5. Told'
        <3>1. ASSUME NEW r \in Revs PROVE Unheard(r)' /\ ToldOf(r)' /\ JudgedOf(r)'
            <4> DEFINE rest == [c \in Claims |-> Now(r, c)']
            <4>1. Rest(r)' = rest /\ rest = Rest(r)
                BY <2>2 DEF Rest
            <4> HIDE DEF rest
            <4> QED BY <1>1, <2>1, <4>1 DEF Told, Unheard, ToldOf, JudgedOf
        <3> QED BY <3>1 DEF Told
    <2> QED BY <2>1, <2>3, <2>4, <2>5 DEF GroupsInv
<1> QED BY <1>1, <1>2, <1>3, <1>4, <1>5, <1>6, StepCases

LEMMA GroupsHold == InTurn => (Spec => []GroupsInv)
<1>1. Init => GroupsInv
    BY GroupsInit
<1>2. InTurn /\ GroupsInv /\ [Next]_vars => GroupsInv'
    BY GroupsStep
<1>3. ASSUME InTurn PROVE GroupsInv /\ [Next]_vars => GroupsInv'
    BY <1>2, <1>3
<1>4. ASSUME InTurn PROVE Spec => []GroupsInv
    BY <1>1, <1>3, <1>4, PTL DEF Spec
<1> QED BY <1>4

\* Where tasks and dismissals do not overlap, neither Pass 2 nor the collapse of threads
\* closes as absent, at a revision, a group that the review of that revision reports:
\* closed_by_pass2 (github_finding_closure_rules) asks the finding's own run.
THEOREM ReportedIsOpenHolds == InTurn => (Spec => []ReportedIsOpen)
<1>1. GroupsInv => ReportedIsOpen
    <2>1. ASSUME GroupsInv, NEW r \in Revs, NEW c \in ReportedIn(r) \ {NoClaim}
          PROVE  ~ (rows[c].method = "absent_and_addressed" /\ rows[c].at = r)
        <3>1. c \in Claims /\ \E s \in Slots : bound[r][s] = c
            BY <2>1 DEF GroupsInv, Typed, ReportedIn
        <3> QED BY <2>1, <3>1 DEF GroupsInv, ReportKept, AbsentAt
    <2> QED BY <2>1 DEF ReportedIsOpen
<1> QED BY <1>1, GroupsHold, PTL

\* Where tasks and dismissals do not overlap, the resolution rate that a run shows does
\* not pass 100 %: what it counts as settled at its revision it counts as open before.
THEOREM RateBoundedHolds == InTurn => (Spec => []RateBounded)
<1>1. GroupsInv => RateBounded
    <2>1. ASSUME GroupsInv, NEW r \in Revs, NEW prior, stage[r] = "commit", ~tx[r].flush, NEW c \in Claims,
                 PassTransition(Seen(r, c), prior, r), Seen(r, c).method # "human_dismissed"
          PROVE  PassDenominator(Seen(r, c), prior, r)
        <3>1. DOMAIN tx[r].dirty[c] = {} /\ HasTurn(r)
            BY <2>1 DEF GroupsInv, Orderly, InForm, InSession
        <3>2. Now(r, c) = Seen(r, c)
            BY <2>1, <3>1, NowRow, WithRow DEF GroupsInv, Now
        <3>3. ~ NotYet(r) /\ stage[r] \notin Ended
            BY <2>1, <3>1 DEF NotYet, Early, HasTurn, Ended
        <3>4. Fresh(Seen(r, c), r)
            BY <2>1, <3>2, <3>3 DEF GroupsInv, RowsFresh
        <3> QED BY <2>1, <3>4 DEF Fresh, PassTransition, PassDenominator
    <2> QED BY <2>1 DEF RateBounded, Existing
<1> QED BY <1>1, GroupsHold, PTL

\* Where tasks and dismissals do not overlap, a judge status of completed that is about to
\* be committed for the first time leaves no open candidate without an outcome.
THEOREM JudgedWhenCompletedHolds == InTurn => (Spec => []JudgedWhenCompleted)
<1>1. GroupsInv => JudgedWhenCompleted
    <2>1. ASSUME GroupsInv, NEW r \in Revs, stage[r] = "commit", ~tx[r].flush, tx[r].judged = "completed", judged[r] = "none"
          PROVE  ~ Missing(r, Candidates(r, Committed(r)), Committed(r), outcomes \cup tx[r].outs)
        <3>1. Complete(r, report[r], tx[r].bound, Rest(r), outcomes \cup tx[r].outs)
            BY <2>1 DEF GroupsInv, Told, JudgedOf
        <3>2. ASSUME NEW c \in Claims PROVE Now(r, c) = Seen(r, c)
            <4>1. DOMAIN tx[r].dirty[c] = {}
                BY <2>1 DEF GroupsInv, Orderly, InForm
            <4> QED BY <2>1, <4>1, NowRow, WithRow DEF GroupsInv, Now
        <3>3. Rest(r) = Committed(r)
            BY <3>2 DEF Rest, Committed
        <3> QED BY <3>1, <3>3, NothingMissing
    <2> QED BY <2>1 DEF JudgedWhenCompleted
<1> QED BY <1>1, GroupsHold, PTL

\* Where tasks and dismissals do not overlap, what a person has dismissed stays dismissed,
\* whatever later pushes, reports and judgements say of it.
THEOREM DismissalStays == InTurn => (Spec => DismissalHolds)
<1>1. ASSUME InTurn
      PROVE  GroupsInv /\ [Next]_vars =>
               [\A c \in Claims : rows[c].method = "human_dismissed" => rows'[c].method = "human_dismissed"]_vars
    BY <1>1, GroupsStep
<1>2. ASSUME InTurn PROVE Spec => DismissalHolds
    <2>1. Spec => []GroupsInv
        BY <1>2, GroupsHold
    <2> QED BY <1>1, <1>2, <2>1, PTL DEF Spec, DismissalHolds
<1> QED BY <1>2

-----------------------------------------------------------------------------
(* The newest report.                                                      *)

Absent(row) == row.method = "absent_and_addressed"

\* No later review is reconciled.
Newest(r) == \A q \in Revs : q > r => judged[q] = "none"

\* A group that a session binds is open or dismissed, and what the newest reconciled review
\* reports stays so.
HeldOpen ==
    \A r \in Revs : \A c \in Claims :
        /\ (\E s \in Slots : tx[r].bound[s] = c) => ~ Absent(Now(r, c))
        /\ (\E s \in Slots : bound[r][s] = c) /\ Newest(r) =>
             ~ Absent(rows[c]) /\ (stage[r] \notin Ended => ~ Absent(Now(r, c)))

\* Before its review a revision settles nothing, and what is published is reconciled.
InOrder ==
    \A r \in Revs :
        /\ stage[r] \in Early => \A c \in Claims : Now(r, c).method = rows[c].method
        /\ stage[r] \in {"enqueue", "publish", "finish"} => judged[r] # "none"

\* Rows are committed by three actions, and only one of them tells that a review is reconciled.
LEMMA WhoCommits ==
    ASSUME Typed, Orderly, NEW r \in Revs, Step(r) \/ Fail(r)
    PROVE  \/ /\ UNCHANGED <<rows, bound, judged>>
              /\ stage'[r] \in {"enqueue", "publish", "finish"} => stage[r] \in {"enqueue", "publish", "finish"}
           \/ Synced(r) \/ Commit(r) \/ Publish(r)
<1>1. stage[r] \in Stages /\ DOMAIN stage = Revs
    BY DEF Typed
<1>2. ASSUME NEW next, stage' = [stage EXCEPT ![r] = next] PROVE stage'[r] = next
    BY <1>1, <1>2
<1>3. ASSUME stage[r] \in DOMAIN Attempt, FailAttempt(r)
      PROVE  /\ UNCHANGED <<rows, bound, judged>>
             /\ stage'[r] \in {"enqueue", "publish", "finish"} => stage[r] \in {"enqueue", "publish", "finish"}
    <2>1. \/ stage' = [stage EXCEPT ![r] = Attempt[stage[r]]]
          \/ stage' = [stage EXCEPT ![r] = IF Attempt[stage[r]] = "sync" THEN "review" ELSE "failed"]
        BY <1>3 DEF FailAttempt
    <2>2. stage'[r] \in {Attempt[stage[r]], "review", "failed"}
        BY <1>1, <2>1
    <2>3. Attempt[stage[r]] \in {"enqueue", "publish", "finish"} => stage[r] \in {"publish", "finish"}
        BY <1>3 DEF Attempt
    <2> QED BY <1>3, <2>2, <2>3 DEF FailAttempt
<1>4. CASE Load(r) \/ Flush(r) \/ Bind(r)
    BY <1>4 DEF Load, Flush, Bind
<1>5. CASE Sync(r) \/ Review(r) \/ AllBound(r) \/ Suppress(r) \/ Close(r)
    <2>1. \E next \in {"synced", "bind", "skipped", "suppress", "close", "judge"} : stage' = [stage EXCEPT ![r] = next]
        BY <1>5 DEF Sync, Review, AllBound, Suppress, Close, Leave
    <2> QED BY <1>2, <1>5, <2>1 DEF Sync, Review, AllBound, Suppress, Close
<1>6. CASE Judge(r) \/ Verify(r)
    BY <1>2, <1>6 DEF Judge, Verify
<1>7. CASE Enqueue(r) \/ CloseCollapsed(r)
    BY <1>7 DEF Enqueue, CloseCollapsed
<1>8. CASE Fail(r)
    BY <1>3, <1>8 DEF Fail
<1>9. CASE Refused(r)
    <2>1. tx[r].flush /\ tx[r] # NoTx /\ FailAttempt(r)
        BY <1>9, NoTxFacts DEF Refused
    <2>2. stage[r] \notin Ended \cup {"review"}
        BY <2>1 DEF Orderly, InForm
    <2>3. stage[r] \in DOMAIN Attempt
        BY <1>1, <2>2 DEF Stages, Ended, Attempt
    <2> QED BY <1>3, <2>1, <2>3
<1> QED BY <1>4, <1>5, <1>6, <1>7, <1>8, <1>9 DEF Step

\* A session closes nothing as absent that it reports, and what a report opens is open.
LEMMA MovesOpen ==
    ASSUME NEW r, NEW old, NEW new, Sane(old), Blank(old), Moves(r, old, new),
           OpenedAt(r, old, new) \/ (~ Absent(old) /\ Kept(old, r))
    PROVE  ~ Absent(new)
<1>1. CASE OpenedAt(r, old, new)
    BY <1>1 DEF OpenedAt, Same, Absent, Reopens, Sane, Blank, States
<1>2. CASE ~ OpenedAt(r, old, new)
    BY <1>2 DEF Moves, Marked, Lowered, Same, Columns, SettledAt, Absent, Kept
<1> QED BY <1>1, <1>2

LEMMA SessionInOrder ==
    ASSUME Typed, Orderly, Told, InOrder, NEW p \in Revs, Step(p) \/ Fail(p), Sessional(p)
    PROVE  InOrder'
<1>1. ASSUME NEW r \in Revs, stage'[r] \in Early, NEW c \in Claims PROVE Now(r, c)'.method = rows'[c].method
    <2>1. stage[r] \in Early /\ Now(r, c).method = rows[c].method
        BY <1>1 DEF Sessional, InOrder
    <2>2. CASE r = p
        <3>1. Now(p, c)' = rows'[c] \/ (UNCHANGED rows /\ Moves(p, Now(p, c), Now(p, c)'))
            BY RowOrigins
        <3>2. Moves(p, Now(p, c), Now(p, c)') => Now(p, c)'.method = Now(p, c).method
            BY <2>1, <2>2 DEF Moves, Early, Marked, Same
        <3> QED BY <2>1, <2>2, <3>1, <3>2
    <2>3. CASE r # p
        BY <2>1, <2>3, RowOrigins
    <2> QED BY <2>2, <2>3
<1>2. ASSUME NEW r \in Revs, stage'[r] \in {"enqueue", "publish", "finish"} PROVE judged'[r] # "none"
    <2>1. CASE r # p
        BY <1>2, <2>1 DEF Sessional, InOrder
    <2>2. CASE r = p /\ Commit(p)
        BY <2>2 DEF Commit, Told, ToldOf, Typed
    <2>3. CASE r = p /\ (Synced(p) \/ Publish(p))
        <3>1. stage'[p] \in {"review", "skipped", "done"}
            BY <2>3 DEF Synced, Publish, Typed
        <3> QED BY <1>2, <2>3, <3>1
    <2>4. CASE /\ r = p /\ UNCHANGED <<rows, bound, judged>>
               /\ stage'[p] \in {"enqueue", "publish", "finish"} => stage[p] \in {"enqueue", "publish", "finish"}
        BY <1>2, <2>4 DEF InOrder
    <2> QED BY <2>1, <2>2, <2>3, <2>4, WhoCommits
<1> QED BY <1>1, <1>2 DEF InOrder

LEMMA SessionHeldOpen ==
    ASSUME Typed, Orderly, Firm, ReportKept, Told, InOrder, HeldOpen,
           NEW p \in Revs, Step(p) \/ Fail(p), Sessional(p)
    PROVE  HeldOpen'
<1>1. ASSUME NEW r \in Revs, NEW c \in Claims PROVE Sane(Now(r, c)) /\ Blank(Now(r, c))
    BY DEF Firm, Orderly
<1>2. ASSUME NEW r \in Revs, Newest(r)' PROVE Newest(r)
    <2>1. \A q \in Revs : judged'[q] = "none" => judged[q] = "none"
        <3>1. CASE UNCHANGED judged
            BY <3>1
        <3>2. CASE Commit(p)
            <4>1. judged'[p] # "none" /\ \A q \in Revs \ {p} : judged'[q] = judged[q]
                BY <3>2 DEF Commit, Told, ToldOf, Typed
            <4> QED BY <4>1
        <3> QED BY <3>1, <3>2, WhoCommits DEF Synced, Publish
    <2> QED BY <1>2, <2>1 DEF Newest
<1>3. ASSUME NEW r \in Revs, NEW c \in Claims, NEW s \in Slots, tx'[r].bound[s] = c
      PROVE  ~ Absent(Now(r, c)')
    <2>1. CASE p # r
        <3>1. tx'[r] = tx[r] /\ ~ Absent(Now(r, c))
            BY <1>3, <2>1 DEF Sessional, HeldOpen
        <3>2. tx[r] # NoTx
            BY <1>3, <3>1, NoTxFacts, GroupsAssumption
        <3>3. HasTurn(r) /\ stage[r] \notin Ended
            BY <3>2 DEF Orderly, InSession, InForm
        <3> QED BY <2>1, <3>1, <3>3, OthersStay DEF HasTurn
    <2>2. CASE p = r
        <3>1. tx'[r] # NoTx
            BY <1>3, NoTxFacts, GroupsAssumption
        <3>2. Goes(r)
            BY <2>2, <3>1 DEF Sessional, Resets, Saves
        <3>3. Moves(r, Now(r, c), Now(r, c)')
            BY <3>2 DEF Goes
        <3>4. \/ tx[r].bound[s] = c \/ OpenedAt(r, Now(r, c), Now(r, c)') \/ SkipsReport(Now(r, c)')
            BY <1>3, <2>2 DEF Sessional, Attaches
        <3>5. CASE SkipsReport(Now(r, c)')
            BY <3>5 DEF SkipsReport, Absent, Dismissals
        <3>6. CASE tx[r].bound[s] = c \/ OpenedAt(r, Now(r, c), Now(r, c)')
            <4>1. (~ Absent(Now(r, c)) /\ Kept(Now(r, c), r)) \/ OpenedAt(r, Now(r, c), Now(r, c)')
                BY <3>6 DEF ReportKept, HeldOpen
            <4> QED BY <1>1, <3>3, <4>1, MovesOpen
        <3> QED BY <3>4, <3>5, <3>6
    <2> QED BY <2>1, <2>2
<1>4. ASSUME NEW r \in Revs, NEW c \in Claims, \E s \in Slots : bound'[r][s] = c, Newest(r)'
      PROVE  ~ Absent(rows'[c]) /\ (stage'[r] \notin Ended => ~ Absent(Now(r, c)'))
    <2>1. CASE bound'[r] # bound[r]
        <3>1. p = r /\ Saves(r) /\ bound'[r] = tx[r].bound
            BY <2>1 DEF Sessional, Concludes
        <3>2. ~ Absent(Now(r, c))
            BY <1>4, <3>1 DEF HeldOpen
        <3>3. rows'[c] = Now(r, c) /\ Now(r, c)' = rows'[c]
            BY <3>1, RowOrigins DEF Saves
        <3> QED BY <3>2, <3>3
    <2>2. CASE bound'[r] = bound[r] /\ p = r
        <3>1. stage[r] \notin Ended /\ ~ Absent(rows[c]) /\ ~ Absent(Now(r, c)) /\ Kept(Now(r, c), r)
            BY <1>2, <1>4, <2>2 DEF Sessional, HeldOpen, ReportKept
        <3>2. ~ Absent(rows'[c])
            BY <2>2, <3>1, RowOrigins
        <3> QED BY <1>1, <2>2, <3>1, <3>2, RowOrigins, MovesOpen
    <2>3. CASE bound'[r] = bound[r] /\ p # r
        <3>1. /\ ~ Absent(rows[c]) /\ stage'[r] = stage[r] /\ (stage[r] \notin Ended => ~ Absent(Now(r, c)))
              /\ \E s \in Slots : bound[r][s] # NoClaim
            BY <1>2, <1>4, <2>3, GroupsAssumption DEF Sessional, HeldOpen
        <3>2. \A q \in 1 .. (r - 1) : stage[q] \in Ended
            BY <3>1 DEF Orderly
        <3>3. CASE stage[r] \notin Ended
            BY <2>3, <3>1, <3>2, <3>3, OthersStay
        <3>4. CASE stage[r] \in Ended
            <4>1. p > r
                <5>1. p \notin 1 .. (r - 1)
                    BY <3>2 DEF Sessional
                <5> QED BY <2>3, <5>1, RevNumbers
            <4>2. judged'[p] = "none"
                BY <1>4, <4>1 DEF Newest
            <4>3. ~ Commit(p) /\ ~ Publish(p)
                <5>1. ~ Commit(p)
                    BY <4>2 DEF Commit, Told, ToldOf, Typed
                <5>2. ~ Publish(p)
                    BY <4>2 DEF Publish, InOrder
                <5> QED BY <5>1, <5>2
            <4>4. CASE UNCHANGED rows
                BY <3>1, <3>4, <4>4
            <4>5. CASE Synced(p)
                <5>1. Now(p, c).method = rows[c].method
                    BY <4>5 DEF Synced, InOrder, Early
                <5>2. rows'[c] = rows[c] \/ rows'[c] = Now(p, c)
                    BY RowOrigins
                <5> QED BY <3>1, <3>4, <5>1, <5>2 DEF Absent
            <4> QED BY <4>3, <4>4, <4>5, WhoCommits
        <3> QED BY <3>3, <3>4
    <2> QED BY <2>1, <2>2, <2>3
<1> QED BY <1>3, <1>4 DEF HeldOpen

LastInv == GroupsInv /\ InOrder /\ HeldOpen

LEMMA LastStep ==
    ASSUME LastInv, InTurn, [Next]_vars
    PROVE  LastInv'
<1>1. GroupsInv'
    BY GroupsStep DEF LastInv
<1>2. CASE \E r \in Revs : Step(r) \/ Fail(r)
    <2>1. PICK r \in Revs : Step(r) \/ Fail(r)
        BY <1>2
    <2>2. Typed /\ Orderly /\ Firm /\ ReportKept /\ Told
        BY DEF LastInv, GroupsInv
    <2>3. Sessional(r)
        BY <2>1, <2>2, SessionStep
    <2> QED BY <1>1, <2>1, <2>2, <2>3, SessionInOrder, SessionHeldOpen DEF LastInv
<1>3. CASE Push \/ (\E c \in Claims : BeginDismissal(c)) \/ UNCHANGED vars
    <2>1. /\ UNCHANGED <<rows, bound, judged, tx>>
          /\ \A r \in Revs : stage'[r] = stage[r] \/ (stage[r] = "none" /\ stage'[r] \in {"review", "sync"})
        <3>1. CASE Push
            <4>1. head + 1 \in Revs
                BY <3>1, GroupsAssumption DEF Push, Revs, LastInv, GroupsInv, Typed
            <4>2. stage[head + 1] = "none"
                BY <4>1 DEF LastInv, GroupsInv, Typed, Orderly
            <4> QED BY <3>1, <4>1, <4>2 DEF Push, LastInv, GroupsInv, Typed
        <3>2. CASE (\E c \in Claims : BeginDismissal(c)) \/ UNCHANGED vars
            BY <3>2 DEF BeginDismissal, vars
        <3> QED BY <1>3, <3>1, <3>2
    <2>2. ASSUME NEW r \in Revs, NEW c \in Claims PROVE Now(r, c)' = Now(r, c)
        BY <2>1 DEF Now, Seen
    <2>3. InOrder'
        <3>1. \A r \in Revs : stage'[r] \in Early => stage[r] \in Early
            BY <2>1 DEF Early
        <3> QED BY <2>1, <2>2, <3>1 DEF LastInv, InOrder
    <2>4. \A r \in Revs : stage[r] = "none" => tx[r] = NoTx
        BY DEF LastInv, GroupsInv, Orderly, InForm, Ended
    <2>5. HeldOpen'
        <3>1. ASSUME NEW r \in Revs, NEW c \in Claims, \E s \in Slots : bound[r][s] = c, Newest(r)
              PROVE  ~ Absent(rows[c]) /\ (stage'[r] \notin Ended => ~ Absent(Now(r, c)))
            <4>1. ~ Absent(rows[c]) /\ (stage[r] \notin Ended => ~ Absent(Now(r, c)))
                BY <3>1 DEF LastInv, HeldOpen
            <4>2. CASE stage'[r] = stage[r]
                BY <4>1, <4>2
            <4>3. CASE stage[r] = "none"
                BY <2>4, <4>1, <4>3, NoTxNow DEF LastInv, GroupsInv
            <4> QED BY <2>1, <4>2, <4>3
        <3>2. \A r \in Revs : Newest(r)' <=> Newest(r)
            BY <2>1 DEF Newest
        <3> QED BY <2>1, <2>2, <3>1, <3>2 DEF LastInv, HeldOpen
    <2> QED BY <1>1, <2>3, <2>5 DEF LastInv
<1>4. CASE Dismiss
    <2>1. /\ UNCHANGED <<bound, judged, tx, stage>> /\ dismissing # NoRequest
        BY <1>4 DEF Dismiss
    <2>2. \A r \in Revs : tx[r] = NoTx /\ tx'[r] = NoTx
        BY <2>1 DEF LastInv, GroupsInv, Orderly, HasTurn, InSession
    <2>3. PICK c \in Claims :
            /\ DOMAIN rows' = Claims /\ \A d \in Claims \ {c} : rows'[d] = rows[d]
            /\ rows'[c].method = "human_dismissed"
        BY <1>4, DismissedRow DEF LastInv
    <2>4. ASSUME NEW r \in Revs, NEW d \in Claims PROVE Now(r, d)' = rows'[d]
        <3>1. Now(r, d)' = With(With(rows'[d], NoTx.wrote[d]), NoTx.dirty[d])
            BY <2>1, <2>2 DEF Now, Seen
        <3>2. IsRow(rows'[d])
            BY <1>1 DEF GroupsInv, Typed
        <3> QED BY <3>1, <3>2, NothingWritten
    <2>5. \A d \in Claims : ~ Absent(rows[d]) => ~ Absent(rows'[d])
        BY <2>3 DEF Absent
    <2>6. InOrder'
        BY <2>1, <2>4 DEF LastInv, InOrder
    <2>7. \A r \in Revs : \A s \in Slots : tx'[r].bound[s] = NoClaim
        BY <2>2, NoTxFacts
    <2>8. HeldOpen'
        <3>1. \A r \in Revs : Newest(r)' <=> Newest(r)
            BY <2>1 DEF Newest
        <3> QED BY <2>1, <2>4, <2>5, <2>7, <3>1, GroupsAssumption DEF LastInv, HeldOpen
    <2> QED BY <1>1, <2>6, <2>8 DEF LastInv
<1> QED BY <1>2, <1>3, <1>4 DEF Next

\* Where tasks and dismissals do not overlap, what the newest reconciled review reports is
\* not shown as gone: closed before, it is opened again (github_finding_closure_rules,
\* FR-Q13), and neither that review nor a later push closes it, until a later review is
\* reconciled.
THEOREM LastReportStaysOpen == InTurn => (Spec => []LastReportIsOpen)
<1>1. Init => LastInv
    <2>1. ASSUME Init PROVE InOrder /\ HeldOpen
        <3>1. \A r \in Revs : stage[r] = "none" /\ tx[r] = NoTx /\ \A s \in Slots : bound[r][s] = NoClaim
            BY <2>1 DEF Init, NoGroups
        <3>2. \A r \in Revs : \A c \in Claims : Now(r, c) = rows[c]
            BY <2>1, <3>1, GroupsInit, NoTxNow DEF GroupsInv
        <3> QED BY <3>1, <3>2, NoTxFacts, GroupsAssumption DEF InOrder, HeldOpen
    <2> QED BY <2>1, GroupsInit DEF LastInv
<1>2. LastInv => LastReportIsOpen
    <2>1. ASSUME LastInv, NEW r \in Reconciled, NEW c \in ReportedIn(r) \ {NoClaim}, \A q \in Reconciled : q <= r
          PROVE  rows[c].method # "absent_and_addressed"
        <3>1. r \in Revs /\ c \in Claims /\ \E s \in Slots : bound[r][s] = c
            BY <2>1 DEF LastInv, GroupsInv, Typed, ReportedIn, Reconciled
        <3>2. Newest(r)
            BY <2>1, RevNumbers DEF Newest, Reconciled
        <3> QED BY <2>1, <3>1, <3>2 DEF LastInv, HeldOpen, Absent
    <2> QED BY <2>1 DEF LastReportIsOpen
<1>3. ASSUME InTurn PROVE LastInv /\ [Next]_vars => LastInv'
    BY <1>3, LastStep
<1>4. ASSUME InTurn PROVE Spec => []LastReportIsOpen
    BY <1>1, <1>2, <1>3, <1>4, PTL DEF Spec
<1> QED BY <1>4

=============================================================================
