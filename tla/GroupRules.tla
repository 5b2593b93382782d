----------------------------- MODULE GroupRules -----------------------------
(***************************************************************************)
(* The rules on one row of github_finding_groups: when a group is closed,  *)
(* reopened or left alone, what a push says of it, which groups a push or  *)
(* a judge looks at, and the counts of a resolution pass.  A revision is   *)
(* its number; 0 is no revision.                                           *)
(***************************************************************************)
EXTENDS Integers, FiniteSets

States   == {"absent", "active", "resolved"}
Methods  == {"none", "absent_and_addressed", "judge_dismissed", "verification_dismissed",
             "human_dismissed", "head_contradiction"}
Blocks   == {"none", "compare_failed", "head_check_failed"}
Statuses == {"none", "addressed", "still_open", "judge_dismissed"}

Rows(Revs) == [state: States, method: Methods, at: Revs \cup {0}, blocked: Blocks,
               status: Statuses, seen: Revs \cup {0}, severe: BOOLEAN]

NoRow == [state |-> "absent", method |-> "none", at |-> 0, blocked |-> "none",
          status |-> "none", seen |-> 0, severe |-> FALSE]

\* row with the columns of fields in place of its own.
With(row, fields) ==
    [c \in DOMAIN row |-> IF c \in DOMAIN fields THEN fields[c] ELSE row[c]]

\* The columns in which new differs from old: what a flush writes.
Changes(old, new) == [c \in {c \in DOMAIN old : new[c] # old[c]} |-> new[c]]

-----------------------------------------------------------------------------

\* Fault: does not ask whether the run itself reports the group.
ClosesIfGone(row, bound, reported, gone) ==
    row.state = "active" /\ (gone \/ ~reported) /\ row.blocked = "none"

\* A group that is not reported by the run of revision r (bound), where its path
\* is gone or nothing of its file and category is reported (reported).
ClosesAsAbsent(row, bound, reported, gone) ==
    /\ row.state = "active"
    /\ ~bound
    /\ gone \/ ~reported
    /\ row.blocked = "none"

Closure(method, r) ==
    [state |-> "resolved", method |-> method, at |-> r, blocked |-> "none"]

Suppression(r) == [status |-> "none", state |-> "resolved", method |-> "head_contradiction",
                   at |-> r, blocked |-> "none"]

Dismissals == {"judge_dismissed", "verification_dismissed", "human_dismissed"}

\* Fault: a judge's dismissals are skipped, a person's are not.
SkipsJudged(row) == row.state = "resolved" /\ row.method \in {"judge_dismissed", "verification_dismissed", "none"}

\* A finding that maps to a dismissed group changes nothing of it.
SkipsReport(row) == row.state = "resolved" /\ row.method \in Dismissals \cup {"none"}

Reopens(row) == row.state = "resolved" /\ row.method = "absent_and_addressed"

Reopening == [state |-> "active", method |-> "none", at |-> 0, blocked |-> "none"]

\* What a finding reported at r, severe or not, makes of the group it is bound to.
Reported(row, r, severe) ==
    IF SkipsReport(row) THEN row
    ELSE With(IF Reopens(row) THEN With(row, Reopening) ELSE With(row, [state |-> "active"]),
              [seen |-> r, severe |-> severe])

Opened(r, severe) == [NoRow EXCEPT !.state = "active", !.seen = r, !.severe = severe]

-----------------------------------------------------------------------------

\* The last revision before r whose review is published, 0 if there is none, and
\* the revisions from there up to r.
LastPublished(published, r) ==
    LET P == {q \in published : q < r}
    IN  IF P = {} THEN 0 ELSE CHOOSE q \in P : \A p \in P : p <= q

Pairing(prior, r) == prior..(r - 1)

\* resolve_pairing_last_seen_revision_ids: the published revision that stands for
\* the one a group was last seen at.
EffectiveSeen(published, seen) ==
    IF seen \in published \/ LastPublished(published, seen) = 0
    THEN seen ELSE LastPublished(published, seen)

\* Whether a push to r judges the group again; publishedAt holds the published
\* revisions that reported it.
InCohort(row, published, publishedAt, prior, r) ==
    \/ EffectiveSeen(published, row.seen) \in Pairing(prior, r)
    \/ row.seen \in Pairing(prior, r)
    \/ \E q \in publishedAt : q <= r

\* The first loop of a push: the cohort gets a status from the compared patches.
\* touched: the patches touch the group's lines or delete its file.
Paired(row, compared, touched) ==
    IF ~compared THEN With(row, [blocked |-> "compare_failed", status |-> "still_open"])
    ELSE With(row, [blocked |-> "none",
                    status |-> IF row.state = "resolved" THEN "judge_dismissed"
                               ELSE IF touched THEN "addressed" ELSE "still_open"])

\* The second loop: every group that was active looks at its path in the new head,
\* which is gone, there, or could not be looked up.
Cleaned(row, compared, path) ==
    CASE ~compared /\ row.status # "addressed" /\ row.blocked # "compare_failed" /\ path # "there" ->
            With(row, [blocked |-> IF path = "gone" THEN "compare_failed" ELSE "head_check_failed",
                       status |-> "still_open"])
      [] ~compared /\ row.status # "addressed" /\ path = "there" /\ row.blocked = "head_check_failed" ->
            With(row, [blocked |-> "none"])
      [] compared /\ path = "unknown" /\ row.status # "addressed" ->
            With(row, [blocked |-> "head_check_failed", status |-> "still_open"])
      [] compared /\ path = "there" -> With(row, [blocked |-> "none"])
      [] compared /\ path = "gone"  -> With(row, [blocked |-> "none", status |-> "addressed"])
      [] OTHER -> row

\* Groups that the verification judge looks at in the run of r.
Escalates(row, r) ==
    /\ row.state = "active"
    /\ row.status = "still_open"
    /\ row.blocked # "compare_failed"
    /\ row.seen # r
    /\ row.severe

-----------------------------------------------------------------------------
(* The resolution pass that is shown for the run of r: which groups were   *)
(* settled at r, of how many that were open before.                        *)

InPass(row, prior, r) ==
    \/ row.seen \in Pairing(prior, r)
    \/ row.at = r
    \/ row.seen = r /\ row.status # "none"

PathRemoved(row, prior, r) ==
    /\ row.state = "resolved"
    /\ row.method = "absent_and_addressed"
    /\ row.at = r
    /\ row.seen \notin Pairing(prior, r)

\* Fault: groups resolved at r were not open before.
StillOpenOnly(row, prior, r) ==
    InPass(row, prior, r) /\ row.blocked = "none" /\ row.state = "active" /\ ~PathRemoved(row, prior, r)

PassDenominator(row, prior, r) ==
    /\ InPass(row, prior, r)
    /\ row.blocked = "none"
    /\ ~(row.state = "resolved" /\ row.at \notin {0, r})
    /\ ~PathRemoved(row, prior, r)

PassTransition(row, prior, r) ==
    /\ InPass(row, prior, r)
    /\ row.state = "resolved"
    /\ row.at = r
    /\ row.method # "none"
    /\ ~PathRemoved(row, prior, r)

=============================================================================
