----------------------------- MODULE JudgeCalls -----------------------------
(***************************************************************************)
(* The calls that judge the findings of one review run: the candidates in  *)
(* turn, for each a question that is put once more when its answer does    *)
(* not parse, and every question one post to the provider, or two when it  *)
(* refuses structured output.  The outcomes are committed with the task,   *)
(* which may run again as a whole.                                         *)
(***************************************************************************)
EXTENDS Naturals, Sequences, SequencesExt

CONSTANTS
    Candidates,  \* how many groups are escalated
    MaxPerRun,   \* JUDGE_MAX_PER_RUN
    MaxRetries   \* max_retries of the task

VARIABLES
    structured,  \* the posts ask for structured output; Bedrock's never do
    stored,      \* the outcome rows committed, by candidate
    session,     \* the outcome rows of the transaction
    left,        \* retries left
    at, turn,    \* where the task is, and the candidate it is at
    second,      \* the question is put again
    plain,       \* the post asks for no structured output
    artifacts,   \* what the step tells of every candidate asked for
    steps,       \* the committed steps, with the outcomes there were
    posts,       \* history: posts for the candidate
    questions    \* history: questions for the candidate

place == <<at, turn, second, plain>>
told  == <<posts, questions>>
vars  == <<structured, stored, session, left, place, artifacts, steps, told>>

Init ==
    /\ structured \in BOOLEAN
    /\ stored = <<>> /\ session = <<>>
    /\ left = MaxRetries
    /\ at = "begin" /\ turn = 1 /\ second = FALSE /\ plain = FALSE
    /\ artifacts = <<>> /\ steps = <<>>
    /\ posts = 0 /\ questions = 0

-----------------------------------------------------------------------------

Begin ==
    /\ at = "begin"
    /\ at' = "next" /\ turn' = 1
    /\ session' = <<>> /\ artifacts' = <<>>
    /\ UNCHANGED <<structured, stored, left, second, plain, steps, told>>

\* The candidate has an outcome of this run.
HasRow(c) == c \in Range(stored \o session)

\* The next candidate: passed by when it has its outcome.
NextCandidate ==
    /\ at = "next"
    /\ IF turn > Candidates \/ turn > MaxPerRun
       THEN at' = "judged" /\ UNCHANGED <<turn, second, told>>
       ELSE IF HasRow(turn) THEN turn' = turn + 1 /\ UNCHANGED <<at, second, told>>
       ELSE /\ at' = "ask" /\ second' = FALSE
            /\ posts' = 0 /\ questions' = 0
            /\ UNCHANGED turn
    /\ UNCHANGED <<structured, stored, session, left, plain, artifacts, steps>>

\* judge_finding: a question to the provider.
Ask ==
    /\ at = "ask"
    /\ at' = "post"
    /\ plain' = ~structured
    /\ questions' = questions + 1
    /\ UNCHANGED <<structured, stored, session, left, turn, second, artifacts, steps, posts>>

Posts ==
    /\ at = "post"
    /\ posts' = posts + 1
    /\ UNCHANGED <<structured, stored, left, steps, questions>>

\* The count that is told with the answer.
Retry == IF second THEN 1 ELSE 0

\* Fault: a candidate whose judge failed is not told of.
DoneSilently(outcome, retry) ==
    /\ artifacts' = IF ~outcome THEN artifacts
                    ELSE Append(artifacts, [candidate |-> turn, outcome |-> outcome, retry |-> retry,
                                            questions |-> questions])
    /\ at' = "next" /\ turn' = turn + 1
    /\ UNCHANGED <<second, plain>>

\* The candidate has its artifact; on to the next.
Done(outcome, retry) ==
    /\ artifacts' = Append(artifacts, [candidate |-> turn, outcome |-> outcome, retry |-> retry,
                                       questions |-> questions])
    /\ at' = "next" /\ turn' = turn + 1
    /\ UNCHANGED <<second, plain>>

\* An answer that parses.
Answers ==
    /\ Posts
    /\ session' = Append(session, turn)
    /\ Done(TRUE, Retry)

\* The answer breaks the contract for the first time.
FirstTime == ~second

\* No text, no JSON or no outcome: asked once more with a reminder, then given up.
Garbles ==
    /\ Posts
    /\ IF FirstTime THEN at' = "ask" /\ second' = TRUE /\ UNCHANGED <<artifacts, turn, plain>>
       ELSE Done(FALSE, Retry)
    /\ UNCHANGED session

\* The post asks for structured output.
AsksStructured == ~plain

\* 400 for the structured output: posted again without.
Unsupported ==
    /\ AsksStructured
    /\ Posts
    /\ plain' = TRUE
    /\ UNCHANGED <<session, artifacts, at, turn, second>>

\* An exception that is no parse error carries no count, whichever question it
\* ends.
GivenUp == Done(FALSE, 0)

\* Any other HTTP error, or a body that is none.
Fails ==
    /\ Posts
    /\ GivenUp
    /\ UNCHANGED session

-----------------------------------------------------------------------------

\* The outcomes and the step are committed; the task then hands over.
Commit ==
    /\ at = "judged"
    /\ at' = "committed"
    /\ stored' = stored \o session
    /\ session' = <<>>
    /\ steps' = Append(steps, [had |-> Range(stored), told |-> artifacts])
    /\ UNCHANGED <<structured, left, turn, second, plain, artifacts, told>>

HandOver ==
    /\ at = "committed"
    /\ at' = "over"
    /\ UNCHANGED <<structured, stored, session, left, turn, second, plain, artifacts, steps, told>>

\* Whatever is raised in the task, before the commit or after it.
TryAgain ==
    /\ at \in {"next", "post", "judged", "committed"}
    /\ IF left > 0 THEN at' = "begin" /\ left' = left - 1 ELSE at' = "over" /\ UNCHANGED left
    /\ UNCHANGED <<structured, stored, session, turn, second, plain, artifacts, steps, told>>

Next ==
    \/ Begin \/ NextCandidate \/ Ask
    \/ Answers \/ Garbles \/ Unsupported \/ Fails
    \/ Commit \/ HandOver \/ TryAgain

Spec == Init /\ [][Next]_vars

-----------------------------------------------------------------------------
(* Properties.                                                             *)

\* Types; a candidate is asked for at most twice.
TypeOK ==
    /\ structured \in BOOLEAN /\ second \in BOOLEAN /\ plain \in BOOLEAN
    /\ left \in 0..MaxRetries
    /\ at \in {"begin", "next", "ask", "post", "judged", "committed", "over"}
    /\ turn \in 1..(Candidates + 1)
    /\ Range(stored \o session) \subseteq 1..Candidates
    /\ questions \in 0..2 /\ posts \in Nat

\* A group has one outcome per run, however often the task is run again
\* (github_finding_judge.py:316).
OutcomeOnce == \A i, j \in DOMAIN (stored \o session) :
                  (stored \o session)[i] = (stored \o session)[j] => i = j

\* Two questions of two posts each are what a candidate costs at most: the
\* retry of the contract and the fallback to plain output do not multiply
\* further (anthropic_review.py:452, github_finding_judge.py:82).
PostsPerCandidate == posts <= (IF structured THEN 4 ELSE 2)

\* Every committed judge step tells of every candidate within the limit that
\* had no outcome, once, also when its judge failed (github_finding_judge.py:355).
StepTellsAll ==
    \A s \in Range(steps) :
        LET due == {c \in 1..Candidates : c <= MaxPerRun /\ c \notin s.had}
        IN  /\ Len(s.told) = Cardinality(due)
            /\ {a.candidate : a \in Range(s.told)} = due

\* The retry told with an outcome is the second question; a failure may tell
\* of fewer, never of more (github_finding_judge.py:105).
RetriesTold ==
    \A a \in Range(artifacts) :
        /\ a.outcome => a.retry = a.questions - 1
        /\ a.retry <= a.questions - 1
=============================================================================
